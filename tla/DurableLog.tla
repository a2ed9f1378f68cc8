----------------------------- MODULE DurableLog -----------------------------
(***************************************************************************)
(* What the recorder promises about its logs.  Measures are scheduled one  *)
(* at a time; the one that is pending is appended, once, to the log of its *)
(* source.  Only a mishap (a failed call of the file system, a power       *)
(* failure) or the clearing of a log may lose it.  What a log holds stays  *)
(* there until the log is cleared.                                         *)
(***************************************************************************)
EXTENDS Naturals, Sequences

CONSTANT Logs

VARIABLES
  logs,       \* the records each log holds
  pending,    \* the record that is scheduled and not yet stored, if any
  scheduled,  \* how many records have been scheduled
  mishaps,    \* how many mishaps there were
  clearings   \* how many times a log was cleared

vars == <<logs, pending, scheduled, mishaps, clearings>>

Records == [rec : Nat, src : Logs]

Init ==
  /\ logs = [f \in Logs |-> <<>>]
  /\ pending = <<>>
  /\ scheduled = 0
  /\ mishaps = 0
  /\ clearings = 0

Schedule(f) ==
  /\ pending = <<>>
  /\ scheduled' = scheduled + 1
  /\ pending' = <<[rec |-> scheduled + 1, src |-> f]>>
  /\ UNCHANGED <<logs, mishaps, clearings>>

Store ==
  /\ pending # <<>>
  /\ logs' = [logs EXCEPT ![pending[1].src] = Append(@, pending[1])]
  /\ pending' = <<>>
  /\ UNCHANGED <<scheduled, mishaps, clearings>>

Mishap ==
  /\ mishaps' = mishaps + 1
  /\ pending' \in {pending, <<>>}
  /\ UNCHANGED <<logs, scheduled, clearings>>

\* The record that is pending may go with the log it was to be stored in.
Clear(f) ==
  /\ clearings' = clearings + 1
  /\ logs' = [logs EXCEPT ![f] = <<>>]
  /\ \/ UNCHANGED pending
     \/ pending # <<>> /\ pending[1].src = f /\ pending' = <<>>
  /\ UNCHANGED <<scheduled, mishaps>>

Next ==
  \/ \E f \in Logs : Schedule(f) \/ Clear(f)
  \/ Store
  \/ Mishap

Spec == Init /\ [][Next]_vars

----------------------------------------------------------------------------
TypeOK ==
  /\ logs \in [Logs -> Seq(Records)]
  /\ pending \in Seq(Records) /\ Len(pending) <= 1
  /\ scheduled \in Nat
  /\ mishaps \in Nat
  /\ clearings \in Nat

\* A log holds records of its own source only.
NoMisfiling == \A f \in Logs : \A i \in DOMAIN logs[f] : logs[f][i].src = f

\* The records of a log are in the order they were scheduled, none of them twice.
InOrder ==
  \A f \in Logs : \A i, j \in DOMAIN logs[f] : i < j => logs[f][i].rec < logs[f][j].rec

LogIntegrity == NoMisfiling /\ InOrder

\* What is stored was scheduled before what is pending: the invariant that makes
\* LogIntegrity inductive.
StoredBefore ==
  /\ \A f \in Logs : \A i \in DOMAIN logs[f] :
        /\ logs[f][i].rec <= scheduled
        /\ pending # <<>> => logs[f][i].rec < pending[1].rec
  /\ pending # <<>> => pending[1].rec <= scheduled

=============================================================================
