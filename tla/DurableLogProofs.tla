-------------------------- MODULE DurableLogProofs --------------------------
(***************************************************************************)
(* Proofs about DurableLog, for any set of logs: what the logs hold.       *)
(***************************************************************************)
EXTENDS DurableLog, TLAPS

\* The invariant is inductive: a record is numbered after all that are stored, and
\* stays so until it is stored itself.
IInv == TypeOK /\ NoMisfiling /\ InOrder /\ StoredBefore

\* The empty logs are in order.
LEMMA InitIInv == Init => IInv
  BY DEF Init, IInv, TypeOK, NoMisfiling, InOrder, StoredBefore, Records

\* A new record comes after everything that is stored.
LEMMA ScheduleIInv ==
  ASSUME IInv, NEW f \in Logs, Schedule(f)
  PROVE  IInv'
  <1>1. pending' = <<[rec |-> scheduled + 1, src |-> f]>> /\ scheduled' = scheduled + 1
        /\ logs' = logs /\ mishaps' = mishaps /\ clearings' = clearings
    BY DEF Schedule
  <1>2. TypeOK'
    <2>1. [rec |-> scheduled + 1, src |-> f] \in Records /\ scheduled + 1 \in Nat
      BY DEF IInv, TypeOK, Records
    <2>2. pending' \in Seq(Records) /\ Len(pending') = 1
      BY <1>1, <2>1
    <2> QED
      BY <1>1, <2>1, <2>2 DEF IInv, TypeOK
  <1>3. NoMisfiling' /\ InOrder'
    BY <1>1 DEF IInv, NoMisfiling, InOrder
  <1>4. StoredBefore'
    <2>1. ASSUME NEW g \in Logs, NEW i \in DOMAIN logs[g]
          PROVE  logs[g][i].rec \in Nat /\ logs[g][i].rec <= scheduled
      <3>1. logs[g] \in Seq(Records)
        BY DEF IInv, TypeOK
      <3>2. logs[g][i] \in Records
        BY <3>1
      <3> QED
        BY <3>2 DEF IInv, StoredBefore, Records
    <2>2. pending'[1].rec = scheduled + 1 /\ scheduled \in Nat
      BY <1>1 DEF IInv, TypeOK
    <2> QED
      BY <1>1, <2>1, <2>2 DEF StoredBefore
  <1> QED
    BY <1>2, <1>3, <1>4 DEF IInv

\* The record that is stored comes last in the log of its source.
LEMMA StoreIInv ==
  ASSUME IInv, Store
  PROVE  IInv'
  <1> DEFINE r == pending[1]
  <1>1. r \in Records /\ r.src \in Logs /\ r.rec \in Nat /\ r.rec <= scheduled
    <2>1. pending \in Seq(Records) /\ pending # <<>>
      BY DEF IInv, TypeOK, Store
    <2>2. r \in Records
      BY <2>1
    <2>3. r.rec <= scheduled
      BY <2>1 DEF IInv, StoredBefore
    <2> QED
      BY <2>2, <2>3 DEF Records
  <1>2. /\ pending' = <<>> /\ scheduled' = scheduled
        /\ mishaps' = mishaps /\ clearings' = clearings
        /\ logs' = [logs EXCEPT ![r.src] = Append(@, r)]
    BY DEF Store
  <1>3. TypeOK'
    BY <1>1, <1>2 DEF IInv, TypeOK
  <1>4. ASSUME NEW f \in Logs, NEW i \in DOMAIN logs'[f]
        PROVE  \/ i \in DOMAIN logs[f] /\ logs'[f][i] = logs[f][i]
               \/ f = r.src /\ i = Len(logs[f]) + 1 /\ logs'[f][i] = r
    <2>1. logs[f] \in Seq(Records)
      BY DEF IInv, TypeOK
    <2>2. CASE f = r.src
      <3>1. logs'[f] = Append(logs[f], r)
        BY <1>2, <2>2 DEF IInv, TypeOK
      <3> QED
        BY <1>1, <2>1, <2>2, <3>1
    <2>3. CASE f # r.src
      BY <1>2, <2>3 DEF IInv, TypeOK
    <2> QED
      BY <2>2, <2>3
  <1>5. NoMisfiling'
    BY <1>4 DEF IInv, NoMisfiling
  <1>6. InOrder'
    <2> SUFFICES ASSUME NEW f \in Logs, NEW i \in DOMAIN logs'[f],
                        NEW j \in DOMAIN logs'[f], i < j
                 PROVE  logs'[f][i].rec < logs'[f][j].rec
      BY DEF InOrder
    <2>1. logs[f] \in Seq(Records) /\ DOMAIN logs[f] = 1..Len(logs[f]) /\ Len(logs[f]) \in Nat
      BY DEF IInv, TypeOK
    <2>2. CASE j \in DOMAIN logs[f] /\ logs'[f][j] = logs[f][j]
      <3>1. i \in DOMAIN logs[f] /\ logs'[f][i] = logs[f][i]
        BY <1>4, <2>1, <2>2
      <3> QED
        BY <2>2, <3>1 DEF IInv, InOrder
    <2>3. CASE j = Len(logs[f]) + 1 /\ logs'[f][j] = r
      <3>1. i \in DOMAIN logs[f] /\ logs'[f][i] = logs[f][i]
        BY <1>4, <2>1, <2>3
      <3>2. logs[f][i].rec < r.rec
        BY <3>1 DEF IInv, StoredBefore, Store
      <3> QED
        BY <2>3, <3>1, <3>2
    <2> QED
      BY <1>4, <2>2, <2>3
  <1>7. StoredBefore'
    <2>1. ASSUME NEW f \in Logs, NEW i \in DOMAIN logs'[f]
          PROVE  logs'[f][i].rec <= scheduled
      BY <1>1, <1>4 DEF IInv, StoredBefore
    <2> QED
      BY <1>2, <2>1 DEF StoredBefore
  <1> QED
    BY <1>3, <1>5, <1>6, <1>7 DEF IInv

\* No record is pending.
LEMMA EmptyPending == <<>> \in Seq(Records) /\ Len(<<>>) <= 1
  OBVIOUS

\* A mishap only loses the record that is pending.
LEMMA MishapIInv ==
  ASSUME IInv, Mishap
  PROVE  IInv'
  <1>1. logs' = logs /\ scheduled' = scheduled /\ mishaps' = mishaps + 1
        /\ clearings' = clearings
        /\ (pending' = pending \/ pending' = <<>>)
    BY DEF Mishap
  <1>2. TypeOK'
    <2>1. pending' \in Seq(Records) /\ Len(pending') <= 1
      BY <1>1, EmptyPending DEF IInv, TypeOK
    <2> QED
      BY <1>1, <2>1 DEF IInv, TypeOK
  <1>3. NoMisfiling' /\ InOrder'
    BY <1>1 DEF IInv, NoMisfiling, InOrder
  <1>4. StoredBefore'
    BY <1>1 DEF IInv, StoredBefore
  <1> QED
    BY <1>2, <1>3, <1>4 DEF IInv

\* So does the clearing of a log, which leaves that log empty.
LEMMA ClearIInv ==
  ASSUME IInv, NEW f \in Logs, Clear(f)
  PROVE  IInv'
  <1>1. /\ logs' = [logs EXCEPT ![f] = <<>>]
        /\ scheduled' = scheduled /\ mishaps' = mishaps /\ clearings' = clearings + 1
        /\ pending' = pending \/ pending' = <<>>
    BY DEF Clear
  <1>2. \A g \in Logs : logs'[g] = IF g = f THEN <<>> ELSE logs[g]
    BY <1>1 DEF IInv, TypeOK
  <1>3. \A g \in Logs : \A i \in DOMAIN logs'[g] :
           g # f /\ i \in DOMAIN logs[g] /\ logs'[g][i] = logs[g][i]
    BY <1>2
  <1>4. TypeOK'
    <2>1. pending' \in Seq(Records) /\ Len(pending') <= 1
      BY <1>1, EmptyPending DEF IInv, TypeOK
    <2>2. logs' \in [Logs -> Seq(Records)]
      BY <1>1, EmptyPending DEF IInv, TypeOK
    <2> QED
      BY <1>1, <2>1, <2>2 DEF IInv, TypeOK
  <1>5. NoMisfiling'
    BY <1>3 DEF IInv, NoMisfiling
  <1>6. InOrder'
    BY <1>3 DEF IInv, InOrder
  <1>7. StoredBefore'
    BY <1>1, <1>3 DEF IInv, StoredBefore
  <1> QED
    BY <1>4, <1>5, <1>6, <1>7 DEF IInv

\* Every reachable state satisfies the inductive invariant.
THEOREM Inductive == Spec => []IInv
  <1>1. ASSUME IInv, [Next]_vars PROVE IInv'
    <2>1. CASE UNCHANGED vars
      BY <2>1, <1>1 DEF vars, IInv, TypeOK, NoMisfiling, InOrder, StoredBefore
    <2>2. CASE Next
      BY <1>1, <2>2, ScheduleIInv, StoreIInv, MishapIInv, ClearIInv DEF Next
    <2> QED
      BY <1>1, <2>1, <2>2
  <1> QED
    BY InitIInv, <1>1, PTL DEF Spec

\* Whatever the mishaps, a log holds records of its own source only, in the order
\* they were scheduled, none of them twice.
THEOREM LogsKeepTheirIntegrity == Spec => []LogIntegrity
  <1>1. IInv => LogIntegrity
    BY DEF IInv, LogIntegrity
  <1> QED
    BY Inductive, <1>1, PTL

=============================================================================
