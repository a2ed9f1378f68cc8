---------------------------- MODULE BoundedQueue ----------------------------
(***************************************************************************)
(* What the FIFO of the serial port promises (usart_FIFO.c), whatever the  *)
(* order in which the receive interrupt puts characters and the main loop  *)
(* gets them: a queue of bounded length.  A get takes two steps, the       *)
(* character is copied and then dropped from the queue; characters may be  *)
(* put in between.  A full queue refuses what is put.                      *)
(***************************************************************************)
EXTENDS Naturals, Sequences

CONSTANTS
  Capacity,  \* how many characters the queue holds
  Chars,     \* the characters
  NUL        \* what a get from an empty queue returns

VARIABLES
  q,      \* the characters put and not yet dropped
  out,    \* the character the last get returned
  taking  \* a character is copied and not yet dropped

vars == <<q, out, taking>>

Init == q = <<>> /\ out = NUL /\ taking = FALSE

Put == \E c \in Chars :
  /\ q' = IF Len(q) < Capacity THEN Append(q, c) ELSE q
  /\ UNCHANGED <<out, taking>>

Take ==
  /\ ~taking /\ q # <<>>
  /\ out' = Head(q) /\ taking' = TRUE
  /\ UNCHANGED q

Drop ==
  /\ taking
  /\ q' = Tail(q) /\ taking' = FALSE
  /\ UNCHANGED out

Miss ==
  /\ ~taking /\ q = <<>>
  /\ out' = NUL
  /\ UNCHANGED <<q, taking>>

Next == Put \/ Take \/ Drop \/ Miss

Spec == Init /\ [][Next]_vars

=============================================================================
