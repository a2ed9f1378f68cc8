------------------------------ MODULE UsartFifo ------------------------------
(***************************************************************************)
(* The receive FIFO of the GNSS serial port (usart_FIFO.c): the UART2      *)
(* interrupt puts what it receives (system_interrupt.c), the main loop     *)
(* gets characters one at a time to show them (app.c) or a record to store *)
(* (Mc32_sdFatGest.c).  Nothing masks the interrupt: it comes between any  *)
(* two memory accesses of the main loop, and runs as one step.             *)
(***************************************************************************)
EXTENDS Integers, Sequences

CONSTANTS
  Size,   \* FIFO_RX_SIZE
  Chars,  \* what the receiver may receive
  NL,     \* the end of line
  NUL     \* the value the array is filled with, and what a get returns when empty

ASSUME FifoAssumption ==
  /\ Size \in Nat /\ Size > 1
  /\ NL \in Chars /\ NUL \in Chars /\ NL # NUL

VARIABLES
  a_fifoRx,  \* the array
  pWrite,    \* where the interrupt puts, as an offset in the array
  pRead,     \* where the main loop gets; for a moment, the offset after the last
  pc,        \* the next step of the main loop
  charRead,  \* what getCharFromFifo has read
  left,      \* how many characters the main loop still gets, this one included
  over       \* whether it goes on after that, past the end of fifoBuffer

fifoVars == <<a_fifoRx, pWrite, pRead>>
mainVars == <<pc, charRead, left, over>>
vars == <<fifoVars, mainVars>>

Offsets == 0..(Size - 1)

----------------------------------------------------------------------------
\* A difference of pointers that is negative goes once round the array.
Around(n) == IF n < 0 THEN n + Size ELSE n

\* A pointer beyond the tail goes back to the head.
Rebound(p) == IF p > Size - 1 THEN 0 ELSE p

getWriteSpace == Around(pRead - pWrite - 1)
getReadSize   == Around(pWrite - pRead)

\* Variant: a full FIFO is not refused.
putCharInFifo_Unchecked(c) ==
  /\ a_fifoRx' = [a_fifoRx EXCEPT ![pWrite] = c]
  /\ pWrite' = Rebound(pWrite + 1)
  /\ UNCHANGED pRead

\* The status it returns when the FIFO is full is not looked at by the interrupt.
putCharInFifo(c) ==
  IF getWriteSpace = 0
  THEN UNCHANGED fifoVars
  ELSE /\ a_fifoRx' = [a_fifoRx EXCEPT ![pWrite] = c]
       /\ pWrite' = Rebound(pWrite + 1)
       /\ UNCHANGED pRead

\* The UART2 interrupt, for one character received without an error.
Receive ==
  /\ \E c \in Chars : putCharInFifo(c)
  /\ UNCHANGED mainVars

----------------------------------------------------------------------------
(* getCharFromFifo, one step per access to what the interrupt shares.      *)

CheckEmpty ==
  /\ pc = "size"
  /\ IF getReadSize = 0
     THEN pc' = "return" /\ charRead' = NUL
     ELSE pc' = "read" /\ UNCHANGED charRead
  /\ UNCHANGED <<fifoVars, left, over>>

ReadChar ==
  /\ pc = "read"
  /\ charRead' = a_fifoRx[pRead]
  /\ pc' = "advance"
  /\ UNCHANGED <<fifoVars, left, over>>

\* Variant: the pointer never goes back to the head.
AdvanceRead_NoRebound ==
  /\ pc = "advance"
  /\ pRead' = pRead + 1 /\ pc' = "return"
  /\ UNCHANGED <<a_fifoRx, pWrite, charRead, left, over>>

\* The pointer is not volatile: the build may store it before it tests it against
\* the tail, or only after.
AdvanceRead ==
  /\ pc = "advance"
  /\ \/ pRead' = pRead + 1 /\ pc' = "rebound"
     \/ pRead' = Rebound(pRead + 1) /\ pc' = "return"
  /\ UNCHANGED <<a_fifoRx, pWrite, charRead, left, over>>

ReboundRead ==
  /\ pc = "rebound"
  /\ pRead' = Rebound(pRead)
  /\ pc' = "return"
  /\ UNCHANGED <<a_fifoRx, pWrite, charRead, left, over>>

\* Variant: the caller goes on until the FIFO is empty.
ReturnChar_UntilEmpty ==
  /\ pc = "return"
  /\ pc' = IF getReadSize > 0 THEN "size" ELSE "idle"
  /\ UNCHANGED <<fifoVars, charRead, left, over>>

NextChar ==
  /\ left > 1
  /\ left' = left - 1 /\ pc' = "size"

LastChar ==
  /\ left = 1 /\ ~over
  /\ left' = 0 /\ pc' = "idle"

\* fifoBuffer is full and the loop goes on: it stores over the stack, where it may
\* come to its end or be stopped by what it has destroyed, or by the end of the RAM.
Overrun ==
  /\ left = 1 /\ over
  /\ left' = left /\ pc' \in {"size", "idle", "overrun"}

ReturnChar ==
  /\ pc = "return"
  /\ NextChar \/ LastChar \/ Overrun
  /\ UNCHANGED <<fifoVars, charRead, over>>

----------------------------------------------------------------------------
(* The two callers.                                                        *)

\* APP_STATE_COMM_LIVE_GNSS: one character, if there is one.
LiveGet ==
  /\ pc = "idle" /\ getReadSize > 0
  /\ pc' = "size" /\ left' = 1 /\ over' = FALSE
  /\ UNCHANGED <<fifoVars, charRead>>

\* The offsets strrchr searches for the last end of line: those before the first
\* NUL of the array, wherever pRead and pWrite are.
Searched == {p \in Offsets : \A k \in 0..p : a_fifoRx[k] # NUL}
Returns  == {p \in Searched : a_fifoRx[p] = NL}

\* Any number greater than the size of fifoBuffer, which is that of the array.
Beyond == Size + 1

\* What getFifoToLastReturn takes as the number of characters: the offset of that
\* end of line.  Without one, the difference of a null pointer and &a_fifoRx[0],
\* which on the PIC32MX is 0x80000000 or above: as an int32_t, a huge number.  In an
\* array without a NUL the search goes on in the memory that follows.
ArraySizes ==
  (IF Returns = {} THEN {Beyond} ELSE {p \in Returns : \A r \in Returns : r <= p})
    \cup (IF Searched = Offsets THEN {Size, Beyond} ELSE {})

\* How many of them fit in fifoBuffer; the first character is got in any case.
Fitting(n) == IF n < 1 THEN 1 ELSE IF n > Size THEN Size ELSE n

\* sd_GNSS_scheduleWrite
getFifoToLastReturn ==
  /\ pc = "idle"
  /\ pc' = "size"
  /\ \E n \in ArraySizes : left' = Fitting(n) /\ over' = (n > Size)
  /\ UNCHANGED <<fifoVars, charRead>>

----------------------------------------------------------------------------
\* initFifo
Init ==
  /\ a_fifoRx = [p \in Offsets |-> NUL]
  /\ pWrite = 0 /\ pRead = 0
  /\ pc = "idle" /\ charRead = NUL /\ left = 0 /\ over = FALSE

getCharFromFifo == CheckEmpty \/ ReadChar \/ AdvanceRead \/ ReboundRead \/ ReturnChar

Next == Receive \/ getCharFromFifo \/ LiveGet \/ getFifoToLastReturn

Spec == Init /\ [][Next]_vars

\* The main loop goes on between the interrupts.
FairSpec == Spec /\ WF_vars(getCharFromFifo)

----------------------------------------------------------------------------
TypeOK ==
  /\ a_fifoRx \in [Offsets -> Chars]
  /\ pWrite \in Offsets
  /\ pRead \in 0..Size
  /\ pc \in {"idle", "size", "read", "advance", "rebound", "return", "overrun"}
  /\ pRead = Size => pc = "rebound"
  /\ charRead \in Chars
  /\ left \in 0..Size /\ over \in BOOLEAN

\* The characters in the FIFO, the oldest first, also while pRead is beyond the tail.
First   == Rebound(pRead)
Used    == Around(pWrite - First)
Slot(i) == IF First + i - 1 < Size THEN First + i - 1 ELSE First + i - 1 - Size
Content == [i \in 1..Used |-> a_fifoRx[Slot(i)]]

Queue == INSTANCE BoundedQueue WITH
  Capacity <- Size - 1, q <- Content, out <- charRead, taking <- pc = "advance"

\* Put by the interrupt between any two accesses of the main loop, characters come
\* out once each, in the order they came in; only a full FIFO refuses one, and only
\* an empty one gives a NUL of its own.
IsQueue == Queue!Spec

\* A record that fits in fifoBuffer ends, however fast characters come in: its length
\* does not follow what the interrupt adds.  One that does not fit (usart_FIFO.c:200,
\* no end of line in the array) is excepted: nothing says how it ends.
RecordEnds == (pc = "size" /\ ~over) ~> (pc = "idle")

=============================================================================
