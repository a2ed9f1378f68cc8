--------------------------- MODULE UsartFifoProofs ---------------------------
(***************************************************************************)
(* Proofs about UsartFifo, for an array of any size: the array with its    *)
(* two pointers is a queue, whenever the interrupt comes.                  *)
(***************************************************************************)
EXTENDS UsartFifo, SequenceTheorems, TLAPS

\* The invariant is inductive: what the main loop found in the FIFO when it looked
\* is still there when it takes it.
IInv ==
  /\ TypeOK
  /\ pc \notin {"idle", "overrun"} => left >= 1
  /\ pc \in {"read", "advance"} => Used > 0

----------------------------------------------------------------------------
(* The arithmetic of the pointers.                                         *)

\* One slot is never used; what is free and what is used make up the others, also
\* while pRead is beyond the tail.
LEMMA Space ==
  ASSUME TypeOK
  PROVE  /\ First \in Offsets
         /\ Used \in 0..(Size - 1)
         /\ getWriteSpace = Size - 1 - Used
  BY FifoAssumption, SMT DEF TypeOK, Offsets, First, Used, Rebound, Around, getWriteSpace

\* Away from the tail, what can be read is what is used.
LEMMA ReadSize ==
  ASSUME TypeOK, pc # "rebound"
  PROVE  getReadSize = Used /\ First = pRead
  BY FifoAssumption, SMT DEF TypeOK, Offsets, First, Used, Rebound, Around, getReadSize

\* The slots of the characters, the one the interrupt writes next comes after them.
LEMMA Slots ==
  ASSUME TypeOK
  PROVE  /\ \A i \in 1..Used : Slot(i) \in Offsets /\ Slot(i) # pWrite
         /\ Slot(Used + 1) = pWrite
         /\ Slot(1) = First
  BY FifoAssumption, SMT DEF TypeOK, Offsets, Slot, First, Used, Rebound, Around

\* The content is a sequence of characters.
LEMMA ContentSeq ==
  ASSUME TypeOK
  PROVE  /\ Content \in Seq(Chars)
         /\ Len(Content) = Used
         /\ \A i \in 1..Used : Content[i] = a_fifoRx[Slot(i)]
  <1>1. Used \in Nat
    BY Space
  <1>2. \A i \in 1..Used : a_fifoRx[Slot(i)] \in Chars
    BY Slots DEF TypeOK
  <1> QED
    BY <1>1, <1>2 DEF Content

----------------------------------------------------------------------------
(* What each step does to the content.                                     *)

\* A character that is put comes last.
LEMMA PutAppends ==
  ASSUME TypeOK, NEW c \in Chars, putCharInFifo(c), pc' = pc
  PROVE  /\ Content' = IF Len(Content) < Size - 1 THEN Append(Content, c) ELSE Content
         /\ Used' \in {Used, Used + 1}
         /\ a_fifoRx' \in [Offsets -> Chars] /\ pWrite' \in Offsets /\ pRead' = pRead
  <1>1. CASE getWriteSpace = 0
    <2>1. UNCHANGED fifoVars
      BY <1>1 DEF putCharInFifo
    <2>2. Content' = Content /\ Used' = Used
      BY <2>1 DEF fifoVars, Content, Used, Slot, First
    <2>3. Len(Content) = Size - 1
      BY <1>1, Space, ContentSeq, FifoAssumption
    <2> QED
      BY <2>1, <2>2, <2>3, Space, FifoAssumption DEF fifoVars, TypeOK
  <1>2. CASE getWriteSpace # 0
    <2>1. /\ a_fifoRx' = [a_fifoRx EXCEPT ![pWrite] = c]
          /\ pWrite' = Rebound(pWrite + 1) /\ pRead' = pRead
      BY <1>2 DEF putCharInFifo
    <2>2. Used < Size - 1 /\ Used \in Nat
      BY <1>2, Space, FifoAssumption
    <2>3. First' = First /\ \A i \in Nat : Slot(i)' = Slot(i)
      BY <2>1 DEF First, Slot
    <2>4. Used' = Used + 1 /\ pWrite' \in Offsets
      BY <2>1, <2>2, <2>3, Space, FifoAssumption, SMT DEF Used, Around, Rebound, TypeOK, Offsets
    <2>5. Content' = [i \in 1..(Used + 1) |-> a_fifoRx'[Slot(i)]]
      BY <2>2, <2>3, <2>4 DEF Content
    <2>6. \A i \in 1..Used : a_fifoRx'[Slot(i)] = a_fifoRx[Slot(i)]
      BY <2>1, Slots DEF TypeOK
    <2>7. a_fifoRx'[Slot(Used + 1)] = c
      BY <2>1, Slots DEF TypeOK
    <2>8. Content' = Append(Content, c)
      <3>1. /\ Append(Content, c) \in Seq(Chars) /\ Len(Append(Content, c)) = Used + 1
            /\ \A i \in 1..(Used + 1) :
                 Append(Content, c)[i] = IF i = Used + 1 THEN c ELSE Content[i]
        BY <2>2, ContentSeq, AppendProperties
      <3>2. \A i \in 1..(Used + 1) : a_fifoRx'[Slot(i)] = Append(Content, c)[i]
        BY <2>2, <2>6, <2>7, <3>1, ContentSeq
      <3>3. Append(Content, c) = [i \in 1..(Used + 1) |-> Append(Content, c)[i]]
        BY <3>1, LenProperties
      <3> QED
        BY <2>5, <3>2, <3>3, Zenon
    <2>9. a_fifoRx' \in [Offsets -> Chars]
      BY <2>1 DEF TypeOK
    <2> QED
      BY <2>1, <2>2, <2>4, <2>8, <2>9, ContentSeq
  <1> QED
    BY <1>1, <1>2

\* A step beyond the last character drops it, whether or not the pointer has gone
\* back to the head yet.
LEMMA AdvanceDrops ==
  ASSUME TypeOK, pc = "advance", Used > 0, AdvanceRead
  PROVE  Content' = Tail(Content) /\ Content # <<>>
  <1>1. UNCHANGED <<a_fifoRx, pWrite>> /\ pRead' \in {pRead + 1, Rebound(pRead + 1)}
    BY DEF AdvanceRead
  <1>2. pRead \in Offsets /\ First = pRead
    BY ReadSize, FifoAssumption DEF TypeOK, Offsets
  <1>3. First' = Rebound(First + 1)
    BY <1>1, <1>2, FifoAssumption, SMT DEF First, Rebound, Offsets
  <1>4. Used' = Used - 1 /\ Used \in Nat
    BY <1>1, <1>3, Space, FifoAssumption, SMT DEF Used, Around, Rebound, Offsets, TypeOK
  <1>5. \A i \in 1..(Used - 1) : Slot(i)' = Slot(i + 1)
    BY <1>3, <1>4, Space, FifoAssumption, SMT DEF Slot, Rebound, Offsets
  <1>6. Content' = [i \in 1..(Used - 1) |-> a_fifoRx[Slot(i + 1)]]
    BY <1>1, <1>4, <1>5 DEF Content
  <1>7. Content # <<>> /\ Content \in Seq(Chars) /\ Len(Content) = Used
    BY ContentSeq, <1>4
  <1>8. /\ Tail(Content) \in Seq(Chars) /\ Len(Tail(Content)) = Used - 1
        /\ \A i \in 1..(Used - 1) : Tail(Content)[i] = Content[i + 1]
    BY <1>7, HeadTailProperties
  <1>9. \A i \in 1..(Used - 1) : Content[i + 1] = a_fifoRx[Slot(i + 1)]
    BY <1>4, ContentSeq
  <1>10. Tail(Content) = [i \in 1..(Used - 1) |-> Tail(Content)[i]]
    BY <1>8, LenProperties
  <1> QED
    BY <1>6, <1>7, <1>8, <1>9, <1>10

\* Going back to the head changes nothing of the content.
LEMMA ReboundKeeps ==
  ASSUME TypeOK, ReboundRead
  PROVE  Content' = Content /\ Used' = Used
  <1>1. UNCHANGED <<a_fifoRx, pWrite>> /\ First' = First
    BY FifoAssumption, SMT DEF ReboundRead, First, Rebound, TypeOK, Offsets
  <1> QED
    BY <1>1 DEF Content, Used, Slot

\* Steps that leave the FIFO alone leave its content alone.
LEMMA FifoUnchanged ==
  ASSUME UNCHANGED fifoVars
  PROVE  Content' = Content /\ Used' = Used
  BY DEF fifoVars, Content, Used, Slot, First

----------------------------------------------------------------------------
(* The inductive invariant.                                                *)

\* The FIFO starts empty.
LEMMA InitIInv == Init => IInv
  <1> SUFFICES ASSUME Init PROVE IInv
    OBVIOUS
  <1>1. over \in BOOLEAN
    BY DEF Init
  <1>2. left \in 0..Size /\ pRead \in 0..(Size - 1) /\ pWrite \in 0..(Size - 1) /\ pc = "idle"
    BY FifoAssumption DEF Init
  <1>3. a_fifoRx \in [Offsets -> Chars] /\ charRead \in Chars
    BY FifoAssumption DEF Init
  <1> QED
    BY <1>1, <1>2, <1>3, FifoAssumption DEF IInv, TypeOK, Offsets

\* The interrupt only adds to what is used.
LEMMA ReceiveIInv ==
  ASSUME IInv, Receive
  PROVE  IInv'
  <1>1. PICK c \in Chars : putCharInFifo(c) /\ UNCHANGED mainVars
    BY DEF Receive
  <1>2. Used' \in {Used, Used + 1} /\ a_fifoRx' \in [Offsets -> Chars] /\ pWrite' \in Offsets
        /\ pRead' = pRead
    BY <1>1, PutAppends DEF IInv, mainVars
  <1>3. TypeOK'
    BY <1>1, <1>2 DEF IInv, TypeOK, mainVars
  <1> QED
    BY <1>1, <1>2, <1>3, Space DEF IInv, mainVars

\* The main loop only takes what it has seen.
LEMMA GetIInv ==
  ASSUME IInv, getCharFromFifo
  PROVE  IInv'
  <1> USE FifoAssumption DEF IInv, TypeOK
  <1>1. CASE CheckEmpty
    <2>1. UNCHANGED fifoVars
      BY <1>1 DEF CheckEmpty
    <2>2. Used' = Used /\ (pc' = "read" => Used > 0)
      BY <1>1, <2>1, FifoUnchanged, ReadSize, Space DEF CheckEmpty
    <2>3. charRead' \in Chars /\ pc' \in {"return", "read"} /\ left' = left /\ over' = over /\ pc = "size"
      BY <1>1 DEF CheckEmpty
    <2> QED
      BY <2>1, <2>2, <2>3 DEF fifoVars
  <1>2. CASE ReadChar
    <2>1. Used' = Used
      BY <1>2, FifoUnchanged DEF ReadChar
    <2>2. a_fifoRx[pRead] \in Chars
      BY <1>2 DEF ReadChar, Offsets
    <2> QED
      BY <1>2, <2>1, <2>2 DEF ReadChar, fifoVars
  <1>3. CASE AdvanceRead
    <2>1. pRead \in Offsets
      BY <1>3 DEF AdvanceRead, Offsets
    <2>2. /\ pRead + 1 \in 0..Size
          /\ Rebound(pRead + 1) \in 0..(Size - 1)
      BY <2>1 DEF Rebound, Offsets
    <2> QED
      BY <1>3, <2>1, <2>2 DEF AdvanceRead
  <1>4. CASE ReboundRead
    <2>1. Rebound(pRead) \in 0..(Size - 1)
      BY DEF Rebound
    <2> QED
      BY <1>4, <2>1 DEF ReboundRead
  <1>5. CASE ReturnChar
    <2>1. Used' = Used
      BY <1>5, FifoUnchanged DEF ReturnChar
    <2>2. /\ pc' \in {"size", "idle", "overrun"} /\ left' \in 0..Size
          /\ pc' = "size" => left' >= 1
      BY <1>5 DEF ReturnChar, NextChar, LastChar, Overrun
    <2> QED
      BY <1>5, <2>1, <2>2 DEF ReturnChar, fifoVars
  <1> QED
    BY <1>1, <1>2, <1>3, <1>4, <1>5 DEF getCharFromFifo

\* Both callers ask for one character at least.
LEMMA CallIInv ==
  ASSUME IInv, LiveGet \/ getFifoToLastReturn
  PROVE  IInv'
  <1>1. UNCHANGED fifoVars /\ charRead' = charRead /\ pc = "idle" /\ pc' = "size"
    BY DEF LiveGet, getFifoToLastReturn
  <1>2. left' \in 1..Size /\ over' \in BOOLEAN
    <2>1. CASE LiveGet
      <3>1. left' = 1 /\ 1 \in 1..Size
        BY <2>1, FifoAssumption DEF LiveGet
      <3>2. over' = FALSE
        BY <2>1 DEF LiveGet
      <3> QED
        BY <3>1, <3>2, Zenon
    <2>2. CASE getFifoToLastReturn
      <3>1. PICK n \in ArraySizes : left' = Fitting(n) /\ over' = (n > Size)
        BY <2>2 DEF getFifoToLastReturn
      <3>2. n \in Nat
        BY <3>1, FifoAssumption DEF ArraySizes, Returns, Searched, Offsets, Beyond
      <3>3. Fitting(n) \in 1..Size
        BY <3>2, FifoAssumption DEF Fitting
      <3>4. (n > Size) \in BOOLEAN
        OBVIOUS
      <3> QED
        BY <3>1, <3>3, <3>4, Zenon
    <2> QED
      BY <2>1, <2>2
  <1> QED
    BY <1>1, <1>2, FifoAssumption DEF IInv, TypeOK, fifoVars

\* Every step preserves the invariant.
LEMMA NextIInv == IInv /\ [Next]_vars => IInv'
  <1>1. IInv /\ UNCHANGED vars => IInv'
    BY FifoUnchanged DEF IInv, TypeOK, vars, fifoVars, mainVars
  <1> QED
    BY <1>1, ReceiveIInv, GetIInv, CallIInv DEF Next

\* The pointers stay in the array: pRead leaves it only for the moment between its
\* being stored and its going back to the head.
THEOREM FifoTypeOK == Spec => []TypeOK
  <1>1. IInv => TypeOK
    BY DEF IInv
  <1> QED
    BY <1>1, InitIInv, NextIInv, PTL DEF Spec

----------------------------------------------------------------------------
(* The FIFO is a queue.                                                    *)

\* At first it is an empty one.
LEMMA InitIsQueue == Init => Queue!Init
  <1> SUFFICES ASSUME Init PROVE Queue!Init
    OBVIOUS
  <1>1. TypeOK
    BY InitIInv DEF IInv
  <1>2. Used = 0
    BY FifoAssumption, SMT DEF Init, Used, First, Rebound, Around
  <1>3. Content = <<>>
    BY <1>1, <1>2, ContentSeq
  <1> QED
    BY <1>3 DEF Init, Queue!Init

\* A put of the interrupt is a put of the queue.
LEMMA ReceiveIsPut ==
  ASSUME IInv, Receive
  PROVE  Queue!Put
  <1>1. PICK c \in Chars : putCharInFifo(c) /\ UNCHANGED mainVars
    BY DEF Receive
  <1>2. Content' = IF Len(Content) < Size - 1 THEN Append(Content, c) ELSE Content
    BY <1>1, PutAppends DEF IInv, mainVars
  <1> QED
    BY <1>1, <1>2 DEF Queue!Put, mainVars

\* The steps of the main loop take, drop and miss a character, or do nothing that
\* the queue shows.
LEMMA GetIsQueue ==
  ASSUME IInv, getCharFromFifo
  PROVE  [Queue!Next]_(Queue!vars)
  <1> USE DEF Queue!Next, Queue!vars, fifoVars
  <1>1. CASE CheckEmpty
    <2>1. Content' = Content /\ getReadSize = Used /\ pc = "size" /\ pc' # "advance"
      BY <1>1, FifoUnchanged, ReadSize DEF CheckEmpty, IInv
    <2>2. CASE getReadSize = 0
      <3>1. Content = <<>>
        BY <2>1, <2>2, ContentSeq DEF IInv
      <3> QED
        BY <1>1, <2>1, <2>2, <3>1 DEF CheckEmpty, Queue!Miss
    <2> QED
      BY <1>1, <2>1, <2>2 DEF CheckEmpty
  <1>2. CASE ReadChar
    <2>1. Content' = Content /\ pc = "read" /\ pc' = "advance" /\ charRead' = a_fifoRx[pRead]
      BY <1>2, FifoUnchanged DEF ReadChar
    <2>2. First = pRead /\ Used > 0 /\ Used \in Nat
      BY <2>1, ReadSize, Space DEF IInv
    <2>3. Content # <<>> /\ Content[1] = a_fifoRx[pRead]
      BY <2>2, ContentSeq, Slots DEF IInv
    <2>4. Head(Content) = Content[1]
      BY ContentSeq DEF IInv
    <2> QED
      BY <2>1, <2>3, <2>4 DEF Queue!Take
  <1>3. CASE AdvanceRead
    <2>1. Content' = Tail(Content) /\ pc = "advance" /\ pc' # "advance" /\ charRead' = charRead
      BY <1>3, AdvanceDrops DEF AdvanceRead, IInv
    <2> QED
      BY <2>1 DEF Queue!Drop
  <1>4. CASE ReboundRead
    BY <1>4, ReboundKeeps DEF ReboundRead, IInv
  <1>5. CASE ReturnChar
    <2>1. pc' # "advance"
      BY <1>5 DEF ReturnChar, NextChar, LastChar, Overrun
    <2> QED
      BY <1>5, <2>1, FifoUnchanged DEF ReturnChar
  <1> QED
    BY <1>1, <1>2, <1>3, <1>4, <1>5 DEF getCharFromFifo

\* Every step of the FIFO is a step of the queue, or one it does not show.
LEMMA NextIsQueue == IInv /\ [Next]_vars => [Queue!Next]_(Queue!vars)
  <1>1. ASSUME IInv, LiveGet \/ getFifoToLastReturn
        PROVE  UNCHANGED Queue!vars
    BY <1>1, FifoUnchanged DEF LiveGet, getFifoToLastReturn, Queue!vars
  <1>2. ASSUME UNCHANGED vars
        PROVE  UNCHANGED Queue!vars
    BY <1>2, FifoUnchanged DEF vars, mainVars, Queue!vars
  <1> QED
    BY <1>1, <1>2, ReceiveIsPut, GetIsQueue DEF Next, Queue!Next

\* The main loop and the interrupt share the array without a lock, and characters
\* still come out once each and in order, for any size and any characters.
THEOREM FifoIsQueue == Spec => IsQueue
  <1> QED
    BY InitIInv, NextIInv, InitIsQueue, NextIsQueue, PTL DEF Spec, IsQueue, Queue!Spec
=============================================================================
