---------------------------- MODULE Bno055Proofs ----------------------------
(***************************************************************************)
(* Lemmas about the driver of the inertial unit, for any registers that    *)
(* are followed and any number of failed transfers.                        *)
(*                                                                         *)
(* 1. Slices of a byte.                                                    *)
(* 2. What each function does to the page of the sensor and to the         *)
(*    driver's copy of it, whatever its result.                            *)
(* 3. What a function that succeeds does to the registers.                 *)
(* 4. A function succeeds if no transfer fails.                            *)
(* 5. What a function alters whatever its result.                          *)
(***************************************************************************)
EXTENDS Bno055, SequenceTheorems, TLAPS

\* The powers of two that slices are cut with.
IsPower(x, n) ==
  \/ n = 0 /\ x = 1
  \/ n = 1 /\ x = 2
  \/ n = 2 /\ x = 4
  \/ n = 3 /\ x = 8
  \/ n = 4 /\ x = 16
  \/ n = 5 /\ x = 32
  \/ n = 6 /\ x = 64
  \/ n = 7 /\ x = 128
  \/ n = 8 /\ x = 256

LEMMA PowersOfTwo == ASSUME NEW n \in 0..8 PROVE IsPower(2^n, n)
  <1> USE DEF IsPower
  <1>1. CASE n = 0
    BY <1>1
  <1>2. CASE n = 1
    BY <1>2
  <1>3. CASE n = 2
    BY <1>3
  <1>4. CASE n = 3
    BY <1>4
  <1>5. CASE n = 4
    BY <1>5
  <1>6. CASE n = 5
    BY <1>6
  <1>7. CASE n = 6
    BY <1>7
  <1>8. CASE n = 7
    BY <1>8
  <1>9. CASE n = 8
    BY <1>9
  <1> QED BY <1>1, <1>2, <1>3, <1>4, <1>5, <1>6, <1>7, <1>8, <1>9

\* A slice, what is below it and what is above it make up the byte.
LEMMA SliceFits ==
  ASSUME NEW f, IsSlice(f)
  PROVE  \E Q \in Nat : /\ 2^f.pos * 2^f.len * Q = 256
                        /\ 2^f.pos \in Nat \ {0} /\ 2^f.len \in Nat \ {0}
  <1> DEFINE p == f.pos
             l == f.len
  <1>0. p \in 0..8 /\ l \in 0..8 /\ p + l <= 8
    BY DEF IsSlice
  <1> HIDE DEF p, l
  <1>1. ASSUME NEW q \in 0..8, p + l + q = 8, NEW P, NEW L, NEW Q,
               IsPower(P, p), IsPower(L, l), IsPower(Q, q)
        PROVE  P * L * Q = 256 /\ P \in Nat \ {0} /\ L \in Nat \ {0} /\ Q \in Nat
    BY <1>1 DEF IsPower
  <1>2. PICK q \in 0..8 : p + l + q = 8
    <2>1. 8 - p - l \in 0..8 /\ p + l + (8 - p - l) = 8
      BY <1>0
    <2> QED BY <2>1
  <1>3. IsPower(2^p, p) /\ IsPower(2^l, l) /\ IsPower(2^q, q)
    BY <1>0, PowersOfTwo
  <1>4. 2^p * 2^l * 2^q = 256 /\ 2^p \in Nat \ {0} /\ 2^l \in Nat \ {0} /\ 2^q \in Nat
    BY <1>1, <1>2, <1>3, Zenon
  <1> QED BY <1>4 DEF p, l

\* The arithmetic of SetSlice: P is the weight of the slice, L the number of its values.
LEMMA SliceArithmetic ==
  ASSUME NEW b \in Byte, NEW P \in Nat \ {0}, NEW L \in Nat \ {0}, NEW Q \in Nat, P * L * Q = 256,
         NEW w \in 0..(L - 1)
  PROVE  /\ b + (w - ((b \div P) % L)) * P \in Byte
         /\ ((b + (w - ((b \div P) % L)) * P) \div P) % L = w
  <1> DEFINE q == b \div P
             r == b % P
             h == q \div L
             m == q % L
             n == b + (w - m) * P
  <1>0. b \in 0..255
    BY DEF Byte
  <1>1. q \in Nat /\ r \in 0..(P - 1) /\ b = q * P + r
    BY <1>0
  <1> HIDE DEF q, r
  <1>2. h \in Nat /\ m \in 0..(L - 1) /\ q = h * L + m
    BY <1>1
  <1> HIDE DEF h, m
  <1>3. n = (h * L + w) * P + r
    BY <1>1, <1>2
  <1>4. h < Q
    <2>1. SUFFICES ASSUME h >= Q PROVE FALSE
      BY <1>2
    <2>2. h * (L * P) >= Q * (L * P)
      BY <2>1, <1>2
    <2>3. q * P >= h * (L * P)
      BY <1>1, <1>2
    <2>4. b >= q * P
      BY <1>1
    <2>5. Q * (L * P) = 256
      OBVIOUS
    <2>6. q * P \in Int /\ h * (L * P) \in Int
      BY <1>1, <1>2
    <2> HIDE DEF n
    <2> QED BY <1>0, <2>2, <2>3, <2>4, <2>5, <2>6
  <1>5. (h * L + w) * P + r < 256
    <2>1. h * L + w + 1 <= (h + 1) * L
      BY <1>2
    <2>2. (h + 1) * L <= Q * L
      BY <1>2, <1>4
    <2>3. (h * L + w + 1) * P <= (Q * L) * P
      BY <2>1, <2>2, <1>2
    <2> QED BY <2>3, <1>1, <1>2
  <1>6. n \in 0..255
    BY <1>1, <1>2, <1>3, <1>5
  <1>7. n \div P = h * L + w
    BY <1>1, <1>2, <1>3
  <1>8. (h * L + w) % L = w
    BY <1>2
  <1> QED BY <1>6, <1>7, <1>8 DEF m, q, Byte

LEMMA SliceType ==
  ASSUME NEW b \in Byte, NEW f, IsSlice(f)
  PROVE  Slice(b, f) \in Nat
  <1>1. ASSUME NEW P \in Nat \ {0}, NEW L \in Nat \ {0} PROVE (b \div P) % L \in Nat
    BY DEF Byte
  <1>2. 2^f.pos \in Nat \ {0} /\ 2^f.len \in Nat \ {0}
    BY SliceFits
  <1>3. (b \div 2^f.pos) % 2^f.len \in Nat
    BY <1>1, <1>2, Zenon
  <1> QED BY <1>3 DEF Slice

\* A byte stays a byte, and has the value cut to the width of the slice.
LEMMA SetSliceByte ==
  ASSUME NEW b \in Byte, NEW f, IsSlice(f), NEW v \in Nat
  PROVE  SetSlice(b, f, v) \in Byte /\ Slice(SetSlice(b, f, v), f) = v % 2^f.len
  <1>1. PICK Q \in Nat : 2^f.pos * 2^f.len * Q = 256 /\ 2^f.pos \in Nat \ {0} /\ 2^f.len \in Nat \ {0}
    BY SliceFits
  <1>2. ASSUME NEW P \in Nat \ {0}, NEW L \in Nat \ {0}, P * L * Q = 256
        PROVE  LET n == b + ((v % L) - ((b \div P) % L)) * P IN n \in Byte /\ (n \div P) % L = v % L
    <2>1. v % L \in 0..(L - 1)
      OBVIOUS
    <2> QED BY <1>2, <2>1, SliceArithmetic
  <1>3. LET n == b + ((v % 2^f.len) - ((b \div 2^f.pos) % 2^f.len)) * 2^f.pos
        IN  n \in Byte /\ (n \div 2^f.pos) % 2^f.len = v % 2^f.len
    BY <1>1, <1>2, Zenon
  <1> QED BY <1>3, Zenon DEF SetSlice, Slice

LEMMA DividedMultiple ==
  ASSUME NEW G \in Nat \ {0}, NEW y \in Nat, NEW z \in Nat
  PROVE  (z * G + y) \div G = z + (y \div G) /\ (z * G + y) % G = y % G
  <1> DEFINE d == y \div G
             e == y % G
  <1>1. d \in Nat /\ e \in 0..(G - 1) /\ y = d * G + e
    OBVIOUS
  <1> HIDE DEF d, e
  <1>2. z * G + y = (z + d) * G + e
    BY <1>1
  <1>3. ASSUME NEW x \in Nat PROVE (x * G + e) \div G = x /\ (x * G + e) % G = e
    BY <1>1
  <1> QED BY <1>1, <1>2, <1>3 DEF d, e

\* G is the weight of a slice above the one of weight P with L values.
Weighs(G, P, L) == \E K \in Nat \ {0} : G = P * L * K

LEMMA WeightsApart ==
  ASSUME NEW b \in Byte, NEW v \in Nat, NEW P \in Nat \ {0}, NEW L \in Nat \ {0}, NEW G \in Nat \ {0},
         NEW M \in Nat \ {0}, Weighs(G, P, L) \/ Weighs(P, G, M)
  PROVE  ((b + ((v % L) - ((b \div P) % L)) * P) \div G) % M = (b \div G) % M
  <1>0. PICK K \in Nat \ {0} : G = P * L * K \/ P = G * M * K
    BY DEF Weighs
  <1> DEFINE q == b \div P
             r == b % P
             h == q \div L
             m == q % L
             w == v % L
  <1>1. q \in Nat /\ r \in 0..(P - 1) /\ b = q * P + r
    BY DEF Byte
  <1>2. w \in 0..(L - 1)
    OBVIOUS
  <1> HIDE DEF q, r, w
  <1>3. h \in Nat /\ m \in 0..(L - 1) /\ q = h * L + m
    BY <1>1
  <1> HIDE DEF h, m
  <1>4. b + (w - m) * P = (h * L + w) * P + r
    BY <1>1, <1>2, <1>3
  <1>5. CASE G = P * L * K
    <2>1. ASSUME NEW x \in 0..(L - 1) PROVE ((h * L + x) * P + r) \div G = h \div K
      <3> DEFINE d == h \div K
                 e == h % K
      <3>1. d \in Nat /\ e \in 0..(K - 1) /\ h = d * K + e
        BY <1>3
      <3> HIDE DEF d, e
      <3>2. x * P + r \in 0..(L * P - 1)
        <4>1. (x + 1) * P <= L * P
          OBVIOUS
        <4>2. x * P + P <= L * P
          BY <4>1
        <4>3. x * P \in Nat /\ L * P \in Nat
          OBVIOUS
        <4> QED BY <1>1, <4>2, <4>3
      <3>3. e * (L * P) + (x * P + r) \in 0..(G - 1)
        <4>1. (e + 1) * (L * P) <= K * (L * P)
          BY <3>1
        <4>2. K * (L * P) = G /\ e * (L * P) \in Nat
          BY <1>5, <3>1
        <4>3. e * (L * P) + L * P <= G
          BY <4>1, <4>2, <3>1
        <4> QED BY <3>2, <4>2, <4>3
      <3>4. (h * L + x) * P + r = d * G + (e * (L * P) + (x * P + r))
        BY <1>1, <1>5, <3>1
      <3>5. ASSUME NEW y \in 0..(G - 1), NEW z \in Nat PROVE (z * G + y) \div G = z
        OBVIOUS
      <3>6. (d * G + (e * (L * P) + (x * P + r))) \div G = d
        BY <3>1, <3>3, <3>5
      <3> QED BY <3>4, <3>6 DEF d
    <2>2. (b + (w - m) * P) \div G = b \div G
      BY <1>1, <1>2, <1>3, <1>4, <2>1
    <2> QED BY <2>2 DEF w, m, q
  <1>6. CASE P = G * M * K
    <2>1. ASSUME NEW x \in Nat PROVE ((x * P + r) \div G) % M = (r \div G) % M
      <3>1. (x * P + r) \div G = (x * K) * M + (r \div G)
        <4>1. x * P + r = ((x * K) * M) * G + r
          BY <1>1, <1>6
        <4>2. (x * K) * M \in Nat /\ r \in Nat
          BY <1>1
        <4>3. (((x * K) * M) * G + r) \div G = (x * K) * M + (r \div G)
          BY <4>2, DividedMultiple
        <4> QED BY <4>1, <4>3
      <3>2. r \div G \in Nat /\ x * K \in Nat
        <4>1. r \in Nat
          BY <1>1
        <4> QED BY <4>1
      <3>3. ((x * K) * M + (r \div G)) % M = (r \div G) % M
        BY <3>2, DividedMultiple
      <3> QED BY <3>1, <3>3
    <2>2. h * L + w \in Nat /\ h * L + m \in Nat
      BY <1>2, <1>3
    <2>3. ((b + (w - m) * P) \div G) % M = (b \div G) % M
      BY <1>1, <1>3, <1>4, <2>1, <2>2
    <2> QED BY <2>3 DEF w, m, q
  <1> QED BY <1>0, <1>5, <1>6

\* Setting a slice leaves the others as they are.
LEMMA SlicesApart ==
  ASSUME NEW b \in Byte, NEW f, IsSlice(f), NEW v \in Nat, NEW g, IsSlice(g),
         f.pos + f.len <= g.pos \/ g.pos + g.len <= f.pos
  PROVE  Slice(SetSlice(b, f, v), g) = Slice(b, g)
  <1>1. 2^f.pos \in Nat \ {0} /\ 2^f.len \in Nat \ {0} /\ 2^g.pos \in Nat \ {0} /\ 2^g.len \in Nat \ {0}
    BY SliceFits
  <1>2. Weighs(2^g.pos, 2^f.pos, 2^f.len) \/ Weighs(2^f.pos, 2^g.pos, 2^g.len)
    <2>1. ASSUME NEW p \in 0..8, NEW l \in 0..8, NEW k \in 0..8, NEW P, NEW L, NEW K, NEW G,
                 IsPower(P, p), IsPower(L, l), IsPower(K, k), IsPower(G, p + l + k)
          PROVE  G = P * L * K /\ K \in Nat \ {0}
      BY <2>1 DEF IsPower
    <2>2. ASSUME NEW p \in 0..8, NEW l \in 0..8, NEW n \in 0..8, p + l <= n
          PROVE  Weighs(2^n, 2^p, 2^l)
      <3>1. PICK k \in 0..8 : p + l + k = n
        <4>1. n - p - l \in 0..8 /\ p + l + (n - p - l) = n
          BY <2>2
        <4> QED BY <4>1
      <3>2. IsPower(2^p, p) /\ IsPower(2^l, l) /\ IsPower(2^k, k) /\ IsPower(2^n, p + l + k)
        BY <3>1, PowersOfTwo
      <3>3. 2^n = 2^p * 2^l * 2^k /\ 2^k \in Nat \ {0}
        BY <2>1, <3>2, Zenon
      <3> QED BY <3>3 DEF Weighs
    <2>3. f.pos \in 0..8 /\ f.len \in 0..8 /\ g.pos \in 0..8 /\ g.len \in 0..8
      BY DEF IsSlice
    <2> QED BY <2>2, <2>3, Zenon
  <1>3. Slice(SetSlice(b, f, v), g)
          = ((b + ((v % 2^f.len) - ((b \div 2^f.pos) % 2^f.len)) * 2^f.pos) \div 2^g.pos) % 2^g.len
    BY Zenon DEF Slice, SetSlice
  <1>4. Slice(b, g) = (b \div 2^g.pos) % 2^g.len
    BY Zenon DEF Slice
  <1> DEFINE P == 2^f.pos
             L == 2^f.len
             G == 2^g.pos
             M == 2^g.len
  <1>5. /\ P \in Nat \ {0} /\ L \in Nat \ {0} /\ G \in Nat \ {0} /\ M \in Nat \ {0}
        /\ Weighs(G, P, L) \/ Weighs(P, G, M)
    BY <1>1, <1>2, Zenon
  <1> HIDE DEF P, L, G, M
  <1>6. ((b + ((v % L) - ((b \div P) % L)) * P) \div G) % M = (b \div G) % M
    BY <1>5, WeightsApart
  <1> QED BY <1>3, <1>4, <1>6, Zenon DEF P, L, G, M

-----------------------------------------------------------------------------
IsOutcome(o) == o \in [s : Unit, ok : BOOLEAN, data : {o.data}]

\* What any function but bno055_init does, whatever its result.
Follows(s, o) ==
  /\ IsOutcome(o)
  /\ o.s.null = s.null
  /\ s.misread => o.s.misread
  /\ o.s.faults <= s.faults
  /\ o.s.faults = s.faults => o.s.misread = s.misread
  /\ TriggerClear(s) => TriggerClear(o.s)

\* The page and its copy are as before, whatever the result.
Keeps(s, o) == Follows(s, o) /\ o.s.page = s.page /\ o.s.page_id = s.page_id

\* A result that is good leaves the copy right if it was right.
Sound(s, o) ==
  /\ Follows(s, o)
  /\ o.ok /\ s.page_id = s.page => o.s.page_id = o.s.page

LEMMA SpoiltUnit ==
  ASSUME NEW s \in Unit, s.faults # 0
  PROVE  /\ Spoilt(s) \in Unit /\ Misread(s) \in Unit
         /\ \A u \in {Spoilt(s), Misread(s)} :
              /\ u.page = s.page /\ u.page_id = s.page_id /\ u.null = s.null /\ u.regs = s.regs
              /\ u.faults = s.faults - 1
         /\ Spoilt(s).misread = s.misread /\ Misread(s).misread
  <1>1. /\ Spoilt(s) \in Unit
        /\ Spoilt(s).page = s.page /\ Spoilt(s).page_id = s.page_id /\ Spoilt(s).null = s.null
        /\ Spoilt(s).regs = s.regs /\ Spoilt(s).faults = s.faults - 1 /\ Spoilt(s).misread = s.misread
    <2>1. s.faults - 1 \in Nat
      BY DEF Unit
    <2> QED BY <2>1 DEF Unit, Spoilt
  <1>2. ASSUME NEW u \in Unit
        PROVE  LET m == [u EXCEPT !.misread = TRUE]
               IN  /\ m \in Unit /\ m.misread
                   /\ m.page = u.page /\ m.page_id = u.page_id /\ m.null = u.null
                   /\ m.regs = u.regs /\ m.faults = u.faults
    BY DEF Unit
  <1> QED BY <1>1, <1>2 DEF Misread

LEMMA SysRstSlice == IsSlice(sys_rst)
  BY DEF IsSlice, sys_rst, SystemControl, Field

LEMMA ZeroSlice == ASSUME NEW f, IsSlice(f) PROVE Slice(0, f) = 0
  <1>1. ASSUME NEW P \in Nat \ {0}, NEW L \in Nat \ {0} PROVE (0 \div P) % L = 0
    <2>1. 0 \div P = 0
      OBVIOUS
    <2> QED BY <2>1
  <1>2. 2^f.pos \in Nat \ {0} /\ 2^f.len \in Nat \ {0}
    BY SliceFits
  <1>3. (0 \div 2^f.pos) % 2^f.len = 0
    BY <1>1, <1>2, Zenon
  <1> QED BY <1>3 DEF Slice

LEMMA ResetUnit ==
  ASSUME NEW s \in Unit
  PROVE  /\ Reset(s) \in Unit /\ TriggerClear(Reset(s))
         /\ Reset(s).regs = [r \in Registers |-> 0]
         /\ Reset(s).page = 0 /\ Reset(s).page_id = s.page_id /\ Reset(s).null = s.null
         /\ Reset(s).misread = s.misread /\ Reset(s).faults = s.faults
  <1>1. /\ Reset(s) \in Unit
        /\ Reset(s).regs = [r \in Registers |-> 0]
        /\ Reset(s).page = 0 /\ Reset(s).page_id = s.page_id /\ Reset(s).null = s.null
        /\ Reset(s).misread = s.misread /\ Reset(s).faults = s.faults
    <2> DEFINE zeros == [r \in Registers |-> 0]
    <2>1. zeros \in [Registers -> Byte] /\ 0 \in Byte
      BY DEF Byte
    <2>2. Reset(s) = [s EXCEPT !.page = 0, !.regs = zeros]
      BY DEF Reset
    <2> HIDE DEF zeros
    <2>3. /\ Reset(s) \in Unit /\ Reset(s).regs = zeros
          /\ Reset(s).page = 0 /\ Reset(s).page_id = s.page_id /\ Reset(s).null = s.null
          /\ Reset(s).misread = s.misread /\ Reset(s).faults = s.faults
      BY <2>1, <2>2 DEF Unit
    <2> QED BY <2>3 DEF zeros
  <1> QED BY <1>1, SysRstSlice, ZeroSlice DEF TriggerClear

LEMMA WrittenUnit ==
  ASSUME NEW s \in Unit, NEW reg, NEW v \in Byte
  PROVE  /\ Written(s, reg, v) \in Unit
         /\ Written(s, reg, v).page_id = s.page_id
         /\ Written(s, reg, v).null = s.null
         /\ Written(s, reg, v).misread = s.misread
         /\ Written(s, reg, v).faults = s.faults
         /\ Written(s, reg, v).page = IF reg = PAGE_ID THEN v ELSE s.page
         /\ TriggerClear(s) => TriggerClear(Written(s, reg, v))
  <1> DEFINE key == <<s.page, reg>>
  <1>1. CASE reg = PAGE_ID
    BY <1>1 DEF Written, TurnPage, Unit, TriggerClear
  <1>2. CASE reg # PAGE_ID /\ key = <<0, SYS_TRIGGER>> /\ Slice(v, sys_rst) = 1
    BY <1>2, ResetUnit DEF Written
  <1>3. CASE Written(s, reg, v) = s /\ reg # PAGE_ID
    BY <1>3
  <1>4. CASE /\ reg # PAGE_ID /\ key \in Registers
             /\ Written(s, reg, v) = [s EXCEPT !.regs[key] = v]
             /\ ~(key = <<0, SYS_TRIGGER>> /\ Slice(v, sys_rst) = 1)
    <2> DEFINE w == [s EXCEPT !.regs[key] = v]
    <2>1. w = [s EXCEPT !.regs = [s.regs EXCEPT ![key] = v]]
      OBVIOUS
    <2>2. [s.regs EXCEPT ![key] = v] \in [Registers -> Byte]
      BY DEF Unit
    <2>3. /\ w \in Unit /\ w.regs = [s.regs EXCEPT ![key] = v]
          /\ w.page_id = s.page_id /\ w.null = s.null /\ w.misread = s.misread
          /\ w.faults = s.faults /\ w.page = s.page
      BY <2>1, <2>2 DEF Unit
    <2>4. ASSUME TriggerClear(s) PROVE TriggerClear(w)
      BY <1>4, <2>3, <2>4 DEF TriggerClear, Unit
    <2> QED BY <1>4, <2>3, <2>4
  <1> QED BY <1>1, <1>2, <1>3, <1>4 DEF Written

LEMMA KeptThenKept ==
  ASSUME NEW s \in Unit, NEW o, NEW r, Keeps(s, o), Keeps(o.s, r)
  PROVE  Keeps(s, r)
  BY DEF Keeps, Follows, IsOutcome, Unit

LEMMA FollowsThenFollows ==
  ASSUME NEW s \in Unit, NEW o, NEW r, Follows(s, o), Follows(o.s, r)
  PROVE  Follows(s, r)
  BY DEF Follows, IsOutcome, Unit

LEMMA SoundThenSound ==
  ASSUME NEW s \in Unit, NEW o, NEW r, Sound(s, o), o.ok, Sound(o.s, r)
  PROVE  Sound(s, r)
  BY FollowsThenFollows DEF Sound

LEMMA KeptIsSound ==
  ASSUME NEW s, NEW o, Keeps(s, o)
  PROVE  Sound(s, o)
  BY DEF Sound, Keeps

LEMMA SameOutcome ==
  ASSUME NEW s \in Unit, NEW d
  PROVE  Keeps(s, Outcome(s, TRUE, d)) /\ Keeps(s, Outcome(s, FALSE, d))
  BY DEF Keeps, Follows, IsOutcome, Outcome, Unit

LEMMA FailedOutcome ==
  ASSUME NEW s \in Unit
  PROVE  Keeps(s, Failed(s)) /\ ~Failed(s).ok /\ Failed(s).data = 0 /\ Failed(s).s = s
  <1>1. Failed(s).ok = FALSE /\ Failed(s).data = 0 /\ Failed(s).s = s
    BY DEF Failed, Outcome
  <1> QED BY <1>1, SameOutcome DEF Failed

\* A failure after a call that was sound, or that failed itself.
LEMMA FailsSoundly ==
  ASSUME NEW s \in Unit, NEW o, Sound(s, o), NEW r, Keeps(o.s, r), ~r.ok
  PROVE  Sound(s, r)
  BY FollowsThenFollows DEF Sound, Keeps

-----------------------------------------------------------------------------
LEMMA ContentByte == ASSUME NEW s \in Unit, NEW reg PROVE Content(s, reg) \in Byte
  BY DEF Content, Unit, Byte

\* A read changes nothing in the sensor: what it returns is what the sensor holds,
\* unless it was misread, or else it fails.
LEMMA BusReadKeeps ==
  ASSUME NEW s \in Unit, NEW reg, NEW o \in BusRead(s, reg)
  PROVE  /\ Keeps(s, o) /\ o.s \in Unit /\ o.data \in Byte
         /\ o.s.regs = s.regs
         /\ o.ok /\ ~o.s.misread => o.s = s /\ o.data = Content(s, reg)
         /\ o.s.faults = s.faults => o.s = s /\ o.ok /\ o.data = Content(s, reg)
         /\ ~o.ok => o.data = 255
  <1>1. CASE o = Outcome(s, TRUE, Content(s, reg))
    <2>1. o.s = s /\ o.ok = TRUE /\ o.data = Content(s, reg)
      BY <1>1 DEF Outcome
    <2>2. s.faults \in Nat
      BY DEF Unit
    <2>3. Keeps(s, o)
      BY <1>1, SameOutcome
    <2> QED BY <2>1, <2>2, <2>3, ContentByte
  <1>2. CASE s.faults # 0 /\ o = Outcome(Spoilt(s), FALSE, 255)
    <2>1. /\ Spoilt(s) \in Unit /\ Spoilt(s).page = s.page /\ Spoilt(s).page_id = s.page_id
          /\ Spoilt(s).null = s.null /\ Spoilt(s).regs = s.regs /\ Spoilt(s).faults = s.faults - 1
          /\ Spoilt(s).misread = s.misread
      BY <1>2, SpoiltUnit
    <2>2. o.s = Spoilt(s) /\ o.ok = FALSE /\ o.data = 255
      BY <1>2 DEF Outcome
    <2>3. IsOutcome(o)
      BY <1>2, <2>1 DEF IsOutcome, Outcome
    <2>4. s.faults \in Nat
      BY DEF Unit
    <2> QED BY <2>1, <2>2, <2>3, <2>4 DEF Keeps, Follows, TriggerClear, Byte
  <1>3. CASE s.faults # 0 /\ \E v \in {0, 255} : o = Outcome(Misread(s), TRUE, v)
    <2>1. /\ Misread(s) \in Unit /\ Misread(s).page = s.page /\ Misread(s).page_id = s.page_id
          /\ Misread(s).null = s.null /\ Misread(s).regs = s.regs /\ Misread(s).faults = s.faults - 1
          /\ Misread(s).misread
      BY <1>3, SpoiltUnit
    <2>2. o.s = Misread(s) /\ o.ok = TRUE /\ o.data \in {0, 255}
      BY <1>3 DEF Outcome
    <2>3. IsOutcome(o)
      BY <1>3, <2>1 DEF IsOutcome, Outcome
    <2>4. s.faults \in Nat
      BY DEF Unit
    <2> QED BY <2>1, <2>2, <2>3, <2>4 DEF Keeps, Follows, TriggerClear, Byte
  <1> QED BY <1>1, <1>2, <1>3 DEF BusRead

\* What is written is taken if the write succeeds, and may be if it fails.
LEMMA BusWriteOutcome ==
  ASSUME NEW s \in Unit, NEW reg, NEW v \in Byte, NEW o \in BusWrite(s, reg, v)
  PROVE  /\ reg # PAGE_ID => Keeps(s, o)
         /\ Follows(s, o) /\ o.s \in Unit /\ o.data = 0
         /\ o.s.page_id = s.page_id /\ o.s.misread = s.misread
         /\ reg = PAGE_ID => o.s.page \in {s.page, v} /\ (o.ok => o.s.page = v)
         /\ o.ok => o.s = Written(s, reg, v)
         /\ o.s.faults = s.faults => o.ok
         /\ o.s.regs \in {s.regs, Written(s, reg, v).regs}
  <1> DEFINE w == Written(s, reg, v)
  <1>0. s.faults \in Nat
    BY DEF Unit
  <1>1. /\ w \in Unit /\ w.page_id = s.page_id /\ w.null = s.null /\ w.misread = s.misread
        /\ w.faults = s.faults /\ w.page = (IF reg = PAGE_ID THEN v ELSE s.page)
        /\ TriggerClear(s) => TriggerClear(w)
    BY WrittenUnit
  <1> HIDE DEF w
  <1>2. o = Outcome(w, TRUE, 0) \/ (s.faults # 0 /\ o \in {Failed(Spoilt(s)), Failed(Spoilt(w))})
    BY DEF BusWrite, w
  <1>3. CASE o = Outcome(w, TRUE, 0)
    <2>1. o.s = w /\ o.ok = TRUE /\ o.data = 0 /\ IsOutcome(o)
      BY <1>1, <1>3 DEF Outcome, IsOutcome
    <2> QED BY <1>0, <1>1, <2>1 DEF Keeps, Follows, w
  <1>4. ASSUME NEW u \in {s, w}, s.faults # 0, o = Failed(Spoilt(u))
        PROVE  /\ IsOutcome(o) /\ o.ok = FALSE /\ o.data = 0 /\ o.s.regs = u.regs /\ o.s.page = u.page
               /\ o.s.page_id = s.page_id /\ o.s.null = s.null /\ o.s.misread = s.misread
               /\ o.s.faults = s.faults - 1
    <2>1. u \in Unit /\ u.faults = s.faults /\ u.page_id = s.page_id /\ u.null = s.null /\ u.misread = s.misread
      BY <1>1
    <2>2. o.s = Spoilt(u) /\ o.ok = FALSE /\ o.data = 0 /\ (Spoilt(u) \in Unit => IsOutcome(o))
      BY <1>4 DEF Failed, Outcome, IsOutcome
    <2> QED BY <1>4, <2>1, <2>2, SpoiltUnit
  <1>5. CASE s.faults # 0 /\ \E u \in {s, w} : o = Failed(Spoilt(u))
    <2>1. PICK u \in {s, w} : o = Failed(Spoilt(u))
      BY <1>5
    <2>2. TriggerClear(s) => TriggerClear(o.s)
      BY <1>1, <1>4, <1>5, <2>1 DEF TriggerClear
    <2>3. o.s \in Unit
      BY <1>4, <1>5, <2>1 DEF IsOutcome
    <2>4. /\ u.page = (IF reg = PAGE_ID THEN u.page ELSE s.page) /\ u.regs \in {s.regs, w.regs}
          /\ reg = PAGE_ID => u.page \in {s.page, v}
      BY <1>1
    <2>5. /\ IsOutcome(o) /\ o.ok = FALSE /\ o.data = 0 /\ o.s.regs = u.regs /\ o.s.page = u.page
          /\ o.s.page_id = s.page_id /\ o.s.null = s.null /\ o.s.misread = s.misread
          /\ o.s.faults = s.faults - 1
      BY <1>4, <1>5, <2>1
    <2>6. Follows(s, o)
      BY <1>0, <2>2, <2>5 DEF Follows
    <2> QED BY <1>0, <2>3, <2>4, <2>5, <2>6 DEF Keeps, w
  <1> QED BY <1>2, <1>3, <1>5

-----------------------------------------------------------------------------
\* The driver is bound and no transfer failed.
Calm(s, o) == ~s.null /\ o.s.faults = s.faults

\* The result is good and no byte was misread.
Reliable(o) == o.ok /\ ~o.s.misread

\* A page turned: a good result leaves the copy right, whatever it was.
LEMMA TurnsThePage ==
  ASSUME NEW s \in Unit, NEW page \in Byte, NEW o \in write_page_id(s, page)
  PROVE  /\ Sound(s, o) /\ o.s.regs = s.regs
         /\ o.ok => o.s.page = page /\ o.s.page_id = page
         /\ ~o.ok => o.s.page \in {s.page, page} /\ o.s.page_id = s.page_id
         /\ Calm(s, o) => o.ok
  <1>1. CASE s.null
    BY <1>1, FailedOutcome, KeptIsSound DEF write_page_id, Calm, Keeps
  <1>2. CASE ~s.null
    <2>1. PICK r \in BusRead(s, PAGE_ID) :
            o \in IF r.ok THEN {WithPage(w, page) : w \in BusWrite(r.s, PAGE_ID, page)} ELSE {Failed(r.s)}
      BY <1>2 DEF write_page_id
    <2>2. Keeps(s, r) /\ r.s \in Unit /\ r.s.regs = s.regs /\ (r.s.faults = s.faults => r.ok)
      BY BusReadKeeps
    <2>3. CASE ~r.ok
      <3>1. o = Failed(r.s)
        BY <2>1, <2>3
      <3>2. Keeps(r.s, o) /\ ~o.ok /\ o.s = r.s
        BY <2>2, <3>1, FailedOutcome
      <3>3. Keeps(s, o)
        BY <2>2, <3>2, KeptThenKept
      <3> QED BY <2>2, <2>3, <3>2, <3>3, KeptIsSound DEF Calm, Keeps
    <2>4. CASE r.ok
      <3>1. PICK w \in BusWrite(r.s, PAGE_ID, page) : o = WithPage(w, page)
        BY <2>1, <2>4
      <3>2. /\ Follows(r.s, w) /\ w.s \in Unit
            /\ w.s.page \in {r.s.page, page} /\ w.s.page_id = r.s.page_id /\ (w.ok => w.s.page = page)
            /\ w.s.faults = r.s.faults => w.ok
            /\ w.s.regs \in {r.s.regs, Written(r.s, PAGE_ID, page).regs}
        BY <2>2, BusWriteOutcome
      <3>3. w.s.regs = s.regs
        BY <2>2, <3>2 DEF Written, TurnPage, Unit
      <3>4. Follows(s, w)
        BY <2>2, <3>2, FollowsThenFollows DEF Keeps
      <3>5. CASE w.ok
        <4>1. o = [w EXCEPT !.s.page_id = page]
          BY <3>1, <3>5 DEF WithPage
        <4>2. /\ IsOutcome(o) /\ o.ok = w.ok /\ o.s.page_id = page /\ o.s.page = w.s.page
              /\ o.s.null = w.s.null /\ o.s.misread = w.s.misread /\ o.s.regs = w.s.regs
              /\ o.s.faults = w.s.faults
          <5>1. w.s \in Unit /\ w \in [s : Unit, ok : BOOLEAN, data : {w.data}]
            BY <3>4 DEF Follows, IsOutcome
          <5>2. o = [w EXCEPT !.s = [w.s EXCEPT !.page_id = page]]
            BY <4>1
          <5> QED BY <5>1, <5>2 DEF IsOutcome, Unit
        <4>3. Follows(s, o)
          BY <3>4, <4>2 DEF Follows, TriggerClear
        <4> QED BY <3>2, <3>3, <3>5, <4>2, <4>3 DEF Sound
      <3>6. CASE ~w.ok
        <4>1. o = w
          BY <3>1, <3>6 DEF WithPage
        <4>2. w.s.faults # s.faults
          BY <2>2, <3>2, <3>6 DEF Keeps, Follows, Unit
        <4>3. w.s.page \in {s.page, page} /\ w.s.page_id = s.page_id
          BY <2>2, <3>2 DEF Keeps
        <4> QED BY <3>3, <3>4, <3>6, <4>1, <4>2, <4>3 DEF Sound, Calm
      <3> QED BY <3>5, <3>6
    <2> QED BY <2>3, <2>4
  <1> QED BY <1>1, <1>2

LEMMA PageReadySound ==
  ASSUME NEW s \in Unit, NEW page \in Byte, NEW o \in PageReady(s, page)
  PROVE  /\ Sound(s, o) /\ o.s \in Unit /\ o.s.regs = s.regs
         /\ o.ok => o.s.page_id = page /\ ~s.null
         /\ o.ok /\ (s.page = page \/ s.page_id = s.page) => o.s.page = page
         /\ ~o.ok => o.s.page \in {s.page, page} /\ o.s.page_id = s.page_id
         /\ Calm(s, o) => o.ok
         /\ ~s.null /\ s.page_id = page => o.s = s /\ o.ok
  <1>1. CASE s.page_id = page /\ ~s.null
    <2>1. o = Outcome(s, TRUE, 0)
      BY <1>1 DEF PageReady
    <2>2. o.s = s /\ o.ok = TRUE
      BY <2>1 DEF Outcome
    <2> QED BY <1>1, <2>1, <2>2, SameOutcome, KeptIsSound
  <1>2. CASE ~(s.page_id = page /\ ~s.null)
    <2>1. o \in write_page_id(s, page)
      BY <1>2 DEF PageReady
    <2>2. s.null => ~o.ok
      BY <2>1, FailedOutcome DEF write_page_id
    <2> QED BY <1>2, <2>1, <2>2, TurnsThePage DEF Sound, Follows, IsOutcome
  <1> QED BY <1>1, <1>2

\* The byte a setting is in.
Stored(s, f) == IF Key(f) \in Registers THEN s.regs[Key(f)] ELSE 0

LEMMA StoredByte == ASSUME NEW s \in Unit, NEW f PROVE Stored(s, f) \in Byte
  BY DEF Stored, Unit, Byte

LEMMA ContentStored ==
  ASSUME NEW s \in Unit, NEW f, f.reg # PAGE_ID, s.page = f.page
  PROVE  Content(s, f.reg) = Stored(s, f)
  BY DEF Content, Stored, Key

LEMMA GetSound ==
  ASSUME NEW s \in Unit, NEW f, IsSlice(f), f.page \in Byte, NEW o \in Get(s, f)
  PROVE  /\ Sound(s, o) /\ o.s \in Unit /\ o.data \in Nat /\ o.s.regs = s.regs
         /\ Reliable(o) /\ (s.page = f.page \/ s.page_id = s.page) /\ f.reg # PAGE_ID =>
              o.data = Slice(Stored(s, f), f)
         /\ o.ok => o.s.page_id = f.page /\ ~s.null
         /\ o.ok /\ (s.page = f.page \/ s.page_id = s.page) => o.s.page = f.page
         /\ ~o.ok /\ s.page_id = s.page => o.s.page \in {o.s.page_id, f.page}
         /\ Calm(s, o) => o.ok
         /\ ~s.null /\ s.page_id = f.page =>
              /\ o.s.page = s.page /\ o.s.page_id = s.page_id
              /\ ~o.ok => o.data = Slice(255, f)
  <1>1. PICK p \in PageReady(s, f.page) : o \in IF p.ok THEN GetField(p.s, f) ELSE {Failed(p.s)}
    BY DEF Get
  <1>2. /\ Sound(s, p) /\ p.s \in Unit /\ p.s.regs = s.regs
        /\ p.ok => p.s.page_id = f.page /\ ~s.null
        /\ p.ok /\ (s.page = f.page \/ s.page_id = s.page) => p.s.page = f.page
        /\ ~p.ok => p.s.page \in {s.page, f.page} /\ p.s.page_id = s.page_id
        /\ Calm(s, p) => p.ok
        /\ ~s.null /\ s.page_id = f.page => p.s = s /\ p.ok
    BY PageReadySound
  <1>3. CASE p.ok
    <2>1. PICK r \in BusRead(p.s, f.reg) : o = [r EXCEPT !.data = Slice(r.data, f)]
      BY <1>1, <1>3 DEF GetField
    <2>2. /\ Keeps(p.s, r) /\ r.s \in Unit /\ r.data \in Byte /\ r.s.regs = p.s.regs
          /\ r.ok /\ ~r.s.misread => r.s = p.s /\ r.data = Content(p.s, f.reg)
          /\ r.s.faults = p.s.faults => r.ok
          /\ ~r.ok => r.data = 255
      BY <1>2, BusReadKeeps
    <2>3. /\ o.s = r.s /\ o.ok = r.ok /\ o.data = Slice(r.data, f)
          /\ IsOutcome(o)
      BY <2>1, <2>2 DEF Keeps, Follows, IsOutcome
    <2>4. Keeps(p.s, o)
      BY <2>2, <2>3 DEF Keeps, Follows
    <2>5. Sound(s, o)
      BY <1>2, <1>3, <2>4, KeptIsSound, SoundThenSound
    <2>6. o.data \in Nat
      BY <2>2, <2>3, SliceType
    <2>7. Reliable(o) /\ (s.page = f.page \/ s.page_id = s.page) /\ f.reg # PAGE_ID =>
              o.data = Slice(Stored(s, f), f)
      BY <1>2, <1>3, <2>2, <2>3, ContentStored DEF Reliable, Stored
    <2>8. Calm(s, o) => o.ok
      BY <1>2, <2>2, <2>3 DEF Calm, Sound, Keeps, Follows, Unit
    <2> QED BY <1>2, <1>3, <2>2, <2>3, <2>5, <2>6, <2>7, <2>8 DEF Keeps
  <1>4. CASE ~p.ok
    <2>1. o = Failed(p.s)
      BY <1>1, <1>4
    <2>2. Keeps(p.s, o) /\ ~o.ok /\ o.data = 0 /\ o.s = p.s
      BY <1>2, <2>1, FailedOutcome
    <2>3. Sound(s, o)
      BY <1>2, <2>2, FailsSoundly
    <2> QED BY <1>2, <1>4, <2>2, <2>3 DEF Calm, Reliable
  <1> QED BY <1>3, <1>4

-----------------------------------------------------------------------------
\* What a slice is set to leaves the trigger of the reset alone, but for that trigger itself.
LEMMA TriggerStays ==
  ASSUME NEW s \in Unit, TriggerClear(s), NEW f, IsSetting(f), f # sys_rst, NEW v \in Nat,
         Key(f) = <<0, SYS_TRIGGER>>
  PROVE  Slice(SetSlice(Stored(s, f), f, v), sys_rst) # 1
  <1>1. sys_rst.pos = 5 /\ sys_rst.len = 1
    BY DEF sys_rst, SystemControl, Field
  <1>2. IsSlice(f) /\ (f.pos + f.len <= sys_rst.pos \/ sys_rst.pos + sys_rst.len <= f.pos)
    BY <1>1 DEF IsSetting, IsSlice
  <1>3. Slice(SetSlice(Stored(s, f), f, v), sys_rst) = Slice(Stored(s, f), sys_rst)
    BY <1>2, SysRstSlice, StoredByte, SlicesApart
  <1>4. Slice(0, sys_rst) = 0
    BY SysRstSlice, ZeroSlice
  <1> QED BY <1>3, <1>4 DEF Stored, TriggerClear

LEMMA WrittenSets ==
  ASSUME NEW s \in Unit, TriggerClear(s), NEW f, IsSetting(f), f # sys_rst, NEW v \in Nat,
         s.page = f.page, Mode(s) = OPERATION_MODE_CONFIG \/ Key(f) \in AnyMode
  PROVE  Written(s, f.reg, SetSlice(Stored(s, f), f, v)).regs = WithField(s.regs, f, v)
  <1> DEFINE key == Key(f)
             byte == SetSlice(Stored(s, f), f, v)
  <1>1. f.reg # PAGE_ID /\ key = <<s.page, f.reg>>
    BY DEF IsSetting, Key
  <1>2. ~(key = <<0, SYS_TRIGGER>> /\ Slice(byte, sys_rst) = 1)
    BY TriggerStays
  <1>3. s.regs \in [Registers -> Byte]
    BY DEF Unit
  <1>4. CASE key \in Registers
    <2>1. Written(s, f.reg, byte) = [s EXCEPT !.regs[key] = byte]
      BY <1>1, <1>2, <1>4 DEF Written
    <2>2. [s EXCEPT !.regs[key] = byte].regs = [s.regs EXCEPT ![key] = byte]
      BY DEF Unit
    <2>3. byte = SetSlice(s.regs[key], f, v)
      BY <1>4 DEF Stored
    <2> QED BY <1>3, <1>4, <2>1, <2>2, <2>3 DEF WithField
  <1>5. CASE key \notin Registers
    <2>1. Written(s, f.reg, byte) = s
      BY <1>1, <1>2, <1>5 DEF Written
    <2> QED BY <1>3, <1>5, <2>1 DEF WithField
  <1> QED BY <1>4, <1>5

LEMMA WrittenAt ==
  ASSUME NEW s \in Unit, NEW reg, reg # PAGE_ID, NEW v,
         ~(<<s.page, reg>> = <<0, SYS_TRIGGER>> /\ Slice(v, sys_rst) = 1)
  PROVE  \/ Written(s, reg, v).regs = s.regs
         \/ /\ <<s.page, reg>> \in Registers
            /\ Written(s, reg, v).regs = [s.regs EXCEPT ![<<s.page, reg>>] = v]
  <1> DEFINE key == <<s.page, reg>>
  <1>1. Written(s, reg, v) = s \/ (key \in Registers /\ Written(s, reg, v) = [s EXCEPT !.regs[key] = v])
    BY DEF Written
  <1>2. [s EXCEPT !.regs[key] = v].regs = [s.regs EXCEPT ![key] = v]
    BY DEF Unit
  <1> QED BY <1>1, <1>2

LEMMA UpdateKeeps ==
  ASSUME NEW s \in Unit, NEW f, IsSlice(f), f.reg # PAGE_ID, NEW v \in Nat, NEW o \in Update(s, f, v)
  PROVE  /\ Keeps(s, o) /\ o.s \in Unit /\ o.data = 0
         /\ o.s.faults = s.faults => o.ok
  <1>1. PICK r \in BusRead(s, f.reg) :
          o \in IF r.ok THEN BusWrite(r.s, f.reg, SetSlice(r.data, f, v)) ELSE {Failed(r.s)}
    BY DEF Update
  <1>2. Keeps(s, r) /\ r.s \in Unit /\ r.data \in Byte /\ (r.s.faults = s.faults => r.ok)
    BY BusReadKeeps
  <1>3. SetSlice(r.data, f, v) \in Byte
    BY <1>2, SetSliceByte
  <1>4. CASE r.ok
    <2>1. Keeps(r.s, o) /\ o.s \in Unit /\ o.data = 0 /\ (o.s.faults = r.s.faults => o.ok)
      BY <1>1, <1>2, <1>3, <1>4, BusWriteOutcome
    <2> QED BY <1>2, <2>1, KeptThenKept DEF Keeps, Follows, Unit
  <1>5. CASE ~r.ok
    <2>1. o = Failed(r.s)
      BY <1>1, <1>5
    <2>2. Keeps(r.s, o) /\ ~o.ok /\ o.data = 0 /\ o.s = r.s
      BY <1>2, <2>1, FailedOutcome
    <2> QED BY <1>2, <1>5, <2>2, KeptThenKept
  <1> QED BY <1>4, <1>5

\* Where the sensor takes it, a setting is made if the result is good, and nothing else ever is.
LEMMA UpdateSets ==
  ASSUME NEW s \in Unit, TriggerClear(s), NEW f, IsSetting(f), f # sys_rst, NEW v \in Nat,
         s.page = f.page, Mode(s) = OPERATION_MODE_CONFIG \/ Key(f) \in AnyMode,
         NEW o \in Update(s, f, v), ~o.s.misread
  PROVE  /\ o.ok => o.s.regs = WithField(s.regs, f, v)
         /\ o.s.regs \in {s.regs, WithField(s.regs, f, v)}
  <1>0. IsSlice(f) /\ f.reg # PAGE_ID
    BY DEF IsSetting
  <1>1. PICK r \in BusRead(s, f.reg) :
          o \in IF r.ok THEN BusWrite(r.s, f.reg, SetSlice(r.data, f, v)) ELSE {Failed(r.s)}
    BY DEF Update
  <1>2. /\ r.s \in Unit /\ r.data \in Byte /\ r.s.regs = s.regs
        /\ r.ok /\ ~r.s.misread => r.s = s /\ r.data = Content(s, f.reg)
    BY BusReadKeeps
  <1>3. SetSlice(r.data, f, v) \in Byte
    BY <1>0, <1>2, SetSliceByte
  <1>4. CASE r.ok
    <2>1. /\ o.s.misread = r.s.misread
          /\ o.ok => o.s = Written(r.s, f.reg, SetSlice(r.data, f, v))
          /\ o.s.regs \in {r.s.regs, Written(r.s, f.reg, SetSlice(r.data, f, v)).regs}
      BY <1>1, <1>2, <1>3, <1>4, BusWriteOutcome
    <2>2. r.s = s /\ r.data = Stored(s, f)
      BY <1>0, <1>2, <1>4, <2>1, ContentStored
    <2>3. Written(s, f.reg, SetSlice(Stored(s, f), f, v)).regs = WithField(s.regs, f, v)
      BY WrittenSets
    <2> QED BY <2>1, <2>2, <2>3
  <1>5. CASE ~r.ok
    <2>1. ~o.ok /\ o.s = r.s
      BY <1>1, <1>2, <1>5, FailedOutcome
    <2> QED BY <1>2, <2>1
  <1> QED BY <1>4, <1>5

-----------------------------------------------------------------------------
\* Settings made one after the other.
LEMMA SetSliceTwice ==
  ASSUME NEW b \in Byte, NEW f, IsSlice(f), NEW v \in Nat, NEW w \in Nat
  PROVE  SetSlice(SetSlice(b, f, v), f, w) = SetSlice(b, f, w)
  <1>1. PICK Q \in Nat : /\ 2^f.pos * 2^f.len * Q = 256
                         /\ 2^f.pos \in Nat \ {0} /\ 2^f.len \in Nat \ {0}
    BY SliceFits
  <1> DEFINE P == 2^f.pos
             L == 2^f.len
             c == SetSlice(b, f, v)
             m == Slice(b, f)
  <1>2. c \in Byte /\ Slice(c, f) = v % L
    BY SetSliceByte
  <1>3. c = b + ((v % L) - m) * P
    BY DEF SetSlice
  <1>4. SetSlice(c, f, w) = c + ((w % L) - (v % L)) * P
    BY <1>2 DEF SetSlice
  <1>5. SetSlice(b, f, w) = b + ((w % L) - m) * P
    BY DEF SetSlice
  <1>6. m \in Int /\ v % L \in Int /\ w % L \in Int /\ P \in Int /\ b \in Int
    BY <1>1, SliceType DEF Byte
  <1> HIDE DEF P, L, c, m
  <1>7. ASSUME NEW x \in Int, NEW y \in Int, NEW z \in Int, NEW p \in Int, NEW i \in Int
        PROVE  (i + (x - y) * p) + (z - x) * p = i + (z - y) * p
    OBVIOUS
  <1>8. (b + ((v % L) - m) * P) + ((w % L) - (v % L)) * P = b + ((w % L) - m) * P
    BY <1>6, <1>7
  <1> QED BY <1>3, <1>4, <1>5, <1>8 DEF c

LEMMA SetSliceSame ==
  ASSUME NEW b \in Byte, NEW f, IsSlice(f)
  PROVE  SetSlice(b, f, Slice(b, f)) = b
  <1>1. 2^f.pos \in Nat \ {0} /\ 2^f.len \in Nat \ {0}
    BY SliceFits
  <1> DEFINE P == 2^f.pos
             L == 2^f.len
  <1>2. ASSUME NEW x \in Nat, NEW l \in Nat \ {0}, NEW p \in Nat \ {0}
        PROVE  b + (((x % l) % l) - (x % l)) * p = b
    <2>1. (x % l) % l = x % l
      OBVIOUS
    <2>2. ((x % l) % l) - (x % l) = 0
      BY <2>1
    <2>3. 0 * p = 0
      OBVIOUS
    <2> QED BY <2>2, <2>3 DEF Byte
  <1>3. b \div P \in Nat
    BY <1>1 DEF Byte
  <1>4. b + ((((b \div P) % L) % L) - ((b \div P) % L)) * P = b
    BY <1>1, <1>2, <1>3, Zenon
  <1> QED BY <1>4 DEF Slice, SetSlice

LEMMA WithFieldType ==
  ASSUME NEW regs \in [Registers -> Byte], NEW f, IsSlice(f), NEW v \in Nat
  PROVE  WithField(regs, f, v) \in [Registers -> Byte]
  BY SetSliceByte DEF WithField

LEMMA WithFieldTwice ==
  ASSUME NEW regs \in [Registers -> Byte], NEW f, IsSlice(f), NEW v \in Nat, NEW w \in Nat
  PROVE  WithField(WithField(regs, f, v), f, w) = WithField(regs, f, w)
  BY SetSliceTwice DEF WithField

LEMMA WithFieldSame ==
  ASSUME NEW regs \in [Registers -> Byte], NEW f, IsSlice(f), Key(f) \in Registers
  PROVE  WithField(regs, f, Slice(regs[Key(f)], f)) = regs
  <1>1. \A r \in Registers : WithField(regs, f, Slice(regs[Key(f)], f))[r] = regs[r]
    BY SetSliceSame DEF WithField
  <1> QED BY <1>1 DEF WithField

\* A setting restored after another was made in another register.
LEMMA WithFieldRestored ==
  ASSUME NEW regs \in [Registers -> Byte], NEW f, IsSlice(f), Key(f) \in Registers,
         NEW g, IsSlice(g), Key(g) # Key(f), NEW v \in Nat, NEW w \in Nat
  PROVE  WithField(WithField(WithField(regs, f, v), g, w), f, Slice(regs[Key(f)], f)) =
           WithField(regs, g, w)
  <1> DEFINE prev == Slice(regs[Key(f)], f)
  <1>1. prev \in Nat
    BY SliceType
  <1>2. WithField(WithField(regs, f, v), f, prev) = regs
    BY <1>1, WithFieldTwice, WithFieldSame
  <1>3. WithField(WithField(WithField(regs, f, v), g, w), f, prev) =
          WithField(WithField(WithField(regs, f, v), f, prev), g, w)
    BY DEF WithField
  <1> QED BY <1>2, <1>3

-----------------------------------------------------------------------------
LEMMA OperationModeSetting ==
  /\ IsSetting(operation_mode) /\ IsSlice(operation_mode)
  /\ operation_mode.page = 0 /\ operation_mode.reg # PAGE_ID /\ operation_mode # sys_rst
  /\ Key(operation_mode) = <<0, OPR_MODE>> /\ Key(operation_mode) \in Registers \cap AnyMode
  <1>1. operation_mode = [page |-> 0, reg |-> 61, pos |-> 0, len |-> 4, limit |-> 256, config |-> FALSE]
    BY DEF operation_mode, SystemControl, Field, Unlimited
  <1>2. sys_rst = [page |-> 0, reg |-> 63, pos |-> 5, len |-> 1, limit |-> 256, config |-> FALSE]
    BY DEF sys_rst, SystemControl, Field, Unlimited
  <1>3. Key(operation_mode) = <<0, OPR_MODE>>
    BY <1>1 DEF Key, OPR_MODE
  <1>4. <<0, OPR_MODE>> # <<0, SYS_TRIGGER>>
    BY DEF OPR_MODE, SYS_TRIGGER
  <1> QED BY <1>1, <1>2, <1>3, <1>4, RegistersAssumption DEF IsSetting, IsSlice, PAGE_ID, AnyMode

LEMMA ModeType == ASSUME NEW s \in Unit PROVE Mode(s) \in Nat /\ Mode(s) = Slice(Stored(s, operation_mode), operation_mode)
  BY OperationModeSetting, SliceType DEF Mode, Stored, Unit

\* The mode after it was set.
LEMMA ModeSet ==
  ASSUME NEW s \in Unit, NEW u \in Unit, u.regs = WithField(s.regs, operation_mode, OPERATION_MODE_CONFIG)
  PROVE  Mode(u) = OPERATION_MODE_CONFIG
  <1>1. s.regs[<<0, OPR_MODE>>] \in Byte /\ u.regs[<<0, OPR_MODE>>] = SetSlice(s.regs[<<0, OPR_MODE>>], operation_mode, 0)
    BY OperationModeSetting DEF Unit, WithField, OPERATION_MODE_CONFIG
  <1>2. Mode(u) = 0 % 2^operation_mode.len
    BY <1>1, OperationModeSetting, SetSliceByte DEF Mode
  <1>3. operation_mode.len = 4
    BY DEF operation_mode, SystemControl, Field
  <1> QED BY <1>2, <1>3 DEF OPERATION_MODE_CONFIG

\* The driver knows the page of the sensor, or this one is the page that most functions want.
Near(s) == s.page = 0 \/ s.page_id = s.page

\* The first change of the mode may fail: it keeps the page whatever its result.
LEMMA set_operation_modeSound ==
  ASSUME NEW s \in Unit, NEW mode \in Nat, NEW o \in set_operation_mode(s, mode)
  PROVE  /\ Sound(s, o) /\ o.s \in Unit /\ o.data = 0
         /\ o.ok => o.s.page_id = 0 /\ ~s.null
         /\ Calm(s, o) => o.ok
         /\ ~s.null /\ s.page_id = 0 => Keeps(s, o)
         /\ o.ok /\ Near(s) => o.s.page = 0
         /\ TriggerClear(s) /\ Near(s) /\ Reliable(o) => o.s.regs = WithField(s.regs, operation_mode, mode)
  <1> DEFINE Next(g) ==
        IF ~g.ok THEN {Failed(g.s)}
        ELSE IF OPERATION_MODE_CONFIG \in {g.data, mode} THEN Update(g.s, operation_mode, mode)
        ELSE UNION {Update(c.s, operation_mode, mode) :
                    c \in Update(g.s, operation_mode, OPERATION_MODE_CONFIG)}
  <1>1. PICK g \in Get(s, operation_mode) : o \in Next(g)
    BY DEF set_operation_mode
  <1>2. /\ Sound(s, g) /\ g.s \in Unit /\ g.s.regs = s.regs
        /\ g.ok /\ Near(s) => g.s.page = 0
        /\ g.ok => g.s.page_id = 0 /\ ~s.null
        /\ Calm(s, g) => g.ok
        /\ ~s.null /\ s.page_id = 0 => g.s.page = s.page /\ g.s.page_id = s.page_id
    <2>1. operation_mode.page \in Byte
      BY OperationModeSetting DEF Byte
    <2> QED BY <2>1, OperationModeSetting, GetSound DEF Near
  <1>3. ~s.null /\ s.page_id = 0 => Keeps(s, g)
    BY <1>2 DEF Keeps, Sound
  <1>4. CASE ~g.ok
    <2>1. o = Failed(g.s)
      BY <1>1, <1>4
    <2>2. Keeps(g.s, o) /\ ~o.ok /\ o.data = 0 /\ o.s = g.s
      BY <1>2, <2>1, FailedOutcome
    <2> QED BY <1>2, <1>3, <1>4, <2>2, FailsSoundly, KeptThenKept DEF Calm, Reliable
  <1>5. CASE g.ok
    <2>1. /\ Keeps(g.s, o) /\ o.s \in Unit /\ o.data = 0 /\ (o.s.faults = g.s.faults => o.ok)
          /\ TriggerClear(g.s) /\ g.s.page = 0 /\ Reliable(o) =>
               o.s.regs = WithField(g.s.regs, operation_mode, mode)
      <3>1. CASE o \in Update(g.s, operation_mode, mode)
        BY <1>2, <3>1, OperationModeSetting, UpdateKeeps, UpdateSets DEF Reliable
      <3>2. CASE \E c \in Update(g.s, operation_mode, OPERATION_MODE_CONFIG) :
                   o \in Update(c.s, operation_mode, mode)
        <4>1. PICK c \in Update(g.s, operation_mode, OPERATION_MODE_CONFIG) :
                o \in Update(c.s, operation_mode, mode)
          BY <3>2
        <4>0. OPERATION_MODE_CONFIG \in Nat
          BY DEF OPERATION_MODE_CONFIG
        <4>2. Keeps(g.s, c) /\ c.s \in Unit
          BY <1>2, <4>0, OperationModeSetting, UpdateKeeps
        <4>3. Keeps(c.s, o) /\ o.s \in Unit /\ o.data = 0 /\ (o.s.faults = c.s.faults => o.ok)
          BY <4>1, <4>2, OperationModeSetting, UpdateKeeps
        <4>4. Keeps(g.s, o)
          BY <1>2, <4>2, <4>3, KeptThenKept
        <4>5. o.s.faults = g.s.faults => o.ok
          BY <1>2, <4>2, <4>3 DEF Keeps, Follows, Unit
        <4>6. ASSUME TriggerClear(g.s), g.s.page = 0, Reliable(o)
              PROVE  o.s.regs = WithField(g.s.regs, operation_mode, mode)
          <5>1. ~c.s.misread /\ c.s.page = 0 /\ TriggerClear(c.s)
            BY <4>2, <4>3, <4>6 DEF Keeps, Follows, Reliable
          <5>2. c.s.regs \in {g.s.regs, WithField(g.s.regs, operation_mode, OPERATION_MODE_CONFIG)}
            BY <1>2, <4>0, <4>6, <5>1, OperationModeSetting, UpdateSets
          <5>3. o.s.regs = WithField(c.s.regs, operation_mode, mode)
            BY <4>1, <4>2, <4>6, <5>1, OperationModeSetting, UpdateSets DEF Reliable
          <5>4. g.s.regs \in [Registers -> Byte]
            BY <1>2 DEF Unit
          <5> QED BY <4>0, <5>2, <5>3, <5>4, OperationModeSetting, WithFieldTwice
        <4> QED BY <4>3, <4>4, <4>5, <4>6
      <3> QED BY <1>1, <1>5, <3>1, <3>2
    <2>2. Sound(s, o)
      BY <1>2, <1>5, <2>1, KeptIsSound, SoundThenSound
    <2>3. Calm(s, o) => o.ok
      BY <1>2, <2>1 DEF Calm, Sound, Keeps, Follows, Unit
    <2>4. ~s.null /\ s.page_id = 0 => Keeps(s, o)
      BY <1>3, <2>1, KeptThenKept
    <2>5. o.s.page_id = 0 /\ ~s.null
      BY <1>2, <1>5, <2>1 DEF Keeps
    <2>6. ASSUME TriggerClear(s), Near(s), Reliable(o)
          PROVE  o.s.regs = WithField(s.regs, operation_mode, mode)
      <3>1. Reliable(g) /\ TriggerClear(g.s)
        BY <1>2, <1>5, <2>1, <2>6 DEF Reliable, Sound, Keeps, Follows
      <3>2. g.s.page = 0
        BY <1>2, <1>5, <2>6
      <3> QED BY <1>2, <2>1, <2>6, <3>1, <3>2
    <2>7. Near(s) => o.s.page = 0
      BY <1>2, <1>5, <2>1 DEF Keeps
    <2> QED BY <2>1, <2>2, <2>3, <2>4, <2>5, <2>6, <2>7
  <1> QED BY <1>4, <1>5

-----------------------------------------------------------------------------
LEMMA EnterConfigSound ==
  ASSUME NEW s \in Unit, NEW o \in EnterConfig(s)
  PROVE  /\ Sound(s, o) /\ o.s \in Unit /\ o.data \in Nat
         /\ o.ok => o.s.page_id = 0 /\ ~s.null
         /\ Calm(s, o) => o.ok
         /\ ~s.null /\ s.page_id = 0 => Keeps(s, o)
         /\ o.ok /\ Near(s) => o.s.page = 0
         /\ TriggerClear(s) /\ Near(s) /\ Reliable(o) =>
              /\ o.data = Mode(s) /\ Mode(o.s) = OPERATION_MODE_CONFIG
              /\ o.s.regs = WithField(s.regs, operation_mode, OPERATION_MODE_CONFIG)
  <1>0. OPERATION_MODE_CONFIG \in Nat /\ operation_mode.page \in Byte
    BY OperationModeSetting DEF OPERATION_MODE_CONFIG, Byte
  <1>1. PICK g \in Get(s, operation_mode) :
          o \in IF ~g.ok \/ g.data = OPERATION_MODE_CONFIG THEN {g}
                ELSE {[c EXCEPT !.data = g.data] : c \in set_operation_mode(g.s, OPERATION_MODE_CONFIG)}
    BY DEF EnterConfig
  <1>2. /\ Sound(s, g) /\ g.s \in Unit /\ g.data \in Nat /\ g.s.regs = s.regs
        /\ g.ok => g.s.page_id = 0 /\ ~s.null
        /\ Calm(s, g) => g.ok
        /\ ~s.null /\ s.page_id = 0 => g.s.page = s.page /\ g.s.page_id = s.page_id
        /\ g.ok /\ Near(s) => g.s.page = 0
        /\ Reliable(g) /\ Near(s) => g.data = Mode(s)
    BY <1>0, OperationModeSetting, GetSound, ModeType DEF Near
  <1>3. ~s.null /\ s.page_id = 0 => Keeps(s, g)
    BY <1>2 DEF Keeps, Sound
  <1>4. CASE o = g /\ (~g.ok \/ g.data = OPERATION_MODE_CONFIG)
    <2>1. ASSUME Near(s), Reliable(g)
          PROVE  /\ Mode(g.s) = OPERATION_MODE_CONFIG
                 /\ g.s.regs = WithField(s.regs, operation_mode, OPERATION_MODE_CONFIG)
      <3>1. Mode(s) = OPERATION_MODE_CONFIG
        BY <1>2, <1>4, <2>1 DEF Reliable
      <3>2. s.regs \in [Registers -> Byte]
        BY DEF Unit
      <3>3. WithField(s.regs, operation_mode, Mode(s)) = s.regs
        BY <3>2, OperationModeSetting, WithFieldSame DEF Mode
      <3> QED BY <1>2, <3>1, <3>3 DEF Mode
    <2> QED BY <1>2, <1>3, <1>4, <2>1
  <1>5. CASE g.ok /\ \E c \in set_operation_mode(g.s, OPERATION_MODE_CONFIG) : o = [c EXCEPT !.data = g.data]
    <2>1. PICK c \in set_operation_mode(g.s, OPERATION_MODE_CONFIG) : o = [c EXCEPT !.data = g.data]
      BY <1>5
    <2>2. /\ Sound(g.s, c) /\ c.s \in Unit
          /\ c.ok => c.s.page_id = 0
          /\ Calm(g.s, c) => c.ok
          /\ ~g.s.null /\ g.s.page_id = 0 => Keeps(g.s, c)
          /\ c.ok /\ Near(g.s) => c.s.page = 0
          /\ TriggerClear(g.s) /\ Near(g.s) /\ Reliable(c) =>
               c.s.regs = WithField(g.s.regs, operation_mode, OPERATION_MODE_CONFIG)
      BY <1>0, <1>2, set_operation_modeSound
    <2>3. IsOutcome(c)
      BY <2>2 DEF Sound, Follows
    <2>4. o.s = c.s /\ o.ok = c.ok /\ o.data = g.data /\ IsOutcome(o)
      BY <2>1, <2>3 DEF IsOutcome
    <2>5. g.s.null = s.null
      BY <1>2 DEF Sound, Follows
    <2>6. Sound(g.s, o) /\ Keeps(g.s, o)
      BY <1>2, <1>5, <2>2, <2>4, <2>5 DEF Sound, Keeps, Follows
    <2>7. Sound(s, o) /\ (~s.null /\ s.page_id = 0 => Keeps(s, o))
      BY <1>2, <1>3, <1>5, <2>6, SoundThenSound, KeptThenKept
    <2>8. Calm(s, o) => o.ok
      BY <1>2, <2>2, <2>4, <2>5, <2>6 DEF Calm, Sound, Follows, Unit
    <2>9. o.ok /\ Near(s) => o.s.page = 0
      BY <1>2, <1>5, <2>2, <2>4 DEF Near
    <2>10. ASSUME TriggerClear(s), Near(s), Reliable(o)
           PROVE  /\ o.data = Mode(s) /\ Mode(o.s) = OPERATION_MODE_CONFIG
                  /\ o.s.regs = WithField(s.regs, operation_mode, OPERATION_MODE_CONFIG)
      <3>1. Reliable(g) /\ TriggerClear(g.s) /\ Reliable(c)
        BY <1>2, <1>5, <2>4, <2>6, <2>10 DEF Reliable, Sound, Follows
      <3>2. Near(g.s)
        BY <1>2, <1>5, <2>10 DEF Near
      <3>3. o.s.regs = WithField(s.regs, operation_mode, OPERATION_MODE_CONFIG)
        BY <1>2, <2>2, <2>4, <3>1, <3>2
      <3> QED BY <1>2, <2>2, <2>4, <2>10, <3>1, <3>3, ModeSet
    <2> QED BY <1>2, <1>5, <2>2, <2>4, <2>7, <2>8, <2>9, <2>10
  <1> QED BY <1>1, <1>4, <1>5

\* What is set again at the end does not make up for a failure before.
LEMMA RestoreSound ==
  ASSUME NEW s \in Unit, NEW b, Sound(s, b), NEW prev \in Nat, NEW o \in Restore(b, prev)
  PROVE  /\ Sound(s, o) /\ o.s \in Unit
         /\ o.ok => b.ok
         /\ ~o.s.misread => ~b.s.misread
         /\ o.s.faults <= b.s.faults
         /\ b.ok /\ o.s.faults = b.s.faults /\ ~s.null => o.ok
         /\ o.ok /\ b.s.page_id = b.s.page => o.s.page_id = o.s.page
         /\ Keeps(s, b) /\ ~s.null /\ s.page_id = 0 => Keeps(s, o)
         /\ o.ok /\ b.s.page_id = 0 => o.s.page_id = 0
         /\ TriggerClear(s) /\ b.s.page_id = b.s.page /\ Reliable(o)
              /\ (prev = OPERATION_MODE_CONFIG => Mode(b.s) = OPERATION_MODE_CONFIG)
              => o.s.regs = WithField(b.s.regs, operation_mode, prev)
  <1>0. b.s \in Unit /\ b.s.faults \in Nat /\ b.s.null = s.null /\ (TriggerClear(s) => TriggerClear(b.s))
    BY DEF Sound, Follows, IsOutcome, Unit
  <1>1. CASE o = b /\ prev = OPERATION_MODE_CONFIG
    <2>1. b.s.regs \in [Registers -> Byte]
      BY <1>0 DEF Unit
    <2>2. WithField(b.s.regs, operation_mode, Mode(b.s)) = b.s.regs
      BY <2>1, OperationModeSetting, WithFieldSame DEF Mode
    <2> QED BY <1>0, <1>1, <2>2
  <1>2. CASE \E r \in set_operation_mode(b.s, prev) : o = Also(b, r)
    <2>1. PICK r \in set_operation_mode(b.s, prev) : o = Also(b, r)
      BY <1>2
    <2>2. /\ Sound(b.s, r) /\ r.s \in Unit
          /\ r.ok => r.s.page_id = 0
          /\ Calm(b.s, r) => r.ok
          /\ ~b.s.null /\ b.s.page_id = 0 => Keeps(b.s, r)
          /\ TriggerClear(b.s) /\ Near(b.s) /\ Reliable(r) =>
               r.s.regs = WithField(b.s.regs, operation_mode, prev)
      BY <1>0, set_operation_modeSound
    <2>3. b.ok \in BOOLEAN /\ IsOutcome(r)
      BY <2>2 DEF Sound, Follows, IsOutcome
    <2>4. o.s = r.s /\ o.ok = (b.ok /\ r.ok) /\ IsOutcome(o)
      BY <2>1, <2>3 DEF Also, IsOutcome
    <2>5. Follows(b.s, o) /\ (o.ok /\ b.s.page_id = b.s.page => o.s.page_id = o.s.page)
      BY <2>2, <2>3, <2>4 DEF Sound, Follows
    <2>6. Sound(s, o)
      BY <1>0, <2>4, <2>5, FollowsThenFollows DEF Sound
    <2>7. Keeps(s, b) /\ ~s.null /\ s.page_id = 0 => Keeps(s, o)
      <3>1. ASSUME Keeps(s, b), ~s.null, s.page_id = 0 PROVE Keeps(s, o)
        <4>1. Keeps(b.s, o)
          BY <1>0, <2>2, <2>4, <2>5, <3>1 DEF Keeps
        <4> QED BY <3>1, <4>1, KeptThenKept
      <3> QED BY <3>1
    <2>8. ASSUME TriggerClear(s), b.s.page_id = b.s.page, Reliable(o)
          PROVE  o.s.regs = WithField(b.s.regs, operation_mode, prev)
      BY <1>0, <2>2, <2>3, <2>4, <2>8 DEF Reliable, Near
    <2> QED BY <1>0, <2>2, <2>3, <2>4, <2>5, <2>6, <2>7, <2>8 DEF Follows, Calm
  <1> QED BY <1>1, <1>2 DEF Restore

\* A function that is carried out in the configuration mode: e is what entering it gives, b
\* what the function makes of that, o the outcome once the mode is set again.
LEMMA InConfigSound ==
  ASSUME NEW s \in Unit, NEW e \in EnterConfig(s), NEW b,
         IF e.ok THEN Sound(e.s, b) ELSE b = Failed(e.s),
         NEW o \in Restore(b, e.data)
  PROVE  /\ Sound(s, o) /\ o.s \in Unit
         /\ o.ok => e.ok /\ b.ok /\ ~s.null
         /\ Calm(s, o) => e.ok /\ Calm(e.s, b) /\ (b.ok => o.ok)
         /\ o.ok /\ b.s.page_id = b.s.page => o.s.page_id = o.s.page
         /\ ~s.null /\ s.page_id = 0 /\ (e.ok => Keeps(e.s, b)) => Keeps(s, o)
         /\ o.ok /\ b.s.page_id = 0 => o.s.page_id = 0
         /\ Reliable(o) => Reliable(e) /\ Reliable(b)
         /\ TriggerClear(s) /\ Near(s) /\ Reliable(o) /\ b.s.page_id = b.s.page
              /\ b.s.regs[<<0, OPR_MODE>>] = e.s.regs[<<0, OPR_MODE>>]
              => o.s.regs = [b.s.regs EXCEPT ![<<0, OPR_MODE>>] = s.regs[<<0, OPR_MODE>>]]
  <1>1. /\ Sound(s, e) /\ e.s \in Unit /\ e.data \in Nat
        /\ e.ok => e.s.page_id = 0 /\ ~s.null
        /\ Calm(s, e) => e.ok
        /\ ~s.null /\ s.page_id = 0 => Keeps(s, e)
        /\ TriggerClear(s) /\ Near(s) /\ Reliable(e) =>
              /\ e.data = Mode(s) /\ Mode(e.s) = OPERATION_MODE_CONFIG
              /\ e.s.regs = WithField(s.regs, operation_mode, OPERATION_MODE_CONFIG)
    BY EnterConfigSound
  <1>2. /\ Sound(s, b) /\ (b.ok => e.ok) /\ b.s \in Unit
        /\ b.s.faults <= e.s.faults /\ (~b.s.misread => ~e.s.misread)
        /\ ~s.null /\ s.page_id = 0 /\ (e.ok => Keeps(e.s, b)) => Keeps(s, b)
    <2>1. CASE e.ok
      <3>1. Sound(s, b)
        BY <1>1, <2>1, SoundThenSound
      <3>2. ~s.null /\ s.page_id = 0 /\ (e.ok => Keeps(e.s, b)) => Keeps(s, b)
        BY <1>1, <2>1, KeptThenKept
      <3> QED BY <2>1, <3>1, <3>2 DEF Sound, Follows, IsOutcome
    <2>2. CASE ~e.ok
      <3>1. Keeps(e.s, b) /\ ~b.ok /\ b.s = e.s
        BY <1>1, <2>2, FailedOutcome
      <3>2. Sound(s, b)
        BY <1>1, <2>2, <3>1, FailsSoundly
      <3> QED BY <1>1, <3>1, <3>2, KeptThenKept DEF Unit
    <2> QED BY <2>1, <2>2
  <1>3. /\ Sound(s, o) /\ o.s \in Unit
        /\ o.ok => b.ok
        /\ ~o.s.misread => ~b.s.misread
        /\ o.s.faults <= b.s.faults
        /\ b.ok /\ o.s.faults = b.s.faults /\ ~s.null => o.ok
        /\ o.ok /\ b.s.page_id = b.s.page => o.s.page_id = o.s.page
        /\ Keeps(s, b) /\ ~s.null /\ s.page_id = 0 => Keeps(s, o)
        /\ o.ok /\ b.s.page_id = 0 => o.s.page_id = 0
        /\ TriggerClear(s) /\ b.s.page_id = b.s.page /\ Reliable(o)
              /\ (e.data = OPERATION_MODE_CONFIG => Mode(b.s) = OPERATION_MODE_CONFIG)
              => o.s.regs = WithField(b.s.regs, operation_mode, e.data)
    BY <1>1, <1>2, RestoreSound
  <1>4. Calm(s, o) => /\ Calm(s, e) /\ e.s.null = s.null
                      /\ o.s.faults = b.s.faults /\ b.s.faults = e.s.faults
    BY <1>1, <1>2, <1>3 DEF Calm, Sound, Follows, Unit
  <1>5. Reliable(o) => Reliable(e) /\ Reliable(b)
    BY <1>2, <1>3 DEF Reliable
  <1>6. ASSUME TriggerClear(s), Near(s), Reliable(o), b.s.page_id = b.s.page,
               b.s.regs[<<0, OPR_MODE>>] = e.s.regs[<<0, OPR_MODE>>]
        PROVE  o.s.regs = [b.s.regs EXCEPT ![<<0, OPR_MODE>>] = s.regs[<<0, OPR_MODE>>]]
    <2> DEFINE om == operation_mode
               key == <<0, OPR_MODE>>
    <2>1. /\ e.data = Mode(s) /\ Mode(e.s) = OPERATION_MODE_CONFIG
          /\ e.s.regs = WithField(s.regs, om, OPERATION_MODE_CONFIG)
      BY <1>1, <1>5, <1>6
    <2>2. Mode(b.s) = OPERATION_MODE_CONFIG
      BY <1>6, <2>1 DEF Mode
    <2>3. o.s.regs = WithField(b.s.regs, om, Mode(s))
      BY <1>3, <1>6, <2>1, <2>2
    <2>4. s.regs \in [Registers -> Byte] /\ b.s.regs \in [Registers -> Byte]
      BY <1>2 DEF Unit
    <2>5. WithField(WithField(s.regs, om, OPERATION_MODE_CONFIG), om, Mode(s)) = s.regs
      <3>1. WithField(s.regs, om, Mode(s)) = s.regs
        BY <2>4, OperationModeSetting, WithFieldSame DEF Mode
      <3>2. Mode(s) \in Nat /\ OPERATION_MODE_CONFIG \in Nat
        BY ModeType DEF OPERATION_MODE_CONFIG
      <3> QED BY <2>4, <3>1, <3>2, OperationModeSetting, WithFieldTwice
    <2>6. WithField(e.s.regs, om, Mode(s))[key] = s.regs[key]
      BY <2>1, <2>5
    <2>7. key \in Registers /\ key = Key(om)
      BY OperationModeSetting
    <2>8. WithField(b.s.regs, om, Mode(s))[key] = s.regs[key]
      BY <1>6, <2>6, <2>7 DEF WithField
    <2>9. \A r \in Registers : r # key => WithField(b.s.regs, om, Mode(s))[r] = b.s.regs[r]
      BY <2>7 DEF WithField
    <2> HIDE DEF om, key
    <2>10. WithField(b.s.regs, om, Mode(s)) = [b.s.regs EXCEPT ![key] = s.regs[key]]
      <3>1. DOMAIN WithField(b.s.regs, om, Mode(s)) = Registers
        BY DEF WithField
      <3>2. WithField(b.s.regs, om, Mode(s)) = [r \in Registers |-> WithField(b.s.regs, om, Mode(s))[r]]
        BY DEF WithField
      <3> QED BY <2>4, <2>7, <2>8, <2>9, <3>1, <3>2
    <2> QED BY <2>3, <2>10 DEF om, key
  <1> QED BY <1>1, <1>2, <1>3, <1>4, <1>5, <1>6 DEF Calm

-----------------------------------------------------------------------------
\* The page that a function of the configuration mode turns to.
OnThePage(s, page) == IF page = 0 THEN {Outcome(s, TRUE, 0)} ELSE write_page_id(s, page)

LEMMA OnThePageSound ==
  ASSUME NEW s \in Unit, NEW page \in {0, 1}, NEW p \in OnThePage(s, page)
  PROVE  /\ Sound(s, p) /\ p.s \in Unit /\ p.s.regs = s.regs
         /\ page = 0 => p.s = s /\ p.ok
         /\ page = 1 /\ p.ok => p.s.page = 1 /\ p.s.page_id = 1
         /\ Calm(s, p) => p.ok
  <1>1. CASE page = 0
    <2>1. p = Outcome(s, TRUE, 0)
      BY <1>1 DEF OnThePage
    <2>2. p.s = s /\ p.ok = TRUE
      BY <2>1 DEF Outcome
    <2>3. Sound(s, p)
      BY <2>1, SameOutcome, KeptIsSound
    <2> QED BY <1>1, <2>2, <2>3
  <1>2. CASE page = 1
    <2>1. p \in write_page_id(s, page) /\ page \in Byte
      BY <1>2 DEF OnThePage, Byte
    <2>2. Sound(s, p) /\ p.s.regs = s.regs /\ (p.ok => p.s.page = page /\ p.s.page_id = page) /\ (Calm(s, p) => p.ok)
      BY <2>1, TurnsThePage
    <2> QED BY <1>2, <2>2 DEF Sound, Follows, IsOutcome
  <1> QED BY <1>1, <1>2

\* What Set does in the configuration mode.
UpdateOnPage(s, f, v) ==
  UNION {IF p.ok /\ v < f.limit THEN Update(p.s, f, v) ELSE {Failed(p.s)} : p \in OnThePage(s, f.page)}

LEMMA UpdateOnPageSound ==
  ASSUME NEW s \in Unit, NEW f, IsSetting(f), NEW v \in Nat, NEW o \in UpdateOnPage(s, f, v)
  PROVE  /\ Sound(s, o) /\ o.s \in Unit
         /\ o.ok => v < f.limit
         /\ Calm(s, o) /\ v < f.limit => o.ok
         /\ f.page = 0 => Keeps(s, o)
         /\ f.page = 1 /\ o.ok => o.s.page_id = o.s.page
         /\ /\ TriggerClear(s) /\ Mode(s) = OPERATION_MODE_CONFIG /\ f # sys_rst
            /\ (f.page = 0 => s.page = 0) /\ Reliable(o)
            => o.s.regs = WithField(s.regs, f, v)
  <1>0. IsSlice(f) /\ f.reg # PAGE_ID /\ f.page \in {0, 1}
    BY DEF IsSetting
  <1>1. PICK p \in OnThePage(s, f.page) :
          o \in IF p.ok /\ v < f.limit THEN Update(p.s, f, v) ELSE {Failed(p.s)}
    BY DEF UpdateOnPage
  <1>2. /\ Sound(s, p) /\ p.s \in Unit /\ p.s.regs = s.regs
        /\ f.page = 0 => p.s = s /\ p.ok
        /\ f.page = 1 /\ p.ok => p.s.page = 1 /\ p.s.page_id = 1
        /\ Calm(s, p) => p.ok
    BY <1>0, OnThePageSound
  <1>3. CASE p.ok /\ v < f.limit
    <2>1. Keeps(p.s, o) /\ o.s \in Unit /\ (o.s.faults = p.s.faults => o.ok)
      BY <1>0, <1>1, <1>2, <1>3, UpdateKeeps
    <2>2. Sound(s, o)
      BY <1>2, <1>3, <2>1, KeptIsSound, SoundThenSound
    <2>3. Calm(s, o) => o.ok
      BY <1>2, <2>1 DEF Calm, Sound, Keeps, Follows, Unit
    <2>4. ASSUME TriggerClear(s), Mode(s) = OPERATION_MODE_CONFIG, f # sys_rst,
                 f.page = 0 => s.page = 0, Reliable(o)
          PROVE  o.s.regs = WithField(s.regs, f, v)
      <3>1. TriggerClear(p.s) /\ p.s.page = f.page /\ Mode(p.s) = OPERATION_MODE_CONFIG
        BY <1>0, <1>2, <1>3, <2>4 DEF Sound, Follows, Mode
      <3> QED BY <1>1, <1>2, <1>3, <2>4, <3>1, UpdateSets DEF Reliable
    <2> QED BY <1>0, <1>2, <1>3, <2>1, <2>2, <2>3, <2>4 DEF Keeps
  <1>4. CASE ~(p.ok /\ v < f.limit)
    <2>1. o = Failed(p.s)
      BY <1>1, <1>4
    <2>2. Keeps(p.s, o) /\ ~o.ok /\ o.s = p.s
      BY <1>2, <2>1, FailedOutcome
    <2>3. Sound(s, o)
      BY <1>2, <2>2, FailsSoundly
    <2>4. f.page = 0 => Keeps(s, o)
      BY <1>2, <2>2
    <2> QED BY <1>2, <1>4, <2>2, <2>3, <2>4 DEF Calm, Reliable
  <1> QED BY <1>3, <1>4

\* Set, with its parts named.
LEMMA SetInConfig ==
  ASSUME NEW s, NEW f, f.config, NEW v, NEW o \in Set(s, f, v)
  PROVE  \E e \in EnterConfig(s) :
           \E b \in (IF e.ok THEN UpdateOnPage(e.s, f, v) ELSE {Failed(e.s)}) : o \in Restore(b, e.data)
  <1> DEFINE Body(c) == UpdateOnPage(c, f, v)
  <1>1. o \in UNION {UNION {Restore(b, e.data) : b \in IF e.ok THEN Body(e.s) ELSE {Failed(e.s)}} : e \in EnterConfig(s)}
    BY DEF Set, InConfig, OnPage, UpdateOnPage, OnThePage
  <1> HIDE DEF Body
  <1>2. PICK e \in EnterConfig(s) :
          \E b \in (IF e.ok THEN Body(e.s) ELSE {Failed(e.s)}) : o \in Restore(b, e.data)
    BY <1>1
  <1> QED BY <1>2 DEF Body

LEMMA SetSound ==
  ASSUME NEW s \in Unit, NEW f, IsSetting(f), NEW v \in Nat, NEW o \in Set(s, f, v)
  PROVE  /\ Sound(s, o) /\ o.s \in Unit
         /\ o.ok => ~s.null /\ (f.config => v < f.limit)
         /\ Calm(s, o) /\ v < f.limit => o.ok
         /\ o.ok /\ f.config /\ (f.page = 1 \/ Near(s)) => o.s.page_id = o.s.page
         /\ f.page = 0 /\ ~s.null /\ s.page_id = 0 => Keeps(s, o)
         /\ f.page = 0 /\ o.ok => o.s.page_id = 0
         /\ /\ TriggerClear(s) /\ f # sys_rst /\ Reliable(o)
            /\ s.page_id = s.page \/ (f.config /\ Near(s))
            => o.s.regs = WithField(s.regs, f, v)
  <1>0. IsSlice(f) /\ f.reg # PAGE_ID /\ f.page \in {0, 1} /\ f.page \in Byte
    BY DEF IsSetting, Byte
  <1>1. CASE f.config
    <2>1. PICK e \in EnterConfig(s) :
            \E b \in (IF e.ok THEN UpdateOnPage(e.s, f, v) ELSE {Failed(e.s)}) : o \in Restore(b, e.data)
      BY <1>1, SetInConfig
    <2>2. PICK b \in IF e.ok THEN UpdateOnPage(e.s, f, v) ELSE {Failed(e.s)} : o \in Restore(b, e.data)
      BY <2>1
    <2>3. /\ Sound(s, e) /\ e.s \in Unit /\ e.data \in Nat
          /\ e.ok => e.s.page_id = 0
          /\ e.ok /\ Near(s) => e.s.page = 0
          /\ TriggerClear(s) /\ Near(s) /\ Reliable(e) =>
               /\ Mode(e.s) = OPERATION_MODE_CONFIG
               /\ e.s.regs = WithField(s.regs, operation_mode, OPERATION_MODE_CONFIG)
      BY EnterConfigSound
    <2>4. ASSUME e.ok
          PROVE  /\ Sound(e.s, b) /\ b.s \in Unit
                 /\ b.ok => v < f.limit
                 /\ Calm(e.s, b) /\ v < f.limit => b.ok
                 /\ f.page = 0 => Keeps(e.s, b)
                 /\ f.page = 1 /\ b.ok => b.s.page_id = b.s.page
                 /\ /\ TriggerClear(e.s) /\ Mode(e.s) = OPERATION_MODE_CONFIG /\ f # sys_rst
                    /\ (f.page = 0 => e.s.page = 0) /\ Reliable(b)
                    => b.s.regs = WithField(e.s.regs, f, v)
      BY <2>2, <2>3, <2>4, UpdateOnPageSound
    <2>5. IF e.ok THEN Sound(e.s, b) ELSE b = Failed(e.s)
      BY <2>2, <2>4
    <2>6. /\ Sound(s, o) /\ o.s \in Unit
          /\ o.ok => e.ok /\ b.ok /\ ~s.null
          /\ Calm(s, o) => e.ok /\ Calm(e.s, b) /\ (b.ok => o.ok)
          /\ o.ok /\ b.s.page_id = b.s.page => o.s.page_id = o.s.page
          /\ ~s.null /\ s.page_id = 0 /\ (e.ok => Keeps(e.s, b)) => Keeps(s, o)
          /\ o.ok /\ b.s.page_id = 0 => o.s.page_id = 0
          /\ Reliable(o) => Reliable(e) /\ Reliable(b)
          /\ TriggerClear(s) /\ Near(s) /\ Reliable(o) /\ b.s.page_id = b.s.page
               /\ b.s.regs[<<0, OPR_MODE>>] = e.s.regs[<<0, OPR_MODE>>]
               => o.s.regs = [b.s.regs EXCEPT ![<<0, OPR_MODE>>] = s.regs[<<0, OPR_MODE>>]]
      BY <2>2, <2>5, InConfigSound
    <2>7. ASSUME o.ok, f.page = 1 \/ Near(s) PROVE b.s.page_id = b.s.page
      BY <1>0, <2>3, <2>4, <2>6, <2>7 DEF Keeps
    <2>8. f.page = 0 /\ o.ok => b.s.page_id = 0
      BY <2>3, <2>4, <2>6 DEF Keeps
    <2>9. ASSUME TriggerClear(s), f # sys_rst, Reliable(o), Near(s)
          PROVE  o.s.regs = WithField(s.regs, f, v)
      <3>1. o.ok /\ e.ok /\ b.ok /\ Reliable(e) /\ Reliable(b)
        BY <2>6, <2>9 DEF Reliable
      <3>2. TriggerClear(e.s) /\ e.s.page = 0
        BY <2>3, <2>9, <3>1 DEF Sound, Follows
      <3>3. b.s.regs = WithField(e.s.regs, f, v)
        BY <2>3, <2>4, <2>9, <3>1, <3>2
      <3>4. e.s.regs = WithField(s.regs, operation_mode, OPERATION_MODE_CONFIG)
        BY <2>3, <2>9, <3>1
      <3>5. Key(f) # <<0, OPR_MODE>>
        BY <1>1 DEF IsSetting
      <3>6. b.s.page_id = b.s.page
        BY <2>7, <2>9, <3>1
      <3>7. <<0, OPR_MODE>> \in Registers /\ Key(operation_mode) = <<0, OPR_MODE>>
        BY OperationModeSetting
      <3>8. b.s.regs[<<0, OPR_MODE>>] = e.s.regs[<<0, OPR_MODE>>]
        BY <3>3, <3>5, <3>7 DEF WithField
      <3>9. o.s.regs = [b.s.regs EXCEPT ![<<0, OPR_MODE>>] = s.regs[<<0, OPR_MODE>>]]
        BY <2>6, <2>9, <3>6, <3>8
      <3> DEFINE key == <<0, OPR_MODE>>
      <3>10. \A r \in Registers : [b.s.regs EXCEPT ![key] = s.regs[key]][r] = WithField(s.regs, f, v)[r]
        BY <3>3, <3>4, <3>5, <3>7 DEF WithField
      <3>11. DOMAIN b.s.regs = Registers
        BY <3>3 DEF WithField
      <3> QED BY <3>9, <3>10, <3>11 DEF WithField
    <2>10. s.page_id = s.page => Near(s)
      BY DEF Near
    <2>11. Calm(s, o) /\ v < f.limit => o.ok
      BY <2>4, <2>6
    <2>12. f.page = 0 /\ ~s.null /\ s.page_id = 0 => Keeps(s, o)
      BY <2>4, <2>6
    <2>13. o.ok => v < f.limit
      BY <2>4, <2>6
    <2> QED BY <2>6, <2>7, <2>8, <2>9, <2>10, <2>11, <2>12, <2>13
  <1>2. CASE ~f.config
    <2>1. PICK p \in PageReady(s, f.page) : o \in IF p.ok THEN Update(p.s, f, v) ELSE {Failed(p.s)}
      BY <1>2 DEF Set
    <2>2. /\ Sound(s, p) /\ p.s \in Unit /\ p.s.regs = s.regs
          /\ p.ok => p.s.page_id = f.page /\ ~s.null
          /\ p.ok /\ s.page_id = s.page => p.s.page = f.page
          /\ Calm(s, p) => p.ok
          /\ ~s.null /\ s.page_id = f.page => p.s = s /\ p.ok
      BY <1>0, PageReadySound
    <2>3. CASE p.ok
      <3>1. Keeps(p.s, o) /\ o.s \in Unit /\ (o.s.faults = p.s.faults => o.ok)
        BY <1>0, <2>1, <2>2, <2>3, UpdateKeeps
      <3>2. Sound(s, o)
        BY <2>2, <2>3, <3>1, KeptIsSound, SoundThenSound
      <3>3. Calm(s, o) => o.ok
        BY <2>2, <3>1 DEF Calm, Sound, Keeps, Follows, Unit
      <3>4. ASSUME TriggerClear(s), f # sys_rst, Reliable(o), s.page_id = s.page
            PROVE  o.s.regs = WithField(s.regs, f, v)
        <4>1. TriggerClear(p.s) /\ p.s.page = f.page /\ Key(f) \in AnyMode
          BY <1>2, <2>2, <2>3, <3>4 DEF Sound, Follows, IsSetting
        <4> QED BY <2>1, <2>2, <2>3, <3>4, <4>1, UpdateSets DEF Reliable
      <3> QED BY <1>2, <2>2, <2>3, <3>1, <3>2, <3>3, <3>4 DEF Keeps
    <2>4. CASE ~p.ok
      <3>1. o = Failed(p.s)
        BY <2>1, <2>4
      <3>2. Keeps(p.s, o) /\ ~o.ok /\ o.s = p.s
        BY <2>2, <3>1, FailedOutcome
      <3> QED BY <1>2, <2>2, <2>4, <3>2, FailsSoundly DEF Calm, Reliable
    <2> QED BY <2>3, <2>4
  <1> QED BY <1>1, <1>2

-----------------------------------------------------------------------------
\* A measure that is good was taken from the page of the measures.
LEMMA ReadDataSound ==
  ASSUME NEW s \in Unit, NEW d, NEW o \in ReadData(s, d)
  PROVE  /\ Sound(s, o) /\ o.s \in Unit /\ o.s.regs = s.regs
         /\ o.ok => o.s.page_id = 0 /\ ~s.null
         /\ Calm(s, o) => o.ok
         /\ ~s.null /\ s.page_id = 0 => Keeps(s, o)
         /\ o.ok /\ Near(s) => o.s.page = 0
         /\ Reliable(o) => o.data = Sample(o.s)
  <1>0. 0 \in Byte
    BY DEF Byte
  <1>1. PICK p \in PageReady(s, 0) :
          o \in IF p.ok THEN {Sampled(p.s, r) : r \in BusRead(p.s, d.reg)} ELSE {NotSampled(p.s)}
    BY DEF ReadData
  <1>2. /\ Sound(s, p) /\ p.s \in Unit /\ p.s.regs = s.regs
        /\ p.ok => p.s.page_id = 0 /\ ~s.null
        /\ p.ok /\ Near(s) => p.s.page = 0
        /\ Calm(s, p) => p.ok
        /\ ~s.null /\ s.page_id = 0 => p.s = s /\ p.ok
    BY <1>0, PageReadySound DEF Near
  <1>3. CASE p.ok
    <2>1. PICK r \in BusRead(p.s, d.reg) : o = Sampled(p.s, r)
      BY <1>1, <1>3
    <2>2. /\ Keeps(p.s, r) /\ r.s \in Unit /\ r.s.regs = p.s.regs
          /\ r.ok /\ ~r.s.misread => r.s = p.s
          /\ r.s.faults = p.s.faults => r.ok
      BY <1>2, BusReadKeeps
    <2>3. IsOutcome(r)
      BY <2>2 DEF Keeps, Follows
    <2>4. /\ o.s = r.s /\ o.ok = r.ok /\ IsOutcome(o)
          /\ o.data = IF r.s.faults = p.s.faults THEN Sample(p.s) ELSE NoSample
      BY <2>1, <2>3 DEF Sampled, IsOutcome
    <2>5. Keeps(p.s, o)
      BY <2>2, <2>4 DEF Keeps, Follows
    <2>6. Sound(s, o) /\ (~s.null /\ s.page_id = 0 => Keeps(s, o))
      BY <1>2, <1>3, <2>5, KeptIsSound, SoundThenSound
    <2>7. Calm(s, o) => o.ok
      BY <1>2, <2>2, <2>4 DEF Calm, Sound, Keeps, Follows, Unit
    <2> QED BY <1>2, <1>3, <2>2, <2>4, <2>5, <2>6, <2>7 DEF Keeps, Reliable
  <1>4. CASE ~p.ok
    <2>1. o = NotSampled(p.s)
      BY <1>1, <1>4
    <2>2. o.s = p.s /\ o.ok = FALSE
      BY <2>1 DEF NotSampled, Outcome
    <2>3. Keeps(p.s, o)
      BY <1>2, <2>1, SameOutcome DEF NotSampled
    <2> QED BY <1>2, <1>4, <2>2, <2>3, FailsSoundly DEF Calm, Reliable
  <1> QED BY <1>3, <1>4

-----------------------------------------------------------------------------
\* The registers once the unit is the one that is wanted.
WithUnit(regs, c) == IF c.checked THEN WithField(regs, c.unit, c.wanted) ELSE regs

LEMMA ConversionUnit ==
  ASSUME NEW c, IsConversion(c), c.checked
  PROVE  /\ IsSlice(c.unit) /\ c.unit.page = 0 /\ c.unit.page \in Byte /\ c.unit.reg # PAGE_ID
         /\ c.wanted \in Nat /\ Key(c.unit) \in Registers /\ c.unit # sys_rst
  <1>1. sys_rst.reg = 63
    BY DEF sys_rst, SystemControl, Field
  <1> QED BY <1>1, RegistersAssumption DEF IsConversion, IsSetting, Key, UNIT_SEL, Byte

\* A unit that could not be read is set, which gives the page back.
LEMMA UnitReadySound ==
  ASSUME NEW s \in Unit, NEW c, IsConversion(c), NEW o \in UnitReady(s, c)
  PROVE  /\ Sound(s, o) /\ o.s \in Unit
         /\ Calm(s, o) => o.ok
         /\ ~s.null /\ s.page_id = 0 => Keeps(s, o)
         /\ TriggerClear(s) /\ s.page_id = s.page /\ Reliable(o) => o.s.regs = WithUnit(s.regs, c)
         /\ /\ TriggerClear(s) /\ s.page_id = s.page /\ s.page_id = 0 /\ ~s.null
            /\ ~o.s.misread /\ o.s.faults >= s.faults - 1 /\ WithUnit(s.regs, c) = s.regs
            => o.s.regs = s.regs
  <1>1. CASE ~c.checked
    <2>1. o = Outcome(s, TRUE, 0)
      BY <1>1 DEF UnitReady
    <2>2. o.s = s /\ o.ok = TRUE
      BY <2>1 DEF Outcome
    <2>3. Keeps(s, o)
      BY <2>1, SameOutcome
    <2>4. Sound(s, o)
      BY <2>3, KeptIsSound
    <2> QED BY <1>1, <2>2, <2>3, <2>4 DEF WithUnit
  <1>2. CASE c.checked
    <2> DEFINE f == c.unit
               w == c.wanted
    <2>0. /\ IsSlice(f) /\ f.page = 0 /\ f.page \in Byte /\ f.reg # PAGE_ID /\ IsSetting(f) /\ f.config
          /\ w \in Nat /\ w < f.limit /\ Key(f) \in Registers /\ f # sys_rst
      BY <1>2, ConversionUnit DEF IsConversion
    <2>1. PICK g \in Get(s, f) :
            o \in IF g.data = w THEN {g} ELSE {[u EXCEPT !.ok = u.ok /\ (g.ok \/ c.masked)] : u \in Set(g.s, f, w)}
      BY <1>2 DEF UnitReady
    <2>2. /\ Sound(s, g) /\ g.s \in Unit /\ g.s.regs = s.regs
          /\ Reliable(g) /\ Near(s) => g.data = Slice(Stored(s, f), f)
          /\ g.ok /\ Near(s) => g.s.page = 0
          /\ g.ok => g.s.page_id = 0
          /\ ~g.ok /\ s.page_id = s.page => Near(g.s)
          /\ Calm(s, g) => g.ok
          /\ ~s.null /\ s.page_id = 0 => g.s.page = s.page /\ g.s.page_id = s.page_id
      BY <2>0, GetSound DEF Near
    <2>3. ~s.null /\ s.page_id = 0 => Keeps(s, g)
      BY <2>2 DEF Keeps, Sound
    <2>4. /\ s.regs \in [Registers -> Byte]
          /\ Slice(Stored(s, f), f) = w => WithField(s.regs, f, w) = s.regs
      BY <2>0, WithFieldSame DEF Unit, Stored
    <2>5. WithUnit(s.regs, c) = WithField(s.regs, f, w)
      BY <1>2 DEF WithUnit
    <2>6. s.page_id = s.page => Near(s) /\ Near(g.s)
      BY <2>2 DEF Near
    <2> HIDE DEF f, w
    <2>7. CASE o = g /\ g.data = w
      BY <2>2, <2>3, <2>4, <2>5, <2>6, <2>7 DEF Reliable
    <2>8. CASE g.data # w /\ \E u \in Set(g.s, f, w) : o = [u EXCEPT !.ok = u.ok /\ (g.ok \/ c.masked)]
      <3>1. PICK u \in Set(g.s, f, w) : o = [u EXCEPT !.ok = u.ok /\ (g.ok \/ c.masked)]
        BY <2>8
      <3>2. /\ Sound(g.s, u) /\ u.s \in Unit
            /\ Calm(g.s, u) => u.ok
            /\ u.ok /\ Near(g.s) => u.s.page_id = u.s.page
            /\ ~g.s.null /\ g.s.page_id = 0 => Keeps(g.s, u)
            /\ TriggerClear(g.s) /\ Reliable(u) /\ Near(g.s) => u.s.regs = WithField(g.s.regs, f, w)
        BY <2>0, <2>2, SetSound
      <3>3. IsOutcome(u) /\ u.ok \in BOOLEAN
        BY <3>2 DEF Sound, Follows, IsOutcome
      <3>4. /\ o.s = u.s /\ o.ok = (u.ok /\ (g.ok \/ c.masked))
        BY <3>1, <3>3 DEF IsOutcome
      <3>5. IsOutcome(o)
        <4>1. (u.ok /\ (g.ok \/ c.masked)) \in BOOLEAN
          OBVIOUS
        <4> QED BY <3>1, <3>3, <4>1 DEF IsOutcome
      <3>6. Follows(g.s, o) /\ g.s.null = s.null /\ (TriggerClear(s) => TriggerClear(g.s))
        BY <2>2, <3>2, <3>4, <3>5 DEF Sound, Follows
      <3>7. Follows(s, o)
        BY <2>2, <3>6, FollowsThenFollows DEF Sound
      <3>8. Sound(s, o)
        BY <2>6, <3>2, <3>4, <3>7 DEF Sound
      <3>9. ~s.null /\ s.page_id = 0 => Keeps(s, o)
        <4>1. ASSUME ~s.null, s.page_id = 0 PROVE Keeps(s, o)
          <5>1. Keeps(s, g) /\ Keeps(g.s, u)
            BY <2>2, <2>3, <3>2, <3>6, <4>1
          <5> QED BY <3>4, <3>7, <5>1 DEF Keeps
        <4> QED BY <4>1
      <3>10. ASSUME Calm(s, o) PROVE o.ok
        <4>1. g.s.faults = s.faults /\ u.s.faults = g.s.faults
          BY <2>2, <3>2, <3>4, <3>10 DEF Calm, Sound, Follows, Unit
        <4> QED BY <2>2, <3>2, <3>4, <3>6, <3>10, <4>1 DEF Calm
      <3>11. ASSUME TriggerClear(s), s.page_id = s.page, ~u.s.misread, u.ok
             PROVE  o.s.regs = WithField(s.regs, f, w)
        BY <2>2, <2>6, <3>2, <3>4, <3>6, <3>11 DEF Reliable
      <3>12. ASSUME TriggerClear(s), s.page_id = s.page, s.page_id = 0, ~s.null, ~o.s.misread,
                    o.s.faults >= s.faults - 1, WithUnit(s.regs, c) = s.regs
             PROVE  o.s.regs = s.regs
        <4>1. ~g.s.misread
          BY <3>4, <3>6, <3>12 DEF Follows
        <4>2. CASE g.s.faults = s.faults
          <5>1. Slice(Stored(s, f), f) # w
            BY <2>2, <2>6, <2>8, <3>12, <4>1, <4>2 DEF Calm, Reliable
          <5>2. Slice(Stored(s, f), f) = w
            <6>1. s.regs[Key(f)] \in Byte
              BY <2>0, <2>4 DEF f
            <6>2. SetSlice(s.regs[Key(f)], f, w) = s.regs[Key(f)]
              BY <2>0, <2>5, <3>12 DEF WithField, f
            <6>3. Slice(SetSlice(s.regs[Key(f)], f, w), f) = w % 2^f.len
              BY <2>0, <6>1, SetSliceByte DEF f, w
            <6>4. w % 2^f.len = w
              <7>1. \E n \in 1..8 : f.len = n
                BY <1>2, <2>0 DEF IsConversion, IsSlice, f
              <7>2. PICK n \in 1..8 : f.len = n
                BY <7>1
              <7>3. IsPower(2^n, n)
                <8>1. n \in 0..8
                  OBVIOUS
                <8> QED BY <8>1, PowersOfTwo
              <7>4. w \in {0, 1}
                BY <1>2 DEF IsConversion, w
              <7>5. ASSUME NEW x, IsPower(x, n) PROVE x \in Nat /\ x > 1
                BY <7>2, <7>5 DEF IsPower
              <7>6. 2^f.len \in Nat /\ 2^f.len > 1
                BY <7>2, <7>3, <7>5
              <7>7. ASSUME NEW x \in Nat, x > 1, NEW y \in {0, 1} PROVE y % x = y
                BY <7>7
              <7> QED BY <7>4, <7>6, <7>7
            <6> QED BY <2>0, <6>2, <6>3, <6>4 DEF Stored, f
          <5> QED BY <5>1, <5>2
        <4>3. CASE g.s.faults # s.faults
          <5>1. u.s.faults = g.s.faults
            BY <2>2, <3>2, <3>4, <3>12, <4>3 DEF Sound, Follows, Unit
          <5>2. u.ok
            BY <3>2, <3>6, <3>12, <5>1 DEF Calm
          <5> QED BY <2>5, <3>4, <3>11, <3>12, <5>2
        <4> QED BY <4>2, <4>3
      <3> QED BY <2>5, <3>2, <3>4, <3>8, <3>9, <3>10, <3>11, <3>12 DEF Reliable
    <2> QED BY <2>1, <2>7, <2>8
  <1> QED BY <1>1, <1>2

LEMMA ConvertSound ==
  ASSUME NEW s \in Unit, NEW c, IsConversion(c), NEW o \in Convert(s, c)
  PROVE  /\ Sound(s, o) /\ o.s \in Unit
         /\ o.ok => o.s.page_id = 0 /\ ~s.null
         /\ Calm(s, o) => o.ok
         /\ ~s.null /\ s.page_id = 0 => Keeps(s, o)
         /\ TriggerClear(s) /\ s.page_id = s.page /\ Reliable(o) =>
              o.s.regs = WithUnit(s.regs, c) /\ o.s.page = 0 /\ o.data = Sample(o.s)
         /\ /\ TriggerClear(s) /\ s.page_id = s.page /\ s.page_id = 0 /\ ~s.null
            /\ ~o.s.misread /\ o.s.faults >= s.faults - 1 /\ WithUnit(s.regs, c) = s.regs
            => o.s.regs = s.regs
  <1>1. PICK u \in UnitReady(s, c) : o \in IF u.ok THEN ReadData(u.s, c.data) ELSE {NotSampled(u.s)}
    BY DEF Convert
  <1>2. /\ Sound(s, u) /\ u.s \in Unit
        /\ Calm(s, u) => u.ok
        /\ ~s.null /\ s.page_id = 0 => Keeps(s, u)
        /\ TriggerClear(s) /\ s.page_id = s.page /\ Reliable(u) => u.s.regs = WithUnit(s.regs, c)
        /\ /\ TriggerClear(s) /\ s.page_id = s.page /\ s.page_id = 0 /\ ~s.null
           /\ ~u.s.misread /\ u.s.faults >= s.faults - 1 /\ WithUnit(s.regs, c) = s.regs
           => u.s.regs = s.regs
    BY UnitReadySound
  <1>3. CASE u.ok
    <2>1. /\ Sound(u.s, o) /\ o.s \in Unit /\ o.s.regs = u.s.regs
          /\ o.ok => o.s.page_id = 0 /\ ~u.s.null
          /\ Calm(u.s, o) => o.ok
          /\ ~u.s.null /\ u.s.page_id = 0 => Keeps(u.s, o)
          /\ o.ok /\ Near(u.s) => o.s.page = 0
          /\ Reliable(o) => o.data = Sample(o.s)
      BY <1>1, <1>2, <1>3, ReadDataSound
    <2>2. Sound(s, o)
      BY <1>2, <1>3, <2>1, SoundThenSound
    <2>3. u.s.null = s.null /\ (~o.s.misread => ~u.s.misread) /\ o.s.faults <= u.s.faults /\ u.s.faults <= s.faults
      BY <1>2, <2>1 DEF Sound, Follows
    <2>4. Calm(s, o) => o.ok
      BY <1>2, <2>1, <2>3 DEF Calm, Unit
    <2>5. ~s.null /\ s.page_id = 0 => Keeps(s, o)
      BY <1>2, <2>1, <2>3, KeptThenKept DEF Keeps
    <2>6. s.page_id = s.page => Near(u.s)
      BY <1>2, <1>3 DEF Sound, Near
    <2>7. o.s.faults >= s.faults - 1 => u.s.faults >= s.faults - 1
      BY <1>2, <2>1, <2>3 DEF Unit
    <2> QED BY <1>2, <1>3, <2>1, <2>2, <2>3, <2>4, <2>5, <2>6, <2>7 DEF Reliable
  <1>4. CASE ~u.ok
    <2>1. o = NotSampled(u.s)
      BY <1>1, <1>4
    <2>2. o.s = u.s /\ o.ok = FALSE
      BY <2>1 DEF NotSampled, Outcome
    <2>3. Keeps(u.s, o)
      BY <1>2, <2>1, SameOutcome DEF NotSampled
    <2> QED BY <1>2, <1>4, <2>2, <2>3, FailsSoundly, KeptThenKept DEF Calm, Reliable
  <1> QED BY <1>3, <1>4

-----------------------------------------------------------------------------
\* Registers of page 0 that are written with the same byte.
WithBytes(regs, addresses, v) ==
  [r \in Registers |-> IF r \in {0} \X addresses THEN v ELSE regs[r]]

\* The outcomes of writing bytes from a unit s: nothing is written after a failure.
Writes(s, O, addresses, v) ==
  \A o \in O :
    /\ Keeps(s, o) /\ o.s \in Unit
    /\ o.s.faults = s.faults => o.ok
    /\ \A q \in Registers : \/ o.s.regs[q] = s.regs[q]
                           \/ (q \in {0} \X addresses /\ o.s.regs[q] = v)
    /\ /\ s.page = 0 /\ TriggerClear(s) /\ Mode(s) = OPERATION_MODE_CONFIG /\ Reliable(o)
       => o.s.regs = WithBytes(s.regs, addresses, v)

\* What the sensor keeps of the calibration.
Calibrations == {accel_offset, mag_offset, gyro_offset, sic_matrix}
Addresses == 67..106

LEMMA CalibrationAddresses ==
  ASSUME NEW regs \in Calibrations
  PROVE  /\ regs \in Seq(Addresses)
         /\ Len(regs) \in {6, 8, 18}
  <1>1. accel_offset \in Seq(Addresses) /\ Len(accel_offset) = 8
    BY DEF accel_offset, Addresses
  <1>2. mag_offset \in Seq(Addresses) /\ Len(mag_offset) = 8
    BY DEF mag_offset, Addresses
  <1>3. gyro_offset \in Seq(Addresses) /\ Len(gyro_offset) = 6
    BY DEF gyro_offset, Addresses
  <1>4. sic_matrix \in Seq(Addresses) /\ Len(sic_matrix) = 18
    <2>1. sic_matrix \in [1..18 -> Addresses]
      BY DEF sic_matrix, Addresses
    <2>2. sic_matrix \in Seq(Addresses)
      BY <2>1, SeqDef
    <2>3. Len(sic_matrix) \in Nat /\ 1..18 = 1..Len(sic_matrix)
      BY <2>1, <2>2, LenProperties
    <2>4. ASSUME NEW n \in Nat, 1..18 = 1..n PROVE n = 18
      <3>1. 18 \in 1..n /\ 1 \in 1..n
        BY <2>4
      <3>2. n \in 1..18
        BY <2>4, <3>1
      <3> QED BY <3>1, <3>2
    <2> QED BY <2>2, <2>3, <2>4
  <1> QED BY <1>1, <1>2, <1>3, <1>4 DEF Calibrations

LEMMA ThenWrites ==
  ASSUME NEW s \in Unit, NEW O, NEW R \in SUBSET Addresses, NEW v \in Byte, Writes(s, O, R, v), NEW reg \in Addresses
  PROVE  Writes(s, Then(O, reg, v), R \cup {reg}, v)
  <1>0. reg # PAGE_ID /\ reg # OPR_MODE /\ reg # SYS_TRIGGER
    BY DEF Addresses, PAGE_ID, OPR_MODE, SYS_TRIGGER
  <1> SUFFICES ASSUME NEW o \in Then(O, reg, v)
               PROVE  /\ Keeps(s, o) /\ o.s \in Unit
                      /\ o.s.faults = s.faults => o.ok
                      /\ \A q \in Registers : \/ o.s.regs[q] = s.regs[q]
                                             \/ (q \in {0} \X (R \cup {reg}) /\ o.s.regs[q] = v)
                      /\ /\ s.page = 0 /\ TriggerClear(s) /\ Mode(s) = OPERATION_MODE_CONFIG /\ Reliable(o)
                         => o.s.regs = WithBytes(s.regs, R \cup {reg}, v)
    BY DEF Writes
  <1>1. PICK p \in O : o \in UpdateByte(p, reg, v)
    BY DEF Then
  <1>2. /\ Keeps(s, p) /\ p.s \in Unit
        /\ p.s.faults = s.faults => p.ok
        /\ \A q \in Registers : p.s.regs[q] = s.regs[q] \/ (q \in {0} \X R /\ p.s.regs[q] = v)
        /\ /\ s.page = 0 /\ TriggerClear(s) /\ Mode(s) = OPERATION_MODE_CONFIG /\ Reliable(p)
           => p.s.regs = WithBytes(s.regs, R, v)
    BY DEF Writes
  <1>3. PICK r \in BusRead(p.s, reg) :
          o \in IF p.ok /\ r.ok THEN BusWrite(r.s, reg, v) ELSE {Failed(r.s)}
    BY <1>1 DEF UpdateByte
  <1>4. /\ Keeps(p.s, r) /\ r.s \in Unit /\ r.s.regs = p.s.regs
        /\ r.ok /\ ~r.s.misread => r.s = p.s
        /\ r.s.faults = p.s.faults => r.ok
    BY <1>2, BusReadKeeps
  <1>5. Keeps(s, r)
    BY <1>2, <1>4, KeptThenKept
  <1>6. CASE p.ok /\ r.ok
    <2>1. /\ Keeps(r.s, o) /\ o.s \in Unit /\ o.s.misread = r.s.misread
          /\ o.ok => o.s = Written(r.s, reg, v)
          /\ o.s.faults = r.s.faults => o.ok
          /\ o.s.regs \in {r.s.regs, Written(r.s, reg, v).regs}
      BY <1>0, <1>3, <1>4, <1>6, BusWriteOutcome
    <2>2. Keeps(s, o)
      BY <1>4, <1>5, <2>1, KeptThenKept
    <2>3. o.s.faults = s.faults => o.ok
      BY <1>4, <1>5, <2>1 DEF Keeps, Follows, Unit
    <2>4. ASSUME s.page = 0, TriggerClear(s), Mode(s) = OPERATION_MODE_CONFIG, Reliable(o)
          PROVE  o.s.regs = WithBytes(s.regs, R \cup {reg}, v)
      <3>1. r.s = p.s /\ Reliable(p) /\ p.s.page = 0
        BY <1>2, <1>4, <1>6, <2>1, <2>4 DEF Reliable, Keeps
      <3>2. p.s.regs = WithBytes(s.regs, R, v) /\ o.s = Written(p.s, reg, v)
        BY <1>2, <2>1, <2>4, <3>1 DEF Reliable
      <3>3. <<0, OPR_MODE>> \in Registers /\ <<0, OPR_MODE>> \notin {0} \X R
        BY OperationModeSetting DEF Addresses, OPR_MODE
      <3>4. Mode(p.s) = OPERATION_MODE_CONFIG
        BY <2>4, <3>2, <3>3 DEF Mode, WithBytes
      <3>5. <<0, reg>> # <<0, SYS_TRIGGER>>
        BY <1>0
      <3>6. o.s.regs = IF <<0, reg>> \in Registers THEN [p.s.regs EXCEPT ![<<0, reg>>] = v] ELSE p.s.regs
        <4>1. CASE <<0, reg>> \in Registers
          <5>1. o.s = [p.s EXCEPT !.regs[<<0, reg>>] = v]
            BY <1>0, <3>1, <3>2, <3>4, <3>5, <4>1 DEF Written
          <5>2. [p.s EXCEPT !.regs[<<0, reg>>] = v].regs = [p.s.regs EXCEPT ![<<0, reg>>] = v]
            BY <1>2 DEF Unit
          <5> QED BY <4>1, <5>1, <5>2
        <4>2. CASE <<0, reg>> \notin Registers
          BY <1>0, <3>1, <3>2, <3>5, <4>2 DEF Written
        <4> QED BY <4>1, <4>2
      <3>7. \A q \in Registers : o.s.regs[q] = WithBytes(s.regs, R \cup {reg}, v)[q]
        <4> TAKE q \in Registers
        <4>1. DOMAIN p.s.regs = Registers /\ p.s.regs[q] = (IF q \in {0} \X R THEN v ELSE s.regs[q])
          BY <3>2 DEF WithBytes
        <4>2. q \in {0} \X (R \cup {reg}) <=> (q \in {0} \X R \/ q = <<0, reg>>)
          OBVIOUS
        <4>3. o.s.regs[q] = IF q = <<0, reg>> THEN v ELSE p.s.regs[q]
          BY <3>6, <4>1
        <4> QED BY <4>1, <4>2, <4>3 DEF WithBytes
      <3>8. o.s.regs \in [Registers -> Byte]
        BY <2>1 DEF Unit
      <3> QED BY <3>7, <3>8 DEF WithBytes
    <2>5. \A q \in Registers : o.s.regs[q] = s.regs[q] \/ (q \in {0} \X (R \cup {reg}) /\ o.s.regs[q] = v)
      <3> DEFINE key == <<r.s.page, reg>>
      <3>1. key # <<0, SYS_TRIGGER>>
        BY <1>0
      <3>2. key \in Registers => key = <<0, reg>>
        BY RegistersAssumption DEF SettableRegisters, Addresses
      <3>3. \/ o.s.regs = p.s.regs
            \/ key \in Registers /\ o.s.regs = [p.s.regs EXCEPT ![key] = v]
        <4>0. r.s \in Unit /\ reg # PAGE_ID /\ ~(<<r.s.page, reg>> = <<0, SYS_TRIGGER>> /\ Slice(v, sys_rst) = 1)
          BY <1>0, <1>4
        <4>1. \/ Written(r.s, reg, v).regs = r.s.regs
              \/ key \in Registers /\ Written(r.s, reg, v).regs = [r.s.regs EXCEPT ![key] = v]
          BY <4>0, WrittenAt
        <4> QED BY <1>4, <2>1, <4>1
      <3>4. ASSUME NEW q \in Registers
            PROVE  o.s.regs[q] = p.s.regs[q] \/ (q = <<0, reg>> /\ o.s.regs[q] = v)
        <4>1. DOMAIN p.s.regs = Registers
          BY <1>2 DEF Unit
        <4> HIDE DEF key
        <4> QED BY <3>2, <3>3, <4>1
      <3>5. ASSUME NEW q \in {0} \X R PROVE q \in {0} \X (R \cup {reg})
        OBVIOUS
      <3>6. <<0, reg>> \in {0} \X (R \cup {reg})
        OBVIOUS
      <3> QED BY <1>2, <3>4, <3>5, <3>6
    <2> QED BY <2>1, <2>2, <2>3, <2>4, <2>5
  <1>7. CASE ~(p.ok /\ r.ok)
    <2>1. o = Failed(r.s)
      BY <1>3, <1>7
    <2>2. Keeps(r.s, o) /\ ~o.ok /\ o.s = r.s
      BY <1>4, <2>1, FailedOutcome
    <2>3. Keeps(s, o)
      BY <1>4, <1>5, <2>2, KeptThenKept
    <2>4. o.s.faults # s.faults
      BY <1>2, <1>4, <1>7, <2>2 DEF Keeps, Follows, Unit
    <2>5. \A q \in Registers : o.s.regs[q] = s.regs[q] \/ (q \in {0} \X (R \cup {reg}) /\ o.s.regs[q] = v)
      BY <1>2, <1>4, <2>2
    <2> QED BY <1>4, <2>2, <2>3, <2>4, <2>5 DEF Reliable
  <1> QED BY <1>6, <1>7

LEMMA ThenTwoWrites ==
  ASSUME NEW s \in Unit, NEW O, NEW R \in SUBSET Addresses, NEW v \in Byte, Writes(s, O, R, v),
         NEW regs \in Seq(Addresses), NEW i \in 1..(Len(regs) - 1)
  PROVE  Writes(s, ThenTwo(O, regs, i, v), R \cup {regs[i], regs[i + 1]}, v)
  <1>1. i \in 1..Len(regs) /\ i + 1 \in 1..Len(regs) /\ regs[i] \in Addresses /\ regs[i + 1] \in Addresses
    OBVIOUS
  <1>2. Writes(s, Then(O, regs[i], v), R \cup {regs[i]}, v)
    BY <1>1, ThenWrites
  <1>3. R \cup {regs[i]} \in SUBSET Addresses
    BY <1>1
  <1>4. Writes(s, Then(Then(O, regs[i], v), regs[i + 1], v), (R \cup {regs[i]}) \cup {regs[i + 1]}, v)
    BY <1>1, <1>2, <1>3, ThenWrites
  <1>5. (R \cup {regs[i]}) \cup {regs[i + 1]} = R \cup {regs[i], regs[i + 1]}
    OBVIOUS
  <1> QED BY <1>4, <1>5 DEF ThenTwo

Part(regs, first, last) == {regs[i] : i \in first..last}

LEMMA ThenSixWrites ==
  ASSUME NEW s \in Unit, NEW O, NEW R \in SUBSET Addresses, NEW v \in Byte, Writes(s, O, R, v),
         NEW regs \in Seq(Addresses), NEW i \in 1..(Len(regs) - 5)
  PROVE  Writes(s, ThenSix(O, regs, i, v), R \cup Part(regs, i, i + 5), v)
  <1>1. /\ i \in 1..(Len(regs) - 1) /\ i + 2 \in 1..(Len(regs) - 1) /\ i + 4 \in 1..(Len(regs) - 1)
        /\ (i + 2) + 1 = i + 3 /\ (i + 4) + 1 = i + 5
    OBVIOUS
  <1>2. \A j \in 1..Len(regs) : regs[j] \in Addresses
    OBVIOUS
  <1> DEFINE R2 == R \cup {regs[i], regs[i + 1]}
             R4 == R2 \cup {regs[i + 2], regs[i + 3]}
             O2 == ThenTwo(O, regs, i, v)
             O4 == ThenTwo(O2, regs, i + 2, v)
  <1>3. R2 \in SUBSET Addresses /\ Writes(s, O2, R2, v)
    BY <1>1, <1>2, ThenTwoWrites
  <1>4. R4 \in SUBSET Addresses
    BY <1>1, <1>2, <1>3
  <1>5. Writes(s, O4, R4, v)
    <2> HIDE DEF R2, O2
    <2> QED BY <1>1, <1>3, ThenTwoWrites
  <1>6. Writes(s, ThenTwo(O4, regs, i + 4, v), R4 \cup {regs[i + 4], regs[i + 5]}, v)
    <2> HIDE DEF R4, O4
    <2> QED BY <1>1, <1>4, <1>5, ThenTwoWrites
  <1>7. R4 \cup {regs[i + 4], regs[i + 5]} = R \cup Part(regs, i, i + 5)
    <2>1. i..(i + 5) = {i, i + 1, i + 2, i + 3, i + 4, i + 5}
      OBVIOUS
    <2> QED BY <2>1 DEF Part
  <1> QED BY <1>6, <1>7 DEF ThenSix

Values(regs) == {regs[i] : i \in DOMAIN regs}

LEMMA UpdateBytesWrites ==
  ASSUME NEW s \in Unit, NEW regs \in Calibrations, NEW v \in Byte
  PROVE  Writes(s, UpdateBytes(s, regs, v), Values(regs), v)
  <1> DEFINE none == {Outcome(s, TRUE, 0)}
             axes == ThenSix(none, regs, 1, v)
             more == ThenSix(axes, regs, 7, v)
  <1>0. regs \in Seq(Addresses) /\ Len(regs) \in {6, 8, 18} /\ DOMAIN regs = 1..Len(regs)
    BY CalibrationAddresses
  <1>1. Writes(s, none, {}, v)
    <2> SUFFICES ASSUME NEW o \in none
                 PROVE  /\ Keeps(s, o) /\ o.s \in Unit
                        /\ o.s.faults = s.faults => o.ok
                        /\ o.s.regs = s.regs /\ o.s.regs = WithBytes(s.regs, {}, v)
      BY DEF Writes
    <2>1. o.s = s /\ o.ok = TRUE
      BY DEF Outcome
    <2>2. Keeps(s, o)
      BY SameOutcome
    <2>3. WithBytes(s.regs, {}, v) = s.regs
      BY DEF WithBytes, Unit
    <2> QED BY <2>1, <2>2, <2>3
  <1>2. Writes(s, axes, Part(regs, 1, 6), v)
    <2>1. 1 \in 1..(Len(regs) - 5) /\ 1 + 5 = 6 /\ {} \in SUBSET Addresses
      BY <1>0
    <2> HIDE DEF none
    <2>2. Writes(s, axes, {} \cup Part(regs, 1, 1 + 5), v)
      BY <1>0, <1>1, <2>1, ThenSixWrites
    <2> QED BY <2>1, <2>2
  <1>3. Part(regs, 1, 6) \in SUBSET Addresses
    BY <1>0 DEF Part
  <1>4. CASE Len(regs) = 6
    <2>1. UpdateBytes(s, regs, v) = axes
      BY <1>4 DEF UpdateBytes
    <2>2. Values(regs) = Part(regs, 1, 6)
      BY <1>0, <1>4 DEF Values, Part
    <2> QED BY <1>2, <2>1, <2>2
  <1>5. CASE Len(regs) = 8
    <2>1. UpdateBytes(s, regs, v) = ThenTwo(axes, regs, 7, v)
      BY <1>5 DEF UpdateBytes
    <2> HIDE DEF axes
    <2>2. 7 \in 1..(Len(regs) - 1)
      BY <1>5
    <2>3. Writes(s, ThenTwo(axes, regs, 7, v), Part(regs, 1, 6) \cup {regs[7], regs[7 + 1]}, v)
      BY <1>0, <1>2, <1>3, <2>2, ThenTwoWrites
    <2>4. Values(regs) = Part(regs, 1, 6) \cup {regs[7], regs[7 + 1]}
      BY <1>0, <1>5 DEF Values, Part
    <2> QED BY <2>1, <2>3, <2>4
  <1>6. CASE Len(regs) = 18
    <2>1. UpdateBytes(s, regs, v) = ThenSix(more, regs, 13, v)
      BY <1>6 DEF UpdateBytes
    <2>2. 7 \in 1..(Len(regs) - 5) /\ 13 \in 1..(Len(regs) - 5) /\ 7 + 5 = 12 /\ 13 + 5 = 18
      BY <1>6
    <2>3. Writes(s, more, Part(regs, 1, 6) \cup Part(regs, 7, 7 + 5), v)
      <3> HIDE DEF axes
      <3> QED BY <1>0, <1>2, <1>3, <2>2, ThenSixWrites
    <2>4. Part(regs, 1, 6) \cup Part(regs, 7, 7 + 5) \in SUBSET Addresses
      <3>1. \A j \in 1..18 : regs[j] \in Addresses
        <4> TAKE j \in 1..18
        <4>1. j \in 1..Len(regs)
          BY <1>6
        <4> QED BY <1>0, <4>1, ElementOfSeq
      <3>2. 1..6 \subseteq 1..18 /\ 7..(7 + 5) \subseteq 1..18
        OBVIOUS
      <3> QED BY <3>1, <3>2 DEF Part
    <2>5. Writes(s, ThenSix(more, regs, 13, v), (Part(regs, 1, 6) \cup Part(regs, 7, 7 + 5)) \cup Part(regs, 13, 13 + 5), v)
      <3> HIDE DEF more
      <3> QED BY <1>0, <2>2, <2>3, <2>4, ThenSixWrites
    <2>6. Values(regs) = (Part(regs, 1, 6) \cup Part(regs, 7, 7 + 5)) \cup Part(regs, 13, 13 + 5)
      <3>1. 1..18 = ((1..6) \cup (7..(7 + 5))) \cup (13..(13 + 5))
        OBVIOUS
      <3> QED BY <1>0, <1>6, <3>1 DEF Values, Part
    <2> QED BY <2>1, <2>5, <2>6
  <1> QED BY <1>0, <1>4, <1>5, <1>6

LEMMA WriteBytesParts ==
  ASSUME NEW s, NEW regs, NEW v, NEW o \in WriteBytes(s, regs, v)
  PROVE  \E e \in EnterConfig(s) :
           \E b \in (IF e.ok THEN UpdateBytes(e.s, regs, v) ELSE {Failed(e.s)}) : o \in Restore(b, e.data)
  <1> DEFINE Body(c) == UpdateBytes(c, regs, v)
  <1>1. o \in UNION {UNION {Restore(b, e.data) : b \in IF e.ok THEN Body(e.s) ELSE {Failed(e.s)}} : e \in EnterConfig(s)}
    BY DEF WriteBytes, InConfig
  <1> HIDE DEF Body
  <1>2. PICK e \in EnterConfig(s) :
          \E b \in (IF e.ok THEN Body(e.s) ELSE {Failed(e.s)}) : o \in Restore(b, e.data)
    BY <1>1
  <1> QED BY <1>2 DEF Body

\* The calibration is written as a whole if the result is good.
LEMMA WriteBytesSound ==
  ASSUME NEW s \in Unit, NEW regs \in Calibrations, NEW v \in Byte, NEW o \in WriteBytes(s, regs, v)
  PROVE  /\ Sound(s, o) /\ o.s \in Unit
         /\ TriggerClear(s) /\ Near(s) /\ Reliable(o) => o.s.regs = WithBytes(s.regs, Values(regs), v)
  <1>1. PICK e \in EnterConfig(s) :
          \E b \in (IF e.ok THEN UpdateBytes(e.s, regs, v) ELSE {Failed(e.s)}) : o \in Restore(b, e.data)
    BY WriteBytesParts
  <1>2. PICK b \in IF e.ok THEN UpdateBytes(e.s, regs, v) ELSE {Failed(e.s)} : o \in Restore(b, e.data)
    BY <1>1
  <1>3. /\ Sound(s, e) /\ e.s \in Unit
        /\ e.ok => e.s.page_id = 0
        /\ e.ok /\ Near(s) => e.s.page = 0
        /\ TriggerClear(s) /\ Near(s) /\ Reliable(e) =>
             /\ Mode(e.s) = OPERATION_MODE_CONFIG
             /\ e.s.regs = WithField(s.regs, operation_mode, OPERATION_MODE_CONFIG)
    BY EnterConfigSound
  <1>4. ASSUME e.ok
        PROVE  /\ Keeps(e.s, b)
               /\ /\ e.s.page = 0 /\ TriggerClear(e.s) /\ Mode(e.s) = OPERATION_MODE_CONFIG /\ Reliable(b)
                  => b.s.regs = WithBytes(e.s.regs, Values(regs), v)
    BY <1>2, <1>3, <1>4, UpdateBytesWrites DEF Writes
  <1>5. IF e.ok THEN Sound(e.s, b) ELSE b = Failed(e.s)
    BY <1>2, <1>4, KeptIsSound
  <1>6. /\ Sound(s, o) /\ o.s \in Unit
        /\ o.ok => e.ok /\ b.ok
        /\ Reliable(o) => Reliable(e) /\ Reliable(b)
        /\ TriggerClear(s) /\ Near(s) /\ Reliable(o) /\ b.s.page_id = b.s.page
               /\ b.s.regs[<<0, OPR_MODE>>] = e.s.regs[<<0, OPR_MODE>>]
               => o.s.regs = [b.s.regs EXCEPT ![<<0, OPR_MODE>>] = s.regs[<<0, OPR_MODE>>]]
    BY <1>2, <1>5, InConfigSound
  <1>7. ASSUME TriggerClear(s), Near(s), Reliable(o)
        PROVE  o.s.regs = WithBytes(s.regs, Values(regs), v)
    <2> DEFINE key == <<0, OPR_MODE>>
               R == Values(regs)
    <2>1. e.ok /\ Reliable(e) /\ Reliable(b)
      BY <1>6, <1>7 DEF Reliable
    <2>2. TriggerClear(e.s) /\ e.s.page = 0 /\ e.s.page_id = 0 /\ Mode(e.s) = OPERATION_MODE_CONFIG
      BY <1>3, <1>7, <2>1 DEF Sound, Follows
    <2>3. b.s.page_id = b.s.page /\ b.s.regs = WithBytes(e.s.regs, R, v)
      BY <1>4, <2>1, <2>2 DEF Keeps
    <2>4. key \in Registers /\ Key(operation_mode) = key
      BY OperationModeSetting
    <2>5. key \notin {0} \X R
      <3>1. R \subseteq Addresses
        BY CalibrationAddresses DEF Values
      <3> QED BY <3>1 DEF Addresses, OPR_MODE
    <2>6. b.s.regs[key] = e.s.regs[key]
      BY <2>3, <2>4, <2>5 DEF WithBytes
    <2>7. o.s.regs = [b.s.regs EXCEPT ![key] = s.regs[key]]
      BY <1>6, <1>7, <2>3, <2>6
    <2>8. e.s.regs = WithField(s.regs, operation_mode, OPERATION_MODE_CONFIG)
      BY <1>3, <1>7, <2>1
    <2> HIDE DEF key, R
    <2>9. \A r \in Registers : r # key => e.s.regs[r] = s.regs[r]
      BY <2>4, <2>8 DEF WithField
    <2>10. DOMAIN b.s.regs = Registers
      BY <2>3 DEF WithBytes
    <2>11. \A r \in Registers : [b.s.regs EXCEPT ![key] = s.regs[key]][r] = WithBytes(s.regs, R, v)[r]
      BY <2>3, <2>4, <2>5, <2>9, <2>10 DEF WithBytes
    <2> QED BY <2>7, <2>10, <2>11 DEF WithBytes, R
  <1> QED BY <1>6, <1>7

LEMMA ReadOffsetSound ==
  ASSUME NEW s \in Unit, NEW regs, NEW o \in ReadOffset(s, regs)
  PROVE  /\ Sound(s, o) /\ o.s \in Unit /\ o.s.regs = s.regs
  <1>1. PICK x \in ReadData(s, Data(regs[1], 6)) :
          o \in IF x.ok /\ Len(regs) = 8 THEN {Sampled(x.s, r) : r \in BusRead(x.s, regs[7])} ELSE {x}
    BY DEF ReadOffset
  <1>2. Sound(s, x) /\ x.s \in Unit /\ x.s.regs = s.regs
    BY ReadDataSound
  <1>3. CASE x.ok /\ Len(regs) = 8
    <2>1. PICK r \in BusRead(x.s, regs[7]) : o = Sampled(x.s, r)
      BY <1>1, <1>3
    <2>2. Keeps(x.s, r) /\ r.s \in Unit /\ r.s.regs = x.s.regs /\ IsOutcome(r)
      BY <1>2, BusReadKeeps DEF Keeps, Follows
    <2>3. o.s = r.s /\ o.ok = r.ok /\ IsOutcome(o)
      BY <2>1, <2>2 DEF Sampled, IsOutcome
    <2>4. Keeps(x.s, o)
      BY <2>2, <2>3 DEF Keeps, Follows
    <2> QED BY <1>2, <1>3, <2>2, <2>3, <2>4, KeptIsSound, SoundThenSound
  <1>4. CASE o = x
    BY <1>2, <1>4
  <1> QED BY <1>1, <1>3, <1>4

-----------------------------------------------------------------------------
LEMMA SliceBound ==
  ASSUME NEW b \in Byte, NEW f, IsSlice(f)
  PROVE  Slice(b, f) \in Nat /\ Slice(b, f) < 2^f.len
  <1>1. 2^f.pos \in Nat \ {0} /\ 2^f.len \in Nat \ {0}
    BY SliceFits
  <1>2. b \div 2^f.pos \in Nat
    BY <1>1 DEF Byte
  <1>3. ASSUME NEW x \in Nat, NEW l \in Nat \ {0} PROVE x % l \in Nat /\ x % l < l
    OBVIOUS
  <1>4. (b \div 2^f.pos) % 2^f.len \in Nat /\ (b \div 2^f.pos) % 2^f.len < 2^f.len
    BY <1>1, <1>2, <1>3, Zenon
  <1> QED BY <1>4 DEF Slice

LEMMA GetBound ==
  ASSUME NEW s \in Unit, NEW f, IsSlice(f), f.page \in Byte, NEW o \in Get(s, f)
  PROVE  o.data < 2^f.len
  <1>1. PICK p \in PageReady(s, f.page) : o \in IF p.ok THEN GetField(p.s, f) ELSE {Failed(p.s)}
    BY DEF Get
  <1>2. p.s \in Unit
    BY PageReadySound
  <1>3. CASE p.ok
    <2>1. PICK r \in BusRead(p.s, f.reg) : o = [r EXCEPT !.data = Slice(r.data, f)]
      BY <1>1, <1>3 DEF GetField
    <2>2. IsOutcome(r) /\ r.data \in Byte
      BY <1>2, BusReadKeeps DEF Keeps, Follows
    <2>3. o.data = Slice(r.data, f)
      BY <2>1, <2>2 DEF IsOutcome
    <2> QED BY <2>2, <2>3, SliceBound
  <1>4. CASE ~p.ok
    <2>1. o.data = 0
      BY <1>1, <1>2, <1>4, FailedOutcome
    <2>2. 2^f.len \in Nat \ {0}
      BY SliceFits
    <2>3. ASSUME NEW x \in Nat \ {0} PROVE 0 < x
      OBVIOUS
    <2> QED BY <2>1, <2>2, <2>3
  <1> QED BY <1>3, <1>4

LEMMA WithFieldStored ==
  ASSUME NEW s \in Unit, NEW f, IsSlice(f)
  PROVE  WithField(s.regs, f, Slice(Stored(s, f), f)) = s.regs
  <1>1. s.regs \in [Registers -> Byte]
    BY DEF Unit
  <1>2. CASE Key(f) \in Registers
    BY <1>1, <1>2, WithFieldSame DEF Stored
  <1>3. CASE Key(f) \notin Registers
    BY <1>1, <1>3 DEF WithField
  <1> QED BY <1>2, <1>3

\* The settings of the gyroscope that depend on each other.
LEMMA GyroSettings ==
  /\ \A f \in {gyro_bw, gyro_power_mode, gyro_auto_sleep_durn} :
       /\ IsSetting(f) /\ IsSlice(f) /\ f.page = 1 /\ f.page \in Byte /\ f.config /\ f.reg # PAGE_ID
       /\ f # sys_rst /\ Key(f) # <<0, OPR_MODE>> /\ Key(f) # <<0, SYS_TRIGGER>>
       /\ 2^f.len = 8
  /\ Key(gyro_bw) # Key(gyro_power_mode) /\ Key(gyro_bw) # Key(gyro_auto_sleep_durn)
  /\ Key(gyro_power_mode) # Key(gyro_auto_sleep_durn)
  /\ gyro_bw.limit = 8 /\ gyro_power_mode.limit = 5 /\ gyro_auto_sleep_durn.limit = 8
  <1>1. gyro_bw = [page |-> 1, reg |-> 10, pos |-> 3, len |-> 3, limit |-> 8, config |-> TRUE]
    BY DEF gyro_bw, LimitedSetting, Field
  <1>2. gyro_power_mode = [page |-> 1, reg |-> 11, pos |-> 0, len |-> 3, limit |-> 5, config |-> TRUE]
    BY DEF gyro_power_mode, LimitedSetting, Field
  <1>3. gyro_auto_sleep_durn = [page |-> 1, reg |-> 13, pos |-> 3, len |-> 3, limit |-> 8, config |-> TRUE]
    BY DEF gyro_auto_sleep_durn, LimitedSetting, Field
  <1>4. sys_rst.page = 0
    BY DEF sys_rst, SystemControl, Field
  <1>5. ASSUME NEW f, NEW reg \in {10, 11, 13}, NEW pos \in {0, 3}, NEW limit \in {5, 8},
               f = [page |-> 1, reg |-> reg, pos |-> pos, len |-> 3, limit |-> limit, config |-> TRUE]
        PROVE  /\ IsSetting(f) /\ IsSlice(f) /\ f.page = 1 /\ f.page \in Byte /\ f.config /\ f.reg # PAGE_ID
               /\ f # sys_rst /\ Key(f) # <<0, OPR_MODE>> /\ Key(f) # <<0, SYS_TRIGGER>>
               /\ 2^f.len = 8
    <2>1. IsSlice(f) /\ f.reg # PAGE_ID /\ f # sys_rst /\ 2^f.len = 8
      BY <1>4, <1>5 DEF IsSlice, PAGE_ID
    <2>2. Key(f) # <<0, OPR_MODE>> /\ Key(f) # <<0, SYS_TRIGGER>>
      BY <1>5 DEF Key
    <2> QED BY <1>5, <2>1, <2>2 DEF IsSetting, Byte
  <1> QED BY <1>1, <1>2, <1>3, <1>5 DEF Key

LEMMA MinimumType == ASSUME NEW bw PROVE MinimumAutoSleep(bw) \in 1..6
  BY DEF MinimumAutoSleep

LEMMA AutoSleepSound ==
  ASSUME NEW s \in Unit, NEW durn \in Nat, NEW bw, NEW o \in gyro_set_auto_sleep_durn(s, durn, bw)
  PROVE  /\ Sound(s, o) /\ o.s \in Unit
         /\ o.ok => ~s.null /\ o.s.page_id = o.s.page
         /\ Calm(s, o) /\ durn < 8 => o.ok
         /\ TriggerClear(s) /\ Near(s) /\ Reliable(o) =>
              \E w \in 0..7 : /\ w >= durn /\ w >= MinimumAutoSleep(bw)
                              /\ o.s.regs = WithField(s.regs, gyro_auto_sleep_durn, w)
  <1> DEFINE w == IF durn > MinimumAutoSleep(bw) THEN durn ELSE MinimumAutoSleep(bw)
  <1>1. w \in Nat /\ w >= durn /\ w >= MinimumAutoSleep(bw) /\ (durn < 8 => w < 8)
    BY MinimumType
  <1>2. o \in Set(s, gyro_auto_sleep_durn, w)
    BY DEF gyro_set_auto_sleep_durn
  <1> HIDE DEF w
  <1>3. /\ Sound(s, o) /\ o.s \in Unit
        /\ o.ok => ~s.null /\ w < 8
        /\ Calm(s, o) /\ w < 8 => o.ok
        /\ o.ok => o.s.page_id = o.s.page
        /\ TriggerClear(s) /\ Reliable(o) /\ Near(s) => o.s.regs = WithField(s.regs, gyro_auto_sleep_durn, w)
    BY <1>1, <1>2, GyroSettings, SetSound
  <1>4. w < 8 => w \in 0..7
    BY <1>1
  <1> QED BY <1>1, <1>3, <1>4 DEF Reliable

LEMMA AdjustAutoSleepSound ==
  ASSUME NEW s \in Unit, NEW bw, NEW o \in AdjustAutoSleep(s, bw)
  PROVE  /\ Sound(s, o) /\ o.s \in Unit
         /\ Calm(s, o) => o.ok
         /\ TriggerClear(s) /\ s.page_id = s.page /\ Reliable(o) =>
              \E w \in 0..7 : /\ w >= MinimumAutoSleep(bw)
                              /\ o.s.regs = WithField(s.regs, gyro_auto_sleep_durn, w)
  <1> DEFINE f == gyro_auto_sleep_durn
  <1>1. PICK d \in Get(s, f) : o \in IF d.ok THEN gyro_set_auto_sleep_durn(d.s, d.data, bw) ELSE {d}
    BY DEF AdjustAutoSleep
  <1>2. /\ Sound(s, d) /\ d.s \in Unit /\ d.s.regs = s.regs /\ d.data \in Nat
        /\ Reliable(d) /\ s.page_id = s.page => d.data = Slice(Stored(s, f), f)
        /\ Calm(s, d) => d.ok
    BY GyroSettings, GetSound
  <1>3. CASE d.ok
    <2>1. /\ Sound(d.s, o) /\ o.s \in Unit
          /\ Calm(d.s, o) /\ d.data < 8 => o.ok
          /\ TriggerClear(d.s) /\ Near(d.s) /\ Reliable(o) =>
               \E w \in 0..7 : /\ w >= d.data /\ w >= MinimumAutoSleep(bw)
                               /\ o.s.regs = WithField(d.s.regs, f, w)
      BY <1>1, <1>2, <1>3, AutoSleepSound
    <2>2. Sound(s, o)
      BY <1>2, <1>3, <2>1, SoundThenSound
    <2>3. d.data < 8
      BY <1>1, <1>2, GetBound, GyroSettings
    <2>4. Calm(s, o) => o.ok
      BY <1>2, <2>1, <2>3 DEF Calm, Sound, Follows, Unit
    <2>5. s.page_id = s.page => Near(d.s)
      BY <1>2, <1>3 DEF Sound, Near
    <2>6. TriggerClear(s) => TriggerClear(d.s)
      BY <1>2 DEF Sound, Follows
    <2> QED BY <1>2, <2>1, <2>2, <2>4, <2>5, <2>6
  <1>4. CASE ~d.ok
    BY <1>1, <1>2, <1>4 DEF Reliable
  <1> QED BY <1>3, <1>4

LEMMA AfterBandwidthSound ==
  ASSUME NEW s \in Unit, NEW bw, NEW o \in AfterBandwidth(s, bw)
  PROVE  /\ Sound(s, o) /\ o.s \in Unit
         /\ Calm(s, o) => o.ok
         /\ TriggerClear(s) /\ s.page_id = s.page /\ Reliable(o) =>
              \E w \in 0..7 :
                /\ Slice(Stored(s, gyro_power_mode), gyro_power_mode) = GYRO_POWER_MODE_ADVANCE_POWERSAVE
                     => w >= MinimumAutoSleep(bw)
                /\ o.s.regs = WithField(s.regs, gyro_auto_sleep_durn, w)
  <1> DEFINE f == gyro_power_mode
             a == gyro_auto_sleep_durn
  <1>1. PICK m \in Get(s, f) :
          o \in IF m.ok /\ m.data = GYRO_POWER_MODE_ADVANCE_POWERSAVE THEN AdjustAutoSleep(m.s, bw) ELSE {m}
    BY DEF AfterBandwidth
  <1>2. /\ Sound(s, m) /\ m.s \in Unit /\ m.s.regs = s.regs /\ m.data \in Nat
        /\ Reliable(m) /\ s.page_id = s.page => m.data = Slice(Stored(s, f), f)
        /\ Calm(s, m) => m.ok
    BY GyroSettings, GetSound
  <1>3. CASE m.ok /\ m.data = GYRO_POWER_MODE_ADVANCE_POWERSAVE
    <2>1. /\ Sound(m.s, o) /\ o.s \in Unit
          /\ Calm(m.s, o) => o.ok
          /\ TriggerClear(m.s) /\ m.s.page_id = m.s.page /\ Reliable(o) =>
               \E w \in 0..7 : /\ w >= MinimumAutoSleep(bw)
                               /\ o.s.regs = WithField(m.s.regs, a, w)
      BY <1>1, <1>2, <1>3, AdjustAutoSleepSound
    <2>2. Sound(s, o)
      BY <1>2, <1>3, <2>1, SoundThenSound
    <2>3. Calm(s, o) => o.ok
      BY <1>2, <2>1 DEF Calm, Sound, Follows, Unit
    <2>4. (s.page_id = s.page => m.s.page_id = m.s.page) /\ (TriggerClear(s) => TriggerClear(m.s))
      BY <1>2, <1>3 DEF Sound, Follows
    <2> QED BY <1>2, <2>1, <2>2, <2>3, <2>4
  <1>4. CASE ~(m.ok /\ m.data = GYRO_POWER_MODE_ADVANCE_POWERSAVE)
    <2>1. o = m
      BY <1>1, <1>4
    <2>2. Slice(Stored(s, a), a) \in 0..7
      <3>1. Slice(Stored(s, a), a) \in Nat /\ Slice(Stored(s, a), a) < 8
        BY GyroSettings, StoredByte, SliceBound
      <3> QED BY <3>1
    <2>3. WithField(s.regs, a, Slice(Stored(s, a), a)) = s.regs
      BY GyroSettings, WithFieldStored
    <2> HIDE DEF a
    <2>4. ASSUME s.page_id = s.page, Reliable(o)
          PROVE  Slice(Stored(s, f), f) # GYRO_POWER_MODE_ADVANCE_POWERSAVE
      BY <1>2, <1>4, <2>1, <2>4 DEF Reliable
    <2> QED BY <1>2, <2>1, <2>2, <2>3, <2>4 DEF a
  <1> QED BY <1>3, <1>4

\* In the configuration mode, on page 1, once the bandwidth is written or not.
BandwidthOnPage(s, bw) ==
  UNION {IF p.ok /\ bw < gyro_bw.limit
         THEN UNION {AfterBandwidth(w.s, bw) : w \in Update(p.s, gyro_bw, bw)} ELSE {Failed(p.s)} :
         p \in OnThePage(s, 1)}

LEMMA BandwidthOnPageSound ==
  ASSUME NEW s \in Unit, NEW bw \in Nat, NEW o \in BandwidthOnPage(s, bw)
  PROVE  /\ Sound(s, o) /\ o.s \in Unit
         /\ o.ok => bw < 8 /\ o.s.page_id = o.s.page
         /\ TriggerClear(s) /\ Mode(s) = OPERATION_MODE_CONFIG /\ Reliable(o) /\ o.s.faults = s.faults =>
              \E w \in 0..7 :
                /\ Slice(Stored(s, gyro_power_mode), gyro_power_mode) = GYRO_POWER_MODE_ADVANCE_POWERSAVE
                     => w >= MinimumAutoSleep(bw)
                /\ o.s.regs = WithField(WithField(s.regs, gyro_bw, bw), gyro_auto_sleep_durn, w)
  <1> DEFINE Advanced(u) ==
        Slice(Stored(u, gyro_power_mode), gyro_power_mode) = GYRO_POWER_MODE_ADVANCE_POWERSAVE
  <1>1. PICK p \in OnThePage(s, 1) :
          o \in IF p.ok /\ bw < gyro_bw.limit
                THEN UNION {AfterBandwidth(w.s, bw) : w \in Update(p.s, gyro_bw, bw)} ELSE {Failed(p.s)}
    BY DEF BandwidthOnPage
  <1>2. /\ Sound(s, p) /\ p.s \in Unit /\ p.s.regs = s.regs
        /\ p.ok => p.s.page = 1 /\ p.s.page_id = 1
    BY OnThePageSound
  <1>3. CASE p.ok /\ bw < gyro_bw.limit
    <2>1. PICK w \in Update(p.s, gyro_bw, bw) : o \in AfterBandwidth(w.s, bw)
      BY <1>1, <1>3
    <2>2. Keeps(p.s, w) /\ w.s \in Unit /\ (w.s.faults = p.s.faults => w.ok)
      BY <1>2, GyroSettings, UpdateKeeps
    <2>3. /\ Sound(w.s, o) /\ o.s \in Unit
          /\ TriggerClear(w.s) /\ w.s.page_id = w.s.page /\ Reliable(o) =>
               \E z \in 0..7 : /\ Advanced(w.s) => z >= MinimumAutoSleep(bw)
                               /\ o.s.regs = WithField(w.s.regs, gyro_auto_sleep_durn, z)
      BY <2>1, <2>2, AfterBandwidthSound
    <2>4. Follows(s, o)
      <3>1. Follows(p.s, o)
        BY <1>2, <2>2, <2>3, FollowsThenFollows DEF Keeps, Sound
      <3> QED BY <1>2, <3>1, FollowsThenFollows DEF Sound
    <2>5. w.s.page = 1 /\ w.s.page_id = 1
      BY <1>2, <1>3, <2>2 DEF Keeps
    <2>6. o.ok => o.s.page_id = o.s.page
      BY <2>3, <2>5 DEF Sound
    <2>7. ASSUME TriggerClear(s), Mode(s) = OPERATION_MODE_CONFIG, Reliable(o), o.s.faults = s.faults
          PROVE  \E z \in 0..7 :
                   /\ Advanced(s) => z >= MinimumAutoSleep(bw)
                   /\ o.s.regs = WithField(WithField(s.regs, gyro_bw, bw), gyro_auto_sleep_durn, z)
      <3>1. w.ok /\ ~w.s.misread
        BY <1>2, <2>2, <2>3, <2>7 DEF Sound, Keeps, Follows, Reliable, Unit
      <3>2. TriggerClear(p.s) /\ TriggerClear(w.s) /\ Mode(p.s) = OPERATION_MODE_CONFIG
        BY <1>2, <2>2, <2>7 DEF Sound, Keeps, Follows, Mode
      <3>3. w.s.regs = WithField(s.regs, gyro_bw, bw)
        BY <1>2, <1>3, <3>1, <3>2, GyroSettings, UpdateSets
      <3>4. Stored(w.s, gyro_power_mode) = Stored(s, gyro_power_mode)
        BY <3>3, GyroSettings DEF Stored, WithField
      <3>5. PICK z \in 0..7 : /\ Advanced(w.s) => z >= MinimumAutoSleep(bw)
                              /\ o.s.regs = WithField(w.s.regs, gyro_auto_sleep_durn, z)
        BY <2>3, <2>5, <2>7, <3>2
      <3> QED BY <3>3, <3>4, <3>5
    <2>8. bw < 8
      BY <1>3, GyroSettings
    <2> QED BY <2>3, <2>4, <2>6, <2>7, <2>8 DEF Sound
  <1>4. CASE ~(p.ok /\ bw < gyro_bw.limit)
    <2>1. o = Failed(p.s)
      BY <1>1, <1>4
    <2>2. Keeps(p.s, o) /\ ~o.ok /\ o.s = p.s
      BY <1>2, <2>1, FailedOutcome
    <2> QED BY <1>2, <2>2, FailsSoundly DEF Reliable
  <1> QED BY <1>3, <1>4

LEMMA set_gyro_bwParts ==
  ASSUME NEW s, NEW bw, NEW o \in set_gyro_bw(s, bw)
  PROVE  \E e \in EnterConfig(s) :
           \E b \in (IF e.ok THEN BandwidthOnPage(e.s, bw) ELSE {Failed(e.s)}) : o \in Restore(b, e.data)
  <1> DEFINE Body(c) == BandwidthOnPage(c, bw)
  <1>1. o \in UNION {UNION {Restore(b, e.data) : b \in IF e.ok THEN Body(e.s) ELSE {Failed(e.s)}} : e \in EnterConfig(s)}
    BY DEF set_gyro_bw, InConfig, OnPage, BandwidthOnPage, OnThePage
  <1> HIDE DEF Body
  <1>2. PICK e \in EnterConfig(s) :
          \E b \in (IF e.ok THEN Body(e.s) ELSE {Failed(e.s)}) : o \in Restore(b, e.data)
    BY <1>1
  <1> QED BY <1>2 DEF Body

\* What becomes of the registers in the configuration mode, once the mode is set again.
LEMMA ModeSetAgain ==
  ASSUME NEW s \in Unit, NEW e \in Unit, NEW b \in Unit, NEW f \in {gyro_bw, gyro_power_mode}, NEW v, NEW w,
         e.regs = WithField(s.regs, operation_mode, OPERATION_MODE_CONFIG),
         b.regs = WithField(WithField(e.regs, f, v), gyro_auto_sleep_durn, w)
  PROVE  /\ b.regs[<<0, OPR_MODE>>] = e.regs[<<0, OPR_MODE>>]
         /\ [b.regs EXCEPT ![<<0, OPR_MODE>>] = s.regs[<<0, OPR_MODE>>]] =
              WithField(WithField(s.regs, f, v), gyro_auto_sleep_durn, w)
         /\ \A g \in {gyro_bw, gyro_power_mode, gyro_auto_sleep_durn} : Stored(e, g) = Stored(s, g)
  <1> DEFINE key == <<0, OPR_MODE>>
             a == gyro_auto_sleep_durn
  <1>0. key \in Registers /\ Key(operation_mode) = key /\ Key(a) # key /\ Key(f) # key
    BY OperationModeSetting, GyroSettings
  <1>1. \A r \in Registers : r # key => e.regs[r] = s.regs[r]
    BY <1>0 DEF WithField
  <1>2. b.regs[key] = e.regs[key]
    BY <1>0 DEF WithField
  <1>3. DOMAIN b.regs = Registers
    BY DEF WithField
  <1>4. \A r \in Registers :
          [b.regs EXCEPT ![key] = s.regs[key]][r] = WithField(WithField(s.regs, f, v), a, w)[r]
    <2> TAKE r \in Registers
    <2>1. CASE r = key
      BY <1>0, <1>3, <2>1 DEF WithField
    <2>2. CASE r # key
      BY <1>1, <1>3, <2>2 DEF WithField
    <2> QED BY <2>1, <2>2
  <1>5. [b.regs EXCEPT ![key] = s.regs[key]] = WithField(WithField(s.regs, f, v), a, w)
    BY <1>3, <1>4 DEF WithField
  <1>6. \A g \in {gyro_bw, gyro_power_mode, gyro_auto_sleep_durn} : Stored(e, g) = Stored(s, g)
    BY <1>1, GyroSettings DEF Stored
  <1> QED BY <1>2, <1>5, <1>6

\* If no transfer fails, a bandwidth that is set makes the auto sleep as long as it has to be.
LEMMA set_gyro_bwSound ==
  ASSUME NEW s \in Unit, NEW bw \in Nat, NEW o \in set_gyro_bw(s, bw)
  PROVE  /\ Sound(s, o) /\ o.s \in Unit
         /\ o.ok => ~s.null /\ bw < 8
         /\ TriggerClear(s) /\ Near(s) /\ Reliable(o) /\ o.s.faults = s.faults =>
              \E w \in 0..7 :
                /\ Slice(Stored(s, gyro_power_mode), gyro_power_mode) = GYRO_POWER_MODE_ADVANCE_POWERSAVE
                     => w >= MinimumAutoSleep(bw)
                /\ o.s.regs = WithField(WithField(s.regs, gyro_bw, bw), gyro_auto_sleep_durn, w)
  <1> DEFINE Advanced(u) ==
        Slice(Stored(u, gyro_power_mode), gyro_power_mode) = GYRO_POWER_MODE_ADVANCE_POWERSAVE
  <1>1. PICK e \in EnterConfig(s) :
          \E b \in (IF e.ok THEN BandwidthOnPage(e.s, bw) ELSE {Failed(e.s)}) : o \in Restore(b, e.data)
    BY set_gyro_bwParts
  <1>2. PICK b \in IF e.ok THEN BandwidthOnPage(e.s, bw) ELSE {Failed(e.s)} : o \in Restore(b, e.data)
    BY <1>1
  <1>3. /\ Sound(s, e) /\ e.s \in Unit
        /\ TriggerClear(s) /\ Near(s) /\ Reliable(e) =>
             /\ Mode(e.s) = OPERATION_MODE_CONFIG
             /\ e.s.regs = WithField(s.regs, operation_mode, OPERATION_MODE_CONFIG)
    BY EnterConfigSound
  <1>4. ASSUME e.ok
        PROVE  /\ Sound(e.s, b) /\ b.s \in Unit
               /\ b.ok => bw < 8 /\ b.s.page_id = b.s.page
               /\ TriggerClear(e.s) /\ Mode(e.s) = OPERATION_MODE_CONFIG /\ Reliable(b) /\ b.s.faults = e.s.faults =>
                    \E w \in 0..7 :
                      /\ Advanced(e.s) => w >= MinimumAutoSleep(bw)
                      /\ b.s.regs = WithField(WithField(e.s.regs, gyro_bw, bw), gyro_auto_sleep_durn, w)
    BY <1>2, <1>3, <1>4, BandwidthOnPageSound
  <1>5. IF e.ok THEN Sound(e.s, b) ELSE b = Failed(e.s)
    BY <1>2, <1>4
  <1>6. /\ Sound(s, o) /\ o.s \in Unit
        /\ o.ok => e.ok /\ b.ok /\ ~s.null
        /\ Calm(s, o) => Calm(e.s, b)
        /\ Reliable(o) => Reliable(e) /\ Reliable(b)
        /\ TriggerClear(s) /\ Near(s) /\ Reliable(o) /\ b.s.page_id = b.s.page
             /\ b.s.regs[<<0, OPR_MODE>>] = e.s.regs[<<0, OPR_MODE>>]
             => o.s.regs = [b.s.regs EXCEPT ![<<0, OPR_MODE>>] = s.regs[<<0, OPR_MODE>>]]
    BY <1>2, <1>5, InConfigSound
  <1>7. ASSUME TriggerClear(s), Near(s), Reliable(o), o.s.faults = s.faults
        PROVE  \E w \in 0..7 :
                 /\ Advanced(s) => w >= MinimumAutoSleep(bw)
                 /\ o.s.regs = WithField(WithField(s.regs, gyro_bw, bw), gyro_auto_sleep_durn, w)
    <2>1. e.ok /\ b.ok /\ Reliable(e) /\ Reliable(b) /\ b.s.faults = e.s.faults
      BY <1>6, <1>7 DEF Reliable, Calm
    <2>2. /\ Mode(e.s) = OPERATION_MODE_CONFIG /\ TriggerClear(e.s)
          /\ e.s.regs = WithField(s.regs, operation_mode, OPERATION_MODE_CONFIG)
      BY <1>3, <1>7, <2>1 DEF Sound, Follows
    <2>3. PICK w \in 0..7 :
            /\ Advanced(e.s) => w >= MinimumAutoSleep(bw)
            /\ b.s.regs = WithField(WithField(e.s.regs, gyro_bw, bw), gyro_auto_sleep_durn, w)
      BY <1>4, <2>1, <2>2
    <2>4. /\ b.s.regs[<<0, OPR_MODE>>] = e.s.regs[<<0, OPR_MODE>>]
          /\ [b.s.regs EXCEPT ![<<0, OPR_MODE>>] = s.regs[<<0, OPR_MODE>>]] =
               WithField(WithField(s.regs, gyro_bw, bw), gyro_auto_sleep_durn, w)
          /\ Stored(e.s, gyro_power_mode) = Stored(s, gyro_power_mode)
      <3>1. e.s \in Unit /\ b.s \in Unit /\ gyro_bw \in {gyro_bw, gyro_power_mode}
        BY <1>3, <1>4, <2>1
      <3>2. \A f \in {gyro_power_mode} : f \in {gyro_bw, gyro_power_mode, gyro_auto_sleep_durn}
        OBVIOUS
      <3> QED BY <2>2, <2>3, <3>1, <3>2, ModeSetAgain
    <2>5. o.s.regs = WithField(WithField(s.regs, gyro_bw, bw), gyro_auto_sleep_durn, w)
      BY <1>4, <1>6, <1>7, <2>1, <2>4
    <2> QED BY <2>3, <2>4, <2>5
  <1> QED BY <1>4, <1>6, <1>7

\* What comes before the advanced power mode: only if no transfer fails is it worth anything.
LEMMA BeforeAdvancedFollows ==
  ASSUME NEW s \in Unit, NEW o \in BeforeAdvanced(s)
  PROVE  /\ Follows(s, o) /\ o.s \in Unit
         /\ Calm(s, o) => o.s.page = 1 /\ o.s.page_id = 1
         /\ Calm(s, o) /\ TriggerClear(s) /\ s.page_id = s.page /\ ~s.misread =>
              \E w \in 0..7 :
                /\ w >= MinimumAutoSleep(Slice(Stored(s, gyro_bw), gyro_bw))
                /\ o.s.regs = WithField(s.regs, gyro_auto_sleep_durn, w)
  <1> DEFINE a == gyro_auto_sleep_durn
  <1>1. PICK b \in Get(s, gyro_bw) : \E d \in Get(b.s, a) :
          \E x \in (IF b.ok /\ d.ok THEN gyro_set_auto_sleep_durn(d.s, d.data, b.data) ELSE {d}) :
            o \in write_page_id(x.s, 1)
    BY DEF BeforeAdvanced
  <1>2. PICK d \in Get(b.s, a) :
          \E x \in (IF b.ok /\ d.ok THEN gyro_set_auto_sleep_durn(d.s, d.data, b.data) ELSE {d}) :
            o \in write_page_id(x.s, 1)
    BY <1>1
  <1>3. PICK x \in IF b.ok /\ d.ok THEN gyro_set_auto_sleep_durn(d.s, d.data, b.data) ELSE {d} :
          o \in write_page_id(x.s, 1)
    BY <1>2
  <1>4. /\ Sound(s, b) /\ b.s \in Unit /\ b.s.regs = s.regs /\ b.data \in Nat
        /\ Reliable(b) /\ s.page_id = s.page => b.data = Slice(Stored(s, gyro_bw), gyro_bw)
        /\ Calm(s, b) => b.ok
    BY GyroSettings, GetSound
  <1>5. /\ Sound(b.s, d) /\ d.s \in Unit /\ d.s.regs = b.s.regs /\ d.data \in Nat
        /\ Calm(b.s, d) => d.ok
        /\ d.data < 8
    BY <1>4, GyroSettings, GetSound, GetBound
  <1>6. Follows(s, d) /\ (s.page_id = s.page /\ b.ok /\ d.ok => d.s.page_id = d.s.page)
    BY <1>4, <1>5, FollowsThenFollows DEF Sound
  <1>7. ASSUME b.ok /\ d.ok
        PROVE  /\ Sound(d.s, x) /\ x.s \in Unit
               /\ Calm(d.s, x) => x.ok
               /\ TriggerClear(d.s) /\ Near(d.s) /\ Reliable(x) =>
                    \E w \in 0..7 : /\ w >= d.data /\ w >= MinimumAutoSleep(b.data)
                                    /\ x.s.regs = WithField(d.s.regs, a, w)
    BY <1>3, <1>5, <1>7, AutoSleepSound
  <1>8. Follows(s, x) /\ x.s \in Unit /\ x.s.faults <= d.s.faults
    <2>1. CASE b.ok /\ d.ok
      BY <1>6, <1>7, <2>1, FollowsThenFollows DEF Sound, Follows
    <2>2. CASE ~(b.ok /\ d.ok)
      BY <1>3, <1>5, <1>6, <2>2 DEF Unit
    <2> QED BY <2>1, <2>2
  <1>9. /\ Sound(x.s, o) /\ o.s.regs = x.s.regs
        /\ o.ok => o.s.page = 1 /\ o.s.page_id = 1
        /\ Calm(x.s, o) => o.ok
    <2>1. 1 \in Byte
      BY DEF Byte
    <2> QED BY <1>3, <1>8, <2>1, TurnsThePage
  <1>10. Follows(s, o) /\ o.s \in Unit
    BY <1>8, <1>9, FollowsThenFollows DEF Sound, Follows, IsOutcome
  <1>11. ASSUME Calm(s, o)
         PROVE  /\ Calm(s, b) /\ Calm(b.s, d) /\ Calm(d.s, x) /\ Calm(x.s, o)
    <2>1. /\ b.s.faults <= s.faults /\ d.s.faults <= b.s.faults /\ x.s.faults <= d.s.faults
          /\ o.s.faults <= x.s.faults
      BY <1>4, <1>5, <1>8, <1>9 DEF Sound, Follows
    <2>2. b.s.null = s.null /\ d.s.null = b.s.null /\ x.s.null = s.null
      BY <1>4, <1>5, <1>8 DEF Sound, Follows
    <2>3. s.faults \in Nat /\ b.s.faults \in Nat /\ d.s.faults \in Nat /\ x.s.faults \in Nat
      BY <1>4, <1>5, <1>8 DEF Unit
    <2> QED BY <1>11, <2>1, <2>2, <2>3 DEF Calm
  <1>12. ASSUME Calm(s, o), TriggerClear(s), s.page_id = s.page, ~s.misread
         PROVE  \E w \in 0..7 :
                  /\ w >= MinimumAutoSleep(Slice(Stored(s, gyro_bw), gyro_bw))
                  /\ o.s.regs = WithField(s.regs, a, w)
    <2>1. b.ok /\ d.ok /\ x.ok
      BY <1>4, <1>5, <1>7, <1>11, <1>12
    <2>2. ~b.s.misread /\ ~x.s.misread
      BY <1>4, <1>8, <1>11, <1>12 DEF Sound, Follows, Calm
    <2>3. b.data = Slice(Stored(s, gyro_bw), gyro_bw)
      BY <1>4, <1>12, <2>1, <2>2 DEF Reliable
    <2>4. Near(d.s) /\ TriggerClear(d.s)
      BY <1>6, <1>12, <2>1 DEF Near, Follows
    <2>5. PICK w \in 0..7 : w >= MinimumAutoSleep(b.data) /\ x.s.regs = WithField(d.s.regs, a, w)
      BY <1>7, <2>1, <2>2, <2>4 DEF Reliable
    <2> QED BY <1>4, <1>5, <1>9, <2>3, <2>5
  <1> QED BY <1>9, <1>10, <1>11, <1>12

PowerModeOnPage(s, mode) ==
  UNION {IF p.ok /\ mode < gyro_power_mode.limit
         THEN UNION {Update(b.s, gyro_power_mode, mode) :
                     b \in IF mode = GYRO_POWER_MODE_ADVANCE_POWERSAVE THEN BeforeAdvanced(p.s)
                           ELSE {Outcome(p.s, TRUE, 0)}}
         ELSE {Failed(p.s)} : p \in OnThePage(s, 1)}

LEMMA PowerModeOnPageFollows ==
  ASSUME NEW s \in Unit, NEW mode \in Nat, NEW o \in PowerModeOnPage(s, mode)
  PROVE  /\ Follows(s, o) /\ o.s \in Unit
         /\ o.ok => mode < 5
         /\ Calm(s, o) => Sound(s, o) /\ (o.ok => o.s.page_id = o.s.page)
         /\ Calm(s, o) /\ TriggerClear(s) /\ Mode(s) = OPERATION_MODE_CONFIG /\ Reliable(o) =>
              \E w \in 0..7 :
                /\ mode = GYRO_POWER_MODE_ADVANCE_POWERSAVE
                     => w >= MinimumAutoSleep(Slice(Stored(s, gyro_bw), gyro_bw))
                /\ o.s.regs = WithField(WithField(s.regs, gyro_power_mode, mode), gyro_auto_sleep_durn, w)
  <1> DEFINE a == gyro_auto_sleep_durn
             f == gyro_power_mode
             Long(u, w) == mode = GYRO_POWER_MODE_ADVANCE_POWERSAVE =>
                             w >= MinimumAutoSleep(Slice(Stored(u, gyro_bw), gyro_bw))
  <1>1. PICK p \in OnThePage(s, 1) :
          o \in IF p.ok /\ mode < f.limit
                THEN UNION {Update(b.s, f, mode) :
                            b \in IF mode = GYRO_POWER_MODE_ADVANCE_POWERSAVE THEN BeforeAdvanced(p.s)
                                  ELSE {Outcome(p.s, TRUE, 0)}}
                ELSE {Failed(p.s)}
    BY DEF PowerModeOnPage
  <1>2. /\ Sound(s, p) /\ p.s \in Unit /\ p.s.regs = s.regs
        /\ p.ok => p.s.page = 1 /\ p.s.page_id = 1
    BY OnThePageSound
  <1>3. CASE p.ok /\ mode < f.limit
    <2>1. PICK b \in IF mode = GYRO_POWER_MODE_ADVANCE_POWERSAVE THEN BeforeAdvanced(p.s)
                     ELSE {Outcome(p.s, TRUE, 0)} : o \in Update(b.s, f, mode)
      BY <1>1, <1>3
    <2>2. /\ Follows(p.s, b) /\ b.s \in Unit
          /\ Calm(p.s, b) => b.s.page = 1 /\ b.s.page_id = 1
          /\ Calm(p.s, b) /\ TriggerClear(p.s) /\ ~p.s.misread =>
               \E w \in 0..7 : Long(p.s, w) /\ b.s.regs = WithField(p.s.regs, a, w)
      <3>1. CASE mode = GYRO_POWER_MODE_ADVANCE_POWERSAVE
        BY <1>2, <1>3, <2>1, <3>1, BeforeAdvancedFollows
      <3>2. CASE mode # GYRO_POWER_MODE_ADVANCE_POWERSAVE
        <4>1. b = Outcome(p.s, TRUE, 0)
          BY <2>1, <3>2
        <4>2. b.s = p.s
          BY <4>1 DEF Outcome
        <4>3. Keeps(p.s, b)
          BY <1>2, <4>1, SameOutcome
        <4>4. Slice(Stored(p.s, a), a) \in 0..7
          <5>1. Slice(Stored(p.s, a), a) \in Nat /\ Slice(Stored(p.s, a), a) < 8
            BY <1>2, GyroSettings, StoredByte, SliceBound
          <5> QED BY <5>1
        <4>5. WithField(p.s.regs, a, Slice(Stored(p.s, a), a)) = p.s.regs
          BY <1>2, GyroSettings, WithFieldStored
        <4> HIDE DEF a
        <4> QED BY <1>2, <1>3, <3>2, <4>2, <4>3, <4>4, <4>5 DEF Keeps
      <3> QED BY <3>1, <3>2
    <2>3. Keeps(b.s, o) /\ o.s \in Unit /\ (o.s.faults = b.s.faults => o.ok)
      BY <2>1, <2>2, GyroSettings, UpdateKeeps
    <2>4. Follows(s, o)
      <3>1. Follows(p.s, o)
        BY <1>2, <2>2, <2>3, FollowsThenFollows DEF Keeps
      <3> QED BY <1>2, <3>1, FollowsThenFollows DEF Sound
    <2>5. mode < 5
      BY <1>3, GyroSettings
    <2>6. ASSUME Calm(s, o) PROVE Calm(p.s, b) /\ b.s.page = 1 /\ b.s.page_id = 1 /\ o.s.faults = b.s.faults
      <3>1. /\ p.s.faults <= s.faults /\ b.s.faults <= p.s.faults /\ o.s.faults <= b.s.faults
            /\ p.s.null = s.null
        BY <1>2, <2>2, <2>3 DEF Sound, Keeps, Follows
      <3>2. s.faults \in Nat /\ p.s.faults \in Nat /\ b.s.faults \in Nat /\ o.s.faults = s.faults
        BY <1>2, <2>2, <2>6 DEF Unit, Calm
      <3>3. p.s.faults = s.faults /\ b.s.faults = s.faults
        BY <3>1, <3>2
      <3> QED BY <2>2, <2>6, <3>1, <3>2, <3>3 DEF Calm
    <2>7. Calm(s, o) => Sound(s, o) /\ o.s.page_id = o.s.page
      BY <2>3, <2>4, <2>6 DEF Sound, Keeps
    <2>8. ASSUME Calm(s, o), TriggerClear(s), Mode(s) = OPERATION_MODE_CONFIG, Reliable(o)
          PROVE  \E w \in 0..7 : Long(s, w) /\ o.s.regs = WithField(WithField(s.regs, f, mode), a, w)
      <3>1. ~b.s.misread /\ ~p.s.misread /\ TriggerClear(p.s) /\ TriggerClear(b.s)
        BY <1>2, <2>2, <2>3, <2>8 DEF Sound, Keeps, Follows, Reliable
      <3>2. PICK w \in 0..7 : Long(p.s, w) /\ b.s.regs = WithField(p.s.regs, a, w)
        BY <2>2, <2>6, <2>8, <3>1
      <3>3. Mode(b.s) = OPERATION_MODE_CONFIG
        BY <1>2, <2>8, <3>2, OperationModeSetting, GyroSettings DEF Mode, WithField
      <3>4. o.s.regs = WithField(b.s.regs, f, mode)
        BY <2>1, <2>2, <2>6, <2>8, <3>1, <3>3, GyroSettings, UpdateSets DEF Reliable
      <3>5. WithField(WithField(s.regs, a, w), f, mode) = WithField(WithField(s.regs, f, mode), a, w)
        BY GyroSettings DEF WithField
      <3>6. Stored(p.s, gyro_bw) = Stored(s, gyro_bw)
        BY <1>2 DEF Stored
      <3> QED BY <1>2, <3>2, <3>4, <3>5, <3>6
    <2> QED BY <2>3, <2>4, <2>5, <2>7, <2>8
  <1>4. CASE ~(p.ok /\ mode < f.limit)
    <2>1. o = Failed(p.s)
      BY <1>1, <1>4
    <2>2. Keeps(p.s, o) /\ ~o.ok /\ o.s = p.s
      BY <1>2, <2>1, FailedOutcome
    <2>3. Sound(s, o)
      BY <1>2, <2>2, FailsSoundly
    <2> QED BY <1>2, <2>2, <2>3 DEF Reliable, Sound
  <1> QED BY <1>3, <1>4

LEMMA set_gyro_power_modeParts ==
  ASSUME NEW s, NEW mode, NEW o \in set_gyro_power_mode(s, mode)
  PROVE  \E e \in EnterConfig(s) :
           \E b \in (IF e.ok THEN PowerModeOnPage(e.s, mode) ELSE {Failed(e.s)}) : o \in Restore(b, e.data)
  <1> DEFINE Body(c) == PowerModeOnPage(c, mode)
  <1>1. o \in UNION {UNION {Restore(b, e.data) : b \in IF e.ok THEN Body(e.s) ELSE {Failed(e.s)}} : e \in EnterConfig(s)}
    BY DEF set_gyro_power_mode, InConfig, OnPage, PowerModeOnPage, OnThePage
  <1> HIDE DEF Body
  <1>2. PICK e \in EnterConfig(s) :
          \E b \in (IF e.ok THEN Body(e.s) ELSE {Failed(e.s)}) : o \in Restore(b, e.data)
    BY <1>1
  <1> QED BY <1>2 DEF Body

LEMMA RestoreFollows ==
  ASSUME NEW s \in Unit, NEW b, Follows(s, b), NEW prev \in Nat, NEW o \in Restore(b, prev)
  PROVE  /\ Follows(s, o) /\ o.s \in Unit /\ o.s.faults <= b.s.faults
         /\ o.ok => b.ok
  <1>0. b.s \in Unit /\ b.s.faults \in Nat
    BY DEF Follows, IsOutcome, Unit
  <1>1. CASE o = b
    BY <1>0, <1>1
  <1>2. CASE \E r \in set_operation_mode(b.s, prev) : o = Also(b, r)
    <2>1. PICK r \in set_operation_mode(b.s, prev) : o = Also(b, r)
      BY <1>2
    <2>2. Sound(b.s, r) /\ IsOutcome(r) /\ b.ok \in BOOLEAN
      BY <1>0, set_operation_modeSound DEF Sound, Follows, IsOutcome
    <2>3. o.s = r.s /\ o.ok = (b.ok /\ r.ok) /\ IsOutcome(o)
      BY <2>1, <2>2 DEF Also, IsOutcome
    <2>4. Follows(b.s, o)
      BY <2>2, <2>3 DEF Sound, Follows
    <2> QED BY <1>0, <2>3, <2>4, FollowsThenFollows DEF Follows, IsOutcome
  <1> QED BY <1>1, <1>2 DEF Restore

\* The advanced power mode is entered with the auto sleep that the bandwidth needs, if no
\* transfer fails: otherwise even a good result tells nothing.
LEMMA set_gyro_power_modeFollows ==
  ASSUME NEW s \in Unit, NEW mode \in Nat, NEW o \in set_gyro_power_mode(s, mode)
  PROVE  /\ Follows(s, o) /\ o.s \in Unit
         /\ o.ok => ~s.null /\ mode < 5
         /\ o.ok /\ o.s.faults = s.faults /\ s.page_id = s.page => o.s.page_id = o.s.page
         /\ TriggerClear(s) /\ Near(s) /\ Reliable(o) /\ o.s.faults = s.faults =>
              \E w \in 0..7 :
                /\ mode = GYRO_POWER_MODE_ADVANCE_POWERSAVE
                     => w >= MinimumAutoSleep(Slice(Stored(s, gyro_bw), gyro_bw))
                /\ o.s.regs = WithField(WithField(s.regs, gyro_power_mode, mode), gyro_auto_sleep_durn, w)
  <1> DEFINE Long(u, w) == mode = GYRO_POWER_MODE_ADVANCE_POWERSAVE =>
                             w >= MinimumAutoSleep(Slice(Stored(u, gyro_bw), gyro_bw))
  <1>1. PICK e \in EnterConfig(s) :
          \E b \in (IF e.ok THEN PowerModeOnPage(e.s, mode) ELSE {Failed(e.s)}) : o \in Restore(b, e.data)
    BY set_gyro_power_modeParts
  <1>2. PICK b \in IF e.ok THEN PowerModeOnPage(e.s, mode) ELSE {Failed(e.s)} : o \in Restore(b, e.data)
    BY <1>1
  <1>3. /\ Sound(s, e) /\ e.s \in Unit /\ e.data \in Nat
        /\ e.ok => ~s.null
        /\ TriggerClear(s) /\ Near(s) /\ Reliable(e) =>
             /\ Mode(e.s) = OPERATION_MODE_CONFIG
             /\ e.s.regs = WithField(s.regs, operation_mode, OPERATION_MODE_CONFIG)
    BY EnterConfigSound
  <1>4. ASSUME e.ok
        PROVE  /\ Follows(e.s, b) /\ b.s \in Unit
               /\ b.ok => mode < 5
               /\ Calm(e.s, b) => Sound(e.s, b) /\ (b.ok => b.s.page_id = b.s.page)
               /\ Calm(e.s, b) /\ TriggerClear(e.s) /\ Mode(e.s) = OPERATION_MODE_CONFIG /\ Reliable(b) =>
                    \E w \in 0..7 :
                      /\ Long(e.s, w)
                      /\ b.s.regs = WithField(WithField(e.s.regs, gyro_power_mode, mode), gyro_auto_sleep_durn, w)
    BY <1>2, <1>3, <1>4, PowerModeOnPageFollows
  <1>5. Follows(s, b) /\ (b.ok => e.ok /\ mode < 5) /\ b.s.faults <= e.s.faults
    <2>1. CASE e.ok
      BY <1>3, <1>4, <2>1, FollowsThenFollows DEF Sound, Follows
    <2>2. CASE ~e.ok
      <3>1. b = Failed(e.s)
        BY <1>2, <2>2
      <3>2. Keeps(e.s, b) /\ ~b.ok
        BY <1>3, <3>1, FailedOutcome
      <3> QED BY <1>3, <2>2, <3>2, FollowsThenFollows DEF Sound, Keeps, Follows
    <2> QED BY <2>1, <2>2
  <1>6. /\ Follows(s, o) /\ o.s \in Unit /\ o.s.faults <= b.s.faults
        /\ o.ok => b.ok
    BY <1>2, <1>3, <1>5, RestoreFollows
  <1>7. o.ok => e.ok /\ b.ok /\ ~s.null /\ mode < 5
    BY <1>3, <1>5, <1>6
  <1>8. ASSUME o.ok, o.s.faults = s.faults
        PROVE  /\ Sound(e.s, b) /\ b.s.page_id = b.s.page /\ Calm(e.s, b)
               /\ Sound(s, o)
               /\ o.ok /\ b.s.page_id = b.s.page => o.s.page_id = o.s.page
               /\ Reliable(o) => Reliable(e) /\ Reliable(b)
               /\ TriggerClear(s) /\ Near(s) /\ Reliable(o) /\ b.s.page_id = b.s.page
                    /\ b.s.regs[<<0, OPR_MODE>>] = e.s.regs[<<0, OPR_MODE>>]
                    => o.s.regs = [b.s.regs EXCEPT ![<<0, OPR_MODE>>] = s.regs[<<0, OPR_MODE>>]]
    <2>1. /\ o.s.faults <= b.s.faults /\ b.s.faults <= e.s.faults /\ e.s.faults <= s.faults
          /\ s.faults \in Nat /\ e.s.faults \in Nat /\ b.s.faults \in Nat /\ e.s.null = s.null
      BY <1>3, <1>4, <1>5, <1>6, <1>7, <1>8 DEF Sound, Follows, Unit
    <2>2. b.s.faults = e.s.faults
      BY <1>8, <2>1
    <2>3. Calm(e.s, b)
      BY <1>7, <1>8, <2>1, <2>2 DEF Calm
    <2>4. Sound(e.s, b) /\ b.s.page_id = b.s.page
      BY <1>4, <1>7, <1>8, <2>3
    <2>5. IF e.ok THEN Sound(e.s, b) ELSE b = Failed(e.s)
      BY <1>7, <1>8, <2>4
    <2> QED BY <1>2, <2>3, <2>4, <2>5, InConfigSound
  <1>9. ASSUME TriggerClear(s), Near(s), Reliable(o), o.s.faults = s.faults
        PROVE  \E w \in 0..7 :
                 /\ Long(s, w)
                 /\ o.s.regs = WithField(WithField(s.regs, gyro_power_mode, mode), gyro_auto_sleep_durn, w)
    <2>1. o.ok /\ e.ok /\ b.ok /\ Reliable(e) /\ Reliable(b) /\ Calm(e.s, b) /\ b.s.page_id = b.s.page
      BY <1>7, <1>8, <1>9 DEF Reliable
    <2>2. /\ Mode(e.s) = OPERATION_MODE_CONFIG /\ TriggerClear(e.s)
          /\ e.s.regs = WithField(s.regs, operation_mode, OPERATION_MODE_CONFIG)
      BY <1>3, <1>9, <2>1 DEF Sound, Follows
    <2>3. PICK w \in 0..7 :
            /\ Long(e.s, w)
            /\ b.s.regs = WithField(WithField(e.s.regs, gyro_power_mode, mode), gyro_auto_sleep_durn, w)
      BY <1>4, <2>1, <2>2
    <2>4. /\ b.s.regs[<<0, OPR_MODE>>] = e.s.regs[<<0, OPR_MODE>>]
          /\ [b.s.regs EXCEPT ![<<0, OPR_MODE>>] = s.regs[<<0, OPR_MODE>>]] =
               WithField(WithField(s.regs, gyro_power_mode, mode), gyro_auto_sleep_durn, w)
          /\ Stored(e.s, gyro_bw) = Stored(s, gyro_bw)
      <3>1. e.s \in Unit /\ b.s \in Unit /\ gyro_power_mode \in {gyro_bw, gyro_power_mode}
        BY <1>3, <1>4, <2>1
      <3>2. gyro_bw \in {gyro_bw, gyro_power_mode, gyro_auto_sleep_durn}
        OBVIOUS
      <3>3. /\ e.s.regs = WithField(s.regs, operation_mode, OPERATION_MODE_CONFIG)
            /\ b.s.regs = WithField(WithField(e.s.regs, gyro_power_mode, mode), gyro_auto_sleep_durn, w)
        BY <2>2, <2>3
      <3> HIDE DEF Long
      <3>4. ASSUME NEW u \in Unit, NEW v \in Unit, NEW f \in {gyro_bw, gyro_power_mode},
                   u.regs = WithField(s.regs, operation_mode, OPERATION_MODE_CONFIG),
                   v.regs = WithField(WithField(u.regs, f, mode), gyro_auto_sleep_durn, w)
            PROVE  /\ v.regs[<<0, OPR_MODE>>] = u.regs[<<0, OPR_MODE>>]
                   /\ [v.regs EXCEPT ![<<0, OPR_MODE>>] = s.regs[<<0, OPR_MODE>>]] =
                        WithField(WithField(s.regs, f, mode), gyro_auto_sleep_durn, w)
                   /\ Stored(u, gyro_bw) = Stored(s, gyro_bw)
        BY <3>2, <3>4, ModeSetAgain
      <3> QED BY <3>1, <3>3, <3>4, Zenon
    <2>5. o.s.regs = WithField(WithField(s.regs, gyro_power_mode, mode), gyro_auto_sleep_durn, w)
      BY <1>8, <1>9, <2>1, <2>4
    <2> QED BY <2>3, <2>4, <2>5
  <1>10. o.ok /\ o.s.faults = s.faults /\ s.page_id = s.page => o.s.page_id = o.s.page
    BY <1>8
  <1> QED BY <1>6, <1>7, <1>9, <1>10

-----------------------------------------------------------------------------
LEMMA set_axis_remap_valueSound ==
  ASSUME NEW s \in Unit, NEW v \in Nat, NEW o \in set_axis_remap_value(s, v)
  PROVE  LET w == IF v \in REMAP_VALUES THEN v ELSE DEFAULT_AXIS
         IN  /\ Sound(s, o) /\ o.s \in Unit
             /\ TriggerClear(s) /\ Reliable(o) /\ s.page_id = s.page =>
                  o.s.regs = WithField(s.regs, axis_remap_value, w)
  <1> DEFINE w == IF v \in REMAP_VALUES THEN v ELSE DEFAULT_AXIS
  <1>1. w \in Nat
    BY DEF DEFAULT_AXIS
  <1>2. axis_remap_value = [page |-> 0, reg |-> 65, pos |-> 0, len |-> 6, limit |-> 256, config |-> TRUE]
    BY DEF axis_remap_value, SystemSetting, Field, Unlimited
  <1>3. sys_rst.reg = 63
    BY DEF sys_rst, SystemControl, Field
  <1>4. Key(axis_remap_value) # <<0, SYS_TRIGGER>> /\ Key(axis_remap_value) # <<0, OPR_MODE>>
    BY <1>2 DEF Key, SYS_TRIGGER, OPR_MODE
  <1>5. IsSetting(axis_remap_value) /\ axis_remap_value # sys_rst
    BY <1>2, <1>3, <1>4 DEF IsSetting, IsSlice, PAGE_ID
  <1>6. o \in Set(s, axis_remap_value, w)
    BY DEF set_axis_remap_value
  <1> HIDE DEF w
  <1>7. /\ Sound(s, o) /\ o.s \in Unit
        /\ TriggerClear(s) /\ Reliable(o) /\ s.page_id = s.page => o.s.regs = WithField(s.regs, axis_remap_value, w)
    BY <1>1, <1>5, <1>6, SetSound
  <1> QED BY <1>7 DEF w

LEMMA read_page_idFollows ==
  ASSUME NEW s \in Unit, NEW o \in read_page_id(s)
  PROVE  /\ Follows(s, o) /\ o.s \in Unit /\ o.s.regs = s.regs
         /\ Reliable(o) => o.s.page_id = o.s.page
  <1>1. CASE s.null
    <2>1. o = Failed(s)
      BY <1>1 DEF read_page_id
    <2> QED BY <2>1, FailedOutcome DEF Keeps, Reliable
  <1>2. CASE ~s.null
    <2>1. PICK r \in BusRead(s, PAGE_ID) : o = WithPage(r, r.data)
      BY <1>2 DEF read_page_id
    <2>2. /\ Keeps(s, r) /\ r.s \in Unit /\ r.data \in Byte /\ r.s.regs = s.regs
          /\ r.ok /\ ~r.s.misread => r.data = Content(s, PAGE_ID)
      BY BusReadKeeps
    <2>3. CASE r.ok
      <3>1. o = [r EXCEPT !.s = [r.s EXCEPT !.page_id = r.data]]
        BY <2>1, <2>3 DEF WithPage
      <3>2. IsOutcome(r)
        BY <2>2 DEF Keeps, Follows
      <3>3. /\ IsOutcome(o) /\ o.s \in Unit /\ o.s.page_id = r.data /\ o.s.page = r.s.page /\ o.s.regs = r.s.regs
            /\ o.s.null = r.s.null /\ o.s.misread = r.s.misread /\ o.s.faults = r.s.faults
        <4>1. /\ [r.s EXCEPT !.page_id = r.data] \in Unit
              /\ [r.s EXCEPT !.page_id = r.data].page_id = r.data
              /\ [r.s EXCEPT !.page_id = r.data].page = r.s.page
              /\ [r.s EXCEPT !.page_id = r.data].regs = r.s.regs
              /\ [r.s EXCEPT !.page_id = r.data].null = r.s.null
              /\ [r.s EXCEPT !.page_id = r.data].misread = r.s.misread
              /\ [r.s EXCEPT !.page_id = r.data].faults = r.s.faults
          BY <2>2 DEF Unit
        <4>2. o.s = [r.s EXCEPT !.page_id = r.data] /\ o.ok = r.ok /\ o.data = r.data /\ DOMAIN o = DOMAIN r
          BY <3>1, <3>2 DEF IsOutcome
        <4>3. o \in [s : Unit, ok : BOOLEAN, data : {o.data}]
          BY <3>1, <3>2, <4>1, <4>2 DEF IsOutcome
        <4> QED BY <4>1, <4>2, <4>3 DEF IsOutcome
      <3>4. Content(s, PAGE_ID) = s.page
        BY DEF Content
      <3>5. Follows(s, o)
        BY <2>2, <3>3 DEF Keeps, Follows, TriggerClear
      <3> QED BY <2>2, <2>3, <3>3, <3>4, <3>5 DEF Keeps, Reliable
    <2>4. CASE ~r.ok
      <3>1. o = r
        BY <2>1, <2>4 DEF WithPage
      <3> QED BY <2>2, <2>4, <3>1 DEF Keeps, Reliable
    <2> QED BY <2>3, <2>4
  <1> QED BY <1>1, <1>2

-----------------------------------------------------------------------------
\* The outcomes of the transfers of bno055_init, from a unit that is bound.
Bound(s, O) ==
  \A o \in O : /\ Follows(s, o) /\ o.s \in Unit /\ o.s.regs = s.regs
               /\ o.s.faults = s.faults => o.ok

LEMMA AlsoReadBound ==
  ASSUME NEW s \in Unit, NEW O, Bound(s, O), NEW d
  PROVE  Bound(s, AlsoRead(O, d))
  <1> SUFFICES ASSUME NEW r \in AlsoRead(O, d)
               PROVE  /\ Follows(s, r) /\ r.s \in Unit /\ r.s.regs = s.regs
                      /\ r.s.faults = s.faults => r.ok
    BY DEF Bound
  <1>1. PICK o \in O : \E b \in BusRead(o.s, d.reg) : r = Also(o, b)
    BY DEF AlsoRead
  <1>2. PICK b \in BusRead(o.s, d.reg) : r = Also(o, b)
    BY <1>1
  <1>3. /\ Follows(s, o) /\ o.s \in Unit /\ o.s.regs = s.regs /\ IsOutcome(o)
        /\ o.s.faults = s.faults => o.ok
    BY DEF Bound, Follows
  <1>4. /\ Keeps(o.s, b) /\ b.s \in Unit /\ b.s.regs = o.s.regs /\ IsOutcome(b)
        /\ b.s.faults = o.s.faults => b.ok
    BY <1>3, BusReadKeeps DEF Keeps, Follows
  <1>5. o.ok \in BOOLEAN /\ b.ok \in BOOLEAN
    BY <1>3, <1>4 DEF IsOutcome
  <1>6. r.s = b.s /\ r.ok = (o.ok /\ b.ok) /\ IsOutcome(r)
    BY <1>2, <1>4, <1>5 DEF Also, IsOutcome
  <1>7. Follows(s, b)
    BY <1>3, <1>4, FollowsThenFollows DEF Keeps
  <1>8. r.s.faults = s.faults => r.ok
    <2>1. o.s.faults <= s.faults /\ b.s.faults <= o.s.faults
      BY <1>3, <1>4 DEF Keeps, Follows
    <2>2. s.faults \in Nat /\ o.s.faults \in Nat /\ b.s.faults \in Nat
      BY <1>3, <1>4 DEF Unit
    <2>3. b.s.faults = s.faults => o.s.faults = s.faults /\ b.s.faults = o.s.faults
      BY <2>1, <2>2
    <2> QED BY <1>3, <1>4, <1>6, <2>3
  <1> QED BY <1>3, <1>4, <1>6, <1>7, <1>8 DEF Follows

\* After bno055_init the copy of the page is what was read: right, if that was good.
LEMMA InitCoherent ==
  ASSUME NEW s \in Unit, NEW o \in init(s)
  PROVE  /\ IsOutcome(o) /\ o.s \in Unit /\ o.s.regs = s.regs /\ ~o.s.null
         /\ TriggerClear(s) => TriggerClear(o.s)
         /\ s.misread => o.s.misread
         /\ o.s.faults <= s.faults
         /\ o.s.faults = s.faults => o.ok
         /\ Reliable(o) => o.s.page_id = o.s.page
  <1> DEFINE bound == [s EXCEPT !.null = FALSE]
             none == BusWrite(bound, PAGE_ID, 0)
             accel == AlsoRead(AlsoRead(none, chip_id), accel_rev_id)
             gyro == AlsoRead(AlsoRead(accel, mag_rev_id), gyro_rev_id)
             all == AlsoRead(AlsoRead(gyro, bl_rev_id), sw_rev_id)
  <1>1. /\ bound \in Unit /\ ~bound.null /\ bound.regs = s.regs /\ bound.faults = s.faults
        /\ bound.misread = s.misread /\ (TriggerClear(s) => TriggerClear(bound))
    BY DEF Unit, TriggerClear
  <1> HIDE DEF bound
  <1>2. Bound(bound, none)
    <2> SUFFICES ASSUME NEW w \in none
                 PROVE  /\ Follows(bound, w) /\ w.s \in Unit /\ w.s.regs = bound.regs
                        /\ w.s.faults = bound.faults => w.ok
      BY DEF Bound
    <2>1. 0 \in Byte
      BY DEF Byte
    <2>2. /\ Follows(bound, w) /\ w.s \in Unit
          /\ w.s.faults = bound.faults => w.ok
          /\ w.s.regs \in {bound.regs, Written(bound, PAGE_ID, 0).regs}
      BY <1>1, <2>1, BusWriteOutcome
    <2>3. Written(bound, PAGE_ID, 0).regs = bound.regs
      BY <1>1 DEF Written, TurnPage, Unit
    <2> QED BY <2>2, <2>3
  <1> HIDE DEF none
  <1>3. Bound(bound, accel)
    <2>1. Bound(bound, AlsoRead(none, chip_id))
      BY <1>1, <1>2, AlsoReadBound
    <2> QED BY <1>1, <2>1, AlsoReadBound
  <1>4. Bound(bound, gyro)
    <2> HIDE DEF accel
    <2>1. Bound(bound, AlsoRead(accel, mag_rev_id))
      BY <1>1, <1>3, AlsoReadBound
    <2> QED BY <1>1, <2>1, AlsoReadBound
  <1>5. Bound(bound, all)
    <2> HIDE DEF gyro
    <2>1. Bound(bound, AlsoRead(gyro, bl_rev_id))
      BY <1>1, <1>4, AlsoReadBound
    <2> QED BY <1>1, <2>1, AlsoReadBound
  <1>6. PICK a \in all : \E r \in BusRead(a.s, PAGE_ID) : o = [Also(a, r) EXCEPT !.s.page_id = r.data]
    BY DEF init, none, bound
  <1>7. PICK r \in BusRead(a.s, PAGE_ID) : o = [Also(a, r) EXCEPT !.s.page_id = r.data]
    BY <1>6
  <1> HIDE DEF all
  <1>8. /\ Follows(bound, a) /\ a.s \in Unit /\ a.s.regs = bound.regs /\ IsOutcome(a)
        /\ a.s.faults = bound.faults => a.ok
    BY <1>5 DEF Bound, Follows
  <1>9. /\ Keeps(a.s, r) /\ r.s \in Unit /\ r.data \in Byte /\ r.s.regs = a.s.regs /\ IsOutcome(r)
        /\ r.ok /\ ~r.s.misread => r.data = a.s.page
        /\ r.s.faults = a.s.faults => r.ok
    <2>1. Content(a.s, PAGE_ID) = a.s.page
      BY DEF Content
    <2> QED BY <1>8, <2>1, BusReadKeeps DEF Keeps, Follows
  <1>10. /\ [r.s EXCEPT !.page_id = r.data] \in Unit
         /\ [r.s EXCEPT !.page_id = r.data].page_id = r.data
         /\ [r.s EXCEPT !.page_id = r.data].page = r.s.page
         /\ [r.s EXCEPT !.page_id = r.data].regs = r.s.regs
         /\ [r.s EXCEPT !.page_id = r.data].null = r.s.null
         /\ [r.s EXCEPT !.page_id = r.data].misread = r.s.misread
         /\ [r.s EXCEPT !.page_id = r.data].faults = r.s.faults
    BY <1>9 DEF Unit
  <1>11. o.s = [r.s EXCEPT !.page_id = r.data] /\ o.ok = (a.ok /\ r.ok) /\ IsOutcome(o)
    <2>1. a.ok \in BOOLEAN /\ r.ok \in BOOLEAN
      BY <1>8, <1>9 DEF IsOutcome
    <2> DEFINE both == [r EXCEPT !.ok = a.ok /\ r.ok]
    <2>2. both.s = r.s /\ both.ok = (a.ok /\ r.ok) /\ IsOutcome(both)
      BY <1>9, <2>1 DEF IsOutcome
    <2>3. o = [both EXCEPT !.s = [both.s EXCEPT !.page_id = r.data]]
      BY <1>7 DEF Also
    <2> HIDE DEF both
    <2>4. o.s = [both.s EXCEPT !.page_id = r.data] /\ o.ok = both.ok /\ o.data = both.data
      BY <2>2, <2>3 DEF IsOutcome
    <2>5. o \in [s : Unit, ok : BOOLEAN, data : {o.data}]
      BY <1>10, <2>2, <2>3, <2>4 DEF IsOutcome
    <2> QED BY <2>2, <2>4, <2>5 DEF IsOutcome
  <1>12. o.s.faults <= s.faults /\ (o.s.faults = s.faults => o.ok)
    <2>1. a.s.faults <= bound.faults /\ r.s.faults <= a.s.faults
      BY <1>8, <1>9 DEF Keeps, Follows
    <2>2. s.faults \in Nat /\ a.s.faults \in Nat /\ r.s.faults \in Nat
      BY <1>8, <1>9 DEF Unit
    <2>3. r.s.faults <= s.faults /\ (r.s.faults = s.faults => a.s.faults = bound.faults /\ r.s.faults = a.s.faults)
      BY <1>1, <2>1, <2>2
    <2> QED BY <1>8, <1>9, <1>10, <1>11, <2>3
  <1>13. TriggerClear(s) => TriggerClear(o.s)
    BY <1>1, <1>8, <1>9, <1>10, <1>11 DEF TriggerClear
  <1> QED BY <1>1, <1>8, <1>9, <1>10, <1>11, <1>12, <1>13 DEF Keeps, Follows, Reliable

-----------------------------------------------------------------------------
(***************************************************************************)
(* What a function alters, whatever its result, as long as no byte was     *)
(* misread: the settings it is about, and the mode, which it may not have  *)
(* been able to set again.                                                 *)
(***************************************************************************)
Leaves(a, b) == \A r \in Registers \ {<<0, OPR_MODE>>} : b[r] = a[r]

LEMMA LeavesThenLeaves ==
  ASSUME NEW a, NEW b, NEW c, Leaves(a, b), Leaves(b, c)
  PROVE  Leaves(a, c)
  BY DEF Leaves

LEMMA LeavesField ==
  ASSUME NEW a, NEW b, Leaves(a, b), NEW f, NEW v
  PROVE  Leaves(WithField(a, f, v), WithField(b, f, v))
  BY DEF Leaves, WithField

\* A setting that is alone in the sensor at its address.
IsAlone(f) == IsSetting(f) /\ f # sys_rst /\ OwnAddress(f)

LEMMA OperationModeAlone == IsAlone(operation_mode)
  <1>1. Key(operation_mode) = <<0, 61>> /\ operation_mode.reg = 61
    BY OperationModeSetting DEF OPR_MODE, Key, operation_mode, SystemControl, Field
  <1>2. OwnAddress(operation_mode)
    BY <1>1 DEF OwnAddress, SettableRegisters
  <1> QED BY <1>2, OperationModeSetting DEF IsAlone

LEMMA UpdateAlters ==
  ASSUME NEW s \in Unit, TriggerClear(s), NEW f, IsAlone(f), NEW v \in Nat,
         NEW o \in Update(s, f, v), ~o.s.misread
  PROVE  o.s.regs \in {s.regs, WithField(s.regs, f, v)}
  <1>0. IsSetting(f) /\ f # sys_rst /\ OwnAddress(f) /\ IsSlice(f) /\ f.reg # PAGE_ID
    BY DEF IsAlone, IsSetting
  <1>1. PICK r \in BusRead(s, f.reg) :
          o \in IF r.ok THEN BusWrite(r.s, f.reg, SetSlice(r.data, f, v)) ELSE {Failed(r.s)}
    BY DEF Update
  <1>2. /\ r.s \in Unit /\ r.data \in Byte /\ r.s.regs = s.regs
        /\ r.ok /\ ~r.s.misread => r.s = s /\ r.data = Content(s, f.reg)
    BY BusReadKeeps
  <1>3. SetSlice(r.data, f, v) \in Byte
    BY <1>0, <1>2, SetSliceByte
  <1>4. CASE r.ok
    <2> DEFINE key == <<s.page, f.reg>>
               byte == SetSlice(r.data, f, v)
    <2>1. o.s.misread = r.s.misread /\ o.s.regs \in {r.s.regs, Written(r.s, f.reg, byte).regs}
      BY <1>1, <1>2, <1>3, <1>4, BusWriteOutcome
    <2>2. r.s = s /\ r.data = Content(s, f.reg)
      BY <1>2, <1>4, <2>1
    <2>3. key \in SettableRegisters => s.page = f.page /\ key = Key(f)
      BY <1>0 DEF OwnAddress, Key
    <2>4. ~(key = <<0, SYS_TRIGGER>> /\ Slice(byte, sys_rst) = 1)
      <3> SUFFICES ASSUME key = <<0, SYS_TRIGGER>> PROVE Slice(byte, sys_rst) # 1
        OBVIOUS
      <3>1. <<0, SYS_TRIGGER>> \in SettableRegisters
        BY DEF SettableRegisters, SYS_TRIGGER
      <3>2. s.page = f.page /\ Key(f) = <<0, SYS_TRIGGER>>
        BY <2>3, <3>1
      <3>3. r.data = Stored(s, f)
        BY <1>0, <2>2, <3>2, ContentStored
      <3>4. Slice(SetSlice(Stored(s, f), f, v), sys_rst) # 1
        BY <1>0, <3>2, TriggerStays
      <3> QED BY <3>3, <3>4
    <2>5. \/ Written(s, f.reg, byte).regs = s.regs
          \/ key \in Registers /\ Written(s, f.reg, byte).regs = [s.regs EXCEPT ![key] = byte]
      BY <1>0, <2>4, WrittenAt
    <2>6. ASSUME key \in Registers PROVE [s.regs EXCEPT ![key] = byte] = WithField(s.regs, f, v)
      <3>1. key = Key(f) /\ s.page = f.page
        BY <2>3, <2>6, RegistersAssumption
      <3>2. r.data = s.regs[key]
        BY <1>0, <2>2, <2>6, <3>1, ContentStored DEF Stored
      <3>3. s.regs \in [Registers -> Byte]
        BY DEF Unit
      <3> QED BY <3>1, <3>2, <3>3 DEF WithField
    <2> HIDE DEF key, byte
    <2> QED BY <2>1, <2>2, <2>5, <2>6
  <1>5. CASE ~r.ok
    <2>1. o.s = r.s
      BY <1>1, <1>2, <1>5, FailedOutcome
    <2> QED BY <1>2, <2>1
  <1> QED BY <1>4, <1>5

LEMMA UpdateModeLeaves ==
  ASSUME NEW s \in Unit, TriggerClear(s), NEW v \in Nat, NEW o \in Update(s, operation_mode, v), ~o.s.misread
  PROVE  Leaves(s.regs, o.s.regs)
  <1>1. o.s.regs \in {s.regs, WithField(s.regs, operation_mode, v)}
    BY OperationModeAlone, UpdateAlters
  <1>2. Key(operation_mode) = <<0, OPR_MODE>>
    BY OperationModeSetting
  <1> QED BY <1>1, <1>2 DEF Leaves, WithField

LEMMA set_operation_modeLeaves ==
  ASSUME NEW s \in Unit, TriggerClear(s), NEW mode \in Nat, NEW o \in set_operation_mode(s, mode), ~o.s.misread
  PROVE  Leaves(s.regs, o.s.regs)
  <1>0. OPERATION_MODE_CONFIG \in Nat /\ operation_mode.page \in Byte
    BY OperationModeSetting DEF OPERATION_MODE_CONFIG, Byte
  <1>1. PICK g \in Get(s, operation_mode) :
          o \in IF ~g.ok THEN {Failed(g.s)}
                ELSE IF OPERATION_MODE_CONFIG \in {g.data, mode} THEN Update(g.s, operation_mode, mode)
                ELSE UNION {Update(c.s, operation_mode, mode) :
                            c \in Update(g.s, operation_mode, OPERATION_MODE_CONFIG)}
    BY DEF set_operation_mode
  <1>2. g.s \in Unit /\ g.s.regs = s.regs /\ TriggerClear(g.s)
    BY <1>0, OperationModeSetting, GetSound DEF Sound, Follows
  <1>3. CASE o = Failed(g.s)
    BY <1>2, <1>3, FailedOutcome DEF Leaves
  <1>4. CASE o \in Update(g.s, operation_mode, mode)
    BY <1>2, <1>4, UpdateModeLeaves
  <1>5. CASE \E c \in Update(g.s, operation_mode, OPERATION_MODE_CONFIG) : o \in Update(c.s, operation_mode, mode)
    <2>1. PICK c \in Update(g.s, operation_mode, OPERATION_MODE_CONFIG) : o \in Update(c.s, operation_mode, mode)
      BY <1>5
    <2>2. Keeps(g.s, c) /\ c.s \in Unit
      BY <1>0, <1>2, OperationModeSetting, UpdateKeeps
    <2>3. Keeps(c.s, o)
      BY <2>1, <2>2, OperationModeSetting, UpdateKeeps
    <2>4. ~c.s.misread /\ TriggerClear(c.s)
      BY <1>2, <2>2, <2>3 DEF Keeps, Follows
    <2>5. Leaves(g.s.regs, c.s.regs)
      BY <1>0, <1>2, <2>4, UpdateModeLeaves
    <2>6. Leaves(c.s.regs, o.s.regs)
      BY <2>1, <2>2, <2>4, UpdateModeLeaves
    <2> QED BY <1>2, <2>5, <2>6, LeavesThenLeaves
  <1> QED BY <1>1, <1>3, <1>4, <1>5

LEMMA EnterConfigLeaves ==
  ASSUME NEW s \in Unit, TriggerClear(s), NEW o \in EnterConfig(s), ~o.s.misread
  PROVE  Leaves(s.regs, o.s.regs)
  <1>0. OPERATION_MODE_CONFIG \in Nat /\ operation_mode.page \in Byte
    BY OperationModeSetting DEF OPERATION_MODE_CONFIG, Byte
  <1>1. PICK g \in Get(s, operation_mode) :
          o \in IF ~g.ok \/ g.data = OPERATION_MODE_CONFIG THEN {g}
                ELSE {[c EXCEPT !.data = g.data] : c \in set_operation_mode(g.s, OPERATION_MODE_CONFIG)}
    BY DEF EnterConfig
  <1>2. g.s \in Unit /\ g.s.regs = s.regs /\ TriggerClear(g.s)
    BY <1>0, OperationModeSetting, GetSound DEF Sound, Follows
  <1>3. CASE o = g
    BY <1>2, <1>3 DEF Leaves
  <1>4. CASE \E c \in set_operation_mode(g.s, OPERATION_MODE_CONFIG) : o = [c EXCEPT !.data = g.data]
    <2>1. PICK c \in set_operation_mode(g.s, OPERATION_MODE_CONFIG) : o = [c EXCEPT !.data = g.data]
      BY <1>4
    <2>2. IsOutcome(c)
      BY <1>0, <1>2, set_operation_modeSound DEF Sound, Follows
    <2>3. o.s = c.s
      BY <2>1, <2>2 DEF IsOutcome
    <2> QED BY <1>0, <1>2, <2>1, <2>3, set_operation_modeLeaves
  <1> QED BY <1>1, <1>3, <1>4

LEMMA RestoreLeaves ==
  ASSUME NEW b, b.s \in Unit, TriggerClear(b.s), NEW prev \in Nat, NEW o \in Restore(b, prev), ~o.s.misread
  PROVE  Leaves(b.s.regs, o.s.regs) /\ ~b.s.misread
  <1>1. CASE o = b
    BY <1>1 DEF Leaves
  <1>2. CASE \E r \in set_operation_mode(b.s, prev) : o = Also(b, r)
    <2>1. PICK r \in set_operation_mode(b.s, prev) : o = Also(b, r)
      BY <1>2
    <2>2. Follows(b.s, r) /\ IsOutcome(r)
      BY set_operation_modeSound DEF Sound, Follows
    <2>3. o.s = r.s
      BY <2>1, <2>2 DEF Also, IsOutcome
    <2>4. ~b.s.misread
      BY <2>2, <2>3 DEF Follows
    <2> QED BY <2>3, <2>4, set_operation_modeLeaves
  <1> QED BY <1>1, <1>2 DEF Restore

\* What a function does between leaving the mode and setting it again is all it alters.
LEMMA InConfigLeaves ==
  ASSUME NEW s \in Unit, TriggerClear(s), NEW e \in EnterConfig(s), NEW b, Follows(e.s, b),
         NEW o \in Restore(b, e.data), ~o.s.misread
  PROVE  /\ Leaves(s.regs, e.s.regs) /\ Leaves(b.s.regs, o.s.regs)
         /\ ~b.s.misread /\ e.s \in Unit /\ TriggerClear(e.s)
  <1>1. e.s \in Unit /\ e.data \in Nat /\ TriggerClear(e.s)
    BY EnterConfigSound DEF Sound, Follows
  <1>2. b.s \in Unit /\ TriggerClear(b.s)
    BY <1>1 DEF Follows, IsOutcome
  <1>3. Leaves(b.s.regs, o.s.regs) /\ ~b.s.misread
    BY <1>1, <1>2, RestoreLeaves
  <1>4. ~e.s.misread
    BY <1>3 DEF Follows
  <1> QED BY <1>1, <1>3, <1>4, EnterConfigLeaves

-----------------------------------------------------------------------------
LEMMA UpdateOnPageAlters ==
  ASSUME NEW s \in Unit, TriggerClear(s), NEW f, IsAlone(f), NEW v \in Nat,
         NEW o \in UpdateOnPage(s, f, v), ~o.s.misread
  PROVE  o.s.regs = s.regs \/ (v < f.limit /\ o.s.regs = WithField(s.regs, f, v))
  <1>1. PICK p \in OnThePage(s, f.page) :
          o \in IF p.ok /\ v < f.limit THEN Update(p.s, f, v) ELSE {Failed(p.s)}
    BY DEF UpdateOnPage
  <1>2. p.s \in Unit /\ p.s.regs = s.regs /\ TriggerClear(p.s)
    BY OnThePageSound DEF IsAlone, IsSetting, Sound, Follows
  <1>3. CASE o \in Update(p.s, f, v) /\ v < f.limit
    BY <1>2, <1>3, UpdateAlters
  <1>4. CASE o = Failed(p.s)
    BY <1>2, <1>4, FailedOutcome
  <1> QED BY <1>1, <1>3, <1>4

LEMMA SetAlters ==
  ASSUME NEW s \in Unit, TriggerClear(s), NEW f, IsAlone(f), NEW v \in Nat,
         NEW o \in Set(s, f, v), ~o.s.misread
  PROVE  \/ Leaves(s.regs, o.s.regs)
         \/ (f.config => v < f.limit) /\ Leaves(WithField(s.regs, f, v), o.s.regs)
  <1>0. IsSetting(f) /\ IsSlice(f) /\ f.reg # PAGE_ID /\ f.page \in Byte
    BY DEF IsAlone, IsSetting, Byte
  <1>1. CASE f.config
    <2>1. PICK e \in EnterConfig(s) :
            \E b \in (IF e.ok THEN UpdateOnPage(e.s, f, v) ELSE {Failed(e.s)}) : o \in Restore(b, e.data)
      BY <1>1, SetInConfig
    <2>2. PICK b \in IF e.ok THEN UpdateOnPage(e.s, f, v) ELSE {Failed(e.s)} : o \in Restore(b, e.data)
      BY <2>1
    <2>3. e.s \in Unit
      BY EnterConfigSound
    <2>4. Follows(e.s, b)
      BY <1>0, <2>2, <2>3, UpdateOnPageSound, FailedOutcome DEF Sound, Keeps
    <2>5. /\ Leaves(s.regs, e.s.regs) /\ Leaves(b.s.regs, o.s.regs)
          /\ ~b.s.misread /\ TriggerClear(e.s)
      BY <2>2, <2>4, InConfigLeaves
    <2>6. b.s.regs = e.s.regs \/ (v < f.limit /\ b.s.regs = WithField(e.s.regs, f, v))
      <3>1. CASE e.ok
        BY <2>2, <2>3, <2>5, <3>1, UpdateOnPageAlters
      <3>2. CASE ~e.ok
        BY <2>2, <2>3, <3>2, FailedOutcome
      <3> QED BY <3>1, <3>2
    <2>7. Leaves(WithField(s.regs, f, v), WithField(e.s.regs, f, v))
      BY <2>5, LeavesField
    <2> QED BY <2>5, <2>6, <2>7, LeavesThenLeaves
  <1>2. CASE ~f.config
    <2>1. PICK p \in PageReady(s, f.page) : o \in IF p.ok THEN Update(p.s, f, v) ELSE {Failed(p.s)}
      BY <1>2 DEF Set
    <2>2. p.s \in Unit /\ p.s.regs = s.regs /\ TriggerClear(p.s)
      BY <1>0, PageReadySound DEF Sound, Follows
    <2>3. o.s.regs \in {s.regs, WithField(s.regs, f, v)}
      BY <2>1, <2>2, UpdateAlters, FailedOutcome
    <2> QED BY <1>2, <2>3 DEF Leaves
  <1> QED BY <1>1, <1>2

LEMMA WriteBytesAlters ==
  ASSUME NEW s \in Unit, TriggerClear(s), NEW regs \in Calibrations, NEW v \in Byte,
         NEW o \in WriteBytes(s, regs, v), ~o.s.misread
  PROVE  \A q \in Registers \ {<<0, OPR_MODE>>} :
           o.s.regs[q] = s.regs[q] \/ (q \in {0} \X Values(regs) /\ o.s.regs[q] = v)
  <1>1. PICK e \in EnterConfig(s) :
          \E b \in (IF e.ok THEN UpdateBytes(e.s, regs, v) ELSE {Failed(e.s)}) : o \in Restore(b, e.data)
    BY WriteBytesParts
  <1>2. PICK b \in IF e.ok THEN UpdateBytes(e.s, regs, v) ELSE {Failed(e.s)} : o \in Restore(b, e.data)
    BY <1>1
  <1>3. e.s \in Unit
    BY EnterConfigSound
  <1>4. /\ Follows(e.s, b)
        /\ \A q \in Registers : b.s.regs[q] = e.s.regs[q] \/ (q \in {0} \X Values(regs) /\ b.s.regs[q] = v)
    <2>1. CASE e.ok
      <3>1. Writes(e.s, UpdateBytes(e.s, regs, v), Values(regs), v)
        BY <1>3, UpdateBytesWrites
      <3> QED BY <1>2, <2>1, <3>1 DEF Writes, Keeps
    <2>2. CASE ~e.ok
      BY <1>2, <1>3, <2>2, FailedOutcome DEF Keeps
    <2> QED BY <2>1, <2>2
  <1>5. Leaves(s.regs, e.s.regs) /\ Leaves(b.s.regs, o.s.regs)
    BY <1>2, <1>4, InConfigLeaves
  <1> QED BY <1>4, <1>5 DEF Leaves

LEMMA ConvertAlters ==
  ASSUME NEW s \in Unit, TriggerClear(s), NEW c, IsConversion(c), NEW o \in Convert(s, c), ~o.s.misread
  PROVE  \/ Leaves(s.regs, o.s.regs)
         \/ c.checked /\ Leaves(WithField(s.regs, c.unit, c.wanted), o.s.regs)
  <1>1. PICK u \in UnitReady(s, c) : o \in IF u.ok THEN ReadData(u.s, c.data) ELSE {NotSampled(u.s)}
    BY DEF Convert
  <1>2. u.s \in Unit /\ Follows(s, u)
    BY UnitReadySound DEF Sound
  <1>3. o.s.regs = u.s.regs /\ ~u.s.misread
    <2>1. CASE o \in ReadData(u.s, c.data)
      BY <1>2, <2>1, ReadDataSound DEF Sound, Follows
    <2>2. CASE o = NotSampled(u.s)
      BY <2>2 DEF NotSampled, Outcome
    <2> QED BY <1>1, <2>1, <2>2
  <1>4. CASE ~c.checked
    <2>1. u = Outcome(s, TRUE, 0)
      BY <1>4 DEF UnitReady
    <2> QED BY <1>3, <2>1 DEF Outcome, Leaves
  <1>5. CASE c.checked
    <2> DEFINE f == c.unit
               w == c.wanted
    <2>0. IsSlice(f) /\ f.page \in Byte /\ w \in Nat /\ IsAlone(f)
      <3>1. Key(f) = <<0, UNIT_SEL>> /\ IsSetting(f)
        BY <1>5 DEF IsConversion
      <3>2. OwnAddress(f)
        BY <3>1 DEF OwnAddress, SettableRegisters, Key, UNIT_SEL
      <3> QED BY <1>5, <3>1, <3>2, ConversionUnit DEF IsAlone
    <2>1. PICK g \in Get(s, f) :
            u \in IF g.data = w THEN {g} ELSE {[x EXCEPT !.ok = x.ok /\ (g.ok \/ c.masked)] : x \in Set(g.s, f, w)}
      BY <1>5 DEF UnitReady
    <2> HIDE DEF f, w
    <2>2. g.s \in Unit /\ g.s.regs = s.regs /\ TriggerClear(g.s)
      BY <2>0, GetSound DEF Sound, Follows
    <2>3. CASE u = g
      BY <1>3, <2>2, <2>3 DEF Leaves
    <2>4. CASE \E x \in Set(g.s, f, w) : u = [x EXCEPT !.ok = x.ok /\ (g.ok \/ c.masked)]
      <3>1. PICK x \in Set(g.s, f, w) : u = [x EXCEPT !.ok = x.ok /\ (g.ok \/ c.masked)]
        BY <2>4
      <3>2. IsOutcome(x)
        BY <2>0, <2>2, SetSound DEF IsAlone, Sound, Follows
      <3>3. u.s = x.s
        BY <3>1, <3>2 DEF IsOutcome
      <3>4. Leaves(g.s.regs, x.s.regs) \/ Leaves(WithField(g.s.regs, f, w), x.s.regs)
        BY <1>3, <2>0, <2>2, <3>3, SetAlters
      <3> QED BY <1>3, <1>5, <2>2, <3>3, <3>4 DEF f, w
    <2> QED BY <2>1, <2>3, <2>4
  <1> QED BY <1>4, <1>5

-----------------------------------------------------------------------------
\* The gyroscope: only the auto sleep may have been altered along with what is set.
MaySleep(a, b) ==
  Leaves(a, b) \/ \E w \in 0..7 : Leaves(WithField(a, gyro_auto_sleep_durn, w), b)

LEMMA MaySleepLeaves ==
  ASSUME NEW a, NEW b, NEW c
  PROVE  /\ Leaves(a, b) /\ MaySleep(b, c) => MaySleep(a, c)
         /\ MaySleep(a, b) /\ Leaves(b, c) => MaySleep(a, c)
  <1>1. ASSUME Leaves(a, b), MaySleep(b, c) PROVE MaySleep(a, c)
    <2>1. CASE Leaves(b, c)
      BY <1>1, <2>1, LeavesThenLeaves DEF MaySleep
    <2>2. CASE \E w \in 0..7 : Leaves(WithField(b, gyro_auto_sleep_durn, w), c)
      <3>1. PICK w \in 0..7 : Leaves(WithField(b, gyro_auto_sleep_durn, w), c)
        BY <2>2
      <3>2. Leaves(WithField(a, gyro_auto_sleep_durn, w), WithField(b, gyro_auto_sleep_durn, w))
        BY <1>1, LeavesField
      <3>3. Leaves(WithField(a, gyro_auto_sleep_durn, w), c)
        BY <3>1, <3>2, LeavesThenLeaves
      <3> QED BY <3>3 DEF MaySleep
    <2> QED BY <1>1, <2>1, <2>2 DEF MaySleep
  <1>2. ASSUME MaySleep(a, b), Leaves(b, c) PROVE MaySleep(a, c)
    <2>1. \A d : Leaves(d, b) => Leaves(d, c)
      BY <1>2, LeavesThenLeaves
    <2> QED BY <1>2, <2>1 DEF MaySleep
  <1> QED BY <1>1, <1>2

\* The auto sleep and the other two settings are in different registers.
LEMMA MaySleepField ==
  ASSUME NEW a, NEW b, MaySleep(a, b), NEW f \in {gyro_bw, gyro_power_mode}, NEW v
  PROVE  MaySleep(WithField(a, f, v), WithField(b, f, v))
  <1>1. CASE Leaves(a, b)
    BY <1>1, LeavesField DEF MaySleep
  <1>2. CASE \E w \in 0..7 : Leaves(WithField(a, gyro_auto_sleep_durn, w), b)
    <2> DEFINE d == gyro_auto_sleep_durn
    <2>1. PICK w \in 0..7 : Leaves(WithField(a, d, w), b)
      BY <1>2
    <2>2. Key(f) # Key(d)
      BY GyroSettings
    <2> HIDE DEF d
    <2>3. WithField(WithField(a, d, w), f, v) = WithField(WithField(a, f, v), d, w)
      BY <2>2 DEF WithField
    <2>4. Leaves(WithField(WithField(a, d, w), f, v), WithField(b, f, v))
      BY <2>1, LeavesField
    <2> QED BY <2>3, <2>4 DEF MaySleep, d
  <1> QED BY <1>1, <1>2 DEF MaySleep

LEMMA GyroSettingsAlone ==
  \A f \in {gyro_bw, gyro_power_mode, gyro_auto_sleep_durn} : IsAlone(f)
  <1>1. /\ gyro_bw.page = 1 /\ gyro_bw.reg = 10
        /\ gyro_power_mode.page = 1 /\ gyro_power_mode.reg = 11
        /\ gyro_auto_sleep_durn.page = 1 /\ gyro_auto_sleep_durn.reg = 13
    BY DEF gyro_bw, gyro_power_mode, gyro_auto_sleep_durn, LimitedSetting, Field
  <1>2. \A f \in {gyro_bw, gyro_power_mode, gyro_auto_sleep_durn} : OwnAddress(f)
    BY <1>1 DEF OwnAddress, SettableRegisters, Key
  <1> QED BY <1>2, GyroSettings DEF IsAlone

LEMMA AutoSleepAlters ==
  ASSUME NEW s \in Unit, TriggerClear(s), NEW durn \in Nat, NEW bw,
         NEW o \in gyro_set_auto_sleep_durn(s, durn, bw), ~o.s.misread
  PROVE  \/ Leaves(s.regs, o.s.regs)
         \/ \E w \in 0..7 : w >= durn /\ Leaves(WithField(s.regs, gyro_auto_sleep_durn, w), o.s.regs)
  <1> DEFINE w == IF durn > MinimumAutoSleep(bw) THEN durn ELSE MinimumAutoSleep(bw)
  <1>1. w \in Nat /\ w >= durn
    BY MinimumType
  <1>2. o \in Set(s, gyro_auto_sleep_durn, w)
    BY DEF gyro_set_auto_sleep_durn
  <1> HIDE DEF w
  <1>3. \/ Leaves(s.regs, o.s.regs)
        \/ w < 8 /\ Leaves(WithField(s.regs, gyro_auto_sleep_durn, w), o.s.regs)
    BY <1>1, <1>2, GyroSettings, GyroSettingsAlone, SetAlters
  <1>4. w < 8 => w \in 0..7
    BY <1>1
  <1> QED BY <1>1, <1>3, <1>4

LEMMA AutoSleepMaySleep ==
  ASSUME NEW s \in Unit, TriggerClear(s), NEW durn \in Nat, NEW bw,
         NEW o \in gyro_set_auto_sleep_durn(s, durn, bw), ~o.s.misread
  PROVE  MaySleep(s.regs, o.s.regs)
  BY AutoSleepAlters DEF MaySleep

LEMMA AfterBandwidthAlters ==
  ASSUME NEW s \in Unit, TriggerClear(s), NEW bw, NEW o \in AfterBandwidth(s, bw), ~o.s.misread
  PROVE  MaySleep(s.regs, o.s.regs)
  <1>0. \A f \in {gyro_power_mode, gyro_auto_sleep_durn} : IsSlice(f) /\ f.page \in Byte
    BY GyroSettings
  <1>1. PICK m \in Get(s, gyro_power_mode) : o = m \/ o \in AdjustAutoSleep(m.s, bw)
    BY DEF AfterBandwidth
  <1>2. m.s \in Unit /\ m.s.regs = s.regs /\ TriggerClear(m.s)
    BY <1>0, GetSound DEF Sound, Follows
  <1>3. CASE o = m
    BY <1>2, <1>3 DEF MaySleep, Leaves
  <1>4. CASE o \in AdjustAutoSleep(m.s, bw)
    <2>1. PICK d \in Get(m.s, gyro_auto_sleep_durn) : o = d \/ o \in gyro_set_auto_sleep_durn(d.s, d.data, bw)
      BY <1>4 DEF AdjustAutoSleep
    <2>2. d.s \in Unit /\ d.s.regs = s.regs /\ TriggerClear(d.s) /\ d.data \in Nat
      BY <1>0, <1>2, GetSound DEF Sound, Follows
    <2>3. CASE o = d
      BY <2>2, <2>3 DEF MaySleep, Leaves
    <2>4. CASE o \in gyro_set_auto_sleep_durn(d.s, d.data, bw)
      BY <2>2, <2>4, AutoSleepMaySleep
    <2> QED BY <2>1, <2>3, <2>4
  <1> QED BY <1>1, <1>3, <1>4

LEMMA BandwidthOnPageAlters ==
  ASSUME NEW s \in Unit, TriggerClear(s), NEW bw \in Nat, NEW o \in BandwidthOnPage(s, bw), ~o.s.misread
  PROVE  MaySleep(s.regs, o.s.regs) \/ MaySleep(WithField(s.regs, gyro_bw, bw), o.s.regs)
  <1>1. PICK p \in OnThePage(s, 1) :
          o \in IF p.ok /\ bw < gyro_bw.limit
                THEN UNION {AfterBandwidth(w.s, bw) : w \in Update(p.s, gyro_bw, bw)} ELSE {Failed(p.s)}
    BY DEF BandwidthOnPage
  <1>2. p.s \in Unit /\ p.s.regs = s.regs /\ TriggerClear(p.s)
    BY OnThePageSound DEF Sound, Follows
  <1>3. CASE o = Failed(p.s)
    BY <1>2, <1>3, FailedOutcome DEF MaySleep, Leaves
  <1>4. CASE \E w \in Update(p.s, gyro_bw, bw) : o \in AfterBandwidth(w.s, bw)
    <2>1. PICK w \in Update(p.s, gyro_bw, bw) : o \in AfterBandwidth(w.s, bw)
      BY <1>4
    <2>2. Keeps(p.s, w) /\ w.s \in Unit
      BY <1>2, GyroSettings, UpdateKeeps
    <2>3. Follows(w.s, o)
      BY <2>1, <2>2, AfterBandwidthSound DEF Sound
    <2>4. ~w.s.misread /\ TriggerClear(w.s)
      BY <1>2, <2>2, <2>3 DEF Keeps, Follows
    <2>5. w.s.regs \in {s.regs, WithField(s.regs, gyro_bw, bw)}
      BY <1>2, <2>1, <2>4, GyroSettingsAlone, UpdateAlters
    <2>6. MaySleep(w.s.regs, o.s.regs)
      BY <2>1, <2>2, <2>4, AfterBandwidthAlters
    <2> QED BY <2>5, <2>6
  <1> QED BY <1>1, <1>3, <1>4

LEMMA set_gyro_bwAlters ==
  ASSUME NEW s \in Unit, TriggerClear(s), NEW bw \in Nat, NEW o \in set_gyro_bw(s, bw), ~o.s.misread
  PROVE  MaySleep(s.regs, o.s.regs) \/ MaySleep(WithField(s.regs, gyro_bw, bw), o.s.regs)
  <1>1. PICK e \in EnterConfig(s) :
          \E b \in (IF e.ok THEN BandwidthOnPage(e.s, bw) ELSE {Failed(e.s)}) : o \in Restore(b, e.data)
    BY set_gyro_bwParts
  <1>2. PICK b \in IF e.ok THEN BandwidthOnPage(e.s, bw) ELSE {Failed(e.s)} : o \in Restore(b, e.data)
    BY <1>1
  <1>3. e.s \in Unit
    BY EnterConfigSound
  <1>4. Follows(e.s, b)
    BY <1>2, <1>3, BandwidthOnPageSound, FailedOutcome DEF Sound, Keeps
  <1>5. /\ Leaves(s.regs, e.s.regs) /\ Leaves(b.s.regs, o.s.regs)
        /\ ~b.s.misread /\ TriggerClear(e.s)
    BY <1>2, <1>4, InConfigLeaves
  <1>6. MaySleep(e.s.regs, b.s.regs) \/ MaySleep(WithField(e.s.regs, gyro_bw, bw), b.s.regs)
    <2>1. CASE e.ok
      BY <1>2, <1>3, <1>5, <2>1, BandwidthOnPageAlters
    <2>2. CASE ~e.ok
      BY <1>2, <1>3, <2>2, FailedOutcome DEF MaySleep, Leaves
    <2> QED BY <2>1, <2>2
  <1>7. Leaves(WithField(s.regs, gyro_bw, bw), WithField(e.s.regs, gyro_bw, bw))
    BY <1>5, LeavesField
  <1> QED BY <1>5, <1>6, <1>7, MaySleepLeaves

-----------------------------------------------------------------------------
LEMMA BeforeAdvancedAlters ==
  ASSUME NEW s \in Unit, TriggerClear(s), NEW o \in BeforeAdvanced(s), ~o.s.misread
  PROVE  MaySleep(s.regs, o.s.regs)
  <1>0. /\ \A f \in {gyro_bw, gyro_auto_sleep_durn} : IsSlice(f) /\ f.page \in Byte
        /\ 1 \in Byte
    BY GyroSettings DEF Byte
  <1>1. PICK b \in Get(s, gyro_bw) :
          o \in UNION {UNION {write_page_id(a.s, 1) :
              a \in IF b.ok /\ d.ok THEN gyro_set_auto_sleep_durn(d.s, d.data, b.data) ELSE {d}} :
              d \in Get(b.s, gyro_auto_sleep_durn)}
    BY DEF BeforeAdvanced
  <1>2. PICK d \in Get(b.s, gyro_auto_sleep_durn) :
          o \in UNION {write_page_id(a.s, 1) :
            a \in IF b.ok /\ d.ok THEN gyro_set_auto_sleep_durn(d.s, d.data, b.data) ELSE {d}}
    BY <1>1
  <1>3. PICK a \in IF b.ok /\ d.ok THEN gyro_set_auto_sleep_durn(d.s, d.data, b.data) ELSE {d} :
          o \in write_page_id(a.s, 1)
    BY <1>2
  <1>4. b.s \in Unit /\ b.s.regs = s.regs /\ TriggerClear(b.s)
    BY <1>0, GetSound DEF Sound, Follows
  <1>5. d.s \in Unit /\ d.s.regs = s.regs /\ TriggerClear(d.s) /\ d.data \in Nat
    BY <1>0, <1>4, GetSound DEF Sound, Follows
  <1>6. a.s \in Unit
    BY <1>3, <1>5, AutoSleepSound
  <1>7. o.s.regs = a.s.regs /\ ~a.s.misread
    BY <1>0, <1>3, <1>6, TurnsThePage DEF Sound, Follows
  <1>8. CASE a = d
    BY <1>5, <1>7, <1>8 DEF MaySleep, Leaves
  <1>9. CASE a \in gyro_set_auto_sleep_durn(d.s, d.data, b.data)
    BY <1>5, <1>7, <1>9, AutoSleepMaySleep
  <1> QED BY <1>3, <1>8, <1>9

LEMMA PowerModeOnPageAlters ==
  ASSUME NEW s \in Unit, TriggerClear(s), NEW mode \in Nat, NEW o \in PowerModeOnPage(s, mode), ~o.s.misread
  PROVE  MaySleep(s.regs, o.s.regs) \/ MaySleep(WithField(s.regs, gyro_power_mode, mode), o.s.regs)
  <1>1. PICK p \in OnThePage(s, 1) :
          o \in IF p.ok /\ mode < gyro_power_mode.limit
                THEN UNION {Update(b.s, gyro_power_mode, mode) :
                            b \in IF mode = GYRO_POWER_MODE_ADVANCE_POWERSAVE THEN BeforeAdvanced(p.s)
                                  ELSE {Outcome(p.s, TRUE, 0)}}
                ELSE {Failed(p.s)}
    BY DEF PowerModeOnPage
  <1>2. p.s \in Unit /\ p.s.regs = s.regs /\ TriggerClear(p.s)
    BY OnThePageSound DEF Sound, Follows
  <1>3. CASE o = Failed(p.s)
    BY <1>2, <1>3, FailedOutcome DEF MaySleep, Leaves
  <1>4. CASE \E b \in BeforeAdvanced(p.s) \cup {Outcome(p.s, TRUE, 0)} : o \in Update(b.s, gyro_power_mode, mode)
    <2>1. PICK b \in BeforeAdvanced(p.s) \cup {Outcome(p.s, TRUE, 0)} : o \in Update(b.s, gyro_power_mode, mode)
      BY <1>4
    <2>2. b.s \in Unit /\ TriggerClear(b.s)
      <3>1. CASE b \in BeforeAdvanced(p.s)
        BY <1>2, <3>1, BeforeAdvancedFollows DEF Follows
      <3>2. CASE b = Outcome(p.s, TRUE, 0)
        BY <1>2, <3>2 DEF Outcome
      <3> QED BY <2>1, <3>1, <3>2
    <2>3. Keeps(b.s, o)
      BY <2>1, <2>2, GyroSettings, UpdateKeeps
    <2>4. ~b.s.misread
      BY <2>3 DEF Keeps, Follows
    <2>5. MaySleep(s.regs, b.s.regs)
      <3>1. CASE b \in BeforeAdvanced(p.s)
        BY <1>2, <2>4, <3>1, BeforeAdvancedAlters
      <3>2. CASE b = Outcome(p.s, TRUE, 0)
        BY <1>2, <3>2 DEF Outcome, MaySleep, Leaves
      <3> QED BY <2>1, <3>1, <3>2
    <2>6. o.s.regs \in {b.s.regs, WithField(b.s.regs, gyro_power_mode, mode)}
      BY <2>1, <2>2, GyroSettingsAlone, UpdateAlters
    <2>7. MaySleep(WithField(s.regs, gyro_power_mode, mode), WithField(b.s.regs, gyro_power_mode, mode))
      BY <2>5, MaySleepField
    <2> QED BY <2>5, <2>6, <2>7
  <1> QED BY <1>1, <1>3, <1>4

LEMMA set_gyro_power_modeAlters ==
  ASSUME NEW s \in Unit, TriggerClear(s), NEW mode \in Nat, NEW o \in set_gyro_power_mode(s, mode), ~o.s.misread
  PROVE  MaySleep(s.regs, o.s.regs) \/ MaySleep(WithField(s.regs, gyro_power_mode, mode), o.s.regs)
  <1>1. PICK e \in EnterConfig(s) :
          \E b \in (IF e.ok THEN PowerModeOnPage(e.s, mode) ELSE {Failed(e.s)}) : o \in Restore(b, e.data)
    BY set_gyro_power_modeParts
  <1>2. PICK b \in IF e.ok THEN PowerModeOnPage(e.s, mode) ELSE {Failed(e.s)} : o \in Restore(b, e.data)
    BY <1>1
  <1>3. e.s \in Unit
    BY EnterConfigSound
  <1>4. Follows(e.s, b)
    BY <1>2, <1>3, PowerModeOnPageFollows, FailedOutcome DEF Sound, Keeps
  <1>5. /\ Leaves(s.regs, e.s.regs) /\ Leaves(b.s.regs, o.s.regs)
        /\ ~b.s.misread /\ TriggerClear(e.s)
    BY <1>2, <1>4, InConfigLeaves
  <1>6. MaySleep(e.s.regs, b.s.regs) \/ MaySleep(WithField(e.s.regs, gyro_power_mode, mode), b.s.regs)
    <2>1. CASE e.ok
      BY <1>2, <1>3, <1>5, <2>1, PowerModeOnPageAlters
    <2>2. CASE ~e.ok
      BY <1>2, <1>3, <2>2, FailedOutcome DEF MaySleep, Leaves
    <2> QED BY <2>1, <2>2
  <1>7. Leaves(WithField(s.regs, gyro_power_mode, mode), WithField(e.s.regs, gyro_power_mode, mode))
    BY <1>5, LeavesField
  <1> QED BY <1>5, <1>6, <1>7, MaySleepLeaves
=============================================================================
