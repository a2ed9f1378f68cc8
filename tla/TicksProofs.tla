---------------------------- MODULE TicksProofs ----------------------------
(***************************************************************************)
(* Proofs about time and the button, for any periods, any hold time, any   *)
(* debounce count and any width of d_time.                                 *)
(***************************************************************************)
EXTENDS Ticks, TLAPS

\* A remainder is no greater than the number.
LEMMA RemainderBound ==
  ASSUME NEW n \in Nat, NEW w \in Nat \ {0}
  PROVE  n % w \in Nat /\ n % w <= n
  <1>1. n % w \in 0..(w - 1)
    OBVIOUS
  <1>2. CASE n < w
    <2>1. n % w = n
      BY <1>2
    <2> QED BY <2>1
  <1>3. CASE w <= n
    BY <1>1, <1>3
  <1> QED BY <1>2, <1>3

LEMMA ConstantsAreNat ==
  /\ HoldShutdown \in Nat /\ LogSteps \in Nat \ {0} /\ MaxTicks \in Nat
  /\ MaxDebounceCount \in Nat \ {0} /\ Wrap \in Nat \ {0}
  BY TicksAssumption

LEMMA InitType == Init => TypeOK
  <1> SUFFICES ASSUME Init PROVE TypeOK
    OBVIOUS
  <1>1. NoBits \in Bits
    BY DEF NoBits, Bits
  <1>2. copied \in [bits : Bits, at : 0..measCnt]
    BY <1>1 DEF Init
  <1>3. same \in [level : {0, 1}, times : 0..MaxDebounceCount]
    BY ConstantsAreNat DEF Init
  <1>4. measTodo \in [Sources -> BOOLEAN] /\ dues \in [Sources -> Nat] /\ taken \in [Sources -> Nat]
    BY DEF Init
  <1>5. measCnt \in 0..MaxTicks /\ ltime \in 0..measCnt
        /\ cntBtnPressed \in 0..measCnt /\ debounceCounter \in 0..(MaxDebounceCount - 1)
    BY ConstantsAreNat DEF Init
  <1>6. LogTypeOK
    BY ConstantsAreNat DEF Init, LogTypeOK, LogStates
  <1> QED BY <1>1, <1>2, <1>3, <1>4, <1>5, <1>6 DEF Init, TypeOK

LEMMA DebounceType ==
  ASSUME TypeOK, DoDebounce(button)
  PROVE  /\ bits' \in Bits
         /\ debounceState' \in {"WaitChange", "WaitStable"}
         /\ debounceCounter' \in 0..(MaxDebounceCount - 1)
  <1> USE ConstantsAreNat DEF TypeOK, Bits
  <1>1. CASE WaitChange(button)
    BY <1>1 DEF WaitChange, SetPrevious
  <1>2. CASE Bounce(button)
    BY <1>2 DEF Bounce, SetPrevious
  <1>3. CASE Count(button)
    BY <1>3 DEF Count
  <1>4. CASE Settle(button)
    <2>1. Stable(button) \in Bits
      <3>1. CASE button = 0
        BY <3>1 DEF Stable
      <3>2. CASE button = 1
        BY <3>2 DEF Stable
      <3> QED BY <3>1, <3>2
    <2> QED BY <1>4, <2>1 DEF Settle
  <1> QED BY <1>1, <1>2, <1>3, <1>4 DEF DoDebounce

\* The logging machine stays in its states and counts no further than its passes.
LEMMA LogStep ==
  ASSUME LogTypeOK, sd_fat_logging_task \/ scheduleWrite \/ UNCHANGED logging
  PROVE  LogTypeOK'
  BY ConstantsAreNat DEF LogTypeOK, LogStates, sd_fat_logging_task, LogPrepare, LogStore, LogRest,
                         scheduleWrite, logging

\* Every step schedules a record, or is a pass of the logging machine, or leaves it.
LEMMA NextLogType ==
  ASSUME TypeOK, [Next]_vars
  PROVE  LogTypeOK'
  <1>1. CASE Measure
    <2>1. scheduleWrite \/ UNCHANGED logging
      BY <1>1 DEF Measure, MeasureImu, DeltaTime, ClearTodo, LastTime, MeasureGnss, ClearTodoGnss,
                  NothingToMeasure, logging
    <2> QED BY <2>1, LogStep DEF TypeOK
  <1>2. CASE LoggingTask \/ StopLog
    BY <1>2, LogStep DEF LoggingTask, StopLog, TypeOK
  <1>3. CASE Button
    <2>1. UNCHANGED logging
      BY <1>3 DEF Button, StartHold, Release, ReadBits, ClearReleased, EvaluateHold
    <2> QED BY <2>1, LogStep DEF TypeOK
  <1>4. CASE Command \/ (\E live \in {"LIVE_IMU", "LIVE_GNSS"} : Stopped(live))
             \/ NoCommand \/ ExitLive \/ StayLive
    <2>1. UNCHANGED logging
      BY <1>4 DEF Command, Stopped, NoCommand, ExitLive, StayLive
    <2> QED BY <2>1, LogStep DEF TypeOK
  <1>5. CASE stateTimer_callback \/ PressOrRelease \/ UNCHANGED vars
    <2>1. UNCHANGED logging
      BY <1>5 DEF stateTimer_callback, PressOrRelease, vars
    <2> QED BY <2>1, LogStep DEF TypeOK
  <1> QED BY <1>1, <1>2, <1>3, <1>4, <1>5 DEF Next, MainLoop

LEMMA NextType == TypeOK /\ [Next]_vars => TypeOK'
  <1> SUFFICES ASSUME TypeOK, [Next]_vars PROVE TypeOK'
    OBVIOUS
  <1>0. LogTypeOK'
    BY NextLogType
  <1> USE <1>0, ConstantsAreNat DEF TypeOK, clock, held, debounced, user, Sources, BNO055, GNSS
  <1>1. CASE stateTimer_callback
    <2>1. /\ bits' \in Bits
          /\ debounceState' \in {"WaitChange", "WaitStable"}
          /\ debounceCounter' \in 0..(MaxDebounceCount - 1)
      BY <1>1, DebounceType DEF stateTimer_callback
    <2>2. same' \in [level : {0, 1}, times : 0..MaxDebounceCount]
      BY <1>1 DEF stateTimer_callback
    <2>3. measTodo' \in [Sources -> BOOLEAN] /\ dues' \in [Sources -> Nat]
      BY <1>1 DEF stateTimer_callback
    <2> QED BY <1>1, <2>1, <2>2, <2>3 DEF stateTimer_callback
  <1>2. CASE DeltaTime
    <2>0. measCnt - ltime \in Nat
      OBVIOUS
    <2>1. (measCnt - ltime) % Wrap \in Nat
      BY <2>0, RemainderBound
    <2>2. taken' \in [Sources -> Nat] /\ recorded' \in Nat
      BY <1>2, <2>1 DEF DeltaTime
    <2> QED BY <1>2, <2>2 DEF DeltaTime
  <1>3. CASE MeasureImu \/ NothingToMeasure
    BY <1>3 DEF MeasureImu, NothingToMeasure
  <1>4. CASE ClearTodo \/ ClearTodoGnss
    BY <1>4 DEF ClearTodo, ClearTodoGnss
  <1>5. CASE LastTime
    BY <1>5 DEF LastTime
  <1>6. CASE MeasureGnss
    <2>1. taken' \in [Sources -> Nat]
      BY <1>6 DEF MeasureGnss
    <2> QED BY <1>6, <2>1 DEF MeasureGnss
  <1>7. CASE LoggingTask
    BY <1>7 DEF LoggingTask
  <1>8. CASE StartHold
    BY <1>8 DEF StartHold
  <1>9. CASE Release
    <2>1. flagCntBtnPressed' \in BOOLEAN
      BY <1>9 DEF Release
    <2> QED BY <1>9, <2>1 DEF Release
  <1>10. CASE EvaluateHold
    <2>1. mode' \in {"LOGGING", "LIVE_IMU", "LIVE_GNSS", "SHUTDOWN"} /\ cntBtnPressed' \in 0..measCnt
      BY <1>10 DEF EvaluateHold
    <2> QED BY <1>10, <2>1 DEF EvaluateHold
  <1>11. CASE ReadBits \/ ClearReleased
    BY <1>11 DEF ReadBits, ClearReleased, Bits, NoBits
  <1>12. CASE Command \/ StopLog \/ \E live \in {"LIVE_IMU", "LIVE_GNSS"} : Stopped(live)
    BY <1>12 DEF Command, StopLog, Stopped
  <1>13. CASE NoCommand \/ ExitLive \/ StayLive
    BY <1>13 DEF NoCommand, ExitLive, StayLive
  <1>14. CASE PressOrRelease
    <2>1. button' \in {0, 1}
      BY <1>14 DEF PressOrRelease
    <2>2. UNCHANGED <<pc, mode, timer, measCnt, measTodo, ltime, dues, taken, recorded, Hold,
                     flagCntBtnPressed, cntBtnPressed, bits, debounceState, debounceCounter, copied, same>>
      BY <1>14 DEF PressOrRelease
    <2> QED BY <2>1, <2>2
  <1>15. CASE UNCHANGED vars
    BY <1>15 DEF vars
  <1> QED BY <1>1, <1>2, <1>3, <1>4, <1>5, <1>6, <1>7, <1>8, <1>9, <1>10, <1>14, <1>11, <1>12, <1>13, <1>15 DEF Next, MainLoop, Measure, Button

\* Every variable has its type, for any constants.
THEOREM TicksTypeOK == Spec => []TypeOK
  BY InitType, NextType, PTL DEF Spec

-----------------------------------------------------------------------------
(***************************************************************************)
(* Time.  Until ltime follows, what was recorded may be as late as the     *)
(* clock; then, and between two measures, it is no later than ltime.       *)
(***************************************************************************)
TimeInv ==
  /\ TypeOK
  /\ recorded <= measCnt
  /\ pc \notin {"clear", "lastTime"} => recorded <= ltime

LEMMA NextTime == TimeInv /\ [Next]_vars => TimeInv'
  <1> SUFFICES ASSUME TimeInv, [Next]_vars PROVE recorded' <= measCnt' /\ (pc' \notin {"clear", "lastTime"} => recorded' <= ltime')
    BY NextType DEF TimeInv
  <1>1. measCnt \in Nat /\ ltime \in Nat /\ ltime <= measCnt /\ recorded \in Nat
    BY DEF TimeInv, TypeOK
  <1> USE <1>1 DEF TimeInv, clock, held, debounced, user
  <1>2. CASE stateTimer_callback
    BY <1>2 DEF stateTimer_callback
  <1>3. CASE DeltaTime
    <2>1. measCnt - ltime \in Nat
      OBVIOUS
    <2>2. (measCnt - ltime) % Wrap \in Nat /\ (measCnt - ltime) % Wrap <= measCnt - ltime
      BY <2>1, RemainderBound, ConstantsAreNat
    <2>3. recorded <= ltime
      BY <1>3 DEF DeltaTime
    <2>4. recorded' \in {recorded, recorded + ((measCnt - ltime) % Wrap)}
      BY <1>3 DEF DeltaTime
    <2>5. recorded' <= measCnt
      BY <2>2, <2>3, <2>4
    <2> QED BY <1>3, <2>5 DEF DeltaTime
  <1>4. CASE LastTime
    BY <1>4 DEF LastTime
  <1>5. CASE ClearTodo
    BY <1>5 DEF ClearTodo
  <1>6. CASE MeasureImu \/ MeasureGnss \/ ClearTodoGnss \/ NothingToMeasure \/ LoggingTask \/ Button
    BY <1>6 DEF MeasureImu, MeasureGnss, ClearTodoGnss, NothingToMeasure, LoggingTask, Button,
                StartHold, Release, ReadBits, ClearReleased, EvaluateHold
  <1>7. CASE Command \/ StopLog \/ (\E live \in {"LIVE_IMU", "LIVE_GNSS"} : Stopped(live))
    BY <1>7 DEF Command, StopLog, Stopped
  <1>8. CASE NoCommand \/ ExitLive \/ StayLive
    BY <1>8 DEF NoCommand, ExitLive, StayLive
  <1>9. CASE PressOrRelease \/ UNCHANGED vars
    BY <1>9 DEF PressOrRelease, vars
  <1> QED BY <1>2, <1>3, <1>4, <1>5, <1>6, <1>7, <1>8, <1>9 DEF Next, MainLoop, Measure

\* Whatever the periods, the width of d_time and the moments of the interrupt: the time
\* differences that were recorded never add up to more than the time that has gone by.
THEOREM RecordedTimeIsAlwaysPast == Spec => []RecordedTimeIsPast
  <1>1. Init => TimeInv
    BY InitType DEF Init, TimeInv
  <1>2. TimeInv => RecordedTimeIsPast
    BY DEF TimeInv, RecordedTimeIsPast
  <1> QED BY <1>1, <1>2, NextTime, PTL DEF Spec

(***************************************************************************)
(* Measures.  A flag that is set stands for a due tick that no measure has *)
(* been taken for, unless that measure is under way.                       *)
(***************************************************************************)
UnderWay(s) == pc \in IF s = BNO055 THEN {"clear"} ELSE {"clearGnss"}

DuesInv ==
  /\ TypeOK
  /\ pc = "delta" => measTodo[BNO055]
  /\ \A s \in Sources :
       /\ taken[s] <= dues[s]
       /\ measTodo[s] /\ ~UnderWay(s) => taken[s] < dues[s]

LEMMA NextDues == DuesInv /\ [Next]_vars => DuesInv'
  <1> DEFINE I == /\ pc = "delta" => measTodo[BNO055]
                  /\ \A s \in Sources : /\ taken[s] <= dues[s]
                                        /\ measTodo[s] /\ ~UnderWay(s) => taken[s] < dues[s]
  <1> SUFFICES ASSUME DuesInv, [Next]_vars PROVE I'
    BY NextType DEF DuesInv
  <1>1. /\ \A s \in Sources : taken[s] \in Nat /\ dues[s] \in Nat /\ measTodo[s] \in BOOLEAN
        /\ taken \in [Sources -> Nat] /\ dues \in [Sources -> Nat] /\ measTodo \in [Sources -> BOOLEAN]
    BY DEF DuesInv, TypeOK
  <1> USE <1>1 DEF DuesInv, UnderWay, Sources, BNO055, GNSS, clock, held, debounced, user
  <1>2. CASE stateTimer_callback
    <2>1. \A s \in Sources : IF IsDue(s, measCnt') THEN measTodo'[s] /\ dues'[s] = dues[s] + 1
                             ELSE measTodo'[s] = measTodo[s] /\ dues'[s] = dues[s]
      <3>1. /\ measTodo' = [s \in Sources |-> measTodo[s] \/ IsDue(s, measCnt')]
            /\ dues' = [s \in Sources |-> dues[s] + (IF IsDue(s, measCnt') THEN 1 ELSE 0)]
        BY <1>2 DEF stateTimer_callback
      <3> SUFFICES ASSUME NEW s \in Sources
                   PROVE  IF IsDue(s, measCnt') THEN measTodo'[s] /\ dues'[s] = dues[s] + 1
                          ELSE measTodo'[s] = measTodo[s] /\ dues'[s] = dues[s]
        OBVIOUS
      <3>2. CASE IsDue(s, measCnt')
        BY <3>1, <3>2
      <3>3. CASE ~IsDue(s, measCnt')
        <4>1. dues'[s] = dues[s]
          BY <3>1, <3>3
        <4>2. measTodo'[s] = (measTodo[s] \/ FALSE)
          BY <3>1, <3>3
        <4> QED BY <3>3, <4>1, <4>2
      <3> QED BY <3>2, <3>3
    <2>2. pc' = pc /\ taken' = taken
      BY <1>2 DEF stateTimer_callback
    <2> QED BY <2>1, <2>2
  <1>3. CASE DeltaTime
    <2>1. /\ taken' = [taken EXCEPT ![BNO055] = @ + 1] /\ dues' = dues /\ measTodo' = measTodo
          /\ pc = "delta" /\ pc' = "clear"
      BY <1>3 DEF DeltaTime
    <2> QED BY <2>1
  <1>4. CASE MeasureGnss
    <2>1. /\ taken' = [taken EXCEPT ![GNSS] = @ + 1] /\ dues' = dues /\ measTodo' = measTodo
          /\ measTodo[GNSS] /\ pc = "measure" /\ pc' = "clearGnss"
      BY <1>4 DEF MeasureGnss, AwaitsMeasure
    <2> QED BY <2>1
  <1>5. CASE ClearTodo \/ ClearTodoGnss
    BY <1>5 DEF ClearTodo, ClearTodoGnss
  <1>6. CASE MeasureImu
    BY <1>6 DEF MeasureImu, AwaitsMeasure
  <1>7. CASE LastTime \/ NothingToMeasure \/ LoggingTask
    BY <1>7 DEF LastTime, AfterMeasure, NothingToMeasure, LoggingTask
  <1>8. CASE Button
    BY <1>8 DEF Button, StartHold, Release, ReadBits, ClearReleased, EvaluateHold
  <1>9. CASE Command \/ StopLog \/ \E live \in {"LIVE_IMU", "LIVE_GNSS"} : Stopped(live)
    BY <1>9 DEF Command, StopLog, Stopped
  <1>10. CASE NoCommand \/ ExitLive \/ StayLive
    BY <1>10 DEF NoCommand, ExitLive, StayLive
  <1>11. CASE PressOrRelease \/ UNCHANGED vars
    BY <1>11 DEF PressOrRelease, vars
  <1> QED BY <1>2, <1>3, <1>4, <1>5, <1>6, <1>7, <1>8, <1>9, <1>10, <1>11 DEF Next, MainLoop, Measure

\* For any periods: each measure answers a due tick of its own, wherever the interrupt
\* sets the flag while a measure is taken and its flag is cleared.
THEOREM MeasuresAreAlwaysDue == Spec => []MeasuresAreDue
  <1>1. Init => DuesInv
    BY InitType DEF Init, DuesInv, Sources
  <1>2. DuesInv => MeasuresAreDue
    BY DEF DuesInv, MeasuresAreDue
  <1> QED BY <1>1, <1>2, NextDues, PTL DEF Spec

-----------------------------------------------------------------------------
(***************************************************************************)
(* Presses.  The interrupt has stopped counting before the count is looked *)
(* at and set to zero.                                                     *)
(***************************************************************************)
PressInv ==
  /\ TypeOK
  /\ PressesDoNotAddUp
  /\ pc = "release" => Hold
  /\ pc \in {"readBits", "writeBits", "held"} => ~flagCntBtnPressed

LEMMA NextPress == PressInv /\ [Next]_vars => PressInv'
  <1> DEFINE I == /\ PressesDoNotAddUp
                  /\ pc = "release" => Hold
                  /\ pc \in {"readBits", "writeBits", "held"} => ~flagCntBtnPressed
  <1> SUFFICES ASSUME PressInv, [Next]_vars PROVE I'
    BY NextType DEF PressInv
  <1>1. Hold \in BOOLEAN /\ flagCntBtnPressed \in BOOLEAN /\ cntBtnPressed \in Nat
    BY DEF PressInv, TypeOK
  <1> USE <1>1 DEF PressInv, PressesDoNotAddUp, clock, held, debounced, user
  <1>2. CASE stateTimer_callback
    BY <1>2 DEF stateTimer_callback
  <1>3. CASE Measure \/ LoggingTask
    BY <1>3 DEF Measure, MeasureImu, DeltaTime, ClearTodo, LastTime, AfterMeasure, MeasureGnss,
                ClearTodoGnss, NothingToMeasure, LoggingTask
  <1>4. CASE StartHold
    BY <1>4 DEF StartHold
  <1>5. CASE Release
    <2>1. /\ pc' = IF button = 0 THEN "readBits" ELSE "poll"
          /\ UNCHANGED <<Hold, cntBtnPressed>> /\ Hold
      BY <1>5 DEF Release
    <2>2. CASE button = 0
      <3>0. flagCntBtnPressed' = (button = 1) /\ (button = 1) = FALSE
        <4>1. ~(button = 1)
          BY <2>2
        <4>2. flagCntBtnPressed' = (button = 1)
          BY <1>5, Zenon DEF Release
        <4> QED BY <4>1, <4>2, Zenon
      <3>1. ~flagCntBtnPressed'
        BY <3>0, Zenon
      <3> QED BY <2>1, <2>2, <3>1
    <2>3. CASE button # 0
      <3>1. pc' = "poll"
        BY <2>1, <2>3
      <3> QED BY <2>1, <3>1
    <2> QED BY <2>2, <2>3
  <1>6. CASE ReadBits \/ ClearReleased
    BY <1>6 DEF ReadBits, ClearReleased
  <1>7. CASE EvaluateHold
    BY <1>7 DEF EvaluateHold
  <1>8. CASE Command \/ StopLog \/ (\E live \in {"LIVE_IMU", "LIVE_GNSS"} : Stopped(live))
             \/ NoCommand \/ ExitLive \/ StayLive
    BY <1>8 DEF Command, StopLog, Stopped, NoCommand, ExitLive, StayLive
  <1>9. CASE PressOrRelease \/ UNCHANGED vars
    BY <1>9 DEF PressOrRelease, vars
  <1> QED BY <1>2, <1>3, <1>4, <1>5, <1>6, <1>7, <1>8, <1>9 DEF Next, MainLoop, Button

\* For any hold time: no tick of one press is counted for another.
THEOREM PressesNeverAddUp == Spec => []PressesDoNotAddUp
  <1>1. Init => PressInv
    BY InitType DEF Init, PressInv, PressesDoNotAddUp
  <1>2. PressInv => PressesDoNotAddUp
    BY DEF PressInv
  <1> QED BY <1>1, <1>2, NextPress, PTL DEF Spec

-----------------------------------------------------------------------------
(***************************************************************************)
(* The debounced key.  The counted samples are equal to the previous input *)
(* that is stored, and would be so with the bits that the main loop is     *)
(* about to write back: one interrupt at most came since it read them.     *)
(***************************************************************************)
DebounceInv ==
  /\ TypeOK
  /\ debounceState = "WaitChange" => debounceCounter = 0
  /\ debounceCounter > 0 =>
       same.level = bits.KeyPrevInputValue /\ debounceCounter <= same.times
  /\ pc = "writeBits" =>
       /\ measCnt = copied.at => copied.bits = bits
       /\ copied.bits.KeyPressed <= bits.KeyPressed
       /\ debounceCounter > 0 => copied.bits.KeyPrevInputValue = bits.KeyPrevInputValue

Debounced(b, c, sm) ==
  /\ b.KeyPressed < c.KeyPressed => sm.level = 0 /\ sm.times = MaxDebounceCount
  /\ b.KeyReleased < c.KeyReleased => sm.level = 1 /\ sm.times = MaxDebounceCount

\* One interrupt: what it makes of the bits and of the count.
LEMMA DebounceStep ==
  ASSUME DebounceInv, stateTimer_callback
  PROVE  /\ debounceState' = "WaitChange" => debounceCounter' = 0
         /\ debounceCounter' > 0 =>
              /\ same'.level = bits'.KeyPrevInputValue /\ debounceCounter' <= same'.times
              /\ bits' = bits
         /\ bits.KeyPressed <= bits'.KeyPressed
         /\ Debounced(bits, bits', same')
  <1>1. /\ bits \in Bits /\ button \in {0, 1} /\ debounceCounter \in 0..(MaxDebounceCount - 1)
        /\ debounceState \in {"WaitChange", "WaitStable"}
        /\ same.times \in 0..MaxDebounceCount /\ MaxDebounceCount \in Nat \ {0}
    BY ConstantsAreNat DEF DebounceInv, TypeOK
  <1>2. same' = [level |-> button,
                 times |-> IF button # same.level THEN 1
                           ELSE IF same.times = MaxDebounceCount THEN same.times ELSE same.times + 1]
    BY DEF stateTimer_callback
  <1>3. /\ same'.level = button
        /\ same'.times \in 1..MaxDebounceCount
        /\ button = same.level => same'.times >= IF same.times < MaxDebounceCount THEN same.times + 1 ELSE MaxDebounceCount
    BY <1>1, <1>2
  <1>4. /\ debounceState = "WaitChange" => debounceCounter = 0
        /\ debounceCounter > 0 => same.level = bits.KeyPrevInputValue /\ debounceCounter <= same.times
    BY DEF DebounceInv
  <1> HIDE DEF DebounceInv
  <1>5. CASE WaitChange(button)
    BY <1>1, <1>4, <1>5 DEF WaitChange, SetPrevious, Bits, Debounced
  <1>6. CASE Bounce(button)
    BY <1>1, <1>6 DEF Bounce, SetPrevious, Bits, Debounced
  <1>7. CASE Count(button)
    <2>1. /\ bits' = bits /\ debounceCounter' = debounceCounter + 1 /\ button = bits.KeyPrevInputValue
          /\ debounceState' = "WaitStable" /\ debounceCounter + 1 < MaxDebounceCount
      BY <1>7 DEF Count
    <2>2. debounceCounter' <= same'.times
      BY <1>1, <1>3, <1>4, <2>1
    <2> QED BY <1>1, <1>3, <2>1, <2>2 DEF Bits, Debounced
  <1>8. CASE Settle(button)
    <2>1. /\ bits' = Stable(button) /\ debounceCounter' = 0 /\ button = bits.KeyPrevInputValue
          /\ debounceCounter + 1 >= MaxDebounceCount
      BY <1>8 DEF Settle
    <2>2. same'.times = MaxDebounceCount
      BY <1>1, <1>3, <1>4, <2>1
    <2>3. CASE button = 0
      BY <1>1, <1>3, <2>1, <2>2, <2>3 DEF Stable, Bits, Debounced
    <2>4. CASE button = 1
      BY <1>1, <1>3, <2>1, <2>2, <2>4 DEF Stable, Bits, Debounced
    <2> QED BY <1>1, <2>3, <2>4
  <1> QED BY <1>5, <1>6, <1>7, <1>8 DEF stateTimer_callback, DoDebounce

LEMMA NextDebounce == DebounceInv /\ [Next]_vars => DebounceInv' /\ Debounced(bits, bits', same')
  <1> DEFINE I ==
        /\ debounceState = "WaitChange" => debounceCounter = 0
        /\ debounceCounter > 0 => same.level = bits.KeyPrevInputValue /\ debounceCounter <= same.times
        /\ pc = "writeBits" =>
             /\ measCnt = copied.at => copied.bits = bits
             /\ copied.bits.KeyPressed <= bits.KeyPressed
             /\ debounceCounter > 0 => copied.bits.KeyPrevInputValue = bits.KeyPrevInputValue
  <1> SUFFICES ASSUME DebounceInv, [Next]_vars PROVE I' /\ Debounced(bits, bits', same')
    BY NextType DEF DebounceInv
  <1>1. /\ bits \in Bits /\ copied.bits \in Bits /\ debounceCounter \in Nat /\ measCnt \in Nat /\ copied.at <= measCnt
        /\ copied.at \in Nat
    BY ConstantsAreNat DEF DebounceInv, TypeOK
  <1>2. I
    BY DEF DebounceInv
  <1>3. CASE stateTimer_callback
    <2>1. /\ debounceState' = "WaitChange" => debounceCounter' = 0
          /\ debounceCounter' > 0 =>
               /\ same'.level = bits'.KeyPrevInputValue /\ debounceCounter' <= same'.times
               /\ bits' = bits
          /\ bits.KeyPressed <= bits'.KeyPressed
          /\ Debounced(bits, bits', same')
      BY <1>3, DebounceStep
    <2>2. pc' = pc /\ copied' = copied /\ measCnt' = measCnt + 1 /\ (pc = "writeBits" => measCnt = copied.at)
      BY <1>3 DEF stateTimer_callback
    <2>3. pc' = "writeBits" =>
            /\ measCnt' # copied'.at
            /\ copied'.bits = bits
      BY <1>1, <1>2, <2>2
    <2> QED BY <2>1, <2>2, <2>3
  <1>4. CASE ReadBits
    <2>1. /\ copied' = [bits |-> bits, at |-> measCnt]
          /\ UNCHANGED <<bits, debounceState, debounceCounter, same, measCnt>>
      BY <1>4 DEF ReadBits, clock
    <2>2. bits.KeyPressed <= bits.KeyPressed /\ ~(bits.KeyPressed < bits.KeyPressed)
          /\ ~(bits.KeyReleased < bits.KeyReleased)
      BY <1>1 DEF Bits
    <2> QED BY <1>2, <2>1, <2>2 DEF Debounced
  <1>5. CASE ClearReleased
    <2>1. /\ bits' = [copied.bits EXCEPT !.KeyReleased = 0]
          /\ pc = "writeBits" /\ pc' = "held"
          /\ UNCHANGED <<debounceState, debounceCounter, same>>
      BY <1>5 DEF ClearReleased
    <2>2. /\ bits'.KeyPrevInputValue = copied.bits.KeyPrevInputValue
          /\ bits'.KeyPressed = copied.bits.KeyPressed /\ bits'.KeyReleased = 0
      BY <1>1, <2>1 DEF Bits
    <2>3. ~(bits.KeyPressed < bits'.KeyPressed) /\ ~(bits.KeyReleased < bits'.KeyReleased)
      BY <1>1, <1>2, <2>1, <2>2 DEF Bits
    <2> QED BY <1>2, <2>1, <2>2, <2>3 DEF Debounced
  <1>6. ASSUME UNCHANGED <<bits, debounceState, debounceCounter, same, copied, measCnt>>,
               pc' = "writeBits" => pc = "writeBits"
        PROVE  I' /\ Debounced(bits, bits', same')
    <2>1. ~(bits.KeyPressed < bits.KeyPressed) /\ ~(bits.KeyReleased < bits.KeyReleased)
      BY <1>1 DEF Bits
    <2> QED BY <1>2, <1>6, <2>1 DEF Debounced
  <1>7. CASE Measure \/ LoggingTask
    BY <1>6, <1>7 DEF Measure, MeasureImu, DeltaTime, ClearTodo, LastTime, AfterMeasure, MeasureGnss,
                      ClearTodoGnss, NothingToMeasure, LoggingTask, clock, debounced
  <1>8. CASE StartHold \/ Release \/ EvaluateHold
    BY <1>6, <1>8 DEF StartHold, Release, EvaluateHold, clock, debounced
  <1>9. CASE Command \/ StopLog \/ (\E live \in {"LIVE_IMU", "LIVE_GNSS"} : Stopped(live))
             \/ NoCommand \/ ExitLive \/ StayLive
    BY <1>6, <1>9 DEF Command, StopLog, Stopped, NoCommand, ExitLive, StayLive, clock, debounced
  <1>10. CASE PressOrRelease \/ UNCHANGED vars
    BY <1>6, <1>10 DEF PressOrRelease, vars, clock, debounced
  <1> QED BY <1>3, <1>4, <1>5, <1>7, <1>8, <1>9, <1>10 DEF Next, MainLoop, Button

\* For any debounce count: no event of the key without as many equal samples in a row,
\* although the main loop writes the bits of the interrupt.
THEOREM EventsAreAlwaysDebounced == Spec => EventsAreDebounced
  <1>1. Init => DebounceInv
    BY InitType DEF Init, DebounceInv
  <1>2. DebounceInv /\ [Next]_vars =>
          [/\ bits.KeyPressed < bits'.KeyPressed => same'.level = 0 /\ same'.times = MaxDebounceCount
           /\ bits.KeyReleased < bits'.KeyReleased => same'.level = 1 /\ same'.times = MaxDebounceCount]_vars
    BY NextDebounce DEF Debounced
  <1>3. DebounceInv /\ [Next]_vars => DebounceInv'
    BY NextDebounce
  <1> QED BY <1>1, <1>2, <1>3, PTL DEF Spec, EventsAreDebounced

=============================================================================
