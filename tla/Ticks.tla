------------------------------- MODULE Ticks -------------------------------
(***************************************************************************)
(* Time and the button: the timer interrupt of app.c and what the main     *)
(* loop does with the counters, the flags and the debounced key that the   *)
(* interrupt writes.  The interrupt comes between any two steps of the     *)
(* main loop; a step reads or writes one thing that both sides use.        *)
(*                                                                         *)
(* Both entries of measCnt are counted by the same interrupt and never set *)
(* otherwise: measCnt is one number here.  Only the inertial unit's ltime  *)
(* is read.                                                                *)
(***************************************************************************)
EXTENDS Naturals

CONSTANTS
  Period,            \* measPeriod / 10, the ticks between two measures of a source
  HoldShutdown,      \* BTN_HOLD_SHUTDOWN_x10ms
  MaxDebounceCount,  \* MaxDebounceCount
  Wrap,              \* 2^16, d_time is a uint16_t
  LogSteps,          \* the passes of the logging machine until a record is stored, 3
  MaxTicks, MaxPresses, MaxCommands   \* bounds

BNO055 == "BNO055"
GNSS == "GNSS"
Sources == {BNO055, GNSS}

ASSUME TicksAssumption ==
  /\ Period \in [Sources -> Nat \ {0}]
  /\ {HoldShutdown, MaxTicks, MaxPresses, MaxCommands} \subseteq Nat
  /\ {MaxDebounceCount, Wrap, LogSteps} \subseteq Nat \ {0}

VARIABLES
  pc, mode, timer,             \* the main loop, appData.state, whether timer 1 runs
  measCnt, measTodo, ltime,    \* timeData
  log_state, log,              \* the logging machine, the passes until a record is stored
  button, Hold, flagCntBtnPressed, cntBtnPressed,
  bits, debounceState, debounceCounter,   \* switchDescr
  copied,                      \* what DebounceClearReleased has read, and when
  \* What happened so far, for the properties.
  dues, taken,                 \* due ticks and measures, by source
  recorded,                    \* the sum of the d_time that were recorded
  same,                        \* how many of the last samples of the key were equal
  presses, commands

logging == <<log_state, log>>
clock == <<measCnt, measTodo, ltime, dues, taken, recorded>>
held == <<Hold, flagCntBtnPressed, cntBtnPressed>>
debounced == <<bits, debounceState, debounceCounter, copied, same>>
user == <<button, presses, commands>>
vars == <<pc, mode, timer, logging, clock, held, debounced, user>>

Bits == [KeyPressed : {0, 1}, KeyReleased : {0, 1}, KeyPrevInputValue : {0, 1}, KeyValue : {0, 1}]
NoBits == [KeyPressed |-> 0, KeyReleased |-> 0, KeyPrevInputValue |-> 0, KeyValue |-> 0]

Init ==
  /\ pc = "measure" /\ mode = "LOGGING" /\ timer = TRUE
  /\ log_state = "MOUNT_DISK" /\ log = 0
  /\ measCnt = 0 /\ measTodo = [s \in Sources |-> FALSE] /\ ltime = 0
  /\ button = 0 /\ Hold = FALSE /\ flagCntBtnPressed = FALSE /\ cntBtnPressed = 0
  /\ bits = NoBits
  /\ debounceState = "WaitChange" /\ debounceCounter = 0
  /\ copied = [bits |-> NoBits, at |-> 0]
  /\ dues = [s \in Sources |-> 0] /\ taken = [s \in Sources |-> 0] /\ recorded = 0
  /\ same = [level |-> 0, times |-> 0]
  /\ presses = 0 /\ commands = 0

(***************************************************************************)
(* The interrupt.                                                          *)
(***************************************************************************)
IsDue(s, count) == count % Period[s] = 0

SetPrevious(input) == bits' = [bits EXCEPT !.KeyPrevInputValue = input]

WaitChange(input) ==
  /\ debounceState = "WaitChange"
  /\ IF input = bits.KeyPrevInputValue THEN UNCHANGED <<bits, debounceState>>
     ELSE SetPrevious(input) /\ debounceState' = "WaitStable"
  /\ UNCHANGED debounceCounter

\* Variant: a bounce does not start the count again.
Bounce_KeepsCount(input) ==
  /\ debounceState = "WaitStable" /\ input # bits.KeyPrevInputValue
  /\ SetPrevious(input)
  /\ UNCHANGED <<debounceState, debounceCounter>>

Bounce(input) ==
  /\ debounceState = "WaitStable" /\ input # bits.KeyPrevInputValue
  /\ SetPrevious(input) /\ debounceCounter' = 0
  /\ UNCHANGED debounceState

Count(input) ==
  /\ debounceState = "WaitStable" /\ input = bits.KeyPrevInputValue
  /\ debounceCounter + 1 < MaxDebounceCount
  /\ debounceCounter' = debounceCounter + 1
  /\ UNCHANGED <<bits, debounceState>>

Stable(input) ==
  [bits EXCEPT !.KeyValue = input,
               !.KeyPressed = IF input = 0 THEN 1 ELSE @,
               !.KeyReleased = IF input = 1 THEN 1 ELSE @]

\* Variant: the count is kept when the key is stable.
Settle_KeepsCount(input) ==
  /\ debounceState = "WaitStable" /\ input = bits.KeyPrevInputValue
  /\ debounceCounter + 1 >= MaxDebounceCount
  /\ bits' = Stable(input) /\ debounceState' = "WaitChange" /\ debounceCounter' = debounceCounter + 1

Settle(input) ==
  /\ debounceState = "WaitStable" /\ input = bits.KeyPrevInputValue
  /\ debounceCounter + 1 >= MaxDebounceCount
  /\ bits' = Stable(input) /\ debounceState' = "WaitChange" /\ debounceCounter' = 0

DoDebounce(input) == WaitChange(input) \/ Bounce(input) \/ Count(input) \/ Settle(input)

\* Two interrupts are 10 ms apart, more than the write-back of the bits takes.
stateTimer_callback ==
  /\ timer /\ pc # "off" /\ measCnt < MaxTicks
  /\ pc = "writeBits" => measCnt = copied.at
  /\ measCnt' = measCnt + 1
  /\ cntBtnPressed' = cntBtnPressed + (IF flagCntBtnPressed THEN 1 ELSE 0)
  /\ DoDebounce(button)
  /\ same' = [level |-> button,
              times |-> IF button # same.level THEN 1
                        ELSE IF same.times = MaxDebounceCount THEN same.times ELSE same.times + 1]
  /\ measTodo' = [s \in Sources |-> measTodo[s] \/ IsDue(s, measCnt')]
  /\ dues' = [s \in Sources |-> dues[s] + (IF IsDue(s, measCnt') THEN 1 ELSE 0)]
  /\ UNCHANGED <<pc, mode, timer, logging, ltime, taken, recorded, Hold, flagCntBtnPressed, copied, user>>

(***************************************************************************)
(* The logging machine.  WRITING stands for the states of a record: open,  *)
(* write and close, of which the last cannot fail.  An absent card keeps   *)
(* it in MOUNT_DISK, and nothing leaves ERROR.                             *)
(***************************************************************************)
LogStates == {"MOUNT_DISK", "SET_CURRENT_DRIVE", "IDLE", "WRITING", "ERROR"}

Idle == log_state = "IDLE"

scheduleWrite == log_state' = "WRITING" /\ log' = LogSteps

LogPrepare ==
  /\ \/ log_state = "MOUNT_DISK" /\ log_state' \in {"MOUNT_DISK", "SET_CURRENT_DRIVE"}
     \/ log_state = "SET_CURRENT_DRIVE" /\ log_state' \in {"IDLE", "ERROR"}
  /\ UNCHANGED log

LogStore ==
  /\ log_state = "WRITING"
  /\ \/ log > 1 /\ log' = log - 1 /\ UNCHANGED log_state
     \/ log > 1 /\ log' = 0 /\ log_state' = "ERROR"
     \/ log = 1 /\ log' = 0 /\ log_state' = "IDLE"

LogRest == log_state \in {"IDLE", "ERROR"} /\ UNCHANGED logging

sd_fat_logging_task == LogPrepare \/ LogStore \/ LogRest

(***************************************************************************)
(* Measures.  The long read of the inertial unit is the step to "delta",   *)
(* the formatting of its record the step from "clear".                     *)
(***************************************************************************)
AwaitsMeasure(s) == measTodo[s] /\ (mode = "LOGGING" => Idle)

MeasureImu ==
  /\ pc = "measure" /\ mode \in {"LOGGING", "LIVE_IMU"} /\ AwaitsMeasure(BNO055)
  /\ pc' = "delta"
  /\ UNCHANGED <<mode, timer, logging, clock, held, debounced, user>>

\* The difference is taken modulo the width of d_time; live, it is displayed only.
DeltaTime ==
  /\ pc = "delta"
  /\ taken' = [taken EXCEPT ![BNO055] = @ + 1]
  /\ IF mode = "LOGGING"
     THEN recorded' = recorded + ((measCnt - ltime) % Wrap) /\ scheduleWrite
     ELSE UNCHANGED <<recorded, logging>>
  /\ pc' = "clear"
  /\ UNCHANGED <<mode, timer, measCnt, measTodo, ltime, dues, held, debounced, user>>

\* Variant: the flag is left as it is.
ClearTodo_Forgotten ==
  /\ pc = "clear"
  /\ pc' = "lastTime"
  /\ UNCHANGED <<mode, timer, logging, clock, held, debounced, user>>

ClearTodo ==
  /\ pc = "clear"
  /\ measTodo' = [measTodo EXCEPT ![BNO055] = FALSE]
  /\ pc' = "lastTime"
  /\ UNCHANGED <<mode, timer, logging, measCnt, ltime, dues, taken, recorded, held, debounced, user>>

AfterMeasure == IF mode = "LOGGING" THEN "log" ELSE "exit"

\* Variant: the last time is left as it is.
LastTime_Kept ==
  /\ pc = "lastTime"
  /\ ltime' = ltime
  /\ pc' = AfterMeasure
  /\ UNCHANGED <<mode, timer, logging, measCnt, measTodo, dues, taken, recorded, held, debounced, user>>

LastTime ==
  /\ pc = "lastTime"
  /\ ltime' = measCnt
  /\ pc' = AfterMeasure
  /\ UNCHANGED <<mode, timer, logging, measCnt, measTodo, dues, taken, recorded, held, debounced, user>>

\* The inertial unit comes first.
MeasureGnss ==
  /\ pc = "measure" /\ mode = "LOGGING"
  /\ ~AwaitsMeasure(BNO055) /\ AwaitsMeasure(GNSS)
  /\ taken' = [taken EXCEPT ![GNSS] = @ + 1]
  /\ scheduleWrite
  /\ pc' = "clearGnss"
  /\ UNCHANGED <<mode, timer, measCnt, measTodo, ltime, dues, recorded, held, debounced, user>>

ClearTodoGnss ==
  /\ pc = "clearGnss"
  /\ measTodo' = [measTodo EXCEPT ![GNSS] = FALSE]
  /\ pc' = "log"
  /\ UNCHANGED <<mode, timer, logging, measCnt, ltime, dues, taken, recorded, held, debounced, user>>

NothingToMeasure ==
  /\ pc = "measure" /\ mode # "SHUTDOWN"
  /\ mode # "LIVE_GNSS" => ~AwaitsMeasure(BNO055)
  /\ mode = "LOGGING" => ~AwaitsMeasure(GNSS)
  /\ pc' = AfterMeasure
  /\ UNCHANGED <<mode, timer, logging, clock, held, debounced, user>>


LoggingTask ==
  /\ pc = "log"
  /\ sd_fat_logging_task
  /\ pc' = "button"
  /\ UNCHANGED <<mode, timer, clock, held, debounced, user>>

(***************************************************************************)
(* The button, whose level is 1 while it is pressed and which is looked at *)
(* twice.  DebounceClearReleased reads the bits and writes them back; what *)
(* the interrupt stored in between is lost.                                *)
(***************************************************************************)
StartHold ==
  /\ pc = "button"
  /\ IF button = 1 \/ Hold
     THEN Hold' = TRUE /\ flagCntBtnPressed' = TRUE /\ pc' = "release"
     ELSE UNCHANGED <<Hold, flagCntBtnPressed>> /\ pc' = "poll"
  /\ UNCHANGED <<mode, timer, logging, clock, cntBtnPressed, debounced, user>>

\* Variant: the ticks go on being counted until the hold is evaluated.
Release_StillCounting ==
  /\ pc = "release"
  /\ UNCHANGED flagCntBtnPressed
  /\ pc' = IF button = 0 THEN "readBits" ELSE "poll"
  /\ UNCHANGED <<mode, timer, logging, clock, Hold, cntBtnPressed, debounced, user>>

Release ==
  /\ pc = "release"
  /\ flagCntBtnPressed' = (button = 1)
  /\ pc' = IF button = 0 THEN "readBits" ELSE "poll"
  /\ UNCHANGED <<mode, timer, logging, clock, Hold, cntBtnPressed, debounced, user>>

ReadBits ==
  /\ pc = "readBits"
  /\ copied' = [bits |-> bits, at |-> measCnt]
  /\ pc' = "writeBits"
  /\ UNCHANGED <<mode, timer, logging, clock, held, bits, debounceState, debounceCounter, same, user>>

ClearReleased ==
  /\ pc = "writeBits"
  /\ bits' = [copied.bits EXCEPT !.KeyReleased = 0]
  /\ copied' = [bits |-> NoBits, at |-> 0]
  /\ pc' = "held"
  /\ UNCHANGED <<mode, timer, logging, clock, held, debounceState, debounceCounter, same, user>>

EvaluateHold ==
  /\ pc = "held"
  /\ mode' = IF cntBtnPressed >= HoldShutdown THEN "SHUTDOWN" ELSE mode
  /\ cntBtnPressed' = 0 /\ Hold' = FALSE
  /\ pc' = "poll"
  /\ UNCHANGED <<timer, logging, clock, flagCntBtnPressed, debounced, user>>

(***************************************************************************)
(* The live modes.  stopLogging stops the timer, clears the flags and      *)
(* waits for the logging machine, for ever if that is in ERROR or the card *)
(* is absent; a hold that has begun is kept, and the live mode of the      *)
(* inertial unit starts the timer again.  A command overrides a shutdown   *)
(* decided in the same pass.                                               *)
(***************************************************************************)
Command ==
  /\ pc = "poll" /\ commands < MaxCommands
  /\ commands' = commands + 1
  /\ timer' = FALSE
  /\ measTodo' = [s \in Sources |-> FALSE]
  /\ pc' = "stop"
  /\ UNCHANGED <<mode, logging, measCnt, ltime, dues, taken, recorded, held, debounced, button, presses>>

StopLog ==
  /\ pc = "stop" /\ ~Idle
  /\ sd_fat_logging_task
  /\ UNCHANGED <<pc, mode, timer, clock, held, debounced, user>>

Stopped(live) ==
  /\ pc = "stop" /\ Idle
  /\ mode' = live /\ timer' = (live = "LIVE_IMU")
  /\ pc' = "measure"
  /\ UNCHANGED <<logging, clock, held, debounced, user>>

NoCommand ==
  /\ pc = "poll"
  /\ pc' = IF mode = "SHUTDOWN" THEN "off" ELSE "measure"
  /\ UNCHANGED <<mode, timer, logging, clock, held, debounced, user>>

ExitLive ==
  /\ pc = "exit"
  /\ mode' = "LOGGING" /\ timer' = TRUE
  /\ pc' = "measure"
  /\ UNCHANGED <<logging, clock, held, debounced, user>>

StayLive ==
  /\ pc = "exit"
  /\ pc' = "measure"
  /\ UNCHANGED <<mode, timer, logging, clock, held, debounced, user>>

PressOrRelease ==
  /\ presses < MaxPresses
  /\ button' = 1 - button /\ presses' = presses + 1
  /\ UNCHANGED <<pc, mode, timer, logging, clock, held, debounced, commands>>

Measure ==
  \/ MeasureImu \/ DeltaTime \/ ClearTodo \/ LastTime
  \/ MeasureGnss \/ ClearTodoGnss \/ NothingToMeasure

Button == StartHold \/ Release \/ ReadBits \/ ClearReleased \/ EvaluateHold

MainLoop ==
  \/ Measure \/ LoggingTask \/ Button
  \/ Command \/ StopLog
  \/ \E live \in {"LIVE_IMU", "LIVE_GNSS"} : Stopped(live)
  \/ NoCommand \/ ExitLive \/ StayLive

Next == MainLoop \/ stateTimer_callback \/ PressOrRelease

\* The interrupt always returns to the main loop.
Spec == Init /\ [][Next]_vars /\ WF_vars(MainLoop)

(***************************************************************************)
(* Properties.                                                             *)
(***************************************************************************)
LogTypeOK ==
  /\ log_state \in LogStates /\ log \in 0..LogSteps
  /\ log_state = "WRITING" => log > 0

\* Every variable has its type; the debounce counter stays below its maximum, which
\* is not tested before it is incremented again (Mc32Debounce.c).
TypeOK ==
  /\ mode \in {"LOGGING", "LIVE_IMU", "LIVE_GNSS", "SHUTDOWN"}
  /\ timer \in BOOLEAN
  /\ LogTypeOK
  /\ measCnt \in 0..MaxTicks /\ ltime \in 0..measCnt
  /\ measTodo \in [Sources -> BOOLEAN]
  /\ button \in {0, 1} /\ Hold \in BOOLEAN /\ flagCntBtnPressed \in BOOLEAN
  /\ cntBtnPressed \in 0..measCnt
  /\ bits \in Bits /\ copied \in [bits : Bits, at : 0..measCnt]
  /\ debounceState \in {"WaitChange", "WaitStable"}
  /\ debounceCounter \in 0..(MaxDebounceCount - 1)
  /\ same \in [level : {0, 1}, times : 0..MaxDebounceCount]
  /\ dues \in [Sources -> Nat] /\ taken \in [Sources -> Nat] /\ recorded \in Nat

\* The d_time of the records (app.c:294) never add up to more than the time that has
\* gone by, whenever the interrupt counts between the two reads of the counter
\* (app.c:294, 312), whatever was measured live in between, and if d_time wraps.
RecordedTimeIsPast == recorded <= measCnt

\* A source is measured at most as often as it was due: a flag that the interrupt
\* sets while the measure goes on (app.c:283-310) gives one measure or none, never two.
MeasuresAreDue ==
  \A s \in Sources : taken[s] <= dues[s]

\* While no press goes on no tick is left in the counter, nor counted (app.c:566-592):
\* presses do not add up to a shutdown.
PressesDoNotAddUp ==
  ~Hold => cntBtnPressed = 0 /\ ~flagCntBtnPressed

\* An event of the key follows MaxDebounceCount equal samples in a row or more, even
\* when the main loop writes back bits that the interrupt has changed (app.c:582).
EventsAreDebounced ==
  [][/\ bits.KeyPressed < bits'.KeyPressed => same'.level = 0 /\ same'.times = MaxDebounceCount
     /\ bits.KeyReleased < bits'.KeyReleased => same'.level = 1 /\ same'.times = MaxDebounceCount]_vars


=============================================================================
