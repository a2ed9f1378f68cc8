---------------------------- MODULE AppLogProofs ----------------------------
(***************************************************************************)
(* Proofs about the logs: what they hold, whose handle is whose, and that  *)
(* the application implements DurableLog, for every value of the           *)
(* constants.  They need that logging does not go on while the parameters  *)
(* are being written (ConfigAtRest): the code does not see to that once    *)
(* the parameters were changed, and the logs may then lose their           *)
(* integrity.  It does as long as nobody enters the configuration mode.    *)
(***************************************************************************)
EXTENDS AppProofs

ConfigDone == cfg_state \in {"IDLE", "ERROR"}

LoggingSteps == {"log", "button", "inactive", "poll", "stopConfig", "stopLog", "displayOpen",
                 "displayRead", "displayClose"}

(***************************************************************************)
(* Which of the two machines runs in which mode.  The configuration        *)
(* machine only runs while the logging machine has nothing open, and the   *)
(* other way round.                                                        *)
(***************************************************************************)
ModeInv ==
  /\ Starting => log_state = "MOUNT_DISK"
  /\ state = "CONFIGURATE_BBX" =>
       /\ log_state = "IDLE"
       /\ cfg_state \in {"IDLE", "ERROR", "OPEN_WRITE_CONFIG_FILE", "WRITE_CONFIG_FILE",
                         "CLOSE_FILE"}
  /\ pc = "configButton" => state \in {"CONFIG", "LOGGING"}
  /\ pc = "configTask" => state = "CONFIGURATE_BBX"
  /\ pc \in LoggingSteps \cup {"shutdownWait", "shutdownUnmount"} => ConfigDone
  /\ ~ConfigDone => \/ Starting \/ state = "CONFIGURATE_BBX"
                    \/ state = "SHUTDOWN" /\ log_state = "MOUNT_DISK"

\* A machine that rests stays at rest.
LEMMA ConfigRests ==
  ASSUME NEW init, sd_fat_config_task(init), ConfigDone
  PROVE  UNCHANGED <<cfgVars, fsVars>>
  BY DEF ConfigDone, sd_fat_config_task, CfgMountDisk, CfgSetCurrentDrive, CfgOpenRead, CfgRead,
         CfgOpenWrite, CfgWrite, CfgClose, CfgUnmountDisk, CfgRest

LEMMA LoggingRests ==
  ASSUME sd_fat_logging_task, log_state = "IDLE"
  PROVE  UNCHANGED <<logVars, fsVars>>
  BY DEF sd_fat_logging_task, LogMountDisk, LogSetCurrentDrive, LogOpen, LogWrite, LogClose,
         LogUnmountDisk, LogRest

\* What a step of the configuration machine makes of its state.
LEMMA ConfigTaskStates ==
  ASSUME NEW init \in BOOLEAN, sd_fat_config_task(init)
  PROVE  ~init /\ cfg_state \in {"IDLE", "ERROR", "OPEN_WRITE_CONFIG_FILE", "WRITE_CONFIG_FILE",
                                 "CLOSE_FILE"} =>
           cfg_state' \in {"IDLE", "ERROR", "OPEN_WRITE_CONFIG_FILE", "WRITE_CONFIG_FILE",
                           "CLOSE_FILE"}
  BY DEF sd_fat_config_task, CfgMountDisk, CfgSetCurrentDrive, CfgOpenRead, CfgRead,
         CfgOpenWrite, CfgWrite, CfgClose, CfgUnmountDisk, CfgRest, cfgVars

\* The step that stopLogging makes of the configuration machine changes nothing.
LEMMA StopConfigRests ==
  ASSUME ModeInv, StopConfig
  PROVE  UNCHANGED sdVars /\ state' \in {state, "LOGGING"} /\ pc' \in {"stopConfig", "stopLog"}
  <1>1. ConfigDone /\ UNCHANGED logVars
    BY DEF StopConfig, ModeInv, LoggingSteps
  <1>2. CASE cfg_state = "IDLE"
    BY <1>1, <1>2 DEF StopConfig, sdVars
  <1>3. CASE cfg_state = "ERROR"
    <2>1. sd_fat_cfg_init("stopConfig") /\ sd_fat_config_task(TRUE)
      BY <1>3 DEF StopConfig, sd_fat_cfg_init
    <2>2. UNCHANGED <<cfgVars, fsVars>>
      BY <1>1, <2>1, ConfigRests
    <2>3. cfg_state' = "ERROR"
      BY <1>3, <2>2 DEF cfgVars
    <2> QED
      BY <1>1, <2>1, <2>2, <2>3 DEF sd_fat_cfg_init, sdVars
  <1> QED
    BY <1>1, <1>2, <1>3 DEF ConfigDone

\* Each step of the main loop keeps ModeInv.
LEMMA MainLoopModeInv ==
  ASSUME BootInv, PowerInv, ModeInv, ConfigAtRest, ConfigAtRest', MainLoop
  PROVE  ModeInv'
  <1> USE DEF BootInv, PowerInv, ModeInv, ConfigAtRest, ConfigDone, Starting, LoggingSteps,
              ShutdownSteps, cfgVars, logVars, sdVars
  <1>1. CASE TaskInit
    BY <1>1 DEF TaskInit
  <1>2. CASE TaskConfig
    BY <1>2 DEF TaskConfig, sd_fat_cfg_init
  <1>3. CASE ConfigButton
    BY <1>3 DEF ConfigButton
  <1>4. CASE TaskMeasure
    BY <1>4 DEF TaskMeasure
  <1>5. CASE TaskLog
    BY <1>5, LoggingRests DEF TaskLog
  <1>6. CASE btnTaskGest
    BY <1>6 DEF btnTaskGest
  <1>7. CASE TaskInactive
    BY <1>7 DEF TaskInactive
  <1>8. CASE PollMiss
    BY <1>8 DEF PollMiss, Poll, NextCommand
  <1>9. CASE PollShutdown
    BY <1>9 DEF PollShutdown, Poll, NextCommand
  <1>10. CASE PollStop
    BY <1>10 DEF PollStop, Poll
  <1>11. CASE PollDisplay
    BY <1>11 DEF PollDisplay, Poll
  <1>12. CASE PollClear
    BY <1>12 DEF PollClear, Poll, NextCommand
  <1>13. CASE StopConfig
    BY <1>13, StopConfigRests DEF StopConfig
  <1>14. CASE StopLog
    BY <1>14, LoggingRests DEF StopLog, appVars
  <1>15. CASE Stopped
    BY <1>15 DEF Stopped, NextCommand
  <1>16. CASE DisplayOpen
    BY <1>16 DEF DisplayOpen
  <1>17. CASE DisplayRead
    BY <1>17 DEF DisplayRead
  <1>18. CASE DisplayClose
    BY <1>18 DEF DisplayClose, NextCommand
  <1>19. CASE TaskLive
    BY <1>19 DEF TaskLive, startLogging
  <1>20. CASE TaskConfigure
    <2>1. cfg_state' \in {cfg_state, "OPEN_WRITE_CONFIG_FILE"}
      BY <1>20 DEF TaskConfigure, CFG_Write
    <2>2. state' \in {state, "LOGGING"} /\ pc' \in {pc, "configTask"} /\ UNCHANGED logVars
          /\ (pc' = "configTask" => state' = state) /\ pc = "task" /\ state = "CONFIGURATE_BBX"
      BY <1>20 DEF TaskConfigure, startLogging
    <2> QED
      BY <2>1, <2>2
  <1>21. CASE ConfigTask
    BY <1>21, ConfigTaskStates DEF ConfigTask
  <1>22. CASE Shutdown
    BY <1>22 DEF Shutdown
  <1>23. CASE ShutdownWait
    BY <1>23 DEF ShutdownWait
  <1>24. CASE ShutdownUnmount
    BY <1>24 DEF ShutdownUnmount
  <1>25. CASE ShutdownOff
    BY <1>25 DEF ShutdownOff
  <1> QED
    BY <1>1, <1>2, <1>3, <1>4, <1>5, <1>6, <1>7, <1>8, <1>9, <1>10, <1>11, <1>12, <1>13, <1>14, <1>15, <1>16, <1>17, <1>18, <1>19, <1>20, <1>21, <1>22, <1>23, <1>24, <1>25 DEF MainLoop

\* So does each step of the interrupt, the user and the power supply.
LEMMA EnvironmentModeInv ==
  ASSUME ModeInv,
         \/ stateTimer_callback \/ stateTimer_trap \/ PressOrRelease \/ Type \/ PowerLoss
         \/ UNCHANGED vars
  PROVE  ModeInv'
  <1> USE DEF ModeInv, ConfigDone, Starting, LoggingSteps
  <1>1. CASE stateTimer_callback \/ PressOrRelease \/ Type \/ UNCHANGED vars
    BY <1>1 DEF stateTimer_callback, PressOrRelease, Type, vars, appVars, sdVars, cfgVars, logVars
  <1>2. CASE stateTimer_trap
    BY <1>2 DEF stateTimer_trap, sdVars, cfgVars, logVars
  <1>3. CASE PowerLoss
    BY <1>3 DEF PowerLoss, SdPowerLoss
  <1> QED
    BY <1>1, <1>2, <1>3

LEMMA ModeInvInvariant == Spec /\ []ConfigAtRest => []ModeInv
  <1>1. Init => ModeInv
    BY DEF Init, InitSdRam, ModeInv, Starting, ConfigDone, LoggingSteps
  <1>2. ASSUME BootInv, PowerInv, ModeInv, ConfigAtRest, ConfigAtRest', [Next]_vars
        PROVE  ModeInv'
    BY <1>2, MainLoopModeInv, EnvironmentModeInv DEF Next
  <1> QED
    BY <1>1, <1>2, BootInvInvariant, PowerInvInvariant, PTL DEF Spec

(***************************************************************************)
(* What the card holds.                                                    *)
(***************************************************************************)

\* An open file that will be stored is the log of the record, ...
LogSlot(h) ==
  /\ h = fileMeasureHandle /\ log_state \in {"WRITE_TO_MEASURE_FILE", "CLOSE_FILE"}
  /\ slots[h].file \in {fileName, Deleted} /\ slots[h].mode = "append"
  /\ slots[h].buf = IF log_state = "CLOSE_FILE" THEN data ELSE <<>>

\* ... or the file of the parameters.
CfgSlot(h) ==
  /\ h = fileCfgHandle /\ cfg_state \in {"WRITE_CONFIG_FILE", "CLOSE_FILE"}
  /\ slots[h].file = Config /\ slots[h].mode = "write"
  /\ slots[h].buf = IF cfg_state = "CLOSE_FILE" THEN cfg_data ELSE <<>>

ToBeStored(h) == InUse(h) /\ slots[h].mode # "read"

SlotInv ==
  /\ \A h \in Handles : ToBeStored(h) => LogSlot(h) \/ CfgSlot(h)
  /\ Writing => data = <<Record(fileName, measures)>>
  /\ \/ cfg_state \in {"OPEN_WRITE_CONFIG_FILE", "WRITE_CONFIG_FILE"}
     \/ \E h \in Handles : ToBeStored(h) /\ slots[h].mode = "write"
     => \E s \in Settings : cfg_data = <<CfgText(s)>>

\* The record of the last measure has not been stored.
Unstored == \/ log_state = "WRITE_MEASURE_FILE"
            \/ \E h \in Handles : ToBeStored(h) /\ slots[h].mode = "append"

\* A log holds records of its source, in their order, and none is later than the
\* last measure that was stored.
LogKept(f) ==
  /\ \A i \in DOMAIN card[f] :
       /\ card[f][i] \in [rec : Nat, src : {f}]
       /\ card[f][i].rec <= measures
       /\ Unstored => card[f][i].rec < measures
  /\ \A i, j \in DOMAIN card[f] : i < j => card[f][i].rec < card[f][j].rec

LogInv == SlotInv /\ (\A f \in LogFiles : LogKept(f)) /\ ConfigWellFormed

ConfigText(c) == c \in {<<>>, <<Unterminated>>} \cup {<<CfgText(s)>> : s \in Settings}

\* A step that only appends the record to its log, or empties a log, keeps the logs.
LEMMA LogInvStep ==
  ASSUME TypeOK, LogInv, SlotInv', UNCHANGED measures, ConfigText(card'[Config]),
         Unstored' => Unstored,
         \A f \in LogFiles : \/ card'[f] \in {card[f], <<>>}
                             \/ /\ Unstored /\ ~Unstored'
                                /\ card'[f] = card[f] \o <<Record(f, measures)>>
  PROVE  LogInv'
  <1>1. ASSUME NEW f \in LogFiles PROVE LogKept(f)'
    <2>1. LogKept(f) /\ card[f] \in Seq(Texts) /\ measures \in Nat
      BY DEF LogInv, TypeOK, SdTypeOK, Files
    <2>2. CASE card'[f] = card[f]
      BY <2>1, <2>2 DEF LogKept
    <2>3. CASE card'[f] = <<>>
      BY <2>3 DEF LogKept
    <2>4. CASE Unstored /\ ~Unstored' /\ card'[f] = card[f] \o <<Record(f, measures)>>
      <3> DEFINE n == Len(card[f])
                 r == Record(f, measures)
      <3>1. n \in Nat /\ DOMAIN card[f] = 1..n
        BY <2>1, LenProperties
      <3>2. /\ DOMAIN card'[f] = 1..(n + 1)
            /\ \A i \in 1..n : card'[f][i] = card[f][i]
            /\ card'[f][n + 1] = r
        <4>1. Append(card[f], r) = card[f] \o <<r>>
          BY <2>1, AppendIsConcat, RecordType
        <4>2. r \in Texts
          BY <2>1 DEF Texts, Record
        <4>3. /\ Len(Append(card[f], r)) = n + 1
              /\ \A i \in 1..n : Append(card[f], r)[i] = card[f][i]
              /\ Append(card[f], r)[n + 1] = r
              /\ DOMAIN Append(card[f], r) = 1..(n + 1)
          BY <2>1, <4>2, AppendProperties, LenProperties
        <4> QED
          BY <2>4, <4>1, <4>3
      <3>3. r \in [rec : Nat, src : {f}] /\ r.rec = measures
        BY <2>1 DEF Record
      <3>4. \A i \in 1..n : card[f][i] \in [rec : Nat, src : {f}] /\ card[f][i].rec < measures
        BY <2>1, <2>4, <3>1 DEF LogKept
      <3>5. \A i, j \in 1..n : i < j => card[f][i].rec < card[f][j].rec
        BY <2>1, <3>1 DEF LogKept
      <3> HIDE DEF n, r
      <3>6. \A i \in 1..(n + 1) : i \in 1..n \/ i = n + 1
        BY <3>1
      <3>7. \A i \in 1..(n + 1) : /\ card'[f][i] \in [rec : Nat, src : {f}]
                                  /\ card'[f][i].rec <= measures
        BY <2>1, <3>2, <3>3, <3>4, <3>6
      <3>8. \A i, j \in 1..(n + 1) : i < j => card'[f][i].rec < card'[f][j].rec
        <4> SUFFICES ASSUME NEW i \in 1..(n + 1), NEW j \in 1..(n + 1), i < j
                     PROVE  card'[f][i].rec < card'[f][j].rec
          OBVIOUS
        <4>1. i \in 1..n /\ card'[f][i] = card[f][i]
          BY <3>1, <3>2
        <4>2. CASE j \in 1..n
          BY <3>2, <3>5, <4>1, <4>2
        <4>3. CASE j = n + 1
          BY <3>2, <3>3, <3>4, <4>1, <4>3
        <4> QED
          BY <3>6, <4>2, <4>3
      <3> QED
        BY <2>4, <3>2, <3>7, <3>8 DEF LogKept
    <2> QED
      BY <2>2, <2>3, <2>4
  <1> QED
    BY <1>1 DEF LogInv, ConfigWellFormed, ConfigText

\* What an open file that is never stored leaves of the card.
LEMMA TruncatedCard ==
  ASSUME TypeOK, SlotInv
  PROVE  /\ \A f \in LogFiles : Truncated[f] = card[f]
         /\ Truncated[Config] \in {card[Config], <<>>}
  <1>1. ASSUME NEW f \in LogFiles, NEW h \in Handles
        PROVE  ~(slots[h].file = f /\ slots[h].mode = "write")
    BY DEF SlotInv, ToBeStored, InUse, LogSlot, CfgSlot, LogFiles, Config, NoFile
  <1> QED
    BY <1>1 DEF Truncated, Files

\* Closing a file stores the record in its log, the parameters in their file, or nothing.
LEMMA CloseAsCard ==
  ASSUME TypeOK, LogInv, NEW stored, NEW h, CloseAs(stored, h)
  PROVE  /\ \A f \in LogFiles :
              \/ card'[f] = card[f]
              \/ /\ LogSlot(h) /\ InUse(h) /\ log_state = "CLOSE_FILE"
                 /\ card'[f] = card[f] \o <<Record(f, measures)>>
         /\ ConfigText(card'[Config])
         /\ \A k \in Handles : ToBeStored(k)' => k # h /\ slots'[k] = slots[k] /\ ToBeStored(k)
  <1>0. ConfigText(card[Config])
    BY DEF LogInv, ConfigWellFormed, ConfigText
  <1>1. CASE ~InUse(h)
    BY <1>0, <1>1 DEF CloseAs, ToBeStored, InUse
  <1>2. CASE InUse(h)
    <2>1. h \in Handles /\ FsTypeOK
      BY <1>2, TypeParts DEF InUse
    <2>2. \A k \in Handles : ToBeStored(k)' => k # h /\ slots'[k] = slots[k] /\ ToBeStored(k)
      BY <1>2, <2>1 DEF CloseAs, ToBeStored, InUse, FreeSlot, FsTypeOK
    <2>3. CASE card' = [f \in Files |-> Stored(h, f)]
      <3>1. slots[h].mode \in Modes /\ slots[h].buf \in Seq(Texts)
            /\ \A f \in Files : card[f] \in Seq(Texts)
        BY <2>1 DEF FsTypeOK, Slots
      <3>2. \A f \in Files : /\ card'[f] = Stored(h, f)
                             /\ slots[h].file # f => card'[f] = card[f]
        <4>1. \A f \in Files : card'[f] = Stored(h, f)
          BY <2>3
        <4>2. \A f \in Files : slots[h].file # f => Stored(h, f) = card[f]
          BY DEF Stored
        <4> QED
          BY <4>1, <4>2
      <3>3. Config \in Files /\ \A f \in LogFiles : f \in Files /\ f # Config /\ f # Deleted
        BY DEF Files, LogFiles, Config, Deleted
      <3>4. CASE slots[h].mode = "read"
        BY <1>0, <2>2, <3>4, <3>2, <3>3 DEF Stored
      <3>5. CASE slots[h].mode # "read" /\ LogSlot(h)
        <4>1. \A f \in Files : f # fileName => card'[f] = card[f]
          <5>1. Deleted \notin Files
            BY DEF Files, LogFiles, Config, Deleted
          <5> QED
            BY <3>5, <3>2, <5>1 DEF LogSlot
        <4>2. fileName \in LogFiles /\ fileName # Config
          BY <3>3 DEF TypeOK, SdTypeOK
        <4>3. CASE slots[h].file = Deleted
          <5>1. Deleted # Config
            BY DEF Deleted, Config
          <5> QED
            BY <1>0, <2>2, <3>2, <3>3, <4>3, <5>1
        <4>4. CASE slots[h].file = fileName
          <5>1. card'[fileName] = card[fileName] \o slots[h].buf
            BY <3>5, <3>2, <3>3, <4>2, <4>4 DEF Stored, LogSlot
          <5>2. CASE log_state = "CLOSE_FILE"
            <6>1. slots[h].buf = <<Record(fileName, measures)>>
              BY <3>5, <5>2 DEF LogSlot, LogInv, SlotInv, Writing
            <6> QED
              BY <1>0, <1>2, <2>2, <3>5, <4>1, <4>2, <5>1, <5>2, <6>1 DEF Files
          <5>3. CASE log_state # "CLOSE_FILE"
            <6>1. card'[fileName] = card[fileName]
              BY <3>1, <3>5, <4>2, <5>1, <5>3, ConcatEmptySeq DEF LogSlot, Files
            <6> QED
              BY <1>0, <2>2, <4>1, <4>2, <6>1 DEF Files
          <5> QED
            BY <5>2, <5>3
        <4> QED
          BY <3>5, <4>3, <4>4 DEF LogSlot
      <3>6. CASE slots[h].mode # "read" /\ CfgSlot(h)
        <4>1. \A f \in LogFiles : card'[f] = card[f]
          BY <3>6, <3>2, <3>3 DEF CfgSlot
        <4>2. card'[Config] = slots[h].buf
          BY <3>6, <3>2, <3>3 DEF Stored, CfgSlot
        <4>3. \E s \in Settings : cfg_data = <<CfgText(s)>>
          BY <1>2, <2>1, <3>6 DEF LogInv, SlotInv, ToBeStored, CfgSlot
        <4> QED
          BY <2>2, <3>6, <4>1, <4>2, <4>3 DEF CfgSlot, ConfigText
      <3> QED
        BY <1>2, <2>1, <3>4, <3>5, <3>6 DEF LogInv, SlotInv, ToBeStored
    <2>4. CASE card' \in {card, Truncated}
      BY <1>0, <2>2, <2>4, TruncatedCard DEF LogInv, ConfigText
    <2> QED
      BY <1>2, <2>3, <2>4 DEF CloseAs
  <1> QED
    BY <1>1, <1>2

\* The entry of the table that an opening takes was free.
LEMMA OpenedSlot ==
  ASSUME FsTypeOK, NEW ok \in BOOLEAN, NEW f, NEW mode, FileOpen(ok, f, mode)
  PROVE  /\ ok => FirstFree \in Handles /\ slots[FirstFree].file = NoFile
         /\ \A h \in Handles :
              slots'[h] = IF ok /\ h = FirstFree THEN [file |-> f, mode |-> mode, buf |-> <<>>]
                          ELSE slots[h]
  <1>1. ok => FirstFree \in Handles /\ slots[FirstFree].file = NoFile
    BY FirstFreeIsFree DEF FileOpen, Result, FreeHandles
  <1> QED
    BY <1>1 DEF FileOpen, FsTypeOK

\* An unmount while nothing is open that would be stored.
LEMMA UnmountLog ==
  ASSUME TypeOK, LogInv, NEW ok \in BOOLEAN, Unmount(ok),
         \A h \in Handles : ~ToBeStored(h)
  PROVE  /\ \A h \in Handles : ~ToBeStored(h)'
         /\ \A f \in LogFiles : card'[f] = card[f]
         /\ ConfigText(card'[Config])
  <1>1. ASSUME NEW h \in Handles PROVE ~ToBeStored(h)'
    <2>1. slots[h] \in Slots
      BY TypeParts DEF FsTypeOK
    <2>2. \/ slots'[h] = FreeSlot
          \/ slots'[h] = slots[h]
          \/ slots'[h] = [slots[h] EXCEPT !.buf = <<>>]
      BY DEF Unmount
    <2>3. \/ slots'[h] = FreeSlot
          \/ slots'[h].file = slots[h].file /\ slots'[h].mode = slots[h].mode
      BY <2>1, <2>2 DEF Slots
    <2> QED
      BY <2>3 DEF ToBeStored, InUse, FreeSlot
  <1>2. card' \in {card, Truncated}
    BY DEF Unmount, CardLeft
  <1> QED
    BY <1>1, <1>2, TruncatedCard DEF LogInv, ConfigWellFormed, ConfigText

\* Nothing changes on the card or in what the machines hold.
LEMMA SameLogs ==
  ASSUME LogInv, UNCHANGED <<logVars, cfgVars, fsVars, measures>>
  PROVE  LogInv'
  BY DEF LogInv, SlotInv, ToBeStored, InUse, LogSlot, CfgSlot, Writing, LogKept, Unstored,
         ConfigWellFormed, logVars, cfgVars, fsVars

\* What holds while the logging machine has nothing open: a file that will be stored
\* is the one of the parameters.
LEMMA ConfigOnly ==
  ASSUME LogInv, log_state \notin {"WRITE_MEASURE_FILE", "WRITE_TO_MEASURE_FILE", "CLOSE_FILE"}
  PROVE  /\ \A h \in Handles : ToBeStored(h) => CfgSlot(h)
         /\ ~Unstored /\ ~Writing
  BY DEF LogInv, SlotInv, LogSlot, CfgSlot, Unstored, Writing

\* A step of the configuration machine while the logging machine has nothing open: the
\* file of the parameters may change, the logs do not.
LEMMA ConfigOnlyStep ==
  ASSUME TypeOK, LogInv, UNCHANGED <<logVars, measures>>,
         log_state \notin {"WRITE_MEASURE_FILE", "WRITE_TO_MEASURE_FILE", "CLOSE_FILE"},
         \A f \in LogFiles : card'[f] = card[f],
         ConfigText(card'[Config]),
         \A h \in Handles : ToBeStored(h)' => CfgSlot(h)',
         \/ cfg_state' \in {"OPEN_WRITE_CONFIG_FILE", "WRITE_CONFIG_FILE"}
         \/ \E h \in Handles : ToBeStored(h)'
         => \E s \in Settings : cfg_data' = <<CfgText(s)>>
  PROVE  LogInv' /\ \A f \in LogFiles : card'[f] = card[f]
  <1>1. SlotInv'
    BY DEF SlotInv, Writing, logVars
  <1>2. ~Unstored'
    BY DEF Unstored, CfgSlot, logVars
  <1> QED
    BY <1>1, <1>2, LogInvStep DEF logVars

\* Closing a file while the logging machine has nothing open.
LEMMA ConfigClose ==
  ASSUME TypeOK, LogInv, NEW stored, NEW h, CloseAs(stored, h),
         log_state \notin {"WRITE_MEASURE_FILE", "WRITE_TO_MEASURE_FILE", "CLOSE_FILE"}
  PROVE  /\ \A f \in LogFiles : card'[f] = card[f]
         /\ ConfigText(card'[Config])
         /\ \A k \in Handles : ToBeStored(k)' => k # h /\ CfgSlot(k) /\ ToBeStored(k)
  BY CloseAsCard, ConfigOnly

LEMMA ConfigTaskLog ==
  ASSUME TypeOK, LogInv, UNCHANGED <<logVars, measures>>, NEW init, sd_fat_config_task(init),
         log_state \notin {"WRITE_MEASURE_FILE", "WRITE_TO_MEASURE_FILE", "CLOSE_FILE"}
  PROVE  LogInv' /\ \A f \in LogFiles : card'[f] = card[f]
  <1>1. /\ \A h \in Handles : ToBeStored(h) => CfgSlot(h)
        /\ ConfigText(card[Config])
        /\ \/ cfg_state \in {"OPEN_WRITE_CONFIG_FILE", "WRITE_CONFIG_FILE"}
           \/ \E h \in Handles : ToBeStored(h)
           => \E s \in Settings : cfg_data = <<CfgText(s)>>
    BY ConfigOnly DEF LogInv, SlotInv, CfgSlot, ConfigWellFormed, ConfigText
  <1>2. FsTypeOK /\ CfgTypeOK
    BY TypeParts
  <1>3. CASE CfgMountDisk \/ CfgSetCurrentDrive(init) \/ CfgRest
    <2>1. /\ UNCHANGED <<slots, card, cfg_data, fileCfgHandle>>
          /\ cfg_state \notin {"WRITE_CONFIG_FILE", "CLOSE_FILE"}
          /\ cfg_state' \notin {"OPEN_WRITE_CONFIG_FILE", "WRITE_CONFIG_FILE"}
      BY <1>3 DEF CfgMountDisk, Mount, CfgSetCurrentDrive, CurrentDriveSet, CfgRest, cfgVars, fsVars
    <2>2. \A h \in Handles : ~ToBeStored(h)'
      BY <1>1, <2>1 DEF ToBeStored, InUse, CfgSlot
    <2> QED
      BY <1>1, <2>1, <2>2, ConfigOnlyStep
  <1>4. CASE CfgOpenRead
    <2>1. PICK ok \in BOOLEAN :
            /\ FileOpen(ok, Config, "read")
            /\ IF ok
               THEN cfg_state' = "READ_CONFIG_FILE" /\ UNCHANGED cfg_data
               ELSE cfg_state' = "OPEN_WRITE_CONFIG_FILE" /\ cfg_data' = <<CfgText(Defaults)>>
      BY <1>4 DEF CfgOpenRead
    <2>2. \A h \in Handles : ~ToBeStored(h)
      BY <1>1, <1>4 DEF CfgOpenRead, CfgSlot
    <2>3. \A h \in Handles : ~ToBeStored(h)'
      <3>1. \A h \in Handles :
              slots'[h] = IF ok /\ h = FirstFree
                          THEN [file |-> Config, mode |-> "read", buf |-> <<>>] ELSE slots[h]
        BY <1>2, <2>1, OpenedSlot
      <3> QED
        BY <2>2, <3>1 DEF ToBeStored, InUse
    <2> QED
      BY <1>1, <2>1, <2>3, SdFatAssumption, ConfigOnlyStep DEF FileOpen
  <1>5. CASE CfgRead
    <2>1. cfg_state = "READ_CONFIG_FILE" /\ cfg_state' \in {"CLOSE_FILE", "ERROR"}
      BY <1>5 DEF CfgRead
    <2>2. \A h \in Handles : ~ToBeStored(h)
      BY <1>1, <2>1 DEF CfgSlot
    <2>3. CASE FileRead(TRUE, fileCfgHandle)
      BY <1>1, <2>1, <2>2, <2>3, ConfigOnlyStep DEF FileRead, ToBeStored, InUse
    <2>4. CASE FailAndClose(mounted /\ InUse(fileCfgHandle), fileCfgHandle)
      <3>1. /\ \A f \in LogFiles : card'[f] = card[f]
            /\ ConfigText(card'[Config])
            /\ \A k \in Handles : ~ToBeStored(k)'
        BY <2>2, <2>4, ConfigClose DEF FailAndClose
      <3> QED
        BY <2>1, <3>1, ConfigOnlyStep
    <2> QED
      BY <1>5, <2>3, <2>4 DEF CfgRead
  <1>6. CASE CfgOpenWrite
    <2>1. PICK ok \in BOOLEAN :
            /\ FileOpen(ok, Config, "write")
            /\ fileCfgHandle' = OpenedHandle(ok)
            /\ cfg_state' = IF ok THEN "WRITE_CONFIG_FILE" ELSE "ERROR"
            /\ cfg_data' = cfg_data
            /\ cfg_state = "OPEN_WRITE_CONFIG_FILE"
      BY <1>6 DEF CfgOpenWrite
    <2>2. \A h \in Handles : ~ToBeStored(h)
      BY <1>1, <2>1 DEF CfgSlot
    <2>3. \A h \in Handles : ToBeStored(h)' => CfgSlot(h)'
      <3>1. \A h \in Handles :
              slots'[h] = IF ok /\ h = FirstFree
                          THEN [file |-> Config, mode |-> "write", buf |-> <<>>] ELSE slots[h]
        BY <1>2, <2>1, OpenedSlot
      <3>2. \A h \in Handles : ToBeStored(h)' => ok /\ h = FirstFree
        BY <2>2, <3>1 DEF ToBeStored, InUse
      <3> QED
        BY <2>1, <3>1, <3>2 DEF CfgSlot, OpenedHandle
    <2>4. card' = card
      BY <2>1 DEF FileOpen
    <2> QED
      BY <1>1, <2>1, <2>3, <2>4, ConfigOnlyStep
  <1>7. CASE CfgWrite
    <2>1. cfg_state = "WRITE_CONFIG_FILE" /\ UNCHANGED <<fileCfgHandle, cfg_data>>
      BY <1>7 DEF CfgWrite
    <2>2. CASE FileStringPut(fileCfgHandle, cfg_data) /\ cfg_state' = "CLOSE_FILE"
      <3>1. ToBeStored(fileCfgHandle) /\ fileCfgHandle \in Handles
        BY <2>2 DEF FileStringPut, Result, CanPut, ToBeStored, InUse
      <3>2. CfgSlot(fileCfgHandle)
        BY <1>1, <3>1
      <3>3. slots[fileCfgHandle] \in Slots /\ slots \in [Handles -> Slots] /\ cfg_data \in Seq(Texts)
        BY <1>2, <3>1 DEF FsTypeOK, CfgTypeOK
      <3>4. /\ slots'[fileCfgHandle].file = slots[fileCfgHandle].file
            /\ slots'[fileCfgHandle].mode = slots[fileCfgHandle].mode
            /\ slots'[fileCfgHandle].buf = slots[fileCfgHandle].buf \o cfg_data
            /\ \A h \in Handles : h # fileCfgHandle => slots'[h] = slots[h]
        BY <2>2, <3>1, <3>3 DEF FileStringPut, Slots
      <3>5. slots[fileCfgHandle].buf \o cfg_data = cfg_data
        BY <2>1, <3>2, <3>3, ConcatEmptySeq DEF CfgSlot
      <3>6. \A h \in Handles : ToBeStored(h)' => CfgSlot(h)'
        BY <1>1, <2>1, <2>2, <3>2, <3>4, <3>5 DEF ToBeStored, InUse, CfgSlot
      <3> QED
        BY <1>1, <2>1, <2>2, <3>6, ConfigOnlyStep DEF FileStringPut
    <2>3. CASE FailAndClose(CanPut(fileCfgHandle), fileCfgHandle) /\ cfg_state' = "ERROR"
      <3>1. /\ \A f \in LogFiles : card'[f] = card[f]
            /\ ConfigText(card'[Config])
            /\ \A k \in Handles : ~ToBeStored(k)'
        BY <2>3, ConfigClose DEF FailAndClose, CfgSlot
      <3> QED
        BY <2>1, <2>3, <3>1, ConfigOnlyStep
    <2> QED
      BY <1>7, <2>2, <2>3 DEF CfgWrite
  <1>8. CASE CfgClose(init)
    <2>1. /\ \A f \in LogFiles : card'[f] = card[f]
          /\ ConfigText(card'[Config])
          /\ \A k \in Handles : ~ToBeStored(k)'
      BY <1>8, ConfigClose DEF CfgClose, FileClose, CfgSlot
    <2> QED
      BY <1>8, <2>1, ConfigOnlyStep DEF CfgClose
  <1>9. CASE CfgUnmountDisk
    <2>1. PICK ok \in BOOLEAN : Unmount(ok) /\ cfg_state' = IF ok THEN "IDLE" ELSE "UNMOUNT_DISK"
      BY <1>9 DEF CfgUnmountDisk
    <2>2. \A h \in Handles : ~ToBeStored(h)
      BY <1>1, <1>9 DEF CfgUnmountDisk, CfgSlot
    <2>3. /\ \A h \in Handles : ~ToBeStored(h)'
          /\ \A f \in LogFiles : card'[f] = card[f]
          /\ ConfigText(card'[Config])
      BY <1>1, <2>1, <2>2, UnmountLog
    <2> QED
      BY <2>1, <2>3, ConfigOnlyStep
  <1> QED
    BY <1>3, <1>4, <1>5, <1>6, <1>7, <1>8, <1>9 DEF sd_fat_config_task

\* sd_CFG_Write while the logging machine has nothing open.
LEMMA CFG_WriteLog ==
  ASSUME TypeOK, LogInv, UNCHANGED <<logVars, measures>>, NEW s \in Settings, CFG_Write(s),
         log_state \notin {"WRITE_MEASURE_FILE", "WRITE_TO_MEASURE_FILE", "CLOSE_FILE"}
  PROVE  LogInv' /\ \A f \in LogFiles : card'[f] = card[f]
  <1>1. CASE cfg_state \in {"IDLE", "OPEN_READ_CONFIG_FILE"}
    <2>1. PICK ok \in BOOLEAN : CloseAs(ok, fileCfgHandle)
      BY <1>1 DEF CFG_Write, FileClose
    <2>2. /\ \A f \in LogFiles : card'[f] = card[f]
          /\ ConfigText(card'[Config])
          /\ \A k \in Handles : ~ToBeStored(k)'
      BY <1>1, <2>1, ConfigClose DEF CfgSlot
    <2>3. cfg_data' = <<CfgText(s)>>
      BY <1>1 DEF CFG_Write
    <2> QED
      BY <2>2, <2>3, ConfigOnlyStep
  <1>2. CASE cfg_state \notin {"IDLE", "OPEN_READ_CONFIG_FILE"}
    BY <1>2, SameLogs DEF CFG_Write, fsVars
  <1> QED
    BY <1>1, <1>2

\* What holds while the configuration machine rests: a file that will be stored is
\* the log of the record.
LEMMA LogOnly ==
  ASSUME LogInv, ConfigDone
  PROVE  /\ \A h \in Handles : ToBeStored(h) => LogSlot(h)
         /\ \A h \in Handles : ~CfgSlot(h)
  BY DEF LogInv, SlotInv, CfgSlot, ConfigDone

\* Closing a file while the configuration machine rests; the state of the logging
\* machine is then one in which it has nothing to store.
LEMMA LoggingClose ==
  ASSUME TypeOK, LogInv, ConfigDone, UNCHANGED <<cfgVars, data, fileName, fileMeasureHandle, measures>>,
         NEW stored, CloseAs(stored, fileMeasureHandle),
         \/ log_state' = log_state
         \/ log_state' \notin {"WRITE_MEASURE_FILE", "WRITE_TO_MEASURE_FILE", "CLOSE_FILE"}
  PROVE  LogInv'
  <1>1. /\ \A f \in LogFiles :
              \/ card'[f] = card[f]
              \/ /\ LogSlot(fileMeasureHandle) /\ InUse(fileMeasureHandle)
                 /\ log_state = "CLOSE_FILE"
                 /\ card'[f] = card[f] \o <<Record(f, measures)>>
        /\ ConfigText(card'[Config])
        /\ \A k \in Handles :
             ToBeStored(k)' => k # fileMeasureHandle /\ slots'[k] = slots[k] /\ ToBeStored(k)
    BY CloseAsCard
  <1>2. \A k \in Handles : ~ToBeStored(k)'
    BY <1>1, LogOnly DEF LogSlot
  <1>3. SlotInv'
    BY <1>2 DEF SlotInv, LogInv, Writing, ConfigDone, cfgVars
  <1>4. Unstored' => Unstored
    BY <1>2 DEF Unstored
  <1>5. ASSUME LogSlot(fileMeasureHandle), InUse(fileMeasureHandle), log_state = "CLOSE_FILE"
        PROVE  Unstored /\ ~Unstored'
    BY <1>2, <1>5 DEF Unstored, ToBeStored, LogSlot, InUse
  <1> QED
    BY <1>1, <1>3, <1>4, <1>5, LogInvStep

\* A step of the logging machine while the configuration machine rests.
LEMMA LoggingTaskLog ==
  ASSUME TypeOK, LogInv, ConfigDone, UNCHANGED <<cfgVars, measures>>, sd_fat_logging_task
  PROVE  LogInv'
  <1>1. /\ \A h \in Handles : ToBeStored(h) => LogSlot(h)
        /\ ConfigText(card[Config])
        /\ Writing => data = <<Record(fileName, measures)>>
        /\ FsTypeOK /\ LogTypeOK
    BY LogOnly, TypeParts DEF LogInv, SlotInv, ConfigWellFormed, ConfigText
  <1>2. CASE LogMountDisk \/ LogSetCurrentDrive \/ LogRest
    <2>1. /\ UNCHANGED <<slots, card, data, fileName, fileMeasureHandle>>
          /\ log_state \in {"MOUNT_DISK", "SET_CURRENT_DRIVE", "IDLE", "ERROR"}
          /\ log_state' \in {"MOUNT_DISK", "SET_CURRENT_DRIVE", "IDLE", "ERROR"}
      BY <1>2 DEF LogMountDisk, Mount, LogSetCurrentDrive, CurrentDriveSet, LogRest, logVars, fsVars
    <2>2. \A h \in Handles : ~ToBeStored(h)'
      BY <1>1, <2>1 DEF ToBeStored, InUse, LogSlot
    <2>3. SlotInv' /\ ~Unstored'
      BY <2>1, <2>2 DEF SlotInv, Unstored, Writing, ConfigDone, cfgVars
    <2> QED
      BY <1>1, <2>1, <2>3, LogInvStep
  <1>3. CASE LogOpen
    <2>1. PICK ok \in BOOLEAN :
            /\ log_state = "WRITE_MEASURE_FILE"
            /\ FileOpen(ok, fileName, "append")
            /\ fileMeasureHandle' = OpenedHandle(ok)
            /\ log_state' = IF ok THEN "WRITE_TO_MEASURE_FILE" ELSE "ERROR"
            /\ UNCHANGED <<data, fileName>>
      BY <1>3 DEF LogOpen
    <2>2. \A h \in Handles : ~ToBeStored(h)
      BY <1>1, <2>1 DEF LogSlot
    <2>3. \A h \in Handles :
            slots'[h] = IF ok /\ h = FirstFree
                        THEN [file |-> fileName, mode |-> "append", buf |-> <<>>] ELSE slots[h]
      BY <1>1, <2>1, OpenedSlot
    <2>4. \A h \in Handles : ToBeStored(h)' => ok /\ h = FirstFree
      BY <2>2, <2>3 DEF ToBeStored, InUse
    <2>5. \A h \in Handles : ToBeStored(h)' => LogSlot(h)'
      BY <2>1, <2>3, <2>4 DEF LogSlot, OpenedHandle
    <2>6. SlotInv'
      BY <1>1, <2>1, <2>5 DEF SlotInv, Writing, LogSlot, ConfigDone, cfgVars
    <2>7. Unstored /\ card' = card
      BY <2>1 DEF Unstored, FileOpen
    <2> QED
      BY <1>1, <2>6, <2>7, LogInvStep
  <1>4. CASE LogWrite
    <2>1. log_state = "WRITE_TO_MEASURE_FILE" /\ UNCHANGED <<fileMeasureHandle, data, fileName>>
      BY <1>4 DEF LogWrite
    <2>2. CASE FileStringPut(fileMeasureHandle, data) /\ log_state' = "CLOSE_FILE"
      <3>1. ToBeStored(fileMeasureHandle) /\ fileMeasureHandle \in Handles
        BY <2>2 DEF FileStringPut, Result, CanPut, ToBeStored, InUse
      <3>2. LogSlot(fileMeasureHandle)
        BY <1>1, <3>1
      <3>3. /\ slots[fileMeasureHandle] \in Slots /\ slots \in [Handles -> Slots]
            /\ data \in Seq(Texts)
        BY <1>1, <3>1 DEF FsTypeOK, LogTypeOK
      <3>4. /\ slots'[fileMeasureHandle].file = slots[fileMeasureHandle].file
            /\ slots'[fileMeasureHandle].mode = slots[fileMeasureHandle].mode
            /\ slots'[fileMeasureHandle].buf = slots[fileMeasureHandle].buf \o data
            /\ \A h \in Handles : h # fileMeasureHandle => slots'[h] = slots[h]
        BY <2>2, <3>1, <3>3 DEF FileStringPut, Slots
      <3>5. slots[fileMeasureHandle].buf \o data = data
        BY <2>1, <3>2, <3>3, ConcatEmptySeq DEF LogSlot
      <3>6. \A h \in Handles : ToBeStored(h)' => LogSlot(h)'
        BY <1>1, <2>1, <2>2, <3>2, <3>4, <3>5 DEF ToBeStored, InUse, LogSlot
      <3>7. SlotInv'
        BY <1>1, <2>1, <2>2, <3>6 DEF SlotInv, Writing, LogSlot, ConfigDone, cfgVars
      <3>8. Unstored /\ card' = card
        BY <2>2, <3>1, <3>2 DEF Unstored, LogSlot, FileStringPut
      <3> QED
        BY <1>1, <3>7, <3>8, LogInvStep
    <2>3. CASE FailAndClose(CanPut(fileMeasureHandle), fileMeasureHandle) /\ log_state' = "ERROR"
      BY <2>1, <2>3, LoggingClose DEF FailAndClose
    <2> QED
      BY <1>4, <2>2, <2>3 DEF LogWrite
  <1>5. CASE LogClose
    BY <1>5, LoggingClose DEF LogClose, FileClose
  <1>6. CASE LogUnmountDisk
    <2>1. PICK ok \in BOOLEAN : Unmount(ok) /\ log_state' = IF ok THEN "IDLE" ELSE "UNMOUNT_DISK"
      BY <1>6 DEF LogUnmountDisk
    <2>2. \A h \in Handles : ~ToBeStored(h)
      BY <1>1, <1>6 DEF LogUnmountDisk, LogSlot
    <2>3. /\ \A h \in Handles : ~ToBeStored(h)'
          /\ \A f \in LogFiles : card'[f] = card[f]
          /\ ConfigText(card'[Config])
      BY <2>1, <2>2, UnmountLog
    <2>4. SlotInv' /\ ~Unstored'
      BY <2>1, <2>3 DEF SlotInv, Unstored, Writing, ConfigDone, cfgVars
    <2> QED
      BY <2>3, <2>4, LogInvStep
  <1> QED
    BY <1>2, <1>3, <1>4, <1>5, <1>6 DEF sd_fat_logging_task

\* A measure is scheduled while the logging machine is idle.
LEMMA scheduleWriteLog ==
  ASSUME TypeOK, LogInv, ConfigDone, UNCHANGED <<cfgVars, fsVars>>, log_state = "IDLE",
         NEW f \in LogFiles, scheduleWrite(f, measures + 1), measures' = measures + 1
  PROVE  LogInv'
  <1>1. \A h \in Handles : ~ToBeStored(h)
    BY LogOnly DEF LogSlot
  <1>2. \A h \in Handles : ~ToBeStored(h)'
    BY <1>1 DEF ToBeStored, InUse, fsVars
  <1>3. SlotInv'
    BY <1>2 DEF SlotInv, scheduleWrite, ConfigDone, cfgVars
  <1>4. ASSUME NEW g \in LogFiles PROVE LogKept(g)'
    <2>1. LogKept(g) /\ card' = card /\ measures \in Nat
      BY DEF LogInv, TypeOK, fsVars
    <2>2. \A i \in DOMAIN card[g] : card[g][i].rec \in Nat
      BY <2>1 DEF LogKept
    <2> QED
      BY <2>1, <2>2 DEF LogKept
  <1>5. ConfigWellFormed'
    BY DEF LogInv, ConfigWellFormed, fsVars
  <1> QED
    BY <1>3, <1>4, <1>5 DEF LogInv

\* A log is opened to be shown.
LEMMA DisplayOpenLog ==
  ASSUME TypeOK, LogInv, ConfigDone, UNCHANGED <<cfg_state, cfg_data, logVars, measures>>,
         NEW ok \in BOOLEAN, NEW f, FileOpen(ok, f, "read")
  PROVE  LogInv'
  <1>1. \A h \in Handles : ToBeStored(h) => LogSlot(h)
    BY LogOnly
  <1>2. \A h \in Handles :
          slots'[h] = IF ok /\ h = FirstFree
                      THEN [file |-> f, mode |-> "read", buf |-> <<>>] ELSE slots[h]
    BY OpenedSlot, TypeParts
  <1>3. \A h \in Handles : ToBeStored(h)' => ToBeStored(h) /\ slots'[h] = slots[h]
    BY <1>2 DEF ToBeStored, InUse
  <1>4. \A h \in Handles : ToBeStored(h)' => LogSlot(h)'
    BY <1>1, <1>3 DEF LogSlot, logVars
  <1>5. SlotInv'
    BY <1>4 DEF LogInv, SlotInv, Writing, ConfigDone, LogSlot, logVars
  <1>6. (Unstored' => Unstored) /\ card' = card
    BY <1>3 DEF Unstored, logVars, FileOpen
  <1> QED
    BY <1>5, <1>6, LogInvStep DEF LogInv, ConfigWellFormed, ConfigText

\* A log is cleared, open or not.
LEMMA ClearLog ==
  ASSUME TypeOK, LogInv, ConfigDone, UNCHANGED <<cfgVars, logVars, measures>>,
         NEW f \in LogFiles, FileDirectoryRemove(f)
  PROVE  LogInv'
  <1>1. PICK ok \in BOOLEAN :
          /\ card' = IF ok THEN [card EXCEPT ![f] = <<>>] ELSE card
          /\ slots' = [h \in Handles |-> IF ok /\ slots[h].file = f
                                         THEN [slots[h] EXCEPT !.file = Deleted]
                                         ELSE slots[h]]
    BY DEF FileDirectoryRemove
  <1>2. \A h \in Handles : ToBeStored(h) => LogSlot(h)
    BY LogOnly
  <1>3. ASSUME NEW h \in Handles
        PROVE  /\ slots'[h].file \in {slots[h].file, Deleted}
               /\ slots[h].file = NoFile => slots'[h].file = NoFile
               /\ slots'[h].mode = slots[h].mode /\ slots'[h].buf = slots[h].buf
    <2>1. slots[h] \in Slots
      BY TypeParts DEF FsTypeOK
    <2>2. slots'[h] = IF ok /\ slots[h].file = f THEN [slots[h] EXCEPT !.file = Deleted] ELSE slots[h]
      BY <1>1
    <2>3. f # NoFile
      BY DEF LogFiles, NoFile
    <2> QED
      BY <2>1, <2>2, <2>3 DEF Slots
  <1>4. \A h \in Handles : ToBeStored(h)' => ToBeStored(h)
    BY <1>3 DEF ToBeStored, InUse
  <1>5. \A h \in Handles : ToBeStored(h)' => LogSlot(h)'
    BY <1>2, <1>3, <1>4 DEF LogSlot, logVars
  <1>6. SlotInv'
    BY <1>5 DEF LogInv, SlotInv, Writing, ConfigDone, LogSlot, logVars, cfgVars
  <1>7. Unstored' => Unstored
    BY <1>3, <1>4 DEF Unstored, logVars
  <1>8. /\ \A g \in LogFiles : card'[g] \in {card[g], <<>>}
        /\ card'[Config] = card[Config]
    <2>1. card \in [Files -> Seq(Texts)]
      BY TypeParts DEF FsTypeOK
    <2>2. f # Config /\ LogFiles \subseteq Files /\ Config \in Files
      BY DEF LogFiles, Files, Config
    <2> QED
      BY <1>1, <2>1, <2>2
  <1> QED
    BY <1>6, <1>7, <1>8, LogInvStep DEF LogInv, ConfigWellFormed, ConfigText

\* The power fails.
LEMMA PowerLossLog ==
  ASSUME TypeOK, LogInv, UNCHANGED measures, SdPowerLoss
  PROVE  LogInv'
  <1>1. \A h \in Handles : ~ToBeStored(h)'
    BY DEF SdPowerLoss, ToBeStored, InUse, FreeSlot
  <1>2. SlotInv' /\ ~Unstored'
    BY <1>1 DEF SdPowerLoss, SlotInv, Unstored, Writing
  <1>3. /\ \A f \in LogFiles : card'[f] = card[f]
        /\ ConfigText(card'[Config])
    BY TruncatedCard DEF SdPowerLoss, CardLeft, LogInv, ConfigWellFormed, ConfigText
  <1> QED
    BY <1>2, <1>3, LogInvStep

\* In which states the machines and the file system are called.
LEMMA MainLoopLog ==
  ASSUME TypeOK, BootInv, PowerInv, ModeInv, LogInv, ConfigAtRest, MainLoop
  PROVE  LogInv'
  <1> USE DEF counts
  <1>1. CASE TaskInit
    BY <1>1, SameLogs DEF TaskInit, sdVars
  <1>2. CASE TaskConfig
    BY <1>2, ConfigTaskLog DEF TaskConfig, sd_fat_cfg_init, ModeInv, Starting
  <1>3. CASE ConfigButton
    BY <1>3, SameLogs DEF ConfigButton, sdVars
  <1>4. CASE TaskMeasure
    <2>1. ConfigDone /\ UNCHANGED <<cfgVars, fsVars>>
      BY <1>4 DEF TaskMeasure, ConfigAtRest, ConfigDone
    <2>2. CASE MeasureTaken = {}
      BY <1>4, <2>1, <2>2, SameLogs DEF TaskMeasure
    <2>3. CASE MeasureTaken # {}
      <3>1. log_state = "IDLE"
        BY <2>3 DEF MeasureTaken
      <3>2. PICK f \in LogFiles : scheduleWrite(f, measures + 1) /\ measures' = measures + 1
        BY <1>4, <2>3 DEF TaskMeasure, LogFiles
      <3> QED
        BY <2>1, <3>1, <3>2, scheduleWriteLog
    <2> QED
      BY <2>2, <2>3
  <1>5. CASE TaskLog
    BY <1>5, LoggingTaskLog DEF TaskLog, ModeInv, LoggingSteps
  <1>6. CASE btnTaskGest
    BY <1>6, SameLogs DEF btnTaskGest, sdVars
  <1>7. CASE TaskInactive
    BY <1>7, SameLogs DEF TaskInactive, sdVars
  <1>8. CASE PollMiss
    BY <1>8, SameLogs DEF PollMiss, sdVars, Poll
  <1>9. CASE PollShutdown
    BY <1>9, SameLogs DEF PollShutdown, sdVars, Poll
  <1>10. CASE PollStop
    BY <1>10, SameLogs DEF PollStop, sdVars, Poll
  <1>11. CASE PollDisplay
    BY <1>11, LoggingClose DEF PollDisplay, Poll, FileClose, ModeInv, LoggingSteps, logVars
  <1>12. CASE PollClear
    <2>1. PICK cmd \in {"gclr", "iclr"} : FileDirectoryRemove(LogOf(cmd))
      BY <1>12 DEF PollClear
    <2>2. LogOf(cmd) \in LogFiles
      BY DEF LogOf, LogFiles
    <2> QED
      BY <1>12, <2>1, <2>2, ClearLog DEF PollClear, Poll, ModeInv, LoggingSteps
  <1>13. CASE StopConfig
    BY <1>13, StopConfigRests, SameLogs DEF StopConfig, sdVars
  <1>14. CASE StopLog
    BY <1>14, LoggingTaskLog DEF StopLog, ModeInv, LoggingSteps
  <1>15. CASE Stopped
    <2>1. ConfigDone /\ ConfigDone' /\ UNCHANGED <<fileCfgHandle, cfg_data, logVars, fsVars, measures>>
      BY <1>15 DEF Stopped, ModeInv, LoggingSteps, ConfigDone
    <2>2. SlotInv' /\ Unstored' = Unstored
      BY <2>1 DEF LogInv, SlotInv, ToBeStored, InUse, LogSlot, CfgSlot, Writing, Unstored,
                  ConfigDone, logVars, fsVars
    <2> QED
      BY <2>1, <2>2 DEF LogInv, LogKept, ConfigWellFormed, fsVars
  <1>16. CASE DisplayOpen
    BY <1>16, DisplayOpenLog DEF DisplayOpen, ModeInv, LoggingSteps
  <1>17. CASE DisplayRead
    BY <1>17, SameLogs DEF DisplayRead, sdVars
  <1>18. CASE DisplayClose
    BY <1>18, LoggingClose DEF DisplayClose, FileClose, ModeInv, LoggingSteps, logVars
  <1>19. CASE TaskLive
    BY <1>19, SameLogs DEF TaskLive, sdVars
  <1>20. CASE TaskConfigure
    <2>1. log_state = "IDLE" /\ UNCHANGED <<logVars, measures>>
      BY <1>20 DEF TaskConfigure, ModeInv
    <2>2. CFG_Write(settings') \/ UNCHANGED <<cfgVars, fsVars>>
      BY <1>20 DEF TaskConfigure
    <2>3. settings' \in Settings
      BY <1>20, TaskConfigureType
    <2> QED
      BY <2>1, <2>2, <2>3, CFG_WriteLog, SameLogs
  <1>21. CASE ConfigTask
    BY <1>21, ConfigTaskLog DEF ConfigTask, ModeInv
  <1>22. CASE Shutdown
    BY <1>22, SameLogs DEF Shutdown, sdVars
  <1>23. CASE ShutdownWait
    <2>1. CASE log_state = "IDLE"
      <3>1. ConfigDone /\ log_state' = "UNMOUNT_DISK"
            /\ UNCHANGED <<cfgVars, fileMeasureHandle, data, fileName, fsVars, measures>>
        BY <1>23, <2>1 DEF ShutdownWait, ModeInv, LoggingSteps
      <3>2. SlotInv' /\ Unstored' = Unstored
        BY <2>1, <3>1 DEF LogInv, SlotInv, ToBeStored, InUse, LogSlot, CfgSlot, Writing, Unstored,
                          ConfigDone, cfgVars, fsVars
      <3> QED
        BY <3>1, <3>2 DEF LogInv, LogKept, ConfigWellFormed, fsVars
    <2>2. CASE log_state # "IDLE"
      BY <1>23, <2>2, LoggingTaskLog DEF ShutdownWait, ModeInv
    <2> QED
      BY <2>1, <2>2
  <1>24. CASE ShutdownUnmount
    <2>1. CASE log_state = "IDLE"
      BY <1>24, <2>1, SameLogs DEF ShutdownUnmount
    <2>2. CASE log_state # "IDLE"
      BY <1>24, <2>2, LoggingTaskLog DEF ShutdownUnmount, ModeInv
    <2> QED
      BY <2>1, <2>2
  <1>25. CASE ShutdownOff
    BY <1>25, SameLogs DEF ShutdownOff, sdVars
  <1> QED
    BY <1>1, <1>2, <1>3, <1>4, <1>5, <1>6, <1>7, <1>8, <1>9, <1>10, <1>11, <1>12, <1>13, <1>14, <1>15, <1>16, <1>17, <1>18, <1>19, <1>20, <1>21, <1>22, <1>23, <1>24, <1>25 DEF MainLoop

LEMMA LogInvInvariant == Spec /\ []ConfigAtRest => []LogInv
  <1>1. Init => LogInv
    <2> SUFFICES ASSUME Init PROVE LogInv
      OBVIOUS
    <2>1. \A h \in Handles : ~ToBeStored(h)
      BY DEF Init, InitSdRam, ToBeStored, InUse, FreeSlot
    <2>2. SlotInv
      BY <2>1 DEF Init, InitSdRam, SlotInv, Writing
    <2>3. PICK c \in ConfigContents : card = [f \in Files |-> IF f = Config THEN c ELSE <<>>]
      BY DEF Init, InitCard
    <2>4. card[Config] = c /\ \A f \in LogFiles : card[f] = <<>>
      BY <2>3 DEF Files, LogFiles, Config
    <2>5. ConfigWellFormed
      BY <2>4, SdFatAssumption DEF ConfigWellFormed, ConfigContents
    <2> QED
      BY <2>2, <2>4, <2>5 DEF LogInv, LogKept
  <1>2. ASSUME TypeOK, BootInv, PowerInv, ModeInv, LogInv, ConfigAtRest, [Next]_vars
        PROVE  LogInv'
    <2>1. CASE MainLoop
      BY <1>2, <2>1, MainLoopLog
    <2>2. CASE stateTimer_callback \/ stateTimer_trap \/ PressOrRelease \/ Type \/ UNCHANGED vars
      BY <1>2, <2>2, SameLogs DEF stateTimer_callback, stateTimer_trap, PressOrRelease, Type,
                                  vars, sdVars, counts
    <2>3. CASE PowerLoss
      BY <1>2, <2>3, PowerLossLog DEF PowerLoss, counts
    <2> QED
      BY <1>2, <2>1, <2>2, <2>3 DEF Next
  <1> QED
    BY <1>1, <1>2, AppTypeOK, BootInvInvariant, PowerInvInvariant, ModeInvInvariant, PTL DEF Spec

\* Each log only ever holds whole records of its own source, in the order they were
\* taken, none of them twice, as long as the parameters are at rest while logging
\* goes on: whatever commands are typed, whichever call fails, wherever power fails.
THEOREM LogsKeepTheirIntegrity == Spec /\ []ConfigAtRest => []LogIntegrity
  <1>1. LogInv => LogIntegrity
    BY DEF LogInv, LogKept, LogIntegrity
  <1> QED
    BY <1>1, LogInvInvariant, PTL

\* CONFIG.txt never holds two sets of parameters, half a set or a record.
THEOREM ConfigStaysWellFormed == Spec /\ []ConfigAtRest => []ConfigWellFormed
  <1>1. LogInv => ConfigWellFormed
    BY DEF LogInv
  <1> QED
    BY <1>1, LogInvInvariant, PTL

(***************************************************************************)
(* Without the configuration mode the parameters are always at rest.       *)
(***************************************************************************)
NoConfig == \A t \in Tokens : t.cmd # "config"

NoConfigInv ==
  /\ state # "CONFIGURATE_BBX" /\ pc # "configTask"
  /\ pc \in {"stopConfig", "stopLog"} => Commands[command] # "config"

\* A command that nobody can type is not found.
LEMMA NotPolled ==
  ASSUME TypeOK, NEW cmd, \A t \in Tokens : t.cmd # cmd
  PROVE  ~Polled(cmd)
  <1>1. Received(charRead) \in Seq(Tokens)
    <2>1. SerialTypeOK(Tokens, charRead)
      BY DEF SerialTypeOK, TypeOK
    <2> QED
      BY <2>1, ReceivedType
  <1> HIDE DEF Received
  <1>2. \A i \in DOMAIN Received(charRead) : Received(charRead)[i] \in Tokens
    BY <1>1
  <1> QED
    BY <1>2 DEF Polled, Holds

LEMMA MainLoopNoConfig ==
  ASSUME NoConfig, TypeOK, NoConfigInv, MainLoop
  PROVE  NoConfigInv'
  <1> USE DEF NoConfigInv
  <1>1. CASE TaskInit
    BY <1>1 DEF TaskInit
  <1>2. CASE TaskConfig
    BY <1>2 DEF TaskConfig, sd_fat_cfg_init
  <1>3. CASE ConfigButton
    BY <1>3 DEF ConfigButton
  <1>4. CASE TaskMeasure
    BY <1>4 DEF TaskMeasure
  <1>5. CASE TaskLog
    BY <1>5 DEF TaskLog
  <1>6. CASE btnTaskGest
    BY <1>6 DEF btnTaskGest
  <1>7. CASE TaskInactive
    BY <1>7 DEF TaskInactive
  <1>8. CASE PollMiss
    BY <1>8 DEF PollMiss, Poll, NextCommand
  <1>9. CASE PollShutdown
    BY <1>9 DEF PollShutdown, Poll, NextCommand
  <1>10. CASE PollStop
    <2>1. PICK cmd \in {"glive", "ilive", "config"} :
            Poll(cmd) /\ Polled(cmd) /\ pc' = "stopConfig" /\ UNCHANGED <<state, command>>
      BY <1>10 DEF PollStop
    <2>2. cmd # "config"
      BY <2>1, NotPolled DEF NoConfig
    <2> QED
      BY <2>1, <2>2 DEF Poll
  <1>11. CASE PollDisplay
    BY <1>11 DEF PollDisplay, Poll
  <1>12. CASE PollClear
    BY <1>12 DEF PollClear, Poll, NextCommand
  <1>13. CASE StopConfig
    BY <1>13 DEF StopConfig, sd_fat_cfg_init
  <1>14. CASE StopLog
    BY <1>14 DEF StopLog, appVars
  <1>15. CASE Stopped
    BY <1>15 DEF Stopped, NextCommand
  <1>16. CASE DisplayOpen
    BY <1>16 DEF DisplayOpen
  <1>17. CASE DisplayRead
    BY <1>17 DEF DisplayRead
  <1>18. CASE DisplayClose
    BY <1>18 DEF DisplayClose, NextCommand
  <1>19. CASE TaskLive
    BY <1>19 DEF TaskLive, startLogging
  <1>20. CASE TaskConfigure
    BY <1>20 DEF TaskConfigure
  <1>21. CASE ConfigTask
    BY <1>21 DEF ConfigTask
  <1>22. CASE Shutdown
    BY <1>22 DEF Shutdown
  <1>23. CASE ShutdownWait
    BY <1>23 DEF ShutdownWait
  <1>24. CASE ShutdownUnmount
    BY <1>24 DEF ShutdownUnmount
  <1>25. CASE ShutdownOff
    BY <1>25 DEF ShutdownOff
  <1> QED
    BY <1>1, <1>2, <1>3, <1>4, <1>5, <1>6, <1>7, <1>8, <1>9, <1>10, <1>11, <1>12, <1>13, <1>14, <1>15, <1>16, <1>17, <1>18, <1>19, <1>20, <1>21, <1>22, <1>23, <1>24, <1>25 DEF MainLoop

\* No step of the main loop but those of the configuration mode leaves the
\* configuration machine at work when logging goes on.
LEMMA MainLoopAtRest ==
  ASSUME BootInv, ModeInv, NoConfigInv, ConfigAtRest, MainLoop
  PROVE  ConfigAtRest'
  <1> USE DEF ModeInv, BootInv, NoConfigInv, ConfigAtRest, ConfigDone, Starting, LoggingSteps,
              cfgVars, sdVars
  <1>1. CASE TaskInit
    BY <1>1 DEF TaskInit
  <1>2. CASE TaskConfig
    BY <1>2 DEF TaskConfig, sd_fat_cfg_init
  <1>3. CASE ConfigButton
    BY <1>3 DEF ConfigButton
  <1>4. CASE TaskMeasure
    BY <1>4 DEF TaskMeasure
  <1>5. CASE TaskLog
    BY <1>5 DEF TaskLog
  <1>6. CASE btnTaskGest
    BY <1>6 DEF btnTaskGest
  <1>7. CASE TaskInactive
    BY <1>7 DEF TaskInactive
  <1>8. CASE PollMiss
    BY <1>8 DEF PollMiss, Poll, NextCommand
  <1>9. CASE PollShutdown
    BY <1>9 DEF PollShutdown, Poll, NextCommand
  <1>10. CASE PollStop
    BY <1>10 DEF PollStop, Poll
  <1>11. CASE PollDisplay
    BY <1>11 DEF PollDisplay, Poll
  <1>12. CASE PollClear
    BY <1>12 DEF PollClear, Poll, NextCommand
  <1>13. CASE StopConfig
    BY <1>13, StopConfigRests DEF StopConfig
  <1>14. CASE StopLog
    BY <1>14 DEF StopLog, appVars
  <1>15. CASE Stopped
    BY <1>15 DEF Stopped
  <1>16. CASE DisplayOpen
    BY <1>16 DEF DisplayOpen
  <1>17. CASE DisplayRead
    BY <1>17 DEF DisplayRead
  <1>18. CASE DisplayClose
    BY <1>18 DEF DisplayClose, NextCommand
  <1>19. CASE TaskLive
    BY <1>19 DEF TaskLive, startLogging
  <1>20. CASE TaskConfigure
    BY <1>20 DEF TaskConfigure
  <1>21. CASE ConfigTask
    BY <1>21 DEF ConfigTask
  <1>22. CASE Shutdown
    BY <1>22 DEF Shutdown
  <1>23. CASE ShutdownWait
    BY <1>23 DEF ShutdownWait
  <1>24. CASE ShutdownUnmount
    BY <1>24 DEF ShutdownUnmount
  <1>25. CASE ShutdownOff
    BY <1>25 DEF ShutdownOff
  <1> QED
    BY <1>1, <1>2, <1>3, <1>4, <1>5, <1>6, <1>7, <1>8, <1>9, <1>10, <1>11, <1>12, <1>13, <1>14, <1>15, <1>16, <1>17, <1>18, <1>19, <1>20, <1>21, <1>22, <1>23, <1>24, <1>25 DEF MainLoop

\* A recorder whose parameters nobody changes keeps them at rest while it logs: what
\* is proved of the logs then holds without any other hypothesis.
THEOREM AtRestWithoutConfig == NoConfig => (Spec => []ConfigAtRest)
  <1> SUFFICES ASSUME NoConfig PROVE Spec => []ConfigAtRest
    OBVIOUS
  <1> DEFINE AtRest == ModeInv /\ NoConfigInv /\ ConfigAtRest
  <1>1. Init => AtRest
    BY DEF Init, InitSdRam, ModeInv, NoConfigInv, ConfigAtRest, Starting, ConfigDone, LoggingSteps
  <1>2. ASSUME TypeOK, BootInv, PowerInv, AtRest, [Next]_vars PROVE AtRest'
    <2>1. CASE MainLoop
      <3>1. NoConfigInv' /\ ConfigAtRest'
        BY <1>2, <2>1, MainLoopNoConfig, MainLoopAtRest
      <3> QED
        BY <1>2, <2>1, <3>1, MainLoopModeInv
    <2>2. CASE \/ stateTimer_callback \/ stateTimer_trap \/ PressOrRelease \/ Type \/ PowerLoss
               \/ UNCHANGED vars
      <3>1. ModeInv'
        BY <1>2, <2>2, EnvironmentModeInv
      <3>2. NoConfigInv' /\ ConfigAtRest'
        <4>1. CASE stateTimer_callback \/ PressOrRelease \/ Type \/ UNCHANGED vars
          BY <1>2, <4>1 DEF NoConfigInv, ConfigAtRest, stateTimer_callback, PressOrRelease, Type,
                            vars, appVars, sdVars, cfgVars
        <4>2. CASE stateTimer_trap
          BY <1>2, <4>2 DEF NoConfigInv, ConfigAtRest, stateTimer_trap, sdVars, cfgVars
        <4>3. CASE PowerLoss
          BY <4>3 DEF NoConfigInv, ConfigAtRest, PowerLoss
        <4> QED
          BY <2>2, <4>1, <4>2, <4>3
      <3> QED
        BY <3>1, <3>2
    <2> QED
      BY <1>2, <2>1, <2>2 DEF Next
  <1> QED
    BY <1>1, <1>2, AppTypeOK, BootInvInvariant, PowerInvInvariant, PTL DEF Spec

(***************************************************************************)
(* Whose handle is whose, as long as no log is displayed: the display      *)
(* closes the log under the logging machine, and leaves its own file open. *)
(***************************************************************************)
NoDisplay == \A t \in Tokens : t.cmd \notin {"glog", "ilog"}

\* The volume is unmounted, or being unmounted, by the logging machine.
Unmounting == (log_state = "IDLE" /\ ~mounted) \/ log_state = "UNMOUNT_DISK"

\* The logging machine has mounted the volume while it writes, and only the shutdown
\* unmounts it.
MountInv ==
  /\ log_state \in {"SET_CURRENT_DRIVE", "WRITE_MEASURE_FILE", "WRITE_TO_MEASURE_FILE",
                    "CLOSE_FILE"} => mounted
  /\ Unmounting => state = "SHUTDOWN" /\ pc \in {"task", "trap"} \cup ShutdownSteps

\* Every open file has an owner, ...
OpenInv ==
  \A h \in Handles : InUse(h) =>
    \/ h = fileMeasureHandle /\ log_state \in {"WRITE_TO_MEASURE_FILE", "CLOSE_FILE"}
    \/ h = fileCfgHandle /\ cfg_state \in {"READ_CONFIG_FILE", "WRITE_CONFIG_FILE", "CLOSE_FILE"}

\* ... and the logging machine has its file open from opening it to closing it.
OwnedInv ==
  log_state \in {"WRITE_TO_MEASURE_FILE", "CLOSE_FILE"} =>
    InUse(fileMeasureHandle) /\ LogSlot(fileMeasureHandle)

DisplaySteps == {"displayOpen", "displayRead", "displayClose"}

HandleInv == MountInv /\ OpenInv /\ OwnedInv /\ pc \notin DisplaySteps

\* Closing a file leaves the other entries of the table alone.
LEMMA CloseAsOpen ==
  ASSUME FsTypeOK, NEW stored, NEW h, CloseAs(stored, h)
  PROVE  /\ \A k \in Handles : InUse(k)' => k # h /\ InUse(k)
         /\ mounted' = mounted
  <1>1. CASE InUse(h)
    BY <1>1 DEF CloseAs, InUse, FreeSlot, FsTypeOK
  <1>2. CASE ~InUse(h)
    BY <1>2 DEF CloseAs, InUse
  <1> QED
    BY <1>1, <1>2

\* An unmount opens nothing.
LEMMA UnmountOpen ==
  ASSUME FsTypeOK, NEW ok \in BOOLEAN, Unmount(ok), \A h \in Handles : ~InUse(h)
  PROVE  \A h \in Handles : ~InUse(h)'
  <1>1. ASSUME NEW h \in Handles PROVE ~InUse(h)'
    <2>1. slots[h] \in Slots
      BY DEF FsTypeOK
    <2>2. \/ slots'[h] = FreeSlot
          \/ slots'[h] = slots[h]
          \/ slots'[h] = [slots[h] EXCEPT !.buf = <<>>]
      BY DEF Unmount
    <2> QED
      BY <2>1, <2>2 DEF Slots, InUse, FreeSlot
  <1> QED
    BY <1>1

\* A step of the configuration machine while the logging machine has nothing open.
LEMMA ConfigTaskOpen ==
  ASSUME TypeOK, OpenInv, UNCHANGED logVars, NEW init, sd_fat_config_task(init),
         log_state \notin {"WRITE_MEASURE_FILE", "WRITE_TO_MEASURE_FILE", "CLOSE_FILE"}
  PROVE  /\ OpenInv'
         /\ cfg_state \notin {"MOUNT_DISK", "UNMOUNT_DISK"} => mounted' = mounted
  <1>1. /\ \A h \in Handles : InUse(h) =>
             h = fileCfgHandle /\ cfg_state \in {"READ_CONFIG_FILE", "WRITE_CONFIG_FILE", "CLOSE_FILE"}
        /\ FsTypeOK
    BY TypeParts DEF OpenInv
  <1>2. CASE CfgMountDisk \/ CfgSetCurrentDrive(init) \/ CfgRest
    <2>1. /\ UNCHANGED slots
          /\ cfg_state \notin {"READ_CONFIG_FILE", "WRITE_CONFIG_FILE", "CLOSE_FILE"}
          /\ cfg_state # "MOUNT_DISK" => mounted' = mounted
      BY <1>2 DEF CfgMountDisk, Mount, CfgSetCurrentDrive, CurrentDriveSet, CfgRest, cfgVars, fsVars
    <2> QED
      BY <1>1, <2>1 DEF OpenInv, InUse
  <1>3. CASE CfgOpenRead \/ CfgOpenWrite
    <2>1. PICK ok \in BOOLEAN, mode \in {"read", "write"} :
            /\ FileOpen(ok, Config, mode)
            /\ fileCfgHandle' = OpenedHandle(ok)
            /\ ok => cfg_state' \in {"READ_CONFIG_FILE", "WRITE_CONFIG_FILE"}
            /\ cfg_state \in {"OPEN_READ_CONFIG_FILE", "OPEN_WRITE_CONFIG_FILE"}
      BY <1>3 DEF CfgOpenRead, CfgOpenWrite
    <2>2. \A h \in Handles :
            slots'[h] = IF ok /\ h = FirstFree
                        THEN [file |-> Config, mode |-> mode, buf |-> <<>>] ELSE slots[h]
      BY <1>1, <2>1, OpenedSlot
    <2>3. \A h \in Handles : InUse(h)' => ok /\ h = FirstFree
      BY <1>1, <2>1, <2>2 DEF InUse
    <2> QED
      BY <2>1, <2>3 DEF OpenInv, OpenedHandle, FileOpen
  <1>4. CASE CfgRead
    <2>1. cfg_state = "READ_CONFIG_FILE" /\ UNCHANGED fileCfgHandle
      BY <1>4 DEF CfgRead
    <2>2. CASE FileRead(TRUE, fileCfgHandle) /\ cfg_state' = "CLOSE_FILE"
      BY <1>1, <2>1, <2>2 DEF FileRead, OpenInv, InUse
    <2>3. CASE FailAndClose(mounted /\ InUse(fileCfgHandle), fileCfgHandle)
      BY <1>1, <2>1, <2>3, CloseAsOpen DEF FailAndClose, OpenInv
    <2> QED
      BY <1>4, <2>2, <2>3 DEF CfgRead
  <1>5. CASE CfgWrite
    <2>1. cfg_state = "WRITE_CONFIG_FILE" /\ UNCHANGED fileCfgHandle
      BY <1>5 DEF CfgWrite
    <2>2. CASE FileStringPut(fileCfgHandle, cfg_data) /\ cfg_state' = "CLOSE_FILE"
      <3>1. \A h \in Handles : h # fileCfgHandle => slots'[h] = slots[h]
        BY <1>1, <2>2 DEF FileStringPut, FsTypeOK
      <3> QED
        BY <1>1, <2>1, <2>2, <3>1 DEF FileStringPut, OpenInv, InUse
    <2>3. CASE FailAndClose(CanPut(fileCfgHandle), fileCfgHandle)
      BY <1>1, <2>1, <2>3, CloseAsOpen DEF FailAndClose, OpenInv
    <2> QED
      BY <1>5, <2>2, <2>3 DEF CfgWrite
  <1>6. CASE CfgClose(init)
    BY <1>1, <1>6, CloseAsOpen DEF CfgClose, FileClose, OpenInv
  <1>7. CASE CfgUnmountDisk
    BY <1>1, <1>7, UnmountOpen DEF CfgUnmountDisk, OpenInv
  <1> QED
    BY <1>2, <1>3, <1>4, <1>5, <1>6, <1>7 DEF sd_fat_config_task

\* A step of the logging machine while the configuration machine rests.
LEMMA LoggingTaskOwned ==
  ASSUME TypeOK, LogInv, MountInv, OpenInv, OwnedInv, ConfigDone, UNCHANGED cfgVars,
         sd_fat_logging_task
  PROVE  /\ OpenInv' /\ OwnedInv'
         /\ log_state' \in {"SET_CURRENT_DRIVE", "WRITE_MEASURE_FILE", "WRITE_TO_MEASURE_FILE",
                            "CLOSE_FILE"} => mounted'
         /\ Unmounting' => Unmounting
  <1>1. /\ \A h \in Handles : InUse(h) =>
             h = fileMeasureHandle /\ log_state \in {"WRITE_TO_MEASURE_FILE", "CLOSE_FILE"}
        /\ FsTypeOK /\ LogTypeOK
    BY TypeParts DEF OpenInv, ConfigDone
  <1> USE DEF MountInv, Unmounting
  <1>2. CASE LogMountDisk \/ LogSetCurrentDrive \/ LogRest
    <2>1. /\ UNCHANGED slots
          /\ log_state \in {"MOUNT_DISK", "SET_CURRENT_DRIVE", "IDLE", "ERROR"}
          /\ log_state' \in {"MOUNT_DISK", "SET_CURRENT_DRIVE", "IDLE", "ERROR"}
          /\ log_state' = "SET_CURRENT_DRIVE" => mounted'
          /\ log_state' = "IDLE" => log_state \in {"SET_CURRENT_DRIVE", "IDLE"} /\ mounted' = mounted
      BY <1>2 DEF LogMountDisk, Mount, LogSetCurrentDrive, CurrentDriveSet, LogRest, logVars, fsVars
    <2>2. \A h \in Handles : ~InUse(h)'
      BY <1>1, <2>1 DEF InUse
    <2> QED
      BY <2>1, <2>2 DEF OpenInv, OwnedInv
  <1>3. CASE LogOpen
    <2>1. PICK ok \in BOOLEAN :
            /\ log_state = "WRITE_MEASURE_FILE"
            /\ FileOpen(ok, fileName, "append")
            /\ fileMeasureHandle' = OpenedHandle(ok)
            /\ log_state' = IF ok THEN "WRITE_TO_MEASURE_FILE" ELSE "ERROR"
            /\ UNCHANGED <<data, fileName>>
      BY <1>3 DEF LogOpen
    <2>2. /\ ok => FirstFree \in Handles
          /\ \A h \in Handles :
               slots'[h] = IF ok /\ h = FirstFree
                           THEN [file |-> fileName, mode |-> "append", buf |-> <<>>] ELSE slots[h]
      BY <1>1, <2>1, OpenedSlot
    <2>3. \A h \in Handles : InUse(h)' => ok /\ h = FirstFree
      BY <1>1, <2>1, <2>2 DEF InUse
    <2>4. OpenInv'
      BY <2>1, <2>3 DEF OpenInv, OpenedHandle
    <2>5. ok => InUse(fileMeasureHandle)' /\ LogSlot(fileMeasureHandle)'
      <3>1. fileName # NoFile
        BY <1>1 DEF LogTypeOK, LogFiles, NoFile
      <3> QED
        BY <2>1, <2>2, <3>1 DEF InUse, LogSlot, OpenedHandle
    <2>6. mounted' = mounted /\ mounted
      BY <2>1 DEF FileOpen
    <2> QED
      BY <2>1, <2>4, <2>5, <2>6 DEF OwnedInv
  <1>4. CASE LogWrite
    <2>1. log_state = "WRITE_TO_MEASURE_FILE" /\ UNCHANGED <<fileMeasureHandle, data, fileName>>
      BY <1>4 DEF LogWrite
    <2>2. CASE FileStringPut(fileMeasureHandle, data) /\ log_state' = "CLOSE_FILE"
      <3>1. InUse(fileMeasureHandle) /\ LogSlot(fileMeasureHandle)
        BY <2>1 DEF OwnedInv
      <3>2. /\ slots[fileMeasureHandle] \in Slots /\ slots \in [Handles -> Slots]
            /\ data \in Seq(Texts) /\ fileMeasureHandle \in Handles
        BY <1>1, <3>1 DEF FsTypeOK, LogTypeOK, InUse
      <3>3. /\ slots'[fileMeasureHandle].file = slots[fileMeasureHandle].file
            /\ slots'[fileMeasureHandle].mode = slots[fileMeasureHandle].mode
            /\ slots'[fileMeasureHandle].buf = slots[fileMeasureHandle].buf \o data
            /\ \A h \in Handles : h # fileMeasureHandle => slots'[h] = slots[h]
        BY <2>2, <3>2 DEF FileStringPut, Slots
      <3>4. slots[fileMeasureHandle].buf \o data = data
        BY <2>1, <3>1, <3>2, ConcatEmptySeq DEF LogSlot
      <3>5. InUse(fileMeasureHandle)' /\ LogSlot(fileMeasureHandle)'
        BY <2>1, <2>2, <3>1, <3>2, <3>3, <3>4 DEF LogSlot, InUse
      <3>6. OpenInv'
        BY <1>1, <2>1, <2>2, <3>3 DEF OpenInv, InUse
      <3> QED
        BY <2>1, <2>2, <3>5, <3>6 DEF OwnedInv, FileStringPut
    <2>3. CASE FailAndClose(CanPut(fileMeasureHandle), fileMeasureHandle) /\ log_state' = "ERROR"
      BY <1>1, <2>1, <2>3, CloseAsOpen DEF FailAndClose, OpenInv, OwnedInv
    <2> QED
      BY <1>4, <2>2, <2>3 DEF LogWrite
  <1>5. CASE LogClose
    <2>1. /\ log_state = "CLOSE_FILE" /\ log_state' = "IDLE"
          /\ \E ok \in BOOLEAN : CloseAs(ok, fileMeasureHandle)
      BY <1>5 DEF LogClose, FileClose
    <2> QED
      BY <1>1, <2>1, CloseAsOpen DEF OpenInv, OwnedInv
  <1>6. CASE LogUnmountDisk
    <2>1. log_state = "UNMOUNT_DISK" /\ log_state' \in {"IDLE", "UNMOUNT_DISK"}
          /\ \E ok \in BOOLEAN : Unmount(ok)
      BY <1>6 DEF LogUnmountDisk
    <2> QED
      BY <1>1, <2>1, UnmountOpen DEF OpenInv, OwnedInv
  <1> QED
    BY <1>2, <1>3, <1>4, <1>5, <1>6 DEF sd_fat_logging_task

\* A step that leaves the card and both machines alone.
LEMMA SameHandles ==
  ASSUME HandleInv, UNCHANGED sdVars, pc' \notin DisplaySteps,
         Unmounting => state' = "SHUTDOWN" /\ pc' \in {"task", "trap"} \cup ShutdownSteps
  PROVE  HandleInv'
  BY DEF HandleInv, MountInv, Unmounting, OpenInv, OwnedInv, InUse, LogSlot,
         sdVars, cfgVars, logVars, fsVars

\* A step of the configuration machine outside of the logging states.
LEMMA ConfigHandles ==
  ASSUME TypeOK, HandleInv, UNCHANGED logVars, OpenInv', pc' \notin DisplaySteps,
         \/ log_state = "MOUNT_DISK"
         \/ log_state = "IDLE" /\ mounted' = mounted /\ ~Unmounting
  PROVE  HandleInv'
  BY DEF HandleInv, MountInv, Unmounting, OwnedInv, logVars

\* A step of the logging machine.
LEMMA LoggingHandles ==
  ASSUME TypeOK, LogInv, HandleInv, ConfigDone, UNCHANGED cfgVars, sd_fat_logging_task,
         pc' \notin DisplaySteps,
         Unmounting => state' = "SHUTDOWN" /\ pc' \in {"task", "trap"} \cup ShutdownSteps
  PROVE  HandleInv'
  <1>1. /\ OpenInv' /\ OwnedInv'
        /\ log_state' \in {"SET_CURRENT_DRIVE", "WRITE_MEASURE_FILE", "WRITE_TO_MEASURE_FILE",
                           "CLOSE_FILE"} => mounted'
        /\ Unmounting' => Unmounting
    BY LoggingTaskOwned DEF HandleInv
  <1> QED
    BY <1>1 DEF HandleInv, MountInv

\* A log is cleared, open or not: who has it open keeps it.
LEMMA ClearHandles ==
  ASSUME TypeOK, HandleInv, UNCHANGED <<cfgVars, logVars>>, NEW f \in LogFiles,
         FileDirectoryRemove(f), pc' \notin DisplaySteps, ~Unmounting
  PROVE  HandleInv'
  <1>1. PICK ok \in BOOLEAN :
          /\ slots' = [h \in Handles |-> IF ok /\ slots[h].file = f
                                         THEN [slots[h] EXCEPT !.file = Deleted]
                                         ELSE slots[h]]
          /\ UNCHANGED mounted
    BY DEF FileDirectoryRemove
  <1>2. ASSUME NEW h \in Handles
        PROVE  /\ slots'[h].file \in {slots[h].file, Deleted}
               /\ InUse(h)' <=> InUse(h)
               /\ slots'[h].mode = slots[h].mode /\ slots'[h].buf = slots[h].buf
    <2>1. slots[h] \in Slots
      BY TypeParts DEF FsTypeOK
    <2>2. slots'[h] = IF ok /\ slots[h].file = f THEN [slots[h] EXCEPT !.file = Deleted] ELSE slots[h]
      BY <1>1
    <2>3. f # NoFile /\ Deleted # NoFile
      BY DEF LogFiles, NoFile, Deleted
    <2> QED
      BY <2>1, <2>2, <2>3 DEF Slots, InUse
  <1>3. OpenInv'
    BY <1>2 DEF HandleInv, OpenInv, cfgVars, logVars
  <1>4. OwnedInv'
    <2> SUFFICES ASSUME log_state \in {"WRITE_TO_MEASURE_FILE", "CLOSE_FILE"}
                 PROVE  InUse(fileMeasureHandle)' /\ LogSlot(fileMeasureHandle)'
      BY DEF OwnedInv, logVars
    <2>1. InUse(fileMeasureHandle) /\ LogSlot(fileMeasureHandle) /\ fileMeasureHandle \in Handles
      BY DEF HandleInv, OwnedInv, InUse
    <2>2. UNCHANGED <<log_state, fileMeasureHandle, fileName, data>>
      BY DEF logVars
    <2>3. InUse(fileMeasureHandle)'
      BY <1>2, <2>1, <2>2 DEF InUse
    <2> QED
      BY <1>2, <2>1, <2>2, <2>3 DEF LogSlot
  <1> QED
    BY <1>1, <1>3, <1>4 DEF HandleInv, MountInv, Unmounting, logVars

\* sd_CFG_Write closes the file of the parameters when nothing is open.
LEMMA CFG_WriteOpen ==
  ASSUME TypeOK, OpenInv, UNCHANGED logVars, NEW s, CFG_Write(s), log_state = "IDLE"
  PROVE  OpenInv' /\ mounted' = mounted
  <1>1. CASE cfg_state \in {"IDLE", "OPEN_READ_CONFIG_FILE"}
    <2>1. PICK ok \in BOOLEAN : CloseAs(ok, fileCfgHandle)
      BY <1>1 DEF CFG_Write, FileClose
    <2>2. \A h \in Handles : ~InUse(h)
      BY <1>1 DEF OpenInv
    <2>3. (\A h \in Handles : ~InUse(h)') /\ mounted' = mounted
      BY <2>1, <2>2, CloseAsOpen, TypeParts
    <2> QED
      BY <2>3 DEF OpenInv
  <1>2. CASE cfg_state \notin {"IDLE", "OPEN_READ_CONFIG_FILE"}
    BY <1>2 DEF CFG_Write, OpenInv, InUse, cfgVars, logVars, fsVars
  <1> QED
    BY <1>1, <1>2

\* Each step of the main loop leaves every open file with its owner.
LEMMA MainLoopHandles ==
  ASSUME NoDisplay, TypeOK, BootInv, PowerInv, ModeInv, LogInv, ConfigAtRest, HandleInv, MainLoop
  PROVE  HandleInv'
  <1>0. pc \notin {"task", "trap"} \cup ShutdownSteps \/ state # "SHUTDOWN" => ~Unmounting
    BY DEF HandleInv, MountInv
  <1> USE DEF DisplaySteps, ShutdownSteps
  <1>1. CASE TaskInit
    BY <1>0, <1>1, SameHandles DEF TaskInit
  <1>2. CASE TaskConfig
    <2>1. sd_fat_config_task(TRUE) /\ UNCHANGED logVars /\ log_state = "MOUNT_DISK"
          /\ pc' \in {"configButton", "trap"}
      BY <1>2 DEF TaskConfig, sd_fat_cfg_init, ModeInv, Starting
    <2>2. OpenInv'
      BY <2>1, ConfigTaskOpen DEF HandleInv
    <2> QED
      BY <2>1, <2>2, ConfigHandles
  <1>3. CASE ConfigButton
    BY <1>0, <1>3, SameHandles DEF ConfigButton
  <1>4. CASE TaskMeasure
    <2>1. /\ UNCHANGED <<cfgVars, fsVars>> /\ ~Unmounting /\ pc' = "log"
          /\ \/ UNCHANGED logVars
             \/ /\ log_state = "IDLE" /\ log_state' = "WRITE_MEASURE_FILE"
                /\ fileMeasureHandle' = fileMeasureHandle
      <3>1. UNCHANGED <<cfgVars, fsVars>> /\ ~Unmounting /\ pc' = "log"
        BY <1>0, <1>4 DEF TaskMeasure
      <3>2. UNCHANGED logVars \/ MeasureTaken # {}
        BY <1>4 DEF TaskMeasure
      <3>3. ASSUME MeasureTaken # {}
            PROVE  log_state = "IDLE" /\ \E f \in LogFiles : scheduleWrite(f, measures + 1)
        <4>1. log_state = "IDLE"
          BY <3>3 DEF MeasureTaken
        <4>2. \E f \in LogFiles : scheduleWrite(f, measures + 1)
          BY <1>4, <3>3 DEF TaskMeasure, LogFiles
        <4> QED
          BY <4>1, <4>2
      <3>4. \A f \in LogFiles : log_state = "IDLE" /\ scheduleWrite(f, measures + 1) =>
              log_state' = "WRITE_MEASURE_FILE" /\ fileMeasureHandle' = fileMeasureHandle
        BY DEF scheduleWrite
      <3>5. CASE MeasureTaken # {}
        <4>1. PICK f \in LogFiles : scheduleWrite(f, measures + 1)
          BY <3>3, <3>5
        <4> QED
          BY <3>1, <3>3, <3>4, <3>5, <4>1
      <3>6. CASE UNCHANGED logVars
        BY <3>1, <3>6
      <3> QED
        BY <3>2, <3>5, <3>6
    <2>2. CASE UNCHANGED logVars
      BY <2>1, <2>2, SameHandles DEF sdVars
    <2>3. CASE log_state = "IDLE" /\ log_state' = "WRITE_MEASURE_FILE" /\ fileMeasureHandle' = fileMeasureHandle
      BY <2>1, <2>3 DEF HandleInv, MountInv, Unmounting, OpenInv, OwnedInv, InUse, cfgVars, fsVars
    <2> QED
      BY <2>1, <2>2, <2>3
  <1>5. CASE TaskLog
    BY <1>0, <1>5, LoggingHandles DEF TaskLog, ModeInv, LoggingSteps
  <1>6. CASE btnTaskGest
    BY <1>0, <1>6, SameHandles DEF btnTaskGest
  <1>7. CASE TaskInactive
    BY <1>0, <1>7, SameHandles DEF TaskInactive
  <1>8. CASE PollMiss
    BY <1>0, <1>8, SameHandles DEF PollMiss, Poll, NextCommand
  <1>9. CASE PollShutdown
    BY <1>0, <1>9, SameHandles DEF PollShutdown, Poll, NextCommand
  <1>10. CASE PollStop
    BY <1>0, <1>10, SameHandles DEF PollStop, Poll
  <1>11. CASE PollDisplay
    BY <1>11, NotPolled DEF PollDisplay, NoDisplay
  <1>12. CASE PollClear
    <2>1. PICK cmd \in {"gclr", "iclr"} : FileDirectoryRemove(LogOf(cmd))
      BY <1>12 DEF PollClear
    <2>2. LogOf(cmd) \in LogFiles
      BY DEF LogOf, LogFiles
    <2> QED
      BY <1>0, <1>12, <2>1, <2>2, ClearHandles DEF PollClear, Poll, NextCommand
  <1>13. CASE StopConfig
    BY <1>0, <1>13, StopConfigRests, SameHandles DEF StopConfig
  <1>14. CASE StopLog
    BY <1>0, <1>14, LoggingHandles DEF StopLog, ModeInv, LoggingSteps, appVars
  <1>15. CASE Stopped
    <2>1. ConfigDone /\ ConfigDone' /\ log_state = "IDLE" /\ ~Unmounting /\ pc' \in {"poll", "task"}
          /\ UNCHANGED <<fileCfgHandle, logVars, fsVars>>
      BY <1>0, <1>15 DEF Stopped, NextCommand, ModeInv, LoggingSteps, ConfigDone
    <2> QED
      BY <2>1 DEF HandleInv, MountInv, Unmounting, OpenInv, OwnedInv, InUse, ConfigDone, logVars, fsVars
  <1>16. CASE DisplayOpen
    BY <1>16 DEF DisplayOpen, HandleInv
  <1>17. CASE DisplayRead
    BY <1>17 DEF DisplayRead, HandleInv
  <1>18. CASE DisplayClose
    BY <1>18 DEF DisplayClose, HandleInv
  <1>19. CASE TaskLive
    BY <1>0, <1>19, SameHandles DEF TaskLive
  <1>20. CASE TaskConfigure
    <2>1. log_state = "IDLE" /\ UNCHANGED logVars /\ ~Unmounting /\ pc' \in {"task", "configTask"}
          /\ (CFG_Write(settings') \/ UNCHANGED <<cfgVars, fsVars>>)
      BY <1>0, <1>20 DEF TaskConfigure, ModeInv
    <2>2. CASE CFG_Write(settings')
      <3>1. OpenInv' /\ mounted' = mounted
        BY <2>1, <2>2, CFG_WriteOpen DEF HandleInv
      <3> QED
        BY <2>1, <3>1, ConfigHandles
    <2>3. CASE UNCHANGED <<cfgVars, fsVars>>
      BY <2>1, <2>3, SameHandles DEF sdVars
    <2> QED
      BY <2>1, <2>2, <2>3
  <1>21. CASE ConfigTask
    <2>1. sd_fat_config_task(FALSE) /\ UNCHANGED logVars /\ log_state = "IDLE" /\ ~Unmounting
          /\ pc' = "task" /\ cfg_state \notin {"MOUNT_DISK", "UNMOUNT_DISK"}
      BY <1>0, <1>21 DEF ConfigTask, ModeInv
    <2>2. OpenInv' /\ mounted' = mounted
      BY <2>1, ConfigTaskOpen DEF HandleInv
    <2> QED
      BY <2>1, <2>2, ConfigHandles
  <1>22. CASE Shutdown
    BY <1>22, SameHandles DEF Shutdown
  <1>23. CASE ShutdownWait
    <2>1. state = "SHUTDOWN" /\ state' = state /\ ConfigDone /\ UNCHANGED cfgVars
      BY <1>23 DEF ShutdownWait, PowerInv, ModeInv
    <2>2. CASE log_state = "IDLE"
      <3>1. log_state' = "UNMOUNT_DISK" /\ pc' = "shutdownUnmount"
            /\ UNCHANGED <<fileMeasureHandle, fsVars>>
        BY <1>23, <2>2 DEF ShutdownWait
      <3> QED
        BY <2>1, <2>2, <3>1 DEF HandleInv, MountInv, Unmounting, OpenInv, OwnedInv, InUse, cfgVars, fsVars
    <2>3. CASE log_state # "IDLE"
      BY <1>23, <2>1, <2>3, LoggingHandles DEF ShutdownWait
    <2> QED
      BY <2>2, <2>3
  <1>24. CASE ShutdownUnmount
    <2>1. state = "SHUTDOWN" /\ state' = state /\ ConfigDone /\ UNCHANGED cfgVars
      BY <1>24 DEF ShutdownUnmount, PowerInv, ModeInv
    <2>2. CASE log_state = "IDLE"
      BY <1>24, <2>1, <2>2, SameHandles DEF ShutdownUnmount, sdVars
    <2>3. CASE log_state # "IDLE"
      BY <1>24, <2>1, <2>3, LoggingHandles DEF ShutdownUnmount
    <2> QED
      BY <2>2, <2>3
  <1>25. CASE ShutdownOff
    BY <1>25, SameHandles DEF ShutdownOff, PowerInv
  <1> QED
    BY <1>1, <1>2, <1>3, <1>4, <1>5, <1>6, <1>7, <1>8, <1>9, <1>10, <1>11, <1>12, <1>13, <1>14, <1>15, <1>16, <1>17, <1>18, <1>19, <1>20, <1>21, <1>22, <1>23, <1>24, <1>25 DEF MainLoop

\* So does each step of the interrupt, the user and the power supply.
LEMMA EnvironmentHandles ==
  ASSUME HandleInv,
         \/ stateTimer_callback \/ stateTimer_trap \/ PressOrRelease \/ Type \/ PowerLoss
         \/ UNCHANGED vars
  PROVE  HandleInv'
  <1>1. CASE stateTimer_callback \/ PressOrRelease \/ Type \/ UNCHANGED vars
    <2>1. UNCHANGED <<sdVars, pc, state>>
      BY <1>1 DEF stateTimer_callback, PressOrRelease, Type, vars, appVars
    <2> QED
      BY <2>1, SameHandles DEF HandleInv, MountInv
  <1>2. CASE stateTimer_trap
    <2>1. UNCHANGED <<sdVars, state>> /\ pc' = "trap"
      BY <1>2 DEF stateTimer_trap
    <2> QED
      BY <2>1, SameHandles DEF HandleInv, MountInv, DisplaySteps
  <1>3. CASE PowerLoss
    <2>1. \A h \in Handles : ~InUse(h)'
      BY <1>3 DEF PowerLoss, SdPowerLoss, InUse, FreeSlot
    <2> QED
      BY <1>3, <2>1 DEF PowerLoss, SdPowerLoss, HandleInv, MountInv, Unmounting, OpenInv, OwnedInv,
                        DisplaySteps
  <1> QED
    BY <1>1, <1>2, <1>3

LEMMA HandleInvInvariant == NoDisplay => (Spec /\ []ConfigAtRest => []HandleInv)
  <1> SUFFICES ASSUME NoDisplay PROVE Spec /\ []ConfigAtRest => []HandleInv
    OBVIOUS
  <1>1. Init => HandleInv
    BY DEF Init, InitSdRam, HandleInv, MountInv, Unmounting, OpenInv, OwnedInv, InUse, FreeSlot,
           DisplaySteps
  <1>2. ASSUME TypeOK, BootInv, PowerInv, ModeInv, LogInv, ConfigAtRest, HandleInv, [Next]_vars
        PROVE  HandleInv'
    BY <1>2, MainLoopHandles, EnvironmentHandles DEF Next
  <1> QED
    BY <1>1, <1>2, AppTypeOK, BootInvInvariant, PowerInvInvariant, ModeInvInvariant,
       LogInvInvariant, PTL DEF Spec

\* While the logging machine is between opening and closing a log, its handle
\* designates that log and the volume is mounted, as long as no log is displayed:
\* neither the configuration machine nor the shutdown takes it away.
THEOREM HandlesStayOwned == NoDisplay => (Spec /\ []ConfigAtRest => []HandlesOwned)
  <1> SUFFICES ASSUME NoDisplay PROVE Spec /\ []ConfigAtRest => []HandlesOwned
    OBVIOUS
  <1>1. HandleInv => HandlesOwned
    BY DEF HandleInv, MountInv, OwnedInv, LogSlot, HandlesOwned
  <1> QED
    BY <1>1, HandleInvInvariant, PTL

(***************************************************************************)
(* The application implements DurableLog, as long as no log is displayed:  *)
(* every step is a step of DurableLog or leaves its variables alone.       *)
(***************************************************************************)

DurableStep == [Durable!Next]_(Durable!vars)

\* The record of the last measure is still to be stored in its log.
Held == \/ log_state = "WRITE_MEASURE_FILE"
        \/ /\ log_state \in {"WRITE_TO_MEASURE_FILE", "CLOSE_FILE"}
           /\ slots[fileMeasureHandle].file = fileName

LEMMA PendingIs ==
  ASSUME HandleInv
  PROVE  pending = IF Held THEN data ELSE <<>>
  <1>1. log_state \in {"WRITE_TO_MEASURE_FILE", "CLOSE_FILE"} =>
          /\ OwnsLog <=> slots[fileMeasureHandle].file = fileName
          /\ log_state = "CLOSE_FILE" => slots[fileMeasureHandle].buf = data
    BY DEF HandleInv, OwnedInv, LogSlot, OwnsLog
  <1> QED
    BY <1>1 DEF pending, Held

LEMMA PendingIsNext ==
  ASSUME HandleInv'
  PROVE  pending' = IF Held' THEN data' ELSE <<>>
  <1>1. log_state' \in {"WRITE_TO_MEASURE_FILE", "CLOSE_FILE"} =>
          /\ OwnsLog' <=> slots'[fileMeasureHandle'].file = fileName'
          /\ log_state' = "CLOSE_FILE" => slots'[fileMeasureHandle'].buf = data'
    BY DEF HandleInv, OwnedInv, LogSlot, OwnsLog
  <1> QED
    BY <1>1 DEF pending, Held

\* A step that changes no log and takes no measure: what is held may be lost by a
\* fault only.
LEMMA QuietStep ==
  ASSUME TypeOK, \A f \in LogFiles : card'[f] = card[f],
         UNCHANGED <<measures, cleared, powerCuts>>,
         \/ faults' = faults /\ pending' = pending
         \/ faults' = faults + 1 /\ pending' \in {pending, <<>>}
  PROVE  DurableStep
  <1>1. UNCHANGED [f \in LogFiles |-> card[f]]
    OBVIOUS
  <1>2. CASE faults' = faults /\ pending' = pending
    BY <1>1, <1>2 DEF DurableStep, Durable!vars
  <1>3. CASE faults' = faults + 1 /\ pending' \in {pending, <<>>}
    <2>1. faults \in Nat /\ powerCuts \in Nat
      BY BoundsType, SdFatAssumption DEF TypeOK, SdTypeOK
    <2>2. (faults + powerCuts)' = faults + powerCuts + 1
      BY <1>3, <2>1
    <2>3. Durable!Mishap
      BY <1>1, <1>3, <2>2 DEF Durable!Mishap
    <2> QED
      BY <2>3 DEF DurableStep, Durable!Next
  <1> QED
    BY <1>2, <1>3

\* A step that leaves the card and both machines alone, up to the state of the
\* configuration machine.
LEMMA SameDurable ==
  ASSUME UNCHANGED <<log_state, data, fileMeasureHandle, fileName, slots, card, faults,
                     measures, cleared, powerCuts>>
  PROVE  DurableStep
  BY DEF DurableStep, Durable!vars, pending, OwnsLog, InUse

\* A step of the configuration machine: one call at most may fail.
LEMMA ConfigTaskFaults ==
  ASSUME NEW init, sd_fat_config_task(init)
  PROVE  faults' = faults \/ faults' = faults + 1
  <1>1. \A ok, possible : Result(ok, possible) => faults' = faults \/ faults' = faults + 1
    BY DEF Result
  <1> HIDE DEF Result
  <1>2. CASE CfgMountDisk
    BY <1>1, <1>2 DEF CfgMountDisk, Mount
  <1>3. CASE CfgSetCurrentDrive(init)
    BY <1>1, <1>3 DEF CfgSetCurrentDrive, CurrentDriveSet
  <1>4. CASE CfgOpenRead \/ CfgOpenWrite
    BY <1>1, <1>4 DEF CfgOpenRead, CfgOpenWrite, FileOpen
  <1>5. CASE CfgRead
    BY <1>1, <1>5 DEF CfgRead, FileRead, FailAndClose
  <1>6. CASE CfgWrite
    BY <1>1, <1>6 DEF CfgWrite, FileStringPut, FailAndClose
  <1>7. CASE CfgClose(init)
    BY <1>1, <1>7 DEF CfgClose, FileClose
  <1>8. CASE CfgUnmountDisk
    BY <1>1, <1>8 DEF CfgUnmountDisk, Unmount
  <1>9. CASE CfgRest
    BY <1>9 DEF CfgRest, fsVars
  <1> QED
    BY <1>2, <1>3, <1>4, <1>5, <1>6, <1>7, <1>8, <1>9 DEF sd_fat_config_task

\* A step of the configuration machine, or of sd_CFG_Write, while nothing is held.
LEMMA ConfigDurable ==
  ASSUME TypeOK, LogInv, UNCHANGED <<logVars, measures, cleared, powerCuts>>,
         log_state \in {"MOUNT_DISK", "IDLE"},
         \/ \E init : sd_fat_config_task(init)
         \/ \E s \in Settings : CFG_Write(s)
  PROVE  DurableStep
  <1>1. pending = <<>> /\ pending' = <<>>
    BY DEF pending, logVars
  <1>2. faults' = faults \/ faults' = faults + 1
    <2>1. ASSUME NEW s, CFG_Write(s) PROVE faults' = faults \/ faults' = faults + 1
      BY <2>1 DEF CFG_Write, FileClose, Result, fsVars
    <2> QED
      BY <2>1, ConfigTaskFaults
  <1>3. \A f \in LogFiles : card'[f] = card[f]
    BY ConfigTaskLog, CFG_WriteLog
  <1> QED
    BY <1>1, <1>2, <1>3, QuietStep

\* A file can be opened when none is open.
LEMMA HandleIsFree ==
  ASSUME TypeOK, \A h \in Handles : ~InUse(h)
  PROVE  FreeHandles # {}
  <1>1. MaxFiles \in Nat /\ MaxFiles # 0
    BY SdFatAssumption
  <1>2. 1 \in Handles
    BY <1>1 DEF Handles
  <1> QED
    BY <1>2 DEF FreeHandles, InUse

\* The record reaches its log, once.
LEMMA CloseStores ==
  ASSUME TypeOK, LogInv, HandleInv, HandleInv', log_state = "CLOSE_FILE", log_state' = "IDLE",
         UNCHANGED <<measures, cleared, powerCuts, faults>>, CloseAs(TRUE, fileMeasureHandle)
  PROVE  DurableStep
  <1>1. /\ InUse(fileMeasureHandle) /\ LogSlot(fileMeasureHandle)
        /\ slots[fileMeasureHandle].buf = data /\ data = <<Record(fileName, measures)>>
        /\ fileName \in LogFiles
    BY DEF HandleInv, OwnedInv, LogSlot, LogInv, SlotInv, Writing, TypeOK, SdTypeOK
  <1>2. /\ card \in [Files -> Seq(Texts)] /\ LogFiles \subseteq Files /\ Deleted \notin Files
        /\ measures \in Nat
    BY DEF TypeOK, SdTypeOK, Files, LogFiles, Config, Deleted
  <1>3. \A f \in Files : card'[f] = Stored(fileMeasureHandle, f)
    BY <1>1 DEF CloseAs
  <1>4. pending' = <<>>
    BY DEF pending
  <1>5. CASE slots[fileMeasureHandle].file # fileName
    <2>1. \A f \in LogFiles : card'[f] = card[f]
      BY <1>1, <1>2, <1>3, <1>5 DEF Stored, LogSlot
    <2>2. pending = <<>>
      BY <1>5, PendingIs DEF Held
    <2> QED
      BY <1>4, <2>1, <2>2, QuietStep
  <1>6. CASE slots[fileMeasureHandle].file = fileName
    <2>1. pending = <<Record(fileName, measures)>>
      BY <1>1, <1>6, PendingIs DEF Held
    <2>2. /\ \A f \in LogFiles : f # fileName => card'[f] = card[f]
          /\ card'[fileName] = card[fileName] \o data
      <3>1. \A f \in LogFiles : f # fileName => card'[f] = card[f]
        BY <1>2, <1>3, <1>6 DEF Stored
      <3>2. card'[fileName] = card[fileName] \o slots[fileMeasureHandle].buf
        BY <1>1, <1>2, <1>3, <1>6 DEF Stored, LogSlot
      <3> QED
        BY <1>1, <3>1, <3>2
    <2>3. card'[fileName] = Append(card[fileName], Record(fileName, measures))
      <3>1. Append(card[fileName], Record(fileName, measures))
              = card[fileName] \o <<Record(fileName, measures)>>
        BY <1>1, <1>2, AppendIsConcat, RecordType
      <3> QED
        BY <1>1, <2>2, <3>1
    <2>4. pending # <<>> /\ pending[1] = Record(fileName, measures)
          /\ Record(fileName, measures).src = fileName
      BY <2>1 DEF Record
    <2> DEFINE before == [f \in LogFiles |-> card[f]]
               after  == [f \in LogFiles |-> card'[f]]
    <2>5. after = [before EXCEPT ![pending[1].src] = Append(@, pending[1])]
      <3>1. after = [before EXCEPT ![fileName] = Append(card[fileName], Record(fileName, measures))]
        BY <1>1, <2>2, <2>3
      <3> QED
        BY <1>1, <2>4, <3>1
    <2>6. Durable!Store
      BY <1>4, <2>4, <2>5 DEF Durable!Store
    <2> QED
      BY <2>6 DEF DurableStep, Durable!Next
  <1> QED
    BY <1>5, <1>6

\* A step of the logging machine stores the record, or loses it by a fault, or leaves
\* it as it is.
LEMMA LoggingDurable ==
  ASSUME TypeOK, LogInv, HandleInv, HandleInv', ConfigDone,
         UNCHANGED <<cfgVars, measures, cleared, powerCuts>>, sd_fat_logging_task
  PROVE  DurableStep
  <1>1. /\ \A h \in Handles : InUse(h) =>
             h = fileMeasureHandle /\ log_state \in {"WRITE_TO_MEASURE_FILE", "CLOSE_FILE"}
        /\ FsTypeOK
    BY TypeParts DEF HandleInv, OpenInv, ConfigDone
  <1>2. CASE LogMountDisk \/ LogSetCurrentDrive \/ LogRest
    <2>1. /\ card' = card
          /\ log_state \in {"MOUNT_DISK", "SET_CURRENT_DRIVE", "IDLE", "ERROR"}
          /\ log_state' \in {"MOUNT_DISK", "SET_CURRENT_DRIVE", "IDLE", "ERROR"}
          /\ faults' = faults \/ faults' = faults + 1
      BY <1>2 DEF LogMountDisk, Mount, LogSetCurrentDrive, CurrentDriveSet, LogRest, Result,
                  logVars, fsVars
    <2>2. pending = <<>> /\ pending' = <<>>
      BY <2>1 DEF pending
    <2> QED
      BY <2>1, <2>2, QuietStep
  <1>3. CASE LogOpen
    <2>1. PICK ok \in BOOLEAN :
            /\ log_state = "WRITE_MEASURE_FILE"
            /\ FileOpen(ok, fileName, "append")
            /\ fileMeasureHandle' = OpenedHandle(ok)
            /\ log_state' = IF ok THEN "WRITE_TO_MEASURE_FILE" ELSE "ERROR"
            /\ UNCHANGED <<data, fileName>>
      BY <1>3 DEF LogOpen
    <2>2. mounted /\ FreeHandles # {}
      BY <1>1, <2>1, HandleIsFree DEF HandleInv, MountInv
    <2>3. IF ok THEN faults' = faults ELSE faults' = faults + 1
      BY <2>1, <2>2 DEF FileOpen, Result
    <2>4. pending = data
      BY <2>1 DEF pending
    <2>5. pending' = IF ok THEN data ELSE <<>>
      <3>1. /\ ok => FirstFree \in Handles
            /\ \A h \in Handles :
                 slots'[h] = IF ok /\ h = FirstFree
                             THEN [file |-> fileName, mode |-> "append", buf |-> <<>>]
                             ELSE slots[h]
        BY <1>1, <2>1, OpenedSlot
      <3>2. ok => slots'[fileMeasureHandle'].file = fileName'
        BY <2>1, <3>1 DEF OpenedHandle
      <3> QED
        BY <2>1, <3>2, PendingIsNext DEF Held
    <2>6. card' = card
      BY <2>1 DEF FileOpen
    <2> QED
      BY <2>3, <2>4, <2>5, <2>6, QuietStep
  <1>4. CASE LogWrite
    <2>1. log_state = "WRITE_TO_MEASURE_FILE" /\ UNCHANGED <<fileMeasureHandle, data, fileName>>
      BY <1>4 DEF LogWrite
    <2>2. /\ InUse(fileMeasureHandle) /\ LogSlot(fileMeasureHandle) /\ mounted
          /\ fileMeasureHandle \in Handles
      BY <2>1 DEF HandleInv, MountInv, OwnedInv, InUse
    <2>3. CanPut(fileMeasureHandle)
      BY <2>2 DEF CanPut, LogSlot
    <2>4. CASE FileStringPut(fileMeasureHandle, data) /\ log_state' = "CLOSE_FILE"
      <3>1. slots'[fileMeasureHandle].file = slots[fileMeasureHandle].file
        BY <1>1, <2>2, <2>4 DEF FileStringPut, FsTypeOK, Slots
      <3>2. pending' = pending
        BY <2>1, <2>4, <3>1, PendingIs, PendingIsNext DEF Held
      <3>3. faults' = faults /\ card' = card
        BY <2>4 DEF FileStringPut, Result
      <3> QED
        BY <3>2, <3>3, QuietStep
    <2>5. CASE FailAndClose(CanPut(fileMeasureHandle), fileMeasureHandle) /\ log_state' = "ERROR"
      <3>1. \A f \in LogFiles : card'[f] = card[f]
        BY <2>1, <2>5, CloseAsCard DEF FailAndClose
      <3>2. faults' = faults + 1
        BY <2>3, <2>5 DEF FailAndClose, Result
      <3>3. pending' = <<>>
        BY <2>5 DEF pending
      <3> QED
        BY <3>1, <3>2, <3>3, QuietStep
    <2> QED
      BY <1>4, <2>4, <2>5 DEF LogWrite
  <1>5. CASE LogClose
    <2>1. log_state = "CLOSE_FILE" /\ log_state' = "IDLE"
      BY <1>5 DEF LogClose
    <2>2. PICK ok \in BOOLEAN :
            /\ Result(ok, mounted /\ InUse(fileMeasureHandle))
            /\ CloseAs(ok, fileMeasureHandle)
      BY <1>5 DEF LogClose, FileClose
    <2>3. mounted /\ InUse(fileMeasureHandle)
      BY <2>1 DEF HandleInv, MountInv, OwnedInv
    <2>4. CASE ok
      <3>1. faults' = faults
        BY <2>2, <2>4 DEF Result
      <3> QED
        BY <2>1, <2>2, <2>4, <3>1, CloseStores
    <2>5. CASE ~ok
      <3>1. faults' = faults + 1
        BY <2>2, <2>3, <2>5 DEF Result
      <3>2. card' \in {card, Truncated}
        BY <2>2, <2>3, <2>5 DEF CloseAs
      <3>3. \A f \in LogFiles : card'[f] = card[f]
        BY <3>2, TruncatedCard DEF LogInv
      <3>4. pending' = <<>>
        BY <2>1 DEF pending
      <3> QED
        BY <3>1, <3>3, <3>4, QuietStep
    <2> QED
      BY <2>4, <2>5
  <1>6. CASE LogUnmountDisk
    <2>1. PICK ok \in BOOLEAN : Unmount(ok) /\ log_state' = IF ok THEN "IDLE" ELSE "UNMOUNT_DISK"
      BY <1>6 DEF LogUnmountDisk
    <2>2. \A h \in Handles : ~ToBeStored(h)
      BY <1>1, <1>6 DEF LogUnmountDisk, ToBeStored
    <2>3. \A f \in LogFiles : card'[f] = card[f]
      BY <2>1, <2>2, UnmountLog
    <2>4. faults' = faults \/ faults' = faults + 1
      BY <2>1 DEF Unmount, Result
    <2>5. pending = <<>> /\ pending' = <<>>
      BY <1>6, <2>1 DEF pending, LogUnmountDisk
    <2> QED
      BY <2>3, <2>4, <2>5, QuietStep
  <1> QED
    BY <1>2, <1>3, <1>4, <1>5, <1>6 DEF sd_fat_logging_task

\* A measure is scheduled when nothing is held.
LEMMA ScheduleDurable ==
  ASSUME TypeOK, UNCHANGED <<fsVars, cleared, powerCuts>>, log_state = "IDLE",
         NEW f \in LogFiles, scheduleWrite(f, measures + 1), measures' = measures + 1
  PROVE  DurableStep
  <1>1. pending = <<>>
    BY DEF pending
  <1>2. pending' = <<[rec |-> measures + 1, src |-> f]>>
    BY DEF pending, scheduleWrite, Record
  <1>3. UNCHANGED <<card, faults, cleared, powerCuts>>
    BY DEF fsVars
  <1>4. Durable!Schedule(f)
    BY <1>1, <1>2, <1>3 DEF Durable!Schedule
  <1> QED
    BY <1>4 DEF DurableStep, Durable!Next

\* A log is cleared, and what is held with it when it was open.
LEMMA ClearDurable ==
  ASSUME TypeOK, LogInv, HandleInv, HandleInv', UNCHANGED <<logVars, measures, powerCuts>>,
         NEW f \in LogFiles, FileDirectoryRemove(f),
         cleared' = IF present' = present THEN cleared ELSE cleared + 1
  PROVE  DurableStep
  <1>1. PICK ok \in BOOLEAN :
          /\ Result(ok, mounted /\ f \in present)
          /\ card' = IF ok THEN [card EXCEPT ![f] = <<>>] ELSE card
          /\ present' = IF ok THEN present \ {f} ELSE present
          /\ slots' = [h \in Handles |-> IF ok /\ slots[h].file = f
                                         THEN [slots[h] EXCEPT !.file = Deleted]
                                         ELSE slots[h]]
    BY DEF FileDirectoryRemove
  <1>2. slots \in [Handles -> Slots] /\ card \in [Files -> Seq(Texts)]
        /\ LogFiles \subseteq Files /\ Deleted \notin LogFiles /\ fileName \in LogFiles
    BY TypeParts DEF FsTypeOK, LogTypeOK, Files, LogFiles, Deleted
  <1>3. CASE ~ok
    <2>1. slots' = slots /\ card' = card /\ present' = present
      BY <1>1, <1>2, <1>3
    <2>2. faults' = faults \/ faults' = faults + 1
      BY <1>1 DEF Result
    <2>3. pending' = pending
      BY <2>1, PendingIs, PendingIsNext DEF Held, logVars
    <2> QED
      BY <2>1, <2>2, <2>3, QuietStep
  <1>4. CASE ok
    <2>1. f \in present /\ faults' = faults
      BY <1>1, <1>4 DEF Result
    <2>2. cleared' = cleared + 1
      BY <1>1, <1>4, <2>1
    <2> DEFINE before == [g \in LogFiles |-> card[g]]
               after  == [g \in LogFiles |-> card'[g]]
    <2>3. after = [before EXCEPT ![f] = <<>>]
      <3>1. \A g \in LogFiles : card'[g] = IF g = f THEN <<>> ELSE card[g]
        BY <1>1, <1>2, <1>4
      <3> QED
        BY <3>1
    <2>4. \/ pending' = pending
          \/ pending # <<>> /\ pending[1].src = f /\ pending' = <<>>
      <3>1. CASE log_state \in {"WRITE_TO_MEASURE_FILE", "CLOSE_FILE"}
        <4>1. fileMeasureHandle \in Handles
          BY <3>1 DEF HandleInv, OwnedInv, InUse
        <4>2. slots'[fileMeasureHandle].file
                = IF slots[fileMeasureHandle].file = f THEN Deleted ELSE slots[fileMeasureHandle].file
          BY <1>1, <1>2, <1>4, <4>1 DEF Slots
        <4>3. CASE slots[fileMeasureHandle].file = fileName /\ fileName = f
          <5>1. Held /\ ~Held'
            BY <1>2, <3>1, <4>2, <4>3 DEF Held, logVars
          <5>2. pending = data /\ pending' = <<>> /\ data = <<Record(fileName, measures)>>
            BY <3>1, <5>1, PendingIs, PendingIsNext DEF LogInv, SlotInv, Writing
          <5> QED
            BY <4>3, <5>2 DEF Record
        <4>4. CASE ~(slots[fileMeasureHandle].file = fileName /\ fileName = f)
          <5>1. Held' = Held
            BY <1>2, <3>1, <4>2, <4>4 DEF Held, logVars
          <5> QED
            BY <5>1, PendingIs, PendingIsNext DEF logVars
        <4> QED
          BY <4>3, <4>4
      <3>2. CASE log_state \notin {"WRITE_TO_MEASURE_FILE", "CLOSE_FILE"}
        BY <3>2, PendingIs, PendingIsNext DEF Held, logVars
      <3> QED
        BY <3>1, <3>2
    <2>5. Durable!Clear(f)
      BY <2>1, <2>2, <2>3, <2>4 DEF Durable!Clear
    <2> QED
      BY <2>5 DEF DurableStep, Durable!Next
  <1> QED
    BY <1>3, <1>4

\* The power goes: by a cut, which is a mishap, or when nothing is held.
LEMMA PowerLossDurable ==
  ASSUME TypeOK, LogInv, PowerInv, PowerLoss
  PROVE  DurableStep
  <1>1. card' \in {card, Truncated} /\ UNCHANGED <<faults, measures, cleared>> /\ pending' = <<>>
    BY DEF PowerLoss, SdPowerLoss, CardLeft, counts, pending
  <1>2. \A f \in LogFiles : card'[f] = card[f]
    BY <1>1, TruncatedCard DEF LogInv
  <1>3. CASE ~powerHold /\ UNCHANGED powerCuts
    <2>1. pending = <<>>
      BY <1>3 DEF PowerInv, Saved, pending
    <2> QED
      BY <1>1, <1>2, <1>3, <2>1, QuietStep
  <1>4. CASE powerCuts' = powerCuts + 1
    <2>1. faults \in Nat /\ powerCuts \in Nat
      BY BoundsType, SdFatAssumption DEF TypeOK, SdTypeOK
    <2>2. (faults + powerCuts)' = faults + powerCuts + 1
      BY <1>1, <1>4, <2>1
    <2>3. UNCHANGED [f \in LogFiles |-> card[f]]
      BY <1>2
    <2>4. Durable!Mishap
      BY <1>1, <2>2, <2>3 DEF Durable!Mishap
    <2> QED
      BY <2>4 DEF DurableStep, Durable!Next
  <1> QED
    BY <1>3, <1>4 DEF PowerLoss

\* Each step of the main loop is a step of DurableLog or a stutter.
LEMMA MainLoopDurable ==
  ASSUME NoDisplay, TypeOK, PowerInv, ModeInv, LogInv, ConfigAtRest, HandleInv, HandleInv',
         MainLoop
  PROVE  DurableStep
  <1> USE DEF sdVars, logVars, fsVars, counts, envVars
  <1>1. CASE TaskInit
    BY <1>1, SameDurable DEF TaskInit
  <1>2. CASE TaskConfig
    BY <1>2, ConfigDurable DEF TaskConfig, sd_fat_cfg_init, ModeInv, Starting
  <1>3. CASE ConfigButton
    BY <1>3, SameDurable DEF ConfigButton
  <1>4. CASE TaskMeasure
    <2>1. UNCHANGED <<fsVars, cleared, powerCuts>>
      BY <1>4 DEF TaskMeasure
    <2>2. CASE MeasureTaken = {}
      BY <1>4, <2>1, <2>2, SameDurable DEF TaskMeasure
    <2>3. CASE MeasureTaken # {}
      <3>1. log_state = "IDLE"
        BY <2>3 DEF MeasureTaken
      <3>2. PICK f \in LogFiles : scheduleWrite(f, measures + 1) /\ measures' = measures + 1
        BY <1>4, <2>3 DEF TaskMeasure, LogFiles
      <3> QED
        BY <2>1, <3>1, <3>2, ScheduleDurable
    <2> QED
      BY <2>2, <2>3
  <1>5. CASE TaskLog
    BY <1>5, LoggingDurable DEF TaskLog, ModeInv, LoggingSteps
  <1>6. CASE btnTaskGest
    BY <1>6, SameDurable DEF btnTaskGest
  <1>7. CASE TaskInactive
    BY <1>7, SameDurable DEF TaskInactive
  <1>8. CASE PollMiss
    BY <1>8, SameDurable DEF PollMiss, Poll
  <1>9. CASE PollShutdown
    BY <1>9, SameDurable DEF PollShutdown, Poll
  <1>10. CASE PollStop
    BY <1>10, SameDurable DEF PollStop, Poll
  <1>11. CASE PollDisplay
    BY <1>11, NotPolled DEF PollDisplay, NoDisplay
  <1>12. CASE PollClear
    <2>1. PICK cmd \in {"gclr", "iclr"} : FileDirectoryRemove(LogOf(cmd))
      BY <1>12 DEF PollClear
    <2>2. LogOf(cmd) \in LogFiles
      BY DEF LogOf, LogFiles
    <2> QED
      BY <1>12, <2>1, <2>2, ClearDurable DEF PollClear, Poll
  <1>13. CASE StopConfig
    BY <1>13, StopConfigRests, SameDurable DEF StopConfig
  <1>14. CASE StopLog
    BY <1>14, LoggingDurable DEF StopLog, ModeInv, LoggingSteps
  <1>15. CASE Stopped
    BY <1>15, SameDurable DEF Stopped
  <1>16. CASE DisplayOpen \/ DisplayRead \/ DisplayClose
    BY <1>16 DEF DisplayOpen, DisplayRead, DisplayClose, HandleInv, DisplaySteps
  <1>17. CASE TaskLive
    BY <1>17, SameDurable DEF TaskLive
  <1>18. CASE TaskConfigure
    <2>1. log_state = "IDLE" /\ UNCHANGED <<logVars, measures, cleared, powerCuts>>
      BY <1>18 DEF TaskConfigure, ModeInv
    <2>2. CFG_Write(settings') \/ UNCHANGED <<cfgVars, fsVars>>
      BY <1>18 DEF TaskConfigure
    <2>3. settings' \in Settings
      BY <1>18, TaskConfigureType
    <2> QED
      BY <2>1, <2>2, <2>3, ConfigDurable, SameDurable
  <1>19. CASE ConfigTask
    BY <1>19, ConfigDurable DEF ConfigTask, ModeInv
  <1>20. CASE Shutdown
    BY <1>20, SameDurable DEF Shutdown
  <1>21. CASE ShutdownWait
    <2>1. CASE log_state = "IDLE"
      <3>1. log_state' = "UNMOUNT_DISK" /\ UNCHANGED <<fsVars, measures, cleared, powerCuts>>
        BY <1>21, <2>1 DEF ShutdownWait
      <3>2. pending = <<>> /\ pending' = <<>>
        BY <2>1, <3>1 DEF pending
      <3> QED
        BY <3>1, <3>2, QuietStep
    <2>2. CASE log_state # "IDLE"
      BY <1>21, <2>2, LoggingDurable DEF ShutdownWait, ModeInv
    <2> QED
      BY <2>1, <2>2
  <1>22. CASE ShutdownUnmount
    <2>1. CASE log_state = "IDLE"
      BY <1>22, <2>1, SameDurable DEF ShutdownUnmount
    <2>2. CASE log_state # "IDLE"
      BY <1>22, <2>2, LoggingDurable DEF ShutdownUnmount, ModeInv
    <2> QED
      BY <2>1, <2>2
  <1>23. CASE ShutdownOff
    BY <1>23, SameDurable DEF ShutdownOff
  <1> QED
    BY <1>1, <1>2, <1>3, <1>4, <1>5, <1>6, <1>7, <1>8, <1>9, <1>10, <1>11, <1>12, <1>13, <1>14, <1>15, <1>16, <1>17, <1>18, <1>19, <1>20, <1>21, <1>22, <1>23 DEF MainLoop

LEMMA InitDurable == Init => Durable!Init
  <1> SUFFICES ASSUME Init PROVE Durable!Init
    OBVIOUS
  <1>1. PICK c : card = [f \in Files |-> IF f = Config THEN c ELSE <<>>]
    BY DEF Init, InitCard
  <1>2. [f \in LogFiles |-> card[f]] = [f \in LogFiles |-> <<>>]
    BY <1>1 DEF Files, LogFiles, Config
  <1>3. pending = <<>>
    BY DEF Init, InitSdRam, pending
  <1>4. measures = 0 /\ faults + powerCuts = 0 /\ cleared = 0
    BY DEF Init, InitCard
  <1> QED
    BY <1>2, <1>3, <1>4 DEF Durable!Init

\* Every measure that is scheduled is appended exactly once to the log of its source,
\* unless a call of the file system fails, the power fails or the log is cleared: the
\* whole application implements DurableLog, over all its modes but the display of a log
\* and as long as logging goes on with the parameters at rest.
THEOREM AppIsDurable == NoDisplay => (Spec /\ []ConfigAtRest => LogIsDurable)
  <1> SUFFICES ASSUME NoDisplay PROVE Spec /\ []ConfigAtRest => LogIsDurable
    OBVIOUS
  <1>1. ASSUME TypeOK, PowerInv, ModeInv, LogInv, ConfigAtRest, HandleInv, HandleInv', [Next]_vars
        PROVE  [Durable!Next]_(Durable!vars)
    <2>1. CASE MainLoop
      BY <1>1, <2>1, MainLoopDurable DEF DurableStep
    <2>2. CASE stateTimer_callback \/ stateTimer_trap \/ PressOrRelease \/ Type \/ UNCHANGED vars
      BY <1>1, <2>2, SameDurable DEF DurableStep, stateTimer_callback, stateTimer_trap,
         PressOrRelease, Type, vars, sdVars, logVars, fsVars, counts, envVars
    <2>3. CASE PowerLoss
      BY <1>1, <2>3, PowerLossDurable DEF DurableStep
    <2> QED
      BY <1>1, <2>1, <2>2, <2>3 DEF Next
  <1> QED
    BY InitDurable, <1>1, AppTypeOK, PowerInvInvariant, ModeInvInvariant, LogInvInvariant,
       HandleInvInvariant, PTL DEF Spec, LogIsDurable, Durable!Spec

\* A recorder whose parameters nobody changes and whose logs nobody displays keeps
\* its logs, with no other hypothesis.
COROLLARY AppIsDurableAtRest == NoConfig /\ NoDisplay => (Spec => LogIsDurable)
  <1> SUFFICES ASSUME NoConfig, NoDisplay PROVE Spec => LogIsDurable
    OBVIOUS
  <1> QED
    BY AtRestWithoutConfig, AppIsDurable, PTL

=============================================================================
