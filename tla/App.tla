-------------------------------- MODULE App --------------------------------
(***************************************************************************)
(* The flight recorder's application (app.c): the main loop calls          *)
(* APP_Tasks for ever, the 10 ms timer interrupt (stateTimer_callback)     *)
(* runs between any two of its steps, a user presses the button and types  *)
(* commands on the USB serial port, the power may fail.                    *)
(*                                                                         *)
(* `pc' says which step of the APP_Tasks call comes next; a call starts at *)
(* "task".  The loops of stopLogging, sys_shutdown and                     *)
(* sd_fat_readDisplayFile are steps too: the main loop does nothing else   *)
(* while one of them runs.                                                 *)
(***************************************************************************)
EXTENDS SdFat, FiniteSets

CONSTANTS
  Tokens,          \* what the user may type: [cmd, val] records
  CharReadSize,    \* CHAR_READ_BUFFER_SIZE, in tokens
  RxDepth,         \* tokens the UART1 receiver holds before it overruns
  MinInactive,     \* inactive periods up to this value are refused
  TicksPerSecond,  \* timer interrupts per second of inactivity
  BtnHold,         \* BTN_HOLD_SHUTDOWN_x10ms, in timer interrupts
  MaxRecords,      \* bound: measures scheduled
  MaxTokens,       \* bound: commands typed
  MaxPowerCuts     \* bound: power failures while the power is held

ASSUME AppAssumption ==
  /\ Tokens \subseteq [cmd : STRING, val : Nat]
  /\ \A t \in Tokens :
       /\ t.cmd = "INTG" => t.val \in GnssPeriods
       /\ t.cmd = "INTI" => t.val \in ImuPeriods
       /\ t.cmd = "TOFF" => t.val \in InactivePeriods
  /\ {CharReadSize, RxDepth, BtnHold} \subseteq Nat \ {0}
  /\ {MinInactive, TicksPerSecond, MaxRecords, MaxTokens, MaxPowerCuts} \subseteq Nat

VARIABLES
  pc,           \* the next step of the main loop
  state,        \* appData.state
  command,      \* index in Commands of the serial command being polled or served
  settings,     \* measPeriod, ledState and inactivePeriod
  old,          \* oldIntG, oldIntI, oldLed and oldInaPer of the configuration mode
  tmr,          \* timer 2 (DRV_TMR1) runs
  measTodo,     \* the measures that are due
  measures,     \* ghost: how many measures have been scheduled
  cleared,      \* ghost: how many times a log was removed
  inactiveCnt,  \* timeData.inactiveCnt
  button,       \* the button is pressed
  hold,         \* Hold of btnTaskGest, always equal to flagCntBtnPressed
  cntBtnPressed,\* timeData.cntBtnPressed
  rx,           \* what the UART1 receiver holds
  overrun,      \* the receiver has overrun: it takes nothing more
  charRead,     \* charRead of pollSerialCmds
  cfgRead,      \* charRead of the configuration mode
  shown,        \* how much of a log sd_fat_readDisplayFile has shown
  typed,        \* ghost: how many commands have been typed
  powerHold,    \* PWR_HOLD keeps the power on
  powerCuts     \* ghost: how many times the power failed

appVars  == <<pc, state, command>>
cfgModeVars == <<settings, old, cfgRead>>
tickVars == <<tmr, measTodo, inactiveCnt>>
btnVars  == <<hold, cntBtnPressed>>
serVars  == <<rx, charRead, shown>>
counts   == <<measures, cleared>>
envVars  == <<button, overrun, typed, powerCuts>>
vars == <<appVars, cfgModeVars, tickVars, counts, btnVars, serVars, envVars,
          powerHold, sdVars>>

States == {"INIT", "CONFIG", "LOGGING", "COMM_LIVE_GNSS", "COMM_LIVE_IMU",
           "CONFIGURATE_BBX", "SHUTDOWN"}

\* The order in which the logging state polls for serial commands.
Commands == <<"glive", "ilive", "shutdown", "config", "glog", "ilog", "gclr", "iclr">>

ConfigLines == {"INTG", "INTI", "LEDV", "TOFF"}

LogOf(cmd) == IF cmd \in {"glog", "gclr"} THEN "LOG_GNSS.txt" ELSE "LOG_IMU.csv"

AtMost(n, m) == IF n < m THEN n ELSE m

----------------------------------------------------------------------------
(* Serial input.                                                           *)

Taken(b) == AtMost(CharReadSize - Len(b), Len(rx))

\* What a read loop leaves in buffer b: it takes what the receiver holds, and
\* a buffer that gets full is cleared.
Received(b) ==
  IF Len(b) + Taken(b) >= CharReadSize THEN <<>> ELSE b \o SubSeq(rx, 1, Taken(b))
Drain(b) == rx' = SubSeq(rx, Taken(b) + 1, Len(rx))

Holds(b, cmd) == \E i \in DOMAIN b : b[i].cmd = cmd

\* pollSerialCmds: what it returns for a command, and what it leaves behind.
Polled(cmd) == Holds(Received(charRead), cmd)
pollSerialCmds(cmd) ==
  /\ Drain(charRead)
  /\ charRead' = IF Polled(cmd) THEN <<>> ELSE Received(charRead)

----------------------------------------------------------------------------
(* sd_fat_cfg_init: one step of the configuration machine; once it is done *)
(* the parameters are those of the file, or the defaults, and the logging  *)
(* state and the measure timer are started.  `Trap' is the exception that  *)
(* searching from a null pointer raises.                                   *)

sd_fat_cfg_init(next) ==
  /\ sd_fat_config_task(TRUE)
  /\ LET defaults == \/ cfg_state' = "ERROR"
                     \/ cfg_state' = "IDLE" /\ ParseError'
     IN \/ /\ cfg_state' \notin {"IDLE", "ERROR"}
           /\ UNCHANGED <<settings, state, tmr>>
           /\ pc' = next
        \/ /\ cfg_state' \in {"IDLE", "ERROR"}
           /\ settings' = IF defaults THEN Defaults
                          ELSE CHOOSE s \in Settings : Parsed(s)'
           /\ state' = "LOGGING"
           /\ tmr' = TRUE
           /\ pc' = next
        \/ /\ cfg_state' = "IDLE" /\ ParseUndefined'
           /\ UNCHANGED <<settings, state, tmr>>
           /\ pc' = "trap"

startLogging ==
  /\ state' = "LOGGING"
  /\ tmr' = TRUE

----------------------------------------------------------------------------
(* One action per step of APP_Tasks.                                       *)

\* APP_STATE_INIT: the inertial unit is set up (no state of this module).
TaskInit ==
  /\ pc = "task" /\ state = "INIT"
  /\ state' = "CONFIG"
  /\ UNCHANGED <<pc, command, cfgModeVars, tickVars, counts, btnVars, serVars,
                 envVars, powerHold, sdVars>>

\* APP_STATE_CONFIG: a step of the configuration machine, then the button.
TaskConfig ==
  /\ pc = "task" /\ state = "CONFIG"
  /\ sd_fat_cfg_init("configButton")
  /\ UNCHANGED <<command, old, cfgRead, measTodo, inactiveCnt, counts, btnVars,
                 serVars, envVars, powerHold, logVars>>

ConfigButton ==
  /\ pc = "configButton"
  /\ pc' = "task"
  /\ state' = IF button THEN "SHUTDOWN" ELSE state
  /\ UNCHANGED <<command, cfgModeVars, tickVars, counts, btnVars, serVars, envVars,
                 powerHold, sdVars>>

\* APP_STATE_LOGGING, first part: at most one measure that is due is taken, the
\* inertial unit first, when the logging machine is idle.
MeasureTaken ==
  CASE log_state = "IDLE" /\ "IMU" \in measTodo                      -> {"IMU"}
    [] log_state = "IDLE" /\ "IMU" \notin measTodo /\ "GNSS" \in measTodo -> {"GNSS"}
    [] OTHER                                                         -> {}

TaskMeasure ==
  /\ pc = "task" /\ state = "LOGGING"
  /\ pc' = "log"
  /\ measTodo' = measTodo \ MeasureTaken
  /\ \/ /\ MeasureTaken = {"IMU"}
        /\ \E active \in BOOLEAN : inactiveCnt' = IF active THEN 0 ELSE inactiveCnt
        /\ scheduleWrite("LOG_IMU.csv", measures + 1)
        /\ measures' = measures + 1
     \/ /\ MeasureTaken = {"GNSS"}
        /\ scheduleWrite("LOG_GNSS.txt", measures + 1)
        /\ measures' = measures + 1
        /\ UNCHANGED inactiveCnt
     \/ /\ MeasureTaken = {}
        /\ UNCHANGED <<inactiveCnt, measures, logVars>>
  /\ UNCHANGED <<state, command, cfgModeVars, tmr, cleared, btnVars, serVars, envVars,
                 powerHold, cfgVars, fsVars>>

TaskLog ==
  /\ pc = "log"
  /\ pc' = "button"
  /\ sd_fat_logging_task
  /\ UNCHANGED <<state, command, cfgModeVars, tickVars, counts, btnVars, serVars,
                 envVars, powerHold, cfgVars>>

\* btnTaskGest: from the press to the release, the interrupt counts; on the
\* release, a press that was held long enough shuts the system down.
btnTaskGest ==
  /\ pc = "button"
  /\ pc' = "inactive"
  /\ hold' = button
  /\ IF hold /\ ~button
     THEN /\ state' = IF cntBtnPressed >= BtnHold THEN "SHUTDOWN" ELSE state
          /\ cntBtnPressed' = 0
     ELSE UNCHANGED <<state, cntBtnPressed>>
  /\ UNCHANGED <<command, cfgModeVars, tickVars, counts, serVars, envVars, powerHold,
                 sdVars>>

TaskInactive ==
  /\ pc = "inactive"
  /\ pc' = "poll" /\ command' = 1
  /\ state' = IF inactiveCnt >= settings.toff * TicksPerSecond THEN "SHUTDOWN" ELSE state
  /\ UNCHANGED <<cfgModeVars, tickVars, counts, btnVars, serVars, envVars, powerHold,
                 sdVars>>

\* Variant: the last command is off by one.
NextCommand_OffByOne ==
  IF command <= Len(Commands)
  THEN pc' = "poll" /\ command' = command + 1
  ELSE pc' = "task" /\ UNCHANGED command

\* After a command was polled and served, the next one; after the last, the call
\* of APP_Tasks is over.
NextCommand ==
  IF command < Len(Commands)
  THEN pc' = "poll" /\ command' = command + 1
  ELSE pc' = "task" /\ UNCHANGED command

Poll(cmd) ==
  /\ pc = "poll" /\ Commands[command] = cmd
  /\ pollSerialCmds(cmd)
  /\ UNCHANGED <<cfgModeVars, inactiveCnt, measures, btnVars, envVars, powerHold>>

PollMiss ==
  \E cmd \in {Commands[command]} :
    /\ Poll(cmd) /\ ~Polled(cmd)
    /\ NextCommand
    /\ UNCHANGED <<state, tmr, measTodo, cleared, shown, sdVars>>

PollShutdown ==
  /\ Poll("shutdown") /\ Polled("shutdown")
  /\ state' = "SHUTDOWN"
  /\ NextCommand
  /\ UNCHANGED <<tmr, measTodo, cleared, shown, sdVars>>

\* glive, ilive and config begin with stopLogging: the timer stops and what is
\* due is dropped; two loops follow.
PollStop ==
  \E cmd \in {"glive", "ilive", "config"} :
    /\ Poll(cmd) /\ Polled(cmd)
    /\ tmr' = FALSE /\ measTodo' = {}
    /\ pc' = "stopConfig"
    /\ UNCHANGED <<state, command, cleared, shown, sdVars>>

\* Loop of stopLogging until the configuration machine is idle.
StopConfig ==
  /\ pc = "stopConfig"
  /\ IF cfg_state = "IDLE"
     THEN pc' = "stopLog" /\ UNCHANGED <<settings, state, tmr, cfgVars, fsVars>>
     ELSE sd_fat_cfg_init("stopConfig")
  /\ UNCHANGED <<command, old, cfgRead, measTodo, inactiveCnt, counts, btnVars,
                 serVars, envVars, powerHold, logVars>>

\* Loop of stopLogging until the logging machine is idle, then the command.
StopLog ==
  /\ pc = "stopLog" /\ log_state # "IDLE"
  /\ sd_fat_logging_task
  /\ UNCHANGED <<appVars, cfgModeVars, tickVars, counts, btnVars, serVars, envVars,
                 powerHold, cfgVars>>

\* Variant: stopLogging does not wait for the logging machine.
Stopped_NoWait ==
  /\ pc = "stopLog"
  /\ NextCommand
  /\ state' = "COMM_LIVE_IMU" /\ tmr' = TRUE
  /\ UNCHANGED <<cfgModeVars, measTodo, inactiveCnt, counts, btnVars, serVars,
                 envVars, powerHold, sdVars>>

\* Entering the configuration mode copies all the old values but the inactive period.
Stopped ==
  /\ pc = "stopLog" /\ log_state = "IDLE"
  /\ NextCommand
  /\ \/ /\ Commands[command] = "glive"
        /\ state' = "COMM_LIVE_GNSS"
        /\ UNCHANGED <<tmr, old, cfg_state>>
     \/ /\ Commands[command] = "ilive"
        /\ state' = "COMM_LIVE_IMU"
        /\ tmr' = TRUE
        /\ UNCHANGED <<old, cfg_state>>
     \/ /\ Commands[command] = "config"
        /\ state' = "CONFIGURATE_BBX"
        /\ cfg_state' = "IDLE"
        /\ old' = [settings EXCEPT !.toff = old.toff]
        /\ UNCHANGED tmr
  /\ UNCHANGED <<settings, cfgRead, measTodo, inactiveCnt, counts, btnVars, serVars,
                 envVars, powerHold, fileCfgHandle, cfg_data, logVars, fsVars>>

\* glog and ilog: sd_fat_readDisplayFile closes the measure file, ...
PollDisplay ==
  \E cmd \in {"glog", "ilog"} :
    /\ Poll(cmd) /\ Polled(cmd)
    /\ FileClose(fileMeasureHandle)
    /\ pc' = "displayOpen" /\ shown' = 0
    /\ UNCHANGED <<state, command, tmr, measTodo, cleared, cfgVars, logVars>>

\* ... opens the log with the handle of the configuration file, ...
DisplayOpen ==
  /\ pc = "displayOpen"
  /\ pc' = "displayRead"
  /\ \E ok \in BOOLEAN :
       /\ FileOpen(ok, LogOf(Commands[command]), "read")
       /\ fileCfgHandle' = OpenedHandle(ok)
  /\ UNCHANGED <<state, command, cfgModeVars, tickVars, counts, btnVars, serVars,
                 envVars, powerHold, cfg_state, cfg_data, logVars>>

\* ... shows it line by line, to its end or until the user exits (a file that could
\* not be opened has no end), ...
Shown == InUse(fileCfgHandle) /\ shown + 1 >= Len(FileContent(fileCfgHandle))

DisplayRead ==
  /\ pc = "displayRead"
  /\ pollSerialCmds("exit")
  /\ IF Shown \/ Polled("exit")
     THEN pc' = "displayClose" /\ shown' = 0
     ELSE /\ shown' = IF InUse(fileCfgHandle) THEN shown + 1 ELSE shown
          /\ UNCHANGED pc
  /\ UNCHANGED <<state, command, cfgModeVars, tickVars, counts, btnVars, envVars,
                 powerHold, sdVars>>

\* ... and closes the measure file again.
DisplayClose ==
  /\ pc = "displayClose"
  /\ FileClose(fileMeasureHandle)
  /\ NextCommand
  /\ UNCHANGED <<state, cfgModeVars, tickVars, counts, btnVars, serVars, envVars,
                 powerHold, cfgVars, logVars>>

PollClear ==
  \E cmd \in {"gclr", "iclr"} :
    /\ Poll(cmd) /\ Polled(cmd)
    /\ FileDirectoryRemove(LogOf(cmd))
    /\ cleared' = IF present' = present THEN cleared ELSE cleared + 1
    /\ NextCommand
    /\ UNCHANGED <<state, tmr, measTodo, shown, cfgVars, logVars>>

\* APP_STATE_COMM_LIVE_GNSS and _IMU: the live modes only look for the exit; the
\* measures of the inertial unit are shown, not stored.
TaskLive ==
  /\ pc = "task" /\ state \in {"COMM_LIVE_GNSS", "COMM_LIVE_IMU"}
  /\ inactiveCnt' = 0
  /\ measTodo' = IF state = "COMM_LIVE_IMU" THEN measTodo \ {"IMU"} ELSE measTodo
  /\ pollSerialCmds("exit")
  /\ IF Polled("exit") THEN startLogging ELSE UNCHANGED <<state, tmr>>
  /\ UNCHANGED <<pc, command, cfgModeVars, counts, btnVars, shown, envVars, powerHold,
                 sdVars>>

----------------------------------------------------------------------------
(* APP_STATE_CONFIGURATE_BBX.                                              *)

HasLine(b) == \E i \in DOMAIN b : b[i].cmd \in ConfigLines

\* The parameters after the line at the head of the buffer, if it is one.
Scanned(b) ==
  IF ~HasLine(b)
  THEN settings
  ELSE CASE b[1].cmd = "INTG" -> [settings EXCEPT !.gnss = b[1].val]
         [] b[1].cmd = "INTI" -> [settings EXCEPT !.imu = b[1].val]
         [] b[1].cmd = "LEDV" -> [settings EXCEPT !.led = b[1].val > 0]
         [] b[1].cmd = "TOFF" -> [settings EXCEPT !.toff = b[1].val]
         [] OTHER             -> settings

\* Variant: a period of zero is accepted.
Validated_ZeroAccepted(s) ==
  [s EXCEPT !.toff = IF s.toff <= MinInactive THEN old.toff ELSE @]

\* What is not valid is replaced by the old value.
Validated(s) ==
  [s EXCEPT !.gnss = IF s.gnss <= 0 THEN old.gnss ELSE @,
            !.imu  = IF s.imu  <= 0 THEN old.imu  ELSE @,
            !.toff = IF s.toff <= MinInactive THEN old.toff ELSE @]

\* An end of line empties the buffer; a changed parameter only overwrites what it
\* holds, so that what is received next stays behind the zeros, out of sight.
Blank == [cmd |-> "", val |-> 0]
Visible(b) == IF b # <<>> /\ b[1] = Blank THEN <<>> ELSE b

TaskConfigure ==
  /\ pc = "task" /\ state = "CONFIGURATE_BBX"
  /\ inactiveCnt' = 0
  /\ Drain(cfgRead)
  /\ LET read    == Received(cfgRead)
         scanned == Scanned(Visible(read))
         changed == scanned # old
         line    == IF HasLine(Visible(read)) THEN <<>> ELSE read
         kept    == IF changed THEN [i \in DOMAIN line |-> Blank] ELSE line
     IN /\ settings' = IF changed THEN Validated(scanned) ELSE scanned
        /\ old' = settings'
        /\ IF changed THEN CFG_Write(settings') ELSE UNCHANGED <<cfgVars, fsVars>>
        /\ IF Holds(Visible(kept), "exit")
           THEN startLogging /\ cfgRead' = <<>> /\ UNCHANGED pc
           ELSE cfgRead' = kept /\ pc' = "configTask" /\ UNCHANGED <<state, tmr>>
  /\ UNCHANGED <<command, measTodo, counts, btnVars, charRead, shown, envVars,
                 powerHold, logVars>>

ConfigTask ==
  /\ pc = "configTask"
  /\ pc' = "task"
  /\ sd_fat_config_task(FALSE)
  /\ UNCHANGED <<state, command, cfgModeVars, tickVars, counts, btnVars, serVars,
                 envVars, powerHold, logVars>>

----------------------------------------------------------------------------
(* sys_shutdown.                                                           *)

\* Variant: it waits for an idle logging machine only.
Shutdown_Idle ==
  /\ pc = "task" /\ state = "SHUTDOWN"
  /\ pc' = IF log_state = "IDLE" THEN "shutdownWait" ELSE "shutdownOff"
  /\ UNCHANGED <<state, command, cfgModeVars, tickVars, counts, btnVars, serVars,
                 envVars, powerHold, sdVars>>

\* Variant: it waits without looking whether the card is mounted.
Shutdown_AlwaysWait ==
  /\ pc = "task" /\ state = "SHUTDOWN"
  /\ pc' = "shutdownWait"
  /\ UNCHANGED <<state, command, cfgModeVars, tickVars, counts, btnVars, serVars,
                 envVars, powerHold, sdVars>>

Shutdown ==
  /\ pc = "task" /\ state = "SHUTDOWN"
  /\ pc' = IF log_state # "MOUNT_DISK" THEN "shutdownWait" ELSE "shutdownOff"
  /\ UNCHANGED <<state, command, cfgModeVars, tickVars, counts, btnVars, serVars,
                 envVars, powerHold, sdVars>>

\* Variant: the disk is unmounted without waiting.
ShutdownWait_NoWait ==
  /\ pc = "shutdownWait"
  /\ log_state' = "UNMOUNT_DISK" /\ pc' = "shutdownUnmount"
  /\ UNCHANGED <<fileMeasureHandle, data, fileName, fsVars>>
  /\ UNCHANGED <<state, command, cfgModeVars, tickVars, counts, btnVars, serVars,
                 envVars, powerHold, cfgVars>>

ShutdownWait ==
  /\ pc = "shutdownWait"
  /\ IF log_state = "IDLE"
     THEN /\ log_state' = "UNMOUNT_DISK" /\ pc' = "shutdownUnmount"
          /\ UNCHANGED <<fileMeasureHandle, data, fileName, fsVars>>
     ELSE sd_fat_logging_task /\ UNCHANGED pc
  /\ UNCHANGED <<state, command, cfgModeVars, tickVars, counts, btnVars, serVars,
                 envVars, powerHold, cfgVars>>

ShutdownUnmount ==
  /\ pc = "shutdownUnmount"
  /\ IF log_state = "IDLE"
     THEN pc' = "shutdownOff" /\ UNCHANGED <<logVars, fsVars>>
     ELSE sd_fat_logging_task /\ UNCHANGED pc
  /\ UNCHANGED <<state, command, cfgModeVars, tickVars, counts, btnVars, serVars,
                 envVars, powerHold, cfgVars>>

\* The power is let go until the button is pressed.
ShutdownOff ==
  /\ pc = "shutdownOff"
  /\ powerHold' = FALSE
  /\ pc' = IF button THEN "task" ELSE pc
  /\ UNCHANGED <<state, command, cfgModeVars, tickVars, counts, btnVars, serVars,
                 envVars, sdVars>>

MainLoop ==
  \/ TaskInit \/ TaskConfig \/ ConfigButton
  \/ TaskMeasure \/ TaskLog \/ btnTaskGest \/ TaskInactive
  \/ PollMiss \/ PollShutdown \/ PollStop \/ PollDisplay \/ PollClear
  \/ StopConfig \/ StopLog \/ Stopped
  \/ DisplayOpen \/ DisplayRead \/ DisplayClose
  \/ TaskLive \/ TaskConfigure \/ ConfigTask
  \/ Shutdown \/ ShutdownWait \/ ShutdownUnmount \/ ShutdownOff

----------------------------------------------------------------------------
(* The timer interrupt.  When a measure gets due depends on counters this  *)
(* module leaves out: at any tick any measure may.  The counters saturate  *)
(* at the values they are compared with.                                   *)

MaxInactiveCnt == LET m == CHOOSE p \in InactivePeriods : \A q \in InactivePeriods : q <= p
                  IN m * TicksPerSecond

\* A period shorter than the tick is a division by zero, an exception.
TickDivides == settings.gnss \div 10 > 0 /\ settings.imu \div 10 > 0

stateTimer_trap ==
  /\ tmr /\ pc # "trap" /\ ~TickDivides
  /\ pc' = "trap"
  /\ UNCHANGED <<state, command, cfgModeVars, tickVars, counts, btnVars, serVars,
                 envVars, powerHold, sdVars>>

stateTimer_callback ==
  /\ tmr /\ pc # "trap" /\ TickDivides
  /\ inactiveCnt' = AtMost(inactiveCnt + 1, MaxInactiveCnt)
  /\ cntBtnPressed' = IF hold THEN AtMost(cntBtnPressed + 1, BtnHold) ELSE cntBtnPressed
  /\ \E due \in SUBSET {"IMU", "GNSS"} : measTodo' = measTodo \cup due
  /\ measures + Cardinality(measTodo') <= MaxRecords
  /\ UNCHANGED <<appVars, cfgModeVars, tmr, counts, hold, serVars, envVars,
                 powerHold, sdVars>>

----------------------------------------------------------------------------
(* The environment: the user and the power supply.                         *)

PressOrRelease ==
  /\ button' = ~button
  /\ UNCHANGED <<appVars, cfgModeVars, tickVars, counts, btnVars, serVars, overrun,
                 typed, powerCuts, powerHold, sdVars>>

\* A receiver that is full overruns; nothing in the code clears that on UART1.
Type ==
  /\ typed < MaxTokens
  /\ typed' = typed + 1
  /\ \E t \in Tokens :
       IF overrun \/ Len(rx) >= RxDepth
       THEN overrun' = TRUE /\ UNCHANGED rx
       ELSE rx' = Append(rx, t) /\ UNCHANGED overrun
  /\ UNCHANGED <<appVars, cfgModeVars, tickVars, counts, btnVars, charRead, shown, button,
                 powerCuts, powerHold, sdVars>>

Zeroed == [gnss |-> 0, imu |-> 0, led |-> FALSE, toff |-> 0]

\* The power goes when nothing holds it, or fails; the button or a motion starts
\* the system again.
PowerLoss ==
  /\ \/ ~powerHold /\ ~button /\ UNCHANGED powerCuts
     \/ powerHold /\ powerCuts < MaxPowerCuts /\ powerCuts' = powerCuts + 1
  /\ pc' = "task" /\ state' = "INIT" /\ command' = 1
  /\ settings' = Zeroed /\ old' = Zeroed
  /\ tmr' = FALSE /\ measTodo' = {} /\ inactiveCnt' = 0
  /\ hold' = FALSE /\ cntBtnPressed' = 0
  /\ rx' = <<>> /\ charRead' = <<>> /\ cfgRead' = <<>> /\ shown' = 0
  /\ overrun' = FALSE
  /\ powerHold' = TRUE
  /\ SdPowerLoss
  /\ button' \in BOOLEAN
  /\ UNCHANGED <<counts, typed>>

Init ==
  /\ pc = "task" /\ state = "INIT" /\ command = 1
  /\ settings = Zeroed /\ old = Zeroed
  /\ tmr = FALSE /\ measTodo = {} /\ inactiveCnt = 0
  /\ hold = FALSE /\ cntBtnPressed = 0
  /\ rx = <<>> /\ charRead = <<>> /\ cfgRead = <<>> /\ shown = 0
  /\ overrun = FALSE
  /\ powerHold = TRUE
  /\ InitSdRam /\ InitCard
  /\ button = TRUE /\ typed = 0 /\ measures = 0 /\ cleared = 0 /\ powerCuts = 0

Next == MainLoop \/ stateTimer_callback \/ stateTimer_trap \/ PressOrRelease \/ Type \/ PowerLoss

\* The main loop never stops on its own, and the timer interrupts while it runs.
Fairness == WF_vars(MainLoop) /\ WF_vars(stateTimer_callback \/ stateTimer_trap)

Spec == Init /\ [][Next]_vars
FairSpec == Spec /\ Fairness

----------------------------------------------------------------------------
TypeOK ==
  /\ SdTypeOK
  /\ pc \in {"task", "configButton", "log", "button", "inactive", "poll", "stopConfig",
             "stopLog", "displayOpen", "displayRead", "displayClose", "configTask",
             "shutdownWait", "shutdownUnmount", "shutdownOff", "trap"}
  /\ state \in States
  /\ command \in DOMAIN Commands
  /\ settings \in Settings /\ old \in Settings
  /\ tmr \in BOOLEAN
  /\ measTodo \subseteq {"IMU", "GNSS"}
  /\ measures \in Nat /\ measures + Cardinality(measTodo) <= MaxRecords
  /\ cleared \in Nat
  /\ inactiveCnt \in 0..MaxInactiveCnt
  /\ button \in BOOLEAN /\ hold \in BOOLEAN
  /\ cntBtnPressed \in 0..BtnHold
  /\ rx \in Seq(Tokens) /\ Len(rx) <= RxDepth
  /\ charRead \in Seq(Tokens) /\ Len(charRead) < CharReadSize
  /\ cfgRead \in Seq(Tokens \cup {Blank}) /\ Len(cfgRead) < CharReadSize
  /\ shown \in Nat
  /\ overrun \in BOOLEAN
  /\ typed \in 0..MaxTokens
  /\ powerHold \in BOOLEAN
  /\ powerCuts \in 0..MaxPowerCuts

=============================================================================
