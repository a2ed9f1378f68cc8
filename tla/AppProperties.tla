--------------------------- MODULE AppProperties ---------------------------
(***************************************************************************)
(* What is checked of the flight recorder's application (module App).      *)
(***************************************************************************)
EXTENDS App

\* The logging machine has a record that it has not yet appended to its log.
Writing == log_state \in {"WRITE_MEASURE_FILE", "WRITE_TO_MEASURE_FILE", "CLOSE_FILE"}

----------------------------------------------------------------------------
(* The logs.                                                               *)

\* The handle of the logging machine designates the open log it appends to.
OwnsLog == /\ InUse(fileMeasureHandle)
           /\ slots[fileMeasureHandle].file = fileName
           /\ slots[fileMeasureHandle].mode = "append"

\* No write of the parameters was left unfinished when logging went on (the code
\* does not see to it: WritesConfigFile shows what may follow).
ConfigAtRest == state = "LOGGING" => cfg_state \in {"IDLE", "ERROR"}

pending ==
  CASE log_state = "WRITE_MEASURE_FILE"                 -> data
    [] log_state = "WRITE_TO_MEASURE_FILE" /\ OwnsLog   -> data
    [] log_state = "CLOSE_FILE" /\ OwnsLog              -> slots[fileMeasureHandle].buf
    [] OTHER                                            -> <<>>

Durable == INSTANCE DurableLog WITH
  Logs <- LogFiles, logs <- [f \in LogFiles |-> card[f]], pending <- pending,
  scheduled <- measures, mishaps <- faults + powerCuts,
  clearings <- cleared

\* Every measure that is scheduled is appended exactly once to the log of its
\* source, unless a call of the file system fails, the power fails, or the log is
\* cleared: the whole application implements DurableLog, whichever of its modes it
\* goes through, as long as no log is displayed and ConfigAtRest (a display closes
\* the log under the machine, BothFilesClosed; WritesConfigFile for the other).
LogIsDurable == Durable!Spec

\* Each log only ever holds whole records of its own source, in the order they
\* were taken: nothing is filed in the wrong log, written twice or reordered by
\* interrupts, modes, failures, power cuts and restarts, as long as ConfigAtRest.
LogIntegrity == \A f \in LogFiles :
  /\ \A i \in DOMAIN card[f] : "src" \in DOMAIN card[f][i] /\ card[f][i].src = f
  /\ \A i, j \in DOMAIN card[f] : i < j => card[f][i].rec < card[f][j].rec

\* While the logging machine is between opening and closing a log, its handle
\* designates that log and what it put there is its record, whatever the
\* configuration machine or an unmount did in between (a cleared log aside; the
\* display closes the log under the machine, which then reports an error).
HandlesOwned ==
  log_state \in {"WRITE_TO_MEASURE_FILE", "CLOSE_FILE"} =>
    /\ mounted
    /\ InUse(fileMeasureHandle)
    /\ slots[fileMeasureHandle].file \in {fileName, Deleted}
    /\ slots[fileMeasureHandle].mode = "append"
    /\ slots[fileMeasureHandle].buf = IF log_state = "CLOSE_FILE" THEN data ELSE <<>>

\* The power is let go only when no record is left to write and the volume is
\* unmounted, unless the logging machine never mounted it; a second shutdown, the
\* button being pressed again before the power is gone, does not undo that.
LogsSavedAtPowerOff ==
  ~powerHold => \/ log_state = "MOUNT_DISK"
                \/ log_state \in {"IDLE", "UNMOUNT_DISK"} /\ ~mounted

\* Where the main loop may stay for ever: displaying a file that could not be opened
\* ends only when the user exits (Mc32_sdFatGest.c:560); stopLogging waits for a
\* configuration machine that is in error (app.c:635); an exception ends all.
Endless == \/ pc = "displayRead" /\ ~InUse(fileCfgHandle)
           \/ pc = "stopConfig" /\ cfg_state = "ERROR"
           \/ pc = "trap"

\* A record that is being written is eventually dealt with: the logging machine gets
\* back to idle or reports an error, or the main loop is in one of the loops that
\* may have no end.  No mode is entered, and none stays, with a record half written.
RecordSettles == Writing ~> (log_state \in {"IDLE", "ERROR"} \/ Endless)

\* Once sys_shutdown is entered the power is released, unless the logging machine is
\* in error, or there is no volume to unmount any more: stopLogging has unmounted it
\* when it finished a write of the parameters (Mc32_sdFatGest.c:183, app.c:635), and
\* the machine tries again for ever (Mc32_sdFatGest.c:310).
ShutdownCompletes ==
  (pc = "task" /\ state = "SHUTDOWN") ~>
     \/ ~powerHold
     \/ log_state = "ERROR"
     \/ log_state = "UNMOUNT_DISK" /\ ~mounted

----------------------------------------------------------------------------
(* The parameters.                                                         *)

\* CONFIG.txt is empty, as it came, or holds exactly one set of parameters: never
\* two, and never a record of a log.
ConfigWellFormed ==
  card[Config] \in {<<>>, <<Unterminated>>} \cup {<<CfgText(s)>> : s \in Settings}

\* The parameters the recorder starts with are those CONFIG.txt holds at that
\* moment, or the defaults when it holds none; the defaults too after an error, or
\* when it could not read the file and has just tried to write them into it.
BootSettings ==
  [][(state = "CONFIG" /\ state' = "LOGGING") =>
       settings' = IF /\ cfg_state' = "IDLE" /\ cfg_data # <<CfgText(Defaults)>>
                      /\ \E s \in Settings : card[Config] = <<CfgText(s)>>
                   THEN CHOOSE s \in Settings : card[Config] = <<CfgText(s)>>
                   ELSE Defaults]_vars

\* A period of zero is refused, whatever was typed since the mode was entered: the
\* period is then the one the recorder had.  (What `old' holds is what the mode
\* compares with, over all its passes; a power failure starts all over.)
PeriodsKept ==
  [][(pc = "task" /\ state = "CONFIGURATE_BBX" /\ state' # "INIT") =>
       \A p \in {"gnss", "imu"} : settings'[p] > 0 \/ settings'[p] = settings[p]]_vars

----------------------------------------------------------------------------
(* What the documents and comments say, and the code does not do.          *)

\* app.c, sys_shutdown's only call: "Save and shutdown system".
SaveAndShutdown == (pc = "task" /\ state = "SHUTDOWN") ~> ~powerHold

\* app.c, when a press of the button was long enough: "Power off the system".
PowerOff == (state = "SHUTDOWN") ~> ~powerHold

\* Mc32_sdFatGest.c, at the end of sd_fat_readDisplayFile: "Close both files".
BothFilesClosed ==
  [][(pc = "displayClose" /\ pc' # pc) => \A h \in Handles : slots'[h].file = NoFile]_vars

\* app.c: "If data is not valid, keep the previous one" (the inactive period).
KeepsPrevious ==
  [][(pc = "task" /\ state = "CONFIGURATE_BBX") =>
       (settings'.toff = settings.toff \/ settings'.toff > MinInactive)]_vars

\* app.c, when a period is checked: "If data is not valid, keep the previous one".
\* Whenever the timer runs, the interrupt can divide by both periods.
TimerCanDivide == tmr => TickDivides

\* sd-card-Init.mmd: "WRITE_CONFIG_FILE : Write to the config file".  What the
\* configuration machine writes goes to CONFIG.txt.
WritesConfigFile ==
  [][(cfg_state = "WRITE_CONFIG_FILE" /\ cfg_state' = "CLOSE_FILE") =>
       slots[fileCfgHandle].file = Config]_vars

\* sd-card-Init.mmd: "WRITE_CONFIG_FILE --> CLOSE_FILE : Successful write", and so on
\* to IDLE; the parameters changed last get to CONFIG.txt when logging goes on.
ConfigWriteFinishes ==
  (state = "LOGGING" /\ cfg_state = "WRITE_CONFIG_FILE") ~> (cfg_state \in {"IDLE", "ERROR"})

=============================================================================
