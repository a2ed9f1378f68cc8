------------------------------- MODULE SdFat -------------------------------
(***************************************************************************)
(* The SD-card layer of the flight recorder (Mc32_sdFatGest.c): two state  *)
(* machines that share one card, one mounted volume and a table of open    *)
(* files.  The configuration machine (sd_fat_config_task) reads and writes *)
(* CONFIG.txt, the logging machine (sd_fat_logging_task) appends one       *)
(* measure record at a time to a log file.  Each call of a machine makes   *)
(* one transition.                                                         *)
(*                                                                         *)
(* The file system (Harmony SYS_FS) is external: it is modelled by the     *)
(* results the code tests.  A file's content is a sequence of texts, a     *)
(* text being one record or one set of settings.  What is put into an open *)
(* file reaches the card when the file is closed.                          *)
(*                                                                         *)
(* The operators below are actions on the variables of this module; App    *)
(* calls them.                                                             *)
(***************************************************************************)
EXTENDS Naturals, Sequences

CONSTANTS
  MaxFiles,   \* SYS_FS_MAX_FILES: the number of files that can be open
  MaxFaults,  \* bound: calls of the file system that fail for no reason of the code's
  GnssPeriods, ImuPeriods, InactivePeriods,  \* values of the four parameters
  Defaults,        \* the parameters written when there is no CONFIG.txt
  InitialConfigs   \* the parameters a card's CONFIG.txt may hold at first

\* The parameters CONFIG.txt holds and the application runs with.
Settings == [gnss : GnssPeriods, imu : ImuPeriods, led : BOOLEAN, toff : InactivePeriods]

ASSUME SdFatAssumption ==
  /\ MaxFiles \in Nat \ {0}
  /\ MaxFaults \in Nat
  /\ \A P \in {GnssPeriods, ImuPeriods, InactivePeriods} : P \subseteq Nat /\ 0 \in P
  /\ \E p \in InactivePeriods : \A q \in InactivePeriods : q <= p  \* an unsigned integer
  /\ Defaults \in Settings
  /\ InitialConfigs \subseteq Settings

VARIABLES
  cfg_state,          \* appFatData.cfg_state
  fileCfgHandle,      \* appFatData.fileCfgHandle
  cfg_data,           \* appFatData.cfg_data, the text buffer of CONFIG.txt
  log_state,          \* appFatData.log_state
  fileMeasureHandle,  \* appFatData.fileMeasureHandle
  data,               \* appFatData.data, the record buffer
  fileName,           \* appFatData.fileName, the log the record goes to
  mounted,            \* the volume /mnt/myDrive is mounted
  slots,              \* the file system's table of open files
  card,               \* the content of each file on the card
  present,            \* the files that exist on the card
  faults              \* how many calls have failed for no reason of the code's

cfgVars == <<cfg_state, fileCfgHandle, cfg_data>>
logVars == <<log_state, fileMeasureHandle, data, fileName>>
fsVars  == <<mounted, slots, card, present, faults>>
sdVars  == <<cfgVars, logVars, fsVars>>

----------------------------------------------------------------------------
(* Files, texts and handles.                                               *)

LogFiles == {"LOG_IMU.csv", "LOG_GNSS.txt"}
Config   == "CONFIG.txt"
Files    == LogFiles \cup {Config}

Record(f, n) == [rec |-> n, src |-> f]  \* the n-th measure scheduled, of log f's source
CfgText(s)   == [cfg |-> s]     \* the four lines of CONFIG.txt
Unterminated == [bad |-> TRUE]  \* four lines, the last without its end of line

Texts == [rec : Nat, src : LogFiles] \cup [cfg : Settings] \cup {Unterminated}

Handles  == 1..MaxFiles
NoHandle == 0                   \* SYS_FS_HANDLE_INVALID, or never opened

NoFile  == "free"               \* an entry of the table that is not in use
Deleted == "deleted"            \* an open file whose directory entry was removed
FreeSlot == [file |-> NoFile, mode |-> "read", buf |-> <<>>]

InUse(h) == h \in Handles /\ slots[h].file # NoFile
FreeHandles == {h \in Handles : slots[h].file = NoFile}
FirstFree == CHOOSE h \in FreeHandles : \A k \in FreeHandles : h <= k

CfgStates == {"MOUNT_DISK", "SET_CURRENT_DRIVE", "OPEN_READ_CONFIG_FILE",
              "READ_CONFIG_FILE", "OPEN_WRITE_CONFIG_FILE", "WRITE_CONFIG_FILE",
              "CLOSE_FILE", "IDLE", "ERROR", "UNMOUNT_DISK"}
LogStates == {"MOUNT_DISK", "SET_CURRENT_DRIVE", "WRITE_MEASURE_FILE",
              "WRITE_TO_MEASURE_FILE", "CLOSE_FILE", "IDLE", "ERROR",
              "UNMOUNT_DISK"}

----------------------------------------------------------------------------
(* The file system as the code sees it (external).  Each operation takes   *)
(* the result `ok' the code tests and sets fsVars.                         *)

\* A call that the file system could serve fails only by a fault of the card.
Result(ok, possible) ==
  /\ ok => possible
  /\ IF possible /\ ~ok
     THEN faults < MaxFaults /\ faults' = faults + 1
     ELSE UNCHANGED faults

\* One volume (SYS_FS_VOLUME_NUMBER): a mounted volume is not mounted again.
Mount(ok) ==
  /\ Result(ok, ~mounted)
  /\ mounted' = (mounted \/ ok)
  /\ UNCHANGED <<slots, card, present>>

\* What the card may hold of a file that was opened and never stored: emptied when it
\* was opened for writing, without an entry when the opening made one.
Truncated == [f \in Files |-> IF \E h \in Handles : slots[h].file = f /\ slots[h].mode = "write"
                              THEN <<>> ELSE card[f]]
Unsaved == {f \in Files : card[f] = <<>> /\ \E h \in Handles : slots[h].file = f
                                                           /\ slots[h].mode # "read"}
CardLeft == card' \in {card, Truncated} /\ present' \in {present, present \ Unsaved}

\* Files still open when the volume goes keep their entry of the table or lose it:
\* either way what they had not yet stored is lost.
Unmount(ok) ==
  /\ Result(ok, mounted)
  /\ mounted' = (mounted /\ ~ok)
  /\ IF ok THEN CardLeft ELSE UNCHANGED <<card, present>>
  /\ \/ /\ ok
        /\ slots' = [h \in Handles |-> FreeSlot]
     \/ slots' = [h \in Handles |-> IF ok THEN [slots[h] EXCEPT !.buf = <<>>] ELSE slots[h]]

CurrentDriveSet(ok) ==
  /\ Result(ok, mounted)
  /\ UNCHANGED <<mounted, slots, card, present>>

\* A file that is opened for writing or appending is made when there is none.
FileOpen(ok, f, mode) ==
  /\ Result(ok, mounted /\ FreeHandles # {} /\ (mode = "read" => f \in present))
  /\ slots' = IF ok THEN [slots EXCEPT ![FirstFree] = [file |-> f, mode |-> mode, buf |-> <<>>]]
                    ELSE slots
  /\ present' = IF ok THEN present \cup {f} ELSE present
  /\ UNCHANGED <<mounted, card>>

OpenedHandle(ok) == IF ok THEN FirstFree ELSE NoHandle

FileContent(h) == IF slots[h].file \in Files THEN card[slots[h].file] ELSE <<>>

FileRead(ok, h) ==
  /\ Result(ok, mounted /\ InUse(h))
  /\ UNCHANGED <<mounted, slots, card, present>>

CanPut(h) == mounted /\ InUse(h) /\ slots[h].mode # "read"

FileStringPut(h, text) ==
  /\ Result(TRUE, CanPut(h))
  /\ slots' = [slots EXCEPT ![h].buf = @ \o text]
  /\ UNCHANGED <<mounted, card, present>>

\* The content of file f once the open file at h is stored.
Stored(h, f) ==
  IF slots[h].file # f
  THEN card[f]
  ELSE CASE slots[h].mode = "read"   -> card[f]
         [] slots[h].mode = "append" -> card[f] \o slots[h].buf
         [] slots[h].mode = "write"  -> slots[h].buf

\* Ends the use of an open file; what was put into it is stored or lost.
CloseAs(stored, h) ==
  IF InUse(h)
  THEN /\ slots' = [slots EXCEPT ![h] = FreeSlot]
       /\ IF stored THEN card' = [f \in Files |-> Stored(h, f)] ELSE card' \in {card, Truncated}
       /\ UNCHANGED <<mounted, present>>
  ELSE UNCHANGED <<mounted, slots, card, present>>

\* No caller looks at the result of a close: when it fails, what was put is lost.
FileClose(h) ==
  \E ok \in BOOLEAN : Result(ok, mounted /\ InUse(h)) /\ CloseAs(ok, h)

\* A put or a read that fails, and the close the code makes of it.
FailAndClose(possible, h) ==
  /\ Result(FALSE, possible)
  /\ CloseAs(mounted, h)

\* Removing a file that is open leaves the open file without a directory entry.
FileDirectoryRemove(f) ==
  \E ok \in BOOLEAN :
    /\ Result(ok, mounted /\ f \in present)
    /\ card' = IF ok THEN [card EXCEPT ![f] = <<>>] ELSE card
    /\ present' = IF ok THEN present \ {f} ELSE present
    /\ slots' = [h \in Handles |-> IF ok /\ slots[h].file = f
                                   THEN [slots[h] EXCEPT !.file = Deleted]
                                   ELSE slots[h]]
    /\ UNCHANGED mounted

----------------------------------------------------------------------------
(* sd_CFG_Write, always called with skipMount = true.                      *)

CFG_Write(s) ==
  IF cfg_state \in {"IDLE", "OPEN_READ_CONFIG_FILE"}
  THEN /\ FileClose(fileCfgHandle)
       /\ cfg_state' = "OPEN_WRITE_CONFIG_FILE"
       /\ cfg_data' = <<CfgText(s)>>
       /\ UNCHANGED fileCfgHandle
  ELSE UNCHANGED <<cfgVars, fsVars>>

----------------------------------------------------------------------------
(* sd_fat_config_task(init): one action per state.                         *)

CfgMountDisk ==
  /\ cfg_state = "MOUNT_DISK"
  /\ \E ok \in BOOLEAN :
       /\ Mount(ok)
       /\ cfg_state' = IF ok THEN "SET_CURRENT_DRIVE" ELSE "MOUNT_DISK"
  /\ UNCHANGED <<fileCfgHandle, cfg_data>>

CfgSetCurrentDrive(init) ==
  /\ cfg_state = "SET_CURRENT_DRIVE"
  /\ \E ok \in BOOLEAN :
       /\ CurrentDriveSet(ok)
       /\ cfg_state' = IF ~ok THEN "ERROR"
                       ELSE IF init THEN "OPEN_READ_CONFIG_FILE" ELSE "IDLE"
  /\ UNCHANGED <<fileCfgHandle, cfg_data>>

\* Without a CONFIG.txt, sd_CFG_Write is called with the defaults; the handle it
\* closes is the invalid one.
CfgOpenRead ==
  /\ cfg_state = "OPEN_READ_CONFIG_FILE"
  /\ \E ok \in BOOLEAN :
       /\ FileOpen(ok, Config, "read")
       /\ fileCfgHandle' = OpenedHandle(ok)
       /\ IF ok
          THEN cfg_state' = "READ_CONFIG_FILE" /\ UNCHANGED cfg_data
          ELSE cfg_state' = "OPEN_WRITE_CONFIG_FILE" /\ cfg_data' = <<CfgText(Defaults)>>

\* Variant: a read that fails is not an error.
CfgRead_Unchecked ==
  /\ cfg_state = "READ_CONFIG_FILE"
  /\ cfg_state' = "CLOSE_FILE"
  /\ \/ /\ FileRead(TRUE, fileCfgHandle)
        /\ cfg_data' = IF FileContent(fileCfgHandle) = <<>> THEN cfg_data
                       ELSE FileContent(fileCfgHandle)
     \/ FileRead(FALSE, fileCfgHandle) /\ UNCHANGED cfg_data
  /\ UNCHANGED fileCfgHandle

\* An empty file leaves the buffer as it was.
CfgRead ==
  /\ cfg_state = "READ_CONFIG_FILE"
  /\ \/ /\ FileRead(TRUE, fileCfgHandle)
        /\ cfg_state' = "CLOSE_FILE"
        /\ cfg_data' = IF FileContent(fileCfgHandle) = <<>> THEN cfg_data
                       ELSE FileContent(fileCfgHandle)
     \/ /\ FailAndClose(mounted /\ InUse(fileCfgHandle), fileCfgHandle)
        /\ cfg_state' = "ERROR"
        /\ UNCHANGED cfg_data
  /\ UNCHANGED fileCfgHandle

\* Variant: CONFIG.txt is opened for appending.
CfgOpenWrite_Append ==
  /\ cfg_state = "OPEN_WRITE_CONFIG_FILE"
  /\ \E ok \in BOOLEAN :
       /\ FileOpen(ok, Config, "append")
       /\ fileCfgHandle' = OpenedHandle(ok)
       /\ cfg_state' = IF ok THEN "WRITE_CONFIG_FILE" ELSE "ERROR"
  /\ UNCHANGED cfg_data

CfgOpenWrite ==
  /\ cfg_state = "OPEN_WRITE_CONFIG_FILE"
  /\ \E ok \in BOOLEAN :
       /\ FileOpen(ok, Config, "write")
       /\ fileCfgHandle' = OpenedHandle(ok)
       /\ cfg_state' = IF ok THEN "WRITE_CONFIG_FILE" ELSE "ERROR"
  /\ UNCHANGED cfg_data

CfgWrite ==
  /\ cfg_state = "WRITE_CONFIG_FILE"
  /\ \/ /\ FileStringPut(fileCfgHandle, cfg_data)
        /\ cfg_state' = "CLOSE_FILE"
     \/ /\ FailAndClose(CanPut(fileCfgHandle), fileCfgHandle)
        /\ cfg_state' = "ERROR"
  /\ UNCHANGED <<fileCfgHandle, cfg_data>>

CfgClose(init) ==
  /\ cfg_state = "CLOSE_FILE"
  /\ FileClose(fileCfgHandle)
  /\ cfg_state' = IF init THEN "UNMOUNT_DISK" ELSE "IDLE"
  /\ UNCHANGED <<fileCfgHandle, cfg_data>>

CfgUnmountDisk ==
  /\ cfg_state = "UNMOUNT_DISK"
  /\ \E ok \in BOOLEAN :
       /\ Unmount(ok)
       /\ cfg_state' = IF ok THEN "IDLE" ELSE "UNMOUNT_DISK"
  /\ UNCHANGED <<fileCfgHandle, cfg_data>>

\* IDLE and ERROR only set the red LED.
CfgRest ==
  /\ cfg_state \in {"IDLE", "ERROR"}
  /\ UNCHANGED <<cfgVars, fsVars>>

sd_fat_config_task(init) ==
  \/ CfgMountDisk
  \/ CfgSetCurrentDrive(init)
  \/ CfgOpenRead
  \/ CfgRead
  \/ CfgOpenWrite
  \/ CfgWrite
  \/ CfgClose(init)
  \/ CfgUnmountDisk
  \/ CfgRest

----------------------------------------------------------------------------
(* parseConfig on the text buffer.  Settings are read as they are, without *)
(* any check of their values.  A missing end of line is counted as an      *)
(* error.  In a buffer without the expected lines (zeros at power-up) the  *)
(* search goes on from the null pointer the previous one returned: it is   *)
(* undefined whether the error count is reached.                           *)

Parsed(s)  == cfg_data = <<CfgText(s)>>
ParseError == \A s \in Settings : ~Parsed(s)
ParseUndefined == ParseError /\ cfg_data # <<Unterminated>>

----------------------------------------------------------------------------
(* sd_fat_logging_task: one action per state.                              *)

LogMountDisk ==
  /\ log_state = "MOUNT_DISK"
  /\ \E ok \in BOOLEAN :
       /\ Mount(ok)
       /\ log_state' = IF ok THEN "SET_CURRENT_DRIVE" ELSE "MOUNT_DISK"
  /\ UNCHANGED <<fileMeasureHandle, data, fileName>>

LogSetCurrentDrive ==
  /\ log_state = "SET_CURRENT_DRIVE"
  /\ \E ok \in BOOLEAN :
       /\ CurrentDriveSet(ok)
       /\ log_state' = IF ok THEN "IDLE" ELSE "ERROR"
  /\ UNCHANGED <<fileMeasureHandle, data, fileName>>

\* Variant: the handle is not tested.
LogOpen_Unchecked ==
  /\ log_state = "WRITE_MEASURE_FILE"
  /\ log_state' = "WRITE_TO_MEASURE_FILE"
  /\ \E ok \in BOOLEAN :
       FileOpen(ok, fileName, "append") /\ fileMeasureHandle' = OpenedHandle(ok)
  /\ UNCHANGED <<data, fileName>>

LogOpen ==
  /\ log_state = "WRITE_MEASURE_FILE"
  /\ \E ok \in BOOLEAN :
       /\ FileOpen(ok, fileName, "append")
       /\ fileMeasureHandle' = OpenedHandle(ok)
       /\ log_state' = IF ok THEN "WRITE_TO_MEASURE_FILE" ELSE "ERROR"
  /\ UNCHANGED <<data, fileName>>

\* Variant: a write that failed is tried again, as a mount is.
LogWrite_Retry ==
  /\ log_state = "WRITE_TO_MEASURE_FILE"
  /\ \/ /\ FileStringPut(fileMeasureHandle, data)
        /\ log_state' = "CLOSE_FILE"
     \/ /\ FailAndClose(CanPut(fileMeasureHandle), fileMeasureHandle)
        /\ UNCHANGED log_state
  /\ UNCHANGED <<fileMeasureHandle, data, fileName>>

LogWrite ==
  /\ log_state = "WRITE_TO_MEASURE_FILE"
  /\ \/ /\ FileStringPut(fileMeasureHandle, data)
        /\ log_state' = "CLOSE_FILE"
     \/ /\ FailAndClose(CanPut(fileMeasureHandle), fileMeasureHandle)
        /\ log_state' = "ERROR"
  /\ UNCHANGED <<fileMeasureHandle, data, fileName>>

\* Variant: the record is written again.
LogClose_Again ==
  /\ log_state = "CLOSE_FILE"
  /\ FileClose(fileMeasureHandle)
  /\ log_state' = "WRITE_MEASURE_FILE"
  /\ UNCHANGED <<fileMeasureHandle, data, fileName>>

LogClose ==
  /\ log_state = "CLOSE_FILE"
  /\ FileClose(fileMeasureHandle)
  /\ log_state' = "IDLE"
  /\ UNCHANGED <<fileMeasureHandle, data, fileName>>

\* Variant: the disk is mounted again.
LogUnmountDisk_Remount ==
  /\ log_state = "UNMOUNT_DISK"
  /\ \E ok \in BOOLEAN :
       /\ Unmount(ok)
       /\ log_state' = IF ok THEN "MOUNT_DISK" ELSE "UNMOUNT_DISK"
  /\ UNCHANGED <<fileMeasureHandle, data, fileName>>

LogUnmountDisk ==
  /\ log_state = "UNMOUNT_DISK"
  /\ \E ok \in BOOLEAN :
       /\ Unmount(ok)
       /\ log_state' = IF ok THEN "IDLE" ELSE "UNMOUNT_DISK"
  /\ UNCHANGED <<fileMeasureHandle, data, fileName>>

LogRest ==
  /\ log_state \in {"IDLE", "ERROR"}
  /\ UNCHANGED <<logVars, fsVars>>

sd_fat_logging_task ==
  \/ LogMountDisk
  \/ LogSetCurrentDrive
  \/ LogOpen
  \/ LogWrite
  \/ LogClose
  \/ LogUnmountDisk
  \/ LogRest

\* Variant: the file name is not set.
scheduleWrite_SameFile(f, n) ==
  IF log_state = "IDLE"
  THEN /\ data' = <<Record(f, n)>>
       /\ log_state' = "WRITE_MEASURE_FILE"
       /\ UNCHANGED <<fileMeasureHandle, fileName>>
  ELSE UNCHANGED logVars

\* sd_IMU_scheduleWrite and sd_GNSS_scheduleWrite: file name, state and record
\* are set only when the logging machine is idle.
scheduleWrite(f, n) ==
  IF log_state = "IDLE"
  THEN /\ fileName' = f
       /\ data' = <<Record(f, n)>>
       /\ log_state' = "WRITE_MEASURE_FILE"
       /\ UNCHANGED fileMeasureHandle
  ELSE UNCHANGED logVars

----------------------------------------------------------------------------
(* Power-up: RAM is zeroed, so both machines start in their first state.   *)

InitSdRam ==
  /\ cfg_state = "MOUNT_DISK" /\ fileCfgHandle = NoHandle /\ cfg_data = <<>>
  /\ log_state = "MOUNT_DISK" /\ fileMeasureHandle = NoHandle
  /\ data = <<>> /\ fileName = "LOG_IMU.csv"
  /\ mounted = FALSE
  /\ slots = [h \in Handles |-> FreeSlot]

\* The card may come with or without a CONFIG.txt, well formed or not.
ConfigContents == {<<>>, <<Unterminated>>} \cup {<<CfgText(s)>> : s \in InitialConfigs}

InitCard ==
  /\ \E c \in ConfigContents :
       card = [f \in Files |-> IF f = Config THEN c ELSE <<>>]
  /\ present \in {{}, {Config}}
  /\ Config \notin present => card[Config] = <<>>
  /\ faults = 0

\* The power goes: RAM is lost, and with it what open files had not stored.
SdPowerLoss ==
  /\ cfg_state' = "MOUNT_DISK" /\ fileCfgHandle' = NoHandle /\ cfg_data' = <<>>
  /\ log_state' = "MOUNT_DISK" /\ fileMeasureHandle' = NoHandle
  /\ data' = <<>> /\ fileName' = "LOG_IMU.csv"
  /\ mounted' = FALSE
  /\ slots' = [h \in Handles |-> FreeSlot]
  /\ CardLeft
  /\ UNCHANGED faults

----------------------------------------------------------------------------
SdTypeOK ==
  /\ cfg_state \in CfgStates
  /\ log_state \in LogStates
  /\ fileCfgHandle \in Handles \cup {NoHandle}
  /\ fileMeasureHandle \in Handles \cup {NoHandle}
  /\ cfg_data \in Seq(Texts)
  /\ data \in Seq(Texts)
  /\ fileName \in LogFiles
  /\ mounted \in BOOLEAN
  /\ slots \in [Handles -> [file : Files \cup {NoFile, Deleted},
                            mode : {"read", "append", "write"},
                            buf  : Seq(Texts)]]
  /\ card \in [Files -> Seq(Texts)]
  /\ present \subseteq Files
  /\ faults \in 0..MaxFaults

=============================================================================
