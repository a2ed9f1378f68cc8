----------------------------- MODULE AppProofs -----------------------------
(***************************************************************************)
(* Proofs about the application, for every value of the constants: any     *)
(* commands typed, any number of failures, power cuts, records and files.  *)
(***************************************************************************)
EXTENDS AppProperties, TLAPS, WellFoundedInduction, SequenceTheorems, FiniteSetTheorems

(***************************************************************************)
(* Types of the SD-card layer: what its operations set.                    *)
(***************************************************************************)
Modes == {"read", "append", "write"}
Slots == [file : Files \cup {NoFile, Deleted}, mode : Modes, buf : Seq(Texts)]

FsTypeOK ==
  /\ mounted \in BOOLEAN
  /\ slots \in [Handles -> Slots]
  /\ card \in [Files -> Seq(Texts)]
  /\ present \subseteq Files
  /\ faults \in 0..MaxFaults

CfgTypeOK ==
  /\ cfg_state \in CfgStates
  /\ fileCfgHandle \in Handles \cup {NoHandle}
  /\ cfg_data \in Seq(Texts)

LogTypeOK ==
  /\ log_state \in LogStates
  /\ fileMeasureHandle \in Handles \cup {NoHandle}
  /\ data \in Seq(Texts)
  /\ fileName \in LogFiles

LEMMA SdTypeParts == SdTypeOK <=> FsTypeOK /\ CfgTypeOK /\ LogTypeOK
  BY DEF SdTypeOK, FsTypeOK, CfgTypeOK, LogTypeOK, Slots, Modes

\* The result of a call only ever counts one more fault, within the bound.
LEMMA ResultType ==
  ASSUME FsTypeOK, NEW ok \in BOOLEAN, NEW possible, Result(ok, possible)
  PROVE  /\ faults' \in 0..MaxFaults
         /\ faults' = faults \/ faults' = faults + 1
         /\ faults' = faults <=> (possible => ok)
  BY SdFatAssumption DEF FsTypeOK, Result

\* A set of numbers that is not empty has a smallest one.
LEMMA SmallestExists ==
  ASSUME NEW T, T \subseteq Nat, T # {}
  PROVE  \E x \in T : \A y \in T : x <= y
  <1>1. PICK x \in T : \A y \in T : <<y, x>> \notin OpToRel(<, Nat)
    BY NatLessThanWellFounded, WFMin
  <1>2. \A y \in T : ~(y < x)
    BY <1>1 DEF OpToRel
  <1> QED
    BY <1>2

\* The handle that is given out is a free one.
LEMMA FirstFreeIsFree == FreeHandles # {} => FirstFree \in FreeHandles
  <1>1. FreeHandles \subseteq Nat
    BY SdFatAssumption DEF FreeHandles, Handles
  <1> QED
    BY <1>1, SmallestExists DEF FirstFree

LEMMA FreeSlotType == FreeSlot \in Slots
  BY DEF FreeSlot, Slots, Modes

\* What a power failure or an unmount leaves of the files.
LEMMA CardLeftType ==
  ASSUME FsTypeOK, CardLeft
  PROVE  card' \in [Files -> Seq(Texts)] /\ present' \subseteq Files
  <1>1. Truncated \in [Files -> Seq(Texts)]
    BY DEF Truncated, FsTypeOK
  <1> QED
    BY <1>1 DEF CardLeft, FsTypeOK

LEMMA MountType ==
  ASSUME FsTypeOK, NEW ok \in BOOLEAN, Mount(ok)
  PROVE  FsTypeOK'
  BY ResultType DEF Mount, FsTypeOK

LEMMA UnmountType ==
  ASSUME FsTypeOK, NEW ok \in BOOLEAN, Unmount(ok)
  PROVE  FsTypeOK'
  <1>1. faults' \in 0..MaxFaults /\ mounted' \in BOOLEAN
    BY ResultType DEF Unmount, FsTypeOK
  <1>2. card' \in [Files -> Seq(Texts)] /\ present' \subseteq Files
    BY CardLeftType DEF Unmount, FsTypeOK
  <1>3. slots' \in [Handles -> Slots]
    <2>1. ASSUME NEW h \in Handles
          PROVE  slots[h] \in Slots /\ [slots[h] EXCEPT !.buf = <<>>] \in Slots
      <3>1. slots[h] \in Slots
        BY DEF FsTypeOK
      <3>2. <<>> \in Seq(Texts)
        BY EmptySeq
      <3> QED
        BY <3>1, <3>2 DEF Slots
    <2>2. CASE slots' = [h \in Handles |-> FreeSlot]
      BY <2>2, FreeSlotType
    <2>3. CASE slots' = [h \in Handles |-> IF ok THEN [slots[h] EXCEPT !.buf = <<>>] ELSE slots[h]]
      BY <2>1, <2>3
    <2> QED
      BY <2>2, <2>3 DEF Unmount
  <1> QED
    BY <1>1, <1>2, <1>3 DEF FsTypeOK

LEMMA CurrentDriveSetType ==
  ASSUME FsTypeOK, NEW ok \in BOOLEAN, CurrentDriveSet(ok)
  PROVE  FsTypeOK'
  BY ResultType DEF CurrentDriveSet, FsTypeOK

LEMMA FileOpenType ==
  ASSUME FsTypeOK, NEW ok \in BOOLEAN, NEW f \in Files, NEW mode \in Modes,
         FileOpen(ok, f, mode)
  PROVE  FsTypeOK' /\ OpenedHandle(ok) \in Handles \cup {NoHandle}
  <1>1. faults' \in 0..MaxFaults
    BY ResultType DEF FileOpen
  <1>2. ok => FirstFree \in Handles
    BY FirstFreeIsFree DEF FileOpen, Result, FreeHandles
  <1>3. [file |-> f, mode |-> mode, buf |-> <<>>] \in Slots
    BY DEF Slots
  <1>4. slots' \in [Handles -> Slots]
    BY <1>2, <1>3 DEF FileOpen, FsTypeOK
  <1> QED
    BY <1>1, <1>2, <1>4 DEF FileOpen, FsTypeOK, OpenedHandle

LEMMA FileReadType ==
  ASSUME FsTypeOK, NEW ok \in BOOLEAN, NEW h, FileRead(ok, h)
  PROVE  FsTypeOK'
  BY ResultType DEF FileRead, FsTypeOK

LEMMA FileContentType ==
  ASSUME FsTypeOK, NEW h
  PROVE  FileContent(h) \in Seq(Texts)
  BY DEF FsTypeOK, FileContent

LEMMA FileStringPutType ==
  ASSUME FsTypeOK, NEW h, NEW text \in Seq(Texts), FileStringPut(h, text)
  PROVE  FsTypeOK'
  <1>1. faults' \in 0..MaxFaults /\ h \in Handles
    BY ResultType DEF FileStringPut, Result, CanPut, InUse
  <1>2. [slots[h] EXCEPT !.buf = slots[h].buf \o text] \in Slots
    <2>1. slots[h] \in Slots /\ slots[h].buf \in Seq(Texts)
      BY <1>1 DEF FsTypeOK, Slots
    <2>2. slots[h].buf \o text \in Seq(Texts)
      BY <2>1, ConcatProperties
    <2> QED
      BY <2>1, <2>2 DEF Slots
  <1>3. slots' = [slots EXCEPT ![h] = [slots[h] EXCEPT !.buf = slots[h].buf \o text]]
    BY DEF FileStringPut
  <1>4. slots' \in [Handles -> Slots]
    BY <1>1, <1>2, <1>3 DEF FsTypeOK
  <1> QED
    BY <1>1, <1>4 DEF FileStringPut, FsTypeOK

LEMMA StoredType ==
  ASSUME FsTypeOK, NEW h \in Handles, NEW f \in Files
  PROVE  Stored(h, f) \in Seq(Texts)
  <1>1. card[f] \in Seq(Texts) /\ slots[h].buf \in Seq(Texts) /\ slots[h].mode \in Modes
    BY DEF FsTypeOK, Slots
  <1>2. card[f] \o slots[h].buf \in Seq(Texts)
    BY <1>1, ConcatProperties
  <1> QED
    BY <1>1, <1>2 DEF Stored, Modes

LEMMA CloseAsType ==
  ASSUME FsTypeOK, NEW stored, NEW h, CloseAs(stored, h), faults' \in 0..MaxFaults
  PROVE  FsTypeOK'
  <1>1. CASE InUse(h)
    <2>1. h \in Handles
      BY <1>1 DEF InUse
    <2>2. slots' \in [Handles -> Slots]
      BY <1>1, <2>1, FreeSlotType DEF CloseAs, FsTypeOK
    <2>3. [f \in Files |-> Stored(h, f)] \in [Files -> Seq(Texts)]
      BY <2>1, StoredType
    <2>4. Truncated \in [Files -> Seq(Texts)]
      BY DEF Truncated, FsTypeOK
    <2> QED
      BY <1>1, <2>2, <2>3, <2>4 DEF CloseAs, FsTypeOK
  <1>2. CASE ~InUse(h)
    BY <1>2 DEF CloseAs, FsTypeOK
  <1> QED
    BY <1>1, <1>2

LEMMA FileCloseType ==
  ASSUME FsTypeOK, NEW h, FileClose(h)
  PROVE  FsTypeOK'
  BY CloseAsType, ResultType DEF FileClose

LEMMA FailAndCloseType ==
  ASSUME FsTypeOK, NEW possible, NEW h, FailAndClose(possible, h)
  PROVE  FsTypeOK'
  BY CloseAsType, ResultType DEF FailAndClose

LEMMA FileDirectoryRemoveType ==
  ASSUME FsTypeOK, NEW f \in Files, FileDirectoryRemove(f)
  PROVE  FsTypeOK'
  <1>1. PICK ok \in BOOLEAN :
          /\ Result(ok, mounted /\ f \in present)
          /\ card' = IF ok THEN [card EXCEPT ![f] = <<>>] ELSE card
          /\ present' = IF ok THEN present \ {f} ELSE present
          /\ slots' = [h \in Handles |-> IF ok /\ slots[h].file = f
                                         THEN [slots[h] EXCEPT !.file = Deleted]
                                         ELSE slots[h]]
          /\ mounted' = mounted
    BY DEF FileDirectoryRemove
  <1>2. faults' \in 0..MaxFaults
    BY <1>1, ResultType
  <1>3. slots' \in [Handles -> Slots]
    <2>1. \A h \in Handles : slots[h] \in Slots /\ [slots[h] EXCEPT !.file = Deleted] \in Slots
      BY DEF FsTypeOK, Slots
    <2> QED
      BY <1>1, <2>1
  <1>4. card' \in [Files -> Seq(Texts)]
    BY <1>1 DEF FsTypeOK
  <1> QED
    BY <1>1, <1>2, <1>3, <1>4 DEF FsTypeOK

\* One text is a sequence of texts.
LEMMA CfgTextType == \A s \in Settings : <<CfgText(s)>> \in Seq(Texts)
  BY DEF CfgText, Texts

LEMMA RecordType == \A f \in LogFiles, n \in Nat : <<Record(f, n)>> \in Seq(Texts)
  BY DEF Record, Texts

LEMMA CFG_WriteType ==
  ASSUME FsTypeOK, CfgTypeOK, NEW s \in Settings, CFG_Write(s)
  PROVE  FsTypeOK' /\ CfgTypeOK'
  <1>1. CASE cfg_state \in {"IDLE", "OPEN_READ_CONFIG_FILE"}
    BY <1>1, FileCloseType, CfgTextType DEF CFG_Write, CfgTypeOK, CfgStates
  <1>2. CASE cfg_state \notin {"IDLE", "OPEN_READ_CONFIG_FILE"}
    BY <1>2 DEF CFG_Write, CfgTypeOK, FsTypeOK, cfgVars, fsVars
  <1> QED
    BY <1>1, <1>2

\* The configuration machine keeps the types, ...
LEMMA ConfigTaskType ==
  ASSUME FsTypeOK, CfgTypeOK, NEW init, sd_fat_config_task(init)
  PROVE  FsTypeOK' /\ CfgTypeOK'
  <1> USE DEF CfgTypeOK, CfgStates
  <1>1. CASE CfgMountDisk
    BY <1>1, MountType DEF CfgMountDisk
  <1>2. CASE CfgSetCurrentDrive(init)
    BY <1>2, CurrentDriveSetType DEF CfgSetCurrentDrive
  <1>3. CASE CfgOpenRead
    <2>1. PICK ok \in BOOLEAN :
            /\ FileOpen(ok, Config, "read")
            /\ fileCfgHandle' = OpenedHandle(ok)
            /\ IF ok
               THEN cfg_state' = "READ_CONFIG_FILE" /\ UNCHANGED cfg_data
               ELSE cfg_state' = "OPEN_WRITE_CONFIG_FILE" /\ cfg_data' = <<CfgText(Defaults)>>
      BY <1>3 DEF CfgOpenRead
    <2>2. FsTypeOK' /\ fileCfgHandle' \in Handles \cup {NoHandle}
      BY <2>1, FileOpenType DEF Modes, Files
    <2> QED
      BY <2>1, <2>2, CfgTextType, SdFatAssumption
  <1>4. CASE CfgRead
    <2>1. FileContent(fileCfgHandle) \in Seq(Texts)
      BY FileContentType
    <2> QED
      BY <1>4, <2>1, FileReadType, FailAndCloseType DEF CfgRead
  <1>5. CASE CfgOpenWrite
    <2>1. PICK ok \in BOOLEAN :
            /\ FileOpen(ok, Config, "write")
            /\ fileCfgHandle' = OpenedHandle(ok)
            /\ cfg_state' = IF ok THEN "WRITE_CONFIG_FILE" ELSE "ERROR"
      BY <1>5 DEF CfgOpenWrite
    <2>2. FsTypeOK' /\ fileCfgHandle' \in Handles \cup {NoHandle}
      BY <2>1, FileOpenType DEF Modes, Files
    <2> QED
      BY <1>5, <2>1, <2>2 DEF CfgOpenWrite
  <1>6. CASE CfgWrite
    BY <1>6, FileStringPutType, FailAndCloseType DEF CfgWrite
  <1>7. CASE CfgClose(init)
    BY <1>7, FileCloseType DEF CfgClose
  <1>8. CASE CfgUnmountDisk
    BY <1>8, UnmountType DEF CfgUnmountDisk
  <1>9. CASE CfgRest
    BY <1>9 DEF CfgRest, FsTypeOK, cfgVars, fsVars
  <1> QED
    BY <1>1, <1>2, <1>3, <1>4, <1>5, <1>6, <1>7, <1>8, <1>9 DEF sd_fat_config_task

\* ... and so does the logging machine.
LEMMA LoggingTaskType ==
  ASSUME FsTypeOK, LogTypeOK, sd_fat_logging_task
  PROVE  FsTypeOK' /\ LogTypeOK'
  <1> USE DEF LogTypeOK, LogStates
  <1>1. CASE LogMountDisk
    BY <1>1, MountType DEF LogMountDisk
  <1>2. CASE LogSetCurrentDrive
    BY <1>2, CurrentDriveSetType DEF LogSetCurrentDrive
  <1>3. CASE LogOpen
    <2>1. PICK ok \in BOOLEAN :
            /\ FileOpen(ok, fileName, "append")
            /\ fileMeasureHandle' = OpenedHandle(ok)
            /\ log_state' = IF ok THEN "WRITE_TO_MEASURE_FILE" ELSE "ERROR"
      BY <1>3 DEF LogOpen
    <2>2. FsTypeOK' /\ fileMeasureHandle' \in Handles \cup {NoHandle}
      BY <2>1, FileOpenType DEF Modes, Files
    <2> QED
      BY <1>3, <2>1, <2>2 DEF LogOpen
  <1>4. CASE LogWrite
    BY <1>4, FileStringPutType, FailAndCloseType DEF LogWrite
  <1>5. CASE LogClose
    BY <1>5, FileCloseType DEF LogClose
  <1>6. CASE LogUnmountDisk
    BY <1>6, UnmountType DEF LogUnmountDisk
  <1>7. CASE LogRest
    BY <1>7 DEF LogRest, FsTypeOK, logVars, fsVars
  <1> QED
    BY <1>1, <1>2, <1>3, <1>4, <1>5, <1>6, <1>7 DEF sd_fat_logging_task

LEMMA scheduleWriteType ==
  ASSUME LogTypeOK, NEW f \in LogFiles, NEW n \in Nat, scheduleWrite(f, n)
  PROVE  LogTypeOK'
  BY RecordType DEF scheduleWrite, LogTypeOK, LogStates, logVars

LEMMA SdPowerLossType ==
  ASSUME FsTypeOK, SdPowerLoss
  PROVE  FsTypeOK' /\ CfgTypeOK' /\ LogTypeOK'
  <1>1. FsTypeOK'
    BY CardLeftType, FreeSlotType DEF SdPowerLoss, FsTypeOK
  <1> QED
    BY <1>1 DEF SdPowerLoss, CfgTypeOK, LogTypeOK, CfgStates, LogStates, LogFiles

LEMMA SdInitType ==
  ASSUME InitSdRam, InitCard
  PROVE  FsTypeOK /\ CfgTypeOK /\ LogTypeOK
  <1>1. ConfigContents \subseteq Seq(Texts)
    <2>1. Unterminated \in Texts
      BY DEF Texts
    <2>2. <<Unterminated>> \in Seq(Texts) /\ <<>> \in Seq(Texts)
      BY <2>1, EmptySeq
    <2> QED
      BY <2>2, CfgTextType, SdFatAssumption DEF ConfigContents
  <1>2. card \in [Files -> Seq(Texts)]
    <2>1. PICK c \in ConfigContents : card = [f \in Files |-> IF f = Config THEN c ELSE <<>>]
      BY DEF InitCard
    <2> QED
      BY <1>1, <2>1, EmptySeq
  <1>3. present \subseteq Files
    BY DEF InitCard, Files
  <1>4. faults \in 0..MaxFaults
    BY SdFatAssumption DEF InitCard
  <1>5. mounted \in BOOLEAN
    BY DEF InitSdRam
  <1>6. slots \in [Handles -> Slots]
    BY FreeSlotType DEF InitSdRam
  <1> QED
    BY <1>2, <1>3, <1>4, <1>5, <1>6 DEF FsTypeOK, InitSdRam, CfgTypeOK, LogTypeOK, CfgStates, LogStates, LogFiles

(***************************************************************************)
(* Types of the application.                                               *)
(***************************************************************************)
LEMMA SdUnchanged ==
  /\ FsTypeOK /\ UNCHANGED fsVars => FsTypeOK'
  /\ CfgTypeOK /\ UNCHANGED cfgVars => CfgTypeOK'
  /\ LogTypeOK /\ UNCHANGED logVars => LogTypeOK'
  /\ UNCHANGED sdVars => UNCHANGED fsVars /\ UNCHANGED cfgVars /\ UNCHANGED logVars
  BY DEF FsTypeOK, CfgTypeOK, LogTypeOK, fsVars, cfgVars, logVars, sdVars

LEMMA BoundsType ==
  /\ CharReadSize \in Nat \ {0} /\ RxDepth \in Nat \ {0} /\ BtnHold \in Nat \ {0}
  /\ MinInactive \in Nat /\ TicksPerSecond \in Nat
  /\ MaxRecords \in Nat /\ MaxTokens \in Nat /\ MaxPowerCuts \in Nat
  BY AppAssumption

\* The greatest count of inactive ticks is one of the counts.
LEMMA MaxInactiveCntType == MaxInactiveCnt \in Nat
  <1> DEFINE m == CHOOSE p \in InactivePeriods : \A q \in InactivePeriods : q <= p
  <1>1. m \in InactivePeriods
    BY SdFatAssumption
  <1>2. m \in Nat /\ TicksPerSecond \in Nat
    BY <1>1, SdFatAssumption, BoundsType
  <1> HIDE DEF m
  <1>3. m * TicksPerSecond \in Nat
    BY <1>2
  <1> QED
    BY <1>3 DEF MaxInactiveCnt, m

\* The measures that are due can be counted.
LEMMA DueCount ==
  ASSUME NEW D, D \subseteq {"IMU", "GNSS"}
  PROVE  /\ Cardinality(D) \in Nat
         /\ \A E : E \subseteq D => Cardinality(E) <= Cardinality(D)
         /\ \A m \in D : Cardinality(D \ {m}) + 1 = Cardinality(D)
  <1>1. IsFiniteSet({"IMU", "GNSS"})
    <2>1. IsFiniteSet({} \cup {"IMU"})
      BY FS_EmptySet, FS_AddElement
    <2>2. IsFiniteSet(({} \cup {"IMU"}) \cup {"GNSS"})
      BY <2>1, FS_AddElement
    <2>3. {"IMU", "GNSS"} = ({} \cup {"IMU"}) \cup {"GNSS"}
      OBVIOUS
    <2> QED
      BY <2>2, <2>3
  <1>2. IsFiniteSet(D)
    BY <1>1, FS_Subset
  <1>3. Cardinality(D) \in Nat
    BY <1>2, FS_CardinalityType
  <1>4. \A E : E \subseteq D => Cardinality(E) <= Cardinality(D)
    BY <1>2, FS_Subset
  <1>5. ASSUME NEW m \in D PROVE Cardinality(D \ {m}) + 1 = Cardinality(D)
    <2>1. Cardinality(D \ {m}) = Cardinality(D) - 1
      BY <1>2, <1>5, FS_RemoveElement, Zenon
    <2> QED
      BY <1>3, <2>1
  <1> QED
    BY <1>3, <1>4, <1>5

SerialTypeOK(S, b) == rx \in Seq(Tokens) /\ Tokens \subseteq S /\ b \in Seq(S) /\ Len(b) < CharReadSize

LEMMA TakenType ==
  ASSUME NEW S, NEW b, SerialTypeOK(S, b)
  PROVE  Taken(b) \in 0..Len(rx) /\ Len(b) + Taken(b) <= CharReadSize
  <1>1. Len(b) \in Nat /\ Len(rx) \in Nat /\ CharReadSize \in Nat
    BY LenProperties, BoundsType DEF SerialTypeOK
  <1> QED
    BY <1>1 DEF Taken, AtMost, SerialTypeOK

\* What is read fits the buffer, ...
LEMMA ReceivedType ==
  ASSUME NEW S, NEW b, SerialTypeOK(S, b)
  PROVE  Received(b) \in Seq(S) /\ Len(Received(b)) < CharReadSize
  <1>1. Taken(b) \in 0..Len(rx) /\ Len(rx) \in Nat /\ Len(b) \in Nat
    BY TakenType, LenProperties DEF SerialTypeOK
  <1>2. SubSeq(rx, 1, Taken(b)) \in Seq(Tokens) /\ Len(SubSeq(rx, 1, Taken(b))) = Taken(b)
    BY <1>1, SubSeqProperties DEF SerialTypeOK
  <1>3. SubSeq(rx, 1, Taken(b)) \in Seq(S)
    BY <1>2 DEF SerialTypeOK
  <1>4. /\ b \o SubSeq(rx, 1, Taken(b)) \in Seq(S)
        /\ Len(b \o SubSeq(rx, 1, Taken(b))) = Len(b) + Taken(b)
    BY <1>2, <1>3, ConcatProperties DEF SerialTypeOK
  <1>5. <<>> \in Seq(S) /\ Len(<<>>) = 0 /\ CharReadSize \in Nat \ {0}
    BY EmptySeq, BoundsType
  <1> QED
    BY <1>1, <1>4, <1>5 DEF Received

\* ... and leaves the rest in the receiver.
LEMMA DrainType ==
  ASSUME NEW S, NEW b, SerialTypeOK(S, b), Drain(b)
  PROVE  rx' \in Seq(Tokens) /\ Len(rx') <= Len(rx)
  <1>1. Taken(b) \in 0..Len(rx) /\ Len(rx) \in Nat
    BY TakenType, LenProperties DEF SerialTypeOK
  <1>2. \A i \in (Taken(b) + 1)..Len(rx) : rx[i] \in Tokens
    BY <1>1, ElementOfSeq DEF SerialTypeOK
  <1>3. /\ SubSeq(rx, Taken(b) + 1, Len(rx)) \in Seq(Tokens)
        /\ Len(SubSeq(rx, Taken(b) + 1, Len(rx))) <= Len(rx)
    BY <1>1, <1>2, SubSeqProperties DEF SerialTypeOK
  <1> QED
    BY <1>3 DEF Drain

\* The parts of the type that the actions set together.
SerTypeOK ==
  /\ rx \in Seq(Tokens) /\ Len(rx) <= RxDepth
  /\ charRead \in Seq(Tokens) /\ Len(charRead) < CharReadSize

TickTypeOK ==
  /\ tmr \in BOOLEAN
  /\ measTodo \subseteq {"IMU", "GNSS"}
  /\ measures \in Nat /\ measures + Cardinality(measTodo) <= MaxRecords

LEMMA PollType ==
  ASSUME SerTypeOK, NEW cmd, pollSerialCmds(cmd)
  PROVE  SerTypeOK'
  <1>1. SerialTypeOK(Tokens, charRead)
    BY DEF SerialTypeOK, SerTypeOK
  <1>2. Received(charRead) \in Seq(Tokens) /\ Len(Received(charRead)) < CharReadSize
    BY <1>1, ReceivedType
  <1>3. rx' \in Seq(Tokens) /\ Len(rx') <= Len(rx)
    BY <1>1, DrainType DEF pollSerialCmds
  <1>4. Len(rx) \in Nat /\ Len(rx') \in Nat /\ RxDepth \in Nat
    BY <1>3, LenProperties, BoundsType DEF SerTypeOK
  <1>5. <<>> \in Seq(Tokens) /\ Len(<<>>) < CharReadSize
    BY EmptySeq, BoundsType
  <1>6. charRead' \in Seq(Tokens) /\ Len(charRead') < CharReadSize
    BY <1>2, <1>5 DEF pollSerialCmds
  <1> QED
    BY <1>3, <1>4, <1>6 DEF SerTypeOK

\* The parameters sd_fat_cfg_init leaves are those of a file or the defaults.
LEMMA CfgInitType ==
  ASSUME FsTypeOK, CfgTypeOK, settings \in Settings, state \in States, tmr \in BOOLEAN,
         NEW next, sd_fat_cfg_init(next)
  PROVE  /\ FsTypeOK' /\ CfgTypeOK'
         /\ settings' \in Settings /\ state' \in States /\ tmr' \in BOOLEAN
         /\ pc' \in {next, "trap"}
  <1>1. FsTypeOK' /\ CfgTypeOK'
    BY ConfigTaskType DEF sd_fat_cfg_init
  <1>2. ~ParseError' => (CHOOSE s \in Settings : Parsed(s)') \in Settings
    BY DEF ParseError
  <1>3. Defaults \in Settings
    BY SdFatAssumption
  <1>4. settings' \in Settings
    <2> HIDE DEF Settings
    <2> QED
      BY <1>1, <1>2, <1>3 DEF sd_fat_cfg_init, CfgTypeOK
  <1>5. state' \in States /\ tmr' \in BOOLEAN /\ pc' \in {next, "trap"}
    BY DEF sd_fat_cfg_init, States
  <1> QED
    BY <1>1, <1>4, <1>5

LEMMA NextCommandType ==
  ASSUME command \in DOMAIN Commands, NextCommand
  PROVE  command' \in DOMAIN Commands /\ pc' \in {"poll", "task"}
  BY DEF Commands, NextCommand

LEMMA ZeroedType == Zeroed \in Settings
  BY SdFatAssumption DEF Zeroed, Settings

\* A line that is typed holds a value of its parameter.
LEMMA ScannedType ==
  ASSUME settings \in Settings, NEW b \in Seq(Tokens \cup {Blank})
  PROVE  Scanned(b) \in Settings
  <1>1. CASE ~HasLine(b)
    BY <1>1 DEF Scanned
  <1>2. CASE HasLine(b)
    <2>1. 1 \in DOMAIN b
      BY <1>2 DEF HasLine
    <2>2. b[1] \in Tokens \cup {Blank}
      BY <2>1
    <2>3. Blank.cmd \notin ConfigLines
      BY DEF Blank, ConfigLines
    <2>4. /\ b[1].cmd = "INTG" => b[1].val \in GnssPeriods
          /\ b[1].cmd = "INTI" => b[1].val \in ImuPeriods
          /\ b[1].cmd = "TOFF" => b[1].val \in InactivePeriods
      BY <2>2, <2>3, AppAssumption DEF ConfigLines
    <2>5. b[1].cmd = "LEDV" => b[1].val \in Nat
      BY <2>2, <2>3, AppAssumption DEF ConfigLines
    <2> DEFINE c == b[1].cmd
               v == b[1].val
    <2> HIDE DEF c, v
    <2>6. /\ c = "INTG" => [settings EXCEPT !.gnss = v] \in Settings
          /\ c = "INTI" => [settings EXCEPT !.imu = v] \in Settings
          /\ c = "TOFF" => [settings EXCEPT !.toff = v] \in Settings
      BY <2>4 DEF c, v, Settings
    <2>7. c = "LEDV" => [settings EXCEPT !.led = v > 0] \in Settings
      <3>1. c = "LEDV" => (v > 0) \in BOOLEAN
        BY <2>5 DEF c, v
      <3> QED
        BY <3>1 DEF Settings
    <2> QED
      BY <1>2, <2>6, <2>7 DEF Scanned, c, v
  <1> QED
    BY <1>1, <1>2

LEMMA ValidatedType ==
  ASSUME old \in Settings, NEW s \in Settings
  PROVE  Validated(s) \in Settings
  BY DEF Validated, Settings

LEMMA VisibleType ==
  ASSUME NEW S, NEW b \in Seq(S)
  PROVE  Visible(b) \in Seq(S)
  BY EmptySeq DEF Visible

\* Writing zeros over a buffer keeps its length.
LEMMA BlankedType ==
  ASSUME NEW S, NEW b \in Seq(S), Blank \in S
  PROVE  /\ [i \in DOMAIN b |-> Blank] \in Seq(S)
         /\ Len([i \in DOMAIN b |-> Blank]) = Len(b)
  <1>1. Len(b) \in Nat /\ DOMAIN b = 1..Len(b)
    BY LenProperties
  <1> DEFINE z == [i \in 1..Len(b) |-> Blank]
  <1>2. z \in Seq(S)
    BY <1>1
  <1>3. Len(z) = Len(b)
    BY <1>1, <1>2, LenProperties
  <1> QED
    BY <1>1, <1>2, <1>3

\* The configuration mode keeps the types of the parameters and of its buffer.
LEMMA TaskConfigureType ==
  ASSUME TypeOK, TaskConfigure
  PROVE  /\ FsTypeOK' /\ CfgTypeOK'
         /\ settings' \in Settings /\ old' \in Settings
         /\ rx' \in Seq(Tokens) /\ Len(rx') <= RxDepth
         /\ cfgRead' \in Seq(Tokens \cup {Blank}) /\ Len(cfgRead') < CharReadSize
         /\ state' \in States /\ pc' \in {"task", "configTask"} /\ tmr' \in BOOLEAN
  <1> DEFINE S       == Tokens \cup {Blank}
             read    == Received(cfgRead)
             scanned == Scanned(Visible(read))
             changed == scanned # old
             line    == IF HasLine(Visible(read)) THEN <<>> ELSE read
             kept    == IF changed THEN [i \in DOMAIN line |-> Blank] ELSE line
  <1>1. SerialTypeOK(S, cfgRead)
    BY DEF SerialTypeOK, TypeOK
  <1>2. read \in Seq(S) /\ Len(read) < CharReadSize
    BY <1>1, ReceivedType
  <1>3. scanned \in Settings
    BY <1>2, VisibleType, ScannedType DEF TypeOK
  <1>4. Validated(scanned) \in Settings
    BY <1>3, ValidatedType DEF TypeOK
  <1>5. line \in Seq(S) /\ Len(line) < CharReadSize
    <2>1. <<>> \in Seq(S) /\ Len(<<>>) < CharReadSize
      BY EmptySeq, BoundsType
    <2> HIDE DEF read, S
    <2> QED
      BY <1>2, <2>1
  <1>6. kept \in Seq(S) /\ Len(kept) < CharReadSize
    <2> HIDE DEF line, scanned
    <2>1. /\ [i \in DOMAIN line |-> Blank] \in Seq(S)
          /\ Len([i \in DOMAIN line |-> Blank]) = Len(line)
      BY <1>5, BlankedType
    <2> QED
      BY <1>5, <2>1
  <1> HIDE DEF S
  <1>7. /\ Drain(cfgRead)
        /\ settings' = IF changed THEN Validated(scanned) ELSE scanned
        /\ old' = settings'
        /\ IF changed THEN CFG_Write(settings') ELSE UNCHANGED <<cfgVars, fsVars>>
        /\ IF Holds(Visible(kept), "exit")
           THEN startLogging /\ cfgRead' = <<>> /\ UNCHANGED pc
           ELSE cfgRead' = kept /\ pc' = "configTask" /\ UNCHANGED <<state, tmr>>
        /\ pc = "task"
    BY DEF TaskConfigure
  <1> HIDE DEF kept, changed
  <1>8. settings' \in Settings /\ old' \in Settings
    BY <1>3, <1>4, <1>7
  <1>9. FsTypeOK /\ CfgTypeOK
    BY SdTypeParts DEF TypeOK
  <1>10. FsTypeOK' /\ CfgTypeOK'
    <2>1. CASE changed
      BY <1>7, <1>8, <1>9, <2>1, CFG_WriteType
    <2>2. CASE ~changed
      BY <1>7, <1>9, <2>2, SdUnchanged
    <2> QED
      BY <2>1, <2>2
  <1>11. rx' \in Seq(Tokens) /\ Len(rx') <= RxDepth
    <2>1. rx' \in Seq(Tokens) /\ Len(rx') <= Len(rx)
      BY <1>1, <1>7, DrainType
    <2>2. Len(rx) \in Nat /\ Len(rx') \in Nat /\ RxDepth \in Nat /\ Len(rx) <= RxDepth
      BY <2>1, LenProperties, BoundsType DEF TypeOK
    <2> QED
      BY <2>1, <2>2
  <1>12. cfgRead' \in Seq(S) /\ Len(cfgRead') < CharReadSize
    <2>1. <<>> \in Seq(S) /\ Len(<<>>) < CharReadSize
      BY EmptySeq, BoundsType
    <2> QED
      BY <1>6, <1>7, <2>1
  <1>13. state' \in States /\ pc' \in {"task", "configTask"} /\ tmr' \in BOOLEAN
    BY <1>7 DEF startLogging, TypeOK, States
  <1> QED
    BY <1>8, <1>10, <1>11, <1>12, <1>13 DEF S

(* The type invariant, in parts that the actions set together. *)
ControlTypeOK ==
  /\ pc \in {"task", "configButton", "log", "button", "inactive", "poll", "stopConfig",
             "stopLog", "displayOpen", "displayRead", "displayClose", "configTask",
             "shutdownWait", "shutdownUnmount", "shutdownOff", "trap"}
  /\ state \in States
  /\ command \in DOMAIN Commands

ParamTypeOK == settings \in Settings /\ old \in Settings

OtherTypeOK ==
  /\ cleared \in Nat
  /\ inactiveCnt \in 0..MaxInactiveCnt
  /\ button \in BOOLEAN /\ hold \in BOOLEAN
  /\ cntBtnPressed \in 0..BtnHold
  /\ cfgRead \in Seq(Tokens \cup {Blank}) /\ Len(cfgRead) < CharReadSize
  /\ shown \in Nat
  /\ overrun \in BOOLEAN
  /\ typed \in 0..MaxTokens
  /\ powerHold \in BOOLEAN
  /\ powerCuts \in 0..MaxPowerCuts

LEMMA TypeParts ==
  TypeOK <=> /\ FsTypeOK /\ CfgTypeOK /\ LogTypeOK
             /\ ControlTypeOK /\ ParamTypeOK /\ TickTypeOK /\ SerTypeOK /\ OtherTypeOK
  BY SdTypeParts DEF TypeOK, ControlTypeOK, ParamTypeOK, TickTypeOK, SerTypeOK, OtherTypeOK

LEMMA TypePartsNext ==
  TypeOK' <=> /\ FsTypeOK' /\ CfgTypeOK' /\ LogTypeOK'
              /\ ControlTypeOK' /\ ParamTypeOK' /\ TickTypeOK' /\ SerTypeOK' /\ OtherTypeOK'
  <1>1. SdTypeOK' <=> FsTypeOK' /\ CfgTypeOK' /\ LogTypeOK'
    BY DEF SdTypeOK, FsTypeOK, CfgTypeOK, LogTypeOK, Slots, Modes
  <1> QED
    BY <1>1 DEF TypeOK, ControlTypeOK, ParamTypeOK, TickTypeOK, SerTypeOK, OtherTypeOK

\* Nothing that was not due gets due.
LEMMA NothingDueType ==
  ASSUME TickTypeOK, measTodo' \subseteq measTodo, UNCHANGED measures, tmr' \in BOOLEAN
  PROVE  TickTypeOK'
  <1>1. /\ Cardinality(measTodo') <= Cardinality(measTodo)
        /\ Cardinality(measTodo') \in Nat /\ Cardinality(measTodo) \in Nat
    BY DueCount DEF TickTypeOK
  <1> QED
    BY <1>1, BoundsType DEF TickTypeOK

\* A measure that is taken is no longer due.
LEMMA TaskMeasureType ==
  ASSUME TickTypeOK, LogTypeOK, inactiveCnt \in 0..MaxInactiveCnt, TaskMeasure
  PROVE  TickTypeOK' /\ LogTypeOK' /\ inactiveCnt' \in 0..MaxInactiveCnt
  <1>1. CASE MeasureTaken = {}
    <2>1. measures' = measures /\ inactiveCnt' = inactiveCnt /\ UNCHANGED logVars
          /\ measTodo' = measTodo /\ tmr' = tmr
      BY <1>1 DEF TaskMeasure
    <2> QED
      BY <2>1, SdUnchanged DEF TickTypeOK
  <1>2. CASE MeasureTaken # {}
    <2>1. PICK m \in measTodo, f \in LogFiles :
            /\ MeasureTaken = {m}
            /\ scheduleWrite(f, measures + 1)
            /\ measures' = measures + 1
      BY <1>2 DEF TaskMeasure, MeasureTaken, LogFiles
    <2>2. /\ measTodo' = measTodo \ {m}
          /\ tmr' = tmr
          /\ inactiveCnt' \in {0, inactiveCnt}
      BY <2>1 DEF TaskMeasure
    <2>3. /\ Cardinality(measTodo \ {m}) + 1 = Cardinality(measTodo)
          /\ Cardinality(measTodo) \in Nat
          /\ Cardinality(measTodo \ {m}) <= Cardinality(measTodo)
      BY DueCount DEF TickTypeOK
    <2>4. Cardinality(measTodo') \in Nat
      BY <2>2, DueCount DEF TickTypeOK
    <2>5. measures' + Cardinality(measTodo') <= MaxRecords /\ measures' \in Nat
      BY <2>1, <2>2, <2>3, <2>4, BoundsType DEF TickTypeOK
    <2>6. LogTypeOK'
      BY <2>1, scheduleWriteType DEF TickTypeOK
    <2>7. inactiveCnt' \in 0..MaxInactiveCnt
      BY <2>2, MaxInactiveCntType
    <2> QED
      BY <2>2, <2>5, <2>6, <2>7 DEF TickTypeOK
  <1> QED
    BY <1>1, <1>2

\* Each step of the main loop keeps the types.
LEMMA MainLoopType ==
  ASSUME TypeOK, MainLoop
  PROVE  TypeOK'
  <1> USE TypeParts, TypePartsNext
      DEF ControlTypeOK, ParamTypeOK, TickTypeOK, SerTypeOK, OtherTypeOK,
          cfgModeVars, tickVars, counts, btnVars, serVars, envVars
  <1>1. CASE TaskInit
    BY <1>1, SdUnchanged DEF TaskInit, States
  <1>2. CASE TaskConfig
    <2>1. sd_fat_cfg_init("configButton")
      BY <1>2 DEF TaskConfig
    <2>2. /\ FsTypeOK' /\ CfgTypeOK' /\ settings' \in Settings /\ state' \in States
          /\ tmr' \in BOOLEAN /\ pc' \in {"configButton", "trap"}
      BY <2>1, CfgInitType, TypeParts DEF ControlTypeOK, ParamTypeOK, TickTypeOK
    <2> QED
      BY <1>2, <2>2, SdUnchanged DEF TaskConfig
  <1>3. CASE ConfigButton
    BY <1>3, SdUnchanged DEF ConfigButton, States
  <1>4. CASE TaskMeasure
    <2>1. TickTypeOK' /\ LogTypeOK' /\ inactiveCnt' \in 0..MaxInactiveCnt
      BY <1>4, TaskMeasureType, TypeParts DEF OtherTypeOK
    <2> QED
      BY <1>4, <2>1, SdUnchanged DEF TaskMeasure
  <1>5. CASE TaskLog
    BY <1>5, SdUnchanged, LoggingTaskType DEF TaskLog
  <1>6. CASE btnTaskGest
    BY <1>6, SdUnchanged, BoundsType DEF btnTaskGest, States
  <1>7. CASE TaskInactive
    BY <1>7, SdUnchanged DEF TaskInactive, States, Commands
  <1>8. CASE PollMiss
    BY <1>8, SdUnchanged, PollType, NextCommandType DEF PollMiss, Poll
  <1>9. CASE PollShutdown
    BY <1>9, SdUnchanged, PollType, NextCommandType DEF PollShutdown, Poll, States
  <1>10. CASE PollStop
    BY <1>10, SdUnchanged, PollType, NothingDueType DEF PollStop, Poll
  <1>11. CASE PollDisplay
    BY <1>11, SdUnchanged, FileCloseType, PollType DEF PollDisplay, Poll
  <1>12. CASE PollClear
    <2>1. PICK cmd \in {"gclr", "iclr"} :
            /\ Poll(cmd)
            /\ FileDirectoryRemove(LogOf(cmd))
            /\ cleared' = IF present' = present THEN cleared ELSE cleared + 1
            /\ NextCommand
            /\ UNCHANGED <<state, tmr, measTodo, shown, cfgVars, logVars>>
      BY <1>12 DEF PollClear
    <2>2. FsTypeOK'
      BY <2>1, FileDirectoryRemoveType DEF LogOf, Files, LogFiles
    <2> QED
      BY <2>1, <2>2, SdUnchanged, PollType, NextCommandType DEF Poll
  <1>13. CASE StopConfig
    <2>1. CASE cfg_state = "IDLE"
      BY <1>13, <2>1, SdUnchanged DEF StopConfig
    <2>2. CASE cfg_state # "IDLE"
      <3>1. sd_fat_cfg_init("stopConfig")
        BY <1>13, <2>2 DEF StopConfig
      <3>2. /\ FsTypeOK' /\ CfgTypeOK' /\ settings' \in Settings /\ state' \in States
            /\ tmr' \in BOOLEAN /\ pc' \in {"stopConfig", "trap"}
        BY <3>1, CfgInitType, TypeParts DEF ControlTypeOK, ParamTypeOK, TickTypeOK
      <3> QED
        BY <1>13, <3>2, SdUnchanged DEF StopConfig
    <2> QED
      BY <2>1, <2>2
  <1>14. CASE StopLog
    BY <1>14, SdUnchanged, LoggingTaskType DEF StopLog, appVars
  <1>15. CASE Stopped
    <2>1. [settings EXCEPT !.toff = old.toff] \in Settings
      BY DEF ParamTypeOK, Settings
    <2>2. state' \in States /\ old' \in Settings /\ tmr' \in BOOLEAN /\ cfg_state' \in CfgStates
      BY <1>15, <2>1 DEF Stopped, States, CfgTypeOK, CfgStates
    <2> QED
      BY <1>15, <2>2, SdUnchanged, NextCommandType DEF Stopped, CfgTypeOK
  <1>16. CASE DisplayOpen
    <2>1. PICK ok \in BOOLEAN :
            /\ FileOpen(ok, LogOf(Commands[command]), "read")
            /\ fileCfgHandle' = OpenedHandle(ok)
      BY <1>16 DEF DisplayOpen
    <2>2. FsTypeOK' /\ fileCfgHandle' \in Handles \cup {NoHandle}
      BY <2>1, FileOpenType DEF LogOf, Files, LogFiles, Modes
    <2> QED
      BY <1>16, <2>2, SdUnchanged DEF DisplayOpen, CfgTypeOK
  <1>17. CASE DisplayRead
    BY <1>17, SdUnchanged, PollType DEF DisplayRead
  <1>18. CASE DisplayClose
    BY <1>18, SdUnchanged, FileCloseType, NextCommandType DEF DisplayClose
  <1>19. CASE TaskLive
    <2>1. SerTypeOK' /\ inactiveCnt' \in 0..MaxInactiveCnt
      BY <1>19, PollType, MaxInactiveCntType DEF TaskLive
    <2>2. measTodo' \subseteq measTodo /\ tmr' \in BOOLEAN /\ state' \in States
      BY <1>19 DEF TaskLive, startLogging, States
    <2>3. TickTypeOK'
      BY <1>19, <2>2, NothingDueType DEF TaskLive, counts
    <2> QED
      BY <1>19, <2>1, <2>2, <2>3, SdUnchanged DEF TaskLive
  <1>20. CASE TaskConfigure
    <2>1. /\ FsTypeOK' /\ CfgTypeOK'
          /\ settings' \in Settings /\ old' \in Settings
          /\ rx' \in Seq(Tokens) /\ Len(rx') <= RxDepth
          /\ cfgRead' \in Seq(Tokens \cup {Blank}) /\ Len(cfgRead') < CharReadSize
          /\ state' \in States /\ pc' \in {"task", "configTask"} /\ tmr' \in BOOLEAN
      BY <1>20, TaskConfigureType
    <2> QED
      BY <1>20, <2>1, SdUnchanged, MaxInactiveCntType DEF TaskConfigure
  <1>21. CASE ConfigTask
    BY <1>21, SdUnchanged, ConfigTaskType DEF ConfigTask
  <1>22. CASE Shutdown
    BY <1>22, SdUnchanged DEF Shutdown
  <1>23. CASE ShutdownWait
    BY <1>23, SdUnchanged, LoggingTaskType DEF ShutdownWait, LogTypeOK, LogStates
  <1>24. CASE ShutdownUnmount
    BY <1>24, SdUnchanged, LoggingTaskType DEF ShutdownUnmount
  <1>25. CASE ShutdownOff
    BY <1>25, SdUnchanged DEF ShutdownOff
  <1> QED
    BY <1>1, <1>2, <1>3, <1>4, <1>5, <1>6, <1>7, <1>8, <1>9, <1>10, <1>11, <1>12, <1>13, <1>14, <1>15, <1>16, <1>17, <1>18, <1>19, <1>20, <1>21, <1>22, <1>23, <1>24, <1>25 DEF MainLoop

\* So does each step of the interrupt, the user and the power supply.
LEMMA EnvironmentType ==
  ASSUME TypeOK,
         stateTimer_callback \/ stateTimer_trap \/ PressOrRelease \/ Type \/ PowerLoss
  PROVE  TypeOK'
  <1> USE TypeParts, TypePartsNext
      DEF ControlTypeOK, ParamTypeOK, TickTypeOK, SerTypeOK, OtherTypeOK,
          cfgModeVars, tickVars, counts, btnVars, serVars, envVars
  <1>1. CASE stateTimer_callback
    <2>1. inactiveCnt' \in 0..MaxInactiveCnt
      BY <1>1, MaxInactiveCntType DEF stateTimer_callback, AtMost
    <2>2. cntBtnPressed' \in 0..BtnHold
      BY <1>1, BoundsType DEF stateTimer_callback, AtMost
    <2> QED
      BY <1>1, <2>1, <2>2, SdUnchanged DEF stateTimer_callback, appVars
  <1>2. CASE stateTimer_trap
    BY <1>2, SdUnchanged DEF stateTimer_trap
  <1>3. CASE PressOrRelease
    BY <1>3, SdUnchanged DEF PressOrRelease, appVars
  <1>4. CASE Type
    <2>1. typed' \in 0..MaxTokens
      <3>1. typed < MaxTokens /\ typed' = typed + 1
        BY <1>4 DEF Type
      <3>2. typed \in 0..MaxTokens /\ MaxTokens \in Nat
        BY BoundsType
      <3> QED
        BY <3>1, <3>2
    <2>3. overrun' \in BOOLEAN
      BY <1>4 DEF Type
    <2>2. rx' \in Seq(Tokens) /\ Len(rx') <= RxDepth
      <3>1. Len(rx) \in Nat /\ RxDepth \in Nat
        BY LenProperties, BoundsType
      <3>2. CASE UNCHANGED rx
        BY <3>2
      <3>3. ASSUME NEW t \in Tokens, rx' = Append(rx, t), Len(rx) < RxDepth
            PROVE  rx' \in Seq(Tokens) /\ Len(rx') <= RxDepth
        BY <3>1, <3>3, AppendProperties
      <3> QED
        BY <1>4, <3>1, <3>2, <3>3 DEF Type
    <2> QED
      BY <1>4, <2>1, <2>2, <2>3, SdUnchanged DEF Type, appVars
  <1>5. CASE PowerLoss
    <2>1. FsTypeOK' /\ CfgTypeOK' /\ LogTypeOK'
      BY <1>5, SdPowerLossType DEF PowerLoss
    <2>2. TickTypeOK'
      BY <1>5, NothingDueType DEF PowerLoss
    <2>3. ControlTypeOK' /\ ParamTypeOK'
      BY <1>5, ZeroedType DEF PowerLoss, States, Commands
    <2>4. SerTypeOK'
      BY <1>5, EmptySeq, BoundsType DEF PowerLoss
    <2>5. cfgRead' \in Seq(Tokens \cup {Blank}) /\ Len(cfgRead') < CharReadSize
      BY <1>5, EmptySeq, BoundsType DEF PowerLoss
    <2>6. powerCuts' \in 0..MaxPowerCuts
      BY <1>5, BoundsType DEF PowerLoss
    <2>7. inactiveCnt' \in 0..MaxInactiveCnt /\ cntBtnPressed' \in 0..BtnHold
      BY <1>5, MaxInactiveCntType, BoundsType DEF PowerLoss
    <2>8. OtherTypeOK'
      BY <1>5, <2>5, <2>6, <2>7 DEF PowerLoss
    <2> QED
      BY <2>1, <2>2, <2>3, <2>4, <2>8
  <1> QED
    BY <1>1, <1>2, <1>3, <1>4, <1>5

LEMMA InitType == Init => TypeOK
  <1> SUFFICES ASSUME Init PROVE TypeOK
    OBVIOUS
  <1>1. FsTypeOK /\ CfgTypeOK /\ LogTypeOK
    BY SdInitType DEF Init
  <1>2. ControlTypeOK /\ ParamTypeOK
    BY ZeroedType DEF Init, ControlTypeOK, ParamTypeOK, States, Commands
  <1>3. TickTypeOK
    <2>1. measTodo = {} /\ Cardinality(measTodo) = 0
      BY FS_EmptySet DEF Init
    <2>2. measures + Cardinality(measTodo) <= MaxRecords
      BY <2>1, BoundsType DEF Init
    <2> QED
      BY <2>1, <2>2 DEF Init, TickTypeOK
  <1>4. SerTypeOK
    BY EmptySeq, BoundsType DEF Init, SerTypeOK
  <1>5. cfgRead \in Seq(Tokens \cup {Blank}) /\ Len(cfgRead) < CharReadSize
    BY EmptySeq, BoundsType DEF Init
  <1>6. OtherTypeOK
    <2>1. /\ inactiveCnt \in 0..MaxInactiveCnt /\ cntBtnPressed \in 0..BtnHold
          /\ typed \in 0..MaxTokens /\ powerCuts \in 0..MaxPowerCuts
      BY MaxInactiveCntType, BoundsType DEF Init
    <2> QED
      BY <1>5, <2>1 DEF Init, OtherTypeOK
  <1> QED
    BY <1>1, <1>2, <1>3, <1>4, <1>6, TypeParts

LEMMA StutterType == TypeOK /\ UNCHANGED vars => TypeOK'
  BY SdUnchanged, TypeParts, TypePartsNext
  DEF vars, appVars, cfgModeVars, tickVars, counts, btnVars, serVars, envVars,
      ControlTypeOK, ParamTypeOK, TickTypeOK, SerTypeOK, OtherTypeOK

\* Every step of the application keeps the types.
LEMMA NextType == TypeOK /\ [Next]_vars => TypeOK'
  BY MainLoopType, EnvironmentType, StutterType DEF Next

\* Every variable keeps its type and its bound: the parameters stay parameters a
\* user can give, a buffer for serial input is never full when a step ends, no more
\* measures are due than are left to record, at most MaxFaults calls have failed.
THEOREM AppTypeOK == Spec => []TypeOK
  BY InitType, NextType, PTL DEF Spec

(***************************************************************************)
(* The parameters.                                                         *)
(***************************************************************************)

\* While the parameters are being changed, the periods `old' holds are those the
\* recorder runs with: replacing what is not valid by the old value keeps it.
OldInv == state = "CONFIGURATE_BBX" => old.gnss = settings.gnss /\ old.imu = settings.imu

\* A pass of the configuration mode: what is not valid is replaced.
LEMMA TaskConfigurePeriods ==
  ASSUME TypeOK, OldInv, TaskConfigure
  PROVE  /\ OldInv'
         /\ \A p \in {"gnss", "imu"} : settings'[p] > 0 \/ settings'[p] = settings[p]
  <1> DEFINE scanned == Scanned(Visible(Received(cfgRead)))
  <1>1. scanned \in Settings
    <2>1. SerialTypeOK(Tokens \cup {Blank}, cfgRead)
      BY DEF SerialTypeOK, TypeOK
    <2>2. Received(cfgRead) \in Seq(Tokens \cup {Blank})
      BY <2>1, ReceivedType
    <2> QED
      BY <2>2, VisibleType, ScannedType DEF TypeOK
  <1>2. /\ settings' = IF scanned # old THEN Validated(scanned) ELSE scanned
        /\ old' = settings'
        /\ state = "CONFIGURATE_BBX"
    BY DEF TaskConfigure
  <1> HIDE DEF scanned
  <1>3. /\ scanned.gnss \in Nat /\ scanned.imu \in Nat
        /\ old.gnss = settings.gnss /\ old.imu = settings.imu
    BY <1>1, <1>2, SdFatAssumption DEF OldInv, Settings
  <1>4. CASE scanned # old
    <2>1. /\ settings'.gnss = IF scanned.gnss <= 0 THEN old.gnss ELSE scanned.gnss
          /\ settings'.imu = IF scanned.imu <= 0 THEN old.imu ELSE scanned.imu
      BY <1>1, <1>2, <1>4 DEF Validated, Settings
    <2> QED
      BY <1>2, <1>3, <2>1 DEF OldInv
  <1>5. CASE scanned = old
    BY <1>2, <1>3, <1>5 DEF OldInv
  <1> QED
    BY <1>4, <1>5

\* Each step of the main loop keeps OldInv.
LEMMA MainLoopOldInv ==
  ASSUME TypeOK, OldInv, MainLoop
  PROVE  OldInv'
  <1> USE DEF OldInv, cfgModeVars
  <1>1. CASE TaskInit
    BY <1>1 DEF TaskInit
  <1>2. CASE TaskConfig
    BY <1>2 DEF TaskConfig, sd_fat_cfg_init
  <1>3. CASE ConfigButton
    BY <1>3 DEF ConfigButton
  <1>4. CASE TaskMeasure
    BY <1>4 DEF TaskMeasure
  <1>5. CASE TaskLog
    BY <1>5 DEF TaskLog
  <1>6. CASE btnTaskGest
    BY <1>6 DEF btnTaskGest
  <1>7. CASE TaskInactive
    BY <1>7 DEF TaskInactive
  <1>8. CASE PollMiss
    BY <1>8 DEF PollMiss, Poll
  <1>9. CASE PollShutdown
    BY <1>9 DEF PollShutdown, Poll
  <1>10. CASE PollStop
    BY <1>10 DEF PollStop, Poll
  <1>11. CASE PollDisplay
    BY <1>11 DEF PollDisplay, Poll
  <1>12. CASE PollClear
    BY <1>12 DEF PollClear, Poll
  <1>13. CASE StopConfig
    BY <1>13 DEF StopConfig, sd_fat_cfg_init
  <1>14. CASE StopLog
    BY <1>14 DEF StopLog, appVars
  <1>15. CASE Stopped
    BY <1>15 DEF Stopped, TypeOK, Settings
  <1>16. CASE DisplayOpen
    BY <1>16 DEF DisplayOpen
  <1>17. CASE DisplayRead
    BY <1>17 DEF DisplayRead
  <1>18. CASE DisplayClose
    BY <1>18 DEF DisplayClose
  <1>19. CASE TaskLive
    BY <1>19 DEF TaskLive, startLogging
  <1>20. CASE TaskConfigure
    BY <1>20, TaskConfigurePeriods
  <1>21. CASE ConfigTask
    BY <1>21 DEF ConfigTask
  <1>22. CASE Shutdown
    BY <1>22 DEF Shutdown
  <1>23. CASE ShutdownWait
    BY <1>23 DEF ShutdownWait
  <1>24. CASE ShutdownUnmount
    BY <1>24 DEF ShutdownUnmount
  <1>25. CASE ShutdownOff
    BY <1>25 DEF ShutdownOff
  <1> QED
    BY <1>1, <1>2, <1>3, <1>4, <1>5, <1>6, <1>7, <1>8, <1>9, <1>10, <1>11, <1>12, <1>13, <1>14, <1>15, <1>16, <1>17, <1>18, <1>19, <1>20, <1>21, <1>22, <1>23, <1>24, <1>25 DEF MainLoop

LEMMA OldInvInvariant == Spec => []OldInv
  <1>1. Init => OldInv
    BY DEF Init, OldInv
  <1>2. ASSUME TypeOK, OldInv, [Next]_vars PROVE OldInv'
    <2>1. CASE MainLoop
      BY <1>2, <2>1, MainLoopOldInv
    <2>2. CASE stateTimer_callback \/ stateTimer_trap \/ PressOrRelease \/ Type \/ UNCHANGED vars
      BY <1>2, <2>2 DEF stateTimer_callback, stateTimer_trap, PressOrRelease, Type, OldInv,
                        appVars, cfgModeVars, vars
    <2>3. CASE PowerLoss
      BY <2>3 DEF PowerLoss, OldInv
    <2> QED
      BY <1>2, <2>1, <2>2, <2>3 DEF Next
  <1> QED
    BY <1>1, <1>2, AppTypeOK, PTL DEF Spec

\* A period of zero never gets to be the period of a measure, whatever lines are
\* typed, in whatever pieces they arrive, over all the passes of the mode.
THEOREM PeriodsAreKept == Spec => PeriodsKept
  <1>1. ASSUME TypeOK, OldInv, [Next]_vars
        PROVE  [(pc = "task" /\ state = "CONFIGURATE_BBX" /\ state' # "INIT") =>
                 \A p \in {"gnss", "imu"} : settings'[p] > 0 \/ settings'[p] = settings[p]]_vars
    <2> SUFFICES ASSUME Next, pc = "task", state = "CONFIGURATE_BBX", state' # "INIT"
                 PROVE  \A p \in {"gnss", "imu"} : settings'[p] > 0 \/ settings'[p] = settings[p]
      BY <1>1
    <2>1. CASE MainLoop
      <3>1. TaskConfigure
        BY <2>1 DEF MainLoop, TaskInit, TaskConfig, ConfigButton, TaskMeasure, TaskLog,
             btnTaskGest, TaskInactive, PollMiss, PollShutdown, PollStop, PollDisplay, PollClear,
             Poll, StopConfig, StopLog, Stopped, DisplayOpen, DisplayRead, DisplayClose,
             TaskLive, ConfigTask, Shutdown, ShutdownWait, ShutdownUnmount, ShutdownOff
      <3> QED
        BY <1>1, <3>1, TaskConfigurePeriods
    <2>2. CASE stateTimer_callback \/ stateTimer_trap \/ PressOrRelease \/ Type
      BY <2>2 DEF stateTimer_callback, stateTimer_trap, PressOrRelease, Type, cfgModeVars
    <2>3. ~PowerLoss
      BY DEF PowerLoss
    <2> QED
      BY <2>1, <2>2, <2>3 DEF Next
  <1> QED
    BY <1>1, AppTypeOK, OldInvInvariant, PTL DEF Spec, PeriodsKept

(***************************************************************************)
(* The start: the parameters the recorder runs with come from CONFIG.txt.  *)
(***************************************************************************)
Starting == state \in {"INIT", "CONFIG"}
DefaultText == <<CfgText(Defaults)>>

\* No file is open but CONFIG.txt, for reading.
OnlyReading == \A h \in Handles : InUse(h) => slots[h].file = Config /\ slots[h].mode = "read"

BufferInv ==
  /\ cfg_state \in {"MOUNT_DISK", "SET_CURRENT_DRIVE", "OPEN_READ_CONFIG_FILE",
                    "READ_CONFIG_FILE"} => cfg_data = <<>>
  /\ cfg_data # DefaultText =>
       /\ OnlyReading
       /\ cfg_state \notin {"OPEN_WRITE_CONFIG_FILE", "WRITE_CONFIG_FILE"}
       /\ cfg_state \in {"CLOSE_FILE", "UNMOUNT_DISK"} => cfg_data = card[Config]

\* While the recorder starts, the text buffer is empty until CONFIG.txt was read and
\* then holds what the file holds, unless it holds the defaults that replace it.
BootInv == Starting =>
  /\ pc \in {"task", "configButton", "trap"}
  /\ pc # "trap" => cfg_state \notin {"IDLE", "ERROR"}
  /\ BufferInv

\* A text is the text of one set of parameters only.
LEMMA CfgTextInjective == \A s, t : <<CfgText(s)>> = <<CfgText(t)>> => s = t
  <1> SUFFICES ASSUME NEW s, NEW t, <<CfgText(s)>> = <<CfgText(t)>> PROVE s = t
    OBVIOUS
  <1>1. CfgText(s) = CfgText(t)
    OBVIOUS
  <1>2. CfgText(s).cfg = s /\ CfgText(t).cfg = t
    BY DEF CfgText
  <1> QED
    BY <1>1, <1>2

\* Closing a file that was only read leaves the card as it is, whether it fails or not.
LEMMA CloseWhileReading ==
  ASSUME FsTypeOK, OnlyReading, NEW stored, NEW h, CloseAs(stored, h)
  PROVE  OnlyReading' /\ card' = card
  <1>1. CASE InUse(h)
    <2>1. h \in Handles /\ slots[h].mode = "read"
      BY <1>1 DEF InUse, OnlyReading
    <2>2. Truncated = card
      <3>1. \A k \in Handles : slots[k].file \in Files => slots[k].mode = "read"
        BY DEF OnlyReading, InUse, Files, LogFiles, Config, NoFile
      <3>2. \A f \in Files : Truncated[f] = card[f]
        BY <3>1 DEF Truncated
      <3> QED
        BY <3>2 DEF Truncated, FsTypeOK
    <2>3. [f \in Files |-> Stored(h, f)] = card
      <3>1. \A f \in Files : Stored(h, f) = card[f]
        BY <2>1 DEF Stored
      <3> QED
        BY <3>1 DEF FsTypeOK
    <2>4. OnlyReading'
      BY <1>1, <2>1 DEF CloseAs, OnlyReading, InUse, FreeSlot, NoFile, FsTypeOK
    <2> QED
      BY <1>1, <2>2, <2>3, <2>4 DEF CloseAs
  <1>2. CASE ~InUse(h)
    BY <1>2 DEF CloseAs, OnlyReading, InUse
  <1> QED
    BY <1>1, <1>2

\* Opening CONFIG.txt to read it is the only opening.
LEMMA OpenReadWhileReading ==
  ASSUME FsTypeOK, OnlyReading, NEW ok \in BOOLEAN, FileOpen(ok, Config, "read")
  PROVE  OnlyReading' /\ card' = card
  <1>1. CASE ok
    <2>1. FirstFree \in Handles
      BY <1>1, FirstFreeIsFree DEF FileOpen, Result, FreeHandles
    <2>2. \A h \in Handles : slots'[h] = IF h = FirstFree
                                         THEN [file |-> Config, mode |-> "read", buf |-> <<>>]
                                         ELSE slots[h]
      BY <1>1, <2>1 DEF FileOpen, FsTypeOK
    <2> QED
      BY <2>2 DEF FileOpen, OnlyReading, InUse
  <1>2. CASE ~ok
    BY <1>2 DEF FileOpen, OnlyReading, InUse
  <1> QED
    BY <1>1, <1>2

\* An unmount adds no open file.
LEMMA UnmountWhileReading ==
  ASSUME FsTypeOK, OnlyReading, NEW ok \in BOOLEAN, Unmount(ok)
  PROVE  OnlyReading' /\ (~ok => card' = card)
  <1>1. ASSUME NEW h \in Handles
        PROVE  \/ slots'[h] = FreeSlot
               \/ slots'[h].file = slots[h].file /\ slots'[h].mode = slots[h].mode
    <2>1. slots[h] \in Slots
      BY DEF FsTypeOK
    <2>2. \/ slots'[h] = FreeSlot
          \/ slots'[h] = IF ok THEN [slots[h] EXCEPT !.buf = <<>>] ELSE slots[h]
      BY DEF Unmount
    <2> QED
      BY <2>1, <2>2 DEF Slots
  <1> QED
    BY <1>1 DEF Unmount, OnlyReading, InUse, FreeSlot

\* A step of the configuration machine while the recorder starts.
LEMMA ConfigTaskBoot ==
  ASSUME TypeOK, BootInv, state = "CONFIG", pc # "trap", sd_fat_config_task(TRUE)
  PROVE  /\ BufferInv'
         /\ cfg_state' = "IDLE" => cfg_state = "UNMOUNT_DISK" /\ cfg_data' = cfg_data
  <1> USE DEF BootInv, BufferInv, Starting
  <1>0. FsTypeOK
    BY TypeParts
  <1>1. CASE CfgMountDisk
    BY <1>1 DEF CfgMountDisk, Mount, OnlyReading, InUse
  <1>2. CASE CfgSetCurrentDrive(TRUE)
    BY <1>2 DEF CfgSetCurrentDrive, CurrentDriveSet, OnlyReading, InUse
  <1>3. CASE CfgOpenRead
    <2>1. PICK ok \in BOOLEAN :
            /\ FileOpen(ok, Config, "read")
            /\ IF ok
               THEN cfg_state' = "READ_CONFIG_FILE" /\ UNCHANGED cfg_data
               ELSE cfg_state' = "OPEN_WRITE_CONFIG_FILE" /\ cfg_data' = DefaultText
      BY <1>3 DEF CfgOpenRead, DefaultText
    <2> QED
      BY <1>0, <1>3, <2>1, OpenReadWhileReading DEF CfgOpenRead
  <1>4. CASE CfgRead
    <2>0. cfg_state = "READ_CONFIG_FILE" /\ cfg_data = <<>> /\ cfg_data # DefaultText
      BY <1>4 DEF CfgRead, DefaultText
    <2>1. ASSUME FileRead(TRUE, fileCfgHandle)
          PROVE  /\ OnlyReading' /\ card' = card
                 /\ FileContent(fileCfgHandle) = card[Config]
      <3>1. InUse(fileCfgHandle)
        BY <2>1 DEF FileRead, Result
      <3>2. slots[fileCfgHandle].file = Config /\ OnlyReading
        BY <2>0, <3>1 DEF OnlyReading, InUse
      <3>3. FileContent(fileCfgHandle) = card[Config]
        BY <3>2 DEF FileContent, Files
      <3> QED
        BY <2>1, <3>2, <3>3 DEF FileRead, OnlyReading, InUse
    <2>2. ASSUME FailAndClose(mounted /\ InUse(fileCfgHandle), fileCfgHandle)
          PROVE  OnlyReading'
      BY <1>0, <2>0, <2>2, CloseWhileReading DEF FailAndClose
    <2> QED
      BY <1>4, <2>0, <2>1, <2>2 DEF CfgRead
  <1>5. CASE CfgOpenWrite
    BY <1>5 DEF CfgOpenWrite
  <1>6. CASE CfgWrite
    BY <1>6 DEF CfgWrite
  <1>7. CASE CfgClose(TRUE)
    <2>1. cfg_data # DefaultText => OnlyReading' /\ card' = card
      BY <1>0, <1>7, CloseWhileReading DEF CfgClose, FileClose
    <2> QED
      BY <1>7, <2>1 DEF CfgClose
  <1>8. CASE CfgUnmountDisk
    BY <1>0, <1>8, UnmountWhileReading DEF CfgUnmountDisk
  <1>9. CASE CfgRest
    BY <1>9 DEF CfgRest
  <1> QED
    BY <1>1, <1>2, <1>3, <1>4, <1>5, <1>6, <1>7, <1>8, <1>9 DEF sd_fat_config_task

\* No other step of the main loop is taken while the recorder starts.
LEMMA StartingSteps ==
  ASSUME BootInv, MainLoop, Starting \/ Starting'
  PROVE  /\ TaskInit \/ TaskConfig \/ ConfigButton
         /\ Starting
  BY DEF BootInv, Starting, MainLoop, TaskInit, TaskConfig, ConfigButton, TaskMeasure, TaskLog,
         btnTaskGest, TaskInactive, PollMiss, PollShutdown, PollStop, PollDisplay, PollClear,
         Poll, StopConfig, sd_fat_cfg_init, StopLog, appVars, Stopped, DisplayOpen, DisplayRead,
         DisplayClose, TaskLive, startLogging, TaskConfigure, ConfigTask, Shutdown, ShutdownWait,
         ShutdownUnmount, ShutdownOff

\* What the invariant looks at.
bootVars == <<state, pc, cfg_state, cfg_data, slots, card>>

LEMMA MainLoopBootInv ==
  ASSUME TypeOK, BootInv, MainLoop
  PROVE  BootInv'
  <1> SUFFICES ASSUME Starting' PROVE BootInv'
    BY DEF BootInv
  <1>1. CASE TaskInit
    BY <1>1 DEF TaskInit, BootInv, BufferInv, Starting, OnlyReading, InUse, sdVars, cfgVars, fsVars
  <1>2. CASE TaskConfig
    <2>1. /\ sd_fat_cfg_init("configButton") /\ sd_fat_config_task(TRUE)
          /\ state = "CONFIG" /\ pc = "task"
      BY <1>2 DEF TaskConfig, sd_fat_cfg_init
    <2>2. /\ pc' \in {"configButton", "trap"}
          /\ pc' # "trap" => cfg_state' \notin {"IDLE", "ERROR"}
      BY <2>1 DEF sd_fat_cfg_init, Starting
    <2>3. BufferInv'
      BY <2>1, ConfigTaskBoot
    <2> QED
      BY <2>2, <2>3 DEF BootInv
  <1>3. CASE ConfigButton
    BY <1>3 DEF ConfigButton, BootInv, BufferInv, Starting, OnlyReading, InUse, sdVars, cfgVars, fsVars
  <1> QED
    BY <1>1, <1>2, <1>3, StartingSteps

LEMMA BootInvInvariant == Spec => []BootInv
  <1>1. Init => BootInv
    BY DEF Init, InitSdRam, BootInv, BufferInv, Starting, OnlyReading, InUse, FreeSlot
  <1>2. ASSUME TypeOK, BootInv, [Next]_vars PROVE BootInv'
    <2>1. CASE MainLoop
      BY <1>2, <2>1, MainLoopBootInv
    <2>2. CASE stateTimer_callback \/ PressOrRelease \/ Type \/ UNCHANGED vars
      <3>1. UNCHANGED bootVars
        BY <2>2 DEF stateTimer_callback, PressOrRelease, Type, vars, appVars, sdVars,
                    cfgVars, fsVars, bootVars
      <3> QED
        BY <1>2, <3>1 DEF BootInv, BufferInv, Starting, OnlyReading, InUse, bootVars
    <2>3. CASE stateTimer_trap
      BY <1>2, <2>3 DEF stateTimer_trap, BootInv, BufferInv, Starting, OnlyReading, InUse, sdVars,
                        cfgVars, fsVars
    <2>4. CASE PowerLoss
      BY <2>4 DEF PowerLoss, SdPowerLoss, BootInv, BufferInv, Starting, OnlyReading, InUse, FreeSlot
    <2> QED
      BY <1>2, <2>1, <2>2, <2>3, <2>4 DEF Next
  <1> QED
    BY <1>1, <1>2, AppTypeOK, PTL DEF Spec

\* The recorder starts with the parameters of CONFIG.txt, or with the defaults,
\* however often the power fails and whichever call of the file system fails.
THEOREM BootSettingsAreKept == Spec => BootSettings
  <1> DEFINE Expected ==
        IF /\ cfg_state' = "IDLE" /\ cfg_data # DefaultText
           /\ \E s \in Settings : card[Config] = <<CfgText(s)>>
        THEN CHOOSE s \in Settings : card[Config] = <<CfgText(s)>>
        ELSE Defaults
  <1>1. ASSUME TypeOK, BootInv, Next, state = "CONFIG", state' = "LOGGING"
        PROVE  settings' = Expected
    <2>1. MainLoop
      BY <1>1 DEF Next, stateTimer_callback, stateTimer_trap, PressOrRelease, Type,
                  PowerLoss, appVars
    <2>2. TaskConfig
      BY <1>1, <2>1, StartingSteps DEF TaskInit, ConfigButton, Starting
    <2>3. /\ sd_fat_config_task(TRUE) /\ pc = "task"
          /\ cfg_state' \in {"IDLE", "ERROR"}
          /\ settings' = IF cfg_state' = "ERROR" \/ (cfg_state' = "IDLE" /\ ParseError')
                         THEN Defaults ELSE CHOOSE s \in Settings : Parsed(s)'
      BY <1>1, <2>2 DEF TaskConfig, sd_fat_cfg_init
    <2>4. CASE cfg_state' = "ERROR"
      BY <2>3, <2>4
    <2>5. CASE cfg_state' = "IDLE"
      <3>1. cfg_state = "UNMOUNT_DISK" /\ cfg_data' = cfg_data
        BY <1>1, <2>3, <2>5, ConfigTaskBoot
      <3>2. settings' = IF \E s \in Settings : cfg_data = <<CfgText(s)>>
                        THEN CHOOSE s \in Settings : cfg_data = <<CfgText(s)>>
                        ELSE Defaults
        BY <2>3, <2>5, <3>1 DEF ParseError, Parsed
      <3>3. CASE cfg_data = DefaultText
        <4>1. \A s \in Settings : cfg_data = <<CfgText(s)>> => s = Defaults
          BY <3>3, CfgTextInjective DEF DefaultText
        <4> QED
          BY <3>2, <3>3, <4>1
      <3>4. CASE cfg_data # DefaultText
        <4>1. cfg_data = card[Config]
          BY <1>1, <3>1, <3>4 DEF BootInv, BufferInv, Starting
        <4> QED
          BY <2>5, <3>2, <3>4, <4>1
      <3> QED
        BY <3>3, <3>4
    <2> QED
      BY <2>3, <2>4, <2>5
  <1>2. TypeOK /\ BootInv /\ [Next]_vars =>
          [(state = "CONFIG" /\ state' = "LOGGING") => settings' = Expected]_vars
    BY <1>1
  <1> QED
    BY <1>2, AppTypeOK, BootInvInvariant, PTL DEF Spec, BootSettings, DefaultText

(***************************************************************************)
(* The shutdown: nothing is lost when the power is let go.                 *)
(***************************************************************************)
ShutdownSteps == {"shutdownWait", "shutdownUnmount", "shutdownOff"}

\* The log is saved: nothing to write, and the volume is not mounted.
Saved == log_state = "MOUNT_DISK" \/ (log_state \in {"IDLE", "UNMOUNT_DISK"} /\ ~mounted)

\* How the shutdown goes, step by step.  What makes LogsSavedAtPowerOff inductive
\* is that nothing but the shutdown runs once the power was let go.
PowerInv ==
  /\ pc \in ShutdownSteps => state = "SHUTDOWN"
  /\ pc = "shutdownUnmount" => log_state = "UNMOUNT_DISK" \/ (log_state = "IDLE" /\ ~mounted)
  /\ pc = "shutdownOff" => Saved
  /\ ~powerHold => /\ state = "SHUTDOWN"
                   /\ pc \in ShutdownSteps \cup {"task", "trap"}
                   /\ pc = "shutdownWait" => log_state # "MOUNT_DISK"
                   /\ Saved

\* A step of the main loop that is no part of the shutdown is taken only while the
\* power is held, and leaves the invariant true.
LEMMA WhilePowered ==
  ASSUME PowerInv, UNCHANGED powerHold, pc' \notin ShutdownSteps,
         \/ pc \notin ShutdownSteps \cup {"task", "trap"}
         \/ state # "SHUTDOWN"
  PROVE  PowerInv'
  BY DEF PowerInv, ShutdownSteps

\* The next command, or the end of the call, is no step of the shutdown.
LEMMA NextCommandStep == NextCommand => pc' \notin ShutdownSteps
  BY DEF NextCommand, ShutdownSteps

\* Nor is what follows a step of sd_fat_cfg_init.
LEMMA CfgInitStep ==
  ASSUME NEW next, next \notin ShutdownSteps, sd_fat_cfg_init(next)
  PROVE  pc' \notin ShutdownSteps
  BY DEF sd_fat_cfg_init, ShutdownSteps

\* One step of the logging machine while the log is saved, or is being unmounted.
LEMMA LoggingTaskStep ==
  ASSUME sd_fat_logging_task
  PROVE  /\ log_state = "UNMOUNT_DISK" =>
              log_state' = "UNMOUNT_DISK" \/ (log_state' = "IDLE" /\ ~mounted')
         /\ log_state = "UNMOUNT_DISK" /\ ~mounted =>
              log_state' \in {"IDLE", "UNMOUNT_DISK"} /\ ~mounted'
         /\ log_state = "IDLE" => log_state' = "IDLE" /\ mounted' = mounted
  <1>1. CASE log_state = "UNMOUNT_DISK"
    <2>1. PICK ok \in BOOLEAN :
            /\ Unmount(ok)
            /\ log_state' = IF ok THEN "IDLE" ELSE "UNMOUNT_DISK"
      BY <1>1 DEF sd_fat_logging_task, LogMountDisk, LogSetCurrentDrive, LogOpen,
                  LogWrite, LogClose, LogUnmountDisk, LogRest
    <2>2. (ok => mounted) /\ mounted' = (mounted /\ ~ok)
      BY <2>1 DEF Unmount, Result
    <2> QED
      BY <1>1, <2>1, <2>2
  <1>2. CASE log_state = "IDLE"
    BY <1>2 DEF sd_fat_logging_task, LogMountDisk, LogSetCurrentDrive, LogOpen,
                LogWrite, LogClose, LogUnmountDisk, LogRest, logVars, fsVars
  <1> QED
    BY <1>1, <1>2

\* The system starts with its power held, no shutdown under way.
LEMMA InitPowerInv == Init => PowerInv
  BY DEF Init, PowerInv, ShutdownSteps

\* Each step of the main loop preserves the invariant.
LEMMA MainLoopPowerInv ==
  ASSUME PowerInv, MainLoop
  PROVE  PowerInv'
  <1>1. CASE TaskInit
    BY <1>1, WhilePowered DEF TaskInit, ShutdownSteps
  <1>2. CASE TaskConfig
    BY <1>2, WhilePowered, CfgInitStep DEF TaskConfig, ShutdownSteps
  <1>3. CASE ConfigButton
    BY <1>3, WhilePowered DEF ConfigButton, ShutdownSteps
  <1>4. CASE TaskMeasure
    BY <1>4, WhilePowered DEF TaskMeasure, ShutdownSteps
  <1>5. CASE TaskLog
    BY <1>5, WhilePowered DEF TaskLog, ShutdownSteps
  <1>6. CASE btnTaskGest
    BY <1>6, WhilePowered DEF btnTaskGest, ShutdownSteps
  <1>7. CASE TaskInactive
    BY <1>7, WhilePowered DEF TaskInactive, ShutdownSteps
  <1>8. CASE PollMiss
    BY <1>8, WhilePowered, NextCommandStep DEF PollMiss, Poll, ShutdownSteps
  <1>9. CASE PollShutdown
    BY <1>9, WhilePowered, NextCommandStep DEF PollShutdown, Poll, ShutdownSteps
  <1>10. CASE PollStop
    BY <1>10, WhilePowered DEF PollStop, Poll, ShutdownSteps
  <1>11. CASE PollDisplay
    BY <1>11, WhilePowered DEF PollDisplay, Poll, ShutdownSteps
  <1>12. CASE PollClear
    BY <1>12, WhilePowered, NextCommandStep DEF PollClear, Poll, ShutdownSteps
  <1>13. CASE StopConfig
    BY <1>13, WhilePowered, CfgInitStep DEF StopConfig, ShutdownSteps
  <1>14. CASE StopLog
    BY <1>14, WhilePowered DEF StopLog, ShutdownSteps, appVars
  <1>15. CASE Stopped
    BY <1>15, WhilePowered, NextCommandStep DEF Stopped, ShutdownSteps
  <1>16. CASE DisplayOpen
    BY <1>16, WhilePowered DEF DisplayOpen, ShutdownSteps
  <1>17. CASE DisplayRead
    BY <1>17, WhilePowered DEF DisplayRead, ShutdownSteps
  <1>18. CASE DisplayClose
    BY <1>18, WhilePowered, NextCommandStep DEF DisplayClose, ShutdownSteps
  <1>19. CASE TaskLive
    BY <1>19, WhilePowered DEF TaskLive, ShutdownSteps
  <1>20. CASE TaskConfigure
    BY <1>20, WhilePowered DEF TaskConfigure, ShutdownSteps
  <1>21. CASE ConfigTask
    BY <1>21, WhilePowered DEF ConfigTask, ShutdownSteps
  <1>22. CASE Shutdown
    BY <1>22 DEF Shutdown, PowerInv, Saved, ShutdownSteps, sdVars, logVars, fsVars
  <1>23. CASE ShutdownWait
    <2>1. CASE log_state = "IDLE"
      BY <1>23, <2>1 DEF ShutdownWait, PowerInv, Saved, ShutdownSteps, fsVars
    <2>2. CASE log_state # "IDLE"
      <3>1. sd_fat_logging_task /\ pc' = pc /\ pc = "shutdownWait"
            /\ state' = state /\ powerHold' = powerHold
        BY <1>23, <2>2 DEF ShutdownWait
      <3> QED
        BY <3>1, <2>2, LoggingTaskStep DEF PowerInv, Saved, ShutdownSteps
    <2> QED
      BY <2>1, <2>2
  <1>24. CASE ShutdownUnmount
    <2>1. CASE log_state = "IDLE"
      BY <1>24, <2>1 DEF ShutdownUnmount, PowerInv, Saved, ShutdownSteps, logVars, fsVars
    <2>2. CASE log_state # "IDLE"
      <3>1. sd_fat_logging_task /\ pc' = pc /\ pc = "shutdownUnmount"
            /\ state' = state /\ powerHold' = powerHold
        BY <1>24, <2>2 DEF ShutdownUnmount
      <3> QED
        BY <3>1, <2>2, LoggingTaskStep DEF PowerInv, Saved, ShutdownSteps
    <2> QED
      BY <2>1, <2>2
  <1>25. CASE ShutdownOff
    BY <1>25 DEF ShutdownOff, PowerInv, Saved, ShutdownSteps, sdVars, logVars, fsVars
  <1> QED
    BY <1>1, <1>2, <1>3, <1>4, <1>5, <1>6, <1>7, <1>8, <1>9, <1>10, <1>11, <1>12,
       <1>13, <1>14, <1>15, <1>16, <1>17, <1>18, <1>19, <1>20, <1>21, <1>22, <1>23,
       <1>24, <1>25 DEF MainLoop

\* So does each step of the interrupt, the user and the power supply.
LEMMA EnvironmentPowerInv ==
  ASSUME PowerInv,
         stateTimer_callback \/ stateTimer_trap \/ PressOrRelease \/ Type \/ PowerLoss
  PROVE  PowerInv'
  <1>1. CASE stateTimer_callback
    BY <1>1 DEF stateTimer_callback, PowerInv, Saved, appVars, sdVars, logVars, fsVars
  <1>2. CASE stateTimer_trap
    BY <1>2 DEF stateTimer_trap, PowerInv, Saved, ShutdownSteps, sdVars, logVars, fsVars
  <1>3. CASE PressOrRelease
    BY <1>3 DEF PressOrRelease, PowerInv, Saved, appVars, sdVars, logVars, fsVars
  <1>4. CASE Type
    BY <1>4 DEF Type, PowerInv, Saved, appVars, sdVars, logVars, fsVars
  <1>5. CASE PowerLoss
    BY <1>5 DEF PowerLoss, PowerInv, ShutdownSteps
  <1> QED
    BY <1>1, <1>2, <1>3, <1>4, <1>5

LEMMA PowerInvInvariant == Spec => []PowerInv
  <1>1. ASSUME PowerInv, [Next]_vars PROVE PowerInv'
    <2>1. CASE Next
      BY <1>1, <2>1, MainLoopPowerInv, EnvironmentPowerInv DEF Next
    <2>2. CASE UNCHANGED vars
      BY <1>1, <2>2 DEF vars, PowerInv, Saved, appVars, sdVars, logVars, fsVars
    <2> QED
      BY <1>1, <2>1, <2>2
  <1> QED
    BY InitPowerInv, <1>1, PTL DEF Spec

\* When the power is let go no record is left to write and the volume that the
\* logging machine mounted is unmounted, whatever the user typed, whatever failed.
THEOREM PowerOffIsSafe == Spec => []LogsSavedAtPowerOff
  <1>1. PowerInv => LogsSavedAtPowerOff
    BY DEF PowerInv, Saved, LogsSavedAtPowerOff
  <1> QED
    BY <1>1, PowerInvInvariant, PTL

=============================================================================
