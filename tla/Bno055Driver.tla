---------------------------- MODULE Bno055Driver ----------------------------
(***************************************************************************)
(* Any program over the driver of the inertial unit: after bno055_init,    *)
(* any function with any argument, and then one of a few calls that show   *)
(* what the first one has left.  Transfers fail up to MaxFaults times.     *)
(***************************************************************************)
EXTENDS Bno055, Functions

CONSTANTS
  Settings,      \* the settings that are set and got
  ReadOnly,      \* the status fields and measures that are read
  Measures,
  Conversions,
  Starts,        \* the units at the start
  ValuesOf(_),   \* the arguments tried for a setting
  MaxCalls

VARIABLES
  unit,    \* the unit
  call,    \* the last call: the function, the setting and the argument
  ok,      \* its result
  data,    \* what it read
  clean,   \* no call has reported, or masked, an error since bno055_init
  calls    \* how many calls were made (bound)

vars == <<unit, call, ok, data, clean, calls>>

NoField == Status(0, 0, 0)

GyroSetting == {gyro_bw, gyro_power_mode, gyro_auto_sleep_durn}
Probed == {gyro_any_motion_thres, intr_accel_any_motion, accel_unit}

ASSUME DriverAssumption ==
  /\ MaxCalls \in Nat
  /\ \A s \in Starts : s \in Unit /\ TriggerClear(s)
  /\ \A f \in Settings : IsSetting(f) /\ OwnAddress(f)
  /\ \A f \in ReadOnly : IsSlice(f) /\ f.page \in Byte
  /\ \A c \in Conversions :
       /\ IsConversion(c)
       /\ ~c.checked => c.unit = NoField /\ c.wanted = 0
  /\ \A f \in Settings \cup Probed \cup GyroSetting : ValuesOf(f) \subseteq Nat
  /\ \A f \in GyroSetting : Key(f) \in Registers

\* These report the result of a later transfer than one that failed.
MasksErrors == {"gyro_bw", "gyro_power_mode"}

Call(op, f, v, O) ==
  /\ calls < MaxCalls
  /\ calls' = calls + 1
  /\ call' = [op |-> op, f |-> f, v |-> v]
  /\ \E o \in O :
       /\ unit' = o.s
       /\ ok' = o.ok
       /\ data' = o.data
       /\ clean' = /\ o.ok
                   /\ clean \/ op = "init"
                   /\ op \in MasksErrors => o.s.faults = unit.faults

Initialise == unit.null /\ Call("init", NoField, 0, init(unit))

SetSetting(S) ==
  \E f \in S : \E v \in ValuesOf(f) : Call("set", f, v, Set(unit, f, v))

SetMode(modes) ==
  \E m \in modes : Call("mode", operation_mode, m, set_operation_mode(unit, m))

SetAxes == \E v \in {0} \cup REMAP_VALUES : Call("axes", axis_remap_value, v, set_axis_remap_value(unit, v))

SetGyro ==
  \/ \E v \in ValuesOf(gyro_bw) : Call("gyro_bw", gyro_bw, v, set_gyro_bw(unit, v))
  \/ \E v \in ValuesOf(gyro_power_mode) :
       Call("gyro_power_mode", gyro_power_mode, v, set_gyro_power_mode(unit, v))
  \/ \E v \in ValuesOf(gyro_auto_sleep_durn), bw \in 0..7 :
       Call("gyro_auto_sleep", gyro_auto_sleep_durn, v, gyro_set_auto_sleep_durn(unit, v, bw))

Calibrate ==
  \E regs \in {accel_offset, mag_offset, gyro_offset, sic_matrix} :
    Call("calibrate", Status(regs[1], 0, 8), 255, WriteBytes(unit, regs, 255))

GetCalibration ==
  \E regs \in {accel_offset, mag_offset, gyro_offset} :
    Call("calibration", NoField, 0, ReadOffset(unit, regs))

GetSetting(S) == \E f \in S : Call("get", f, 0, Get(unit, f))

Read(S) == \E d \in S : Call("read", NoField, 0, ReadData(unit, d))

ConvertMeasure(S) == \E c \in S : Call("convert", c.unit, c.wanted, Convert(unit, c))

TurnThePage ==
  \/ \E p \in {0, 1} : Call("page", NoField, p, write_page_id(unit, p))
  \/ Call("read_page", NoField, 0, read_page_id(unit))

Init ==
  /\ unit \in Starts
  /\ call = [op |-> "none", f |-> NoField, v |-> 0]
  /\ ok = TRUE /\ data = 0
  /\ clean = FALSE
  /\ calls = 0

AnyCall ==
  \/ SetSetting(Settings)
  \/ SetMode({OPERATION_MODE_CONFIG, OPERATION_MODE_ACCONLY, OPERATION_MODE_NDOF})
  \/ SetAxes
  \/ SetGyro
  \/ Calibrate
  \/ GetCalibration
  \/ GetSetting(Settings \cup ReadOnly)
  \/ Read(Measures)
  \/ ConvertMeasure(Conversions)
  \/ TurnThePage

\* What is called last, to see what the calls before have left.
Probe ==
  \/ GetSetting({accel_unit, gyro_range})
  \/ SetSetting(Probed)
  \/ Read({accel_xyz})

Next ==
  \/ Initialise
  \/ calls < MaxCalls - 1 /\ AnyCall
  \/ calls = MaxCalls - 1 /\ Probe

Spec == Init /\ [][Next]_vars

-----------------------------------------------------------------------------
TypeOK ==
  /\ unit \in Unit
  /\ ok \in BOOLEAN /\ clean \in BOOLEAN
  /\ calls \in 0..MaxCalls

\* As long as no function has reported an error, the driver knows the page: its copy is
\* only trusted (bno055.c "if (p_bno055->page_id != BNO055_PAGE_ZERO)"), never compared.
CacheCoherent == clean /\ ~unit.misread => unit.page_id = unit.page

Calibration(reg) == CHOOSE regs \in {accel_offset, mag_offset, gyro_offset, sic_matrix} : regs[1] = reg

\* What a call that succeeds may make of the registers.
Expected(c, regs) ==
  CASE c.op \in {"set", "mode", "convert"} -> {WithField(regs, c.f, c.v)}
    [] c.op = "axes" -> {WithField(regs, c.f, IF c.v \in REMAP_VALUES THEN c.v ELSE DEFAULT_AXIS)}
    [] c.op = "calibrate" ->
         {[r \in Registers |-> IF r \in {0} \X Range(Calibration(c.f.reg)) THEN c.v ELSE regs[r]]}
    [] c.op = "gyro_auto_sleep" -> {WithField(regs, c.f, v) : v \in c.v..7}
    [] c.op \in {"gyro_bw", "gyro_power_mode"} ->
         {WithField(WithField(regs, c.f, c.v), gyro_auto_sleep_durn, v) : v \in 0..7}
    [] OTHER -> {regs}

Good == clean /\ ok' /\ ~unit'.misread
Faultless == unit'.faults = unit.faults

\* A call that reports success from a driver that has reported no error has done what it
\* says and nothing else: its field has the value, cut to its width, every other bit of
\* both pages is as before, and so is the mode, which had to be left on the way.  Not for
\* a reset, nor for set_gyro_bw and set_gyro_power_mode when a transfer failed: they report
\* the result of a later one, and may succeed with the sensor left in mode 15.
SuccessIsExact ==
  [][Good /\ (call'.op \in MasksErrors => Faultless) /\ call'.f # sys_rst
       => unit'.regs \in Expected(call', unit.regs)]_vars

\* A get or a read that reports success returns what the sensor holds, from the page
\* the function is about, whichever page the calls before have left.
ReadsAreTrue ==
  [][Good => /\ call'.op = "get" /\ <<call'.f.page, call'.f.reg>> \in Registers =>
                  data' = Slice(unit.regs[<<call'.f.page, call'.f.reg>>], call'.f)
             /\ call'.op \in {"read", "convert"} => data'.taken
             /\ call'.op = "convert" /\ call'.f # NoField =>
                  Slice(data'.units, call'.f) = call'.v]_vars

\* A call that fails half-way spoils nothing else, even if the driver does not know the
\* page: the only registers it changes are its own, the mode and the auto sleep of the
\* gyroscope, and each has what it had or what the call would have given it.
FailureIsContained ==
  [][~unit'.misread /\ call'.f # sys_rst
       => \A r \in Registers :
            \/ r = <<0, OPR_MODE>>
            \/ unit'.regs[r] = unit.regs[r]
            \/ \E e \in Expected(call', unit.regs) : unit'.regs[r] = e[r]]_vars

\* A setting of page 1 that succeeds leaves the driver knowing the page, even if it did
\* not know it before, its last page write having been taken without acknowledge.
Resynchronised ==
  [][ok' /\ call'.op = "set" /\ call'.f.config /\ call'.f.page = 1
       => unit'.page_id = unit'.page]_vars

\* In the advanced power mode the auto sleep is never too short for the bandwidth,
\* whichever of the two was set last.
AutoSleepFits ==
  [][Good /\ Faultless /\ call'.op \in {"gyro_bw", "gyro_power_mode"}
       => LET now(f) == Slice(unit'.regs[<<f.page, f.reg>>], f)
          IN  now(gyro_power_mode) = GYRO_POWER_MODE_ADVANCE_POWERSAVE =>
                now(gyro_auto_sleep_durn) >= MinimumAutoSleep(now(gyro_bw))]_vars

\* bno055.c "set the operation mode of previous operation mode": a setting leaves the
\* sensor in the mode it was in, or at worst in the one it had to enter.
PreviousModeRestored ==
  [][call'.op = "set" => Mode(unit') \in {Mode(unit), OPERATION_MODE_CONFIG}]_vars
=============================================================================
