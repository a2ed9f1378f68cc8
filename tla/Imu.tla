-------------------------------- MODULE Imu --------------------------------
(***************************************************************************)
(* The program over the driver of the inertial unit: how app.c and         *)
(* bno055_support.c call it from the start to the release of the power,    *)
(* one call of the driver per step, while transfers may fail.  The program *)
(* looks at a result only to light a LED: what follows a failure goes on.  *)
(***************************************************************************)
EXTENDS Bno055

CONSTANTS MaxFaults, MaxStarts   \* bounds: failed transfers, starts

ASSUME ImuAssumption ==
  /\ MaxFaults \in Nat /\ MaxStarts \in Nat \ {0}
  /\ {<<0, 62>>, <<1, 15>>, <<1, 16>>, <<1, 17>>, <<1, 18>>} \subseteq Registers

VARIABLES
  unit,     \* the driver and the sensor
  state,    \* the state of the application
  routine,  \* the calls the application has yet to make there
  comres,   \* no call of the routine has reported an error
  good,     \* nor has any call since the driver was bound
  ready,    \* nor had any when the application began to log
  samples,  \* what bno055_read_routine has measured so far
  starts    \* how many times the program was started

vars == <<unit, state, routine, comres, good, ready, samples, starts>>

(***************************************************************************)
(* The calls of each routine, in their order.                              *)
(***************************************************************************)
SetTo(f, v) == [op |-> "set", f |-> f, v |-> v]
OperationMode(mode) == [op |-> "mode", v |-> mode]
ReadOf(d) == [op |-> "read", d |-> d]
ConvertTo(c) == [op |-> "convert", c |-> c]

ResetInterrupt == <<SetTo(intr_rst, 1)>>

msq == 0
mg == 1

bno055_init_readout == <<
  [op |-> "init"],
  SetTo(power_mode, POWER_MODE_NORMAL),
  OperationMode(OPERATION_MODE_AMG),
  ReadOf(accel_xyz), ReadOf(mag_xyz), ReadOf(gyro_xyz),
  OperationMode(OPERATION_MODE_NDOF),
  ReadOf(euler_hrp), ReadOf(quaternion_wxyz), ReadOf(linear_accel_xyz), ReadOf(gravity_xyz),
  ConvertTo(Converted(accel_xyz, accel_unit, msq)),
  ConvertTo(Converted(accel_xyz, accel_unit, mg)),
  ConvertTo(AsRead(mag_xyz)),
  ConvertTo(Converted(gyro_xyz, gyro_unit, 0)),
  ConvertTo(Converted(euler_h, euler_unit, 0)),
  ConvertTo(Converted(euler_r, euler_unit, 0)),
  ConvertTo(Converted(euler_p, euler_unit, 0)),
  ConvertTo(Converted(euler_hrp, euler_unit, 0)),
  ConvertTo(AsRead(linear_accel_xyz)),
  ConvertTo(AsRead(gravity_xyz)),
  OperationMode(OPERATION_MODE_NDOF)>>

MotionInterrupt == <<
  SetTo(accel_any_motion_no_motion_axis_enable(0), 1),
  SetTo(accel_any_motion_no_motion_axis_enable(1), 1),
  SetTo(accel_any_motion_no_motion_axis_enable(2), 1),
  SetTo(accel_any_motion_durn, 1),
  SetTo(accel_any_motion_thres, 25),
  SetTo(intr_accel_any_motion, 1),
  SetTo(intr_mask_accel_any_motion, 1),
  SetTo(intr_accel_no_motion, 0)>>

bno055_read_routine == <<
  ReadOf(quaternion_wxyz),
  ConvertTo(AsRead(mag_xyz)),
  ConvertTo(Converted(gyro_xyz, gyro_unit, 0)),
  ConvertTo(Converted(euler_hrp, euler_unit, 0)),
  ConvertTo(AsRead(linear_accel_xyz)),
  ConvertTo(AsRead(gravity_xyz))>>

\* Variant: the mode is left as it is.
sys_shutdown_KeepsMode == <<
  SetTo(power_mode, POWER_MODE_LOWPOWER),
  SetTo(intr_accel_no_motion, 0),
  SetTo(intr_rst, 1)>>

sys_shutdown == <<
  OperationMode(OPERATION_MODE_ACCONLY),
  SetTo(power_mode, POWER_MODE_LOWPOWER),
  SetTo(intr_accel_no_motion, 0),
  SetTo(intr_rst, 1)>>

Outcomes(s, c) ==
  CASE c.op = "init"    -> init(s)
    [] c.op = "set"     -> Set(s, c.f, c.v)
    [] c.op = "mode"    -> set_operation_mode(s, c.v)
    [] c.op = "read"    -> ReadData(s, c.d)
    [] c.op = "convert" -> Convert(s, c.c)

(***************************************************************************)
(* The application.                                                        *)
(***************************************************************************)
\* One call; what it reports is added to comres.
Call ==
  /\ routine # <<>>
  /\ \E o \in Outcomes(unit, Head(routine)) :
       /\ unit' = o.s
       /\ comres' = (comres /\ o.ok)
       /\ good' = (state = "START" \/ (good /\ o.ok))
       /\ samples' = IF state = "MEASURE"
                     THEN Append(samples, IF o.ok THEN o.data ELSE NoSample) ELSE samples
  /\ routine' = Tail(routine)
  /\ UNCHANGED <<state, ready, starts>>

Go(next, calls) ==
  /\ state' = next
  /\ routine' = calls
  /\ comres' = TRUE
  /\ samples' = <<>>
  /\ UNCHANGED <<unit, good, starts>>

Enter(next, calls) == Go(next, calls) /\ UNCHANGED ready

\* APP_Initialize resets the interrupt before the driver is bound: nothing is sent.
TaskInit == state = "START" /\ Enter("INIT", bno055_init_readout \o MotionInterrupt)
TaskConfig == state \in {"INIT", "CONFIG"} /\ Enter("CONFIG", ResetInterrupt)

\* Once the parameters are read the application logs, or measures live.
StartLogging == state = "CONFIG" /\ Go("LOGGING", <<>>) /\ ready' = good
Measure == state = "LOGGING" /\ Enter("MEASURE", bno055_read_routine)
MeasureDone == state = "MEASURE" /\ Enter("LOGGING", <<>>)
Shutdown == state \in {"CONFIG", "LOGGING"} /\ Enter("SHUTDOWN", sys_shutdown)

\* The power is released; with the button pressed the loop shuts down once more.
PowerOff == state = "SHUTDOWN" /\ Enter("OFF", <<>>)
ShutdownAgain == state = "OFF" /\ Enter("SHUTDOWN", sys_shutdown)

\* The program starts again; its driver is not bound, and its reset pin resets the sensor.
APP_Initialize(s) == [Reset(s) EXCEPT !.page_id = 0, !.null = TRUE]

\* The power may fail, or the processor be reset, at any call.
Start ==
  /\ starts < MaxStarts
  /\ starts' = starts + 1
  /\ unit' = APP_Initialize(unit)
  /\ state' = "START"
  /\ routine' = ResetInterrupt
  /\ comres' = TRUE /\ good' = TRUE /\ ready' = FALSE
  /\ samples' = <<>>

Init ==
  /\ unit = APP_Initialize([page |-> 0, regs |-> [r \in Registers |-> 0], page_id |-> 0, null |-> TRUE,
                            faults |-> MaxFaults, misread |-> FALSE])
  /\ state = "START"
  /\ routine = ResetInterrupt
  /\ comres = TRUE /\ good = TRUE /\ ready = FALSE
  /\ samples = <<>>
  /\ starts = 1

Next ==
  \/ Call
  \/ /\ routine = <<>>
     /\ TaskInit \/ TaskConfig \/ StartLogging \/ Measure \/ MeasureDone \/ Shutdown \/ PowerOff \/ ShutdownAgain
  \/ Start

Spec == Init /\ [][Next]_vars

-----------------------------------------------------------------------------
TypeOK ==
  /\ unit \in Unit
  /\ state \in {"START", "INIT", "CONFIG", "LOGGING", "MEASURE", "SHUTDOWN", "OFF"}
  /\ {comres, good, ready} \subseteq BOOLEAN
  /\ starts \in 1..MaxStarts

\* A driver that has reported no error knows which page the sensor is on: otherwise a
\* measure would be made of the bytes of the other page, and reported as good.
CacheCoherent == good /\ ~unit.misread /\ ~unit.null => unit.page_id = unit.page

\* What a measure is taken with: fusion mode, page 0, m/s2 replaced by mg (the unit of
\* the acceleration is left at mg by bno055_init_readout), degrees per second, degrees.
Measuring == [taken |-> TRUE, mode |-> OPERATION_MODE_NDOF, units |-> mg]

\* As long as no call has reported an error, every quantity that is logged is one that the
\* sensor has measured, in the fusion mode, in the units the conversions assume.
MeasureIsTrue ==
  state = "MEASURE" /\ good /\ ready /\ ~unit.misread => \A i \in DOMAIN samples : samples[i] = Measuring

\* One failed transfer while measuring does no lasting harm: the sensor is found again in
\* its fusion mode, on the page the driver believes it on, in the same units.
OneFailureIsHarmless ==
  state = "LOGGING" /\ ready /\ ~unit.misread /\ unit.faults >= MaxFaults - 1 =>
    /\ Sample(unit) = Measuring
    /\ unit.page_id = 0

Bit(reg, pos) == Slice(unit.regs[reg], [pos |-> pos, len |-> 1]) = 1

\* When the power is released without an error, the sensor is left measuring accelerations
\* only, in low power, and still able to wake the recorder up at a motion on any axis.
AsleepAtPowerOff ==
  state = "OFF" /\ good /\ ~unit.misread =>
    /\ Mode(unit) = OPERATION_MODE_ACCONLY
    /\ Slice(unit.regs[<<0, 62>>], power_mode) = POWER_MODE_LOWPOWER
    /\ Bit(<<1, 16>>, 6) /\ ~Bit(<<1, 16>>, 7) /\ Bit(<<1, 15>>, 6)
    /\ \A axis \in 0..2 : Bit(<<1, 18>>, 2 + axis)
    /\ unit.regs[<<1, 17>>] = 25
=============================================================================
