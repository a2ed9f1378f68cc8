----------------------------- MODULE ImuProofs -----------------------------
(***************************************************************************)
(* Proofs about the program over the driver of the inertial unit, for any  *)
(* number of failed transfers and of starts.                               *)
(*                                                                         *)
(* A goal <<f, v>> says that the slice f of a register is to be v.  The    *)
(* routines of the program are what brings the sensor to its goals: the    *)
(* invariant says, at each call, that a goal holds and is spared by the    *)
(* calls that are left, or that one of these makes it and those after it   *)
(* spare it.                                                               *)
(***************************************************************************)
EXTENDS Imu, Bno055Proofs

Settings == {intr_rst, power_mode, accel_any_motion_durn, accel_any_motion_thres,
  intr_accel_any_motion, intr_mask_accel_any_motion, intr_accel_no_motion} \cup
  {accel_any_motion_no_motion_axis_enable(axis) : axis \in 0..2}

Measures == {accel_xyz, mag_xyz, gyro_xyz, euler_hrp, euler_h, euler_r, euler_p,
  quaternion_wxyz, linear_accel_xyz, gravity_xyz}

Units == {accel_unit, gyro_unit, euler_unit}

\* The calls the program makes, and those it makes to measure.
Calls ==
  {[op |-> "init"]} \cup
  {SetTo(f, v) : f \in Settings, v \in 0..25} \cup
  {OperationMode(mode) : mode \in 0..12} \cup
  {ReadOf(d) : d \in Measures} \cup
  {ConvertTo(AsRead(d)) : d \in Measures} \cup
  {ConvertTo(Converted(d, u, w)) : d \in Measures, u \in Units, w \in {0, 1}}

MeasureCalls ==
  {ReadOf(d) : d \in Measures} \cup
  {ConvertTo(AsRead(d)) : d \in Measures} \cup
  {ConvertTo(Converted(d, u, 0)) : d \in Measures, u \in {gyro_unit, euler_unit}}

\* The setting that a call makes, and what it makes of the registers.
Sets(c) == c.op \in {"set", "mode"} \/ (c.op = "convert" /\ c.c.checked)
Target(c) == CASE c.op = "set" -> c.f [] c.op = "mode" -> operation_mode [] OTHER -> c.c.unit
Value(c) == IF c.op = "convert" THEN c.c.wanted ELSE c.v
Effect(c, regs) == IF Sets(c) THEN WithField(regs, Target(c), Value(c)) ELSE regs

\* A goal, the calls that spare it and those that make it.
Apart(f, g) == Key(f) # Key(g) \/ f.pos + f.len <= g.pos \/ g.pos + g.len <= f.pos
Holds(f, v, regs) == Slice(regs[Key(f)], f) = v
Makes(c, f, v) == Sets(c) /\ Target(c) = f /\ Value(c) = v
Spares(c, f, v) == Makes(c, f, v) \/ (Sets(c) => Apart(Target(c), f))
Will(f, v, regs, calls) ==
  \/ Holds(f, v, regs) /\ \A i \in DOMAIN calls : Spares(calls[i], f, v)
  \/ \E i \in DOMAIN calls : /\ Makes(calls[i], f, v)
                             /\ \A j \in DOMAIN calls : j > i => Spares(calls[j], f, v)

IsGoal(f, v) == IsSlice(f) /\ Key(f) \in Registers /\ v \in Nat /\ v % 2^f.len = v

-----------------------------------------------------------------------------
(* The settings of the program. *)
LEMMA SettingsFields ==
  /\ intr_rst = [page |-> 0, reg |-> 63, pos |-> 6, len |-> 1, limit |-> 256, config |-> FALSE]
  /\ power_mode = [page |-> 0, reg |-> 62, pos |-> 0, len |-> 2, limit |-> 256, config |-> TRUE]
  /\ accel_any_motion_durn = [page |-> 1, reg |-> 18, pos |-> 0, len |-> 2, limit |-> 256, config |-> TRUE]
  /\ accel_any_motion_thres = [page |-> 1, reg |-> 17, pos |-> 0, len |-> 8, limit |-> 256, config |-> TRUE]
  /\ intr_accel_any_motion = [page |-> 1, reg |-> 16, pos |-> 6, len |-> 1, limit |-> 256, config |-> FALSE]
  /\ intr_mask_accel_any_motion = [page |-> 1, reg |-> 15, pos |-> 6, len |-> 1, limit |-> 256, config |-> FALSE]
  /\ intr_accel_no_motion = [page |-> 1, reg |-> 16, pos |-> 7, len |-> 1, limit |-> 256, config |-> FALSE]
  /\ \A axis \in 0..2 : accel_any_motion_no_motion_axis_enable(axis) =
       [page |-> 1, reg |-> 18, pos |-> 2 + axis, len |-> 1, limit |-> 256, config |-> TRUE]
  /\ sys_rst = [page |-> 0, reg |-> 63, pos |-> 5, len |-> 1, limit |-> 256, config |-> FALSE]
  BY DEF intr_rst, power_mode, accel_any_motion_durn, accel_any_motion_thres,
         intr_accel_any_motion, intr_mask_accel_any_motion, intr_accel_no_motion, sys_rst,
         accel_any_motion_no_motion_axis_enable, AxisBit, InterruptBit, SensorSetting,
         SystemSetting, SystemControl, Field, Unlimited

LEMMA UnitsFields ==
  /\ accel_unit = [page |-> 0, reg |-> 59, pos |-> 0, len |-> 1, limit |-> 256, config |-> TRUE]
  /\ gyro_unit = [page |-> 0, reg |-> 59, pos |-> 1, len |-> 1, limit |-> 256, config |-> TRUE]
  /\ euler_unit = [page |-> 0, reg |-> 59, pos |-> 2, len |-> 1, limit |-> 256, config |-> TRUE]
  /\ operation_mode = [page |-> 0, reg |-> 61, pos |-> 0, len |-> 4, limit |-> 256, config |-> FALSE]
  BY DEF accel_unit, gyro_unit, euler_unit, operation_mode, SystemSetting, SystemControl, Field, Unlimited

LEMMA SettingsAreSettings ==
  \A f \in Settings : IsSetting(f) /\ IsSlice(f) /\ f # sys_rst /\ 25 < f.limit
  <1>1. intr_rst # sys_rst /\ IsSetting(intr_rst) /\ IsSlice(intr_rst) /\ 25 < intr_rst.limit
    BY SettingsFields DEF IsSetting, IsSlice, Key, PAGE_ID, SYS_TRIGGER, OPR_MODE, AnyMode
  <1>2. \A f \in {power_mode, accel_any_motion_durn, accel_any_motion_thres} :
          IsSetting(f) /\ IsSlice(f) /\ f # sys_rst /\ 25 < f.limit
    BY SettingsFields DEF IsSetting, IsSlice, Key, PAGE_ID, SYS_TRIGGER, OPR_MODE
  <1>3. \A f \in {intr_accel_any_motion, intr_mask_accel_any_motion, intr_accel_no_motion} :
          IsSetting(f) /\ IsSlice(f) /\ f # sys_rst /\ 25 < f.limit
    BY SettingsFields DEF IsSetting, IsSlice, Key, PAGE_ID, SYS_TRIGGER, OPR_MODE, AnyMode
  <1>4. ASSUME NEW axis \in 0..2
        PROVE  LET f == accel_any_motion_no_motion_axis_enable(axis)
               IN  IsSetting(f) /\ IsSlice(f) /\ f # sys_rst /\ 25 < f.limit
    <2> DEFINE f == accel_any_motion_no_motion_axis_enable(axis)
    <2>1. f = [page |-> 1, reg |-> 18, pos |-> 2 + axis, len |-> 1, limit |-> 256, config |-> TRUE]
      BY SettingsFields
    <2> HIDE DEF f
    <2>2. IsSetting(f) /\ IsSlice(f) /\ f # sys_rst /\ 25 < f.limit
      BY <2>1, SettingsFields DEF IsSetting, IsSlice, Key, PAGE_ID, SYS_TRIGGER, OPR_MODE
    <2> QED BY <2>2 DEF f
  <1> QED BY <1>1, <1>2, <1>3, <1>4 DEF Settings

LEMMA UnitsAreSettings ==
  \A u \in Units : /\ IsSetting(u) /\ IsSlice(u) /\ u.config /\ Key(u) = <<0, UNIT_SEL>> /\ u.len = 1
                   /\ u.limit = 256 /\ u # sys_rst
  BY UnitsFields, SettingsFields DEF Units, IsSetting, IsSlice, Key, PAGE_ID, SYS_TRIGGER, OPR_MODE, UNIT_SEL

-----------------------------------------------------------------------------
(* The calls. *)
LEMMA CallCases ==
  ASSUME NEW c \in Calls
  PROVE  \/ c = [op |-> "init"]
         \/ \E f \in Settings, v \in 0..25 : c = SetTo(f, v)
         \/ \E mode \in 0..12 : c = OperationMode(mode)
         \/ \E d \in Measures : c = ReadOf(d)
         \/ \E d \in Measures : c = ConvertTo(AsRead(d))
         \/ \E d \in Measures, u \in Units, w \in {0, 1} : c = ConvertTo(Converted(d, u, w))
  BY DEF Calls

\* What a call of each kind sets.
LEMMA SetCall ==
  ASSUME NEW f, NEW v
  PROVE  LET c == SetTo(f, v)
         IN  c.op = "set" /\ c.f = f /\ c.v = v /\ Sets(c) /\ Target(c) = f /\ Value(c) = v
  BY DEF SetTo, Sets, Target, Value

LEMMA ModeCall ==
  ASSUME NEW mode
  PROVE  LET c == OperationMode(mode)
         IN  c.op = "mode" /\ c.v = mode /\ Sets(c) /\ Target(c) = operation_mode /\ Value(c) = mode
  BY DEF OperationMode, Sets, Target, Value

LEMMA OtherCall ==
  /\ ~Sets([op |-> "init"]) /\ [op |-> "init"].op = "init"
  /\ \A d : ~Sets(ReadOf(d)) /\ ReadOf(d).op = "read" /\ ReadOf(d).d = d
  /\ \A d : LET c == ConvertTo(AsRead(d)) IN ~Sets(c) /\ c.op = "convert" /\ c.c = AsRead(d) /\ ~c.c.checked
  BY DEF ReadOf, ConvertTo, AsRead, Sets

LEMMA ConvertCall ==
  ASSUME NEW d, NEW u, NEW w
  PROVE  LET c == ConvertTo(Converted(d, u, w))
         IN  /\ c.op = "convert" /\ c.c.checked /\ c.c.unit = u /\ c.c.wanted = w
             /\ Sets(c) /\ Target(c) = u /\ Value(c) = w
  BY DEF ConvertTo, Converted, Sets, Target, Value

LEMMA CallTargets ==
  ASSUME NEW c \in Calls, Sets(c)
  PROVE  IsSlice(Target(c)) /\ Value(c) \in Nat
  <1>1. CASE \E f \in Settings, v \in 0..25 : c = SetTo(f, v)
    BY <1>1, SetCall, SettingsAreSettings
  <1>2. CASE \E mode \in 0..12 : c = OperationMode(mode)
    BY <1>2, ModeCall, OperationModeSetting
  <1>3. CASE \E d \in Measures, u \in Units, w \in {0, 1} : c = ConvertTo(Converted(d, u, w))
    BY <1>3, ConvertCall, UnitsAreSettings
  <1> QED BY <1>1, <1>2, <1>3, CallCases, OtherCall

\* What the driver does for the program, call by call.
LEMMA CallSound ==
  ASSUME NEW s \in Unit, NEW c \in Calls, NEW o \in Outcomes(s, c)
  PROVE  /\ IsOutcome(o) /\ o.s \in Unit
         /\ s.misread => o.s.misread
         /\ o.s.faults <= s.faults
         /\ TriggerClear(s) => TriggerClear(o.s)
         /\ IF c.op = "init" THEN ~o.s.null ELSE o.s.null = s.null /\ (o.ok => ~s.null)
         /\ Reliable(o) /\ (c.op = "init" \/ s.page_id = s.page) =>
              /\ o.s.page_id = o.s.page
              /\ TriggerClear(s) => o.s.regs = Effect(c, s.regs)
  <1>1. CASE c = [op |-> "init"]
    <2>1. o \in init(s) /\ c.op = "init" /\ ~Sets(c)
      BY <1>1, OtherCall DEF Outcomes
    <2> QED BY <2>1, InitCoherent DEF Effect
  <1>2. ASSUME NEW f \in Settings, NEW v \in 0..25, c = SetTo(f, v)
        PROVE  /\ Sound(s, o) /\ o.s \in Unit /\ (o.ok => ~s.null) /\ c.op # "init"
               /\ Reliable(o) /\ TriggerClear(s) /\ s.page_id = s.page => o.s.regs = Effect(c, s.regs)
    <2>1. /\ c.op = "set" /\ c.f = f /\ c.v = v
          /\ Sets(c) /\ Target(c) = f /\ Value(c) = v
      BY <1>2, SetCall
    <2>2. o \in Set(s, f, v)
      BY <2>1 DEF Outcomes
    <2>3. IsSetting(f) /\ f # sys_rst /\ v \in Nat
      BY SettingsAreSettings
    <2> QED BY <2>1, <2>2, <2>3, SetSound DEF Effect
  <1>3. ASSUME NEW mode \in 0..12, c = OperationMode(mode)
        PROVE  /\ Sound(s, o) /\ o.s \in Unit /\ (o.ok => ~s.null) /\ c.op # "init"
               /\ Reliable(o) /\ TriggerClear(s) /\ s.page_id = s.page => o.s.regs = Effect(c, s.regs)
    <2>1. /\ c.op = "mode" /\ c.v = mode
          /\ Sets(c) /\ Target(c) = operation_mode /\ Value(c) = mode
      BY <1>3, ModeCall
    <2>2. o \in set_operation_mode(s, mode)
      BY <2>1 DEF Outcomes
    <2>3. mode \in Nat
      OBVIOUS
    <2> QED BY <2>1, <2>2, <2>3, set_operation_modeSound DEF Effect, Near
  <1>4. ASSUME NEW d, c = ReadOf(d)
        PROVE  /\ Sound(s, o) /\ o.s \in Unit /\ (o.ok => ~s.null) /\ c.op # "init"
               /\ Reliable(o) /\ TriggerClear(s) /\ s.page_id = s.page => o.s.regs = Effect(c, s.regs)
    <2>1. o \in ReadData(s, d) /\ c.op = "read" /\ ~Sets(c)
      BY <1>4, OtherCall DEF Outcomes
    <2> QED BY <2>1, ReadDataSound DEF Effect
  <1>5. ASSUME c.op = "convert", IsConversion(c.c), c.c.checked => Target(c) = c.c.unit /\ Value(c) = c.c.wanted
        PROVE  /\ Sound(s, o) /\ o.s \in Unit /\ (o.ok => ~s.null) /\ c.op # "init"
               /\ Reliable(o) /\ TriggerClear(s) /\ s.page_id = s.page => o.s.regs = Effect(c, s.regs)
    <2>1. o \in Convert(s, c.c)
      BY <1>5 DEF Outcomes
    <2>2. WithUnit(s.regs, c.c) = Effect(c, s.regs)
      BY <1>5 DEF WithUnit, Effect, Sets
    <2> QED BY <1>5, <2>1, <2>2, ConvertSound
  <1>6. ASSUME NEW d, c = ConvertTo(AsRead(d))
        PROVE  c.op = "convert" /\ IsConversion(c.c) /\ ~c.c.checked
    BY <1>6, OtherCall DEF IsConversion
  <1>7. ASSUME NEW d, NEW u \in Units, NEW w \in {0, 1}, c = ConvertTo(Converted(d, u, w))
        PROVE  c.op = "convert" /\ IsConversion(c.c) /\ Target(c) = c.c.unit /\ Value(c) = c.c.wanted
    <2>1. /\ c.op = "convert" /\ c.c.unit = u /\ c.c.wanted = w /\ Target(c) = u /\ Value(c) = w
      BY <1>7, ConvertCall
    <2> QED BY <2>1, UnitsAreSettings DEF IsConversion
  <1>8. CASE c # [op |-> "init"]
    <2>1. /\ Sound(s, o) /\ o.s \in Unit /\ (o.ok => ~s.null) /\ c.op # "init"
          /\ Reliable(o) /\ TriggerClear(s) /\ s.page_id = s.page => o.s.regs = Effect(c, s.regs)
      BY <1>2, <1>3, <1>4, <1>5, <1>6, <1>7, <1>8, CallCases
    <2> QED BY <2>1 DEF Sound, Follows, Reliable
  <1> QED BY <1>1, <1>8

-----------------------------------------------------------------------------
(* Goals. *)
\* Two slices of the same register that are apart do not disturb each other.
LEMMA EffectSpares ==
  ASSUME NEW regs \in [Registers -> Byte], NEW f, NEW v, IsGoal(f, v), NEW c \in Calls
  PROVE  /\ Spares(c, f, v) /\ Holds(f, v, regs) => Holds(f, v, Effect(c, regs))
         /\ Makes(c, f, v) => Holds(f, v, Effect(c, regs))
         /\ Effect(c, regs) \in [Registers -> Byte]
  <1> DEFINE t == Target(c)
             w == Value(c)
  <1>1. IsSlice(f) /\ Key(f) \in Registers /\ v \in Nat /\ v % 2^f.len = v /\ regs[Key(f)] \in Byte
    BY DEF IsGoal
  <1>2. CASE ~Sets(c)
    BY <1>2 DEF Effect, Makes, Spares
  <1>3. CASE Sets(c)
    <2>1. IsSlice(t) /\ w \in Nat
      BY <1>3, CallTargets
    <2>2. Effect(c, regs) = WithField(regs, t, w)
      BY <1>3 DEF Effect
    <2> HIDE DEF t, w
    <2>3. WithField(regs, t, w) \in [Registers -> Byte]
      BY <2>1, WithFieldType
    <2>4. WithField(regs, t, w)[Key(f)] = IF Key(f) = Key(t) THEN SetSlice(regs[Key(f)], t, w) ELSE regs[Key(f)]
      BY <1>1 DEF WithField
    <2>5. t = f /\ w = v => Holds(f, v, Effect(c, regs))
      <3>1. Slice(SetSlice(regs[Key(f)], f, v), f) = v % 2^f.len
        BY <1>1, SetSliceByte
      <3> QED BY <1>1, <2>2, <2>4, <3>1 DEF Holds
    <2>6. Apart(t, f) /\ Holds(f, v, regs) => Holds(f, v, Effect(c, regs))
      <3>1. CASE Key(t) # Key(f)
        BY <2>2, <2>4, <3>1 DEF Holds
      <3>2. CASE Key(t) = Key(f)
        <4> SUFFICES ASSUME Apart(t, f), Holds(f, v, regs) PROVE Holds(f, v, Effect(c, regs))
          OBVIOUS
        <4>1. t.pos + t.len <= f.pos \/ f.pos + f.len <= t.pos
          BY <3>2 DEF Apart
        <4>2. Slice(SetSlice(regs[Key(f)], t, w), f) = Slice(regs[Key(f)], f)
          BY <1>1, <2>1, <4>1, SlicesApart
        <4> QED BY <2>2, <2>4, <3>2, <4>2 DEF Holds
      <3> QED BY <3>1, <3>2
    <2>7. (Makes(c, f, v) => t = f /\ w = v) /\ (Spares(c, f, v) => (t = f /\ w = v) \/ Apart(t, f))
      BY <1>3 DEF Makes, Spares, t, w
    <2> QED BY <2>2, <2>3, <2>5, <2>6, <2>7
  <1> QED BY <1>2, <1>3

\* A call brings the sensor nearer to its goals.
LEMMA WillStep ==
  ASSUME NEW regs \in [Registers -> Byte], NEW f, NEW v, IsGoal(f, v),
         NEW calls \in Seq(Calls), calls # <<>>, Will(f, v, regs, calls)
  PROVE  Will(f, v, Effect(Head(calls), regs), Tail(calls))
  <1> DEFINE after == Effect(Head(calls), regs)
  <1>1. /\ Head(calls) = calls[1] /\ Head(calls) \in Calls /\ 1 \in DOMAIN calls
        /\ Tail(calls) \in Seq(Calls)
        /\ \A i \in DOMAIN Tail(calls) : i + 1 \in DOMAIN calls /\ Tail(calls)[i] = calls[i + 1] /\ i \in Nat
        /\ \A i \in DOMAIN calls : i # 1 => i - 1 \in DOMAIN Tail(calls) /\ Tail(calls)[i - 1] = calls[i] /\ i \in Nat
    OBVIOUS
  <1>2. /\ Spares(calls[1], f, v) /\ Holds(f, v, regs) => Holds(f, v, after)
        /\ Makes(calls[1], f, v) => Holds(f, v, after)
    BY <1>1, EffectSpares
  <1> HIDE DEF after
  <1>3. CASE Holds(f, v, regs) /\ \A i \in DOMAIN calls : Spares(calls[i], f, v)
    <2>1. Holds(f, v, after)
      BY <1>1, <1>2, <1>3
    <2>2. \A i \in DOMAIN Tail(calls) : Spares(Tail(calls)[i], f, v)
      BY <1>1, <1>3
    <2> QED BY <2>1, <2>2 DEF Will, after
  <1>4. CASE \E i \in DOMAIN calls : /\ Makes(calls[i], f, v)
                                     /\ \A j \in DOMAIN calls : j > i => Spares(calls[j], f, v)
    <2>1. PICK i \in DOMAIN calls : /\ Makes(calls[i], f, v)
                                    /\ \A j \in DOMAIN calls : j > i => Spares(calls[j], f, v)
      BY <1>4
    <2>2. CASE i = 1
      <3>1. Holds(f, v, after)
        BY <1>2, <2>1, <2>2
      <3>2. \A k \in DOMAIN Tail(calls) : Spares(Tail(calls)[k], f, v)
        <4> SUFFICES ASSUME NEW k \in DOMAIN Tail(calls) PROVE Spares(Tail(calls)[k], f, v)
          OBVIOUS
        <4>1. k \in 1..Len(Tail(calls))
          BY <1>1
        <4>2. k + 1 > i
          BY <2>2, <4>1
        <4> QED BY <1>1, <2>1, <4>2
      <3> QED BY <3>1, <3>2 DEF Will, after
    <2>3. CASE i # 1
      <3>1. i - 1 \in DOMAIN Tail(calls) /\ Tail(calls)[i - 1] = calls[i] /\ i \in Nat
        BY <1>1, <2>3
      <3>2. ASSUME NEW k \in DOMAIN Tail(calls), k > i - 1 PROVE Spares(Tail(calls)[k], f, v)
        <4>1. k \in Nat /\ k + 1 \in DOMAIN calls /\ Tail(calls)[k] = calls[k + 1]
          BY <1>1
        <4>2. k + 1 > i
          BY <3>1, <3>2, <4>1
        <4> QED BY <2>1, <4>1, <4>2
      <3>3. Makes(Tail(calls)[i - 1], f, v)
        BY <2>1, <3>1
      <3> QED BY <3>1, <3>2, <3>3 DEF Will, after
    <2> QED BY <2>2, <2>3
  <1> QED BY <1>3, <1>4 DEF Will

LEMMA WillDone == ASSUME NEW regs, NEW f, NEW v PROVE Will(f, v, regs, <<>>) <=> Holds(f, v, regs)
  BY DEF Will

LEMMA WillStay ==
  ASSUME NEW regs, NEW f, NEW v, NEW calls, Holds(f, v, regs), \A i \in DOMAIN calls : Spares(calls[i], f, v)
  PROVE  Will(f, v, regs, calls)
  BY DEF Will

\* A routine after another.
LEMMA WillAppend ==
  ASSUME NEW regs, NEW f, NEW v, NEW a \in Seq(Calls), NEW b \in Seq(Calls)
  PROVE  /\ Will(f, v, regs, a) /\ (\A i \in DOMAIN b : Spares(b[i], f, v)) => Will(f, v, regs, a \o b)
         /\ (\E i \in DOMAIN b : Makes(b[i], f, v)) /\ (\A i \in DOMAIN b : Spares(b[i], f, v)) => Will(f, v, regs, a \o b)
  <1>1. /\ DOMAIN a = 1..Len(a) /\ DOMAIN b = 1..Len(b) /\ Len(a) \in Nat /\ Len(b) \in Nat
        /\ DOMAIN (a \o b) = 1..(Len(a) + Len(b))
        /\ \A i \in DOMAIN (a \o b) : (a \o b)[i] = IF i <= Len(a) THEN a[i] ELSE b[i - Len(a)]
    OBVIOUS
  <1> DEFINE both == a \o b
  <1> HIDE DEF both
  <1>2. ASSUME \A i \in DOMAIN b : Spares(b[i], f, v), NEW k \in DOMAIN both, k > Len(a) PROVE Spares(both[k], f, v)
    <2>1. k - Len(a) \in DOMAIN b /\ both[k] = b[k - Len(a)]
      BY <1>1, <1>2 DEF both
    <2> QED BY <1>2, <2>1
  <1>3. ASSUME Will(f, v, regs, a), \A i \in DOMAIN b : Spares(b[i], f, v) PROVE Will(f, v, regs, both)
    <2>1. CASE Holds(f, v, regs) /\ \A i \in DOMAIN a : Spares(a[i], f, v)
      <3> SUFFICES ASSUME NEW k \in DOMAIN both PROVE Spares(both[k], f, v)
        BY <2>1 DEF Will
      <3>1. CASE k <= Len(a)
        <4>1. k \in DOMAIN a /\ both[k] = a[k]
          BY <1>1, <3>1 DEF both
        <4> QED BY <2>1, <4>1
      <3>2. CASE ~(k <= Len(a))
        <4>1. k > Len(a)
          BY <1>1, <3>2 DEF both
        <4> QED BY <1>2, <1>3, <4>1
      <3> QED BY <3>1, <3>2
    <2>2. CASE \E i \in DOMAIN a : Makes(a[i], f, v) /\ \A j \in DOMAIN a : j > i => Spares(a[j], f, v)
      <3>1. PICK i \in DOMAIN a : Makes(a[i], f, v) /\ \A j \in DOMAIN a : j > i => Spares(a[j], f, v)
        BY <2>2
      <3>2. i \in DOMAIN both /\ both[i] = a[i]
        BY <1>1 DEF both
      <3>3. ASSUME NEW k \in DOMAIN both, k > i PROVE Spares(both[k], f, v)
        <4>1. CASE k <= Len(a)
          <5>1. k \in DOMAIN a /\ both[k] = a[k]
            BY <1>1, <4>1 DEF both
          <5> QED BY <3>1, <3>3, <5>1
        <4>2. CASE ~(k <= Len(a))
          <5>1. k > Len(a)
            BY <1>1, <4>2 DEF both
          <5> QED BY <1>2, <1>3, <5>1
        <4> QED BY <4>1, <4>2
      <3> QED BY <3>1, <3>2, <3>3 DEF Will
    <2> QED BY <1>3, <2>1, <2>2 DEF Will
  <1>4. ASSUME NEW i \in DOMAIN b, Makes(b[i], f, v), \A j \in DOMAIN b : Spares(b[j], f, v)
        PROVE  Will(f, v, regs, both)
    <2>1. Len(a) + i \in DOMAIN both /\ both[Len(a) + i] = b[i]
      BY <1>1 DEF both
    <2>2. ASSUME NEW k \in DOMAIN both, k > Len(a) + i PROVE Spares(both[k], f, v)
      <3>1. k > Len(a)
        BY <1>1, <2>2 DEF both
      <3> QED BY <1>2, <1>4, <3>1
    <2> QED BY <1>4, <2>1, <2>2 DEF Will
  <1> QED BY <1>3, <1>4 DEF both

-----------------------------------------------------------------------------
(* The goals of the program, and how its routines reach them. *)
OtherUnits == Status(59, 3, 5)

\* To measure, to wake up at a motion, and to sleep.
Measured == {<<operation_mode, OPERATION_MODE_NDOF>>, <<accel_unit, mg>>, <<gyro_unit, 0>>,
  <<euler_unit, 0>>, <<OtherUnits, 0>>}
Motion ==
  {<<accel_any_motion_no_motion_axis_enable(axis), 1>> : axis \in 0..2} \cup
  {<<accel_any_motion_thres, 25>>, <<intr_accel_any_motion, 1>>, <<intr_mask_accel_any_motion, 1>>,
   <<intr_accel_no_motion, 0>>}
Asleep == {<<operation_mode, OPERATION_MODE_ACCONLY>>, <<power_mode, POWER_MODE_LOWPOWER>>}

Goals(st) ==
  CASE st = "START" -> {}
    [] st \in {"SHUTDOWN", "OFF"} -> Asleep \cup Motion
    [] OTHER -> Measured \cup Motion

WillAll(G, regs, calls) == \A g \in G : Will(g[1], g[2], regs, calls)
SparesAll(c, G) == \A g \in G : Spares(c, g[1], g[2])
HoldAll(G, regs) == \A g \in G : Holds(g[1], g[2], regs)

LEMMA OtherUnitsField ==
  OtherUnits = [page |-> 0, reg |-> 59, pos |-> 3, len |-> 5, limit |-> 256, config |-> FALSE]
  BY DEF OtherUnits, Status, Field, Unlimited

LEMMA Powers == 2^1 = 2 /\ 2^2 = 4 /\ 2^4 = 16 /\ 2^5 = 32 /\ 2^8 = 256
  <1>1. IsPower(2^1, 1) /\ IsPower(2^2, 2) /\ IsPower(2^4, 4) /\ IsPower(2^5, 5) /\ IsPower(2^8, 8)
    BY PowersOfTwo
  <1> QED BY <1>1 DEF IsPower

LEMMA GoalsAreGoals ==
  \A g \in Measured \cup Motion \cup Asleep : IsGoal(g[1], g[2])
  <1>1. /\ {<<0, 59>>, <<0, 61>>, <<0, 62>>, <<1, 15>>, <<1, 16>>, <<1, 17>>, <<1, 18>>} \subseteq Registers
    BY RegistersAssumption, ImuAssumption DEF UNIT_SEL, OPR_MODE
  <1>2. \A g \in Measured : IsGoal(g[1], g[2])
    <2>1. IsGoal(operation_mode, 12)
      BY <1>1, Powers, UnitsFields DEF IsGoal, IsSlice, Key
    <2>2. IsGoal(accel_unit, 1)
      BY <1>1, Powers, UnitsFields DEF IsGoal, IsSlice, Key
    <2>3. IsGoal(gyro_unit, 0) /\ IsGoal(euler_unit, 0)
      BY <1>1, Powers, UnitsFields DEF IsGoal, IsSlice, Key
    <2>4. IsGoal(OtherUnits, 0)
      BY <1>1, Powers, OtherUnitsField DEF IsGoal, IsSlice, Key
    <2> QED BY <2>1, <2>2, <2>3, <2>4 DEF Measured, OPERATION_MODE_NDOF, mg
  <1>3. \A g \in Asleep : IsGoal(g[1], g[2])
    <2>1. IsGoal(operation_mode, 1)
      BY <1>1, Powers, UnitsFields DEF IsGoal, IsSlice, Key
    <2>2. IsGoal(power_mode, 1)
      BY <1>1, Powers, SettingsFields DEF IsGoal, IsSlice, Key
    <2> QED BY <2>1, <2>2 DEF Asleep, OPERATION_MODE_ACCONLY, POWER_MODE_LOWPOWER
  <1>4. ASSUME NEW g \in Motion PROVE IsGoal(g[1], g[2])
    <2>1. CASE \E axis \in 0..2 : g = <<accel_any_motion_no_motion_axis_enable(axis), 1>>
      <3>1. PICK axis \in 0..2 : g = <<accel_any_motion_no_motion_axis_enable(axis), 1>>
        BY <2>1
      <3>2. g[1] = [page |-> 1, reg |-> 18, pos |-> 2 + axis, len |-> 1, limit |-> 256, config |-> TRUE] /\ g[2] = 1
        BY <3>1, SettingsFields
      <3> QED BY <1>1, <3>2, Powers DEF IsGoal, IsSlice, Key
    <2>2. IsGoal(accel_any_motion_thres, 25)
      BY <1>1, Powers, SettingsFields DEF IsGoal, IsSlice, Key
    <2>3. IsGoal(intr_accel_any_motion, 1) /\ IsGoal(intr_mask_accel_any_motion, 1)
      BY <1>1, Powers, SettingsFields DEF IsGoal, IsSlice, Key
    <2>4. IsGoal(intr_accel_no_motion, 0)
      BY <1>1, Powers, SettingsFields DEF IsGoal, IsSlice, Key
    <2> QED BY <2>1, <2>2, <2>3, <2>4 DEF Motion
  <1> QED BY <1>2, <1>3, <1>4

\* Goals are on page 1 to wake up, on page 0 otherwise.
LEMMA GoalsPages ==
  /\ \A g \in Motion : g[1].page = 1
  /\ \A g \in Measured \cup Asleep : g[1].page = 0
  <1>1. \A g \in Motion : g[1].page = 1
    BY SettingsFields DEF Motion
  <1>2. \A g \in Measured \cup Asleep : g[1].page = 0
    BY SettingsFields, UnitsFields, OtherUnitsField DEF Measured, Asleep
  <1> QED BY <1>1, <1>2

LEMMA PagesApart ==
  ASSUME NEW c, NEW G, \A g \in G : Target(c).page # g[1].page
  PROVE  SparesAll(c, G)
  BY DEF SparesAll, Spares, Apart, Key

LEMMA MeasureCallsSpare ==
  ASSUME NEW c \in MeasureCalls
  PROVE  c \in Calls /\ SparesAll(c, Measured \cup Motion)
  <1>1. CASE \E d \in Measures : c = ReadOf(d) \/ c = ConvertTo(AsRead(d))
    BY <1>1, OtherCall DEF SparesAll, Spares, Calls
  <1>2. CASE \E d \in Measures, u \in {gyro_unit, euler_unit} : c = ConvertTo(Converted(d, u, 0))
    <2>1. PICK d \in Measures, u \in {gyro_unit, euler_unit} : c = ConvertTo(Converted(d, u, 0))
      BY <1>2
    <2>2. Sets(c) /\ Target(c) = u /\ Value(c) = 0
      BY <2>1, ConvertCall
    <2>3. u.page = 0
      BY UnitsFields
    <2>4. SparesAll(c, Motion)
      BY <2>2, <2>3, GoalsPages, PagesApart
    <2>5. SparesAll(c, Measured)
      <3> SUFFICES ASSUME NEW g \in Measured PROVE Spares(c, g[1], g[2])
        BY DEF SparesAll
      <3>1. CASE g = <<operation_mode, OPERATION_MODE_NDOF>>
        <4>1. Key(u) # Key(g[1])
          BY <3>1, UnitsFields DEF Key
        <4> QED BY <2>2, <4>1 DEF Spares, Apart
      <3>2. CASE g = <<accel_unit, mg>> \/ g = <<OtherUnits, 0>>
        <4>1. u.pos + u.len <= g[1].pos \/ g[1].pos + g[1].len <= u.pos
          BY <3>2, UnitsFields, OtherUnitsField
        <4> QED BY <2>2, <4>1 DEF Spares, Apart
      <3>3. CASE g = <<gyro_unit, 0>> \/ g = <<euler_unit, 0>>
        <4>1. CASE u = g[1]
          BY <2>2, <3>3, <4>1 DEF Spares, Makes
        <4>2. CASE u # g[1]
          <5>1. CASE u = gyro_unit /\ g[1] = euler_unit
            BY <2>2, <5>1, UnitsFields DEF Spares, Apart
          <5>2. CASE u = euler_unit /\ g[1] = gyro_unit
            BY <2>2, <5>2, UnitsFields DEF Spares, Apart
          <5> QED BY <3>3, <4>2, <5>1, <5>2
        <4> QED BY <4>1, <4>2
      <3> QED BY <3>1, <3>2, <3>3 DEF Measured
    <2>6. c \in Calls
      BY <2>1 DEF Calls, Units
    <2> QED BY <2>4, <2>5, <2>6 DEF SparesAll
  <1> QED BY <1>1, <1>2 DEF MeasureCalls

\* The reset of the interrupt disturbs nothing.
LEMMA ResetInterruptSpares ==
  LET c == SetTo(intr_rst, 1)
  IN  /\ c \in Calls /\ ResetInterrupt \in Seq(Calls) /\ ResetInterrupt \in Seq({c})
      /\ SparesAll(c, Measured \cup Motion \cup Asleep)
  <1> DEFINE c == SetTo(intr_rst, 1)
  <1>1. c \in Calls
    BY DEF Calls, Settings
  <1>2. Target(c) = intr_rst
    BY SetCall
  <1>3. \A g \in Measured \cup Motion \cup Asleep : Key(intr_rst) # Key(g[1])
    <2>1. \A g \in Measured : Key(intr_rst) # Key(g[1])
      BY SettingsFields, UnitsFields, OtherUnitsField DEF Measured, Key
    <2>2. \A g \in Asleep : Key(intr_rst) # Key(g[1])
      BY SettingsFields, UnitsFields DEF Asleep, Key
    <2>3. \A g \in Motion : Key(intr_rst) # Key(g[1])
      BY SettingsFields, GoalsPages DEF Key
    <2> QED BY <2>1, <2>2, <2>3
  <1>4. SparesAll(c, Measured \cup Motion \cup Asleep)
    BY <1>2, <1>3 DEF SparesAll, Spares, Apart
  <1> QED BY <1>1, <1>4 DEF ResetInterrupt

\* The pairs of settings and values of MotionInterrupt.
MotionPairs == Motion \cup {<<accel_any_motion_durn, 1>>}

LEMMA MotionPairsApart ==
  ASSUME NEW p \in MotionPairs, NEW g \in Motion
  PROVE  p = g \/ Apart(p[1], g[1])
  <1> DEFINE axes == {<<accel_any_motion_no_motion_axis_enable(axis), 1>> : axis \in 0..2}
             rest == {<<accel_any_motion_thres, 25>>, <<intr_accel_any_motion, 1>>, <<intr_mask_accel_any_motion, 1>>,
                      <<intr_accel_no_motion, 0>>}
  <1>1. \A x \in axes : x[1].page = 1 /\ x[1].reg = 18 /\ x[1].len = 1 /\ x[1].pos \in 2..4
    BY SettingsFields
  <1>2. \A x \in rest : x[1].page = 1 /\ x[1].reg \in {15, 16, 17}
    BY SettingsFields
  <1>3. CASE p \in axes /\ g \in axes
    <2>1. PICK a \in 0..2 : p = <<accel_any_motion_no_motion_axis_enable(a), 1>>
      BY <1>3
    <2>2. PICK b \in 0..2 : g = <<accel_any_motion_no_motion_axis_enable(b), 1>>
      BY <1>3
    <2>3. p[1].pos = 2 + a /\ p[1].len = 1 /\ g[1].pos = 2 + b /\ g[1].len = 1
      BY <2>1, <2>2, SettingsFields
    <2>4. a = b => p = g
      BY <2>1, <2>2
    <2>5. a # b => p[1].pos + p[1].len <= g[1].pos \/ g[1].pos + g[1].len <= p[1].pos
      BY <2>3
    <2> QED BY <2>4, <2>5 DEF Apart
  <1>4. CASE p \in axes /\ g \in rest
    BY <1>1, <1>2, <1>4 DEF Apart, Key
  <1>5. CASE p \in rest /\ g \in axes
    BY <1>1, <1>2, <1>5 DEF Apart, Key
  <1>6. CASE p \in rest /\ g \in rest
    <2>1. /\ Key(accel_any_motion_thres) = <<1, 17>> /\ Key(intr_mask_accel_any_motion) = <<1, 15>>
          /\ Key(intr_accel_any_motion) = <<1, 16>> /\ Key(intr_accel_no_motion) = <<1, 16>>
      BY SettingsFields DEF Key
    <2>2. <<1, 17>> # <<1, 15>> /\ <<1, 17>> # <<1, 16>> /\ <<1, 15>> # <<1, 16>>
      OBVIOUS
    <2>3. Apart(intr_accel_any_motion, intr_accel_no_motion) /\ Apart(intr_accel_no_motion, intr_accel_any_motion)
      BY SettingsFields DEF Apart
    <2>4. \A x \in rest, y \in rest : x = y \/ Apart(x[1], y[1])
      BY <2>1, <2>2, <2>3 DEF Apart
    <2> QED BY <1>6, <2>4
  <1>7. CASE p = <<accel_any_motion_durn, 1>> /\ g \in axes
    <2>1. p[1].pos = 0 /\ p[1].len = 2
      BY <1>7, SettingsFields
    <2>2. p[1].pos + p[1].len <= g[1].pos
      BY <1>1, <1>7, <2>1
    <2> QED BY <2>2 DEF Apart
  <1>8. CASE p = <<accel_any_motion_durn, 1>> /\ g \in rest
    BY <1>2, <1>8, SettingsFields DEF Apart, Key
  <1> QED BY <1>3, <1>4, <1>5, <1>6, <1>7, <1>8 DEF MotionPairs, Motion

LEMMA MotionInterruptWills ==
  /\ MotionInterrupt \in Seq(Calls)
  /\ \A i \in DOMAIN MotionInterrupt : SparesAll(MotionInterrupt[i], Measured \cup Motion)
  /\ \A g \in Motion : \E i \in DOMAIN MotionInterrupt : Makes(MotionInterrupt[i], g[1], g[2])
  <1> DEFINE Of(p) == SetTo(p[1], p[2])
  <1>1. MotionInterrupt \in Seq(Calls)
    BY DEF Calls, MotionInterrupt, Settings
  <1>2. ASSUME NEW p \in MotionPairs PROVE SparesAll(Of(p), Measured \cup Motion)
    <2>1. Sets(Of(p)) /\ Target(Of(p)) = p[1] /\ Value(Of(p)) = p[2]
      BY SetCall
    <2>2. p[1].page = 1
      BY GoalsPages, SettingsFields DEF MotionPairs
    <2>3. SparesAll(Of(p), Measured)
      BY <2>1, <2>2, GoalsPages, PagesApart
    <2>4. ASSUME NEW g \in Motion PROVE Spares(Of(p), g[1], g[2])
      BY <2>1, MotionPairsApart DEF Spares, Makes
    <2> QED BY <2>3, <2>4 DEF SparesAll
  <1>3. \A i \in DOMAIN MotionInterrupt : \E p \in MotionPairs : MotionInterrupt[i] = Of(p)
    <2>1. DOMAIN MotionInterrupt = 1..8
      BY DEF MotionInterrupt
    <2>2. /\ \A axis \in 0..2 : <<accel_any_motion_no_motion_axis_enable(axis), 1>> \in MotionPairs
          /\ {<<accel_any_motion_durn, 1>>, <<accel_any_motion_thres, 25>>, <<intr_accel_any_motion, 1>>,
              <<intr_mask_accel_any_motion, 1>>, <<intr_accel_no_motion, 0>>} \subseteq MotionPairs
      BY DEF MotionPairs, Motion
    <2>3. /\ MotionInterrupt[1] = Of(<<accel_any_motion_no_motion_axis_enable(0), 1>>)
          /\ MotionInterrupt[2] = Of(<<accel_any_motion_no_motion_axis_enable(1), 1>>)
          /\ MotionInterrupt[3] = Of(<<accel_any_motion_no_motion_axis_enable(2), 1>>)
          /\ MotionInterrupt[4] = Of(<<accel_any_motion_durn, 1>>)
          /\ MotionInterrupt[5] = Of(<<accel_any_motion_thres, 25>>)
          /\ MotionInterrupt[6] = Of(<<intr_accel_any_motion, 1>>)
          /\ MotionInterrupt[7] = Of(<<intr_mask_accel_any_motion, 1>>)
          /\ MotionInterrupt[8] = Of(<<intr_accel_no_motion, 0>>)
      BY DEF MotionInterrupt
    <2> HIDE DEF Of
    <2> QED BY <2>1, <2>2, <2>3
  <1>4. \A g \in Motion : \E i \in DOMAIN MotionInterrupt : MotionInterrupt[i] = Of(g)
    <2>1. DOMAIN MotionInterrupt = 1..8
      BY DEF MotionInterrupt
    <2>2. /\ MotionInterrupt[1] = Of(<<accel_any_motion_no_motion_axis_enable(0), 1>>)
          /\ MotionInterrupt[2] = Of(<<accel_any_motion_no_motion_axis_enable(1), 1>>)
          /\ MotionInterrupt[3] = Of(<<accel_any_motion_no_motion_axis_enable(2), 1>>)
          /\ MotionInterrupt[5] = Of(<<accel_any_motion_thres, 25>>)
          /\ MotionInterrupt[6] = Of(<<intr_accel_any_motion, 1>>)
          /\ MotionInterrupt[7] = Of(<<intr_mask_accel_any_motion, 1>>)
          /\ MotionInterrupt[8] = Of(<<intr_accel_no_motion, 0>>)
      BY DEF MotionInterrupt
    <2> HIDE DEF Of
    <2>3. ASSUME NEW axis \in 0..2
          PROVE  \E i \in DOMAIN MotionInterrupt :
                   MotionInterrupt[i] = Of(<<accel_any_motion_no_motion_axis_enable(axis), 1>>)
      <3>1. axis = 0 \/ axis = 1 \/ axis = 2
        OBVIOUS
      <3> QED BY <2>1, <2>2, <3>1
    <2> QED BY <2>1, <2>2, <2>3 DEF Motion
  <1>5. \A p \in Motion : Makes(Of(p), p[1], p[2])
    BY SetCall DEF Makes
  <1> HIDE DEF Of
  <1> QED BY <1>1, <1>2, <1>3, <1>4, <1>5

\* bno055_init_readout turns to the fusion mode and sets the units, whatever it finds, but
\* for those units it does not use.
LEMMA InitReadoutWills ==
  ASSUME NEW regs \in [Registers -> Byte], Holds(OtherUnits, 0, regs)
  PROVE  bno055_init_readout \in Seq(Calls) /\ WillAll(Measured, regs, bno055_init_readout)
  <1> DEFINE R == bno055_init_readout
             Late == MeasureCalls \cup {OperationMode(OPERATION_MODE_NDOF)}
  <1>1. R \in Seq(Calls) /\ DOMAIN R = 1..22
    BY DEF Calls, bno055_init_readout, Settings, Measures, Units, msq, mg, OPERATION_MODE_AMG,
         OPERATION_MODE_NDOF, POWER_MODE_NORMAL
  <1>2. /\ R[13] = ConvertTo(Converted(accel_xyz, accel_unit, mg)) /\ R[14] = ConvertTo(AsRead(mag_xyz))
        /\ R[15] = ConvertTo(Converted(gyro_xyz, gyro_unit, 0)) /\ R[16] = ConvertTo(Converted(euler_h, euler_unit, 0))
        /\ R[17] = ConvertTo(Converted(euler_r, euler_unit, 0)) /\ R[18] = ConvertTo(Converted(euler_p, euler_unit, 0))
        /\ R[19] = ConvertTo(Converted(euler_hrp, euler_unit, 0)) /\ R[20] = ConvertTo(AsRead(linear_accel_xyz))
        /\ R[21] = ConvertTo(AsRead(gravity_xyz)) /\ R[22] = OperationMode(OPERATION_MODE_NDOF)
    BY DEF bno055_init_readout
  <1>3. \A j \in 14..22 : R[j] \in Late
    <2>1. /\ R[14] \in Late /\ R[15] \in Late /\ R[16] \in Late /\ R[17] \in Late /\ R[18] \in Late
          /\ R[19] \in Late /\ R[20] \in Late /\ R[21] \in Late /\ R[22] \in Late
      BY <1>2 DEF MeasureCalls, Measures
    <2> HIDE DEF R, Late
    <2>2. \A j \in 14..22 : j = 14 \/ j = 15 \/ j = 16 \/ j = 17 \/ j = 18 \/ j = 19 \/ j = 20 \/ j = 21 \/ j = 22
      OBVIOUS
    <2> QED BY <2>1, <2>2
  <1>4. \A c \in Late : SparesAll(c, Measured)
    <2>1. SparesAll(OperationMode(OPERATION_MODE_NDOF), Measured)
      <3> DEFINE c == OperationMode(OPERATION_MODE_NDOF)
      <3>1. Sets(c) /\ Target(c) = operation_mode /\ Value(c) = OPERATION_MODE_NDOF
        BY ModeCall
      <3> HIDE DEF c
      <3>2. Makes(c, operation_mode, OPERATION_MODE_NDOF)
        BY <3>1 DEF Makes
      <3>3. \A f \in {accel_unit, gyro_unit, euler_unit, OtherUnits} : Key(operation_mode) # Key(f)
        BY UnitsFields, OtherUnitsField DEF Key
      <3>4. SparesAll(c, Measured)
        BY <3>1, <3>2, <3>3 DEF SparesAll, Spares, Apart, Measured
      <3> QED BY <3>4 DEF c
    <2> QED BY <2>1, MeasureCallsSpare DEF SparesAll
  <1> HIDE DEF R, Late
  <1>5. ASSUME NEW f, NEW v, <<f, v>> \in Measured, NEW i \in 13..22, Makes(R[i], f, v)
        PROVE  Will(f, v, regs, R)
    <2>1. \A j \in DOMAIN R : j > i => Spares(R[j], f, v)
      <3> SUFFICES ASSUME NEW j \in 14..22 PROVE Spares(R[j], f, v)
        BY <1>1
      <3> QED BY <1>3, <1>4, <1>5 DEF SparesAll
    <2>2. i \in DOMAIN R
      BY <1>1
    <2> QED BY <1>5, <2>1, <2>2 DEF Will
  <1>6. Will(operation_mode, OPERATION_MODE_NDOF, regs, R)
    <2>1. Makes(R[22], operation_mode, OPERATION_MODE_NDOF) /\ <<operation_mode, OPERATION_MODE_NDOF>> \in Measured
      BY <1>2, ModeCall DEF Makes, Measured
    <2>2. 22 \in 13..22
      OBVIOUS
    <2> QED BY <1>5, <2>1, <2>2
  <1>7. Will(accel_unit, mg, regs, R)
    <2>1. Makes(R[13], accel_unit, mg) /\ <<accel_unit, mg>> \in Measured
      BY <1>2, ConvertCall DEF Makes, Measured
    <2>2. 13 \in 13..22
      OBVIOUS
    <2> QED BY <1>5, <2>1, <2>2
  <1>8. Will(gyro_unit, 0, regs, R)
    <2>1. Makes(R[15], gyro_unit, 0) /\ <<gyro_unit, 0>> \in Measured
      BY <1>2, ConvertCall DEF Makes, Measured
    <2>2. 15 \in 13..22
      OBVIOUS
    <2> QED BY <1>5, <2>1, <2>2
  <1>9. Will(euler_unit, 0, regs, R)
    <2>1. Makes(R[19], euler_unit, 0) /\ <<euler_unit, 0>> \in Measured
      BY <1>2, ConvertCall DEF Makes, Measured
    <2>2. 19 \in 13..22
      OBVIOUS
    <2> QED BY <1>5, <2>1, <2>2
  <1>10. Will(OtherUnits, 0, regs, R)
    <2> SUFFICES ASSUME NEW i \in DOMAIN R PROVE Spares(R[i], OtherUnits, 0)
      BY WillStay
    <2>1. R[i] \in Calls
      <3>1. R \in Seq(Calls)
        BY <1>1
      <3> QED BY <3>1
    <2>2. CASE Sets(R[i])
      <3>1. CASE \E f \in Settings, v \in 0..25 : R[i] = SetTo(f, v)
        <4>1. PICK f \in Settings, v \in 0..25 : R[i] = SetTo(f, v)
          BY <3>1
        <4>2. Target(R[i]) = f
          BY <4>1, SetCall
        <4>3. f.reg # 59
          BY SettingsFields DEF Settings
        <4> QED BY <4>2, <4>3, OtherUnitsField DEF Spares, Apart, Key
      <3>2. CASE \E mode \in 0..12 : R[i] = OperationMode(mode)
        <4>1. Target(R[i]) = operation_mode
          BY <3>2, ModeCall
        <4> QED BY <4>1, UnitsFields, OtherUnitsField DEF Spares, Apart, Key
      <3>3. CASE \E d \in Measures, u \in Units, w \in {0, 1} : R[i] = ConvertTo(Converted(d, u, w))
        <4>1. Target(R[i]) \in Units
          BY <3>3, ConvertCall
        <4>2. Target(R[i]).pos + Target(R[i]).len <= OtherUnits.pos
          BY <4>1, UnitsFields, OtherUnitsField DEF Units
        <4> QED BY <4>2 DEF Spares, Apart
      <3> QED BY <2>1, <2>2, <3>1, <3>2, <3>3, CallCases, OtherCall
    <2>3. CASE ~Sets(R[i])
      BY <2>3 DEF Spares
    <2> QED BY <2>2, <2>3
  <1>11. WillAll(Measured, regs, R)
    BY <1>6, <1>7, <1>8, <1>9, <1>10 DEF WillAll, Measured
  <1> QED BY <1>1, <1>11 DEF R

\* The two routines of the start, one after the other.
LEMMA StartWills ==
  ASSUME NEW regs \in [Registers -> Byte], Holds(OtherUnits, 0, regs)
  PROVE  LET calls == bno055_init_readout \o MotionInterrupt
         IN  calls \in Seq(Calls) /\ WillAll(Measured \cup Motion, regs, calls)
  <1> DEFINE a == bno055_init_readout
             b == MotionInterrupt
  <1>1. a \in Seq(Calls) /\ WillAll(Measured, regs, a)
    BY InitReadoutWills
  <1>2. /\ b \in Seq(Calls)
        /\ \A i \in DOMAIN b : SparesAll(b[i], Measured \cup Motion)
        /\ \A g \in Motion : \E i \in DOMAIN b : Makes(b[i], g[1], g[2])
    BY MotionInterruptWills
  <1> HIDE DEF a, b
  <1>3. ASSUME NEW g \in Measured PROVE Will(g[1], g[2], regs, a \o b)
    <2>1. Will(g[1], g[2], regs, a) /\ \A i \in DOMAIN b : Spares(b[i], g[1], g[2])
      BY <1>1, <1>2 DEF WillAll, SparesAll
    <2> QED BY <1>1, <1>2, <2>1, WillAppend
  <1>4. ASSUME NEW g \in Motion PROVE Will(g[1], g[2], regs, a \o b)
    <2>1. (\E i \in DOMAIN b : Makes(b[i], g[1], g[2])) /\ \A i \in DOMAIN b : Spares(b[i], g[1], g[2])
      BY <1>2 DEF SparesAll
    <2> QED BY <1>1, <1>2, <2>1, WillAppend
  <1>5. a \o b \in Seq(Calls)
    BY <1>1, <1>2
  <1>6. WillAll(Measured \cup Motion, regs, a \o b)
    BY <1>3, <1>4 DEF WillAll
  <1> QED BY <1>5, <1>6 DEF a, b

\* sys_shutdown puts the sensor to sleep, and keeps it able to wake up at a motion.
LEMMA ShutdownWills ==
  ASSUME NEW regs, HoldAll(Motion, regs)
  PROVE  sys_shutdown \in Seq(Calls) /\ WillAll(Asleep \cup Motion, regs, sys_shutdown)
  <1> DEFINE S == sys_shutdown
  <1>1. S \in Seq(Calls)
    BY DEF Calls, sys_shutdown, Settings, OPERATION_MODE_ACCONLY, POWER_MODE_LOWPOWER
  <1>2. /\ DOMAIN S = 1..4
        /\ S[1] = OperationMode(OPERATION_MODE_ACCONLY) /\ S[2] = SetTo(power_mode, POWER_MODE_LOWPOWER)
        /\ S[3] = SetTo(intr_accel_no_motion, 0) /\ S[4] = SetTo(intr_rst, 1)
    BY DEF sys_shutdown
  <1> HIDE DEF S
  <1>3. /\ Sets(S[1]) /\ Target(S[1]) = operation_mode /\ Value(S[1]) = OPERATION_MODE_ACCONLY
        /\ Sets(S[2]) /\ Target(S[2]) = power_mode /\ Value(S[2]) = POWER_MODE_LOWPOWER
        /\ Sets(S[3]) /\ Target(S[3]) = intr_accel_no_motion /\ Value(S[3]) = 0
    BY <1>2, ModeCall, SetCall
  <1>4. SparesAll(S[4], Asleep \cup Motion)
    BY <1>2, ResetInterruptSpares DEF SparesAll
  <1>5. SparesAll(S[3], Asleep)
    BY <1>3, GoalsPages, SettingsFields, PagesApart
  <1>6. SparesAll(S[3], Motion)
    <2>1. <<intr_accel_no_motion, 0>> \in MotionPairs
      BY DEF MotionPairs, Motion
    <2>2. \A g \in Motion : <<intr_accel_no_motion, 0>> = g \/ Apart(intr_accel_no_motion, g[1])
      BY <2>1, MotionPairsApart
    <2> QED BY <1>3, <2>2 DEF SparesAll, Spares, Makes
  <1>7. SparesAll(S[1], Motion) /\ SparesAll(S[2], Motion)
    BY <1>3, GoalsPages, SettingsFields, UnitsFields, PagesApart
  <1>8. Apart(power_mode, operation_mode)
    BY SettingsFields, UnitsFields DEF Apart, Key
  <1>9. WillAll(Motion, regs, S)
    <2> SUFFICES ASSUME NEW g \in Motion PROVE Will(g[1], g[2], regs, S)
      BY DEF WillAll
    <2>1. \A i \in DOMAIN S : Spares(S[i], g[1], g[2])
      <3>1. \A i \in 1..4 : i = 1 \/ i = 2 \/ i = 3 \/ i = 4
        OBVIOUS
      <3>2. Spares(S[1], g[1], g[2]) /\ Spares(S[2], g[1], g[2]) /\ Spares(S[3], g[1], g[2]) /\ Spares(S[4], g[1], g[2])
        BY <1>4, <1>6, <1>7 DEF SparesAll
      <3> QED BY <1>2, <3>1, <3>2
    <2>2. Holds(g[1], g[2], regs)
      BY DEF HoldAll
    <2> QED BY <2>1, <2>2, WillStay
  <1>10. Will(operation_mode, OPERATION_MODE_ACCONLY, regs, S)
    <2>1. Makes(S[1], operation_mode, OPERATION_MODE_ACCONLY)
      BY <1>3 DEF Makes
    <2>2. <<operation_mode, OPERATION_MODE_ACCONLY>> \in Asleep
      BY DEF Asleep
    <2>3. /\ Spares(S[2], operation_mode, OPERATION_MODE_ACCONLY)
          /\ Spares(S[3], operation_mode, OPERATION_MODE_ACCONLY)
          /\ Spares(S[4], operation_mode, OPERATION_MODE_ACCONLY)
      BY <1>3, <1>4, <1>5, <1>8, <2>2 DEF SparesAll, Spares
    <2>4. \A j \in DOMAIN S : j > 1 => j = 2 \/ j = 3 \/ j = 4
      BY <1>2
    <2>5. 1 \in DOMAIN S
      BY <1>2
    <2> QED BY <2>1, <2>3, <2>4, <2>5 DEF Will
  <1>11. Will(power_mode, POWER_MODE_LOWPOWER, regs, S)
    <2>1. Makes(S[2], power_mode, POWER_MODE_LOWPOWER)
      BY <1>3 DEF Makes
    <2>2. <<power_mode, POWER_MODE_LOWPOWER>> \in Asleep
      BY DEF Asleep
    <2>3. Spares(S[3], power_mode, POWER_MODE_LOWPOWER) /\ Spares(S[4], power_mode, POWER_MODE_LOWPOWER)
      BY <1>4, <1>5, <2>2 DEF SparesAll
    <2>4. \A j \in DOMAIN S : j > 2 => j = 3 \/ j = 4
      BY <1>2
    <2>5. 2 \in DOMAIN S
      BY <1>2
    <2> QED BY <2>1, <2>3, <2>4, <2>5 DEF Will
  <1>12. WillAll(Asleep \cup Motion, regs, S)
    BY <1>9, <1>10, <1>11 DEF WillAll, Asleep
  <1> QED BY <1>1, <1>12 DEF S

\* A routine that spares the goals that hold.
LEMMA RoutineWills ==
  ASSUME NEW regs, NEW G, HoldAll(G, regs), NEW calls, \A i \in DOMAIN calls : SparesAll(calls[i], G)
  PROVE  WillAll(G, regs, calls)
  BY WillStay DEF HoldAll, SparesAll, WillAll

LEMMA ReadRoutineSpares ==
  /\ bno055_read_routine \in Seq(MeasureCalls) /\ bno055_read_routine \in Seq(Calls)
  /\ \A i \in DOMAIN bno055_read_routine : SparesAll(bno055_read_routine[i], Measured \cup Motion)
  <1> DEFINE R == bno055_read_routine
  <1>1. R \in Seq(MeasureCalls)
    BY DEF MeasureCalls, bno055_read_routine, Measures
  <1>2. \A i \in DOMAIN R : R[i] \in MeasureCalls
    BY <1>1
  <1>3. R \in Seq(Calls)
    BY DEF Calls, bno055_read_routine, Measures, Units
  <1> HIDE DEF R
  <1>4. \A i \in DOMAIN R : SparesAll(R[i], Measured \cup Motion)
    BY <1>2, MeasureCallsSpare
  <1> QED BY <1>1, <1>3, <1>4 DEF R

LEMMA ResetInterruptWills ==
  ASSUME NEW regs, HoldAll(Measured \cup Motion, regs)
  PROVE  WillAll(Measured \cup Motion, regs, ResetInterrupt)
  <1>1. \A i \in DOMAIN ResetInterrupt : ResetInterrupt[i] = SetTo(intr_rst, 1)
    BY DEF ResetInterrupt
  <1>2. \A i \in DOMAIN ResetInterrupt : SparesAll(ResetInterrupt[i], Measured \cup Motion)
    BY <1>1, ResetInterruptSpares DEF SparesAll
  <1> QED BY <1>2, RoutineWills

-----------------------------------------------------------------------------
(* The invariant. *)
CallsToMake ==
  /\ routine \in Seq(Calls)
  /\ state = "START" =>
       unit.null /\ routine \in Seq({SetTo(intr_rst, 1)}) /\ unit.regs = [r \in Registers |-> 0]
  /\ state \in {"LOGGING", "OFF"} => routine = <<>>
  /\ state = "MEASURE" => routine \in Seq(MeasureCalls)
  /\ state = "CONFIG" =>
       routine = ResetInterrupt \/ (routine = <<>> /\ (good => ~unit.null /\ unit.page_id = 0))

\* As long as no call has failed, the calls to come bring the sensor to its goals.
ReachesGoals == good /\ ~unit.misread => WillAll(Goals(state), unit.regs, routine)

\* While it measures, one failed transfer leaves the sensor as it was.
Settled ==
  state \in {"LOGGING", "MEASURE"} /\ ready /\ ~unit.misread /\ unit.faults >= MaxFaults - 1 =>
    unit.page = 0 /\ unit.page_id = 0 /\ ~unit.null /\ HoldAll(Measured, unit.regs)

SamplesTrue ==
  state = "MEASURE" /\ good /\ ~unit.misread =>
    samples \in Seq({Measuring}) /\ HoldAll(Measured, unit.regs)

ImuInv ==
  /\ TypeOK /\ TriggerClear(unit) /\ unit.faults <= MaxFaults
  /\ CacheCoherent /\ CallsToMake /\ ReachesGoals /\ Settled /\ SamplesTrue

-----------------------------------------------------------------------------
\* The units register, put together from its slices.
LEMMA UnitsByte ==
  ASSUME NEW b \in Byte, Slice(b, accel_unit) = 1, Slice(b, gyro_unit) = 0, Slice(b, euler_unit) = 0,
         Slice(b, OtherUnits) = 0
  PROVE  b = 1
  <1>1. 2^0 = 1 /\ 2^1 = 2 /\ 2^2 = 4 /\ 2^3 = 8 /\ 2^5 = 32
    <2>1. IsPower(2^0, 0) /\ IsPower(2^1, 1) /\ IsPower(2^2, 2) /\ IsPower(2^3, 3) /\ IsPower(2^5, 5)
      BY PowersOfTwo
    <2> QED BY <2>1 DEF IsPower
  <1>2. /\ Slice(b, accel_unit) = (b \div 1) % 2 /\ Slice(b, gyro_unit) = (b \div 2) % 2
        /\ Slice(b, euler_unit) = (b \div 4) % 2 /\ Slice(b, OtherUnits) = (b \div 8) % 32
    BY <1>1, UnitsFields, OtherUnitsField DEF Slice
  <1>3. b \in 0..255 /\ (b \div 1) % 2 = 1 /\ (b \div 2) % 2 = 0 /\ (b \div 4) % 2 = 0 /\ (b \div 8) % 32 = 0
    BY <1>2 DEF Byte
  <1> QED BY <1>3

LEMMA SampleMeasuring ==
  ASSUME NEW s \in Unit, s.page = 0, HoldAll(Measured, s.regs)
  PROVE  Sample(s) = Measuring
  <1>1. /\ Holds(operation_mode, OPERATION_MODE_NDOF, s.regs) /\ Holds(accel_unit, mg, s.regs)
        /\ Holds(gyro_unit, 0, s.regs) /\ Holds(euler_unit, 0, s.regs) /\ Holds(OtherUnits, 0, s.regs)
    BY DEF HoldAll, Measured
  <1>2. s.regs[<<0, 59>>] = 1
    <2>1. /\ Key(accel_unit) = <<0, 59>> /\ Key(gyro_unit) = <<0, 59>> /\ Key(euler_unit) = <<0, 59>>
          /\ Key(OtherUnits) = <<0, 59>>
      BY UnitsFields, OtherUnitsField DEF Key
    <2>2. s.regs[<<0, 59>>] \in Byte
      BY RegistersAssumption DEF Unit, UNIT_SEL
    <2> QED BY <1>1, <2>1, <2>2, UnitsByte DEF Holds, mg
  <1>3. Mode(s) = OPERATION_MODE_NDOF
    BY <1>1, OperationModeSetting DEF Holds, Mode
  <1>4. s.regs[<<0, UNIT_SEL>>] = mg
    BY <1>2 DEF UNIT_SEL, mg
  <1>5. (s.page = 0) = TRUE
    OBVIOUS
  <1> QED BY <1>3, <1>4, <1>5, Zenon DEF Sample, Measuring

LEMMA MeasureCallSound ==
  ASSUME NEW s \in Unit, TriggerClear(s), NEW c \in MeasureCalls, NEW o \in Outcomes(s, c)
  PROVE  /\ Reliable(o) /\ s.page_id = s.page => o.data = Sample(o.s) /\ o.s.page = 0
         /\ /\ s.page = 0 /\ s.page_id = 0 /\ ~s.null /\ HoldAll(Measured, s.regs)
            /\ ~o.s.misread /\ o.s.faults >= s.faults - 1
            => o.s.regs = s.regs /\ o.s.page = 0 /\ o.s.page_id = 0 /\ ~o.s.null
  <1>1. ASSUME NEW d, c = ReadOf(d)
        PROVE  /\ Sound(s, o) /\ o.s \in Unit
               /\ ~s.null /\ s.page_id = 0 => Keeps(s, o)
               /\ Reliable(o) /\ s.page_id = s.page => o.data = Sample(o.s) /\ o.s.page = 0
               /\ o.s.regs = s.regs
    <2>1. o \in ReadData(s, d)
      BY <1>1, OtherCall DEF Outcomes
    <2> QED BY <2>1, ReadDataSound DEF Near, Reliable
  <1>2. ASSUME c.op = "convert", IsConversion(c.c), HoldAll(Measured, s.regs) => WithUnit(s.regs, c.c) = s.regs
        PROVE  /\ Sound(s, o) /\ o.s \in Unit
               /\ ~s.null /\ s.page_id = 0 => Keeps(s, o)
               /\ Reliable(o) /\ s.page_id = s.page => o.data = Sample(o.s) /\ o.s.page = 0
               /\ /\ s.page = 0 /\ s.page_id = 0 /\ ~s.null /\ HoldAll(Measured, s.regs)
                  /\ ~o.s.misread /\ o.s.faults >= s.faults - 1
                  => o.s.regs = s.regs
    <2>1. o \in Convert(s, c.c)
      BY <1>2 DEF Outcomes
    <2>2. s.page = 0 /\ s.page_id = 0 => s.page_id = s.page
      OBVIOUS
    <2> QED BY <1>2, <2>1, <2>2, ConvertSound
  <1>3. ASSUME NEW d, c = ConvertTo(AsRead(d))
        PROVE  c.op = "convert" /\ IsConversion(c.c) /\ WithUnit(s.regs, c.c) = s.regs
    BY <1>3, OtherCall DEF IsConversion, WithUnit
  <1>4. ASSUME NEW d, NEW u \in {gyro_unit, euler_unit}, c = ConvertTo(Converted(d, u, 0))
        PROVE  c.op = "convert" /\ IsConversion(c.c) /\ (HoldAll(Measured, s.regs) => WithUnit(s.regs, c.c) = s.regs)
    <2>1. c.op = "convert" /\ c.c.checked /\ c.c.unit = u /\ c.c.wanted = 0
      BY <1>4, ConvertCall
    <2>2. u \in Units
      BY DEF Units
    <2>3. IsConversion(c.c) /\ IsSlice(u) /\ Key(u) \in Registers
      BY <2>1, <2>2, UnitsAreSettings, RegistersAssumption DEF IsConversion
    <2>4. ASSUME HoldAll(Measured, s.regs) PROVE WithField(s.regs, u, 0) = s.regs
      <3>1. Slice(s.regs[Key(u)], u) = 0
        BY <2>4 DEF HoldAll, Holds, Measured
      <3>2. s.regs \in [Registers -> Byte]
        BY DEF Unit
      <3> QED BY <2>3, <3>1, <3>2, WithFieldSame
    <2> QED BY <2>1, <2>3, <2>4 DEF WithUnit
  <1>5. /\ Sound(s, o) /\ o.s \in Unit
        /\ ~s.null /\ s.page_id = 0 => Keeps(s, o)
        /\ Reliable(o) /\ s.page_id = s.page => o.data = Sample(o.s) /\ o.s.page = 0
        /\ /\ s.page = 0 /\ s.page_id = 0 /\ ~s.null /\ HoldAll(Measured, s.regs)
           /\ ~o.s.misread /\ o.s.faults >= s.faults - 1
           => o.s.regs = s.regs
    BY <1>1, <1>2, <1>3, <1>4 DEF MeasureCalls
  <1> QED BY <1>5 DEF Keeps, Follows

\* Before the driver is bound, the reset of the interrupt does nothing.
LEMMA UnboundSet ==
  ASSUME NEW s \in Unit, s.null, NEW o \in Outcomes(s, SetTo(intr_rst, 1))
  PROVE  o.s = s /\ ~o.ok
  <1>1. o \in Set(s, intr_rst, 1)
    BY SetCall DEF Outcomes
  <1>2. intr_rst.page = 0 /\ intr_rst.config = FALSE
    BY SettingsFields
  <1>3. PageReady(s, 0) = {Failed(s)}
    BY DEF PageReady, write_page_id
  <1>4. ~Failed(s).ok /\ Failed(s).s = s
    BY FailedOutcome
  <1>5. Set(s, intr_rst, 1) = UNION {IF p.ok THEN Update(p.s, intr_rst, 1) ELSE {Failed(p.s)} : p \in {Failed(s)}}
    BY <1>2, <1>3 DEF Set
  <1>6. o = Failed(s)
    BY <1>1, <1>4, <1>5
  <1> QED BY <1>4, <1>6

-----------------------------------------------------------------------------
(* The invariant is kept. *)
LEMMA NoOtherUnits == Holds(OtherUnits, 0, [r \in Registers |-> 0])
  <1>1. IsSlice(OtherUnits) /\ Key(OtherUnits) \in Registers
    BY OtherUnitsField, RegistersAssumption DEF IsSlice, Key, UNIT_SEL
  <1> QED BY <1>1, ZeroSlice DEF Holds

\* The program starts, or starts again.
LEMMA StartUnit ==
  ASSUME NEW s \in Unit
  PROVE  LET u == APP_Initialize(s)
         IN  /\ u \in Unit /\ u.regs = [r \in Registers |-> 0] /\ u.null
             /\ u.faults = s.faults /\ TriggerClear(u)
  <1> DEFINE r == Reset(s)
             u == [r EXCEPT !.page_id = 0, !.null = TRUE]
  <1>1. /\ r \in Unit /\ TriggerClear(r) /\ r.regs = [k \in Registers |-> 0] /\ r.faults = s.faults
    BY ResetUnit
  <1> HIDE DEF r
  <1>2. u \in Unit /\ u.regs = r.regs /\ u.null /\ u.faults = r.faults
    <2> DEFINE p == [r EXCEPT !.page_id = 0]
    <2>1. 0 \in Byte
      BY DEF Byte
    <2>2. p \in Unit /\ p.regs = r.regs /\ p.faults = r.faults
      BY <1>1, <2>1 DEF Unit
    <2>3. u = [p EXCEPT !.null = TRUE]
      BY <1>1 DEF Unit
    <2> HIDE DEF p, u
    <2>4. TRUE \in BOOLEAN
      OBVIOUS
    <2>5. u \in Unit
      BY <2>2, <2>3, <2>4 DEF Unit
    <2>6. u.regs = p.regs /\ u.faults = p.faults /\ u.null
      BY <2>2, <2>3 DEF Unit
    <2> QED BY <2>2, <2>5, <2>6
  <1>3. TriggerClear(u)
    BY <1>1, <1>2 DEF TriggerClear
  <1>4. APP_Initialize(s) = u
    BY DEF APP_Initialize, r
  <1> QED BY <1>1, <1>2, <1>3, <1>4

LEMMA InitImu == Init => ImuInv
  <1> SUFFICES ASSUME Init PROVE ImuInv
    OBVIOUS
  <1> DEFINE zeros == [r \in Registers |-> 0]
             first == [page |-> 0, regs |-> zeros, page_id |-> 0, null |-> TRUE, faults |-> MaxFaults, misread |-> FALSE]
  <1>1. unit = APP_Initialize(first)
    BY DEF Init
  <1>2. zeros \in [Registers -> Byte]
    BY DEF Byte
  <1>3. first \in Unit /\ first.faults = MaxFaults
    BY <1>2, ImuAssumption DEF Unit, Byte
  <1>4. unit \in Unit /\ unit.regs = zeros /\ unit.null /\ unit.faults = MaxFaults /\ TriggerClear(unit)
    BY <1>1, <1>3, StartUnit
  <1> HIDE DEF zeros, first
  <1>5. /\ state = "START" /\ good = TRUE /\ ready = FALSE /\ routine = ResetInterrupt
    BY DEF Init
  <1>6. {comres, good, ready} \subseteq BOOLEAN
    <2>1. comres = TRUE /\ good = TRUE /\ ready = FALSE
      BY DEF Init
    <2>2. TRUE \in BOOLEAN /\ FALSE \in BOOLEAN
      OBVIOUS
    <2> QED BY <2>1, <2>2, Zenon
  <1>7. TypeOK
    <2>1. starts = 1 /\ 1 \in 1..MaxStarts
      BY ImuAssumption DEF Init
    <2> QED BY <1>4, <1>5, <1>6, <2>1 DEF TypeOK
  <1>8. TriggerClear(unit) /\ unit.faults <= MaxFaults
    BY <1>4, ImuAssumption
  <1>9. CallsToMake
    BY <1>4, <1>5, ResetInterruptSpares DEF CallsToMake, zeros
  <1>10. ReachesGoals
    BY <1>5 DEF ReachesGoals, Goals, WillAll
  <1> QED BY <1>4, <1>5, <1>7, <1>8, <1>9, <1>10 DEF ImuInv, CacheCoherent, Settled, SamplesTrue

\* The goals of a state are among those that are goals.
LEMMA GoalsOfStates ==
  ASSUME NEW st, NEW g \in Goals(st)
  PROVE  g \in Measured \cup Motion \cup Asleep
  BY DEF Goals

LEMMA WillAllStep ==
  ASSUME NEW regs \in [Registers -> Byte], NEW st, NEW calls \in Seq(Calls), calls # <<>>, WillAll(Goals(st), regs, calls)
  PROVE  WillAll(Goals(st), Effect(Head(calls), regs), Tail(calls))
  <1> SUFFICES ASSUME NEW g \in Goals(st) PROVE Will(g[1], g[2], Effect(Head(calls), regs), Tail(calls))
    BY DEF WillAll
  <1>1. IsGoal(g[1], g[2])
    BY GoalsOfStates, GoalsAreGoals
  <1>2. Will(g[1], g[2], regs, calls)
    BY DEF WillAll
  <1> QED BY <1>1, <1>2, WillStep

LEMMA WillAllDone == ASSUME NEW G, NEW regs PROVE WillAll(G, regs, <<>>) <=> HoldAll(G, regs)
  BY WillDone DEF WillAll, HoldAll

LEMMA HoldSome == ASSUME NEW G, NEW H, H \subseteq G, NEW regs, HoldAll(G, regs) PROVE HoldAll(H, regs)
  BY DEF HoldAll

\* A call of the program.
LEMMA CallImu == ImuInv /\ Call => ImuInv'
  <1> SUFFICES ASSUME ImuInv, Call PROVE ImuInv'
    OBVIOUS
  <1> DEFINE c == Head(routine)
  <1>1. /\ routine # <<>> /\ routine \in Seq(Calls) /\ unit \in Unit /\ TriggerClear(unit)
        /\ unit.faults <= MaxFaults
    BY DEF Call, ImuInv, TypeOK, CallsToMake
  <1>2. c \in Calls /\ Tail(routine) \in Seq(Calls)
    BY <1>1
  <1>3. PICK o \in Outcomes(unit, c) :
          /\ unit' = o.s
          /\ comres' = (comres /\ o.ok)
          /\ good' = (state = "START" \/ (good /\ o.ok))
          /\ samples' = IF state = "MEASURE"
                        THEN Append(samples, IF o.ok THEN o.data ELSE NoSample) ELSE samples
    BY DEF Call
  <1>4. routine' = Tail(routine) /\ state' = state /\ ready' = ready /\ starts' = starts
    BY DEF Call
  <1>5. /\ IsOutcome(o) /\ o.s \in Unit
        /\ unit.misread => o.s.misread
        /\ o.s.faults <= unit.faults
        /\ TriggerClear(o.s)
        /\ IF c.op = "init" THEN ~o.s.null ELSE o.s.null = unit.null /\ (o.ok => ~unit.null)
        /\ Reliable(o) /\ (c.op = "init" \/ unit.page_id = unit.page) =>
             /\ o.s.page_id = o.s.page
             /\ o.s.regs = Effect(c, unit.regs)
    BY <1>1, <1>2, CallSound
  <1>6. o.ok \in BOOLEAN /\ o.s.faults \in Nat /\ unit.faults \in Nat
    <2>1. o.ok \in BOOLEAN
      BY <1>5 DEF IsOutcome
    <2>2. o.s.faults \in Nat /\ unit.faults \in Nat
      BY <1>1, <1>5 DEF Unit
    <2> QED BY <2>1, <2>2
  <1> HIDE DEF c
  <1>7. TypeOK'
    <2>1. {comres, good, ready} \subseteq BOOLEAN /\ starts \in 1..MaxStarts
          /\ state \in {"START", "INIT", "CONFIG", "LOGGING", "MEASURE", "SHUTDOWN", "OFF"}
      BY DEF ImuInv, TypeOK
    <2>2. comres' \in BOOLEAN /\ good' \in BOOLEAN /\ ready' \in BOOLEAN
      BY <1>3, <1>4, <1>6, <2>1
    <2> QED BY <1>3, <1>4, <1>5, <2>1, <2>2 DEF TypeOK
  <1>8. TriggerClear(unit)' /\ (unit.faults <= MaxFaults)'
    <2>1. TriggerClear(unit')
      BY <1>3, <1>5
    <2>2. o.s.faults <= MaxFaults
      BY <1>1, <1>5, <1>6, ImuAssumption
    <2> QED BY <1>3, <2>1, <2>2 DEF TriggerClear
  <1>9. CASE state = "START"
    <2>1. unit.null /\ routine \in Seq({SetTo(intr_rst, 1)}) /\ unit.regs = [r \in Registers |-> 0]
      BY <1>9 DEF ImuInv, CallsToMake
    <2>2. c = SetTo(intr_rst, 1) /\ Tail(routine) \in Seq({SetTo(intr_rst, 1)})
      BY <1>1, <2>1 DEF c
    <2>3. o.s = unit
      BY <1>1, <1>3, <2>1, <2>2, UnboundSet
    <2>4. CallsToMake'
      BY <1>2, <1>3, <1>4, <1>9, <2>1, <2>2, <2>3 DEF CallsToMake
    <2>5. ReachesGoals'
      BY <1>4, <1>9 DEF ReachesGoals, Goals, WillAll
    <2>6. CacheCoherent' /\ Settled' /\ SamplesTrue'
      BY <1>3, <1>4, <1>9, <2>1, <2>3 DEF CacheCoherent, Settled, SamplesTrue
    <2> QED BY <1>7, <1>8, <2>4, <2>5, <2>6 DEF ImuInv
  <1>10. CASE state # "START"
    <2>1. good' = (good /\ o.ok)
      BY <1>3, <1>10
    \* As long as all is well, the driver knew the page before the call.
    <2>2. good' /\ ~o.s.misread /\ ~o.s.null =>
            good /\ Reliable(o) /\ ~unit.misread /\ (c.op = "init" \/ (~unit.null /\ unit.page_id = unit.page))
      BY <1>5, <1>6, <2>1 DEF Reliable, ImuInv, CacheCoherent
    <2>3. good' => ~o.s.null
      BY <1>5, <1>6, <2>1
    <2>4. CacheCoherent'
      BY <1>3, <1>5, <2>2 DEF CacheCoherent
    <2>5. state' # "START" /\ state' \notin {"LOGGING", "OFF"}
      BY <1>1, <1>4, <1>10 DEF ImuInv, CallsToMake
    <2>6. CallsToMake'
      <3>1. state' = "MEASURE" => routine' \in Seq(MeasureCalls)
        BY <1>1, <1>4 DEF ImuInv, CallsToMake
      <3>2. state' = "CONFIG" => routine' = <<>> /\ (good' => ~unit'.null /\ unit'.page_id = 0)
        <4> SUFFICES ASSUME state = "CONFIG" PROVE routine' = <<>> /\ (good' => ~unit'.null /\ unit'.page_id = 0)
          BY <1>4
        <4>1. routine = ResetInterrupt
          BY <1>1 DEF ImuInv, CallsToMake
        <4>2. routine' = <<>> /\ c = SetTo(intr_rst, 1)
          BY <1>4, <4>1 DEF ResetInterrupt, c
        <4>3. o \in Set(unit, intr_rst, 1)
          BY <1>3, <4>2, SetCall DEF Outcomes
        <4>4. IsSetting(intr_rst) /\ intr_rst.page = 0 /\ 1 \in Nat
          BY SettingsAreSettings, SettingsFields DEF Settings
        <4>5. o.ok => o.s.page_id = 0
          BY <1>1, <4>3, <4>4, SetSound
        <4> QED BY <1>3, <2>1, <2>3, <4>2, <4>5
      <3> QED BY <1>2, <1>4, <2>5, <3>1, <3>2 DEF CallsToMake
    <2>7. ReachesGoals'
      <3> SUFFICES ASSUME good', ~o.s.misread
                   PROVE  WillAll(Goals(state), o.s.regs, Tail(routine))
        BY <1>3, <1>4 DEF ReachesGoals
      <3>1. o.s.regs = Effect(c, unit.regs) /\ good /\ ~unit.misread
        BY <1>5, <2>2, <2>3
      <3>2. WillAll(Goals(state), unit.regs, routine) /\ unit.regs \in [Registers -> Byte]
        BY <1>1, <3>1 DEF ImuInv, ReachesGoals, Unit
      <3> QED BY <1>1, <3>1, <3>2, WillAllStep DEF c
    <2>8. state = "MEASURE" => c \in MeasureCalls
      BY <1>1 DEF ImuInv, CallsToMake, c
    <2>9. Settled'
      <3> SUFFICES ASSUME state = "MEASURE", ready, ~o.s.misread, o.s.faults >= MaxFaults - 1
                   PROVE  o.s.page = 0 /\ o.s.page_id = 0 /\ ~o.s.null /\ HoldAll(Measured, o.s.regs)
        BY <1>3, <1>4, <2>5 DEF Settled
      <3>1. ~unit.misread /\ unit.faults >= MaxFaults - 1 /\ o.s.faults >= unit.faults - 1
        BY <1>1, <1>5, <1>6, ImuAssumption
      <3>2. unit.page = 0 /\ unit.page_id = 0 /\ ~unit.null /\ HoldAll(Measured, unit.regs)
        BY <3>1 DEF ImuInv, Settled
      <3>3. o.s.regs = unit.regs /\ o.s.page = 0 /\ o.s.page_id = 0 /\ ~o.s.null
        BY <1>1, <1>3, <2>8, <3>1, <3>2, MeasureCallSound
      <3> QED BY <3>2, <3>3
    <2>10. SamplesTrue'
      <3> SUFFICES ASSUME state = "MEASURE", good', ~o.s.misread
                   PROVE  samples' \in Seq({Measuring}) /\ HoldAll(Measured, o.s.regs)
        BY <1>3, <1>4 DEF SamplesTrue
      <3>1. good /\ Reliable(o) /\ ~unit.misread
        BY <2>2, <2>3
      <3>2. c.op # "init"
        BY <2>8, OtherCall, ConvertCall DEF MeasureCalls
      <3>3. unit.page_id = unit.page
        BY <2>2, <2>3, <3>2
      <3>4. o.data = Sample(o.s) /\ o.s.page = 0 /\ o.s.regs = Effect(c, unit.regs)
        BY <1>1, <1>3, <1>5, <2>8, <3>1, <3>3, MeasureCallSound
      <3>5. HoldAll(Measured, o.s.regs)
        <4>1. HoldAll(Measured, unit.regs) /\ unit.regs \in [Registers -> Byte]
          BY <1>1, <3>1 DEF ImuInv, SamplesTrue, Unit
        <4>2. ASSUME NEW g \in Measured PROVE Holds(g[1], g[2], Effect(c, unit.regs))
          <5>1. IsGoal(g[1], g[2])
            BY GoalsAreGoals
          <5>2. Spares(c, g[1], g[2])
            BY <2>8, MeasureCallsSpare DEF SparesAll
          <5>3. Holds(g[1], g[2], unit.regs)
            BY <4>1 DEF HoldAll
          <5> QED BY <1>2, <4>1, <5>1, <5>2, <5>3, EffectSpares
        <4> QED BY <3>4, <4>2 DEF HoldAll
      <3>6. o.data = Measuring
        BY <1>5, <3>4, <3>5, SampleMeasuring
      <3>7. samples \in Seq({Measuring})
        BY <3>1 DEF ImuInv, SamplesTrue
      <3>8. samples' = Append(samples, Measuring)
        BY <1>3, <3>1, <3>6 DEF Reliable
      <3> QED BY <3>5, <3>7, <3>8
    <2> QED BY <1>7, <1>8, <2>4, <2>6, <2>7, <2>9, <2>10 DEF ImuInv
  <1> QED BY <1>9, <1>10

\* What the application does between its calls: it goes to another state, with calls to make.
LEMMA GoImu ==
  ASSUME ImuInv, NEW next \in {"INIT", "CONFIG", "LOGGING", "MEASURE", "SHUTDOWN", "OFF"},
         NEW calls \in Seq(Calls), Go(next, calls), ready' \in BOOLEAN,
         next \in {"LOGGING", "OFF"} => calls = <<>>,
         next = "MEASURE" => calls \in Seq(MeasureCalls),
         next = "CONFIG" => calls = ResetInterrupt,
         good /\ ~unit.misread => WillAll(Goals(next), unit.regs, calls),
         next \in {"LOGGING", "MEASURE"} /\ ready' /\ ~unit.misread /\ unit.faults >= MaxFaults - 1 =>
           unit.page = 0 /\ unit.page_id = 0 /\ ~unit.null /\ HoldAll(Measured, unit.regs),
         next = "MEASURE" /\ good /\ ~unit.misread => HoldAll(Measured, unit.regs)
  PROVE  ImuInv'
  <1>1. /\ state' = next /\ routine' = calls /\ comres' = TRUE /\ samples' = <<>>
        /\ unit' = unit /\ good' = good /\ starts' = starts
    BY DEF Go
  <1>2. TypeOK'
    <2>1. unit \in Unit /\ good \in BOOLEAN /\ starts \in 1..MaxStarts
      BY DEF ImuInv, TypeOK
    <2>2. {comres', good', ready'} \subseteq BOOLEAN
      <3>1. comres' \in BOOLEAN /\ good' \in BOOLEAN
        BY <1>1, <2>1
      <3> QED BY <3>1
    <2> QED BY <1>1, <2>1, <2>2 DEF TypeOK
  <1>3. TriggerClear(unit)' /\ (unit.faults <= MaxFaults)' /\ CacheCoherent'
    BY <1>1 DEF ImuInv, TriggerClear, CacheCoherent
  <1>4. CallsToMake'
    BY <1>1 DEF CallsToMake
  <1>5. ReachesGoals' /\ Settled'
    BY <1>1 DEF ReachesGoals, Settled
  <1>6. SamplesTrue'
    <2>1. <<>> \in Seq({Measuring})
      OBVIOUS
    <2> QED BY <1>1, <2>1 DEF SamplesTrue
  <1> QED BY <1>2, <1>3, <1>4, <1>5, <1>6 DEF ImuInv

LEMMA ActionsImu ==
  ASSUME ImuInv, routine = <<>>,
         TaskInit \/ TaskConfig \/ StartLogging \/ Measure \/ MeasureDone \/ Shutdown \/ PowerOff \/ ShutdownAgain
  PROVE  ImuInv'
  <1>1. good /\ ~unit.misread => HoldAll(Goals(state), unit.regs)
    BY WillAllDone DEF ImuInv, ReachesGoals
  <1>2. /\ unit \in Unit /\ unit.regs \in [Registers -> Byte]
        /\ ready \in BOOLEAN /\ good \in BOOLEAN
    BY DEF ImuInv, TypeOK, Unit
  <1>3. /\ \A st \in {"INIT", "CONFIG", "LOGGING", "MEASURE"} : Goals(st) = Measured \cup Motion
        /\ \A st \in {"SHUTDOWN", "OFF"} : Goals(st) = Asleep \cup Motion
    BY DEF Goals
  <1>4. <<>> \in Seq(Calls) /\ ResetInterrupt \in Seq(Calls)
    BY ResetInterruptSpares
  <1>5. CASE TaskInit
    <2> DEFINE calls == bno055_init_readout \o MotionInterrupt
    <2>1. state = "START" /\ Go("INIT", calls) /\ ready' = ready
      BY <1>5 DEF TaskInit, Enter
    <2>2. unit.regs = [r \in Registers |-> 0]
      BY <2>1 DEF ImuInv, CallsToMake
    <2>3. calls \in Seq(Calls) /\ WillAll(Measured \cup Motion, unit.regs, calls)
      BY <1>2, <2>2, NoOtherUnits, StartWills
    <2> HIDE DEF calls
    <2> QED BY <1>2, <1>3, <2>1, <2>3, GoImu
  <1>6. CASE TaskConfig
    <2>1. state \in {"INIT", "CONFIG"} /\ Go("CONFIG", ResetInterrupt) /\ ready' = ready
      BY <1>6 DEF TaskConfig, Enter
    <2>2. good /\ ~unit.misread => WillAll(Goals("CONFIG"), unit.regs, ResetInterrupt)
      BY <1>1, <1>3, <2>1, ResetInterruptWills
    <2> QED BY <1>2, <1>4, <2>1, <2>2, GoImu
  <1>7. CASE StartLogging
    <2>1. state = "CONFIG" /\ Go("LOGGING", <<>>) /\ ready' = good
      BY <1>7 DEF StartLogging
    <2>2. good /\ ~unit.misread => HoldAll(Measured \cup Motion, unit.regs) /\ HoldAll(Measured, unit.regs)
      BY <1>1, <1>3, <2>1, HoldSome
    <2>3. good => ~unit.null /\ unit.page_id = 0
      BY <2>1 DEF ImuInv, CallsToMake, ResetInterrupt
    <2>4. good /\ ~unit.misread => unit.page = 0
      BY <2>3 DEF ImuInv, CacheCoherent
    <2>5. good /\ ~unit.misread => WillAll(Goals("LOGGING"), unit.regs, <<>>)
      BY <1>3, <2>2, WillAllDone
    <2> QED BY <1>2, <1>4, <2>1, <2>2, <2>3, <2>4, <2>5, GoImu
  <1>8. CASE Measure
    <2> DEFINE calls == bno055_read_routine
    <2>1. state = "LOGGING" /\ Go("MEASURE", calls) /\ ready' = ready
      BY <1>8 DEF Measure, Enter
    <2>2. good /\ ~unit.misread => HoldAll(Measured \cup Motion, unit.regs) /\ HoldAll(Measured, unit.regs)
      BY <1>1, <1>3, <2>1, HoldSome
    <2>3. /\ calls \in Seq(MeasureCalls) /\ calls \in Seq(Calls)
          /\ \A i \in DOMAIN calls : SparesAll(calls[i], Measured \cup Motion)
      BY ReadRoutineSpares
    <2> HIDE DEF calls
    <2>4. good /\ ~unit.misread => WillAll(Goals("MEASURE"), unit.regs, calls)
      BY <1>3, <2>2, <2>3, RoutineWills
    <2>5. ready' /\ ~unit.misread /\ unit.faults >= MaxFaults - 1 =>
            unit.page = 0 /\ unit.page_id = 0 /\ ~unit.null /\ HoldAll(Measured, unit.regs)
      BY <2>1 DEF ImuInv, Settled
    <2> QED BY <1>2, <2>1, <2>2, <2>3, <2>4, <2>5, GoImu
  <1>9. CASE MeasureDone
    <2>1. state = "MEASURE" /\ Go("LOGGING", <<>>) /\ ready' = ready
      BY <1>9 DEF MeasureDone, Enter
    <2>2. good /\ ~unit.misread => WillAll(Goals("LOGGING"), unit.regs, <<>>)
      BY <1>1, <1>3, <2>1, WillAllDone
    <2>3. ready' /\ ~unit.misread /\ unit.faults >= MaxFaults - 1 =>
            unit.page = 0 /\ unit.page_id = 0 /\ ~unit.null /\ HoldAll(Measured, unit.regs)
      BY <2>1 DEF ImuInv, Settled
    <2> QED BY <1>2, <1>4, <2>1, <2>2, <2>3, GoImu
  <1>10. CASE Shutdown \/ ShutdownAgain
    <2> DEFINE calls == sys_shutdown
    <2>1. state \in {"CONFIG", "LOGGING", "OFF"} /\ Go("SHUTDOWN", calls) /\ ready' = ready
      BY <1>10 DEF Shutdown, ShutdownAgain, Enter
    <2>2. good /\ ~unit.misread => HoldAll(Motion, unit.regs)
      BY <1>1, <1>3, <2>1, HoldSome
    <2>3. HoldAll(Motion, unit.regs) => WillAll(Asleep \cup Motion, unit.regs, calls)
      BY ShutdownWills
    <2>4. calls \in Seq(Calls)
      BY DEF Calls, sys_shutdown, Settings, OPERATION_MODE_ACCONLY, POWER_MODE_LOWPOWER
    <2> HIDE DEF calls
    <2>5. good /\ ~unit.misread => WillAll(Goals("SHUTDOWN"), unit.regs, calls)
      BY <1>3, <2>2, <2>3
    <2> QED BY <1>2, <2>1, <2>4, <2>5, GoImu
  <1>11. CASE PowerOff
    <2>1. state = "SHUTDOWN" /\ Go("OFF", <<>>) /\ ready' = ready
      BY <1>11 DEF PowerOff, Enter
    <2>2. good /\ ~unit.misread => WillAll(Goals("OFF"), unit.regs, <<>>)
      BY <1>1, <1>3, <2>1, WillAllDone
    <2> QED BY <1>2, <1>4, <2>1, <2>2, GoImu
  <1> QED BY <1>5, <1>6, <1>7, <1>8, <1>9, <1>10, <1>11

LEMMA StartImu == ImuInv /\ Start => ImuInv'
  <1> SUFFICES ASSUME ImuInv, Start PROVE ImuInv'
    OBVIOUS
  <1>1. unit \in Unit /\ starts \in 1..MaxStarts /\ unit.faults <= MaxFaults
    BY DEF ImuInv, TypeOK
  <1>2. /\ starts < MaxStarts /\ starts' = starts + 1 /\ unit' = APP_Initialize(unit)
        /\ state' = "START" /\ routine' = ResetInterrupt /\ comres' = TRUE /\ good' = TRUE /\ ready' = FALSE
    BY DEF Start
  <1>3. /\ unit' \in Unit /\ unit'.regs = [r \in Registers |-> 0] /\ unit'.null
        /\ unit'.faults = unit.faults /\ TriggerClear(unit')
    BY <1>1, <1>2, StartUnit
  <1>4. TypeOK'
    <2>1. starts' \in 1..MaxStarts
      BY <1>1, <1>2, ImuAssumption
    <2>2. TRUE \in BOOLEAN /\ FALSE \in BOOLEAN
      OBVIOUS
    <2>3. {comres', good', ready'} \subseteq BOOLEAN
      BY <1>2, <2>2, Zenon
    <2> QED BY <1>2, <1>3, <2>1, <2>3 DEF TypeOK
  <1>5. TriggerClear(unit)' /\ (unit.faults <= MaxFaults)'
    <2>1. TriggerClear(unit)'
      BY <1>3 DEF TriggerClear
    <2> QED BY <1>1, <1>3, <2>1
  <1>6. CallsToMake'
    BY <1>2, <1>3, ResetInterruptSpares DEF CallsToMake
  <1>7. ReachesGoals'
    BY <1>2 DEF ReachesGoals, Goals, WillAll
  <1>8. CacheCoherent' /\ Settled' /\ SamplesTrue'
    BY <1>2, <1>3 DEF CacheCoherent, Settled, SamplesTrue
  <1> QED BY <1>4, <1>5, <1>6, <1>7, <1>8 DEF ImuInv

LEMMA NextImu == ImuInv /\ [Next]_vars => ImuInv'
  <1> SUFFICES ASSUME ImuInv, [Next]_vars PROVE ImuInv'
    OBVIOUS
  <1>1. CASE Call
    BY <1>1, CallImu
  <1>2. CASE /\ routine = <<>>
             /\ TaskInit \/ TaskConfig \/ StartLogging \/ Measure \/ MeasureDone \/ Shutdown \/ PowerOff \/ ShutdownAgain
    BY <1>2, ActionsImu
  <1>3. CASE Start
    BY <1>3, StartImu
  <1>4. CASE UNCHANGED vars
    BY <1>4 DEF vars, ImuInv, TypeOK, TriggerClear, CacheCoherent, CallsToMake, ReachesGoals, Settled, SamplesTrue
  <1> QED BY <1>1, <1>2, <1>3, <1>4 DEF Next

LEMMA ImuInvariant == Spec => []ImuInv
  BY InitImu, NextImu, PTL DEF Spec

-----------------------------------------------------------------------------
\* The registers stay bytes, whatever the program makes of a failure.
THEOREM ImuTypeOK == Spec => []TypeOK
  <1>1. ImuInv => TypeOK
    BY DEF ImuInv
  <1> QED BY ImuInvariant, <1>1, PTL

\* The driver knows the page of the sensor as long as no call has reported an error and
\* no read was spoilt unnoticed (bno055.c trusts its copy of the page), whatever transfers
\* have failed since the start, and however often the program was started.
THEOREM CacheStaysCoherent == Spec => []CacheCoherent
  <1>1. ImuInv => CacheCoherent
    BY DEF ImuInv
  <1> QED BY ImuInvariant, <1>1, PTL

\* What bno055_read_routine measures is measured in the fusion mode and in the units that
\* bno055_init_readout has left, as long as no call has reported an error.
THEOREM MeasuresAreTrue == Spec => []MeasureIsTrue
  <1>1. ImuInv => MeasureIsTrue
    <2> SUFFICES ASSUME ImuInv, state = "MEASURE", good, ~unit.misread, NEW i \in DOMAIN samples
                 PROVE  samples[i] = Measuring
      BY DEF MeasureIsTrue
    <2>1. samples \in Seq({Measuring})
      BY DEF ImuInv, SamplesTrue
    <2> QED BY <2>1
  <1> QED BY ImuInvariant, <1>1, PTL

\* A failed transfer while the program measures leaves the sensor as it was: the program
\* looks at no result, and the conversions set a unit they could not read.
THEOREM OneFailureDoesNoHarm == Spec => []OneFailureIsHarmless
  <1>1. ImuInv => OneFailureIsHarmless
    <2> SUFFICES ASSUME ImuInv, state = "LOGGING", ready, ~unit.misread, unit.faults >= MaxFaults - 1
                 PROVE  Sample(unit) = Measuring /\ unit.page_id = 0
      BY DEF OneFailureIsHarmless
    <2>1. unit.page = 0 /\ unit.page_id = 0 /\ HoldAll(Measured, unit.regs) /\ unit \in Unit
      BY DEF ImuInv, Settled, TypeOK
    <2> QED BY <2>1, SampleMeasuring
  <1> QED BY ImuInvariant, <1>1, PTL

\* sys_shutdown leaves the sensor in low power, and the interrupt of a motion armed as
\* bno055_init_readout has armed it, whatever was measured in between.
THEOREM SleepsAtPowerOff == Spec => []AsleepAtPowerOff
  <1>1. ImuInv => AsleepAtPowerOff
    <2> SUFFICES ASSUME ImuInv, state = "OFF", good, ~unit.misread
                 PROVE  /\ Mode(unit) = OPERATION_MODE_ACCONLY
                        /\ Slice(unit.regs[<<0, 62>>], power_mode) = POWER_MODE_LOWPOWER
                        /\ Bit(<<1, 16>>, 6) /\ ~Bit(<<1, 16>>, 7) /\ Bit(<<1, 15>>, 6)
                        /\ \A axis \in 0..2 : Bit(<<1, 18>>, 2 + axis)
                        /\ unit.regs[<<1, 17>>] = 25
      BY DEF AsleepAtPowerOff
    <2>1. HoldAll(Asleep \cup Motion, unit.regs)
      <3>1. routine = <<>> /\ WillAll(Goals("OFF"), unit.regs, routine)
        BY DEF ImuInv, CallsToMake, ReachesGoals
      <3>2. Goals("OFF") = Asleep \cup Motion
        BY DEF Goals
      <3> QED BY <3>1, <3>2, WillAllDone
    <2>2. \A g \in Asleep \cup Motion : Slice(unit.regs[Key(g[1])], g[1]) = g[2]
      BY <2>1 DEF HoldAll, Holds
    <2>3. ASSUME NEW f, NEW v, <<f, v>> \in Asleep \cup Motion
          PROVE  Slice(unit.regs[Key(f)], f) = v
      BY <2>2, <2>3
    <2>4. Mode(unit) = OPERATION_MODE_ACCONLY
      <3>1. Slice(unit.regs[Key(operation_mode)], operation_mode) = OPERATION_MODE_ACCONLY
        <4>1. <<operation_mode, OPERATION_MODE_ACCONLY>> \in Asleep
          BY DEF Asleep
        <4> QED BY <2>3, <4>1
      <3> QED BY <3>1, OperationModeSetting DEF Mode
    <2>5. Slice(unit.regs[<<0, 62>>], power_mode) = POWER_MODE_LOWPOWER
      <3>1. Slice(unit.regs[Key(power_mode)], power_mode) = POWER_MODE_LOWPOWER
        <4>1. <<power_mode, POWER_MODE_LOWPOWER>> \in Asleep
          BY DEF Asleep
        <4> QED BY <2>3, <4>1
      <3> QED BY <3>1, SettingsFields DEF Key
    <2>6. ASSUME NEW f, NEW v, <<f, v>> \in Motion, f.len = 1
          PROVE  Bit(Key(f), f.pos) <=> v = 1
      <3>1. Slice(unit.regs[Key(f)], f) = v
        BY <2>3, <2>6
      <3>2. Slice(unit.regs[Key(f)], [pos |-> f.pos, len |-> 1]) = Slice(unit.regs[Key(f)], f)
        BY <2>6 DEF Slice
      <3> QED BY <3>1, <3>2 DEF Bit
    <2>7. Bit(<<1, 16>>, 6) /\ ~Bit(<<1, 16>>, 7) /\ Bit(<<1, 15>>, 6)
      <3>1. /\ <<intr_accel_any_motion, 1>> \in Motion /\ <<intr_accel_no_motion, 0>> \in Motion
            /\ <<intr_mask_accel_any_motion, 1>> \in Motion
        BY DEF Motion
      <3>2. /\ Key(intr_accel_any_motion) = <<1, 16>> /\ intr_accel_any_motion.pos = 6 /\ intr_accel_any_motion.len = 1
            /\ Key(intr_accel_no_motion) = <<1, 16>> /\ intr_accel_no_motion.pos = 7 /\ intr_accel_no_motion.len = 1
            /\ Key(intr_mask_accel_any_motion) = <<1, 15>> /\ intr_mask_accel_any_motion.pos = 6
            /\ intr_mask_accel_any_motion.len = 1
        BY SettingsFields DEF Key
      <3>3. Bit(<<1, 16>>, 6)
        BY <2>6, <3>1, <3>2
      <3>4. ~Bit(<<1, 16>>, 7)
        BY <2>6, <3>1, <3>2
      <3>5. Bit(<<1, 15>>, 6)
        BY <2>6, <3>1, <3>2
      <3> QED BY <3>3, <3>4, <3>5
    <2>8. ASSUME NEW axis \in 0..2 PROVE Bit(<<1, 18>>, 2 + axis)
      <3> DEFINE f == accel_any_motion_no_motion_axis_enable(axis)
      <3>1. <<f, 1>> \in Motion
        BY DEF Motion
      <3>2. Key(f) = <<1, 18>> /\ f.pos = 2 + axis /\ f.len = 1
        BY SettingsFields DEF Key
      <3> HIDE DEF f
      <3> QED BY <2>6, <3>1, <3>2
    <2>9. unit.regs[<<1, 17>>] = 25
      <3> DEFINE b == unit.regs[<<1, 17>>]
      <3>1. Slice(unit.regs[Key(accel_any_motion_thres)], accel_any_motion_thres) = 25
        <4>1. <<accel_any_motion_thres, 25>> \in Motion
          BY DEF Motion
        <4> QED BY <2>3, <4>1
      <3>2. /\ Key(accel_any_motion_thres) = <<1, 17>> /\ accel_any_motion_thres.pos = 0
            /\ accel_any_motion_thres.len = 8
        BY SettingsFields DEF Key
      <3>3. b \in Byte
        BY ImuAssumption DEF ImuInv, TypeOK, Unit
      <3>4. 2^0 = 1 /\ 2^8 = 256
        <4>1. IsPower(2^0, 0) /\ IsPower(2^8, 8)
          BY PowersOfTwo
        <4> QED BY <4>1 DEF IsPower
      <3>5. (b \div 1) % 256 = 25
        BY <3>1, <3>2, <3>4 DEF Slice
      <3> HIDE DEF b
      <3>6. b = 25
        BY <3>3, <3>5 DEF Byte
      <3> QED BY <3>6 DEF b
    <2> QED BY <2>4, <2>5, <2>7, <2>8, <2>9
  <1> QED BY ImuInvariant, <1>1, PTL
=============================================================================
