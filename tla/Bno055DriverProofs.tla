------------------------- MODULE Bno055DriverProofs -------------------------
(***************************************************************************)
(* Proofs about any program over the driver of the inertial unit: what a   *)
(* call that succeeds has done, for any number of calls, any settings and  *)
(* arguments, any registers and any number of failed transfers.            *)
(***************************************************************************)
EXTENDS Bno055Driver, Bno055Proofs

\* The auto sleep that the bandwidth needs in the advanced power mode.
Fits(regs) ==
  LET now(f) == Slice(regs[Key(f)], f)
  IN  now(gyro_power_mode) = GYRO_POWER_MODE_ADVANCE_POWERSAVE =>
        now(gyro_auto_sleep_durn) >= MinimumAutoSleep(now(gyro_bw))

\* The result can be trusted: it is good, no byte was misread and no error was masked.
Trusted(c, s, o) == Reliable(o) /\ (c.op \in MasksErrors => o.s.faults = s.faults)

\* Whatever its result, the call has changed nothing but what it is about, and the mode.
Contained(c, s, o) ==
  \A r \in Registers :
    \/ r = <<0, OPR_MODE>>
    \/ o.s.regs[r] = s.regs[r]
    \/ \E e \in Expected(c, s.regs) : o.s.regs[r] = e[r]

\* A call c from the unit s may have the outcome o.
Behaves(c, s, o) ==
  /\ IsOutcome(o)
  /\ s.misread => o.s.misread
  /\ TriggerClear(s) => TriggerClear(o.s)
  /\ Trusted(c, s, o) /\ (c.op = "init" \/ s.page_id = s.page) => o.s.page_id = o.s.page
  /\ c.op = "set" /\ c.f.config /\ c.f.page = 1 /\ o.ok => o.s.page_id = o.s.page
  /\ TriggerClear(s) /\ ~o.s.misread /\ c.f # sys_rst => Contained(c, s, o)
  /\ Trusted(c, s, o) /\ s.page_id = s.page /\ TriggerClear(s) =>
       /\ c.f # sys_rst => o.s.regs \in Expected(c, s.regs)
       /\ c.op = "get" /\ Key(c.f) \in Registers => o.data = Slice(s.regs[Key(c.f)], c.f)
       /\ c.op \in {"read", "convert"} => o.data.taken
       /\ c.op = "convert" /\ c.f # NoField => Slice(o.data.units, c.f) = c.v
       /\ c.op \in MasksErrors /\ o.s.faults = s.faults => Fits(o.s.regs)

\* The inductive invariant: the driver knows the page, and no reset is pending in the
\* registers, where a setting of the same byte would trigger it again.
DriverInv == TypeOK /\ TriggerClear(unit) /\ CacheCoherent

\* A step is a call c that behaves and has the outcome o.
Step(c, o) ==
  /\ calls < MaxCalls /\ calls' = calls + 1
  /\ call' = c /\ unit' = o.s /\ ok' = o.ok /\ data' = o.data
  /\ clean' = (o.ok /\ (clean \/ c.op = "init") /\ (c.op \in MasksErrors => o.s.faults = unit.faults))
  /\ Behaves(c, unit, o)

-----------------------------------------------------------------------------
LEMMA SampleTaken ==
  ASSUME NEW s
  PROVE  /\ s.page = 0 => Sample(s).taken
         /\ Sample(s).units = s.regs[<<0, UNIT_SEL>>]
  <1>1. Sample(s).taken = (s.page = 0) /\ Sample(s).units = s.regs[<<0, UNIT_SEL>>]
    <2> DEFINE taken == s.page = 0
    <2>1. Sample(s) = [taken |-> taken, mode |-> Mode(s), units |-> s.regs[<<0, UNIT_SEL>>]]
      BY DEF Sample
    <2> HIDE DEF taken
    <2>2. Sample(s).taken = taken /\ Sample(s).units = s.regs[<<0, UNIT_SEL>>]
      BY <2>1
    <2> QED BY <2>2 DEF taken
  <1> QED BY <1>1

LEMMA ContainedBy ==
  ASSUME NEW c, NEW s, NEW o,
         Leaves(s.regs, o.s.regs) \/ \E e \in Expected(c, s.regs) : Leaves(e, o.s.regs)
  PROVE  Contained(c, s, o)
  BY DEF Contained, Leaves

LEMMA UnchangedIsContained ==
  ASSUME NEW c, NEW s, NEW o, o.s.regs = s.regs
  PROVE  Contained(c, s, o)
  BY DEF Contained

LEMMA InitBehaves ==
  ASSUME NEW s \in Unit, NEW o \in init(s)
  PROVE  Behaves([op |-> "init", f |-> NoField, v |-> 0], s, o)
  <1> DEFINE c == [op |-> "init", f |-> NoField, v |-> 0]
  <1>1. Expected(c, s.regs) = {s.regs}
    BY DEF Expected
  <1>2. c.op = "init" /\ c.op \notin MasksErrors /\ c.op \notin {"get", "set", "read", "convert"}
    BY DEF MasksErrors
  <1>3. /\ IsOutcome(o) /\ o.s.regs = s.regs
        /\ TriggerClear(s) => TriggerClear(o.s)
        /\ s.misread => o.s.misread
        /\ Reliable(o) => o.s.page_id = o.s.page
    BY InitCoherent
  <1> HIDE DEF c
  <1> SUFFICES Behaves(c, s, o)
    BY DEF c
  <1> QED BY <1>1, <1>2, <1>3, UnchangedIsContained DEF Behaves, Trusted

\* A setting, or the axes.
LEMMA SetBehaves ==
  ASSUME NEW s \in Unit, NEW f, IsSetting(f), OwnAddress(f), NEW v \in Nat, NEW o \in Set(s, f, v)
  PROVE  Behaves([op |-> "set", f |-> f, v |-> v], s, o)
  <1> DEFINE c == [op |-> "set", f |-> f, v |-> v]
  <1>1. Expected(c, s.regs) = {WithField(s.regs, f, v)}
    BY DEF Expected
  <1>2. c.op = "set" /\ c.f = f /\ c.op # "init" /\ c.op \notin MasksErrors /\ c.op \notin {"get", "read", "convert"}
    BY DEF MasksErrors
  <1>3. /\ Sound(s, o)
        /\ o.ok /\ f.config /\ f.page = 1 => o.s.page_id = o.s.page
        /\ TriggerClear(s) /\ f # sys_rst /\ Reliable(o) /\ s.page_id = s.page => o.s.regs = WithField(s.regs, f, v)
    BY SetSound
  <1>4. TriggerClear(s) /\ ~o.s.misread /\ f # sys_rst =>
          Leaves(s.regs, o.s.regs) \/ Leaves(WithField(s.regs, f, v), o.s.regs)
    BY SetAlters DEF IsAlone
  <1> HIDE DEF c
  <1>5. TriggerClear(s) /\ ~o.s.misread /\ c.f # sys_rst => Contained(c, s, o)
    BY <1>1, <1>2, <1>4, ContainedBy
  <1> SUFFICES Behaves(c, s, o)
    BY DEF c
  <1> QED BY <1>1, <1>2, <1>3, <1>5 DEF Behaves, Trusted, Reliable, Sound, Follows

LEMMA AxesAlone == IsAlone(axis_remap_value)
  <1>1. axis_remap_value = [page |-> 0, reg |-> 65, pos |-> 0, len |-> 6, limit |-> 256, config |-> TRUE]
    BY DEF axis_remap_value, SystemSetting, Field, Unlimited
  <1>2. sys_rst.reg = 63
    BY DEF sys_rst, SystemControl, Field
  <1>3. IsSetting(axis_remap_value)
    BY <1>1 DEF IsSetting, IsSlice, Key, PAGE_ID, SYS_TRIGGER, OPR_MODE
  <1>4. OwnAddress(axis_remap_value)
    BY <1>1 DEF OwnAddress, SettableRegisters, Key
  <1> QED BY <1>1, <1>2, <1>3, <1>4 DEF IsAlone

LEMMA AxesBehave ==
  ASSUME NEW s \in Unit, NEW v \in Nat, NEW o \in set_axis_remap_value(s, v)
  PROVE  Behaves([op |-> "axes", f |-> axis_remap_value, v |-> v], s, o)
  <1> DEFINE c == [op |-> "axes", f |-> axis_remap_value, v |-> v]
             w == IF v \in REMAP_VALUES THEN v ELSE DEFAULT_AXIS
  <1>1. Expected(c, s.regs) = {WithField(s.regs, axis_remap_value, w)}
    BY DEF Expected
  <1>2. c.op = "axes" /\ c.op # "init" /\ c.op \notin MasksErrors /\ c.op \notin {"set", "get", "read", "convert"}
    BY DEF MasksErrors
  <1>3. /\ Sound(s, o)
        /\ TriggerClear(s) /\ Reliable(o) /\ s.page_id = s.page => o.s.regs = WithField(s.regs, axis_remap_value, w)
    BY set_axis_remap_valueSound
  <1>4. o \in Set(s, axis_remap_value, w) /\ w \in Nat
    BY DEF set_axis_remap_value, DEFAULT_AXIS
  <1>5. TriggerClear(s) /\ ~o.s.misread =>
          Leaves(s.regs, o.s.regs) \/ Leaves(WithField(s.regs, axis_remap_value, w), o.s.regs)
    BY <1>4, AxesAlone, SetAlters
  <1> HIDE DEF c, w
  <1>6. TriggerClear(s) /\ ~o.s.misread => Contained(c, s, o)
    BY <1>1, <1>5, ContainedBy
  <1> SUFFICES Behaves(c, s, o)
    BY DEF c
  <1> QED BY <1>1, <1>2, <1>3, <1>6 DEF Behaves, Trusted, Reliable, Sound, Follows

LEMMA ModeBehaves ==
  ASSUME NEW s \in Unit, NEW m \in Nat, NEW o \in set_operation_mode(s, m)
  PROVE  Behaves([op |-> "mode", f |-> operation_mode, v |-> m], s, o)
  <1> DEFINE c == [op |-> "mode", f |-> operation_mode, v |-> m]
  <1>1. Expected(c, s.regs) = {WithField(s.regs, operation_mode, m)}
    BY DEF Expected
  <1>2. c.op = "mode" /\ c.op # "init" /\ c.op \notin MasksErrors /\ c.op \notin {"set", "get", "read", "convert"}
    BY DEF MasksErrors
  <1>3. /\ Sound(s, o)
        /\ TriggerClear(s) /\ Near(s) /\ Reliable(o) => o.s.regs = WithField(s.regs, operation_mode, m)
    BY set_operation_modeSound
  <1>4. TriggerClear(s) /\ ~o.s.misread => Contained(c, s, o)
    BY set_operation_modeLeaves, ContainedBy
  <1> HIDE DEF c
  <1> SUFFICES Behaves(c, s, o)
    BY DEF c
  <1> QED BY <1>1, <1>2, <1>3, <1>4 DEF Behaves, Trusted, Reliable, Sound, Follows, Near

LEMMA ReadBehaves ==
  ASSUME NEW s \in Unit, NEW d, NEW o \in ReadData(s, d)
  PROVE  Behaves([op |-> "read", f |-> NoField, v |-> 0], s, o)
  <1> DEFINE c == [op |-> "read", f |-> NoField, v |-> 0]
  <1>1. Expected(c, s.regs) = {s.regs}
    BY DEF Expected
  <1>2. c.op = "read" /\ c.op # "init" /\ c.op \notin MasksErrors /\ c.op \notin {"set", "get", "convert"}
    BY DEF MasksErrors
  <1>3. /\ Sound(s, o) /\ o.s.regs = s.regs
        /\ o.ok /\ Near(s) => o.s.page = 0
        /\ Reliable(o) => o.data = Sample(o.s)
    BY ReadDataSound
  <1>4. Reliable(o) /\ s.page_id = s.page => o.data.taken
    BY <1>3, SampleTaken DEF Reliable, Near
  <1> HIDE DEF c
  <1> SUFFICES Behaves(c, s, o)
    BY DEF c
  <1> QED BY <1>1, <1>2, <1>3, <1>4, UnchangedIsContained DEF Behaves, Trusted, Reliable, Sound, Follows

LEMMA GetBehaves ==
  ASSUME NEW s \in Unit, NEW f, IsSlice(f), f.page \in Byte, NEW o \in Get(s, f)
  PROVE  Behaves([op |-> "get", f |-> f, v |-> 0], s, o)
  <1> DEFINE c == [op |-> "get", f |-> f, v |-> 0]
  <1>1. Expected(c, s.regs) = {s.regs}
    BY DEF Expected
  <1>2. c.op = "get" /\ c.f = f /\ c.op # "init" /\ c.op \notin MasksErrors /\ c.op \notin {"set", "read", "convert"}
    BY DEF MasksErrors
  <1>3. /\ Sound(s, o) /\ o.s.regs = s.regs
        /\ Reliable(o) /\ s.page_id = s.page /\ f.reg # PAGE_ID => o.data = Slice(Stored(s, f), f)
    BY GetSound
  <1>4. Key(f) \in Registers => f.reg # PAGE_ID
    BY RegistersAssumption DEF Key, SettableRegisters, PAGE_ID
  <1>5. Reliable(o) /\ s.page_id = s.page /\ Key(f) \in Registers => o.data = Slice(s.regs[Key(f)], f)
    BY <1>3, <1>4 DEF Stored
  <1> HIDE DEF c
  <1> SUFFICES Behaves(c, s, o)
    BY DEF c
  <1> QED BY <1>1, <1>2, <1>3, <1>5, UnchangedIsContained DEF Behaves, Trusted, Reliable, Sound, Follows

\* A call that only reads, or turns the page, of which nothing more is said.
LEMMA OtherBehaves ==
  ASSUME NEW s \in Unit, NEW op \in {"calibration", "page", "read_page"}, NEW v, NEW o, Follows(s, o), o.s.regs = s.regs,
         Reliable(o) /\ s.page_id = s.page => o.s.page_id = o.s.page
  PROVE  Behaves([op |-> op, f |-> NoField, v |-> v], s, o)
  <1> DEFINE c == [op |-> op, f |-> NoField, v |-> v]
  <1>1. c.op = op /\ c.op # "init" /\ c.op \notin MasksErrors
        /\ c.op \notin {"set", "mode", "axes", "calibrate", "gyro_auto_sleep", "get", "read", "convert"}
    BY DEF MasksErrors
  <1> HIDE DEF c
  <1>2. Expected(c, s.regs) = {s.regs}
    BY <1>1 DEF Expected, MasksErrors
  <1> SUFFICES Behaves(c, s, o)
    BY DEF c
  <1> QED BY <1>1, <1>2, UnchangedIsContained DEF Behaves, Trusted, Reliable, Follows

\* The unit that the conversion wants is what the measure was taken in.
LEMMA ConvertBehaves ==
  ASSUME NEW s \in Unit, NEW k, IsConversion(k), ~k.checked => k.unit = NoField /\ k.wanted = 0, NEW o \in Convert(s, k)
  PROVE  Behaves([op |-> "convert", f |-> k.unit, v |-> k.wanted], s, o)
  <1> DEFINE c == [op |-> "convert", f |-> k.unit, v |-> k.wanted]
  <1>1. Expected(c, s.regs) = {WithField(s.regs, k.unit, k.wanted)}
    BY DEF Expected
  <1>2. c.op = "convert" /\ c.f = k.unit /\ c.v = k.wanted /\ c.op # "init" /\ c.op \notin MasksErrors /\ c.op \notin {"set", "get", "read"}
    BY DEF MasksErrors
  <1>3. /\ Sound(s, o) /\ o.s \in Unit
        /\ TriggerClear(s) /\ s.page_id = s.page /\ Reliable(o) =>
              o.s.regs = WithUnit(s.regs, k) /\ o.s.page = 0 /\ o.data = Sample(o.s)
    BY ConvertSound
  <1>4. s.regs \in [Registers -> Byte]
    BY DEF Unit
  <1>5. ~k.checked => WithField(s.regs, k.unit, k.wanted) = s.regs
    <2>1. Key(NoField) \notin Registers
      BY RegistersAssumption DEF NoField, Status, Field, Key, SettableRegisters
    <2> QED BY <1>4, <2>1 DEF WithField
  <1>6. WithUnit(s.regs, k) = WithField(s.regs, k.unit, k.wanted)
    BY <1>5 DEF WithUnit
  <1>7. k.checked => Slice(WithField(s.regs, k.unit, k.wanted)[<<0, UNIT_SEL>>], k.unit) = k.wanted
    <2> SUFFICES ASSUME k.checked PROVE Slice(WithField(s.regs, k.unit, k.wanted)[<<0, UNIT_SEL>>], k.unit) = k.wanted
      OBVIOUS
    <2>1. /\ IsSlice(k.unit) /\ k.wanted \in {0, 1} /\ k.unit.len > 0 /\ Key(k.unit) = <<0, UNIT_SEL>>
          /\ Key(k.unit) \in Registers /\ k.wanted \in Nat
      BY ConversionUnit DEF IsConversion
    <2>2. s.regs[Key(k.unit)] \in Byte
      BY <1>4, <2>1
    <2>3. Slice(SetSlice(s.regs[Key(k.unit)], k.unit, k.wanted), k.unit) = k.wanted % 2^k.unit.len
      BY <2>1, <2>2, SetSliceByte
    <2>4. WithField(s.regs, k.unit, k.wanted)[<<0, UNIT_SEL>>] = SetSlice(s.regs[Key(k.unit)], k.unit, k.wanted)
      BY <2>1 DEF WithField
    <2>5. k.unit.len \in 0..8
      BY <2>1 DEF IsSlice
    <2>6. IsPower(2^k.unit.len, k.unit.len)
      BY <2>5, PowersOfTwo
    <2>7. 2^k.unit.len \in Nat /\ 2^k.unit.len >= 2
      BY <2>1, <2>5, <2>6 DEF IsPower
    <2>8. k.wanted % 2^k.unit.len = k.wanted
      <3> DEFINE L == 2^k.unit.len
      <3>1. L \in Nat /\ L >= 2
        BY <2>7
      <3> HIDE DEF L
      <3>2. \A w \in {0, 1} : w % L = w
        BY <3>1
      <3> QED BY <2>1, <3>2 DEF L
    <2> QED BY <2>3, <2>4, <2>8
  <1>8. TriggerClear(s) /\ s.page_id = s.page /\ Reliable(o) =>
          /\ o.s.regs = WithField(s.regs, k.unit, k.wanted)
          /\ o.data.taken
          /\ k.unit # NoField => Slice(o.data.units, k.unit) = k.wanted
    <2> SUFFICES ASSUME TriggerClear(s), s.page_id = s.page, Reliable(o)
                 PROVE  /\ o.s.regs = WithField(s.regs, k.unit, k.wanted)
                        /\ o.data.taken
                        /\ k.unit # NoField => Slice(o.data.units, k.unit) = k.wanted
      OBVIOUS
    <2>1. o.s.regs = WithField(s.regs, k.unit, k.wanted) /\ o.s.page = 0 /\ o.data = Sample(o.s)
      BY <1>3, <1>6
    <2>2. o.data.taken /\ o.data.units = o.s.regs[<<0, UNIT_SEL>>]
      BY <2>1, SampleTaken
    <2>3. k.unit # NoField => k.checked
      OBVIOUS
    <2> QED BY <1>7, <2>1, <2>2, <2>3
  <1>9. TriggerClear(s) /\ ~o.s.misread =>
          Leaves(s.regs, o.s.regs) \/ Leaves(WithField(s.regs, k.unit, k.wanted), o.s.regs)
    BY ConvertAlters
  <1> HIDE DEF c
  <1>10. TriggerClear(s) /\ ~o.s.misread => Contained(c, s, o)
    BY <1>1, <1>9, ContainedBy
  <1> SUFFICES Behaves(c, s, o)
    BY DEF c
  <1> QED BY <1>1, <1>2, <1>3, <1>8, <1>10 DEF Behaves, Trusted, Reliable, Sound, Follows

\* The calibration is known by its first register.
LEMMA CalibrationFound ==
  ASSUME NEW regs \in Calibrations
  PROVE  Calibration(regs[1]) = regs /\ Range(regs) = Values(regs)
  <1>1. /\ accel_offset[1] = 85 /\ mag_offset[1] = 91 /\ gyro_offset[1] = 97 /\ sic_matrix[1] = 67
    BY DEF accel_offset, mag_offset, gyro_offset, sic_matrix
  <1>2. \A a \in Calibrations, b \in Calibrations : a[1] = b[1] => a = b
    BY <1>1 DEF Calibrations
  <1>3. Calibration(regs[1]) = CHOOSE a \in Calibrations : a[1] = regs[1]
    BY DEF Calibration, Calibrations
  <1>4. Calibration(regs[1]) \in Calibrations /\ Calibration(regs[1])[1] = regs[1]
    BY <1>3
  <1>5. Range(regs) = Values(regs)
    BY DEF Range, Values
  <1> QED BY <1>2, <1>4, <1>5

LEMMA CalibrateBehaves ==
  ASSUME NEW s \in Unit, NEW regs \in Calibrations, NEW o \in WriteBytes(s, regs, 255)
  PROVE  Behaves([op |-> "calibrate", f |-> Status(regs[1], 0, 8), v |-> 255], s, o)
  <1> DEFINE c == [op |-> "calibrate", f |-> Status(regs[1], 0, 8), v |-> 255]
  <1>1. Status(regs[1], 0, 8).reg = regs[1]
    BY DEF Status, Field
  <1>2. c.op = "calibrate" /\ c.f.reg = regs[1] /\ c.v = 255
        /\ c.op # "init" /\ c.op \notin MasksErrors /\ c.op \notin {"set", "mode", "axes", "get", "read", "convert"}
    BY <1>1 DEF MasksErrors
  <1>3. 255 \in Byte
    BY DEF Byte
  <1>4. /\ Sound(s, o)
        /\ TriggerClear(s) /\ Near(s) /\ Reliable(o) => o.s.regs = WithBytes(s.regs, Values(regs), 255)
    BY <1>3, WriteBytesSound
  <1> HIDE DEF c
  <1>5. WithBytes(s.regs, Values(regs), 255) \in Expected(c, s.regs)
    <2>1. Expected(c, s.regs) =
            {[r \in Registers |-> IF r \in {0} \X Range(Calibration(c.f.reg)) THEN c.v ELSE s.regs[r]]}
      BY <1>2 DEF Expected
    <2>2. Range(Calibration(c.f.reg)) = Values(regs)
      BY <1>2, CalibrationFound
    <2> QED BY <1>2, <2>1, <2>2 DEF WithBytes
  <1>6. TriggerClear(s) /\ ~o.s.misread => Contained(c, s, o)
    <2> SUFFICES ASSUME TriggerClear(s), ~o.s.misread, NEW q \in Registers \ {<<0, OPR_MODE>>}
                 PROVE  \/ o.s.regs[q] = s.regs[q]
                        \/ \E e \in Expected(c, s.regs) : o.s.regs[q] = e[q]
      BY DEF Contained
    <2>1. o.s.regs[q] = s.regs[q] \/ (q \in {0} \X Values(regs) /\ o.s.regs[q] = 255)
      BY <1>3, WriteBytesAlters
    <2>2. q \in {0} \X Values(regs) => WithBytes(s.regs, Values(regs), 255)[q] = 255
      BY DEF WithBytes
    <2> QED BY <1>5, <2>1, <2>2
  <1> SUFFICES Behaves(c, s, o)
    BY DEF c
  <1> QED BY <1>2, <1>4, <1>5, <1>6 DEF Behaves, Trusted, Reliable, Sound, Follows, Near

LEMMA AutoSleepBehaves ==
  ASSUME NEW s \in Unit, NEW durn \in Nat, NEW bw, NEW o \in gyro_set_auto_sleep_durn(s, durn, bw)
  PROVE  Behaves([op |-> "gyro_auto_sleep", f |-> gyro_auto_sleep_durn, v |-> durn], s, o)
  <1> DEFINE c == [op |-> "gyro_auto_sleep", f |-> gyro_auto_sleep_durn, v |-> durn]
  <1>1. Expected(c, s.regs) = {WithField(s.regs, gyro_auto_sleep_durn, v) : v \in durn..7}
    BY DEF Expected
  <1>2. c.op = "gyro_auto_sleep" /\ c.op # "init" /\ c.op \notin MasksErrors
        /\ c.op \notin {"set", "mode", "axes", "get", "read", "convert"}
    BY DEF MasksErrors
  <1>3. /\ Sound(s, o)
        /\ TriggerClear(s) /\ Near(s) /\ Reliable(o) =>
             \E w \in 0..7 : /\ w >= durn
                             /\ o.s.regs = WithField(s.regs, gyro_auto_sleep_durn, w)
    BY AutoSleepSound
  <1> HIDE DEF c
  <1>4. TriggerClear(s) /\ Near(s) /\ Reliable(o) => o.s.regs \in Expected(c, s.regs)
    <2> SUFFICES ASSUME TriggerClear(s), Near(s), Reliable(o) PROVE o.s.regs \in Expected(c, s.regs)
      OBVIOUS
    <2>1. PICK w \in 0..7 : w >= durn /\ o.s.regs = WithField(s.regs, gyro_auto_sleep_durn, w)
      BY <1>3
    <2>2. w \in durn..7
      BY <2>1
    <2> QED BY <1>1, <2>1, <2>2
  <1>5. TriggerClear(s) /\ ~o.s.misread => Contained(c, s, o)
    <2> SUFFICES ASSUME TriggerClear(s), ~o.s.misread PROVE Contained(c, s, o)
      OBVIOUS
    <2>1. \/ Leaves(s.regs, o.s.regs)
          \/ \E w \in 0..7 : w >= durn /\ Leaves(WithField(s.regs, gyro_auto_sleep_durn, w), o.s.regs)
      BY AutoSleepAlters
    <2>2. \A w \in 0..7 : w >= durn => w \in durn..7
      OBVIOUS
    <2> QED BY <1>1, <2>1, <2>2, ContainedBy
  <1> SUFFICES Behaves(c, s, o)
    BY DEF c
  <1> QED BY <1>2, <1>3, <1>4, <1>5 DEF Behaves, Trusted, Reliable, Sound, Follows, Near

\* What is read of the three settings of the gyroscope after two of them were set.
LEMMA GyroSet ==
  ASSUME NEW regs \in [Registers -> Byte], NEW f \in {gyro_bw, gyro_power_mode}, NEW v \in 0..7, NEW w \in 0..7,
         NEW r, r = WithField(WithField(regs, f, v), gyro_auto_sleep_durn, w)
  PROVE  /\ Slice(r[Key(f)], f) = v
         /\ Slice(r[Key(gyro_auto_sleep_durn)], gyro_auto_sleep_durn) = w
         /\ \A g \in {gyro_bw, gyro_power_mode} : g # f => r[Key(g)] = regs[Key(g)]
  <1> DEFINE d == gyro_auto_sleep_durn
  <1>1. /\ Key(f) \in Registers /\ Key(d) \in Registers
        /\ Key(gyro_bw) \in Registers /\ Key(gyro_power_mode) \in Registers
    BY DriverAssumption DEF GyroSetting
  <1>2. /\ IsSlice(f) /\ IsSlice(d) /\ 2^f.len = 8 /\ 2^d.len = 8
        /\ Key(f) # Key(d) /\ Key(gyro_bw) # Key(gyro_power_mode)
        /\ Key(gyro_bw) # Key(d) /\ Key(gyro_power_mode) # Key(d)
    BY GyroSettings
  <1>3. v \in Nat /\ w \in Nat /\ v % 8 = v /\ w % 8 = w
    OBVIOUS
  <1> HIDE DEF d
  <1>4. WithField(regs, f, v) \in [Registers -> Byte] /\ r = WithField(WithField(regs, f, v), d, w)
    BY <1>2, <1>3, WithFieldType DEF d
  <1>5. /\ r[Key(d)] = SetSlice(WithField(regs, f, v)[Key(d)], d, w)
        /\ \A g \in {gyro_bw, gyro_power_mode} : r[Key(g)] = WithField(regs, f, v)[Key(g)]
    BY <1>1, <1>2, <1>4 DEF WithField
  <1>6. /\ WithField(regs, f, v)[Key(f)] = SetSlice(regs[Key(f)], f, v)
        /\ \A g \in {gyro_bw, gyro_power_mode} : g # f => WithField(regs, f, v)[Key(g)] = regs[Key(g)]
    BY <1>1, <1>2 DEF WithField
  <1>7. regs[Key(f)] \in Byte /\ WithField(regs, f, v)[Key(d)] \in Byte
    BY <1>1, <1>4
  <1>8. Slice(SetSlice(regs[Key(f)], f, v), f) = v % 2^f.len
    BY <1>2, <1>3, <1>7, SetSliceByte
  <1>9. Slice(SetSlice(WithField(regs, f, v)[Key(d)], d, w), d) = w % 2^d.len
    BY <1>2, <1>3, <1>7, SetSliceByte
  <1>10. Slice(r[Key(f)], f) = v
    BY <1>2, <1>3, <1>5, <1>6, <1>8
  <1>11. Slice(r[Key(d)], d) = w
    BY <1>2, <1>3, <1>5, <1>9
  <1> QED BY <1>5, <1>6, <1>10, <1>11 DEF d

LEMMA GyroStored ==
  ASSUME NEW s, NEW f \in GyroSetting
  PROVE  Stored(s, f) = s.regs[Key(f)]
  BY DriverAssumption DEF Stored

\* Both settings, either, or none of them: each register has what it had or was to have.
LEMMA GyroContained ==
  ASSUME NEW c, NEW s, NEW o, NEW f \in {gyro_bw, gyro_power_mode}, NEW v,
         Expected(c, s.regs) = {WithField(WithField(s.regs, f, v), gyro_auto_sleep_durn, w) : w \in 0..7},
         MaySleep(s.regs, o.s.regs) \/ MaySleep(WithField(s.regs, f, v), o.s.regs)
  PROVE  Contained(c, s, o)
  <1> DEFINE d == gyro_auto_sleep_durn
             set == WithField(s.regs, f, v)
  <1>1. Key(f) # Key(d)
    BY GyroSettings
  <1>2. \A w \in 0..7 : WithField(set, d, w) \in Expected(c, s.regs)
    OBVIOUS
  <1>3. CASE Leaves(s.regs, o.s.regs)
    BY <1>3, ContainedBy
  <1>4. CASE \E w \in 0..7 : Leaves(WithField(set, d, w), o.s.regs)
    BY <1>2, <1>4, ContainedBy
  <1> HIDE DEF d
  <1>5. CASE Leaves(set, o.s.regs)
    <2>1. WithField(set, d, 0) \in Expected(c, s.regs)
      BY <1>2
    <2> SUFFICES ASSUME NEW r \in Registers \ {<<0, OPR_MODE>>}
                 PROVE  o.s.regs[r] = s.regs[r] \/ o.s.regs[r] = WithField(set, d, 0)[r]
      BY <2>1 DEF Contained
    <2>2. o.s.regs[r] = set[r]
      BY <1>5 DEF Leaves
    <2> QED BY <1>1, <2>2 DEF WithField
  <1>6. CASE \E w \in 0..7 : Leaves(WithField(s.regs, d, w), o.s.regs)
    <2>1. PICK w \in 0..7 : Leaves(WithField(s.regs, d, w), o.s.regs)
      BY <1>6
    <2>2. WithField(set, d, w) \in Expected(c, s.regs)
      BY <1>2
    <2> SUFFICES ASSUME NEW r \in Registers \ {<<0, OPR_MODE>>}
                 PROVE  o.s.regs[r] = s.regs[r] \/ o.s.regs[r] = WithField(set, d, w)[r]
      BY <2>2 DEF Contained
    <2>3. o.s.regs[r] = WithField(s.regs, d, w)[r]
      BY <2>1 DEF Leaves
    <2> QED BY <1>1, <2>3 DEF WithField
  <1> QED BY <1>3, <1>4, <1>5, <1>6 DEF MaySleep, d

LEMMA BandwidthBehaves ==
  ASSUME NEW s \in Unit, NEW bw \in Nat, NEW o \in set_gyro_bw(s, bw)
  PROVE  Behaves([op |-> "gyro_bw", f |-> gyro_bw, v |-> bw], s, o)
  <1> DEFINE c == [op |-> "gyro_bw", f |-> gyro_bw, v |-> bw]
  <1>1. Expected(c, s.regs) =
          {WithField(WithField(s.regs, gyro_bw, bw), gyro_auto_sleep_durn, v) : v \in 0..7}
    BY DEF Expected
  <1>2. c.op = "gyro_bw" /\ c.op # "init" /\ c.op \notin {"set", "get", "read", "convert"} /\ c.op \in MasksErrors
    BY DEF MasksErrors
  <1>3. Sound(s, o) /\ (o.ok => bw \in 0..7)
    BY set_gyro_bwSound
  <1>4. ASSUME TriggerClear(s), s.page_id = s.page, Reliable(o), o.s.faults = s.faults
        PROVE  /\ Fits(o.s.regs)
               /\ \E w \in 0..7 : o.s.regs = WithField(WithField(s.regs, gyro_bw, bw), gyro_auto_sleep_durn, w)
    <2>1. Near(s)
      BY <1>4 DEF Near
    <2>2. PICK w \in 0..7 :
            /\ Slice(Stored(s, gyro_power_mode), gyro_power_mode) = GYRO_POWER_MODE_ADVANCE_POWERSAVE
                 => w >= MinimumAutoSleep(bw)
            /\ o.s.regs = WithField(WithField(s.regs, gyro_bw, bw), gyro_auto_sleep_durn, w)
      BY <1>4, <2>1, set_gyro_bwSound
    <2>3. bw \in 0..7 /\ s.regs \in [Registers -> Byte]
      BY <1>3, <1>4 DEF Unit, Reliable
    <2>4. gyro_bw # gyro_power_mode
      BY GyroSettings DEF Key
    <2>5. /\ Slice(o.s.regs[Key(gyro_bw)], gyro_bw) = bw
          /\ Slice(o.s.regs[Key(gyro_auto_sleep_durn)], gyro_auto_sleep_durn) = w
          /\ o.s.regs[Key(gyro_power_mode)] = s.regs[Key(gyro_power_mode)]
      <3> DEFINE regs == s.regs
                 r == o.s.regs
      <3>1. regs \in [Registers -> Byte] /\ r = WithField(WithField(regs, gyro_bw, bw), gyro_auto_sleep_durn, w)
        BY <2>2, <2>3
      <3> HIDE DEF regs, r
      <3>2. gyro_bw \in {gyro_bw, gyro_power_mode} /\ gyro_power_mode \in {gyro_bw, gyro_power_mode}
        OBVIOUS
      <3>3. /\ Slice(r[Key(gyro_bw)], gyro_bw) = bw
            /\ Slice(r[Key(gyro_auto_sleep_durn)], gyro_auto_sleep_durn) = w
            /\ \A g \in {gyro_bw, gyro_power_mode} : g # gyro_bw => r[Key(g)] = regs[Key(g)]
        BY <2>3, <3>1, <3>2, GyroSet
      <3> QED BY <2>4, <3>2, <3>3 DEF regs, r
    <2>6. Stored(s, gyro_power_mode) = s.regs[Key(gyro_power_mode)]
      BY GyroStored DEF GyroSetting
    <2> QED BY <2>2, <2>5, <2>6 DEF Fits
  <1>5. TriggerClear(s) /\ s.page_id = s.page /\ Reliable(o) /\ o.s.faults = s.faults =>
          Fits(o.s.regs) /\ o.s.regs \in Expected(c, s.regs)
    BY <1>1, <1>4
  <1> HIDE DEF c
  <1>6. TriggerClear(s) /\ ~o.s.misread => Contained(c, s, o)
    <2> SUFFICES ASSUME TriggerClear(s), ~o.s.misread PROVE Contained(c, s, o)
      OBVIOUS
    <2>1. MaySleep(s.regs, o.s.regs) \/ MaySleep(WithField(s.regs, gyro_bw, bw), o.s.regs)
      BY set_gyro_bwAlters
    <2>2. gyro_bw \in {gyro_bw, gyro_power_mode}
      OBVIOUS
    <2> QED BY <1>1, <2>1, <2>2, GyroContained
  <1> SUFFICES Behaves(c, s, o)
    BY DEF c
  <1> QED BY <1>2, <1>3, <1>5, <1>6 DEF Behaves, Trusted, Reliable, Sound, Follows

LEMMA PowerModeBehaves ==
  ASSUME NEW s \in Unit, NEW mode \in Nat, NEW o \in set_gyro_power_mode(s, mode)
  PROVE  Behaves([op |-> "gyro_power_mode", f |-> gyro_power_mode, v |-> mode], s, o)
  <1> DEFINE c == [op |-> "gyro_power_mode", f |-> gyro_power_mode, v |-> mode]
  <1>1. Expected(c, s.regs) =
          {WithField(WithField(s.regs, gyro_power_mode, mode), gyro_auto_sleep_durn, v) : v \in 0..7}
    BY DEF Expected
  <1>2. c.op = "gyro_power_mode" /\ c.op # "init" /\ c.op \notin {"set", "get", "read", "convert"} /\ c.op \in MasksErrors
    BY DEF MasksErrors
  <1>3. /\ Follows(s, o) /\ (o.ok => mode \in 0..7)
        /\ o.ok /\ o.s.faults = s.faults /\ s.page_id = s.page => o.s.page_id = o.s.page
    BY set_gyro_power_modeFollows
  <1>4. ASSUME TriggerClear(s), s.page_id = s.page, Reliable(o), o.s.faults = s.faults
        PROVE  /\ Fits(o.s.regs)
               /\ \E w \in 0..7 : o.s.regs = WithField(WithField(s.regs, gyro_power_mode, mode), gyro_auto_sleep_durn, w)
    <2>1. Near(s)
      BY <1>4 DEF Near
    <2>2. PICK w \in 0..7 :
            /\ mode = GYRO_POWER_MODE_ADVANCE_POWERSAVE
                 => w >= MinimumAutoSleep(Slice(Stored(s, gyro_bw), gyro_bw))
            /\ o.s.regs = WithField(WithField(s.regs, gyro_power_mode, mode), gyro_auto_sleep_durn, w)
      BY <1>4, <2>1, set_gyro_power_modeFollows
    <2>3. mode \in 0..7 /\ s.regs \in [Registers -> Byte]
      BY <1>3, <1>4 DEF Unit, Reliable
    <2>4. gyro_bw # gyro_power_mode
      BY GyroSettings DEF Key
    <2>5. /\ Slice(o.s.regs[Key(gyro_power_mode)], gyro_power_mode) = mode
          /\ Slice(o.s.regs[Key(gyro_auto_sleep_durn)], gyro_auto_sleep_durn) = w
          /\ o.s.regs[Key(gyro_bw)] = s.regs[Key(gyro_bw)]
      <3> DEFINE regs == s.regs
                 r == o.s.regs
      <3>1. regs \in [Registers -> Byte] /\ r = WithField(WithField(regs, gyro_power_mode, mode), gyro_auto_sleep_durn, w)
        BY <2>2, <2>3
      <3> HIDE DEF regs, r
      <3>2. gyro_power_mode \in {gyro_bw, gyro_power_mode} /\ gyro_bw \in {gyro_bw, gyro_power_mode}
        OBVIOUS
      <3>3. /\ Slice(r[Key(gyro_power_mode)], gyro_power_mode) = mode
            /\ Slice(r[Key(gyro_auto_sleep_durn)], gyro_auto_sleep_durn) = w
            /\ \A g \in {gyro_bw, gyro_power_mode} : g # gyro_power_mode => r[Key(g)] = regs[Key(g)]
        BY <2>3, <3>1, <3>2, GyroSet
      <3> QED BY <2>4, <3>2, <3>3 DEF regs, r
    <2>6. Stored(s, gyro_bw) = s.regs[Key(gyro_bw)]
      BY GyroStored DEF GyroSetting
    <2> QED BY <2>2, <2>5, <2>6 DEF Fits
  <1>5. TriggerClear(s) /\ s.page_id = s.page /\ Reliable(o) /\ o.s.faults = s.faults =>
          Fits(o.s.regs) /\ o.s.regs \in Expected(c, s.regs)
    BY <1>1, <1>4
  <1> HIDE DEF c
  <1>6. TriggerClear(s) /\ ~o.s.misread => Contained(c, s, o)
    <2> SUFFICES ASSUME TriggerClear(s), ~o.s.misread PROVE Contained(c, s, o)
      OBVIOUS
    <2>1. MaySleep(s.regs, o.s.regs) \/ MaySleep(WithField(s.regs, gyro_power_mode, mode), o.s.regs)
      BY set_gyro_power_modeAlters
    <2>2. gyro_power_mode \in {gyro_bw, gyro_power_mode}
      OBVIOUS
    <2> QED BY <1>1, <2>1, <2>2, GyroContained
  <1> SUFFICES Behaves(c, s, o)
    BY DEF c
  <1> QED BY <1>2, <1>3, <1>5, <1>6 DEF Behaves, Trusted, Reliable, Follows

-----------------------------------------------------------------------------
\* What is set and read to see what the calls before have left.
LEMMA ProbedSettings ==
  /\ \A f \in Probed : IsSetting(f) /\ OwnAddress(f)
  /\ \A f \in {accel_unit, gyro_range} : IsSlice(f) /\ f.page \in Byte
  <1>1. /\ gyro_any_motion_thres = [page |-> 1, reg |-> 30, pos |-> 0, len |-> 7, limit |-> 256, config |-> TRUE]
        /\ intr_accel_any_motion = [page |-> 1, reg |-> 16, pos |-> 6, len |-> 1, limit |-> 256, config |-> FALSE]
        /\ accel_unit = [page |-> 0, reg |-> 59, pos |-> 0, len |-> 1, limit |-> 256, config |-> TRUE]
        /\ gyro_range = [page |-> 1, reg |-> 10, pos |-> 0, len |-> 3, limit |-> 5, config |-> TRUE]
    BY DEF gyro_any_motion_thres, intr_accel_any_motion, accel_unit, gyro_range, SensorSetting, SystemSetting,
           LimitedSetting, InterruptBit, Field, Unlimited
  <1>2. IsSetting(gyro_any_motion_thres)
    BY <1>1 DEF IsSetting, IsSlice, Key, PAGE_ID, SYS_TRIGGER, OPR_MODE
  <1>3. IsSetting(intr_accel_any_motion)
    BY <1>1 DEF IsSetting, IsSlice, Key, PAGE_ID, SYS_TRIGGER, OPR_MODE, AnyMode
  <1>4. IsSetting(accel_unit)
    BY <1>1 DEF IsSetting, IsSlice, Key, PAGE_ID, SYS_TRIGGER, OPR_MODE
  <1>5. \A f \in {accel_unit, gyro_range} : IsSlice(f) /\ f.page \in Byte
    BY <1>1 DEF IsSlice, Byte
  <1>6. \A f \in Probed : OwnAddress(f)
    BY <1>1 DEF Probed, OwnAddress, SettableRegisters, Key
  <1> QED BY <1>2, <1>3, <1>4, <1>5, <1>6 DEF Probed

LEMMA PageBehaves ==
  ASSUME NEW s \in Unit, NEW v, NEW p \in {0, 1}
  PROVE  /\ \A o \in write_page_id(s, p) : Behaves([op |-> "page", f |-> NoField, v |-> v], s, o)
         /\ \A o \in read_page_id(s) : Behaves([op |-> "read_page", f |-> NoField, v |-> v], s, o)
  <1>1. p \in Byte
    BY DEF Byte
  <1>2. ASSUME NEW o \in write_page_id(s, p)
        PROVE  Behaves([op |-> "page", f |-> NoField, v |-> v], s, o)
    <2>1. Follows(s, o) /\ o.s.regs = s.regs /\ (Reliable(o) /\ s.page_id = s.page => o.s.page_id = o.s.page)
      BY <1>1, TurnsThePage DEF Sound, Reliable
    <2> QED BY <2>1, OtherBehaves
  <1>3. ASSUME NEW o \in read_page_id(s)
        PROVE  Behaves([op |-> "read_page", f |-> NoField, v |-> v], s, o)
    <2>1. Follows(s, o) /\ o.s.regs = s.regs /\ (Reliable(o) => o.s.page_id = o.s.page)
      BY read_page_idFollows
    <2> QED BY <2>1, OtherBehaves
  <1> QED BY <1>2, <1>3

LEMMA OffsetBehaves ==
  ASSUME NEW s \in Unit, NEW regs, NEW o \in ReadOffset(s, regs)
  PROVE  Behaves([op |-> "calibration", f |-> NoField, v |-> 0], s, o)
  <1>1. Sound(s, o) /\ o.s.regs = s.regs
    BY ReadOffsetSound
  <1>2. Follows(s, o) /\ (Reliable(o) /\ s.page_id = s.page => o.s.page_id = o.s.page)
    BY <1>1 DEF Sound, Reliable
  <1> QED BY <1>1, <1>2, OtherBehaves

\* Every step of the program is a call that behaves.
LEMMA NextSteps ==
  ASSUME unit \in Unit, Next
  PROVE  \E c, o : Step(c, o)
  <1>1. ASSUME NEW op, NEW f, NEW v, NEW O, Call(op, f, v, O),
               \A o \in O : Behaves([op |-> op, f |-> f, v |-> v], unit, o)
        PROVE  \E c, o : Step(c, o)
    <2>1. PICK o \in O :
            /\ unit' = o.s /\ ok' = o.ok /\ data' = o.data
            /\ clean' = (o.ok /\ (clean \/ op = "init") /\ (op \in MasksErrors => o.s.faults = unit.faults))
      BY <1>1 DEF Call
    <2> DEFINE c == [op |-> op, f |-> f, v |-> v]
    <2>2. calls < MaxCalls /\ calls' = calls + 1 /\ call' = c /\ c.op = op
      BY <1>1 DEF Call
    <2>3. Behaves(c, unit, o)
      BY <1>1
    <2> HIDE DEF c
    <2>4. Step(c, o)
      BY <2>1, <2>2, <2>3 DEF Step
    <2> QED BY <2>4
  <1>2. CASE Initialise
    <2>1. Call("init", NoField, 0, init(unit))
      BY <1>2 DEF Initialise
    <2>2. \A o \in init(unit) : Behaves([op |-> "init", f |-> NoField, v |-> 0], unit, o)
      BY InitBehaves
    <2> QED BY <1>1, <2>1, <2>2
  <1>3. ASSUME NEW S \in SUBSET (Settings \cup Probed), SetSetting(S)
        PROVE  \E c, o : Step(c, o)
    <2>1. PICK f \in S : \E v \in ValuesOf(f) : Call("set", f, v, Set(unit, f, v))
      BY <1>3 DEF SetSetting
    <2>2. PICK v \in ValuesOf(f) : Call("set", f, v, Set(unit, f, v))
      BY <2>1
    <2>3. f \in Settings \cup Probed
      BY <1>3
    <2>4. IsSetting(f) /\ OwnAddress(f) /\ v \in Nat
      BY <2>3, ProbedSettings, DriverAssumption
    <2>5. \A o \in Set(unit, f, v) : Behaves([op |-> "set", f |-> f, v |-> v], unit, o)
      BY <2>4, SetBehaves
    <2> QED BY <1>1, <2>2, <2>5
  <1>4. ASSUME NEW S, \A f \in S : IsSlice(f) /\ f.page \in Byte, GetSetting(S)
        PROVE  \E c, o : Step(c, o)
    <2>1. PICK f \in S : Call("get", f, 0, Get(unit, f))
      BY <1>4 DEF GetSetting
    <2>2. \A o \in Get(unit, f) : Behaves([op |-> "get", f |-> f, v |-> 0], unit, o)
      BY <1>4, GetBehaves
    <2> QED BY <1>1, <2>1, <2>2
  <1>5. ASSUME NEW S, Read(S)
        PROVE  \E c, o : Step(c, o)
    <2>1. PICK d \in S : Call("read", NoField, 0, ReadData(unit, d))
      BY <1>5 DEF Read
    <2>2. \A o \in ReadData(unit, d) : Behaves([op |-> "read", f |-> NoField, v |-> 0], unit, o)
      BY ReadBehaves
    <2> QED BY <1>1, <2>1, <2>2
  <1>6. CASE AnyCall
    <2>1. CASE SetSetting(Settings)
      BY <1>3, <2>1
    <2>2. CASE SetMode({OPERATION_MODE_CONFIG, OPERATION_MODE_ACCONLY, OPERATION_MODE_NDOF})
      <3>1. PICK m \in {OPERATION_MODE_CONFIG, OPERATION_MODE_ACCONLY, OPERATION_MODE_NDOF} :
              Call("mode", operation_mode, m, set_operation_mode(unit, m))
        BY <2>2 DEF SetMode
      <3>2. m \in Nat
        BY DEF OPERATION_MODE_CONFIG, OPERATION_MODE_ACCONLY, OPERATION_MODE_NDOF
      <3>3. \A o \in set_operation_mode(unit, m) : Behaves([op |-> "mode", f |-> operation_mode, v |-> m], unit, o)
        BY <3>2, ModeBehaves
      <3> QED BY <1>1, <3>1, <3>3
    <2>3. CASE SetAxes
      <3>1. PICK v \in {0} \cup REMAP_VALUES : Call("axes", axis_remap_value, v, set_axis_remap_value(unit, v))
        BY <2>3 DEF SetAxes
      <3>2. v \in Nat
        BY DEF REMAP_VALUES
      <3>3. \A o \in set_axis_remap_value(unit, v) : Behaves([op |-> "axes", f |-> axis_remap_value, v |-> v], unit, o)
        BY <3>2, AxesBehave
      <3> QED BY <1>1, <3>1, <3>3
    <2>4. CASE SetGyro
      <3>1. CASE \E v \in ValuesOf(gyro_bw) : Call("gyro_bw", gyro_bw, v, set_gyro_bw(unit, v))
        <4>1. PICK v \in ValuesOf(gyro_bw) : Call("gyro_bw", gyro_bw, v, set_gyro_bw(unit, v))
          BY <3>1
        <4>2. v \in Nat
          BY DriverAssumption DEF GyroSetting
        <4>3. \A o \in set_gyro_bw(unit, v) : Behaves([op |-> "gyro_bw", f |-> gyro_bw, v |-> v], unit, o)
          BY <4>2, BandwidthBehaves
        <4> QED BY <1>1, <4>1, <4>3
      <3>2. CASE \E v \in ValuesOf(gyro_power_mode) :
                   Call("gyro_power_mode", gyro_power_mode, v, set_gyro_power_mode(unit, v))
        <4>1. PICK v \in ValuesOf(gyro_power_mode) :
                Call("gyro_power_mode", gyro_power_mode, v, set_gyro_power_mode(unit, v))
          BY <3>2
        <4>2. v \in Nat
          BY DriverAssumption DEF GyroSetting
        <4>3. \A o \in set_gyro_power_mode(unit, v) :
                Behaves([op |-> "gyro_power_mode", f |-> gyro_power_mode, v |-> v], unit, o)
          BY <4>2, PowerModeBehaves
        <4> QED BY <1>1, <4>1, <4>3
      <3>3. CASE \E v \in ValuesOf(gyro_auto_sleep_durn), bw \in 0..7 :
                   Call("gyro_auto_sleep", gyro_auto_sleep_durn, v, gyro_set_auto_sleep_durn(unit, v, bw))
        <4>1. PICK v \in ValuesOf(gyro_auto_sleep_durn), bw \in 0..7 :
                Call("gyro_auto_sleep", gyro_auto_sleep_durn, v, gyro_set_auto_sleep_durn(unit, v, bw))
          BY <3>3
        <4>2. v \in Nat
          BY DriverAssumption DEF GyroSetting
        <4>3. \A o \in gyro_set_auto_sleep_durn(unit, v, bw) :
                Behaves([op |-> "gyro_auto_sleep", f |-> gyro_auto_sleep_durn, v |-> v], unit, o)
          BY <4>2, AutoSleepBehaves
        <4> QED BY <1>1, <4>1, <4>3
      <3> QED BY <2>4, <3>1, <3>2, <3>3 DEF SetGyro
    <2>5. CASE Calibrate
      <3>1. PICK regs \in Calibrations : Call("calibrate", Status(regs[1], 0, 8), 255, WriteBytes(unit, regs, 255))
        BY <2>5 DEF Calibrate, Calibrations
      <3>2. \A o \in WriteBytes(unit, regs, 255) :
              Behaves([op |-> "calibrate", f |-> Status(regs[1], 0, 8), v |-> 255], unit, o)
        BY CalibrateBehaves
      <3> QED BY <1>1, <3>1, <3>2
    <2>6. CASE GetCalibration
      <3>1. PICK regs \in {accel_offset, mag_offset, gyro_offset} :
              Call("calibration", NoField, 0, ReadOffset(unit, regs))
        BY <2>6 DEF GetCalibration
      <3>2. \A o \in ReadOffset(unit, regs) : Behaves([op |-> "calibration", f |-> NoField, v |-> 0], unit, o)
        BY OffsetBehaves
      <3> QED BY <1>1, <3>1, <3>2
    <2>7. CASE GetSetting(Settings \cup ReadOnly)
      <3>1. \A f \in Settings \cup ReadOnly : IsSlice(f) /\ f.page \in Byte
        BY DriverAssumption DEF IsSetting, Byte
      <3> QED BY <1>4, <2>7, <3>1
    <2>8. CASE Read(Measures)
      BY <1>5, <2>8
    <2>9. CASE ConvertMeasure(Conversions)
      <3>1. PICK k \in Conversions : Call("convert", k.unit, k.wanted, Convert(unit, k))
        BY <2>9 DEF ConvertMeasure
      <3>2. IsConversion(k) /\ (~k.checked => k.unit = NoField /\ k.wanted = 0)
        BY DriverAssumption
      <3>3. \A o \in Convert(unit, k) : Behaves([op |-> "convert", f |-> k.unit, v |-> k.wanted], unit, o)
        BY <3>2, ConvertBehaves
      <3> QED BY <1>1, <3>1, <3>3
    <2>10. CASE TurnThePage
      <3>1. CASE \E p \in {0, 1} : Call("page", NoField, p, write_page_id(unit, p))
        <4>1. PICK p \in {0, 1} : Call("page", NoField, p, write_page_id(unit, p))
          BY <3>1
        <4>2. \A o \in write_page_id(unit, p) : Behaves([op |-> "page", f |-> NoField, v |-> p], unit, o)
          BY PageBehaves
        <4> QED BY <1>1, <4>1, <4>2
      <3>2. CASE Call("read_page", NoField, 0, read_page_id(unit))
        <4>1. \A o \in read_page_id(unit) : Behaves([op |-> "read_page", f |-> NoField, v |-> 0], unit, o)
          BY PageBehaves
        <4> QED BY <1>1, <3>2, <4>1
      <3> QED BY <2>10, <3>1, <3>2 DEF TurnThePage
    <2> QED BY <1>6, <2>1, <2>2, <2>3, <2>4, <2>5, <2>6, <2>7, <2>8, <2>9, <2>10 DEF AnyCall
  <1>7. CASE Probe
    <2>1. CASE GetSetting({accel_unit, gyro_range})
      BY <1>4, <2>1, ProbedSettings
    <2>2. CASE SetSetting(Probed)
      BY <1>3, <2>2
    <2>3. CASE Read({accel_xyz})
      BY <1>5, <2>3
    <2> QED BY <1>7, <2>1, <2>2, <2>3 DEF Probe
  <1> QED BY <1>2, <1>6, <1>7 DEF Next

-----------------------------------------------------------------------------
LEMMA InitDriver == Init => DriverInv
  <1> SUFFICES ASSUME Init PROVE DriverInv
    OBVIOUS
  <1>1. unit \in Unit /\ TriggerClear(unit) /\ 0 \in 0..MaxCalls
    BY DriverAssumption DEF Init
  <1>2. ok = TRUE /\ clean = FALSE /\ calls = 0
    BY DEF Init
  <1> QED BY <1>1, <1>2 DEF DriverInv, TypeOK, CacheCoherent

LEMMA NextDriver == DriverInv /\ [Next]_vars => DriverInv'
  <1> SUFFICES ASSUME DriverInv, [Next]_vars PROVE DriverInv'
    OBVIOUS
  <1>1. CASE Next
    <2>1. PICK c, o : Step(c, o)
      BY <1>1, NextSteps DEF DriverInv, TypeOK
    <2>2. o.s \in Unit /\ o.ok \in BOOLEAN
      BY <2>1 DEF Step, Behaves, IsOutcome
    <2>3. TypeOK'
      BY <2>1, <2>2, DriverAssumption DEF Step, DriverInv, TypeOK
    <2>4. TriggerClear(unit')
      BY <2>1 DEF Step, Behaves, DriverInv
    <2>5. TriggerClear(unit)'
      BY <2>4 DEF TriggerClear
    <2>6. CacheCoherent'
      BY <2>1 DEF Step, Behaves, DriverInv, CacheCoherent, Trusted, Reliable
    <2> QED BY <2>3, <2>5, <2>6 DEF DriverInv
  <1>2. CASE UNCHANGED vars
    BY <1>2 DEF vars, DriverInv, TypeOK, TriggerClear, CacheCoherent
  <1> QED BY <1>1, <1>2

LEMMA DriverInvariant == Spec => []DriverInv
  BY InitDriver, NextDriver, PTL DEF Spec

\* The registers stay bytes and the pages stay pages, whatever is called with whatever
\* argument (the driver masks and shifts every value it writes).
THEOREM DriverTypeOK == Spec => []TypeOK
  <1>1. DriverInv => TypeOK
    BY DEF DriverInv
  <1> QED BY DriverInvariant, <1>1, PTL

\* The copy of the page that the driver trusts is right for as long as no function has
\* reported an error, or masked one (bno055_write_page_id).
THEOREM DriverCacheCoherent == Spec => []CacheCoherent
  <1>1. DriverInv => CacheCoherent
    BY DEF DriverInv
  <1> QED BY DriverInvariant, <1>1, PTL

\* A function of the driver that succeeds has changed the bits it is about, to the value it
\* was given, and no other bit of either page: not the mode, which it had to leave.
THEOREM SettingsAreExact == Spec => SuccessIsExact
  <1>1. DriverInv /\ [Next]_vars =>
          [Good /\ (call'.op \in MasksErrors => Faultless) /\ call'.f # sys_rst
             => unit'.regs \in Expected(call', unit.regs)]_vars
    <2> SUFFICES ASSUME DriverInv, Next, Good, call'.op \in MasksErrors => Faultless, call'.f # sys_rst
                 PROVE  unit'.regs \in Expected(call', unit.regs)
      OBVIOUS
    <2>1. PICK c, o : Step(c, o)
      BY NextSteps DEF DriverInv, TypeOK
    <2>2. clean /\ ~unit.misread /\ Trusted(c, unit, o)
      BY <2>1 DEF Step, Behaves, Good, Faultless, Trusted, Reliable
    <2>3. unit.page_id = unit.page /\ TriggerClear(unit)
      BY <2>2 DEF DriverInv, CacheCoherent
    <2> QED BY <2>1, <2>2, <2>3 DEF Step, Behaves
  <1> QED BY DriverInvariant, <1>1, PTL DEF Spec, SuccessIsExact

\* What a function reads and reports as good is what the sensor holds there, and a measure
\* that is converted was taken in the unit that the conversion wants.
THEOREM WhatIsReadIsTrue == Spec => ReadsAreTrue
  <1>1. DriverInv /\ [Next]_vars =>
          [Good => /\ call'.op = "get" /\ <<call'.f.page, call'.f.reg>> \in Registers =>
                        data' = Slice(unit.regs[<<call'.f.page, call'.f.reg>>], call'.f)
                   /\ call'.op \in {"read", "convert"} => data'.taken
                   /\ call'.op = "convert" /\ call'.f # NoField =>
                        Slice(data'.units, call'.f) = call'.v]_vars
    <2> SUFFICES ASSUME DriverInv, Next, Good
                 PROVE  /\ call'.op = "get" /\ <<call'.f.page, call'.f.reg>> \in Registers =>
                             data' = Slice(unit.regs[<<call'.f.page, call'.f.reg>>], call'.f)
                        /\ call'.op \in {"read", "convert"} => data'.taken
                        /\ call'.op = "convert" /\ call'.f # NoField =>
                             Slice(data'.units, call'.f) = call'.v
      OBVIOUS
    <2>1. PICK c, o : Step(c, o)
      BY NextSteps DEF DriverInv, TypeOK
    <2>2. clean /\ ~unit.misread /\ Reliable(o) /\ call' = c /\ data' = o.data
      BY <2>1 DEF Step, Behaves, Good, Reliable
    <2>3. unit.page_id = unit.page /\ TriggerClear(unit)
      BY <2>2 DEF DriverInv, CacheCoherent
    <2>4. ASSUME c.op \in {"get", "read", "convert"}
          PROVE  /\ c.op = "get" /\ Key(c.f) \in Registers => o.data = Slice(unit.regs[Key(c.f)], c.f)
                 /\ c.op \in {"read", "convert"} => o.data.taken
                 /\ c.op = "convert" /\ c.f # NoField => Slice(o.data.units, c.f) = c.v
      <3>1. c.op \notin MasksErrors
        BY <2>4 DEF MasksErrors
      <3> QED BY <2>1, <2>2, <2>3, <2>4, <3>1 DEF Step, Behaves, Trusted
    <2> QED BY <2>2, <2>4 DEF Key
  <1> QED BY DriverInvariant, <1>1, PTL DEF Spec, ReadsAreTrue

\* A setting of page 1 writes the page without trusting the copy, and so repairs it.
THEOREM PageOneResynchronises == Spec => Resynchronised
  <1>1. DriverInv /\ [Next]_vars =>
          [ok' /\ call'.op = "set" /\ call'.f.config /\ call'.f.page = 1
             => unit'.page_id = unit'.page]_vars
    <2> SUFFICES ASSUME DriverInv, Next, ok', call'.op = "set", call'.f.config, call'.f.page = 1
                 PROVE  unit'.page_id = unit'.page
      OBVIOUS
    <2>1. PICK c, o : Step(c, o)
      BY NextSteps DEF DriverInv, TypeOK
    <2> QED BY <2>1 DEF Step, Behaves
  <1> QED BY DriverInvariant, <1>1, PTL DEF Spec, Resynchronised

\* bno055_set_gyro_bw and bno055_set_gyro_power_mode lengthen the auto sleep when the
\* advanced power mode needs it, if no transfer fails on the way.
THEOREM AutoSleepAlwaysFits == Spec => AutoSleepFits
  <1>1. DriverInv /\ [Next]_vars =>
          [Good /\ Faultless /\ call'.op \in {"gyro_bw", "gyro_power_mode"}
             => LET now(f) == Slice(unit'.regs[<<f.page, f.reg>>], f)
                IN  now(gyro_power_mode) = GYRO_POWER_MODE_ADVANCE_POWERSAVE =>
                      now(gyro_auto_sleep_durn) >= MinimumAutoSleep(now(gyro_bw))]_vars
    <2> SUFFICES ASSUME DriverInv, Next, Good, Faultless, call'.op \in {"gyro_bw", "gyro_power_mode"}
                 PROVE  Fits(unit'.regs)
      BY DEF Fits, Key
    <2>1. PICK c, o : Step(c, o)
      BY NextSteps DEF DriverInv, TypeOK
    <2>2. clean /\ ~unit.misread /\ Trusted(c, unit, o) /\ o.s.faults = unit.faults
      BY <2>1 DEF Step, Behaves, Good, Faultless, Trusted, Reliable
    <2>3. unit.page_id = unit.page /\ TriggerClear(unit)
      BY <2>2 DEF DriverInv, CacheCoherent
    <2>4. c.op \in MasksErrors /\ unit' = o.s
      BY <2>1 DEF Step, MasksErrors
    <2> QED BY <2>1, <2>2, <2>3, <2>4 DEF Step, Behaves
  <1> QED BY DriverInvariant, <1>1, PTL DEF Spec, AutoSleepFits

\* A function that fails half-way, in whatever transfer, spoils no setting but its own and
\* the mode, which it could not set again, and leaves no value that it was not to leave.
THEOREM FailuresAreContained == Spec => FailureIsContained
  <1>1. DriverInv /\ [Next]_vars =>
          [~unit'.misread /\ call'.f # sys_rst
             => \A r \in Registers :
                  \/ r = <<0, OPR_MODE>>
                  \/ unit'.regs[r] = unit.regs[r]
                  \/ \E e \in Expected(call', unit.regs) : unit'.regs[r] = e[r]]_vars
    <2> SUFFICES ASSUME DriverInv, Next, ~unit'.misread, call'.f # sys_rst
                 PROVE  \A r \in Registers :
                          \/ r = <<0, OPR_MODE>>
                          \/ unit'.regs[r] = unit.regs[r]
                          \/ \E e \in Expected(call', unit.regs) : unit'.regs[r] = e[r]
      OBVIOUS
    <2>1. PICK c, o : Step(c, o)
      BY NextSteps DEF DriverInv, TypeOK
    <2>2. call' = c /\ unit' = o.s /\ TriggerClear(unit) /\ Contained(c, unit, o)
      BY <2>1 DEF Step, Behaves, DriverInv
    <2> QED BY <2>2 DEF Contained
  <1> QED BY DriverInvariant, <1>1, PTL DEF Spec, FailureIsContained
=============================================================================
