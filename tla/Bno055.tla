------------------------------- MODULE Bno055 -------------------------------
(***************************************************************************)
(* The driver of the inertial unit (bno055.c) over the I2C transfers of    *)
(* bno055_support.c, and the sensor as the driver uses it.                 *)
(*                                                                         *)
(* An operation maps a unit to the set of its outcomes.  The unit is the   *)
(* sensor (its page and its registers), the driver's copy of the page and  *)
(* whether the driver is bound; an outcome is the unit after the call, the *)
(* result (0 or negative in the code) and the value that was read.         *)
(* Results only add negative numbers to 0, so a sum is 0 when all are.     *)
(***************************************************************************)
EXTENDS Integers, Sequences, Bno055Registers

\* The registers whose contents are followed, as <<page, address>>.
CONSTANT Registers

PAGE_ID == 7
UNIT_SEL == 59
OPR_MODE == 61
SYS_TRIGGER == 63

SettableRegisters ==
  ({0} \X ({59} \cup 61..106)) \cup ({1} \X (8..31))

ASSUME RegistersAssumption ==
  /\ Registers \subseteq SettableRegisters
  /\ {<<0, UNIT_SEL>>, <<0, OPR_MODE>>} \subseteq Registers

OPERATION_MODE_CONFIG == 0
OPERATION_MODE_ACCONLY == 1
OPERATION_MODE_AMG == 7
OPERATION_MODE_NDOF == 12
POWER_MODE_NORMAL == 0
POWER_MODE_LOWPOWER == 1
GYRO_POWER_MODE_ADVANCE_POWERSAVE == 4
REMAP_VALUES == {33, 24, 6, 18, 9, 36}
DEFAULT_AXIS == 36

Byte == 0..255
Unit ==
  [page : Byte, regs : [Registers -> Byte], page_id : Byte, null : BOOLEAN,
   faults : Nat, misread : BOOLEAN]

Outcome(s, ok, data) == [s |-> s, ok |-> ok, data |-> data]
Failed(s) == Outcome(s, FALSE, 0)
Also(o, r) == [r EXCEPT !.ok = o.ok /\ r.ok]

(* A setting is a slice of the bits of a register. *)
IsSlice(f) == f.pos \in 0..8 /\ f.len \in 0..8 /\ f.pos + f.len <= 8

Slice(byte, f) == (byte \div 2^f.pos) % 2^f.len
\* Variant: the value is not cut to the width of the field.
SetSlice_NotCut(byte, f, v) == byte + (v - Slice(byte, f)) * 2^f.pos

SetSlice(byte, f, v) == byte + ((v % 2^f.len) - Slice(byte, f)) * 2^f.pos

(***************************************************************************)
(* The sensor.  A register that is not there reads 0 and takes nothing.    *)
(* But for the mode, the triggers and the interrupts, registers are taken  *)
(* in the configuration mode only, which is why the driver enters it.      *)
(***************************************************************************)
Content(s, reg) ==
  IF reg = PAGE_ID THEN s.page
  ELSE IF <<s.page, reg>> \in Registers THEN s.regs[<<s.page, reg>>] ELSE 0

Mode(s) == Slice(s.regs[<<0, OPR_MODE>>], operation_mode)
AnyMode == {<<0, OPR_MODE>>, <<0, SYS_TRIGGER>>, <<1, 15>>, <<1, 16>>}

\* What a function may set: a byte's bits, on a page the driver turns to; not the page
\* itself, nor the reset along with another trigger; the mode, and what the sensor takes in
\* any mode, outside the configuration mode.
Key(f) == <<f.page, f.reg>>
IsSetting(f) ==
  /\ IsSlice(f) /\ f.limit \in Nat
  /\ f.page \in {0, 1} /\ f.reg # PAGE_ID
  /\ Key(f) = <<0, SYS_TRIGGER>> /\ f # sys_rst => f.pos + f.len <= sys_rst.pos \/ f.pos > sys_rst.pos
  /\ IF f.config THEN Key(f) # <<0, OPR_MODE>> ELSE Key(f) \in AnyMode

\* The two pages share no address of a register that can be set.
OwnAddress(f) == \A r \in SettableRegisters : r[2] = f.reg => r = Key(f)

\* The bit that resets the sensor does not stay.
TriggerClear(s) == <<0, SYS_TRIGGER>> \in Registers => Slice(s.regs[<<0, SYS_TRIGGER>>], sys_rst) # 1

\* A conversion wants one of two units of the register of the units.
IsConversion(c) ==
  c.checked =>
    /\ IsSetting(c.unit) /\ c.unit.config /\ Key(c.unit) = <<0, UNIT_SEL>> /\ c.unit.len > 0
    /\ c.wanted \in {0, 1} /\ c.wanted < c.unit.limit

\* Registers with a setting made, and nothing else.
WithField(regs, f, v) ==
  [r \in Registers |-> IF r = Key(f) THEN SetSlice(regs[r], f, v) ELSE regs[r]]

TurnPage(s, v) == [s EXCEPT !.page = v]

Reset(s) == [s EXCEPT !.page = 0, !.regs = [r \in Registers |-> 0]]

Written(s, reg, v) ==
  LET key == <<s.page, reg>>
  IN  IF reg = PAGE_ID THEN TurnPage(s, v)
      ELSE IF key = <<0, SYS_TRIGGER>> /\ Slice(v, sys_rst) = 1 THEN Reset(s)
      ELSE IF key \in Registers /\ (Mode(s) = OPERATION_MODE_CONFIG \/ key \in AnyMode)
           THEN [s EXCEPT !.regs[key] = v]
           ELSE s

\* What a measure is taken with; NoSample stands for bytes that are no measure.
Sample(s) ==
  [taken |-> s.page = 0, mode |-> Mode(s), units |-> s.regs[<<0, UNIT_SEL>>]]
NoSample == [taken |-> FALSE, mode |-> 0, units |-> 0]

(***************************************************************************)
(* The transfers, which a fault may spoil.  The code keeps the last        *)
(* acknowledge of a transfer only.  A read whose address was refused gives *)
(* another register's bytes, reported as good; a read refused at its end   *)
(* gives the idle level of the bus.  A write reported as failed may have   *)
(* been taken: it is the acknowledge that was lost.                        *)
(***************************************************************************)
Spoilt(s) == [s EXCEPT !.faults = @ - 1]
Misread(s) == [Spoilt(s) EXCEPT !.misread = TRUE]

BusRead(s, reg) ==
  {Outcome(s, TRUE, Content(s, reg))} \cup
  (IF s.faults = 0 THEN {}
   ELSE {Outcome(Spoilt(s), FALSE, 255)} \cup {Outcome(Misread(s), TRUE, v) : v \in {0, 255}})

BusWrite(s, reg, v) ==
  {Outcome(Written(s, reg, v), TRUE, 0)} \cup
  (IF s.faults = 0 THEN {} ELSE {Failed(Spoilt(s)), Failed(Spoilt(Written(s, reg, v)))})

(***************************************************************************)
(* Pages.  The driver's copy of the page follows writes that succeeded.    *)
(***************************************************************************)
WithPage(o, page) == IF o.ok THEN [o EXCEPT !.s.page_id = page] ELSE o

\* Variant: the copy of the page is updated whatever became of the write.
write_page_id_Always(s, page) ==
  IF s.null THEN {Failed(s)} ELSE
  UNION {IF r.ok THEN {WithPage([w EXCEPT !.ok = TRUE], page) : w \in BusWrite(r.s, PAGE_ID, page)}
                 ELSE {Failed(r.s)} : r \in BusRead(s, PAGE_ID)}

write_page_id(s, page) ==
  IF s.null THEN {Failed(s)} ELSE
  UNION {IF r.ok THEN {WithPage(w, page) : w \in BusWrite(r.s, PAGE_ID, page)}
                 ELSE {Failed(r.s)} : r \in BusRead(s, PAGE_ID)}

read_page_id(s) ==
  IF s.null THEN {Failed(s)} ELSE {WithPage(r, r.data) : r \in BusRead(s, PAGE_ID)}

\* Most functions turn the page only if the copy says so.
PageReady(s, page) ==
  IF s.page_id = page /\ ~s.null THEN {Outcome(s, TRUE, 0)} ELSE write_page_id(s, page)

(***************************************************************************)
(* Getting a setting or a status, reading a measure.                       *)
(***************************************************************************)
GetField(s, f) == {[r EXCEPT !.data = Slice(r.data, f)] : r \in BusRead(s, f.reg)}

Get(s, f) ==
  UNION {IF p.ok THEN GetField(p.s, f) ELSE {Failed(p.s)} : p \in PageReady(s, f.page)}

NotSampled(s) == Outcome(s, FALSE, NoSample)
Sampled(s, r) == [r EXCEPT !.data = IF r.s.faults = s.faults THEN Sample(s) ELSE NoSample]

\* Variant: the measure is read on whatever page the sensor is.
ReadData_AnyPage(s, d) == {Sampled(s, r) : r \in BusRead(s, d.reg)}

ReadData(s, d) ==
  UNION {IF p.ok THEN {Sampled(p.s, r) : r \in BusRead(p.s, d.reg)} ELSE {NotSampled(p.s)} :
         p \in PageReady(s, 0)}

(***************************************************************************)
(* Setting: a byte is read, its slice set and written back.                *)
(***************************************************************************)
\* Variant: the byte is not read before it is written.
Update_Blind(s, f, v) == BusWrite(s, f.reg, SetSlice(0, f, v))

\* Variant: the byte is written even if it could not be read.
Update_Unchecked(s, f, v) ==
  UNION {BusWrite(r.s, f.reg, SetSlice(r.data, f, v)) : r \in BusRead(s, f.reg)}

Update(s, f, v) ==
  UNION {IF r.ok THEN BusWrite(r.s, f.reg, SetSlice(r.data, f, v)) ELSE {Failed(r.s)} :
         r \in BusRead(s, f.reg)}

\* From a mode to another the sensor goes through CONFIG; that first change may fail.
set_operation_mode(s, mode) ==
  UNION {IF ~g.ok THEN {Failed(g.s)}
         ELSE IF OPERATION_MODE_CONFIG \in {g.data, mode} THEN Update(g.s, operation_mode, mode)
         ELSE UNION {Update(c.s, operation_mode, mode) :
                     c \in Update(g.s, operation_mode, OPERATION_MODE_CONFIG)} :
         g \in Get(s, operation_mode)}

\* The outcome's data is the mode that was left; it is set again at the end, even
\* when nothing could be done, or when it is what a failed read returned.
EnterConfig(s) ==
  UNION {IF ~g.ok \/ g.data = OPERATION_MODE_CONFIG THEN {g}
         ELSE {[c EXCEPT !.data = g.data] : c \in set_operation_mode(g.s, OPERATION_MODE_CONFIG)} :
         g \in Get(s, operation_mode)}

\* Variant: the mode is not set again.
Restore_Forgotten(o, prev) == {o}

Restore(o, prev) ==
  IF prev = OPERATION_MODE_CONFIG THEN {o}
  ELSE {Also(o, r) : r \in set_operation_mode(o.s, prev)}

InConfig(s, Body(_)) ==
  UNION {UNION {Restore(b, e.data) : b \in IF e.ok THEN Body(e.s) ELSE {Failed(e.s)}} :
         e \in EnterConfig(s)}

\* Settings of page 1 turn the page unconditionally, and check their range after that.
OnPage(s, page, accepted, Body(_)) ==
  UNION {IF p.ok /\ accepted THEN Body(p.s) ELSE {Failed(p.s)} :
         p \in IF page = 0 THEN {Outcome(s, TRUE, 0)} ELSE write_page_id(s, page)}

Set(s, f, v) ==
  IF f.config
  THEN InConfig(s, LAMBDA c : OnPage(c, f.page, v < f.limit, LAMBDA u : Update(u, f, v)))
  ELSE UNION {IF p.ok THEN Update(p.s, f, v) ELSE {Failed(p.s)} : p \in PageReady(s, f.page)}

set_axis_remap_value(s, v) ==
  Set(s, axis_remap_value, IF v \in REMAP_VALUES THEN v ELSE DEFAULT_AXIS)

(***************************************************************************)
(* The gyroscope's bandwidth, power mode and auto sleep depend on each     *)
(* other.                                                                  *)
(***************************************************************************)
MinimumAutoSleep(bw) == CASE bw = 3 -> 2 [] bw \in {4, 6} -> 4 [] bw \in {5, 7} -> 6 [] OTHER -> 1

\* Variant: any auto sleep goes with any bandwidth.
gyro_set_auto_sleep_durn_AsGiven(s, durn, bw) == Set(s, gyro_auto_sleep_durn, durn)

gyro_set_auto_sleep_durn(s, durn, bw) ==
  Set(s, gyro_auto_sleep_durn,
      IF durn > MinimumAutoSleep(bw) THEN durn ELSE MinimumAutoSleep(bw))

AdjustAutoSleep(s, bw) ==
  UNION {IF d.ok THEN gyro_set_auto_sleep_durn(d.s, d.data, bw) ELSE {d} :
         d \in Get(s, gyro_auto_sleep_durn)}

\* The result of writing the bandwidth is replaced by that of reading the power mode.
AfterBandwidth(s, bw) ==
  UNION {IF m.ok /\ m.data = GYRO_POWER_MODE_ADVANCE_POWERSAVE THEN AdjustAutoSleep(m.s, bw) ELSE {m} :
         m \in Get(s, gyro_power_mode)}

set_gyro_bw(s, bw) ==
  InConfig(s, LAMBDA c : OnPage(c, 1, bw < gyro_bw.limit, LAMBDA u :
    UNION {AfterBandwidth(w.s, bw) : w \in Update(u, gyro_bw, bw)}))

\* What comes before the advanced power mode may fail: its result is replaced too.
BeforeAdvanced(s) ==
  UNION {UNION {UNION {write_page_id(a.s, 1) :
      a \in IF b.ok /\ d.ok THEN gyro_set_auto_sleep_durn(d.s, d.data, b.data) ELSE {d}} :
      d \in Get(b.s, gyro_auto_sleep_durn)} : b \in Get(s, gyro_bw)}

set_gyro_power_mode(s, mode) ==
  InConfig(s, LAMBDA c : OnPage(c, 1, mode < gyro_power_mode.limit, LAMBDA u :
    UNION {Update(b.s, gyro_power_mode, mode) :
           b \in IF mode = GYRO_POWER_MODE_ADVANCE_POWERSAVE THEN BeforeAdvanced(u)
                 ELSE {Outcome(u, TRUE, 0)}}))

(***************************************************************************)
(* The calibration: bytes updated one after the other, none after a        *)
(* failure, although the reads go on.                                      *)
(***************************************************************************)
accel_offset == <<85, 86, 87, 88, 89, 90, 103, 104>>
mag_offset == <<91, 92, 93, 94, 95, 96, 105, 106>>
gyro_offset == <<97, 98, 99, 100, 101, 102>>
sic_matrix == [i \in 1..18 |-> 66 + i]

UpdateByte(o, reg, v) ==
  UNION {IF o.ok /\ r.ok THEN BusWrite(r.s, reg, v) ELSE {Failed(r.s)} : r \in BusRead(o.s, reg)}

Then(O, reg, v) == UNION {UpdateByte(o, reg, v) : o \in O}
ThenTwo(O, regs, i, v) == Then(Then(O, regs[i], v), regs[i + 1], v)
ThenSix(O, regs, i, v) == ThenTwo(ThenTwo(ThenTwo(O, regs, i, v), regs, i + 2, v), regs, i + 4, v)

\* Two bytes for each axis, and two for the radius; the matrix has three rows.
UpdateBytes(s, regs, v) ==
  LET axes == ThenSix({Outcome(s, TRUE, 0)}, regs, 1, v)
  IN  CASE Len(regs) = 6  -> axes
        [] Len(regs) = 8  -> ThenTwo(axes, regs, 7, v)
        [] Len(regs) = 18 -> ThenSix(ThenSix(axes, regs, 7, v), regs, 13, v)

WriteBytes(s, regs, v) == InConfig(s, LAMBDA c : UpdateBytes(c, regs, v))

\* The radius is the last of the eight bytes of an offset, read on its own.
ReadOffset(s, regs) ==
  UNION {IF x.ok /\ Len(regs) = 8 THEN {Sampled(x.s, r) : r \in BusRead(x.s, regs[7])} ELSE {x} :
         x \in ReadData(s, Data(regs[1], 6))}

(***************************************************************************)
(* Conversions set the unit they want, if it is not the sensor's.          *)
(***************************************************************************)
UnitReady(s, c) ==
  IF ~c.checked THEN {Outcome(s, TRUE, 0)}
  ELSE UNION {IF g.data = c.wanted THEN {g}
              ELSE {[u EXCEPT !.ok = u.ok /\ (g.ok \/ c.masked)] : u \in Set(g.s, c.unit, c.wanted)} :
              g \in Get(s, c.unit)}

Convert(s, c) ==
  UNION {IF u.ok THEN ReadData(u.s, c.data) ELSE {NotSampled(u.s)} : u \in UnitReady(s, c)}

(***************************************************************************)
(* bno055_init binds the driver, turns to page 0, reads the identifiers    *)
(* and takes as copy of the page whatever was read, even a failed read.    *)
(***************************************************************************)
AlsoRead(O, d) == UNION {{Also(o, r) : r \in BusRead(o.s, d.reg)} : o \in O}

\* Variant: the copy of the page is taken to be 0, and the page not written.
init_AssumesPage(s) ==
  LET bound == Outcome([s EXCEPT !.null = FALSE, !.page_id = 0], TRUE, 0)
      accel == AlsoRead(AlsoRead({bound}, chip_id), accel_rev_id)
      gyro == AlsoRead(AlsoRead(accel, mag_rev_id), gyro_rev_id)
  IN  AlsoRead(AlsoRead(gyro, bl_rev_id), sw_rev_id)

init(s) ==
  LET accel == AlsoRead(AlsoRead(BusWrite([s EXCEPT !.null = FALSE], PAGE_ID, 0), chip_id), accel_rev_id)
      gyro == AlsoRead(AlsoRead(accel, mag_rev_id), gyro_rev_id)
      all == AlsoRead(AlsoRead(gyro, bl_rev_id), sw_rev_id)
  IN  UNION {{[Also(o, r) EXCEPT !.s.page_id = r.data] : r \in BusRead(o.s, PAGE_ID)} : o \in all}

=============================================================================
