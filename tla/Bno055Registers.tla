--------------------------- MODULE Bno055Registers ---------------------------
(***************************************************************************)
(* What the driver of the inertial unit (bno055.c, with the register map   *)
(* of bno055.h) reads and sets: one definition per pair of get and set     *)
(* functions, per measure that is read and per conversion of a measure.    *)
(* What these functions do is in the module Bno055.  A setting is a field  *)
(* of bits of a register of one of the two pages.                          *)
(***************************************************************************)
EXTENDS Naturals

Unlimited == 256

\* reg, pos, len: where the bits are; limit: the first value that is refused;
\* config: it is set in the configuration mode of the sensor only.
Field(page, reg, pos, len, limit, config) ==
  [page |-> page, reg |-> reg, pos |-> pos, len |-> len, limit |-> limit, config |-> config]

SystemSetting(reg, pos, len) == Field(0, reg, pos, len, Unlimited, TRUE)
SystemControl(reg, pos, len) == Field(0, reg, pos, len, Unlimited, FALSE)
SensorSetting(reg, pos, len) == Field(1, reg, pos, len, Unlimited, TRUE)
LimitedSetting(reg, pos, len, limit) == Field(1, reg, pos, len, limit, TRUE)
InterruptBit(reg, pos) == Field(1, reg, pos, 1, Unlimited, FALSE)
Status(reg, pos, len) == Field(0, reg, pos, len, Unlimited, FALSE)

\* A setting with one bit for each of the axes 0, 1 and 2; any other is refused.
AxisBit(reg, pos, channel) ==
  IF channel \in 0..2 THEN SensorSetting(reg, pos + channel, 1) ELSE LimitedSetting(0, 0, 0, 0)

Data(reg, bytes) == [reg |-> reg, bytes |-> bytes]

Converted(data, unit, wanted) ==
  [data |-> data, unit |-> unit, wanted |-> wanted, checked |-> TRUE, masked |-> FALSE]
ConvertedMasked(data, unit, wanted) == [Converted(data, unit, wanted) EXCEPT !.masked = TRUE]
InEitherUnit(data, unit) == {Converted(data, unit, w) : w \in {0, 1}}
AsRead(data) ==
  [data |-> data, unit |-> Status(0, 0, 0), wanted |-> 0, checked |-> FALSE, masked |-> FALSE]

(* The system: units, mode of operation, power, triggers, axes. *)
accel_unit == SystemSetting(59, 0, 1)
gyro_unit == SystemSetting(59, 1, 1)
euler_unit == SystemSetting(59, 2, 1)
tilt_unit == SystemSetting(59, 3, 1)
temp_unit == SystemSetting(59, 4, 1)
data_output_format == SystemSetting(59, 7, 1)
operation_mode == SystemControl(61, 0, 4)
power_mode == SystemSetting(62, 0, 2)
intr_rst == SystemControl(63, 6, 1)
clk_src == SystemControl(63, 7, 1)
sys_rst == SystemControl(63, 5, 1)
selftest == SystemSetting(63, 0, 1)
temp_source == SystemSetting(64, 0, 2)
axis_remap_value == SystemSetting(65, 0, 6)
remap_x_sign == SystemSetting(66, 2, 1)
remap_y_sign == SystemSetting(66, 1, 1)
remap_z_sign == SystemSetting(66, 0, 1)

(* The three sensors. *)
accel_range == LimitedSetting(8, 0, 2, 5)
accel_bw == LimitedSetting(8, 2, 3, 8)
accel_power_mode == LimitedSetting(8, 5, 3, 6)
mag_data_output_rate == LimitedSetting(9, 0, 3, 8)
mag_operation_mode == LimitedSetting(9, 3, 2, 5)
mag_power_mode == LimitedSetting(9, 5, 2, 4)
gyro_range == LimitedSetting(10, 0, 3, 5)
gyro_bw == LimitedSetting(10, 3, 3, 8)
gyro_power_mode == LimitedSetting(11, 0, 3, 5)
accel_sleep_tmr_mode == LimitedSetting(12, 0, 1, 2)
accel_sleep_durn == LimitedSetting(12, 1, 4, 16)
gyro_sleep_durn == LimitedSetting(13, 0, 3, 8)
gyro_auto_sleep_durn == LimitedSetting(13, 3, 3, 8)
mag_sleep_mode == SensorSetting(14, 0, 1)
mag_sleep_durn == SensorSetting(14, 1, 4)

(* The interrupts: which reach the INT pin, and which are enabled. *)
intr_mask_gyro_any_motion == InterruptBit(15, 2)
intr_mask_gyro_highrate == InterruptBit(15, 3)
intr_mask_accel_high_g == InterruptBit(15, 5)
intr_mask_accel_any_motion == InterruptBit(15, 6)
intr_mask_accel_no_motion == InterruptBit(15, 7)
intr_gyro_any_motion == InterruptBit(16, 2)
intr_gyro_highrate == InterruptBit(16, 3)
intr_accel_high_g == InterruptBit(16, 5)
intr_accel_any_motion == InterruptBit(16, 6)
intr_accel_no_motion == InterruptBit(16, 7)

(* When the accelerometer and the gyroscope raise their interrupts. *)
accel_any_motion_thres == SensorSetting(17, 0, 8)
accel_any_motion_durn == SensorSetting(18, 0, 2)
accel_any_motion_no_motion_axis_enable(channel) == AxisBit(18, 2, channel)
accel_high_g_axis_enable(channel) == AxisBit(18, 5, channel)
accel_high_g_durn == SensorSetting(19, 0, 8)
accel_high_g_thres == SensorSetting(20, 0, 8)
accel_slow_no_motion_thres == SensorSetting(21, 0, 8)
accel_slow_no_motion_enable == SensorSetting(22, 0, 1)
accel_slow_no_motion_durn == SensorSetting(22, 1, 6)
gyro_any_motion_axis_enable(channel) == AxisBit(23, 0, channel)
gyro_highrate_axis_enable(channel) == AxisBit(23, 3, channel)
gyro_any_motion_filter == SensorSetting(23, 6, 1)
gyro_highrate_filter == SensorSetting(23, 7, 1)
gyro_highrate_x_thres == SensorSetting(24, 0, 5)
gyro_highrate_x_hyst == SensorSetting(24, 5, 2)
gyro_highrate_x_durn == SensorSetting(25, 0, 8)
gyro_highrate_y_thres == SensorSetting(26, 0, 5)
gyro_highrate_y_hyst == SensorSetting(26, 5, 2)
gyro_highrate_y_durn == SensorSetting(27, 0, 8)
gyro_highrate_z_thres == SensorSetting(28, 0, 5)
gyro_highrate_z_hyst == SensorSetting(28, 5, 2)
gyro_highrate_z_durn == SensorSetting(29, 0, 8)
gyro_any_motion_thres == SensorSetting(30, 0, 7)
gyro_any_motion_slope_samples == SensorSetting(31, 0, 2)
gyro_any_motion_awake_durn == SensorSetting(31, 2, 2)

(* The status of the sensor, which is only read. *)
calib_stat == {Status(53, 0, 2), Status(53, 2, 2), Status(53, 4, 2), Status(53, 6, 2)}
selftest_result == {Status(54, 0, 1), Status(54, 1, 1), Status(54, 2, 1), Status(54, 3, 1)}
intr_stat == {Status(55, 2, 1), Status(55, 3, 1), Status(55, 5, 1), Status(55, 6, 1), Status(55, 7, 1)}
\* Its mask is 0x10 where its position is 0: bit 4 is what is read, for a status that is bit 0.
stat_main_clk == Status(56, 4, 1)
sys_stat == {Status(57, 0, 8), Status(58, 0, 8)}

(* What is measured: the first register and the number of bytes, in one read. *)
chip_id == Data(0, 1)
sw_rev_id == Data(4, 2)
accel_rev_id == Data(1, 1)
mag_rev_id == Data(2, 1)
gyro_rev_id == Data(3, 1)
bl_rev_id == Data(6, 1)
accel_x == Data(8, 2)
accel_y == Data(10, 2)
accel_z == Data(12, 2)
accel_xyz == Data(8, 6)
mag_x == Data(14, 2)
mag_y == Data(16, 2)
mag_z == Data(18, 2)
mag_xyz == Data(14, 6)
gyro_x == Data(20, 2)
gyro_y == Data(22, 2)
gyro_z == Data(24, 2)
gyro_xyz == Data(20, 6)
euler_h == Data(26, 2)
euler_r == Data(28, 2)
euler_p == Data(30, 2)
euler_hrp == Data(26, 6)
quaternion_w == Data(32, 2)
quaternion_x == Data(34, 2)
quaternion_y == Data(36, 2)
quaternion_z == Data(38, 2)
quaternion_wxyz == Data(32, 8)
linear_accel_x == Data(40, 2)
linear_accel_y == Data(42, 2)
linear_accel_z == Data(44, 2)
linear_accel_xyz == Data(40, 6)
gravity_x == Data(46, 2)
gravity_y == Data(48, 2)
gravity_z == Data(50, 2)
gravity_xyz == Data(46, 6)
temp_data == Data(52, 1)

(* Conversions to a unit: for the first four quantities the unit of the sensor is
   read and, when it is another, set; the others are taken as they are. *)
convert_float_accel_x == InEitherUnit(accel_x, accel_unit)
convert_float_accel_y == InEitherUnit(accel_y, accel_unit)
convert_float_accel_z == InEitherUnit(accel_z, accel_unit)
convert_float_accel_xyz == InEitherUnit(accel_xyz, accel_unit)
convert_float_gyro_x == InEitherUnit(gyro_x, gyro_unit)
convert_float_gyro_y == InEitherUnit(gyro_y, gyro_unit)
convert_float_gyro_z == InEitherUnit(gyro_z, gyro_unit)
convert_float_gyro_xyz == InEitherUnit(gyro_xyz, gyro_unit)
convert_float_euler_h == InEitherUnit(euler_h, euler_unit)
convert_float_euler_r == InEitherUnit(euler_r, euler_unit)
convert_float_euler_p == InEitherUnit(euler_p, euler_unit)
convert_float_euler_hpr == InEitherUnit(euler_hrp, euler_unit)
convert_float_temp == InEitherUnit(temp_data, temp_unit)
convert_float_mag == {AsRead(mag_x), AsRead(mag_y), AsRead(mag_z), AsRead(mag_xyz)}
convert_float_linear_accel == {AsRead(linear_accel_x), AsRead(linear_accel_y), AsRead(linear_accel_z), AsRead(linear_accel_xyz)}
convert_float_gravity == {AsRead(gravity_x), AsRead(gravity_y), AsRead(gravity_z), AsRead(gravity_xyz)}
convert_double_accel_x == convert_float_accel_x
convert_double_accel_y == convert_float_accel_y
convert_double_accel_z == convert_float_accel_z
convert_double_accel_xyz == convert_float_accel_xyz
convert_double_gyro_x == convert_float_gyro_x
convert_double_gyro_y == convert_float_gyro_y
convert_double_gyro_z == convert_float_gyro_z
convert_double_gyro_xyz == convert_float_gyro_xyz
convert_double_euler_h == convert_float_euler_h
convert_double_euler_r == convert_float_euler_r
convert_double_euler_p == convert_float_euler_p
\* To radians, the result of the read replaces those of the unit.
convert_double_euler_hpr == {Converted(euler_hrp, euler_unit, 0), ConvertedMasked(euler_hrp, euler_unit, 1)}
convert_double_temp == convert_float_temp
convert_double_mag == convert_float_mag
convert_double_linear_accel == convert_float_linear_accel
convert_double_gravity == convert_float_gravity

=============================================================================
