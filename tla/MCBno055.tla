------------------------------ MODULE MCBno055 ------------------------------
(***************************************************************************)
(* The driver of the inertial unit for TLC: every setting, with the values *)
(* at the edges of its field and of its range check, on a sensor whose     *)
(* registers are all zeros or all ones, in either mode, on either page.    *)
(***************************************************************************)
EXTENDS Bno055Driver

CONSTANT MaxFaults

AxisSettings ==
  UNION {{accel_any_motion_no_motion_axis_enable(c), accel_high_g_axis_enable(c),
          gyro_any_motion_axis_enable(c), gyro_highrate_axis_enable(c)} : c \in 0..3}

MCSettings == AxisSettings \cup
  {accel_unit, gyro_unit, euler_unit, tilt_unit, temp_unit, data_output_format, power_mode,
   intr_rst, clk_src, sys_rst, selftest, temp_source, remap_x_sign, remap_y_sign, remap_z_sign,
   accel_range, accel_bw, accel_power_mode, mag_data_output_rate, mag_operation_mode,
   mag_power_mode, gyro_range, accel_sleep_tmr_mode, accel_sleep_durn, gyro_sleep_durn,
   mag_sleep_mode, mag_sleep_durn, intr_mask_gyro_any_motion, intr_mask_gyro_highrate,
   intr_mask_accel_high_g, intr_mask_accel_any_motion, intr_mask_accel_no_motion,
   intr_gyro_any_motion, intr_gyro_highrate, intr_accel_high_g, intr_accel_any_motion,
   intr_accel_no_motion, accel_any_motion_thres, accel_any_motion_durn, accel_high_g_durn,
   accel_high_g_thres, accel_slow_no_motion_thres, accel_slow_no_motion_enable,
   accel_slow_no_motion_durn, gyro_any_motion_filter, gyro_highrate_filter,
   gyro_highrate_x_thres, gyro_highrate_x_hyst, gyro_highrate_x_durn, gyro_highrate_y_thres,
   gyro_highrate_y_hyst, gyro_highrate_y_durn, gyro_highrate_z_thres, gyro_highrate_z_hyst,
   gyro_highrate_z_durn, gyro_any_motion_thres, gyro_any_motion_slope_samples,
   gyro_any_motion_awake_durn}

MCReadOnly ==
  calib_stat \cup selftest_result \cup intr_stat \cup {stat_main_clk} \cup sys_stat

MCMeasures ==
  {accel_rev_id, chip_id, sw_rev_id, accel_x, accel_y, accel_z, accel_xyz, mag_x, mag_y, mag_z,
   mag_xyz, gyro_x, gyro_y, gyro_z, gyro_xyz, euler_h, euler_r, euler_p, euler_hrp,
   quaternion_w, quaternion_x, quaternion_y, quaternion_z, quaternion_wxyz, linear_accel_x,
   linear_accel_y, linear_accel_z, linear_accel_xyz, gravity_x, gravity_y, gravity_z,
   gravity_xyz, temp_data, mag_rev_id, gyro_rev_id, bl_rev_id}

MCConversions ==
  convert_double_accel_x \cup convert_double_accel_y \cup convert_double_accel_z \cup
  convert_double_accel_xyz \cup convert_double_gyro_x \cup convert_double_gyro_y \cup
  convert_double_gyro_z \cup convert_double_gyro_xyz \cup convert_double_euler_h \cup
  convert_double_euler_r \cup convert_double_euler_p \cup convert_double_euler_hpr \cup
  convert_double_temp \cup convert_double_mag \cup convert_double_linear_accel \cup
  convert_double_gravity \cup convert_float_euler_hpr

\* The ends of the field, the last value accepted and the first refused.
MCValuesOf(f) ==
  IF f.limit = Unlimited THEN {0, 2^f.len - 1}
  ELSE {0, f.limit} \cup (IF f.limit = 0 THEN {} ELSE {f.limit - 1})

\* In the registers with zeros the gyroscope is in its advanced power mode.
Registers0 == [r \in SettableRegisters |-> IF r = <<1, 11>> THEN 4 ELSE 0]
Registers1 == [r \in SettableRegisters |-> IF r = <<0, SYS_TRIGGER>> THEN 0 ELSE 255]

InMode(regs, mode) == [regs EXCEPT ![<<0, OPR_MODE>>] = mode]

MCStarts ==
  {[page |-> p, regs |-> r, page_id |-> 0, null |-> TRUE, faults |-> MaxFaults, misread |-> FALSE] :
    p \in {0, 1}, r \in {InMode(Registers0, OPERATION_MODE_CONFIG), InMode(Registers1, OPERATION_MODE_NDOF)}}
=============================================================================
