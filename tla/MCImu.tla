------------------------------- MODULE MCImu -------------------------------
(***************************************************************************)
(* Imu for TLC: the registers that the program uses.                       *)
(***************************************************************************)
EXTENDS Imu

MCRegisters == {<<0, r>> : r \in {59, 61, 62, 63}} \cup {<<1, r>> : r \in 15..18}
=============================================================================
