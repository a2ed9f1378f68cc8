------------------------------ MODULE MCTicks ------------------------------
(***************************************************************************)
(* An instance of Ticks: the inertial unit is due at every second tick,    *)
(* the GNSS at every third.                                                *)
(***************************************************************************)
EXTENDS Ticks

MCPeriod == [s \in Sources |-> IF s = BNO055 THEN 2 ELSE 3]

=============================================================================
