---------------------------- MODULE MCOpenBusV1 ----------------------------
(***************************************************************************)
(* Constants for checking OpenBusV1 on four-bit words (one-bit lanes).     *)
(***************************************************************************)
EXTENDS OpenBusV1, PathPrograms

MCPowerUpMems == {[r \in RegAddr |-> 1]}

============================================================================
