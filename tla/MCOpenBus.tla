----------------------------- MODULE MCOpenBus -----------------------------
(***************************************************************************)
(* Constants for checking OpenBus on four-bit words (one-bit lanes).       *)
(***************************************************************************)
EXTENDS OpenBus, PathPrograms

MCPowerUpMems == {[r \in RegAddr |-> 0]}

============================================================================
