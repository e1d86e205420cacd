----------------------------- MODULE ControlUnit ---------------------------
(***************************************************************************)
(* The control unit (control.scala): a state machine that takes each       *)
(* instruction through FETCH, DECODE, EXEC, MEM and COMMIT, and the        *)
(* control signals it drives in each state.  `it' is the decoded           *)
(* instruction type, `f' the function, `comp' the arithmetic unit's        *)
(* comparison outputs.                                                     *)
(*                                                                         *)
(* state_change is true in the first cycle of a state (RegNext of "the     *)
(* next state differs"); it makes inst_fetch, load_data and store_data     *)
(* pulses of one cycle.  It has no reset value.                            *)
(***************************************************************************)
EXTENDS CoppervTypes

VARIABLES state, state_change

controlVars == <<state, state_change>>

ControlTypeOK == /\ state \in State
                 /\ state_change \in BOOLEAN

Memory    == {"LOAD", "STORE"}
Immediate == {"IMM", "FENCE"}
Link      == {"JAL", "JALR", "AUIPC"}
Integer   == {"INT_IMM", "INT_REG"}

\* Mutant: a fence waits in DECODE.
state_next_fence(it, inst_valid, data_valid) ==
  IF state = "DECODE" /\ it = "FENCE" THEN "DECODE" ELSE
  CASE state = "RESET"  -> "FETCH"
    [] state = "FETCH"  -> IF inst_valid THEN "DECODE" ELSE "FETCH"
    [] state = "DECODE" -> IF it = "IMM" THEN "FETCH" ELSE "EXEC"
    [] state = "EXEC"   -> IF it \in Memory THEN "MEM" ELSE "COMMIT"
    [] state = "MEM"    -> IF data_valid THEN "COMMIT" ELSE "MEM"
    [] state = "COMMIT" -> "FETCH"
    [] OTHER            -> "RESET"

state_next(it, inst_valid, data_valid) ==
  CASE state = "RESET"  -> "FETCH"
    [] state = "FETCH"  -> IF inst_valid THEN "DECODE" ELSE "FETCH"
    [] state = "DECODE" -> IF it \in Immediate THEN "FETCH" ELSE "EXEC"
    [] state = "EXEC"   -> IF it \in Memory THEN "MEM" ELSE "COMMIT"
    [] state = "MEM"    -> IF data_valid THEN "COMMIT" ELSE "MEM"
    [] state = "COMMIT" -> "FETCH"
    [] OTHER            -> "RESET"

----------------------------------------------------------------------------
(* Bus requests.                                                           *)

inst_fetch == state = "FETCH" /\ state_change
load_data(it) == state = "MEM" /\ it = "LOAD" /\ state_change
store_data(it) == state = "MEM" /\ it = "STORE" /\ state_change

----------------------------------------------------------------------------
(* Register file.                                                          *)

rs1_en(it) == state = "DECODE" /\ it \in {"INT_IMM", "LOAD", "JALR",
                                          "INT_REG", "BRANCH", "STORE"}
rs2_en(it) == state = "DECODE" /\ it \in {"INT_REG", "BRANCH", "STORE"}

rd_en(it) == \/ state = "DECODE" /\ it = "IMM"
             \/ state = "COMMIT" /\ it \in Link \cup Integer \cup {"LOAD"}

rd_din_sel(it) == CASE ~rd_en(it)       -> "NONE"
                    [] state = "DECODE" -> "IMM"
                    [] it = "LOAD"      -> "MEM"
                    [] OTHER            -> "ALU"

----------------------------------------------------------------------------
(* Arithmetic unit.                                                        *)

get_int_alu_op(f) ==
  IF f \in {"ADD", "SUB", "SLL", "SLT", "SLTU", "XOR", "SRL", "SRA", "OR", "AND"}
    THEN f ELSE "NOP"

\* Mutant: the operand registers are loaded in every cycle.
alu_load_always(it) == TRUE

alu_load(it) == state = "EXEC" /\ it \notin Immediate

alu_din1_sel(it) == IF state = "EXEC" /\ it \in Link THEN "PC" ELSE "RS1"

alu_din2_sel(it) ==
  CASE state = "EXEC" /\ it \in {"INT_REG", "BRANCH"} -> "RS2"
    [] state = "EXEC" /\ it \in {"JAL", "JALR"}       -> "CONST_4"
    [] OTHER                                          -> "IMM"

alu_op(it, f) ==
  CASE state = "EXEC" /\ it \in Integer       -> get_int_alu_op(f)
    [] state = "EXEC" /\ it \in Memory \cup Link -> "ADD"
    [] OTHER                                  -> "NOP"

----------------------------------------------------------------------------
(* Program counter.                                                        *)

take_branch(f, comp) ==
  CASE f = "EQ"   -> comp.EQ
    [] f = "NEQ"  -> ~comp.EQ
    [] f = "LT"   -> comp.LT
    [] f = "GTE"  -> ~comp.LT
    [] f = "LTU"  -> comp.LTU
    [] f = "GTEU" -> ~comp.LTU
    [] OTHER      -> FALSE

pc_next_sel(it, f, comp) ==
  CASE state = "DECODE" /\ it \in Immediate -> "INCR"
    [] state = "COMMIT" /\ it = "BRANCH" ->
         IF take_branch(f, comp) THEN "ADD_IMM" ELSE "INCR"
    [] state = "COMMIT" /\ it = "JAL"    -> "ADD_IMM"
    [] state = "COMMIT" /\ it = "JALR"   -> "ADD_RS1_IMM"
    [] state = "COMMIT" /\ it \in {"AUIPC"} \cup Integer \cup Memory -> "INCR"
    [] OTHER -> "STALL"

----------------------------------------------------------------------------
\* A clock edge of the control unit.
ControlEdge(it, inst_valid, data_valid) ==
  /\ state' = state_next(it, inst_valid, data_valid)
  /\ state_change' = (state # state_next(it, inst_valid, data_valid))

\* Mutant: `state' has no reset value either.
ControlResetHeld(it, inst_valid, data_valid) == ControlEdge(it, inst_valid, data_valid)

\* A clock edge while reset is asserted: only `state' has a reset value.
ControlReset(it, inst_valid, data_valid) ==
  /\ state' = "RESET"
  /\ state_change' = (state # state_next(it, inst_valid, data_valid))

============================================================================
