---------------------------- MODULE ControlUnitV1 --------------------------
(***************************************************************************)
(* The control unit of the v1 core (rtl_v1/control_unit.v).  It retires an *)
(* instruction in EXEC, or in MEM when its data access is answered; there  *)
(* is no COMMIT, and JAL, which reads no register, goes from FETCH to EXEC.*)
(* `it' is the decoded instruction type, `f' the function, `comp' the      *)
(* arithmetic unit's comparison outputs.                                   *)
(***************************************************************************)
EXTENDS CoppervTypes

VARIABLES state, state_change

controlVars == <<state, state_change>>

ControlTypeOK == /\ state \in State \ {"COMMIT"}
                 /\ state_change \in BOOLEAN

Integer == {"INT_IMM", "INT_REG"}
Link    == {"JAL", "AUIPC", "JALR"}

\* Mutant: a store does not wait for its response.
state_next_posted(it, inst_valid, data_valid) ==
  CASE state = "RESET"  -> "FETCH"
    [] state = "FETCH"  -> IF ~inst_valid THEN "FETCH"
                           ELSE IF it = "JAL" THEN "EXEC" ELSE "DECODE"
    [] state = "DECODE" -> IF it \in {"IMM", "FENCE"} THEN "FETCH" ELSE "EXEC"
    [] state = "EXEC"   -> IF it = "LOAD" THEN "MEM" ELSE "FETCH"
    [] state = "MEM"    -> IF data_valid THEN "FETCH" ELSE "MEM"
    [] OTHER            -> "RESET"

\* Mutant: a fence waits in DECODE.
state_next_fence(it, inst_valid, data_valid) ==
  CASE state = "RESET"  -> "FETCH"
    [] state = "FETCH"  -> IF ~inst_valid THEN "FETCH"
                           ELSE IF it = "JAL" THEN "EXEC" ELSE "DECODE"
    [] state = "DECODE" -> IF it = "IMM" THEN "FETCH" ELSE IF it = "FENCE" THEN "DECODE" ELSE "EXEC"
    [] state = "EXEC"   -> IF it \in {"STORE", "LOAD"} THEN "MEM" ELSE "FETCH"
    [] state = "MEM"    -> IF data_valid THEN "FETCH" ELSE "MEM"
    [] OTHER            -> "RESET"

state_next(it, inst_valid, data_valid) ==
  CASE state = "RESET"  -> "FETCH"
    [] state = "FETCH"  -> IF ~inst_valid THEN "FETCH"
                           ELSE IF it = "JAL" THEN "EXEC" ELSE "DECODE"
    [] state = "DECODE" -> IF it \in {"IMM", "FENCE"} THEN "FETCH" ELSE "EXEC"
    [] state = "EXEC"   -> IF it \in {"STORE", "LOAD"} THEN "MEM" ELSE "FETCH"
    [] state = "MEM"    -> IF data_valid THEN "FETCH" ELSE "MEM"
    [] OTHER            -> "RESET"

\* In MEM state_change_next is the answer to the data access.
answered(data_valid) == state = "MEM" /\ data_valid

----------------------------------------------------------------------------
(* Bus requests.                                                           *)

\* Mutant: the fetch request is held instead of pulsed.
inst_fetch_held == state = "FETCH"

inst_fetch == state = "FETCH" /\ state_change
store_data(it) == state = "EXEC" /\ it = "STORE" /\ state_change

\* Mutant: the request of a load does not wait for its state.
load_data_early(it) == it = "LOAD" /\ state_change

load_data(it) == state = "EXEC" /\ it = "LOAD" /\ state_change

----------------------------------------------------------------------------
(* Register file.                                                          *)

rs1_en(it) == state = "DECODE" /\ it \in {"INT_IMM", "INT_REG", "BRANCH",
                                          "STORE", "LOAD", "JALR"}

\* Mutant: no case for STORE.
rs2_en_no_store(it) == state = "DECODE" /\ it \in {"INT_REG", "BRANCH"}

rs2_en(it) == state = "DECODE" /\ it \in {"INT_REG", "BRANCH", "STORE"}

rd_en(it, data_valid) ==
  \/ state = "DECODE" /\ it = "IMM"
  \/ state = "EXEC" /\ it \in Integer \cup Link
  \/ it = "LOAD" /\ answered(data_valid)

\* The code 0 is both the default and RD_DIN_SEL_IMM.
rd_din_sel(it) == CASE state = "EXEC" /\ it \in Integer \cup Link -> "ALU"
                    [] state = "MEM" /\ it = "LOAD"               -> "MEM"
                    [] OTHER                                      -> "IMM"

----------------------------------------------------------------------------
(* Arithmetic unit.                                                        *)

get_int_alu_op(f) ==
  IF f \in {"ADD", "SUB", "SLL", "SLT", "SLTU", "XOR", "SRL", "SRA", "OR", "AND"}
    THEN f ELSE "NOP"

\* "NONE" is the code 0, which selects the operand 0.
alu_din1_sel(it) ==
  CASE state = "EXEC" /\ it \in Link                                  -> "PC"
    [] state = "EXEC" /\ it \in Integer \cup {"BRANCH", "STORE", "LOAD"} -> "RS1"
    [] OTHER                                                          -> "NONE"

alu_din2_sel(it) ==
  CASE state = "EXEC" /\ it \in {"INT_REG", "BRANCH"}                  -> "RS2"
    [] state = "EXEC" /\ it \in {"INT_IMM", "STORE", "LOAD", "AUIPC"}  -> "IMM"
    [] state = "EXEC" /\ it \in {"JAL", "JALR"}                        -> "CONST_4"
    [] OTHER                                                           -> "NONE"

alu_op(it, f) ==
  CASE state = "EXEC" /\ it \in Integer                      -> get_int_alu_op(f)
    [] state = "EXEC" /\ it \in Link \cup {"STORE", "LOAD"}  -> "ADD"
    [] state = "MEM"                                         -> "ADD"
    [] OTHER                                                 -> "NOP"

----------------------------------------------------------------------------
(* Program counter.                                                        *)

take_branch(f, comp) ==
  CASE f = "EQ"   -> comp.EQ
    [] f = "NEQ"  -> ~comp.EQ
    [] f = "LT"   -> comp.LT
    [] f = "GTE"  -> ~comp.LT
    [] f = "LTU"  -> comp.LTU
    [] f = "GTEU" -> ~comp.LTU
    [] OTHER      -> FALSE

\* Mutant: pc moves on in every cycle of MEM.
pc_next_sel_mem(it, f, comp, data_valid) ==
  CASE state = "DECODE" /\ it \in {"IMM", "FENCE"} -> "INCR"
    [] state = "EXEC" /\ it = "BRANCH" ->
         IF take_branch(f, comp) THEN "ADD_IMM" ELSE "INCR"
    [] state = "EXEC" /\ it = "JAL"                        -> "ADD_IMM"
    [] state = "EXEC" /\ it = "JALR"                       -> "ADD_RS1_IMM"
    [] state = "EXEC" /\ it \in Integer \cup {"AUIPC"}     -> "INCR"
    [] state = "MEM"                                       -> "INCR"
    [] OTHER                                               -> "STALL"

pc_next_sel(it, f, comp, data_valid) ==
  CASE state = "DECODE" /\ it \in {"IMM", "FENCE"} -> "INCR"
    [] state = "EXEC" /\ it = "BRANCH" ->
         IF take_branch(f, comp) THEN "ADD_IMM" ELSE "INCR"
    [] state = "EXEC" /\ it = "JAL"                        -> "ADD_IMM"
    [] state = "EXEC" /\ it = "JALR"                       -> "ADD_RS1_IMM"
    [] state = "EXEC" /\ it \in Integer \cup {"AUIPC"}     -> "INCR"
    [] answered(data_valid)                                -> "INCR"
    [] OTHER                                               -> "STALL"

----------------------------------------------------------------------------
\* A clock edge of the control unit; in reset, state_change is not reset.
ControlEdge(rst, it, inst_valid, data_valid) ==
  /\ state' = IF rst THEN state_next(it, inst_valid, data_valid) ELSE "RESET"
  /\ state_change' = (state # state_next(it, inst_valid, data_valid))

============================================================================
