------------------------------ MODULE OpenBusV1 ----------------------------
(***************************************************************************)
(* The v1 core with an arbitrary slave on its bus, under a reset that may  *)
(* come at any time, last any number of cycles and come again.             *)
(***************************************************************************)
EXTENDS Copperv1, BusSlave

vars == <<coreVars, slaveVars>>

TypeOK == CoreTypeOK /\ SlaveTypeOK

----------------------------------------------------------------------------
\* A clock edge out of reset.  ia, ra and wa say on which channels the slave
\* answers in the cycle before it.
ClockEdge(ia, ra, wa) ==
  /\ rst
  /\ \E irr \in Ready(inst_fetch),
        drr \in Ready(load_data(inst_type) \/ dr_addr_valid),
        dwr \in Ready(store_data(inst_type) \/ dw_req_valid) :
       /\ Channel(ir_pending, ir_pending', inst_fetch /\ irr, ia)
       /\ Channel(dr_pending, dr_pending', dr_addr_valid /\ drr, ra)
       /\ Channel(dw_pending, dw_pending', dw_req_valid /\ dwr, wa)
       /\ \E i \in Payload(ia, InstWords), d \in Payload(ra, DataWords),
          w \in Payload(wa, RespValues) : CoreEdge(ia, i, drr, ra, d, dwr, wa, w)

InReset == ~rst /\ CoreReset /\ SlaveReset

Runs == \E ia \in BOOLEAN, ra \in BOOLEAN, wa \in BOOLEAN : ClockEdge(ia, ra, wa)

Init == CoreInit /\ SlaveInit

Next == rst' \in BOOLEAN /\ (InReset \/ Runs)

Spec == Init /\ [][Next]_vars

\* The clock ticks, reset is not held for ever, and the slave answers what it
\* accepted unless it is reset.
Answers(ch) ==
  /\ rst' = TRUE
  /\ \E ia \in BOOLEAN, ra \in BOOLEAN, wa \in BOOLEAN :
       /\ [ir |-> ia, dr |-> ra, dw |-> wa][ch]
       /\ ClockEdge(ia, ra, wa)

Fairness == /\ WF_vars(Next /\ rst')
            /\ \A ch \in {"ir", "dr", "dw"} : WF_vars(Answers(ch))

FairSpec == Spec /\ Fairness

----------------------------------------------------------------------------
(* Properties.                                                             *)

\* At most one transaction is ever under way on the three channels: the slave
\* of the v1 simulation has one read port for instructions and data, and its
\* responses carry no identifier.
OneTransaction == Count(inst_fetch) + IrBusy + DrBusy + DwBusy <= 1

\* A response is latched for one cycle only, so it must arrive in the state,
\* and during the kind of instruction, that waits for it.
ResponseAwaited == /\ inst_valid => state = "FETCH"
                   /\ read_valid => state = "MEM" /\ inst_type = "LOAD"
                   /\ write_valid => state = "MEM" /\ inst_type = "STORE"

\* The read ports lose a read that meets a write, so what EXEC computes with
\* must still be the present contents of the registers the instruction names.
OperandsRead ==
  state = "EXEC" =>
    /\ inst_type \in {"INT_IMM", "LOAD", "JALR", "INT_REG", "BRANCH", "STORE"}
         => rs1_dout = mem[idec.rs1]
    /\ inst_type \in {"INT_REG", "BRANCH", "STORE"} => rs2_dout = mem[idec.rs2]

\* Out of reset x0 reads 0, although its cell is written by reset alone and an
\* instruction may write its register in the same edge.
ZeroReads == rst => mem[0] = 0

\* The lane a load extracts in MEM is the lane of its address, which is
\* computed in EXEC and not kept.
OffsetHeld == state = "MEM" /\ inst_type = "LOAD"
                => read_offset = Offset(Wrap(rs1_dout + idec.imm))

\* What is inductive about the first two.
ControlsTyped ==
  /\ rst \in BOOLEAN
  /\ state \in {"RESET", "FETCH", "DECODE", "EXEC", "MEM"}
  /\ state_change \in BOOLEAN
  /\ inst_valid \in BOOLEAN /\ read_valid \in BOOLEAN /\ write_valid \in BOOLEAN
  /\ dr_addr_valid \in BOOLEAN /\ dw_req_valid \in BOOLEAN
  /\ ir_pending \in Nat /\ dr_pending \in Nat /\ dw_pending \in Nat

BusInv ==
  /\ ControlsTyped
  /\ state # "FETCH" => IrBusy = 0
  /\ ~(state = "MEM" /\ inst_type = "LOAD") => DrBusy = 0
  /\ ~(state = "MEM" /\ inst_type = "STORE") => DwBusy = 0
  /\ state = "FETCH" => Count(state_change) + IrBusy <= 1
  /\ state = "MEM" => inst_type \in {"LOAD", "STORE"}
  /\ DrBusy <= 1 /\ DwBusy <= 1

\* The instruction register keeps the instruction from the cycle in which it
\* is valid until it has retired or is cut short by reset.
Executing == inst_valid \/ state \in {"DECODE", "EXEC", "MEM"}

InstHeld == [][rst /\ Executing => inst' = inst]_vars

----------------------------------------------------------------------------
(* The bus protocol, as implemented: the same as Copperv2's.               *)

Owes(it) == CASE it = "LOAD"  -> "read"
              [] it = "STORE" -> "write"
              [] OTHER        -> "none"

phaseBar ==
  CASE state = "RESET" \/ inst_fetch -> "ready"
    [] state = "FETCH" /\ ~inst_fetch ->
         (CASE ir_pending > 0 -> "fetching"
            [] inst_valid     -> "running"
            [] OTHER          -> "stuck")
    [] state = "MEM" /\ ~dr_addr_valid /\ ~dw_req_valid ->
         (CASE dr_pending > 0 -> "reading"
            [] dw_pending > 0 -> "writing"
            [] data_valid     -> "running"
            [] OTHER          -> "stuck")
    [] OTHER -> "running"

owedBar == IF \/ state = "RESET"
              \/ state = "FETCH" /\ ~inst_valid
              \/ data_valid
             THEN "none"
             ELSE Owes(inst_type)

Protocol == INSTANCE BusProtocol WITH phase <- phaseBar, owed <- owedBar

\* Each instruction is fetched once, completes the data access it owes, and
\* only then retires; a request that meets a slave that is not ready, or a
\* write answered with a failure, stops the core.  Reset at any point drops
\* what is under way, and the core begins again with a fetch.
RestartsProtocol ==
  /\ Protocol!ProtocolInit
  /\ [][IF rst THEN Protocol!ProtocolNext ELSE Protocol!Restart]_<<phaseBar, owedBar>>

\* From the last reset on a retired instruction fetches its successor, for ever
\* unless the slave stops it.
Recovers == <>[]rst => []<>inst_fetch \/ <>[](phaseBar = "stuck")

============================================================================
