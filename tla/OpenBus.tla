------------------------------- MODULE OpenBus -----------------------------
(***************************************************************************)
(* The Copperv2 core with an arbitrary slave on its bus, under a reset     *)
(* that may come at any time, in the middle of an instruction or of a      *)
(* transaction, last any number of cycles and come again.                  *)
(***************************************************************************)
EXTENDS Copperv2, BusSlave

vars == <<coreVars, slaveVars>>

TypeOK == CoreTypeOK /\ SlaveTypeOK

----------------------------------------------------------------------------
\* A clock edge out of reset.  ia, ra and wa say on which channels the slave
\* answers in the cycle before it.
ClockEdge(ia, ra, wa) ==
  /\ rst
  /\ \E irr \in Ready(inst_fetch),
        drr \in Ready(load_data(inst_type) \/ dr_addr_valid),
        dwr \in Ready(store_data(inst_type) \/ dw_req_valid) :
       /\ Channel(ir_pending, ir_pending', inst_fetch /\ irr, ia)
       /\ Channel(dr_pending, dr_pending', dr_addr_valid /\ drr, ra)
       /\ Channel(dw_pending, dw_pending', dw_req_valid /\ dwr, wa)
       /\ \E i \in Payload(ia, InstWords), d \in Payload(ra, DataWords),
          w \in Payload(wa, RespValues) : CoreEdge(ia, i, drr, ra, d, dwr, wa, w)

\* An edge in reset, when the slave drives nothing.
InReset == ~rst /\ CoreReset(FALSE, 0) /\ SlaveReset

Runs == \E ia \in BOOLEAN, ra \in BOOLEAN, wa \in BOOLEAN : ClockEdge(ia, ra, wa)

Init == CoreInit /\ SlaveInit

Next == rst' \in BOOLEAN /\ (InReset \/ Runs)

Spec == Init /\ [][Next]_vars

\* The clock ticks, reset is not held for ever, and the slave answers what it
\* accepted unless it is reset.
Answers(ch) ==
  /\ rst' = TRUE
  /\ \E ia \in BOOLEAN, ra \in BOOLEAN, wa \in BOOLEAN :
       /\ [ir |-> ia, dr |-> ra, dw |-> wa][ch]
       /\ ClockEdge(ia, ra, wa)

Fairness == /\ WF_vars(Next /\ rst')
            /\ \A ch \in {"ir", "dr", "dw"} : WF_vars(Answers(ch))

FairSpec == Spec /\ Fairness

----------------------------------------------------------------------------
(* Properties.                                                             *)

\* The transactions under way on the three channels.
InFlight == Count(inst_fetch) + IrBusy + DrBusy + DwBusy

\* Responses carry no identifier and the slave's crossbar has one address
\* port: at most one transaction is ever under way on the three channels.
OneTransaction == InFlight <= 1

\* A response is latched for one cycle only, so it must arrive in the state,
\* and during the kind of instruction, that waits for it.
ResponseAwaited == /\ inst_valid => state = "FETCH"
                   /\ read_valid => state = "MEM" /\ inst_type = "LOAD"
                   /\ write_valid => state = "MEM" /\ inst_type = "STORE"

\* The read ports are enabled in DECODE alone; what the datapath reads
\* through them later (the store data in MEM, the target of JALR in COMMIT)
\* is still the register the instruction names.
OperandsHeld ==
  state \in {"EXEC", "MEM", "COMMIT"} =>
    /\ inst_type \in {"INT_IMM", "LOAD", "JALR", "INT_REG", "BRANCH", "STORE"}
         => idec.rs1 = 0 \/ rs1_addr = idec.rs1
    /\ inst_type \in {"INT_REG", "BRANCH", "STORE"}
         => idec.rs2 = 0 \/ rs2_addr = idec.rs2

\* The lane a load extracts when it commits is the lane of its address, which
\* is computed before the request and used after the response.
OffsetHeld == state = "COMMIT" /\ inst_type = "LOAD"
                => read_offset = Offset(alu_dout)

\* What is inductive about them.  Per state: which channel may be busy, and
\* that it carries one transaction: either the request pulse is still to come
\* (state_change), or the request is presented, or accepted, or answered.
ControlsTyped ==
  /\ rst \in BOOLEAN
  /\ state \in State \ {"IDLE"}
  /\ state_change \in BOOLEAN
  /\ inst_valid \in BOOLEAN /\ read_valid \in BOOLEAN /\ write_valid \in BOOLEAN
  /\ dr_addr_valid \in BOOLEAN /\ dw_req_valid \in BOOLEAN
  /\ ir_pending \in Nat /\ dr_pending \in Nat /\ dw_pending \in Nat

PhaseInv ==
  /\ state # "FETCH" => IrBusy = 0
  /\ ~(state = "MEM" /\ inst_type = "LOAD") => DrBusy = 0
  /\ ~(state = "MEM" /\ inst_type = "STORE") => DwBusy = 0
  /\ state = "FETCH" => Count(state_change) + IrBusy <= 1
  /\ state = "MEM" => inst_type \in Memory
  /\ state = "MEM" /\ inst_type = "LOAD" => Count(state_change) + DrBusy <= 1
  /\ state = "MEM" /\ inst_type = "STORE" => Count(state_change) + DwBusy <= 1

BusInv == ControlsTyped /\ PhaseInv

\* The instruction register keeps the instruction from the cycle in which it
\* is valid until it has retired: no late or stray instruction response
\* replaces it.
Executing == inst_valid \/ state \in {"DECODE", "EXEC", "MEM", "COMMIT"}

InstHeld == [][Executing => inst' = inst]_vars

----------------------------------------------------------------------------
(* The bus protocol, as implemented.                                       *)

Owes(it) == CASE it = "LOAD"  -> "read"
              [] it = "STORE" -> "write"
              [] OTHER        -> "none"

phaseBar ==
  CASE state = "RESET" \/ inst_fetch -> "ready"
    [] state = "FETCH" /\ ~inst_fetch ->
         (CASE ir_pending > 0 -> "fetching"
            [] inst_valid     -> "running"
            [] OTHER          -> "stuck")
    [] state = "MEM" /\ ~state_change /\ ~dr_addr_valid /\ ~dw_req_valid ->
         (CASE dr_pending > 0 -> "reading"
            [] dw_pending > 0 -> "writing"
            [] data_valid     -> "running"
            [] OTHER          -> "stuck")
    [] OTHER -> "running"

owedBar == IF \/ state \in {"RESET", "COMMIT"}
              \/ state = "FETCH" /\ ~inst_valid
              \/ data_valid
             THEN "none"
             ELSE Owes(inst_type)

Protocol == INSTANCE BusProtocol WITH phase <- phaseBar, owed <- owedBar

\* Each instruction is fetched once, completes the data access it owes, and
\* only then retires; a request that meets a slave that is not ready, or a
\* write answered with a failure, stops the core.  Reset at any point drops
\* what is under way, and the core then begins again with a fetch, as it does
\* after power-up: no request, response or write permission of the instruction
\* that was cut short survives.
RestartsProtocol ==
  /\ Protocol!ProtocolInit
  /\ [][IF rst THEN Protocol!ProtocolNext ELSE Protocol!Restart]_<<phaseBar, owedBar>>

\* From the last reset on the core fetches for ever, instruction after
\* instruction, unless its slave stops it.
Recovers == <>[]rst => []<>inst_fetch \/ <>[](phaseBar = "stuck")

============================================================================
