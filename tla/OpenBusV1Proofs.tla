--------------------------- MODULE OpenBusV1Proofs -------------------------
(***************************************************************************)
(* Theorems about the v1 core on an open bus, for every program, every     *)
(* word width, every slave that keeps to the handshake and a reset that    *)
(* comes at any time.                                                      *)
(***************************************************************************)
EXTENDS OpenBusV1, DatapathProofs

----------------------------------------------------------------------------
(* The part of a clock edge that controls the bus.                         *)

\* Out of reset.
ControlStep(ia, ra, wa, drr, dwr) ==
  /\ state' = state_next(inst_type, inst_valid, data_valid)
  /\ state_change' = (state # state_next(inst_type, inst_valid, data_valid))
  /\ inst_valid' = ia
  /\ ~ia => inst' = inst
  /\ dr_addr_valid' = (load_data(inst_type) /\ drr)
  /\ read_valid' = ra
  /\ dw_req_valid' = (store_data(inst_type) /\ dwr)
  /\ write_valid' \in BOOLEAN
  /\ write_valid' => wa

\* In reset.
ResetStep ==
  /\ state' = "RESET" /\ state_change' \in BOOLEAN
  /\ inst_valid' = FALSE /\ read_valid' = FALSE /\ write_valid' = FALSE
  /\ dr_addr_valid' = FALSE /\ dw_req_valid' = FALSE

\* The slave's part: what it accepts and answers on the three channels.
SlaveStep(ia, ra, wa, irr, drr, dwr) ==
  /\ Channel(ir_pending, ir_pending', inst_fetch /\ irr, ia)
  /\ Channel(dr_pending, dr_pending', dr_addr_valid /\ drr, ra)
  /\ Channel(dw_pending, dw_pending', dw_req_valid /\ dwr, wa)

LEMMA CoreEdgeControl ==
  ASSUME NEW ia \in BOOLEAN, NEW i, NEW drr \in BOOLEAN, NEW ra \in BOOLEAN,
         NEW d, NEW dwr \in BOOLEAN, NEW wa \in BOOLEAN, NEW w, rst,
         CoreEdge(ia, i, drr, ra, d, dwr, wa, w)
  PROVE  ControlStep(ia, ra, wa, drr, dwr)
BY DEF ControlStep, CoreEdge, EveryEdge, ControlEdge, ReadInstruction, ReadData,
       WriteData, dr_addr_tran, dw_data_addr_tran

LEMMA CoreResetControl ==
  ASSUME ~rst, CoreReset
  PROVE  ResetStep
BY DEF ResetStep, CoreReset, EveryEdge, ControlEdge, BusReset

\* Out of reset every step is a step of the slave with one of the control.
LEMMA RunsFacts ==
  ASSUME Runs
  PROVE  /\ rst
         /\ \E ia, ra, wa, irr, drr, dwr \in BOOLEAN :
              /\ SlaveStep(ia, ra, wa, irr, drr, dwr)
              /\ ControlStep(ia, ra, wa, drr, dwr)
<1>1. PICK ia \in BOOLEAN, ra \in BOOLEAN, wa \in BOOLEAN : ClockEdge(ia, ra, wa)
  BY DEF Runs
<1>2. PICK irr \in Ready(inst_fetch),
           drr \in Ready(load_data(inst_type) \/ dr_addr_valid),
           dwr \in Ready(store_data(inst_type) \/ dw_req_valid) :
        /\ rst /\ SlaveStep(ia, ra, wa, irr, drr, dwr)
        /\ \E i \in Payload(ia, InstWords), d \in Payload(ra, DataWords),
              w \in Payload(wa, RespValues) : CoreEdge(ia, i, drr, ra, d, dwr, wa, w)
  BY <1>1 DEF ClockEdge, SlaveStep
<1>3. irr \in BOOLEAN /\ drr \in BOOLEAN /\ dwr \in BOOLEAN
  BY <1>2, SlaveAssumption DEF Ready
<1>4. ControlStep(ia, ra, wa, drr, dwr)
  BY <1>2, <1>3, CoreEdgeControl
<1>5. QED
  BY <1>2, <1>3, <1>4

----------------------------------------------------------------------------
(* The inductive invariant.                                                *)

LEMMA InitBusInv == Init => BusInv
<1> SUFFICES ASSUME Init PROVE BusInv
  OBVIOUS
<1>1. /\ rst = FALSE /\ state = "RESET" /\ state_change \in BOOLEAN
      /\ inst_valid = FALSE /\ read_valid = FALSE /\ write_valid = FALSE
      /\ dr_addr_valid = FALSE /\ dw_req_valid = FALSE
      /\ ir_pending = 0 /\ dr_pending = 0 /\ dw_pending = 0
  BY DEF Init, CoreInit, SlaveInit
<1>2. ControlsTyped
  BY <1>1 DEF ControlsTyped
<1>3. IrBusy = 0 /\ DrBusy = 0 /\ DwBusy = 0
  BY <1>1 DEF IrBusy, DrBusy, DwBusy, Count
<1>4. QED
  BY <1>1, <1>2, <1>3 DEF BusInv

\* In state RESET with an idle slave nothing is under way.
LEMMA ResetIdle ==
  ASSUME ResetStep, rst' \in BOOLEAN, SlaveReset
  PROVE  BusInv'
<1>1. ControlsTyped'
  BY DEF ResetStep, SlaveReset, ControlsTyped
<1>2. IrBusy' = 0 /\ DrBusy' = 0 /\ DwBusy' = 0
  BY DEF ResetStep, SlaveReset, IrBusy, DrBusy, DwBusy, Count
<1>3. QED
  BY <1>1, <1>2 DEF ResetStep, BusInv

\* The core leaves reset with nothing under way but the fetch it presents.
LEMMA ResetLeft ==
  ASSUME BusInv, rst, state = "RESET",
         NEW ia \in BOOLEAN, NEW ra \in BOOLEAN, NEW wa \in BOOLEAN,
         NEW irr \in BOOLEAN, NEW drr \in BOOLEAN, NEW dwr \in BOOLEAN,
         SlaveStep(ia, ra, wa, irr, drr, dwr), ControlStep(ia, ra, wa, drr, dwr),
         ControlsTyped'
  PROVE  BusInv'
<1>1. /\ ir_pending = 0 /\ dr_pending = 0 /\ dw_pending = 0
      /\ ~dr_addr_valid /\ ~dw_req_valid /\ ~inst_fetch
  <2>1. IrBusy = 0 /\ DrBusy = 0 /\ DwBusy = 0
    BY DEF BusInv
  <2>2. ir_pending \in Nat /\ dr_pending \in Nat /\ dw_pending \in Nat
    BY DEF BusInv, ControlsTyped
  <2>3. QED
    BY <2>1, <2>2 DEF IrBusy, DrBusy, DwBusy, Count, inst_fetch
<1>2. /\ ~ia /\ ~ra /\ ~wa
      /\ ir_pending' = 0 /\ dr_pending' = 0 /\ dw_pending' = 0
  BY <1>1 DEF SlaveStep, Channel, Count
<1>3. /\ state' = "FETCH" /\ ~inst_valid' /\ ~read_valid' /\ ~write_valid'
      /\ ~dr_addr_valid' /\ ~dw_req_valid'
  BY <1>2 DEF ControlStep, state_next, load_data, store_data
<1>4. IrBusy' = 0 /\ DrBusy' = 0 /\ DwBusy' = 0
  BY <1>2, <1>3 DEF IrBusy, DrBusy, DwBusy, Count
<1>5. Count(state_change)' \in {0, 1}
  BY DEF Count
<1>6. QED
  BY <1>3, <1>4, <1>5 DEF BusInv

\* Out of reset a step keeps types and account, whether reset follows or not.
LEMMA RunningStep ==
  ASSUME BusInv, rst, rst' \in BOOLEAN,
         NEW ia \in BOOLEAN, NEW ra \in BOOLEAN, NEW wa \in BOOLEAN,
         NEW irr \in BOOLEAN, NEW drr \in BOOLEAN, NEW dwr \in BOOLEAN,
         SlaveStep(ia, ra, wa, irr, drr, dwr), ControlStep(ia, ra, wa, drr, dwr)
  PROVE  BusInv'
<1>0. ControlsTyped'
  <2>1. ir_pending' \in Nat /\ dr_pending' \in Nat /\ dw_pending' \in Nat
    BY DEF Channel, Count, SlaveStep, BusInv, ControlsTyped, inst_fetch
  <2>2. /\ state' \in {"RESET", "FETCH", "DECODE", "EXEC", "MEM"}
        /\ state_change' \in BOOLEAN
    BY DEF ControlStep, BusInv, ControlsTyped, state_next
  <2>3. QED
    BY <2>1, <2>2 DEF ControlStep, BusInv, ControlsTyped, load_data, store_data
<1>1. rst' \in BOOLEAN
  OBVIOUS
<1>2. /\ SlaveStep(ia, ra, wa, irr, drr, dwr)
      /\ ControlStep(ia, ra, wa, drr, dwr)
  OBVIOUS
<1>4. CASE state = "RESET"
  BY <1>0, <1>4, ResetLeft, SMTT(60)
<1> USE DEF BusInv, ControlsTyped, IrBusy, DrBusy, DwBusy, Count, SlaveStep, Channel,
            ControlStep, state_next, inst_fetch, load_data, store_data, data_valid,
            inst_type
<1>5. CASE state = "FETCH"
  <2>1. DrBusy' = 0 /\ DwBusy' = 0
    BY <1>2, <1>5
  <2>2. CASE inst_valid
    <3>1. ir_pending = 0 /\ ~state_change /\ ~ia /\ state' \in {"DECODE", "EXEC"}
      BY <1>2, <1>5, <2>2
    <3>2. IrBusy' = 0
      BY <1>2, <1>5, <3>1
    <3>3. QED
      BY <1>1, <1>0, <1>5, <2>1, <3>1, <3>2
  <2>3. CASE ~inst_valid
    <3>1. state' = "FETCH" /\ state_change' = FALSE
      BY <1>2, <1>5, <2>3
    <3>2. (Count(state_change) + IrBusy <= 1)'
      BY <1>2, <1>5, <2>3, <3>1
    <3>3. QED
      BY <1>1, <1>0, <1>5, <2>1, <3>1, <3>2
  <2>4. QED
    BY <2>2, <2>3
<1>6. CASE state = "DECODE"
  BY <1>1, <1>2, <1>0, <1>6
<1>7. CASE state = "EXEC"
  <2>1. IrBusy' = 0 /\ inst' = inst
    BY <1>2, <1>7
  <2>2. DrBusy' = Count(dr_addr_valid') /\ DwBusy' = Count(dw_req_valid')
    BY <1>2, <1>7
  <2>3. CASE inst_type \in {"LOAD", "STORE"}
    <3>1. state' = "MEM" /\ inst_type' = inst_type
      BY <1>2, <1>7, <2>1, <2>3
    <3>2. QED
      BY <1>1, <1>2, <1>0, <1>7, <2>1, <2>2, <2>3, <3>1
  <2>4. CASE inst_type \notin {"LOAD", "STORE"}
    <3>1. state' = "FETCH" /\ ~dr_addr_valid' /\ ~dw_req_valid'
      BY <1>2, <1>7, <2>4
    <3>2. QED
      BY <1>1, <1>2, <1>0, <1>7, <2>1, <2>2, <3>1
  <2>5. QED
    BY <2>3, <2>4
<1>8. CASE state = "MEM"
  <2>1. IrBusy' = 0 /\ ~dr_addr_valid' /\ ~dw_req_valid' /\ inst' = inst
    BY <1>2, <1>8
  <2>2. inst_type' = inst_type
    BY <2>1
  <2>3. CASE data_valid
    <3>1. state' = "FETCH" /\ DrBusy' = 0 /\ DwBusy' = 0
      BY <1>2, <1>8, <2>3
    <3>2. QED
      BY <1>1, <1>2, <1>0, <1>8, <2>1, <3>1
  <2>4. CASE ~data_valid
    <3>1. state' = "MEM"
      BY <1>2, <1>8, <2>4
    <3>2. CASE inst_type = "LOAD"
      <4>1. DwBusy' = 0
        BY <1>2, <1>8, <2>4, <3>2
      <4>2. (DrBusy <= 1)'
        BY <1>2, <1>8, <2>1, <2>4, <3>2
      <4>3. QED
        BY <1>1, <1>0, <1>8, <2>1, <2>2, <3>1, <3>2, <4>1, <4>2
    <3>3. CASE inst_type = "STORE"
      <4>1. DrBusy' = 0
        BY <1>2, <1>8, <2>4, <3>3
      <4>2. (DwBusy <= 1)'
        BY <1>2, <1>8, <2>1, <2>4, <3>3
      <4>3. QED
        BY <1>1, <1>0, <1>8, <2>1, <2>2, <3>1, <3>3, <4>1, <4>2
    <3>4. QED
      BY <1>8, <3>2, <3>3
  <2>5. QED
    BY <2>3, <2>4
<1>9. QED
  BY <1>4, <1>5, <1>6, <1>7, <1>8

LEMMA StepBusInv == BusInv /\ [Next]_vars => BusInv'
<1> SUFFICES ASSUME BusInv, [Next]_vars PROVE BusInv'
  OBVIOUS
<1>1. CASE UNCHANGED vars
  <2>1. /\ UNCHANGED <<rst, state, state_change, inst, inst_valid, dr_addr_valid,
                        read_valid, dw_req_valid, write_valid>>
        /\ UNCHANGED <<ir_pending, dr_pending, dw_pending>>
    BY <1>1 DEF vars, coreVars, slaveVars, controlVars, irVars, drVars, dwVars
  <2>2. QED
    BY <2>1 DEF BusInv, ControlsTyped, IrBusy, DrBusy, DwBusy, Count, inst_type
<1>2. CASE Next
  <2>1. rst' \in BOOLEAN
    BY <1>2 DEF Next
  <2>2. CASE InReset
    BY <2>1, <2>2, CoreResetControl, ResetIdle DEF InReset
  <2>3. CASE Runs
    <3>1. PICK ia \in BOOLEAN, ra \in BOOLEAN, wa \in BOOLEAN, irr \in BOOLEAN,
               drr \in BOOLEAN, dwr \in BOOLEAN :
            SlaveStep(ia, ra, wa, irr, drr, dwr) /\ ControlStep(ia, ra, wa, drr, dwr)
      BY <2>3, RunsFacts
    <3>2. rst
      BY <2>3, RunsFacts
    <3>3. QED
      BY ONLY BusInv, <2>1, <3>1, <3>2, RunningStep, SMTT(60)
  <2>4. QED
    BY <1>2, <2>2, <2>3 DEF Next
<1>3. QED
  BY <1>1, <1>2

\* The per-state account of the bus holds in every behaviour.
THEOREM BusInvariant == Spec => []BusInv
<1>1. QED
  BY InitBusInv, StepBusInv, PTL DEF Spec

\* At most one transaction is under way on the three channels.
THEOREM OneTransactionHolds == Spec => []OneTransaction
<1>1. BusInv => OneTransaction
  BY DEF BusInv, ControlsTyped, OneTransaction, IrBusy, DrBusy, DwBusy, Count,
         inst_fetch
<1>2. QED
  BY <1>1, BusInvariant, PTL

\* A response is latched only in the state, and for the instruction, that
\* waits for it.
THEOREM ResponseAwaitedHolds == Spec => []ResponseAwaited
<1>1. BusInv => ResponseAwaited
  BY DEF BusInv, ControlsTyped, ResponseAwaited, IrBusy, DrBusy, DwBusy, Count
<1>2. QED
  BY <1>1, BusInvariant, PTL

----------------------------------------------------------------------------
(* The instruction register.                                               *)

LEMMA StepInstHeld ==
  ASSUME BusInv, [Next]_vars, rst, Executing
  PROVE  inst' = inst
<1>1. CASE UNCHANGED vars
  BY <1>1 DEF vars, coreVars, irVars
<1>2. CASE Next
  <2>1. PICK ia \in BOOLEAN, ra \in BOOLEAN, wa \in BOOLEAN,
             irr \in BOOLEAN, drr \in BOOLEAN, dwr \in BOOLEAN :
          /\ SlaveStep(ia, ra, wa, irr, drr, dwr)
          /\ ControlStep(ia, ra, wa, drr, dwr)
    BY <1>2, RunsFacts DEF Next, InReset
  <2>2. ir_pending = 0 /\ ~inst_fetch
    BY DEF Executing, BusInv, ControlsTyped, IrBusy, Count, inst_fetch
  <2>3. ~ia
    BY <2>1, <2>2 DEF SlaveStep, Channel, Count
  <2>4. QED
    BY <2>1, <2>2, <2>3 DEF ControlStep
<1>3. QED
  BY <1>1, <1>2

\* No instruction response replaces the instruction under execution.
THEOREM InstHeldHolds == Spec => InstHeld
<1>1. BusInv /\ [Next]_vars => [rst /\ Executing => inst' = inst]_vars
  BY StepInstHeld
<1>2. QED
  BY <1>1, BusInvariant, PTL DEF Spec, InstHeld

----------------------------------------------------------------------------
(* The datapath: x0, the read ports and the byte offset of a load.         *)

\* The control unit and the datapath at an edge out of reset.
DataStep ==
  /\ state' = state_next(inst_type, inst_valid, data_valid)
  /\ state_change' = (state # state_next(inst_type, inst_valid, data_valid))
  /\ RegFileEdge
  /\ read_offset' = IF load_data(inst_type) THEN Offset(alu_dout) ELSE read_offset

LEMMA DataStepOfNext ==
  ASSUME Next
  PROVE  IF rst THEN DataStep ELSE RegFileEdge /\ state' = "RESET"
<1>1. CASE InReset
  BY <1>1 DEF InReset, CoreReset, EveryEdge, ControlEdge
<1>2. CASE Runs
  <2>1. PICK ia, ra, wa : ClockEdge(ia, ra, wa)
    BY <1>2 DEF Runs
  <2>2. rst /\ \E drr, dwr, i, d, w : CoreEdge(ia, i, drr, ra, d, dwr, wa, w)
    BY <2>1 DEF ClockEdge
  <2>3. QED
    BY <2>2 DEF CoreEdge, EveryEdge, ControlEdge, DataStep
<1>3. QED
  BY <1>1, <1>2 DEF Next

\* EXEC is entered with a change and left at once, so a load's offset is
\* latched at its end.
LatchInv ==
  /\ BusInv
  /\ DOMAIN mem = RegAddr
  /\ ZeroReads
  /\ OperandsRead
  /\ state = "EXEC" => state_change
  /\ OffsetHeld

LEMMA InitLatchInv == Init => LatchInv
<1> SUFFICES ASSUME Init PROVE LatchInv
  OBVIOUS
<1>1. BusInv /\ state = "RESET" /\ rst = FALSE /\ mem \in PowerUpMems
  BY InitBusInv DEF Init, CoreInit
<1>2. DOMAIN mem = RegAddr
  BY <1>1, Copperv1Assumption
<1>3. QED
  BY <1>1, <1>2 DEF LatchInv, ZeroReads, OperandsRead, OffsetHeld

\* A write never reaches x0: neither out of reset nor when it meets the reset
\* that clears the file.
LEMMA StepZero ==
  ASSUME DOMAIN mem = RegAddr, ZeroReads, Next
  PROVE  DOMAIN mem' = RegAddr /\ ZeroReads'
<1>1. RegFileEdge
  BY DataStepOfNext DEF DataStep
<1> DEFINE before == IF rst THEN mem ELSE [r \in RegAddr |-> 0]
<1>2. DOMAIN before = RegAddr /\ before[0] = 0
  BY DEF ZeroReads, RegAddr
<1>3. mem' = Written(before)
  BY <1>1 DEF RegFileEdge
<1> HIDE DEF before
<1>4. QED
  BY <1>2, <1>3 DEF Written, Writes, ZeroReads, RegAddr

LEMMA StepOperands ==
  ASSUME BusInv, Next
  PROVE  OperandsRead' /\ (state = "EXEC" => state_change)'
<1> SUFFICES ASSUME state' = "EXEC"
             PROVE  OperandsRead' /\ state_change'
  BY DEF OperandsRead
<1>1. rst /\ DataStep
  BY DataStepOfNext
<1>2. \/ state = "DECODE" /\ inst_type \notin {"IMM", "FENCE"}
      \/ state = "FETCH" /\ inst_valid /\ inst_type = "JAL"
  BY <1>1 DEF BusInv, ControlsTyped, DataStep, state_next
<1>3. inst' = inst
  BY <1>1, <1>2, StepInstHeld DEF Executing
<1>4. inst_type' = inst_type /\ idec' = idec
  BY <1>3 DEF inst_type, idec
<1>5. state_change'
  BY <1>1, <1>2 DEF DataStep
<1>6. CASE state = "DECODE"
  <2>1. ~Writes
    BY <1>2, <1>6 DEF Writes, rd_en, answered
  <2>2. QED
    BY <1>1, <1>4, <1>5, <1>6, <2>1
       DEF DataStep, RegFileEdge, Written, OperandsRead, rs1_en, rs2_en
<1>7. CASE state = "FETCH"
  BY <1>2, <1>4, <1>5, <1>7 DEF OperandsRead
<1>8. QED
  BY <1>2, <1>6, <1>7

LEMMA StepOffset ==
  ASSUME BusInv, state = "EXEC" => state_change, OffsetHeld, Next
  PROVE  OffsetHeld'
<1> SUFFICES ASSUME state' = "MEM", inst_type' = "LOAD"
             PROVE  (read_offset = Offset(Wrap(rs1_dout + idec.imm)))'
  BY DEF OffsetHeld
<1>1. rst /\ DataStep
  BY DataStepOfNext
<1>2. state \in {"EXEC", "MEM"}
  BY <1>1 DEF BusInv, ControlsTyped, DataStep, state_next
<1>3. inst' = inst
  BY <1>1, <1>2, StepInstHeld DEF Executing
<1>4. inst_type = "LOAD" /\ idec' = idec
  BY <1>3 DEF inst_type, idec
<1>5. rs1_dout' = rs1_dout
  BY <1>1, <1>2 DEF DataStep, RegFileEdge, rs1_en
<1>6. CASE state = "EXEC"
  <2>1. alu_op(inst_type, idec.funct) = "ADD" /\ din1 = rs1_dout /\ din2 = idec.imm
    BY <1>4, <1>6 DEF alu_op, din1, din2, alu_din1_sel, alu_din2_sel, Integer, Link
  <2>2. alu_dout = Wrap(rs1_dout + idec.imm)
    BY <2>1 DEF alu_dout, Unit!alu_dout, Unit!Wrap, Wrap, Unit!WordSize, WordSize,
                Unit!WordBits, WordBits
  <2>3. load_data(inst_type)
    BY <1>4, <1>6 DEF load_data
  <2>4. QED
    BY <1>1, <1>4, <1>5, <2>2, <2>3 DEF DataStep
<1>7. CASE state = "MEM"
  BY <1>1, <1>4, <1>5, <1>7 DEF DataStep, load_data, OffsetHeld
<1>8. QED
  BY <1>2, <1>6, <1>7

THEOREM LatchInvariant == Spec => []LatchInv
<1>1. LatchInv /\ UNCHANGED vars => LatchInv'
  <2> SUFFICES ASSUME LatchInv, UNCHANGED vars PROVE LatchInv'
    OBVIOUS
  <2>1. BusInv'
    BY StepBusInv DEF LatchInv
  <2>2. UNCHANGED <<rst, state, state_change, inst, mem, rs1_dout, rs2_dout, read_offset>>
    BY DEF vars, coreVars, controlVars, irVars
  <2>3. inst_type' = inst_type /\ idec' = idec
    BY <2>2 DEF inst_type, idec
  <2>4. QED
    BY <2>1, <2>2, <2>3 DEF LatchInv, ZeroReads, OperandsRead, OffsetHeld
<1>2. LatchInv /\ Next => LatchInv'
  <2> SUFFICES ASSUME LatchInv, Next PROVE LatchInv'
    OBVIOUS
  <2>1. BusInv'
    BY StepBusInv DEF LatchInv
  <2>2. QED
    BY <2>1, StepZero, StepOperands, StepOffset DEF LatchInv
<1>3. QED
  BY InitLatchInv, <1>1, <1>2, PTL DEF Spec

\* In EXEC the read ports show the present contents of the registers that the
\* instruction names: no read met a write.
THEOREM OperandsReadHolds == Spec => []OperandsRead
<1>1. QED
  BY LatchInvariant, PTL DEF LatchInv

\* x0 reads 0 from the end of reset on.
THEOREM ZeroReadsHolds == Spec => []ZeroReads
<1>1. QED
  BY LatchInvariant, PTL DEF LatchInv

\* In MEM the lane of a load is the lane of its address.
THEOREM OffsetHeldHolds == Spec => []OffsetHeld
<1>1. QED
  BY LatchInvariant, PTL DEF LatchInv

----------------------------------------------------------------------------
(* The bus protocol: under the mapping of OpenBusV1, every clock edge is a *)
(* step of BusProtocol or leaves its variables alone.                      *)

\* The abstract state in each state of the control unit.
PhaseTable ==
  /\ state = "RESET" => phaseBar = "ready" /\ owedBar = "none"
  /\ state \in {"DECODE", "EXEC"} => phaseBar = "running" /\ owedBar = Owes(inst_type)
  /\ state = "FETCH" =>
       /\ state_change => phaseBar = "ready" /\ owedBar = "none"
       /\ ir_pending > 0 => phaseBar = "fetching" /\ owedBar = "none"
       /\ inst_valid => phaseBar = "running" /\ owedBar = Owes(inst_type)
       /\ ~state_change /\ ir_pending = 0 /\ ~inst_valid
            => phaseBar = "stuck" /\ owedBar = "none"
  /\ state = "MEM" /\ inst_type = "LOAD" =>
       /\ dr_addr_valid => phaseBar = "running" /\ owedBar = "read"
       /\ dr_pending > 0 => phaseBar = "reading" /\ owedBar = "read"
       /\ read_valid => phaseBar = "running" /\ owedBar = "none"
       /\ ~dr_addr_valid /\ dr_pending = 0 /\ ~read_valid
            => phaseBar = "stuck" /\ owedBar = "read"
  /\ state = "MEM" /\ inst_type = "STORE" =>
       /\ dw_req_valid => phaseBar = "running" /\ owedBar = "write"
       /\ dw_pending > 0 => phaseBar = "writing" /\ owedBar = "write"
       /\ write_valid => phaseBar = "running" /\ owedBar = "none"
       /\ ~dw_req_valid /\ dw_pending = 0 /\ ~write_valid
            => phaseBar = "stuck" /\ owedBar = "write"

LEMMA PhaseTableHolds == BusInv => PhaseTable
<1> SUFFICES ASSUME BusInv PROVE PhaseTable
  OBVIOUS
<1> USE DEF BusInv, ControlsTyped, IrBusy, DrBusy, DwBusy, Count, inst_fetch,
            data_valid, phaseBar, owedBar
<1>1. CASE state \in {"RESET", "DECODE", "EXEC"}
  <2>1. ~read_valid /\ ~write_valid
    BY <1>1
  <2>2. QED
    BY <1>1, <2>1 DEF PhaseTable
<1>2. CASE state = "FETCH"
  <2>1. ~read_valid /\ ~write_valid
    BY <1>2
  <2>2. /\ state_change => ir_pending = 0 /\ ~inst_valid
        /\ ir_pending > 0 => ~state_change /\ ~inst_valid
        /\ inst_valid => ~state_change /\ ir_pending = 0
    BY <1>2
  <2>3. QED
    BY <1>2, <2>1, <2>2 DEF PhaseTable
<1>3. CASE state = "MEM" /\ inst_type = "LOAD"
  <2>1. ~dw_req_valid /\ dw_pending = 0 /\ ~write_valid
    BY <1>3
  <2>2. /\ dr_addr_valid => ~read_valid
        /\ dr_pending > 0 => ~dr_addr_valid /\ ~read_valid
        /\ read_valid => ~dr_addr_valid /\ dr_pending = 0
    BY <1>3
  <2>3. QED
    BY <1>3, <2>1, <2>2 DEF PhaseTable, Owes
<1>4. CASE state = "MEM" /\ inst_type = "STORE"
  <2>1. ~dr_addr_valid /\ dr_pending = 0 /\ ~read_valid
    BY <1>4
  <2>2. /\ dw_req_valid => ~write_valid
        /\ dw_pending > 0 => ~dw_req_valid /\ ~write_valid
        /\ write_valid => ~dw_req_valid /\ dw_pending = 0
    BY <1>4
  <2>3. QED
    BY <1>4, <2>1, <2>2 DEF PhaseTable, Owes
<1>5. QED
  BY <1>1, <1>2, <1>3, <1>4

\* The same table after the step.
LEMMA PhaseTableNext == BusInv' => PhaseTable'
BY PhaseTableHolds, PTL

LEMMA InitProtocol == Init => Protocol!ProtocolInit
<1> SUFFICES ASSUME Init PROVE Protocol!ProtocolInit
  OBVIOUS
<1>1. BusInv /\ state = "RESET"
  BY InitBusInv DEF Init, CoreInit
<1>2. QED
  BY <1>1, PhaseTableHolds DEF PhaseTable, Protocol!ProtocolInit

\* What the abstract state is bound by in every step out of reset: the tables
\* before and after, and the step itself.
StepFacts(ia, ra, wa, irr, drr, dwr) ==
  /\ BusInv /\ BusInv'
  /\ PhaseTable /\ PhaseTable'
  /\ SlaveStep(ia, ra, wa, irr, drr, dwr)
  /\ rst /\ ControlStep(ia, ra, wa, drr, dwr)

ProtocolStep == \/ Protocol!ProtocolNext
                \/ UNCHANGED <<phaseBar, owedBar>>

LEMMA OwesOwed == \A it : Owes(it) \in Protocol!Owed
BY DEF Owes, Protocol!Owed

LEMMA FetchRefines ==
  ASSUME NEW ia \in BOOLEAN, NEW ra \in BOOLEAN, NEW wa \in BOOLEAN,
         NEW irr \in BOOLEAN, NEW drr \in BOOLEAN, NEW dwr \in BOOLEAN,
         StepFacts(ia, ra, wa, irr, drr, dwr), state = "FETCH"
  PROVE  ProtocolStep
<1> USE DEF StepFacts, PhaseTable, BusInv, ControlsTyped, IrBusy, Count, SlaveStep,
            Channel, ControlStep, state_next, inst_fetch
<1>1. CASE inst_valid
  <2>1. ir_pending = 0 /\ ~ia /\ state' \in {"DECODE", "EXEC"} /\ inst' = inst
    BY <1>1
  <2>2. UNCHANGED <<phaseBar, owedBar>>
    BY <1>1, <2>1 DEF inst_type
  <2>3. QED
    BY <2>2 DEF ProtocolStep
<1>2. CASE ~inst_valid
  <2>1. state' = "FETCH" /\ state_change' = FALSE /\ inst_valid' = ia /\ owedBar = "none"
    BY <1>2
  <2>2. CASE ia
    <3>1. phaseBar \in {"ready", "fetching"}
      BY <1>2, <2>1, <2>2
    <3>2. phaseBar' = "running" /\ owedBar' = Owes(inst_type')
      BY <2>1, <2>2
    <3>3. Protocol!TakeInstruction
      BY <3>1, <3>2, OwesOwed DEF Protocol!TakeInstruction
    <3>4. QED
      BY <3>3 DEF ProtocolStep, Protocol!ProtocolNext
  <2>3. CASE ~ia /\ state_change
    <3>1. phaseBar = "ready" /\ owedBar' = "none" /\ phaseBar' \in {"fetching", "stuck"}
      BY <1>2, <2>1, <2>3
    <3>2. Protocol!OfferFetch
      BY <3>1 DEF Protocol!OfferFetch
    <3>3. QED
      BY <3>2 DEF ProtocolStep, Protocol!ProtocolNext
  <2>4. CASE ~ia /\ ~state_change
    <3>1. ir_pending' = ir_pending
      BY <2>4
    <3>2. UNCHANGED <<phaseBar, owedBar>>
      BY <1>2, <2>1, <2>4, <3>1
    <3>3. QED
      BY <3>2 DEF ProtocolStep
  <2>5. QED
    BY <2>2, <2>3, <2>4
<1>3. QED
  BY <1>1, <1>2

\* EXEC offers the data request, or retires.
LEMMA ExecRefines ==
  ASSUME NEW ia \in BOOLEAN, NEW ra \in BOOLEAN, NEW wa \in BOOLEAN,
         NEW irr \in BOOLEAN, NEW drr \in BOOLEAN, NEW dwr \in BOOLEAN,
         StepFacts(ia, ra, wa, irr, drr, dwr), state = "EXEC"
  PROVE  ProtocolStep
<1> USE DEF StepFacts
<1>1. /\ ~ia /\ ~ra /\ ~wa /\ inst' = inst
      /\ dr_pending' = 0 /\ dw_pending' = 0
  BY DEF BusInv, ControlsTyped, IrBusy, DrBusy, DwBusy, Count, inst_fetch, SlaveStep,
         Channel, ControlStep
<1>2. phaseBar = "running" /\ owedBar = Owes(inst_type) /\ inst_type' = inst_type
  BY <1>1 DEF PhaseTable, inst_type
<1>3. CASE inst_type = "LOAD"
  <2>1. state' = "MEM" /\ ~read_valid'
    BY <1>1, <1>3 DEF ControlStep, state_next
  <2>2. phaseBar' \in {"running", "stuck"} /\ owedBar' = "read" /\ owedBar = "read"
    BY <1>1, <1>2, <1>3, <2>1 DEF PhaseTable, Owes, BusInv, ControlsTyped
  <2>3. QED
    BY <1>2, <2>2 DEF ProtocolStep, Protocol!OfferRead, Protocol!ProtocolNext
<1>4. CASE inst_type = "STORE"
  <2>1. state' = "MEM" /\ ~write_valid'
    BY <1>1, <1>4 DEF ControlStep, state_next
  <2>2. phaseBar' \in {"running", "stuck"} /\ owedBar' = "write" /\ owedBar = "write"
    BY <1>1, <1>2, <1>4, <2>1 DEF PhaseTable, Owes, BusInv, ControlsTyped
  <2>3. QED
    BY <1>2, <2>2 DEF ProtocolStep, Protocol!OfferWrite, Protocol!ProtocolNext
<1>5. CASE inst_type \notin {"LOAD", "STORE"}
  <2>1. state' = "FETCH" /\ state_change' = TRUE
    BY <1>5 DEF ControlStep, state_next
  <2>2. owedBar = "none" /\ phaseBar' = "ready" /\ owedBar' = "none"
    BY <1>2, <1>5, <2>1 DEF PhaseTable, Owes
  <2>3. QED
    BY <1>2, <2>2 DEF ProtocolStep, Protocol!Retire, Protocol!ProtocolNext
<1>6. QED
  BY <1>3, <1>4, <1>5

LEMMA ReadRefines ==
  ASSUME NEW ia \in BOOLEAN, NEW ra \in BOOLEAN, NEW wa \in BOOLEAN,
         NEW irr \in BOOLEAN, NEW drr \in BOOLEAN, NEW dwr \in BOOLEAN,
         StepFacts(ia, ra, wa, irr, drr, dwr), state = "MEM", inst_type = "LOAD"
  PROVE  ProtocolStep
<1>1. ~ia /\ ~write_valid /\ inst_type' = "LOAD" /\ ~dr_addr_valid'
  BY DEF StepFacts, BusInv, ControlsTyped, IrBusy, DwBusy, Count, SlaveStep, Channel,
         ControlStep, inst_fetch, inst_type, load_data
<1> USE DEF StepFacts, PhaseTable, BusInv, ControlsTyped, DrBusy, Count, SlaveStep,
            Channel, ControlStep, state_next, data_valid
<1>2. CASE read_valid
  <2>1. phaseBar = "running" /\ owedBar = "none"
    BY <1>2
  <2>2. state' = "FETCH" /\ state_change' = TRUE
    BY <1>2
  <2>3. phaseBar' = "ready" /\ owedBar' = "none"
    BY <2>2
  <2>4. QED
    BY <2>1, <2>3 DEF ProtocolStep, Protocol!Retire, Protocol!ProtocolNext
<1>3. CASE ~read_valid
  <2>1. state' = "MEM" /\ owedBar = "read"
    BY <1>1, <1>3
  <2>2. CASE ra
    <3>1. phaseBar \in {"running", "reading"}
      BY <1>3, <2>2
    <3>2. phaseBar' = "running" /\ owedBar' = "none"
      BY <1>1, <2>1, <2>2
    <3>3. QED
      BY <2>1, <3>1, <3>2 DEF Protocol!TakeData, ProtocolStep, Protocol!ProtocolNext
  <2>3. CASE ~ra /\ dr_addr_valid
    <3>1. phaseBar = "running"
      BY <2>3
    <3>2. owedBar' = "read" /\ phaseBar' \in {"reading", "stuck"}
      BY <1>1, <2>1, <2>3
    <3>3. QED
      BY <2>1, <3>1, <3>2 DEF Protocol!OfferRead, ProtocolStep, Protocol!ProtocolNext
  <2>4. CASE ~ra /\ ~dr_addr_valid
    <3>1. dr_pending' = dr_pending /\ read_valid' = FALSE
      BY <2>4
    <3>2. UNCHANGED <<phaseBar, owedBar>>
      BY <1>1, <1>3, <2>1, <2>4, <3>1
    <3>3. QED
      BY <3>2 DEF ProtocolStep
  <2>5. QED
    BY <2>2, <2>3, <2>4
<1>4. QED
  BY <1>2, <1>3

LEMMA WriteRefines ==
  ASSUME NEW ia \in BOOLEAN, NEW ra \in BOOLEAN, NEW wa \in BOOLEAN,
         NEW irr \in BOOLEAN, NEW drr \in BOOLEAN, NEW dwr \in BOOLEAN,
         StepFacts(ia, ra, wa, irr, drr, dwr), state = "MEM", inst_type = "STORE"
  PROVE  ProtocolStep
<1>1. ~ia /\ ~read_valid /\ inst_type' = "STORE" /\ ~dw_req_valid'
  BY DEF StepFacts, BusInv, ControlsTyped, IrBusy, DrBusy, Count, SlaveStep, Channel,
         ControlStep, inst_fetch, inst_type, store_data
<1> USE DEF StepFacts, PhaseTable, BusInv, ControlsTyped, DwBusy, Count, SlaveStep,
            Channel, ControlStep, state_next, data_valid
<1>2. CASE write_valid
  <2>1. phaseBar = "running" /\ owedBar = "none"
    BY <1>2
  <2>2. state' = "FETCH" /\ state_change' = TRUE
    BY <1>2
  <2>3. phaseBar' = "ready" /\ owedBar' = "none"
    BY <2>2
  <2>4. QED
    BY <2>1, <2>3 DEF ProtocolStep, Protocol!Retire, Protocol!ProtocolNext
<1>3. CASE ~write_valid
  <2>1. state' = "MEM" /\ owedBar = "write"
    BY <1>1, <1>3
  <2>2. CASE wa
    <3>1. phaseBar \in {"running", "writing"} /\ dw_pending' = 0
      BY <1>3, <2>2
    <3>2. \/ phaseBar' = "running" /\ owedBar' = "none"
          \/ phaseBar' = "stuck" /\ owedBar' = "write"
      BY <1>1, <2>1, <3>1
    <3>3. QED
      BY <2>1, <3>1, <3>2 DEF Protocol!WriteDone, Protocol!WriteFailed, ProtocolStep,
                              Protocol!ProtocolNext
  <2>3. CASE ~wa /\ dw_req_valid
    <3>1. phaseBar = "running"
      BY <2>3
    <3>2. owedBar' = "write" /\ phaseBar' \in {"writing", "stuck"}
      BY <1>1, <2>1, <2>3
    <3>3. QED
      BY <2>1, <3>1, <3>2 DEF Protocol!OfferWrite, ProtocolStep, Protocol!ProtocolNext
  <2>4. CASE ~wa /\ ~dw_req_valid
    <3>1. dw_pending' = dw_pending /\ write_valid' = FALSE
      BY <2>4
    <3>2. UNCHANGED <<phaseBar, owedBar>>
      BY <1>1, <1>3, <2>1, <2>4, <3>1
    <3>3. QED
      BY <3>2 DEF ProtocolStep
  <2>5. QED
    BY <2>2, <2>3, <2>4
<1>4. QED
  BY <1>2, <1>3

\* DECODE retires lui and the fence, which owe nothing.
LEMMA DecodeRefines ==
  ASSUME NEW ia \in BOOLEAN, NEW ra \in BOOLEAN, NEW wa \in BOOLEAN,
         NEW irr \in BOOLEAN, NEW drr \in BOOLEAN, NEW dwr \in BOOLEAN,
         StepFacts(ia, ra, wa, irr, drr, dwr), state = "DECODE"
  PROVE  ProtocolStep
<1> USE DEF StepFacts
<1>1. inst' = inst
  BY DEF BusInv, ControlsTyped, IrBusy, Count, inst_fetch, SlaveStep, Channel, ControlStep
<1>2. phaseBar = "running" /\ owedBar = Owes(inst_type) /\ inst_type' = inst_type
  BY <1>1 DEF PhaseTable, inst_type
<1>3. CASE inst_type \in {"IMM", "FENCE"}
  <2>1. state' = "FETCH" /\ state_change' = TRUE
    BY <1>3 DEF ControlStep, state_next
  <2>2. owedBar = "none" /\ phaseBar' = "ready" /\ owedBar' = "none"
    BY <1>2, <1>3, <2>1 DEF PhaseTable, Owes
  <2>3. QED
    BY <1>2, <2>2 DEF ProtocolStep, Protocol!Retire, Protocol!ProtocolNext
<1>4. CASE inst_type \notin {"IMM", "FENCE"}
  <2>1. state' = "EXEC"
    BY <1>4 DEF ControlStep, state_next
  <2>2. UNCHANGED <<phaseBar, owedBar>>
    BY <1>2, <2>1 DEF PhaseTable
  <2>3. QED
    BY <2>2 DEF ProtocolStep
<1>5. QED
  BY <1>3, <1>4

\* Every state out of reset.
LEMMA RunningProtocol ==
  ASSUME NEW ia \in BOOLEAN, NEW ra \in BOOLEAN, NEW wa \in BOOLEAN,
         NEW irr \in BOOLEAN, NEW drr \in BOOLEAN, NEW dwr \in BOOLEAN,
         StepFacts(ia, ra, wa, irr, drr, dwr)
  PROVE  ProtocolStep
<1>1. \/ state \in {"RESET", "FETCH", "DECODE", "EXEC"}
      \/ state = "MEM" /\ inst_type \in {"LOAD", "STORE"}
  BY DEF StepFacts, BusInv, ControlsTyped
<1>2. CASE state = "RESET"
  <2>1. state' = "FETCH" /\ state_change' = TRUE
    BY <1>2 DEF StepFacts, ControlStep, state_next
  <2>2. UNCHANGED <<phaseBar, owedBar>>
    BY <1>2, <2>1 DEF StepFacts, PhaseTable
  <2>3. QED
    BY <2>2 DEF ProtocolStep
<1>3. CASE state = "FETCH"
  BY <1>3, FetchRefines
<1>4. CASE state = "DECODE"
  BY <1>4, DecodeRefines
<1>5. CASE state = "EXEC"
  BY <1>5, ExecRefines
<1>6. CASE state = "MEM" /\ inst_type = "LOAD"
  BY <1>6, ReadRefines
<1>7. CASE state = "MEM" /\ inst_type = "STORE"
  BY <1>7, WriteRefines
<1>8. QED
  BY <1>1, <1>2, <1>3, <1>4, <1>5, <1>6, <1>7

LEMMA StepProtocol ==
  ASSUME BusInv, BusInv', [Next]_vars
  PROVE  [IF rst THEN Protocol!ProtocolNext ELSE Protocol!Restart]_<<phaseBar, owedBar>>
<1>1. CASE UNCHANGED vars
  <2>1. /\ UNCHANGED <<state, state_change, inst, inst_valid, dr_addr_valid,
                        read_valid, dw_req_valid, write_valid>>
        /\ UNCHANGED <<ir_pending, dr_pending, dw_pending>>
    BY <1>1 DEF vars, coreVars, slaveVars, controlVars, irVars, drVars, dwVars
  <2>2. QED
    BY <2>1 DEF phaseBar, owedBar, inst_fetch, data_valid, inst_type
<1>2. CASE InReset
  <2>1. ~rst /\ state' = "RESET"
    BY <1>2, CoreResetControl DEF InReset, ResetStep
  <2>2. phaseBar' = "ready" /\ owedBar' = "none"
    BY <2>1, PhaseTableNext DEF PhaseTable
  <2>3. QED
    BY <2>1, <2>2 DEF Protocol!Restart
<1>3. CASE Runs
  <2>1. PhaseTable /\ PhaseTable'
    BY PhaseTableHolds, PhaseTableNext
  <2>2. rst /\ ProtocolStep
    BY <1>3, <2>1, RunsFacts, RunningProtocol DEF StepFacts
  <2>3. QED
    BY <2>2 DEF ProtocolStep
<1>4. QED
  BY <1>1, <1>2, <1>3 DEF Next

\* The v1 core with any slave, and a reset at any time, keeps to the same bus
\* protocol as Copperv2.
THEOREM CoreRestartsProtocol == Spec => RestartsProtocol
<1>1. QED
  BY InitProtocol, BusInvariant, StepProtocol, PTL DEF Spec, RestartsProtocol

----------------------------------------------------------------------------
(* Types.                                                                  *)

\* The arithmetic unit computes with the words of the core.
LEMMA UnitWords ==
  /\ Unit!WordBits = WordBits
  /\ \A w : Unit!Wrap(w) = Wrap(w)
  /\ \A a, b : /\ Unit!BitAnd(a, b) = BitAnd(a, b)
               /\ Unit!BitOr(a, b) = BitOr(a, b)
               /\ Unit!BitXor(a, b) = BitXor(a, b)
  /\ \A w, n : /\ Unit!ShiftLeft(w, n) = ShiftLeft(w, n)
               /\ Unit!ShiftRight(w, n) = ShiftRight(w, n)
               /\ Unit!ShiftRightArith(w, n) = ShiftRightArith(w, n)
<1>1. Unit!WordBits = WordBits
  BY DEF Unit!WordBits, WordBits
<1>2. Unit!WordSize = WordSize
  BY <1>1 DEF Unit!WordSize, WordSize
<1>3. \A w : Unit!Wrap(w) = Wrap(w) /\ Unit!Signed(w) = Signed(w)
  BY <1>2 DEF Unit!Wrap, Wrap, Unit!Signed, Signed
<1>4. \A w : Unit!Bits(w) = Bits(w)
  BY <1>1 DEF Unit!Bits, Bits
<1>5. \A S : Unit!FromBits(S) = FromBits(S)
  BY DEF Unit!FromBits, FromBits
<1>6. \A a, b : /\ Unit!BitAnd(a, b) = BitAnd(a, b)
                /\ Unit!BitOr(a, b) = BitOr(a, b)
                /\ Unit!BitXor(a, b) = BitXor(a, b)
  BY <1>4, <1>5 DEF Unit!BitAnd, BitAnd, Unit!BitOr, BitOr, Unit!BitXor, BitXor
<1>7. \A w, n : /\ Unit!ShiftLeft(w, n) = ShiftLeft(w, n)
                /\ Unit!ShiftRight(w, n) = ShiftRight(w, n)
                /\ Unit!ShiftRightArith(w, n) = ShiftRightArith(w, n)
  BY <1>3 DEF Unit!ShiftLeft, ShiftLeft, Unit!ShiftRight, ShiftRight,
              Unit!ShiftRightArith, ShiftRightArith
<1>8. QED
  BY <1>1, <1>3, <1>6, <1>7

\* The operand wires.
LEMMA OperandWires == CoreTypeOK => /\ idec.funct \in Funct /\ idec.imm \in Word
                                    /\ idec.rd \in RegAddr
                                    /\ idec.rs1 \in RegAddr /\ idec.rs2 \in RegAddr
                                    /\ din1 \in Word /\ din2 \in Word
<1> SUFFICES ASSUME CoreTypeOK
             PROVE  /\ idec.funct \in Funct /\ idec.imm \in Word
                    /\ idec.rd \in RegAddr /\ idec.rs1 \in RegAddr /\ idec.rs2 \in RegAddr
                    /\ din1 \in Word /\ din2 \in Word
  OBVIOUS
<1>1. /\ idec.funct \in Funct /\ idec.imm \in Word
      /\ idec.rd \in RegAddr /\ idec.rs1 \in RegAddr /\ idec.rs2 \in RegAddr
  BY DecodeTyped DEF idec
<1>2. Wrap(4) \in Word
  BY WrapWord
<1>3. rs1_dout \in Word /\ rs2_dout \in Word /\ pc \in Word
  BY DEF CoreTypeOK
<1>4. QED
  BY <1>1, <1>2, <1>3, ZeroWord DEF din1, din2

LEMMA AluWord == CoreTypeOK => alu_dout \in Word
<1> SUFFICES ASSUME CoreTypeOK PROVE alu_dout \in Word
  OBVIOUS
<1>1. din1 \in Word /\ din2 \in Word
  BY OperandWires
<1>2. Wrap(din1 + din2) \in Word /\ Wrap(din1 - din2) \in Word
  <2>1. din1 + din2 \in Int /\ din1 - din2 \in Int
    BY <1>1, Widths DEF Word
  <2>2. QED
    BY <2>1, WrapWord
<1>3. Unit!shamt \in 0..(WordBits - 1)
  <2>1. din2 % WordBits \in 0..(WordBits - 1)
    BY <1>1, Widths DEF Word
  <2>2. QED
    BY <2>1, UnitWords DEF Unit!shamt
<1>4. \A b \in BOOLEAN : Unit!BoolWord(b) \in Word
  BY Widths DEF Unit!BoolWord, Word
<1>5. Unit!Comp.LT \in BOOLEAN /\ Unit!Comp.LTU \in BOOLEAN
  BY DEF Unit!Comp
<1>6. Unit!alu_dout \in Word
  BY <1>1, <1>2, <1>3, <1>4, <1>5, UnitWords, BitwiseWord, ShiftWord, ZeroWord
     DEF Unit!alu_dout
<1>7. QED
  BY <1>6, Copperv1Assumption DEF alu_dout

\* The wires that the registers are loaded from; the register file is written
\* only when the control unit selects what it writes.
WiresTyped ==
  /\ alu_dout \in Word /\ pc_next \in Word /\ ext_read_data \in Word
  /\ Writes => rd_din \in Word
  /\ write_data \in Word /\ write_strobe \subseteq Lanes
  /\ idec.rd \in RegAddr /\ idec.rs1 \in RegAddr /\ idec.rs2 \in RegAddr

LEMMA CoreWires == CoreTypeOK => WiresTyped
<1> SUFFICES ASSUME CoreTypeOK PROVE WiresTyped
  OBVIOUS
<1>1. /\ idec.funct \in Funct /\ idec.imm \in Word
      /\ idec.rd \in RegAddr /\ idec.rs1 \in RegAddr /\ idec.rs2 \in RegAddr
  BY OperandWires
<1>2. alu_dout \in Word
  BY AluWord
<1>3. rs1_dout \in Word /\ rs2_dout \in Word /\ pc \in Word
  BY DEF CoreTypeOK
<1>4. ext_read_data \in Word
  BY LoadDataWord DEF CoreTypeOK, BusTypeOK, ext_read_data
<1>5. Writes => rd_din \in Word
  BY <1>1, <1>2, <1>4 DEF rd_din, rd_din_sel
<1>6. pc_next \in Word
  <2>1. \A a, b \in Word : Wrap(a + b) \in Word
    <3>1. \A a, b \in Word : a + b \in Int
      BY Widths DEF Word
    <3>2. QED
      BY <3>1, WrapWord
  <2>2. pc_next_sel(inst_type, idec.funct, Unit!Comp, data_valid)
          \in {"STALL", "INCR", "ADD_IMM", "ADD_RS1_IMM"}
    BY DEF pc_next_sel
  <2>3. QED
    BY <1>1, <1>3, <2>1, <2>2, ZeroWord DEF pc_next
<1>7. write_data \in Word /\ write_strobe \subseteq Lanes
  <2>1. write_offset \in Lanes
    BY <1>2, AlignDownWord DEF write_offset
  <2>2. QED
    BY <1>3, <2>1, StoreDataWord, StoreStrobeLanes DEF write_data, write_strobe
<1>8. QED
  BY <1>1, <1>2, <1>4, <1>5, <1>6, <1>7 DEF WiresTyped

\* What every edge does.
LEMMA EveryEdgeTyped ==
  ASSUME CoreTypeOK, EveryEdge
  PROVE  /\ mem' \in [RegAddr -> Word]
         /\ rs1_dout' \in Word /\ rs2_dout' \in Word
         /\ read_offset' \in Lanes
         /\ ControlTypeOK'
<1>1. WiresTyped
  BY CoreWires
<1>2. mem' \in [RegAddr -> Word]
  BY <1>1, ZeroWord DEF WiresTyped, CoreTypeOK, EveryEdge, RegFileEdge, Written
<1>3. rs1_dout' \in Word /\ rs2_dout' \in Word
  BY <1>1 DEF WiresTyped, CoreTypeOK, EveryEdge, RegFileEdge
<1>4. read_offset' \in Lanes
  BY <1>1, AlignDownWord DEF WiresTyped, CoreTypeOK, EveryEdge
<1>5. ControlTypeOK'
  BY DEF EveryEdge, ControlEdge, ControlTypeOK, State, state_next
<1>6. QED
  BY <1>2, <1>3, <1>4, <1>5

LEMMA CoreEdgeTyped ==
  ASSUME CoreTypeOK, rst' \in BOOLEAN,
         NEW ia \in BOOLEAN, NEW i \in Word, NEW drr \in BOOLEAN,
         NEW ra \in BOOLEAN, NEW d \in Word, NEW dwr \in BOOLEAN,
         NEW wa \in BOOLEAN, NEW w \in Int, CoreEdge(ia, i, drr, ra, d, dwr, wa, w)
  PROVE  CoreTypeOK'
<1>1. WiresTyped
  BY CoreWires
<1>2. /\ mem' \in [RegAddr -> Word] /\ rs1_dout' \in Word /\ rs2_dout' \in Word
      /\ read_offset' \in Lanes /\ ControlTypeOK'
  BY EveryEdgeTyped DEF CoreEdge
<1>3. AlignDown(alu_dout) \in Word
  BY <1>1, AlignDownWord DEF WiresTyped
<1>4. BusTypeOK'
  <2>1. inst' \in Word /\ inst_valid' \in BOOLEAN
    BY DEF CoreEdge, ReadInstruction, CoreTypeOK, BusTypeOK
  <2>2. /\ dr_addr' \in Word /\ dr_addr_valid' \in BOOLEAN
        /\ read_data' \in Word /\ read_valid' \in BOOLEAN
    BY <1>3 DEF CoreEdge, ReadData, dr_addr_tran, load_data, CoreTypeOK, BusTypeOK
  <2>3. /\ dw_addr' \in Word /\ dw_data' \in Word /\ dw_strobe' \subseteq Lanes
        /\ dw_req_valid' \in BOOLEAN /\ write_valid' \in BOOLEAN
    BY <1>1, <1>3 DEF WiresTyped, CoreEdge, WriteData, dw_data_addr_tran, store_data,
                      CoreTypeOK, BusTypeOK
  <2>4. QED
    BY <2>1, <2>2, <2>3 DEF BusTypeOK
<1>5. pc' \in Word
  BY <1>1 DEF WiresTyped, CoreEdge
<1>6. QED
  BY <1>2, <1>4, <1>5 DEF CoreTypeOK

LEMMA CoreResetTyped ==
  ASSUME CoreTypeOK, rst' \in BOOLEAN, CoreReset
  PROVE  CoreTypeOK'
<1>1. /\ mem' \in [RegAddr -> Word] /\ rs1_dout' \in Word /\ rs2_dout' \in Word
      /\ read_offset' \in Lanes /\ ControlTypeOK'
  BY EveryEdgeTyped DEF CoreReset
<1>2. BusTypeOK'
  BY ZeroWord DEF CoreReset, BusReset, CoreTypeOK, BusTypeOK
<1>3. pc' \in Word
  BY Copperv1Assumption DEF CoreReset
<1>4. QED
  BY <1>1, <1>2, <1>3 DEF CoreTypeOK

LEMMA CoreInitTyped == CoreInit => CoreTypeOK
<1> SUFFICES ASSUME CoreInit PROVE CoreTypeOK
  OBVIOUS
<1>1. BusTypeOK
  BY ZeroWord DEF CoreInit, BusTypeOK
<1>2. read_offset \in Lanes
  BY Copperv1Assumption, AlignDownWord DEF CoreInit
<1>3. QED
  BY <1>1, <1>2, Copperv1Assumption DEF CoreInit, CoreTypeOK, ControlTypeOK, State

LEMMA StepTypeOK == TypeOK /\ BusInv' /\ [Next]_vars => TypeOK'
<1> SUFFICES ASSUME TypeOK, BusInv', [Next]_vars PROVE TypeOK'
  OBVIOUS
<1>1. SlaveTypeOK'
  BY DEF BusInv, ControlsTyped, SlaveTypeOK
<1>2. CASE InReset /\ rst' \in BOOLEAN
  BY <1>1, <1>2, CoreResetTyped DEF InReset, TypeOK
<1>3. CASE Runs /\ rst' \in BOOLEAN
  <2>1. PICK ia \in BOOLEAN, ra \in BOOLEAN, wa \in BOOLEAN : ClockEdge(ia, ra, wa)
    BY <1>3 DEF Runs
  <2>2. PICK drr \in BOOLEAN, dwr \in BOOLEAN, i \in Payload(ia, InstWords),
             d \in Payload(ra, DataWords), w \in Payload(wa, RespValues) :
          CoreEdge(ia, i, drr, ra, d, dwr, wa, w)
    BY <2>1, SlaveAssumption DEF ClockEdge, Ready
  <2>3. i \in Word /\ d \in Word /\ w \in Int
    BY <2>2, ZeroWord, SlaveAssumption DEF Payload
  <2>4. CoreTypeOK /\ rst' \in BOOLEAN
    BY <1>3 DEF TypeOK
  <2>5. CoreTypeOK'
    BY ONLY <2>1, <2>2, <2>3, <2>4, CoreEdgeTyped
  <2>6. QED
    BY <1>1, <2>5 DEF TypeOK
<1>4. CASE UNCHANGED vars
  BY <1>4 DEF vars, coreVars, slaveVars, controlVars, irVars, drVars,
              dwVars, TypeOK, CoreTypeOK, SlaveTypeOK, ControlTypeOK, BusTypeOK
<1>5. QED
  BY <1>2, <1>3, <1>4 DEF Next

\* Every register of the v1 core holds a value of its width, whatever is
\* computed; what the register file writes is always selected.
THEOREM TypeOKHolds == Spec => []TypeOK
<1>1. Init => TypeOK
  BY CoreInitTyped DEF Init, SlaveInit, TypeOK, SlaveTypeOK
<1>2. QED
  BY <1>1, BusInvariant, StepTypeOK, PTL DEF Spec

============================================================================
