---------------------------- MODULE OpenBusProofs --------------------------
(***************************************************************************)
(* Theorems about the core on an open bus, for every program, every word   *)
(* width, every slave that keeps to the handshake and a reset that comes   *)
(* at any time.  The proofs about the bus leave the datapath opaque: they  *)
(* use the control unit, the bus registers and the slave's counters only.  *)
(***************************************************************************)
EXTENDS OpenBus, DatapathProofs

----------------------------------------------------------------------------
(* The datapath-free part of a clock edge.                                 *)

\* Out of reset.
ControlStep(ia, ra, wa, drr, dwr) ==
  /\ state' = state_next(inst_type, inst_valid, data_valid)
  /\ state_change' = (state # state_next(inst_type, inst_valid, data_valid))
  /\ inst_valid' = ia
  /\ ~ia => inst' = inst
  /\ dr_addr_valid' = (load_data(inst_type) /\ drr)
  /\ read_valid' = ra
  /\ dw_req_valid' = (store_data(inst_type) /\ dwr)
  /\ write_valid' \in BOOLEAN
  /\ write_valid' => wa

\* In reset.
ResetStep ==
  /\ state' = "RESET" /\ state_change' \in BOOLEAN /\ inst' = inst
  /\ inst_valid' = FALSE /\ read_valid' = FALSE /\ write_valid' = FALSE
  /\ dr_addr_valid' = FALSE /\ dw_req_valid' = FALSE

\* The slave's part: what it accepts and answers on the three channels.
SlaveStep(ia, ra, wa, irr, drr, dwr) ==
  /\ Channel(ir_pending, ir_pending', inst_fetch /\ irr, ia)
  /\ Channel(dr_pending, dr_pending', dr_addr_valid /\ drr, ra)
  /\ Channel(dw_pending, dw_pending', dw_req_valid /\ dwr, wa)

LEMMA CoreEdgeControl ==
  ASSUME NEW ia \in BOOLEAN, NEW i, NEW drr \in BOOLEAN, NEW ra \in BOOLEAN,
         NEW d, NEW dwr \in BOOLEAN, NEW wa \in BOOLEAN, NEW w,
         CoreEdge(ia, i, drr, ra, d, dwr, wa, w)
  PROVE  ControlStep(ia, ra, wa, drr, dwr)
BY DEF ControlStep, CoreEdge, ControlEdge, ReadInstruction, ReadData, WriteData,
       dr_req_fire, dw_req_fire

LEMMA CoreResetControl ==
  ASSUME CoreReset(FALSE, 0)
  PROVE  ResetStep
BY DEF ResetStep, CoreReset, ControlReset, BusReset

\* Out of reset every step is a step of the slave with one of the control.
LEMMA RunsFacts ==
  ASSUME Runs
  PROVE  /\ rst
         /\ \E ia, ra, wa, irr, drr, dwr \in BOOLEAN :
              /\ SlaveStep(ia, ra, wa, irr, drr, dwr)
              /\ ControlStep(ia, ra, wa, drr, dwr)
<1>1. PICK ia \in BOOLEAN, ra \in BOOLEAN, wa \in BOOLEAN : ClockEdge(ia, ra, wa)
  BY DEF Runs
<1>2. PICK irr \in Ready(inst_fetch),
           drr \in Ready(load_data(inst_type) \/ dr_addr_valid),
           dwr \in Ready(store_data(inst_type) \/ dw_req_valid) :
        /\ SlaveStep(ia, ra, wa, irr, drr, dwr)
        /\ \E i \in Payload(ia, InstWords), d \in Payload(ra, DataWords),
              w \in Payload(wa, RespValues) : CoreEdge(ia, i, drr, ra, d, dwr, wa, w)
  BY <1>1 DEF ClockEdge, SlaveStep
<1>3. irr \in BOOLEAN /\ drr \in BOOLEAN /\ dwr \in BOOLEAN
  BY <1>2, SlaveAssumption DEF Ready
<1>4. ControlStep(ia, ra, wa, drr, dwr)
  BY <1>2, <1>3, CoreEdgeControl
<1>5. rst
  BY <1>1 DEF ClockEdge
<1>6. QED
  BY <1>2, <1>3, <1>4, <1>5

----------------------------------------------------------------------------
(* The inductive invariant.                                                *)

LEMMA InitBusInv == Init => BusInv
<1> SUFFICES ASSUME Init PROVE BusInv
  OBVIOUS
<1>1. /\ rst = FALSE /\ state = "RESET" /\ state_change \in BOOLEAN
      /\ inst_valid = FALSE /\ read_valid = FALSE /\ write_valid = FALSE
      /\ dr_addr_valid = FALSE /\ dw_req_valid = FALSE
      /\ ir_pending = 0 /\ dr_pending = 0 /\ dw_pending = 0
  BY DEF Init, CoreInit, SlaveInit
<1>2. ControlsTyped
  BY <1>1 DEF ControlsTyped, State
<1>3. IrBusy = 0 /\ DrBusy = 0 /\ DwBusy = 0
  BY <1>1 DEF IrBusy, DrBusy, DwBusy, Count
<1>4. QED
  BY <1>1, <1>2, <1>3 DEF BusInv, PhaseInv

\* In state RESET with an idle slave nothing is under way.
LEMMA ResetIdle ==
  ASSUME ResetStep, rst' \in BOOLEAN,
         ir_pending' = 0, dr_pending' = 0, dw_pending' = 0
  PROVE  ControlsTyped' /\ PhaseInv'
<1>1. ControlsTyped'
  BY DEF ResetStep, ControlsTyped, State
<1>2. IrBusy' = 0 /\ DrBusy' = 0 /\ DwBusy' = 0
  BY DEF ResetStep, IrBusy, DrBusy, DwBusy, Count
<1>3. QED
  BY <1>1, <1>2 DEF ResetStep, PhaseInv

\* Out of reset a step keeps types and account, whether reset follows or not.
LEMMA RunningStep ==
  ASSUME ControlsTyped, PhaseInv, rst, rst' \in BOOLEAN,
         NEW ia \in BOOLEAN, NEW ra \in BOOLEAN, NEW wa \in BOOLEAN,
         NEW irr \in BOOLEAN, NEW drr \in BOOLEAN, NEW dwr \in BOOLEAN,
         SlaveStep(ia, ra, wa, irr, drr, dwr), ControlStep(ia, ra, wa, drr, dwr)
  PROVE  ControlsTyped' /\ PhaseInv'
<1>0. ControlsTyped'
  <2>1. ir_pending' \in Nat /\ dr_pending' \in Nat /\ dw_pending' \in Nat
    BY DEF Channel, Count, SlaveStep, ControlsTyped, inst_fetch
  <2>2. state' \in State \ {"IDLE"} /\ state_change' \in BOOLEAN
    BY DEF ControlStep, ControlsTyped, State, state_next
  <2>3. QED
    BY <2>1, <2>2 DEF ControlStep, ControlsTyped, load_data, store_data
<1>1. rst' \in BOOLEAN
  OBVIOUS
<1>2. /\ SlaveStep(ia, ra, wa, irr, drr, dwr)
      /\ ControlStep(ia, ra, wa, drr, dwr)
  OBVIOUS
<1> USE DEF PhaseInv, ControlsTyped, IrBusy, DrBusy, DwBusy, Count, SlaveStep,
            Channel, ControlStep, State, state_next, inst_fetch, load_data,
            store_data, data_valid, Memory, Immediate, inst_type
<1>4. CASE state = "RESET"
  BY <1>1, <1>2, <1>4
<1>5. CASE state = "FETCH"
  <2>1. /\ DrBusy = 0 /\ DwBusy = 0
        /\ ~dr_addr_valid /\ ~dw_req_valid /\ ~ra /\ ~wa
    BY <1>2, <1>5
  <2>2. DrBusy' = 0 /\ DwBusy' = 0
    BY <1>2, <1>5, <2>1
  <2>3. CASE inst_valid
    <3>1. ir_pending = 0 /\ ~state_change /\ ~ia /\ state' = "DECODE"
      BY <1>2, <1>5, <2>3
    <3>2. QED
      BY <1>0, <1>1, <2>2, <3>1, <1>2, <1>5
  <2>4. CASE ~inst_valid
    <3>1. state' = "FETCH" /\ state_change' = FALSE /\ inst_valid' = ia
      BY <1>2, <1>5, <2>4
    <3>2. (Count(state_change) + IrBusy <= 1)'
      BY <1>2, <1>5, <2>4, <3>1
    <3>3. QED
      BY <1>0, <1>1, <1>5, <2>2, <3>1, <3>2
  <2>5. QED
    BY <2>3, <2>4
<1>6. CASE state = "DECODE"
  BY <1>1, <1>2, <1>6
<1>7. CASE state = "EXEC"
  <2>1. /\ IrBusy = 0 /\ DrBusy = 0 /\ DwBusy = 0 /\ ~ia /\ ~ra /\ ~wa
        /\ ~dr_addr_valid' /\ ~dw_req_valid' /\ inst' = inst
    BY <1>2, <1>7
  <2>2. /\ IrBusy' = 0 /\ DrBusy' = 0 /\ DwBusy' = 0
        /\ state' \in {"MEM", "COMMIT"} /\ (state' = "MEM" => inst_type \in Memory)
    BY <1>2, <1>7, <2>1
  <2>3. inst_type' = inst_type
    BY <2>1
  <2>4. QED
    BY <1>0, <1>1, <2>2, <2>3
<1>8. CASE state = "MEM"
  <2>1. /\ IrBusy = 0 /\ ~inst_fetch /\ ~ia
        /\ inst' = inst /\ IrBusy' = 0 /\ inst_valid' = FALSE
    BY <1>2, <1>8
  <2>2. inst_type' = inst_type /\ inst_type \in Memory
    BY <1>8, <2>1
  <2>3. CASE inst_type = "LOAD"
    <3>1. DwBusy = 0 /\ ~dw_req_valid /\ ~wa /\ ~write_valid
      BY <1>2, <1>8, <2>3
    <3>2. DwBusy' = 0
      BY <1>2, <1>8, <2>3, <3>1
    <3>3. CASE read_valid
      <4>1. /\ ~state_change /\ ~dr_addr_valid /\ dr_pending = 0 /\ ~ra
            /\ state' = "COMMIT"
        BY <1>2, <1>8, <2>3, <3>3
      <4>2. DrBusy' = 0
        BY <1>2, <1>8, <2>3, <3>3, <4>1
      <4>3. QED
        BY <1>0, <1>1, <1>8, <2>1, <2>2, <2>3, <3>2, <4>1, <4>2
    <3>4. CASE ~read_valid
      <4>1. state' = "MEM" /\ state_change' = FALSE
        BY <1>2, <1>8, <3>1, <3>4
      <4>2. (Count(state_change) + DrBusy <= 1)'
        BY <1>2, <1>8, <2>3, <3>4, <4>1
      <4>3. QED
        BY <1>0, <1>1, <1>8, <2>1, <2>2, <2>3, <3>2, <4>1, <4>2
    <3>5. QED
      BY <3>3, <3>4
  <2>4. CASE inst_type = "STORE"
    <3>1. DrBusy = 0 /\ ~dr_addr_valid /\ ~ra /\ ~read_valid
      BY <1>2, <1>8, <2>4
    <3>2. DrBusy' = 0
      BY <1>2, <1>8, <2>4, <3>1
    <3>3. CASE write_valid
      <4>1. /\ ~state_change /\ ~dw_req_valid /\ dw_pending = 0 /\ ~wa
            /\ state' = "COMMIT"
        BY <1>2, <1>8, <2>4, <3>3
      <4>2. DwBusy' = 0
        BY <1>2, <1>8, <2>4, <3>3, <4>1
      <4>3. QED
        BY <1>0, <1>1, <1>8, <2>1, <2>2, <2>4, <3>2, <4>1, <4>2
    <3>4. CASE ~write_valid
      <4>1. state' = "MEM" /\ state_change' = FALSE
        BY <1>2, <1>8, <3>1, <3>4
      <4>2. (Count(state_change) + DwBusy <= 1)'
        BY <1>2, <1>8, <2>4, <3>4, <4>1
      <4>3. QED
        BY <1>0, <1>1, <1>8, <2>1, <2>2, <2>4, <3>2, <4>1, <4>2
    <3>5. QED
      BY <3>3, <3>4
  <2>5. QED
    BY <2>2, <2>3, <2>4 DEF Memory
<1>9. CASE state = "COMMIT"
  BY <1>1, <1>2, <1>9
<1>10. QED
  BY <1>4, <1>5, <1>6, <1>7, <1>8, <1>9

LEMMA StepBusInv == BusInv /\ [Next]_vars => BusInv'
<1> SUFFICES ASSUME BusInv, [Next]_vars PROVE BusInv'
  OBVIOUS
<1>1. CASE UNCHANGED vars
  <2>1. /\ UNCHANGED <<rst, state, state_change, inst, inst_valid, dr_addr_valid,
                        read_valid, dw_req_valid, write_valid>>
        /\ UNCHANGED <<ir_pending, dr_pending, dw_pending>>
    BY <1>1 DEF vars, coreVars, slaveVars, controlVars, irVars, drVars, dwVars
  <2>2. QED
    BY <2>1 DEF BusInv, PhaseInv, ControlsTyped, IrBusy, DrBusy, DwBusy, Count, inst_type
<1>2. CASE Next
  <2>1. rst' \in BOOLEAN
    BY <1>2 DEF Next
  <2>2. CASE InReset
    BY <2>1, <2>2, CoreResetControl, ResetIdle DEF InReset, SlaveReset, BusInv
  <2>3. CASE Runs
    <3>1. PICK ia \in BOOLEAN, ra \in BOOLEAN, wa \in BOOLEAN, irr \in BOOLEAN,
               drr \in BOOLEAN, dwr \in BOOLEAN :
            SlaveStep(ia, ra, wa, irr, drr, dwr) /\ ControlStep(ia, ra, wa, drr, dwr)
      BY <2>3, RunsFacts
    <3>2. rst /\ ControlsTyped /\ PhaseInv
      BY <2>3, RunsFacts DEF BusInv
    <3>3. ControlsTyped' /\ PhaseInv'
      BY ONLY <2>1, <3>1, <3>2, RunningStep, SMTT(60)
    <3>4. QED
      BY <3>3 DEF BusInv
  <2>4. QED
    BY <1>2, <2>2, <2>3 DEF Next
<1>3. QED
  BY <1>1, <1>2

\* The per-state account of the bus holds in every behaviour.
THEOREM BusInvariant == Spec => []BusInv
<1>1. QED
  BY InitBusInv, StepBusInv, PTL DEF Spec

LEMMA AccountOneTransaction ==
  ASSUME ControlsTyped, PhaseInv
  PROVE  OneTransaction
<1> USE DEF PhaseInv, ControlsTyped, IrBusy, DrBusy, DwBusy, Count, inst_fetch
<1>1. IrBusy \in Nat /\ DrBusy \in Nat /\ DwBusy \in Nat
  OBVIOUS
<1>2. InFlight = Count(inst_fetch) + IrBusy + DrBusy + DwBusy
  BY DEF InFlight
<1>3. CASE state = "FETCH"
  BY <1>2, <1>3 DEF OneTransaction
<1>4. CASE state = "MEM"
  BY <1>2, <1>4 DEF OneTransaction, Memory
<1>5. CASE state \notin {"FETCH", "MEM"}
  BY <1>2, <1>5 DEF OneTransaction
<1>6. QED
  BY <1>3, <1>4, <1>5

\* At most one transaction is under way on the three channels.
THEOREM OneTransactionHolds == Spec => []OneTransaction
<1>1. BusInv => OneTransaction
  BY AccountOneTransaction DEF BusInv
<1>2. QED
  BY <1>1, BusInvariant, PTL

LEMMA AccountResponse ==
  ASSUME ControlsTyped, PhaseInv
  PROVE  ResponseAwaited
BY DEF PhaseInv, ControlsTyped, ResponseAwaited, IrBusy, DrBusy, DwBusy, Count

\* A response is latched only in the state, and for the instruction, that
\* waits for it.
THEOREM ResponseAwaitedHolds == Spec => []ResponseAwaited
<1>1. BusInv => ResponseAwaited
  BY AccountResponse DEF BusInv
<1>2. QED
  BY <1>1, BusInvariant, PTL

----------------------------------------------------------------------------
(* The instruction register.                                               *)

LEMMA StepInstHeld ==
  ASSUME BusInv, [Next]_vars, Executing
  PROVE  inst' = inst
<1>1. CASE UNCHANGED vars
  BY <1>1 DEF vars, coreVars, irVars
<1>2. CASE InReset
  BY <1>2, CoreResetControl DEF InReset, ResetStep
<1>3. CASE Runs
  <2>1. PICK ia \in BOOLEAN, ra \in BOOLEAN, wa \in BOOLEAN,
             irr \in BOOLEAN, drr \in BOOLEAN, dwr \in BOOLEAN :
          SlaveStep(ia, ra, wa, irr, drr, dwr) /\ ControlStep(ia, ra, wa, drr, dwr)
    BY <1>3, RunsFacts
  <2>2. ir_pending = 0 /\ ~inst_fetch
    BY DEF Executing, BusInv, PhaseInv, ControlsTyped, IrBusy, Count, inst_fetch
  <2>3. ~ia
    BY <2>1, <2>2 DEF SlaveStep, Channel, Count
  <2>4. QED
    BY <2>1, <2>3 DEF ControlStep
<1>4. QED
  BY <1>1, <1>2, <1>3 DEF Next

\* No instruction response replaces the instruction under execution.
THEOREM InstHeldHolds == Spec => InstHeld
<1>1. BusInv /\ [Next]_vars
        => [Executing => inst' = inst]_vars
  BY StepInstHeld
<1>2. QED
  BY <1>1, BusInvariant, PTL DEF Spec, InstHeld

----------------------------------------------------------------------------
(* What the datapath computes in one state and uses in a later one is      *)
(* still what it was: the register file's read ports and the byte offset   *)
(* of a load.                                                              *)

\* The latches of the datapath at a clock edge.
LatchStep ==
  /\ rs1_addr' = NextAddr(rs1_addr, rs1_en(inst_type), idec.rs1)
  /\ rs2_addr' = NextAddr(rs2_addr, rs2_en(inst_type), idec.rs2)
  /\ read_offset' = IF load_data(inst_type) THEN Offset(alu_dout) ELSE read_offset
  /\ ~alu_load(inst_type) => in1' = in1 /\ in2' = in2 /\ op' = op

LEMMA LatchStepOfRuns == ASSUME Runs PROVE LatchStep
<1>1. PICK ia \in BOOLEAN, ra \in BOOLEAN, wa \in BOOLEAN : ClockEdge(ia, ra, wa)
  BY DEF Runs
<1>2. PICK drr, dwr, i, d, w : CoreEdge(ia, i, drr, ra, d, dwr, wa, w)
  BY <1>1 DEF ClockEdge
<1>3. QED
  BY <1>2 DEF CoreEdge, RegFileEdge, AluEdge, aluVars, LatchStep

\* The offset of a load is the offset of its address from the request on.
OffsetKept == state \in {"MEM", "COMMIT"} /\ inst_type = "LOAD"
                /\ (state = "MEM" => ~state_change)
                => read_offset = Offset(alu_dout)

LatchInv == BusInv /\ OperandsHeld /\ OffsetKept

LEMMA InitLatchInv == Init => LatchInv
<1> SUFFICES ASSUME Init PROVE LatchInv
  OBVIOUS
<1>1. BusInv /\ state = "RESET"
  BY InitBusInv DEF Init, CoreInit
<1>2. QED
  BY <1>1 DEF LatchInv, OperandsHeld, OffsetKept

LEMMA StepOperands ==
  ASSUME BusInv, OperandsHeld, BusInv', Next, Runs
  PROVE  OperandsHeld'
<1>1. PICK ia \in BOOLEAN, ra \in BOOLEAN, wa \in BOOLEAN,
           irr \in BOOLEAN, drr \in BOOLEAN, dwr \in BOOLEAN :
        SlaveStep(ia, ra, wa, irr, drr, dwr) /\ ControlStep(ia, ra, wa, drr, dwr)
  BY RunsFacts
<1>2. CASE state' \notin {"EXEC", "MEM", "COMMIT"}
  BY <1>2 DEF OperandsHeld
<1>3. CASE state' \in {"EXEC", "MEM", "COMMIT"}
  <2>1. state \in {"DECODE", "EXEC", "MEM"}
    BY <1>1, <1>3 DEF BusInv, PhaseInv, ControlsTyped, State, ControlStep, state_next
  <2>2. inst' = inst
    BY <2>1, StepInstHeld DEF Executing
  <2>3. inst_type' = inst_type /\ idec' = idec
    BY <2>2 DEF inst_type, idec
  <2>4. LatchStep
    BY <2>1, LatchStepOfRuns
  <2>5. CASE state = "DECODE"
    BY <2>3, <2>4, <2>5 DEF LatchStep, NextAddr, OperandsHeld, rs1_en, rs2_en
  <2>6. CASE state \in {"EXEC", "MEM"}
    <3>1. rs1_addr' = rs1_addr /\ rs2_addr' = rs2_addr
      BY <2>4, <2>6 DEF LatchStep, NextAddr, rs1_en, rs2_en
    <3>2. QED
      BY <2>3, <2>6, <3>1 DEF OperandsHeld
  <2>7. QED
    BY <2>1, <2>5, <2>6
<1>4. QED
  BY <1>2, <1>3

LEMMA StepOffset ==
  ASSUME BusInv, OffsetKept, BusInv', Next, Runs
  PROVE  OffsetKept'
<1>1. PICK ia \in BOOLEAN, ra \in BOOLEAN, wa \in BOOLEAN,
           irr \in BOOLEAN, drr \in BOOLEAN, dwr \in BOOLEAN :
        SlaveStep(ia, ra, wa, irr, drr, dwr) /\ ControlStep(ia, ra, wa, drr, dwr)
  BY RunsFacts
<1> SUFFICES ASSUME state' \in {"MEM", "COMMIT"}, inst_type' = "LOAD",
                    state' = "MEM" => ~state_change'
             PROVE  (read_offset = Offset(alu_dout))'
  BY DEF OffsetKept
<1>2. state \in {"EXEC", "MEM"}
  BY <1>1 DEF BusInv, PhaseInv, ControlsTyped, State, ControlStep, state_next
<1>3. inst_type = "LOAD"
  <2>1. inst' = inst
    BY <1>2, StepInstHeld DEF Executing
  <2>2. QED
    BY <2>1 DEF inst_type
<1>4. state = "MEM"
  BY <1>1, <1>2, <1>3 DEF ControlStep, state_next, Memory
<1>5. LatchStep
  BY <1>2, LatchStepOfRuns
<1>6. alu_dout' = alu_dout
  BY <1>4, <1>5 DEF LatchStep, alu_load, alu_dout, Comp, shamt
<1>7. CASE state_change
  BY <1>3, <1>4, <1>5, <1>6, <1>7 DEF LatchStep, load_data
<1>8. CASE ~state_change
  <2>1. read_offset = Offset(alu_dout)
    BY <1>3, <1>4, <1>8 DEF OffsetKept
  <2>2. QED
    BY <1>3, <1>4, <1>5, <1>6, <1>8, <2>1 DEF LatchStep, load_data
<1>9. QED
  BY <1>7, <1>8

THEOREM LatchInvariant == Spec => []LatchInv
<1>1. LatchInv /\ UNCHANGED vars => LatchInv'
  <2> SUFFICES ASSUME LatchInv, UNCHANGED vars PROVE LatchInv'
    OBVIOUS
  <2>1. BusInv'
    BY StepBusInv DEF LatchInv
  <2>2. UNCHANGED <<state, state_change, inst, rs1_addr, rs2_addr, read_offset,
                    in1, in2, op>>
    BY DEF vars, coreVars, controlVars, irVars, regVars, aluVars
  <2>3. alu_dout' = alu_dout /\ inst_type' = inst_type /\ idec' = idec
    BY <2>2 DEF alu_dout, Comp, shamt, inst_type, idec
  <2>4. QED
    BY <2>1, <2>2, <2>3 DEF LatchInv, OperandsHeld, OffsetKept
<1>2. LatchInv /\ Next => LatchInv'
  <2> SUFFICES ASSUME LatchInv, Next PROVE LatchInv'
    OBVIOUS
  <2>1. BusInv'
    BY StepBusInv DEF LatchInv
  <2>2. CASE InReset
    <3>1. state' = "RESET"
      BY <2>2, CoreResetControl DEF InReset, ResetStep
    <3>2. QED
      BY <2>1, <3>1 DEF LatchInv, OperandsHeld, OffsetKept
  <2>3. CASE Runs
    BY <2>1, <2>3, StepOperands, StepOffset DEF LatchInv
  <2>4. QED
    BY <2>2, <2>3 DEF Next
<1>3. QED
  BY InitLatchInv, <1>1, <1>2, PTL DEF Spec

\* In EXEC, MEM and COMMIT the read ports still present the registers the
\* instruction names, though they are enabled in DECODE alone.
THEOREM OperandsHeldHolds == Spec => []OperandsHeld
<1>1. QED
  BY LatchInvariant, PTL DEF LatchInv

\* When a load commits, the lane it extracts is the lane of its address.
THEOREM OffsetHeldHolds == Spec => []OffsetHeld
<1>1. LatchInv => OffsetHeld
  BY DEF LatchInv, OffsetKept, OffsetHeld
<1>2. QED
  BY <1>1, LatchInvariant, PTL

----------------------------------------------------------------------------
(* The bus protocol: under the mapping of OpenBus, every clock edge is a   *)
(* step of BusProtocol or leaves its variables alone.                      *)

\* The abstract state in each state of the control unit.
PhaseTable ==
  /\ state = "RESET" => phaseBar = "ready" /\ owedBar = "none"
  /\ state \in {"DECODE", "EXEC"} => phaseBar = "running" /\ owedBar = Owes(inst_type)
  /\ state = "COMMIT" => phaseBar = "running" /\ owedBar = "none"
  /\ state = "FETCH" =>
       /\ state_change => phaseBar = "ready" /\ owedBar = "none"
       /\ ir_pending > 0 => phaseBar = "fetching" /\ owedBar = "none"
       /\ inst_valid => phaseBar = "running" /\ owedBar = Owes(inst_type)
       /\ ~state_change /\ ir_pending = 0 /\ ~inst_valid
            => phaseBar = "stuck" /\ owedBar = "none"
  /\ state = "MEM" /\ inst_type = "LOAD" =>
       /\ state_change \/ dr_addr_valid => phaseBar = "running" /\ owedBar = "read"
       /\ dr_pending > 0 => phaseBar = "reading" /\ owedBar = "read"
       /\ read_valid => phaseBar = "running" /\ owedBar = "none"
       /\ ~state_change /\ ~dr_addr_valid /\ dr_pending = 0 /\ ~read_valid
            => phaseBar = "stuck" /\ owedBar = "read"
  /\ state = "MEM" /\ inst_type = "STORE" =>
       /\ state_change \/ dw_req_valid => phaseBar = "running" /\ owedBar = "write"
       /\ dw_pending > 0 => phaseBar = "writing" /\ owedBar = "write"
       /\ write_valid => phaseBar = "running" /\ owedBar = "none"
       /\ ~state_change /\ ~dw_req_valid /\ dw_pending = 0 /\ ~write_valid
            => phaseBar = "stuck" /\ owedBar = "write"

LEMMA PhaseTableHolds == BusInv => PhaseTable
<1> SUFFICES ASSUME BusInv PROVE PhaseTable
  OBVIOUS
<1> USE DEF BusInv, PhaseInv, ControlsTyped, IrBusy, DrBusy, DwBusy, Count, State,
            inst_fetch, data_valid, phaseBar, owedBar
<1>1. CASE state \in {"RESET", "DECODE", "EXEC", "COMMIT"}
  <2>1. ~read_valid /\ ~write_valid
    BY <1>1
  <2>2. QED
    BY <1>1, <2>1 DEF PhaseTable
<1>2. CASE state = "FETCH"
  <2>1. ~read_valid /\ ~write_valid
    BY <1>2
  <2>2. /\ state_change => ir_pending = 0 /\ ~inst_valid
        /\ ir_pending > 0 => ~state_change /\ ~inst_valid
        /\ inst_valid => ~state_change /\ ir_pending = 0
    BY <1>2
  <2>3. QED
    BY <1>2, <2>1, <2>2 DEF PhaseTable
<1>3. CASE state = "MEM" /\ inst_type = "LOAD"
  <2>1. ~dw_req_valid /\ dw_pending = 0 /\ ~write_valid
    BY <1>3
  <2>2. /\ state_change \/ dr_addr_valid => ~read_valid
        /\ dr_pending > 0 => ~state_change /\ ~dr_addr_valid /\ ~read_valid
        /\ read_valid => ~state_change /\ ~dr_addr_valid /\ dr_pending = 0
    BY <1>3
  <2>3. QED
    BY <1>3, <2>1, <2>2 DEF PhaseTable, Owes
<1>4. CASE state = "MEM" /\ inst_type = "STORE"
  <2>1. ~dr_addr_valid /\ dr_pending = 0 /\ ~read_valid
    BY <1>4
  <2>2. /\ state_change \/ dw_req_valid => ~write_valid
        /\ dw_pending > 0 => ~state_change /\ ~dw_req_valid /\ ~write_valid
        /\ write_valid => ~state_change /\ ~dw_req_valid /\ dw_pending = 0
    BY <1>4
  <2>3. QED
    BY <1>4, <2>1, <2>2 DEF PhaseTable, Owes
<1>5. QED
  BY <1>1, <1>2, <1>3, <1>4 DEF Memory

\* The same table after the step.
LEMMA PhaseTableNext == BusInv' => PhaseTable'
BY PhaseTableHolds, PTL

----------------------------------------------------------------------------
(* Initial states and steps.                                               *)

LEMMA InitProtocol == Init => Protocol!ProtocolInit
<1> SUFFICES ASSUME Init PROVE Protocol!ProtocolInit
  OBVIOUS
<1>1. BusInv /\ state = "RESET"
  BY InitBusInv DEF Init, CoreInit
<1>2. QED
  BY <1>1, PhaseTableHolds DEF BusInv, PhaseTable, Protocol!ProtocolInit

\* What the abstract state is bound by in every step: the tables before and
\* after, and the step itself.
StepFacts(ia, ra, wa, irr, drr, dwr) ==
  /\ BusInv /\ BusInv'
  /\ PhaseTable /\ PhaseTable'
  /\ SlaveStep(ia, ra, wa, irr, drr, dwr)
  /\ rst /\ ControlStep(ia, ra, wa, drr, dwr)

ProtocolStep == \/ Protocol!ProtocolNext
                \/ UNCHANGED <<phaseBar, owedBar>>

LEMMA OwesOwed == \A it : Owes(it) \in Protocol!Owed
BY DEF Owes, Protocol!Owed

LEMMA FetchRefines ==
  ASSUME NEW ia \in BOOLEAN, NEW ra \in BOOLEAN, NEW wa \in BOOLEAN,
         NEW irr \in BOOLEAN, NEW drr \in BOOLEAN, NEW dwr \in BOOLEAN,
         StepFacts(ia, ra, wa, irr, drr, dwr), state = "FETCH"
  PROVE  ProtocolStep
<1> USE DEF StepFacts, PhaseTable, BusInv, PhaseInv, ControlsTyped, IrBusy, Count, SlaveStep,
            Channel, ControlStep, state_next, inst_fetch
<1>1. CASE inst_valid
  <2>1. ir_pending = 0 /\ ~ia /\ state' = "DECODE" /\ inst' = inst
    BY <1>1
  <2>2. UNCHANGED <<phaseBar, owedBar>>
    BY <1>1, <2>1 DEF inst_type
  <2>3. QED
    BY <2>2 DEF ProtocolStep
<1>2. CASE ~inst_valid
  <2>1. state' = "FETCH" /\ state_change' = FALSE /\ inst_valid' = ia /\ owedBar = "none"
    BY <1>2
  <2>2. CASE ia
    <3>1. phaseBar \in {"ready", "fetching"}
      BY <1>2, <2>1, <2>2
    <3>2. phaseBar' = "running" /\ owedBar' = Owes(inst_type')
      BY <2>1, <2>2
    <3>3. Protocol!TakeInstruction
      BY <3>1, <3>2, OwesOwed DEF Protocol!TakeInstruction
    <3>4. QED
      BY <3>3 DEF ProtocolStep, Protocol!ProtocolNext
  <2>3. CASE ~ia /\ state_change
    <3>1. phaseBar = "ready" /\ owedBar' = "none" /\ phaseBar' \in {"fetching", "stuck"}
      BY <1>2, <2>1, <2>3
    <3>2. Protocol!OfferFetch
      BY <3>1 DEF Protocol!OfferFetch
    <3>3. QED
      BY <3>2 DEF ProtocolStep, Protocol!ProtocolNext
  <2>4. CASE ~ia /\ ~state_change
    <3>1. ir_pending' = ir_pending
      BY <2>4
    <3>2. UNCHANGED <<phaseBar, owedBar>>
      BY <1>2, <2>1, <2>4, <3>1
    <3>3. QED
      BY <3>2 DEF ProtocolStep
  <2>5. QED
    BY <2>2, <2>3, <2>4
<1>3. QED
  BY <1>1, <1>2

LEMMA ReadRefines ==
  ASSUME NEW ia \in BOOLEAN, NEW ra \in BOOLEAN, NEW wa \in BOOLEAN,
         NEW irr \in BOOLEAN, NEW drr \in BOOLEAN, NEW dwr \in BOOLEAN,
         StepFacts(ia, ra, wa, irr, drr, dwr), state = "MEM", inst_type = "LOAD"
  PROVE  ProtocolStep
<1>0. ~ia /\ ~write_valid
  <2>1. ControlsTyped /\ PhaseInv /\ SlaveStep(ia, ra, wa, irr, drr, dwr)
    BY DEF StepFacts, BusInv
  <2>2. ~inst_fetch /\ IrBusy = 0 /\ DwBusy = 0
    BY <2>1 DEF PhaseInv, inst_fetch
  <2>3. QED
    BY <2>1, <2>2 DEF ControlsTyped, IrBusy, DwBusy, Count, SlaveStep, Channel
<1> USE DEF StepFacts, PhaseTable, BusInv, PhaseInv, ControlsTyped, DrBusy, DwBusy, IrBusy,
            Count, SlaveStep, Channel, ControlStep, state_next, data_valid, load_data,
            inst_fetch
<1>1. inst_type' = "LOAD" /\ ~write_valid /\ ~ia
  BY <1>0 DEF inst_type
<1>2. CASE read_valid
  <2>1. state' = "COMMIT"
    BY <1>2
  <2>2. UNCHANGED <<phaseBar, owedBar>>
    BY <1>2, <2>1
  <2>3. QED
    BY <2>2 DEF ProtocolStep
<1>3. CASE ~read_valid
  <2>1. state' = "MEM" /\ state_change' = FALSE /\ owedBar = "read"
    BY <1>1, <1>3
  <2>2. CASE ra
    <3>1. phaseBar \in {"running", "reading"}
      BY <1>3, <2>2
    <3>2. phaseBar' = "running" /\ owedBar' = "none"
      BY <1>1, <2>1, <2>2
    <3>3. Protocol!TakeData
      BY <2>1, <3>1, <3>2 DEF Protocol!TakeData
    <3>4. QED
      BY <3>3 DEF ProtocolStep, Protocol!ProtocolNext
  <2>3. CASE ~ra /\ (state_change \/ dr_addr_valid)
    <3>1. phaseBar = "running"
      BY <2>3
    <3>2. owedBar' = "read" /\ phaseBar' \in {"running", "reading", "stuck"}
      BY <1>1, <2>1, <2>3
    <3>3. UNCHANGED <<phaseBar, owedBar>> \/ Protocol!OfferRead
      BY <2>1, <3>1, <3>2 DEF Protocol!OfferRead
    <3>4. QED
      BY <3>3 DEF ProtocolStep, Protocol!ProtocolNext
  <2>4. CASE ~ra /\ ~state_change /\ ~dr_addr_valid
    <3>1. dr_pending' = dr_pending /\ dr_addr_valid' = FALSE /\ read_valid' = FALSE
      BY <2>4
    <3>2. UNCHANGED <<phaseBar, owedBar>>
      BY <1>1, <1>3, <2>1, <2>4, <3>1
    <3>3. QED
      BY <3>2 DEF ProtocolStep
  <2>5. QED
    BY <2>2, <2>3, <2>4
<1>4. QED
  BY <1>2, <1>3

LEMMA WriteRefines ==
  ASSUME NEW ia \in BOOLEAN, NEW ra \in BOOLEAN, NEW wa \in BOOLEAN,
         NEW irr \in BOOLEAN, NEW drr \in BOOLEAN, NEW dwr \in BOOLEAN,
         StepFacts(ia, ra, wa, irr, drr, dwr), state = "MEM", inst_type = "STORE"
  PROVE  ProtocolStep
<1>0. ~ia /\ ~read_valid
  <2>1. ControlsTyped /\ PhaseInv /\ SlaveStep(ia, ra, wa, irr, drr, dwr)
    BY DEF StepFacts, BusInv
  <2>2. ~inst_fetch /\ IrBusy = 0 /\ DrBusy = 0
    BY <2>1 DEF PhaseInv, inst_fetch
  <2>3. QED
    BY <2>1, <2>2 DEF ControlsTyped, IrBusy, DrBusy, Count, SlaveStep, Channel
<1> USE DEF StepFacts, PhaseTable, BusInv, PhaseInv, ControlsTyped, DrBusy, DwBusy, IrBusy,
            Count, SlaveStep, Channel, ControlStep, state_next, data_valid, store_data,
            inst_fetch
<1>1. inst_type' = "STORE" /\ ~read_valid /\ ~ia
  BY <1>0 DEF inst_type
<1>2. CASE write_valid
  <2>1. state' = "COMMIT"
    BY <1>2
  <2>2. UNCHANGED <<phaseBar, owedBar>>
    BY <1>2, <2>1
  <2>3. QED
    BY <2>2 DEF ProtocolStep
<1>3. CASE ~write_valid
  <2>1. state' = "MEM" /\ state_change' = FALSE /\ owedBar = "write"
    BY <1>1, <1>3
  <2>2. CASE wa
    <3>1. phaseBar \in {"running", "writing"}
      BY <1>3, <2>2
    <3>2. dw_pending' = 0 /\ dw_req_valid' = FALSE
      BY <2>2
    <3>3. CASE write_valid'
      <4>1. phaseBar' = "running" /\ owedBar' = "none"
        BY <1>1, <2>1, <3>3
      <4>2. Protocol!WriteDone
        BY <2>1, <3>1, <4>1 DEF Protocol!WriteDone
      <4>3. QED
        BY <4>2 DEF ProtocolStep, Protocol!ProtocolNext
    <3>4. CASE ~write_valid'
      <4>1. phaseBar' = "stuck" /\ owedBar' = "write"
        BY <1>1, <2>1, <3>2, <3>4
      <4>2. Protocol!WriteFailed
        BY <2>1, <3>1, <4>1 DEF Protocol!WriteFailed
      <4>3. QED
        BY <4>2 DEF ProtocolStep, Protocol!ProtocolNext
    <3>5. QED
      BY <3>3, <3>4
  <2>3. CASE ~wa /\ (state_change \/ dw_req_valid)
    <3>1. phaseBar = "running"
      BY <2>3
    <3>2. owedBar' = "write" /\ phaseBar' \in {"running", "writing", "stuck"}
      BY <1>1, <2>1, <2>3
    <3>3. UNCHANGED <<phaseBar, owedBar>> \/ Protocol!OfferWrite
      BY <2>1, <3>1, <3>2 DEF Protocol!OfferWrite
    <3>4. QED
      BY <3>3 DEF ProtocolStep, Protocol!ProtocolNext
  <2>4. CASE ~wa /\ ~state_change /\ ~dw_req_valid
    <3>1. dw_pending' = dw_pending /\ dw_req_valid' = FALSE /\ write_valid' = FALSE
      BY <2>4
    <3>2. UNCHANGED <<phaseBar, owedBar>>
      BY <1>1, <1>3, <2>1, <2>4, <3>1
    <3>3. QED
      BY <3>2 DEF ProtocolStep
  <2>5. QED
    BY <2>2, <2>3, <2>4
<1>4. QED
  BY <1>2, <1>3

\* Out of reset every step is a step of the protocol.
LEMMA RunningProtocol ==
  ASSUME NEW ia \in BOOLEAN, NEW ra \in BOOLEAN, NEW wa \in BOOLEAN,
         NEW irr \in BOOLEAN, NEW drr \in BOOLEAN, NEW dwr \in BOOLEAN,
         StepFacts(ia, ra, wa, irr, drr, dwr)
  PROVE  ProtocolStep
<1>0. /\ BusInv /\ SlaveStep(ia, ra, wa, irr, drr, dwr)
      /\ ControlStep(ia, ra, wa, drr, dwr)
  BY DEF StepFacts
<1>1. PhaseTable /\ PhaseTable'
  BY DEF StepFacts
<1>2. CASE state = "FETCH"
  BY <1>2, FetchRefines
<1>3. CASE state = "MEM"
  BY <1>3, ReadRefines, WriteRefines DEF StepFacts, BusInv, PhaseInv, Memory
<1>4. CASE state = "RESET"
  <2>1. state' = "FETCH" /\ state_change' = TRUE
    BY <1>0, <1>4 DEF ControlStep, state_next
  <2>2. QED
    BY <1>1, <1>4, <2>1 DEF PhaseTable, ProtocolStep
<1>5. CASE state = "COMMIT"
  <2>1. state' = "FETCH" /\ state_change' = TRUE
    BY <1>0, <1>5 DEF ControlStep, state_next
  <2>2. phaseBar = "running" /\ owedBar = "none"
    BY <1>1, <1>5 DEF PhaseTable
  <2>3. phaseBar' = "ready" /\ owedBar' = "none"
    BY <1>1, <2>1 DEF PhaseTable
  <2>4. Protocol!Retire
    BY <2>2, <2>3 DEF Protocol!Retire
  <2>5. QED
    BY <2>4 DEF ProtocolStep, Protocol!ProtocolNext
<1>6. CASE state \in {"DECODE", "EXEC"}
  <2>1. inst' = inst
    BY <1>0, <1>6 DEF BusInv, PhaseInv, ControlsTyped, IrBusy, Count, inst_fetch,
                    SlaveStep, Channel, ControlStep
  <2>2. phaseBar = "running" /\ owedBar = Owes(inst_type)
    BY <1>1, <1>6 DEF PhaseTable
  <2>3. CASE inst_type \in Immediate /\ state = "DECODE"
    <3>1. state' = "FETCH" /\ state_change' = TRUE
      BY <1>0, <2>3 DEF ControlStep, state_next
    <3>2. owedBar = "none"
      BY <2>2, <2>3 DEF Owes, Immediate
    <3>3. phaseBar' = "ready" /\ owedBar' = "none"
      BY <1>1, <3>1 DEF PhaseTable
    <3>4. Protocol!Retire
      BY <2>2, <3>2, <3>3 DEF Protocol!Retire
    <3>5. QED
      BY <3>4 DEF ProtocolStep, Protocol!ProtocolNext
  <2>4. CASE inst_type \notin Immediate /\ state = "DECODE"
    <3>1. state' = "EXEC" /\ inst_type' = inst_type
      BY <1>0, <2>1, <2>4 DEF ControlStep, state_next, inst_type
    <3>2. phaseBar' = "running" /\ owedBar' = Owes(inst_type)
      BY <1>1, <3>1 DEF PhaseTable
    <3>3. QED
      BY <2>2, <3>2 DEF ProtocolStep
  <2>5. CASE inst_type \in Memory /\ state = "EXEC"
    <3>1. state' = "MEM" /\ state_change' = TRUE /\ inst_type' = inst_type
      BY <1>0, <2>1, <2>5 DEF ControlStep, state_next, inst_type
    <3>2. phaseBar' = "running" /\ owedBar' = Owes(inst_type)
      BY <1>1, <2>5, <3>1 DEF PhaseTable, Memory, Owes
    <3>3. QED
      BY <2>2, <3>2 DEF ProtocolStep
  <2>6. CASE inst_type \notin Memory /\ state = "EXEC"
    <3>1. state' = "COMMIT"
      BY <1>0, <2>6 DEF ControlStep, state_next
    <3>2. owedBar = "none"
      BY <2>2, <2>6 DEF Owes, Memory
    <3>3. phaseBar' = "running" /\ owedBar' = "none"
      BY <1>1, <3>1 DEF PhaseTable
    <3>4. QED
      BY <2>2, <3>2, <3>3 DEF ProtocolStep
  <2>7. QED
    BY <1>6, <2>3, <2>4, <2>5, <2>6
<1>7. QED
  BY <1>2, <1>3, <1>4, <1>5, <1>6 DEF StepFacts, BusInv, ControlsTyped, State

LEMMA StepRestarts ==
  ASSUME BusInv, BusInv', [Next]_vars
  PROVE  [IF rst THEN Protocol!ProtocolNext ELSE Protocol!Restart]_<<phaseBar, owedBar>>
<1>1. CASE UNCHANGED vars
  <2>1. /\ UNCHANGED <<state, state_change, inst, inst_valid, dr_addr_valid,
                        read_valid, dw_req_valid, write_valid>>
        /\ UNCHANGED <<ir_pending, dr_pending, dw_pending>>
    BY <1>1 DEF vars, coreVars, slaveVars, controlVars, irVars, drVars, dwVars
  <2>2. QED
    BY <2>1 DEF phaseBar, owedBar, inst_fetch, data_valid, inst_type
<1>2. CASE InReset
  <2>1. ~rst /\ state' = "RESET"
    BY <1>2, CoreResetControl DEF InReset, ResetStep
  <2>2. phaseBar' = "ready" /\ owedBar' = "none"
    BY <2>1, PhaseTableNext DEF PhaseTable
  <2>3. QED
    BY <2>1, <2>2 DEF Protocol!Restart
<1>3. CASE Runs
  <2>1. PhaseTable /\ PhaseTable'
    BY PhaseTableHolds, PhaseTableNext
  <2>2. rst /\ ProtocolStep
    BY <1>3, <2>1, RunsFacts, RunningProtocol DEF StepFacts
  <2>3. QED
    BY <2>2 DEF ProtocolStep
<1>4. QED
  BY <1>1, <1>2, <1>3 DEF Next

\* Whatever the program and the slave, the core keeps to the bus protocol:
\* each instruction is fetched once, completes the one data access it owes and
\* retires only then, and a lost request or a failed write stops it.  A reset
\* in the middle of an instruction or a transaction leaves it where power-up
\* does.
THEOREM CoreRestartsProtocol == Spec => RestartsProtocol
<1>1. QED
  BY InitProtocol, BusInvariant, StepRestarts, PTL DEF Spec, RestartsProtocol

----------------------------------------------------------------------------
(* Types.                                                                  *)

LEMMA AluWord ==
  ASSUME AluTypeOK
  PROVE  alu_dout \in Word
<1>1. in1 \in Word /\ in2 \in Word
  BY DEF AluTypeOK
<1>2. Wrap(in1 + in2) \in Word /\ Wrap(in1 - in2) \in Word
  <2>1. in1 + in2 \in Int /\ in1 - in2 \in Int
    BY <1>1, Widths DEF Word
  <2>2. QED
    BY <2>1, WrapWord
<1>3. shamt \in 0..(WordBits - 1)
  BY <1>1, Widths DEF shamt, Word
<1>4. BoolWord(Comp.LT) \in Word /\ BoolWord(Comp.LTU) \in Word
  BY Widths DEF BoolWord, Word
<1>5. QED
  BY <1>1, <1>2, <1>3, <1>4, BitwiseWord, ShiftWord, ZeroWord DEF alu_dout

\* The wires that the registers are loaded from.
WiresTyped ==
  /\ alu_dout \in Word /\ din1 \in Word /\ din2 \in Word
  /\ rd_din \in Word /\ pc_next \in Word
  /\ write_data \in Word /\ write_strobe \subseteq Lanes
  /\ idec.rd \in RegAddr /\ idec.rs1 \in RegAddr /\ idec.rs2 \in RegAddr
  /\ alu_op(inst_type, idec.funct) \in AluOp

LEMMA CoreWires == CoreTypeOK => WiresTyped
<1> SUFFICES ASSUME CoreTypeOK PROVE WiresTyped
  OBVIOUS
<1>1. /\ idec.funct \in Funct /\ idec.imm \in Word
      /\ idec.rd \in RegAddr /\ idec.rs1 \in RegAddr /\ idec.rs2 \in RegAddr
  BY DecodeTyped DEF idec
<1>2. alu_dout \in Word
  BY AluWord DEF CoreTypeOK
<1>3. rs1_value \in Word /\ rs2_value \in Word
  BY ZeroWord DEF CoreTypeOK, RegFileTypeOK, rs1_value, rs2_value, rs1_dout, rs2_dout
<1>4. Wrap(4) \in Word /\ pc \in Word
  BY WrapWord DEF CoreTypeOK
<1>5. din1 \in Word /\ din2 \in Word
  BY <1>1, <1>3, <1>4 DEF din1, din2
<1>6. ext_read_data \in Word
  BY LoadDataWord DEF CoreTypeOK, BusTypeOK, ext_read_data
<1>7. rd_din \in Word
  BY <1>1, <1>2, <1>6, ZeroWord DEF rd_din
<1>8. pc_next \in Word
  <2>1. \A a, b \in Word : Wrap(a + b) \in Word
    <3>1. \A a, b \in Word : a + b \in Int
      BY Widths DEF Word
    <3>2. QED
      BY <3>1, WrapWord
  <2>2. QED
    BY <1>1, <1>3, <1>4, <2>1, ZeroWord DEF pc_next
<1>9. write_data \in Word /\ write_strobe \subseteq Lanes
  <2>1. write_offset \in Lanes
    BY <1>2, AlignDownWord DEF write_offset
  <2>2. QED
    BY <1>3, <2>1, StoreDataWord, StoreStrobeLanes DEF write_data, write_strobe
<1>10. alu_op(inst_type, idec.funct) \in AluOp
  BY DEF alu_op, get_int_alu_op, AluOp
<1>11. QED
  BY <1>1, <1>2, <1>5, <1>7, <1>8, <1>9, <1>10 DEF WiresTyped

\* What every edge does with the registers that are not reset.
LEMMA DatapathTyped ==
  ASSUME CoreTypeOK,
         RegFileEdge(rd_en(inst_type), idec.rd, rd_din,
                     rs1_en(inst_type), idec.rs1, rs2_en(inst_type), idec.rs2),
         AluEdge(alu_load(inst_type), din1, din2, alu_op(inst_type, idec.funct)),
         read_offset' = IF load_data(inst_type) THEN Offset(alu_dout) ELSE read_offset
  PROVE  AluTypeOK' /\ RegFileTypeOK' /\ read_offset' \in Lanes
<1>1. WiresTyped
  BY CoreWires
<1>2. AluTypeOK'
  BY <1>1 DEF WiresTyped, CoreTypeOK, AluTypeOK, AluEdge, aluVars
<1>3. RegFileTypeOK'
  BY <1>1 DEF WiresTyped, CoreTypeOK, RegFileTypeOK, RegFileEdge, NextAddr
<1>4. read_offset' \in Lanes
  BY <1>1, AlignDownWord DEF WiresTyped, CoreTypeOK
<1>5. QED
  BY <1>2, <1>3, <1>4

LEMMA CoreEdgeTyped ==
  ASSUME CoreTypeOK, rst' \in BOOLEAN,
         NEW ia \in BOOLEAN, NEW i \in Word, NEW drr \in BOOLEAN,
         NEW ra \in BOOLEAN, NEW d \in Word, NEW dwr \in BOOLEAN,
         NEW wa \in BOOLEAN, NEW w \in Int, CoreEdge(ia, i, drr, ra, d, dwr, wa, w)
  PROVE  CoreTypeOK'
<1>1. WiresTyped
  BY CoreWires
<1>2. AluTypeOK' /\ RegFileTypeOK' /\ read_offset' \in Lanes
  BY DatapathTyped DEF CoreEdge
<1>3. ControlTypeOK'
  BY DEF CoreEdge, ControlEdge, ControlTypeOK, CoreTypeOK, State, state_next
<1>4. AlignDown(alu_dout) \in Word
  BY <1>1, AlignDownWord DEF WiresTyped
<1>5. BusTypeOK'
  <2>1. inst' \in Word /\ inst_valid' \in BOOLEAN
    BY DEF CoreEdge, ReadInstruction, CoreTypeOK, BusTypeOK
  <2>2. /\ dr_addr' \in Word /\ dr_addr_valid' \in BOOLEAN
        /\ read_data' \in Word /\ read_valid' \in BOOLEAN
    BY <1>4 DEF CoreEdge, ReadData, dr_req_fire, load_data, CoreTypeOK, BusTypeOK
  <2>3. /\ dw_addr' \in Word /\ dw_data' \in Word /\ dw_strobe' \subseteq Lanes
        /\ dw_req_valid' \in BOOLEAN /\ write_valid' \in BOOLEAN
    BY <1>1, <1>4 DEF WiresTyped, CoreEdge, WriteData, dw_req_fire, store_data,
                      CoreTypeOK, BusTypeOK
  <2>4. QED
    BY <2>1, <2>2, <2>3 DEF BusTypeOK
<1>6. pc' \in Word
  BY <1>1 DEF WiresTyped, CoreEdge
<1>7. QED
  BY <1>2, <1>3, <1>5, <1>6 DEF CoreTypeOK

LEMMA CoreResetTyped ==
  ASSUME CoreTypeOK, rst' \in BOOLEAN, NEW i, CoreReset(FALSE, i)
  PROVE  CoreTypeOK'
<1>1. AluTypeOK' /\ RegFileTypeOK' /\ read_offset' \in Lanes
  BY DatapathTyped DEF CoreReset
<1>2. ControlTypeOK'
  BY DEF CoreReset, ControlReset, ControlTypeOK, State
<1>3. BusTypeOK'
  BY ZeroWord DEF CoreReset, BusReset, CoreTypeOK, BusTypeOK
<1>4. pc' \in Word
  BY Copperv2Assumption DEF CoreReset
<1>5. QED
  BY <1>1, <1>2, <1>3, <1>4 DEF CoreTypeOK

LEMMA CoreInitTyped == CoreInit => CoreTypeOK
<1> SUFFICES ASSUME CoreInit PROVE CoreTypeOK
  OBVIOUS
<1>1. AluTypeOK /\ RegFileTypeOK
  BY Copperv2Assumption DEF CoreInit, AluTypeOK, RegFileTypeOK
<1>2. BusTypeOK
  BY Copperv2Assumption, ZeroWord DEF CoreInit, BusTypeOK
<1>3. read_offset \in Lanes
  BY Copperv2Assumption, AlignDownWord DEF CoreInit
<1>4. QED
  BY <1>1, <1>2, <1>3, Copperv2Assumption DEF CoreInit, CoreTypeOK, ControlTypeOK, State

LEMMA StepTypeOK == TypeOK /\ BusInv' /\ [Next]_vars => TypeOK'
<1> SUFFICES ASSUME TypeOK, BusInv', [Next]_vars PROVE TypeOK'
  OBVIOUS
<1>1. SlaveTypeOK'
  BY DEF BusInv, ControlsTyped, SlaveTypeOK
<1>2. CASE InReset /\ rst' \in BOOLEAN
  BY <1>1, <1>2, CoreResetTyped DEF InReset, TypeOK
<1>3. CASE Runs /\ rst' \in BOOLEAN
  <2>1. PICK ia \in BOOLEAN, ra \in BOOLEAN, wa \in BOOLEAN : ClockEdge(ia, ra, wa)
    BY <1>3 DEF Runs
  <2>2. PICK drr \in BOOLEAN, dwr \in BOOLEAN, i \in Payload(ia, InstWords),
             d \in Payload(ra, DataWords), w \in Payload(wa, RespValues) :
          CoreEdge(ia, i, drr, ra, d, dwr, wa, w)
    BY <2>1, SlaveAssumption DEF ClockEdge, Ready
  <2>3. i \in Word /\ d \in Word /\ w \in Int
    BY <2>2, ZeroWord, SlaveAssumption DEF Payload
  <2>4. CoreTypeOK /\ rst' \in BOOLEAN
    BY <1>3 DEF TypeOK
  <2>5. CoreTypeOK'
    BY ONLY <2>1, <2>2, <2>3, <2>4, CoreEdgeTyped
  <2>6. QED
    BY <1>1, <2>5 DEF TypeOK
<1>4. CASE UNCHANGED vars
  BY <1>4 DEF vars, coreVars, slaveVars, aluVars, regVars, controlVars, irVars, drVars,
              dwVars, TypeOK, CoreTypeOK, SlaveTypeOK, AluTypeOK, RegFileTypeOK,
              ControlTypeOK, BusTypeOK
<1>5. QED
  BY <1>2, <1>3, <1>4 DEF Next

\* Every register holds a value of its width, whatever is computed: no
\* immediate, sum, shift, lane or address leaves the word.
THEOREM TypeOKHolds == Spec => []TypeOK
<1>1. Init => TypeOK
  BY CoreInitTyped DEF Init, SlaveInit, TypeOK, SlaveTypeOK
<1>2. QED
  BY <1>1, BusInvariant, StepTypeOK, PTL DEF Spec

============================================================================
