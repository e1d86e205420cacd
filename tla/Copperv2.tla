------------------------------ MODULE Copperv2 -----------------------------
(***************************************************************************)
(* The Copperv2 core (copperv2.scala): control unit, decoder, register     *)
(* file, arithmetic unit and bus registers around the program counter.     *)
(*                                                                         *)
(* The circuit is synchronous: a step is one rising edge of clk, and every *)
(* register takes its new value from the values before the edge.  The      *)
(* parameters of the two edge actions are the bus signals the slave drives *)
(* in the cycle that the edge ends.                                        *)
(***************************************************************************)
EXTENDS Idecoder, Alu, RegFile, ControlUnit, CoppervBus

CONSTANTS
  PcInit,        \* Copperv2Config.pc_init
  PowerUpWords,  \* what word registers without a reset value may hold at
  PowerUpAddrs,  \* power-up, the register addresses of the read ports,
  PowerUpOps,    \* the arithmetic unit's operation
  PowerUpMems    \* and the contents of the register file

ASSUME Copperv2Assumption == /\ PcInit \in Word
                             /\ PowerUpWords \subseteq Word
                             /\ PowerUpAddrs \subseteq RegAddr
                             /\ PowerUpOps \subseteq AluOp
                             /\ PowerUpMems \subseteq [RegAddr -> Word]

VARIABLES pc, read_offset

coreVars == <<rst, pc, read_offset, aluVars, regVars, controlVars,
              irVars, drVars, dwVars>>

CoreTypeOK == /\ rst \in BOOLEAN
              /\ pc \in Word
              /\ read_offset \in Lanes
              /\ AluTypeOK /\ RegFileTypeOK /\ ControlTypeOK /\ BusTypeOK

----------------------------------------------------------------------------
(* Wires.                                                                  *)

idec       == Decode(inst)
rs1_value  == rs1_dout(idec.rs1)
rs2_value  == rs2_dout(idec.rs2)
inst_type  == inst_type_of(inst)
\* Mutant: the control unit is told about read responses only.
data_valid_read == read_valid

data_valid == write_valid \/ read_valid

\* The lanes and the data of a store, from the low bits of its address.
write_offset == Offset(alu_dout)

write_strobe == StoreStrobe(idec.funct, write_offset)
write_data   == StoreData(idec.funct, write_offset, rs2_value)

\* Mutant: the response is not shifted down to the addressed lane.
ext_read_data_unshifted == LoadData(idec.funct, 0, read_data)

\* The value a load writes back, from the response and the offset kept from
\* the request.
ext_read_data == LoadData(idec.funct, read_offset, read_data)

\* The register write data, the operands and the next pc, as selected.
rd_din == LET sel == rd_din_sel(inst_type)
          IN  CASE sel = "IMM" -> idec.imm
                [] sel = "ALU" -> alu_dout
                [] sel = "MEM" -> ext_read_data
                [] OTHER       -> 0

din1 == IF alu_din1_sel(inst_type) = "PC" THEN pc ELSE rs1_value

din2 == LET sel == alu_din2_sel(inst_type)
        IN  CASE sel = "IMM" -> idec.imm
              [] sel = "RS2" -> rs2_value
              [] OTHER       -> Wrap(4)

\* Mutant: the adders keep their carry.
pc_next_carry == LET sel == pc_next_sel(inst_type, idec.funct, Comp)
                 IN  CASE sel = "INCR"        -> pc + 4
                       [] sel = "ADD_IMM"     -> pc + idec.imm
                       [] sel = "ADD_RS1_IMM" -> rs1_value + idec.imm
                       [] OTHER               -> pc

pc_next == LET sel == pc_next_sel(inst_type, idec.funct, Comp)
           IN  CASE sel = "INCR"        -> Wrap(pc + 4)
                 [] sel = "ADD_IMM"     -> Wrap(pc + idec.imm)
                 [] sel = "ADD_RS1_IMM" -> Wrap(rs1_value + idec.imm)
                 [] OTHER               -> pc

----------------------------------------------------------------------------
(* Clock edges.                                                            *)

\* A data request is registered only if the slave is ready in the cycle of
\* the pulse; otherwise it is dropped.
dw_req_fire(dw_req_ready)  == store_data(inst_type) /\ dw_req_ready
dr_req_fire(dr_addr_ready) == load_data(inst_type) /\ dr_addr_ready

CoreEdge(ir_data_valid, ir_data, dr_addr_ready, dr_data_valid, dr_data, dw_req_ready, dw_resp_valid, dw_resp) ==
  /\ ControlEdge(inst_type, inst_valid, data_valid)
  /\ pc' = pc_next
  /\ RegFileEdge(rd_en(inst_type), idec.rd, rd_din,
                 rs1_en(inst_type), idec.rs1, rs2_en(inst_type), idec.rs2)
  /\ AluEdge(alu_load(inst_type), din1, din2, alu_op(inst_type, idec.funct))
  /\ read_offset' = IF load_data(inst_type) THEN Offset(alu_dout) ELSE read_offset
  /\ ReadInstruction(ir_data_valid, ir_data)
  /\ WriteData(alu_dout, write_data, write_strobe, dw_req_fire(dw_req_ready),
               dw_resp_valid, dw_resp)
  /\ ReadData(alu_dout, dr_req_fire(dr_addr_ready), dr_data_valid, dr_data)

\* An edge in reset, in any state of the control unit.  Reset reaches only the
\* registers that have a reset value; the others take the edge as they do in
\* any other cycle.
CoreReset(ir_data_valid, ir_data) ==
  /\ ControlReset(inst_type, inst_valid, data_valid)
  /\ pc' = PcInit
  /\ BusReset(ir_data_valid, ir_data)
  /\ RegFileEdge(rd_en(inst_type), idec.rd, rd_din,
                 rs1_en(inst_type), idec.rs1, rs2_en(inst_type), idec.rs2)
  /\ AluEdge(alu_load(inst_type), din1, din2, alu_op(inst_type, idec.funct))
  /\ read_offset' = IF load_data(inst_type) THEN Offset(alu_dout) ELSE read_offset

\* After the first edge in reset: the registers with a reset value hold it,
\* the others are as they powered up.
CoreInit ==
  /\ rst = FALSE
  /\ state = "RESET" /\ state_change \in BOOLEAN
  /\ pc = PcInit
  /\ inst \in PowerUpWords /\ inst_valid = FALSE
  /\ dr_addr = 0 /\ dr_addr_valid = FALSE /\ read_data = 0 /\ read_valid = FALSE
  /\ dw_addr = 0 /\ dw_data = 0 /\ dw_strobe = {}
  /\ dw_req_valid = FALSE /\ write_valid = FALSE
  /\ in1 \in PowerUpWords /\ in2 \in PowerUpWords /\ op \in PowerUpOps
  /\ mem \in PowerUpMems
  /\ rs1_addr \in PowerUpAddrs /\ rs2_addr \in PowerUpAddrs
  /\ read_offset \in {Offset(w) : w \in PowerUpWords}

============================================================================
