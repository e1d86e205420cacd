------------------------------ MODULE Copperv1 -----------------------------
(***************************************************************************)
(* The v1 core (rtl_v1/copperv.v with register_file.v and execution.v).    *)
(*                                                                         *)
(* It has the decoder, the bus registers and the lanes of Copperv2 around  *)
(* a shorter control unit.  Its arithmetic unit has no registers, its      *)
(* register file is cleared by reset, never writes x0 and reads into       *)
(* output registers, so what an instruction reads is what the registers    *)
(* hold at its DECODE.                                                     *)
(***************************************************************************)
EXTENDS Idecoder, ControlUnitV1, CoppervBus

CONSTANTS
  PcInit,         \* `PC_INIT
  PowerUpWords,   \* what registers without a reset value may hold
  PowerUpMems,    \* and what the register file may hold at power-up
  UndefinedWord   \* the word that the X of ALU_OP_NOP turns out to be

ASSUME Copperv1Assumption == /\ PcInit \in Word
                             /\ PowerUpWords \subseteq Word
                             /\ PowerUpMems \subseteq [RegAddr -> Word]
                             /\ UndefinedWord \in Word

VARIABLES pc, read_offset, mem, rs1_dout, rs2_dout

coreVars == <<rst, pc, read_offset, mem, rs1_dout, rs2_dout, controlVars,
              irVars, drVars, dwVars>>

CoreTypeOK == /\ rst \in BOOLEAN
              /\ pc \in Word
              /\ read_offset \in Lanes
              /\ mem \in [RegAddr -> Word]
              /\ rs1_dout \in Word /\ rs2_dout \in Word
              /\ ControlTypeOK /\ BusTypeOK

----------------------------------------------------------------------------
(* Wires.                                                                  *)

idec       == Decode(inst)
inst_type  == inst_type_of(inst)

\* Mutant: the control unit is told about read responses only.
data_valid_read == read_valid

data_valid == write_valid \/ read_valid

din1 == LET sel == alu_din1_sel(inst_type)
        IN  CASE sel = "RS1" -> rs1_dout
              [] sel = "PC"  -> pc
              [] OTHER       -> 0

din2 == LET sel == alu_din2_sel(inst_type)
        IN  CASE sel = "RS2"     -> rs2_dout
              [] sel = "IMM"     -> idec.imm
              [] sel = "CONST_4" -> Wrap(4)
              [] OTHER           -> 0

\* The arithmetic unit performs the operations of Copperv2's on its inputs
\* instead of on registers.
Unit == INSTANCE Alu WITH
  in1 <- din1, in2 <- din2, op <- alu_op(inst_type, idec.funct)

alu_dout == IF alu_op(inst_type, idec.funct) = "NOP" THEN UndefinedWord
                                                     ELSE Unit!alu_dout

write_offset == Offset(alu_dout)
write_strobe == StoreStrobe(idec.funct, write_offset)
write_data   == StoreData(idec.funct, write_offset, rs2_dout)

ext_read_data == LoadData(idec.funct, read_offset, read_data)

rd_din == LET sel == rd_din_sel(inst_type)
          IN  CASE sel = "IMM" -> idec.imm
                [] sel = "ALU" -> alu_dout
                [] sel = "MEM" -> ext_read_data

\* Mutant: the adders keep their carry.
pc_next_carry ==
  LET sel == pc_next_sel(inst_type, idec.funct, Unit!Comp, data_valid)
  IN  CASE sel = "STALL"       -> pc
        [] sel = "INCR"        -> pc + 4
        [] sel = "ADD_IMM"     -> pc + idec.imm
        [] sel = "ADD_RS1_IMM" -> rs1_dout + idec.imm

pc_next ==
  LET sel == pc_next_sel(inst_type, idec.funct, Unit!Comp, data_valid)
  IN  CASE sel = "STALL"       -> pc
        [] sel = "INCR"        -> Wrap(pc + 4)
        [] sel = "ADD_IMM"     -> Wrap(pc + idec.imm)
        [] sel = "ADD_RS1_IMM" -> Wrap(rs1_dout + idec.imm)

----------------------------------------------------------------------------
(* The register file.                                                      *)

Writes == rd_en(inst_type, data_valid) /\ idec.rd # 0

\* Mutant: a write to x0 is not suppressed.
WrittenX0(m) == IF rd_en(inst_type, data_valid) THEN [m EXCEPT ![idec.rd] = rd_din] ELSE m

Written(m) == IF Writes THEN [m EXCEPT ![idec.rd] = rd_din] ELSE m

\* A write goes before the reads, which then do not happen.  The write is not
\* in the else branch of the reset.
RegFileEdge ==
  /\ mem' = Written(IF rst THEN mem ELSE [r \in RegAddr |-> 0])
  /\ rs1_dout' = IF ~Writes /\ rs1_en(inst_type) THEN mem[idec.rs1] ELSE rs1_dout
  /\ rs2_dout' = IF ~Writes /\ rs1_en(inst_type) /\ rs2_en(inst_type)
                   THEN mem[idec.rs2] ELSE rs2_dout

----------------------------------------------------------------------------
(* Clock edges.                                                            *)

dw_data_addr_tran(dw_data_addr_ready) == store_data(inst_type) /\ dw_data_addr_ready
dr_addr_tran(dr_addr_ready) == load_data(inst_type) /\ dr_addr_ready

\* What an edge does whether in reset or not.
EveryEdge ==
  /\ ControlEdge(rst, inst_type, inst_valid, data_valid)
  /\ RegFileEdge
  /\ read_offset' = IF load_data(inst_type) THEN Offset(alu_dout) ELSE read_offset

CoreEdge(ir_data_valid, ir_data, dr_addr_ready, dr_data_valid, dr_data, dw_data_addr_ready, dw_resp_valid, dw_resp) ==
  /\ EveryEdge
  /\ pc' = pc_next
  /\ ReadInstruction(ir_data_valid, ir_data)
  /\ WriteData(alu_dout, write_data, write_strobe,
               dw_data_addr_tran(dw_data_addr_ready), dw_resp_valid, dw_resp)
  /\ ReadData(alu_dout, dr_addr_tran(dr_addr_ready), dr_data_valid, dr_data)

\* An edge in reset.
CoreReset ==
  /\ EveryEdge
  /\ pc' = PcInit
  /\ BusReset(TRUE, 0)

\* After the first edge in reset.  The register file may hold anything: the
\* state before that edge may have been one that writes.
CoreInit ==
  /\ rst = FALSE
  /\ state = "RESET" /\ state_change \in BOOLEAN
  /\ pc = PcInit
  /\ inst = 0 /\ inst_valid = FALSE
  /\ dr_addr = 0 /\ dr_addr_valid = FALSE /\ read_data = 0 /\ read_valid = FALSE
  /\ dw_addr = 0 /\ dw_data = 0 /\ dw_strobe = {}
  /\ dw_req_valid = FALSE /\ write_valid = FALSE
  /\ mem \in PowerUpMems
  /\ rs1_dout \in PowerUpWords /\ rs2_dout \in PowerUpWords
  /\ read_offset \in {Offset(w) : w \in PowerUpWords}

============================================================================
