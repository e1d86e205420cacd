----------------------------- MODULE CoppervBus ----------------------------
(***************************************************************************)
(* The core's side of its three bus channels (CoppervBusSource):           *)
(*   ir  instruction read   ir.addr out (ready/valid), ir.data in          *)
(*   dr  data read          dr.addr out,               dr.data in          *)
(*   dw  data write         dw.req out,                dw.resp in          *)
(* Every response channel is always ready, so a response fires in the      *)
(* cycle where the slave drives it valid, whether the core waits or not.   *)
(* The older core, copperv.v, has the same registers.                      *)
(***************************************************************************)
EXTENDS Words

VARIABLES
  rst,            \* the reset input, active low: FALSE while in reset
  inst, inst_valid,                             \* ir
  dr_addr, dr_addr_valid, read_data, read_valid,\* dr
  dw_addr, dw_data, dw_strobe, dw_req_valid,    \* dw
  write_valid

irVars == <<inst, inst_valid>>
drVars == <<dr_addr, dr_addr_valid, read_data, read_valid>>
dwVars == <<dw_addr, dw_data, dw_strobe, dw_req_valid, write_valid>>

BusTypeOK == /\ inst \in Word /\ inst_valid \in BOOLEAN
             /\ dr_addr \in Word /\ dr_addr_valid \in BOOLEAN
             /\ read_data \in Word /\ read_valid \in BOOLEAN
             /\ dw_addr \in Word /\ dw_data \in Word
             /\ dw_strobe \subseteq Lanes
             /\ dw_req_valid \in BOOLEAN /\ write_valid \in BOOLEAN

\* The response code of a write that succeeded.
RespOK == 1

----------------------------------------------------------------------------
\* read_instruction: ir.addr is combinational (valid = inst_fetch), and the
\* address is only driven while the slave is ready.
ir_addr(addr, ir_addr_ready) == IF ir_addr_ready THEN addr ELSE 0

\* Mutant: inst is loaded without a response.
ReadInstructionUngated(ir_data_valid, ir_data) ==
  /\ inst_valid' = ir_data_valid
  /\ inst' = ir_data

ReadInstruction(ir_data_valid, ir_data) ==
  /\ inst_valid' = ir_data_valid
  /\ inst' = IF ir_data_valid THEN ir_data ELSE inst

\* write_data: the request is registered, so it is presented one cycle after
\* the pulse and for one cycle only.  The low address bits are dropped.
WriteData(addr, data, strobe, write_data_valid, dw_resp_valid, dw_resp) ==
  /\ dw_req_valid' = write_data_valid
  /\ dw_addr' = IF write_data_valid THEN AlignDown(addr) ELSE dw_addr
  /\ dw_data' = IF write_data_valid THEN data ELSE dw_data
  /\ dw_strobe' = IF write_data_valid THEN strobe ELSE dw_strobe
  /\ write_valid' = (dw_resp_valid /\ dw_resp = RespOK)

\* Mutant: read_valid is not cleared in the cycle after the response.
ReadDataSticky(addr, addr_valid, dr_data_valid, dr_data) ==
  /\ dr_addr_valid' = addr_valid
  /\ dr_addr' = IF addr_valid THEN AlignDown(addr) ELSE dr_addr
  /\ read_valid' = (dr_data_valid \/ read_valid)
  /\ read_data' = IF dr_data_valid THEN dr_data ELSE read_data

\* read_data: as write_data, and the data of the response is kept.
ReadData(addr, addr_valid, dr_data_valid, dr_data) ==
  /\ dr_addr_valid' = addr_valid
  /\ dr_addr' = IF addr_valid THEN AlignDown(addr) ELSE dr_addr
  /\ read_valid' = dr_data_valid
  /\ read_data' = IF dr_data_valid THEN dr_data ELSE read_data

\* Mutant: the registers of the read channel have no reset value.
BusResetReads(ir_data_valid, ir_data) ==
  /\ inst' = IF ir_data_valid THEN ir_data ELSE inst
  /\ inst_valid' = FALSE
  /\ UNCHANGED <<dr_addr, dr_addr_valid, read_data, read_valid>>
  /\ dw_addr' = 0 /\ dw_data' = 0 /\ dw_strobe' = {}
  /\ dw_req_valid' = FALSE /\ write_valid' = FALSE

\* Reset: every register of the bus but inst has a reset value.
BusReset(ir_data_valid, ir_data) ==
  /\ inst' = IF ir_data_valid THEN ir_data ELSE inst
  /\ inst_valid' = FALSE
  /\ dr_addr' = 0 /\ dr_addr_valid' = FALSE
  /\ read_data' = 0 /\ read_valid' = FALSE
  /\ dw_addr' = 0 /\ dw_data' = 0 /\ dw_strobe' = {}
  /\ dw_req_valid' = FALSE /\ write_valid' = FALSE

============================================================================
