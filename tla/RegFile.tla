------------------------------- MODULE RegFile -----------------------------
(***************************************************************************)
(* The register file (regfile.scala): a synchronous-read memory with one   *)
(* write port and two read ports.  A read port registers its address at    *)
(* the edge where it is enabled (rs1_en and rs1 # 0) and reads the memory  *)
(* through that register from then on, which is how SyncReadMem is built:  *)
(* the port holds its address, and sees later writes, until it is enabled  *)
(* again.  The memory and the address registers are not reset, and         *)
(* register 0 is written like any other; a port whose present address is 0 *)
(* reads 0.                                                                *)
(***************************************************************************)
EXTENDS Words, CoppervTypes

VARIABLES mem, rs1_addr, rs2_addr

regVars == <<mem, rs1_addr, rs2_addr>>

RegFileTypeOK == /\ mem \in [RegAddr -> Word]
                 /\ rs1_addr \in RegAddr
                 /\ rs2_addr \in RegAddr

rs1_dout(rs1) == IF rs1 # 0 THEN mem[rs1_addr] ELSE 0
rs2_dout(rs2) == IF rs2 # 0 THEN mem[rs2_addr] ELSE 0

\* Mutant: the port is cleared when it is not enabled.
NextAddrCleared(addr, en, rs) == IF en THEN rs ELSE 0

\* A read port's address register after the edge.
NextAddr(addr, en, rs) == IF en /\ rs # 0 THEN rs ELSE addr

\* A clock edge of the register file.
RegFileEdge(rd_en, rd, rd_din, rs1_en, rs1, rs2_en, rs2) ==
  /\ mem' = IF rd_en THEN [mem EXCEPT ![rd] = rd_din] ELSE mem
  /\ rs1_addr' = NextAddr(rs1_addr, rs1_en, rs1)
  /\ rs2_addr' = NextAddr(rs2_addr, rs2_en, rs2)

============================================================================
