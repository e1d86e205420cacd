---------------------------- MODULE PathPrograms ---------------------------
(***************************************************************************)
(* Instructions for checking a core on an open bus with four-bit words     *)
(* (one-bit byte lanes), which make the datapath exhaustible beside the    *)
(* control.                                                                *)
(***************************************************************************)
EXTENDS Integers, TLC

Op(opcode, funct3, funct7, rd, rs1, rs2) ==
  [opcode |-> opcode, funct3 |-> funct3, funct7 |-> funct7,
   rd |-> rd, rs1 |-> rs1, rs2 |-> rs2]

\* One instruction of each type, and a second load, on x1.  The values are
\* such that x1 and pc stay multiples of 4: the data varies enough to tell
\* registers, lanes and instructions apart, and no more.
Instructions ==
     1 :> Op(55, 0, 0, 1, 0, 0)    \* lui   x1, 0
  @@ 2 :> Op(19, 4, 0, 1, 1, 8)    \* xori  x1, x1, 8
  @@ 3 :> Op(51, 0, 32, 1, 1, 1)   \* sub   x1, x1, x1
  @@ 4 :> Op(99, 0, 0, 8, 1, 0)    \* beq   x1, x0, 8
  @@ 5 :> Op(35, 0, 0, 3, 0, 1)    \* sb    x1, 3(x0)
  @@ 6 :> Op(111, 0, 0, 1, 0, 8)   \* jal   x1, 8
  @@ 7 :> Op(23, 0, 0, 1, 0, 0)    \* auipc x1, 0
  @@ 8 :> Op(103, 0, 0, 1, 1, 4)   \* jalr  x1, 4(x1)
  @@ 9 :> Op(3, 2, 0, 1, 0, 0)     \* lw    x1, 0(x0)
  @@ 10 :> Op(3, 4, 0, 0, 0, 2)    \* lbu   x0, 2(x0)
  @@ 11 :> Op(15, 0, 0, 0, 0, 0)   \* fence

\* The constant's value names the table, which TLC then evaluates only once.
MCSlice == Instructions

\* One instruction for each path through the control unit's states: a branch,
\* a store, a jump, loads of two offsets, a fence.  In v1 branch and jump have
\* one path, jal another.
MCPathWords   == {4, 5, 8, 9, 10, 11}
MCPathWordsV1 == {5, 6, 8, 10, 11}

============================================================================
