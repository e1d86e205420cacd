------------------------------ MODULE Assembler ----------------------------
(***************************************************************************)
(* The RV32I instructions and their machine encoding, as the toolchain     *)
(* that builds the test programs produces it (riscv64-unknown-elf-gcc      *)
(* -march=rv32i, riscv_utils.py), and the memory that programs are in.     *)
(*                                                                         *)
(* An assembly instruction is a record of its mnemonic and its operands;   *)
(* imm is a signed integer: the byte offset of a branch or a jump, the     *)
(* upper twenty bits of lui and auipc, the shift amount of a shift.        *)
(***************************************************************************)
EXTENDS Words

\* mnemonic |-> opcode, funct3, funct7, format
Encoding ==
  [ lui   |-> << 55, 0, 0, "U">>,  auipc |-> << 23, 0, 0, "U">>,
    jal   |-> <<111, 0, 0, "J">>,  jalr  |-> <<103, 0, 0, "I">>,
    beq   |-> << 99, 0, 0, "B">>,  bne   |-> << 99, 1, 0, "B">>,
    blt   |-> << 99, 4, 0, "B">>,  bge   |-> << 99, 5, 0, "B">>,
    bltu  |-> << 99, 6, 0, "B">>,  bgeu  |-> << 99, 7, 0, "B">>,
    lb    |-> <<  3, 0, 0, "I">>,  lh    |-> <<  3, 1, 0, "I">>,
    lw    |-> <<  3, 2, 0, "I">>,  lbu   |-> <<  3, 4, 0, "I">>,
    lhu   |-> <<  3, 5, 0, "I">>,  sb    |-> << 35, 0, 0, "S">>,
    sh    |-> << 35, 1, 0, "S">>,  sw    |-> << 35, 2, 0, "S">>,
    addi  |-> << 19, 0, 0, "I">>,  slti  |-> << 19, 2, 0, "I">>,
    sltiu |-> << 19, 3, 0, "I">>,  xori  |-> << 19, 4, 0, "I">>,
    ori   |-> << 19, 6, 0, "I">>,  andi  |-> << 19, 7, 0, "I">>,
    slli  |-> << 19, 1, 0, "shift">>, srli |-> <<19, 5,  0, "shift">>,
    srai  |-> << 19, 5, 32, "shift">>,
    add   |-> << 51, 0, 0, "R">>,  sub   |-> << 51, 0, 32, "R">>,
    sll   |-> << 51, 1, 0, "R">>,  slt   |-> << 51, 2, 0, "R">>,
    sltu  |-> << 51, 3, 0, "R">>,  xor   |-> << 51, 4, 0, "R">>,
    srl   |-> << 51, 5, 0, "R">>,  sra   |-> << 51, 5, 32, "R">>,
    or    |-> << 51, 6, 0, "R">>,  and   |-> << 51, 7, 0, "R">>,
    fence |-> << 15, 0, 0, "I">> ]

Mnemonic == DOMAIN Encoding

\* Bits hi..lo of the two's complement representation of i.
Field(i, hi, lo) == (i \div 2^lo) % 2^(hi - lo + 1)

\* The bit fields of the encoded instruction.
Encode(a) ==
  LET e == Encoding[a.mnemonic]
      i == a.imm
      fields(funct7, rs2, rs1, funct3, rd) ==
        [funct7 |-> funct7, rs2 |-> rs2, rs1 |-> rs1,
         funct3 |-> funct3, rd |-> rd, opcode |-> e[1]]
  IN  CASE e[4] = "R"     -> fields(e[3], a.rs2, a.rs1, e[2], a.rd)
        [] e[4] = "shift" -> fields(e[3], i, a.rs1, e[2], a.rd)
        [] e[4] = "I" -> fields(Field(i, 11, 5), Field(i, 4, 0), a.rs1, e[2], a.rd)
        [] e[4] = "S" -> fields(Field(i, 11, 5), a.rs2, a.rs1, e[2], Field(i, 4, 0))
        [] e[4] = "B" -> fields(Field(i, 12, 12) * 64 + Field(i, 10, 5),
                                a.rs2, a.rs1, e[2],
                                Field(i, 4, 1) * 2 + Field(i, 11, 11))
        [] e[4] = "U" -> fields(Field(i, 19, 13), Field(i, 12, 8),
                                Field(i, 7, 3), Field(i, 2, 0), a.rd)
        [] e[4] = "J" -> fields(Field(i, 20, 20) * 64 + Field(i, 10, 5),
                                Field(i, 4, 1) * 2 + Field(i, 11, 11),
                                Field(i, 19, 15), Field(i, 14, 12), a.rd)

\* The instructions that the assembler accepts: an immediate is one that the
\* format holds.
Encodable(a) ==
  LET format == Encoding[a.mnemonic][4]
      signed(bits) == -(2^(bits - 1)) <= a.imm /\ a.imm < 2^(bits - 1)
  IN  /\ a.mnemonic \in Mnemonic
      /\ a.rd \in 0..31 /\ a.rs1 \in 0..31 /\ a.rs2 \in 0..31
      /\ a.imm \in Int
      /\ format = "shift"     => a.imm \in 0..31
      /\ format \in {"I", "S"} => signed(12)
      /\ format = "B"         => signed(13) /\ a.imm % 2 = 0
      /\ format = "U"         => signed(20)
      /\ format = "J"         => signed(21) /\ a.imm % 2 = 0

----------------------------------------------------------------------------
(* What the instructions compute from the values a and b of their source   *)
(* registers, by mnemonic.                                                 *)

Bit(condition) == IF condition THEN 1 ELSE 0

Operate(operation, a, b) ==
  CASE operation = "add"  -> Wrap(a + b)
    [] operation = "sub"  -> Wrap(a - b)
    [] operation = "sll"  -> ShiftLeft(a, b % WordBits)
    [] operation = "slt"  -> Bit(Signed(a) < Signed(b))
    [] operation = "sltu" -> Bit(a < b)
    [] operation = "xor"  -> BitXor(a, b)
    [] operation = "srl"  -> ShiftRight(a, b % WordBits)
    [] operation = "sra"  -> ShiftRightArith(a, b % WordBits)
    [] operation = "or"   -> BitOr(a, b)
    [] operation = "and"  -> BitAnd(a, b)

Registers == {"add", "sub", "sll", "slt", "sltu", "xor", "srl", "sra", "or", "and"}

\* The operation that an immediate instruction performs.
Immediates == [addi |-> "add", slti |-> "slt", sltiu |-> "sltu", xori |-> "xor",
               ori |-> "or", andi |-> "and", slli |-> "sll", srli |-> "srl",
               srai |-> "sra"]

Condition(a, b) == [ beq  |-> a = b,
                     bne  |-> a # b,
                     blt  |-> Signed(a) < Signed(b),
                     bge  |-> Signed(a) >= Signed(b),
                     bltu |-> a < b,
                     bgeu |-> a >= b ]

Branches == {"beq", "bne", "blt", "bge", "bltu", "bgeu"}

\* The bytes that a memory instruction transfers.
Loads  == [lb |-> 1, lh |-> 2, lw |-> 4, lbu |-> 1, lhu |-> 2]
Stores == [sb |-> 1, sh |-> 2, sw |-> 4]

\* What a load makes of the bytes v.
Extend(v, mnemonic) ==
  IF mnemonic \in {"lb", "lh"} THEN SignExtend(v, ByteSize^Loads[mnemonic]) ELSE v

----------------------------------------------------------------------------
(* The simulated memory that programs are in (cocotb_utils.py): a          *)
(* dictionary from byte addresses to bytes; a missing byte reads 0; words  *)
(* are little-endian.                                                      *)

ByteAt(m, a) == IF a \in DOMAIN m THEN m[a] ELSE 0

\* from_array: the word at a, aligned or not.
from_array(m, a) == ByteAt(m, a) + ByteAt(m, a + 1) * ByteSize
                      + ByteAt(m, a + 2) * ByteSize^2
                      + ByteAt(m, a + 3) * ByteSize^3

\* The memory m with the bytes of the dictionary f written to it, as in
\* {**m, **f}.
Merge(m, f) == [a \in DOMAIN m \cup DOMAIN f |->
                  IF a \in DOMAIN f THEN f[a] ELSE m[a]]

============================================================================
