------------------------------ MODULE Programs -----------------------------
(***************************************************************************)
(* Programs for checking the cores on sixteen-bit words (four-bit byte     *)
(* lanes): 12-bit immediates keep their signs, an upper immediate keeps    *)
(* four bits, and every address, lane and comparison stays distinguishable.*)
(*                                                                         *)
(* An instruction is encoded as a multiple of Step, so that the four bytes *)
(* of its word differ.                                                     *)
(***************************************************************************)
EXTENDS Loader

R(mnemonic, rd, rs1, rs2) ==
  [mnemonic |-> mnemonic, rd |-> rd, rs1 |-> rs1, rs2 |-> rs2, imm |-> 0]
I(mnemonic, rd, rs1, imm1) ==
  [mnemonic |-> mnemonic, rd |-> rd, rs1 |-> rs1, rs2 |-> 0, imm |-> imm1]
S(mnemonic, rs1, rs2, imm1) ==
  [mnemonic |-> mnemonic, rd |-> 0, rs1 |-> rs1, rs2 |-> rs2, imm |-> imm1]
U(mnemonic, rd, imm1) == I(mnemonic, rd, 0, imm1)

Step == 331
DataBase == 4096
Devices  == 32768

\* The registers that programs use: a data address, a negative number, a code
\* address, the encoding of an instruction, the devices' address, a pass value.
Registered == <<DataBase, 64035, 4, Step, Devices, 19>>

\* The instructions that load them.
Setup == << U("lui", 1, 1), I("addi", 2, 0, -1501), I("addi", 3, 0, 4),
            I("addi", 4, 0, Step), U("lui", 5, 8), I("addi", 6, 0, 19) >>

----------------------------------------------------------------------------
(* One program per part of the instruction set.                            *)

\* Each ends by storing the pass value, x6.
Pass == << S("sw", 5, 6, 0) >>

Upper == << I("addi", 9, 0, 1), U("lui", 7, 9), U("auipc", 8, 11), U("lui", 0, 3),
            R("add", 10, 0, 7), U("auipc", 11, -3) >> \o Pass

OfImmediate ==
  << I("addi", 7, 2, -5), I("slti", 8, 2, 5), I("slti", 9, 6, -5),
     I("sltiu", 8, 2, -5), I("sltiu", 9, 6, -5), I("xori", 10, 2, -1),
     I("ori", 11, 2, 1365), I("andi", 12, 2, -1366), I("slli", 13, 2, 3),
     I("srli", 14, 2, 5), I("srai", 15, 2, 5), I("srai", 15, 6, 2),
     I("addi", 0, 2, 77), I("addi", 16, 0, 0) >> \o Pass

OfRegister ==
  << R("add", 7, 2, 2), R("sub", 8, 6, 2), R("sub", 8, 2, 6), R("sll", 9, 2, 6),
     R("slt", 10, 2, 6), R("slt", 10, 6, 2), R("sltu", 11, 2, 6),
     R("sltu", 11, 6, 2), R("xor", 12, 2, 4), R("srl", 13, 2, 6),
     R("sra", 14, 2, 6), R("or", 15, 2, 4), R("and", 16, 2, 4),
     R("add", 0, 2, 2), R("sub", 7, 7, 7), I("fence", 0, 0, 0) >> \o Pass

ByStore ==
  << S("sw", 1, 2, 0), S("sb", 1, 6, 0), S("sb", 1, 6, 1), S("sb", 1, 2, 2),
     S("sb", 1, 2, 3), S("sw", 1, 4, 4), S("sh", 1, 2, 4), S("sh", 1, 2, 6),
     S("sw", 1, 0, 8), I("lw", 7, 1, 0), I("lw", 8, 1, 4), I("lw", 9, 1, 8),
     I("lw", 10, 1, 12) >> \o Pass

ByLoad ==
  << S("sw", 1, 2, -4), I("lb", 7, 1, -4), I("lb", 8, 1, -3), I("lb", 9, 1, -2),
     I("lb", 10, 1, -1), I("lbu", 11, 1, -4), I("lbu", 12, 1, -3),
     I("lbu", 13, 1, -2), I("lbu", 14, 1, -1), I("lh", 15, 1, -4),
     I("lh", 16, 1, -2), I("lhu", 17, 1, -4), I("lhu", 18, 1, -2),
     I("lw", 0, 1, -4), I("lw", 1, 1, -4), I("lw", 19, 0, 0) >> \o Pass

\* Loops down from 2, calls a function through its own link register.
Control ==
  << I("addi", 7, 0, 2), I("addi", 7, 7, -1), S("bne", 7, 0, -4),
     S("beq", 7, 0, 8), S("sw", 5, 0, 0), S("blt", 2, 6, 8), S("sw", 5, 0, 0),
     S("bge", 6, 2, 8), S("sw", 5, 0, 0), S("bltu", 6, 2, 8), S("sw", 5, 0, 0),
     S("bgeu", 2, 6, 8), S("sw", 5, 0, 0), S("blt", 6, 2, 8),
     S("bge", 2, 6, 8), S("bltu", 2, 6, 8), S("bgeu", 6, 2, 8),
     S("bge", 2, 2, 8), S("sw", 5, 0, 0),
     I("jal", 8, 0, 12), I("jalr", 8, 8, 4), S("sw", 5, 0, 0),
     I("jalr", 8, 8, 0), S("sw", 5, 0, 0) >> \o Pass

Output == << S("sw", 5, 6, 4), S("sb", 5, 2, 5), S("sw", 5, 6, 4),
             I("lw", 7, 5, 8), I("lb", 7, 5, 9), S("sb", 5, 2, 6) >> \o Pass

\* A failing test: the wrong value, with the pass value in another lane.
Fail == << S("sb", 5, 6, 1) >> \o Pass

\* Overwrites an instruction ahead with addi x9, x0, 1, and data with no
\* encoding that is then run into.
SelfModify == << U("auipc", 10, 0), S("sw", 10, 4, 16), I("fence", 0, 0, 0),
                 S("sw", 10, 3, 20), I("jal", 7, 0, 100), I("addi", 9, 9, 1) >> \o Pass

----------------------------------------------------------------------------
(* Every program of two of these instructions, run as a self-checking test *)
(* that ends behind them.                                                  *)

Tokens ==
  << I("addi", 9, 0, 1), U("lui", 2, -1), U("auipc", 3, 1), I("addi", 2, 3, -9),
     I("addi", 0, 2, 5), I("slli", 3, 2, 1), I("srai", 2, 2, 3), I("andi", 2, 2, -4),
     R("sub", 3, 2, 3), R("add", 2, 2, 2), R("sltu", 3, 0, 2), R("slt", 2, 2, 3),
     R("xor", 3, 2, 3), R("sra", 2, 2, 6), I("lw", 2, 1, 0), I("lh", 3, 1, 2),
     I("lhu", 2, 1, 0), I("lbu", 2, 1, 1), I("lb", 3, 1, 2), I("lb", 0, 1, 3),
     S("sw", 1, 2, 0), S("sh", 1, 2, 2), S("sb", 1, 3, 1), S("sw", 0, 4, 4),
     S("sw", 5, 3, 4), S("beq", 2, 3, 8), S("bne", 2, 0, 8), S("blt", 2, 3, 8),
     S("bgeu", 2, 3, 8), S("bltu", 3, 2, 8), I("jal", 3, 0, 8), I("jal", 0, 0, 4),
     I("jalr", 8, 8, -48), I("fence", 0, 0, 0) >>

\* Accesses that the tests of the repository expect to work or to trap, and
\* that the core does neither with.
OddTarget  == << I("jalr", 7, 0, 9), S("sw", 5, 0, 0) >> \o Pass
Misaligned == << S("sw", 1, 2, 0), S("sw", 1, 6, 4), I("lw", 7, 1, 1) >> \o Pass

----------------------------------------------------------------------------
(* The encoding and the memory images.                                     *)

\* The instructions of all the programs, in a row; number n is encoded as
\* Step * n.
Sources == << Tokens, Upper, OfImmediate, OfRegister, ByStore, ByLoad, Control,
              Output, Fail, SelfModify, OddTarget, Misaligned, Setup >>

Listing == FlattenSeq(Sources)

AsmTable == LET listing == Listing
            IN  <<>> @@ [w \in {Step * n : n \in DOMAIN listing} |-> listing[w \div Step]]

SliceTable == <<>> @@ [w \in DOMAIN AsmTable |-> Encode(AsmTable[w])]

\* The bytes of the instructions with these numbers.
Text(numbers) ==
  [addr |-> 0, data |-> [n \in 1..(4 * Len(numbers)) |->
                           Lane(Step * numbers[((n - 1) \div 4) + 1], (n - 1) % 4)]]

Elf(numbers) == ".text" :> Text(numbers) @@
                ".data" :> [addr |-> DataBase, data |-> <<10, 3, 7, 12>>]

Loaded(numbers, checks) ==
  process_elf(Elf(numbers)) @@ [enable_self_checking |-> checks]

\* The numbers of the instructions of program k.
Numbers(k) ==
  LET start == Len(FlattenSeq(SubSeq(Sources, 1, k - 1)))
  IN  [n \in 1..Len(Sources[k]) |-> start + n]

============================================================================
