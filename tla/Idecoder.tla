------------------------------ MODULE Idecoder -----------------------------
(***************************************************************************)
(* The combinational instruction decoder (idecoder.v).                     *)
(*                                                                         *)
(* An instruction is its six bit fields: funct7 = inst[31:25],             *)
(* rs2 = inst[24:20], rs1 = inst[19:15], funct3 = inst[14:12],             *)
(* rd = inst[11:7] and opcode = inst[6:0].  Slice gives the fields of a    *)
(* memory word: bit slicing in the circuit, where words have 32 bits; a    *)
(* table of the words that hold instructions where words are narrower.     *)
(* Every other word has opcode 0, which the decoder does not know.         *)
(***************************************************************************)
EXTENDS Words, CoppervTypes, Sequences

CONSTANT Slice

Fields == [funct7 : 0..127, rs2 : 0..31, rs1 : 0..31,
           funct3 : 0..7, rd : 0..31, opcode : 0..127]

ASSUME SliceAssumption == /\ DOMAIN Slice \subseteq Word
                          /\ \A w \in DOMAIN Slice : Slice[w] \in Fields

NoFields == [funct7 |-> 0, rs2 |-> 0, rs1 |-> 0, funct3 |-> 0, rd |-> 0,
             opcode |-> 0]

FieldsOf(inst) == IF inst \in DOMAIN Slice THEN Slice[inst] ELSE NoFields

----------------------------------------------------------------------------
(* Opcodes: the instruction type and the encoding format of each.          *)

Opcodes ==
  { [opcode |->   3, inst_type |-> "LOAD",    format |-> "I"],
    [opcode |->  15, inst_type |-> "FENCE",   format |-> "none"],
    [opcode |->  19, inst_type |-> "INT_IMM", format |-> "I"],
    [opcode |->  23, inst_type |-> "AUIPC",   format |-> "U"],
    [opcode |->  35, inst_type |-> "STORE",   format |-> "S"],
    [opcode |->  51, inst_type |-> "INT_REG", format |-> "R"],
    [opcode |->  55, inst_type |-> "IMM",     format |-> "U"],
    [opcode |->  99, inst_type |-> "BRANCH",  format |-> "B"],
    [opcode |-> 103, inst_type |-> "JALR",    format |-> "I"],
    [opcode |-> 111, inst_type |-> "JAL",     format |-> "J"] }

\* `default: ;' leaves inst_type at 0, which is IMM, and everything else at 0.
Unknown == [inst_type |-> "IMM", format |-> "none"]

Opcode(f) == IF \E o \in Opcodes : o.opcode = f.opcode
               THEN CHOOSE o \in Opcodes : o.opcode = f.opcode
               ELSE Unknown

----------------------------------------------------------------------------
(* The immediates of the five formats, sign-extended to a word.            *)

HighBit(f) == f.funct7 \div 64

imm_i(f) == SignExtend(f.funct7 * 32 + f.rs2, 4096)
imm_s(f) == SignExtend(f.funct7 * 32 + f.rd, 4096)
imm_b(f) == SignExtend(HighBit(f) * 4096 + (f.rd % 2) * 2048
                         + (f.funct7 % 64) * 32 + (f.rd \div 2) * 2, 8192)
imm_j(f) == SignExtend(HighBit(f) * 1048576 + (f.rs1 * 8 + f.funct3) * 4096
                         + (f.rs2 % 2) * 2048 + (f.funct7 % 64) * 32
                         + (f.rs2 \div 2) * 2, 2097152)
imm_u(f) == LET top == (f.funct7 * 32 + f.rs2) * 256 + f.rs1 * 8 + f.funct3
            IN  Wrap((top - HighBit(f) * 1048576) * 4096)

----------------------------------------------------------------------------
(* The function within an instruction type, from funct3 and funct7.        *)

IntFuncts    == <<"ADD", "SLL", "SLT", "SLTU", "XOR", "SRL", "OR", "AND">>
BranchFuncts == <<"EQ", "NEQ", "X", "X", "LT", "GTE", "LTU", "GTEU">>
StoreFuncts  == <<"MEM_BYTE", "MEM_HWORD", "MEM_WORD", "X", "X", "X", "X", "X">>
LoadFuncts   == <<"MEM_BYTE", "MEM_HWORD", "MEM_WORD", "X",
                  "MEM_BYTEU", "MEM_HWORDU", "X", "X">>

int_imm_funct(f) ==
  IF f.funct3 # 5 THEN IntFuncts[f.funct3 + 1]
  ELSE CASE f.funct7 = 0  -> "SRL"
         [] f.funct7 = 32 -> "SRA"
         [] OTHER         -> "X"

int_reg_funct(f) ==
  CASE f.funct7 = 0                    -> IntFuncts[f.funct3 + 1]
    [] f.funct7 = 32 /\ f.funct3 = 0   -> "SUB"
    [] f.funct7 = 32 /\ f.funct3 = 5   -> "SRA"
    [] OTHER                           -> "X"

funct(f, inst_type) ==
  CASE inst_type = "INT_IMM" -> int_imm_funct(f)
    [] inst_type = "INT_REG" -> int_reg_funct(f)
    [] inst_type = "BRANCH"  -> BranchFuncts[f.funct3 + 1]
    [] inst_type = "STORE"   -> StoreFuncts[f.funct3 + 1]
    [] inst_type = "LOAD"    -> LoadFuncts[f.funct3 + 1]
    [] OTHER                 -> "ADD"

imm(f, inst_type, format) ==
  CASE format = "I" -> IF inst_type = "INT_IMM" /\ f.funct3 = 5
                         THEN Wrap(f.rs2) ELSE imm_i(f)
    [] format = "S" -> imm_s(f)
    [] format = "B" -> imm_b(f)
    [] format = "J" -> imm_j(f)
    [] format = "U" -> imm_u(f)
    [] OTHER        -> 0

\* The decoder's outputs; a register field absent from the format reads 0.
Decode(inst) ==
  LET f == FieldsOf(inst)
      o == Opcode(f)
  IN  [ inst_type |-> o.inst_type,
        funct     |-> funct(f, o.inst_type),
        imm       |-> imm(f, o.inst_type, o.format),
        rd        |-> IF o.format \in {"U", "J", "I", "R"} THEN f.rd ELSE 0,
        rs1       |-> IF o.format \in {"I", "R", "B", "S"} THEN f.rs1 ELSE 0,
        rs2       |-> IF o.format \in {"R", "B", "S"} THEN f.rs2 ELSE 0 ]

inst_type_of(inst) == Opcode(FieldsOf(inst)).inst_type

============================================================================
