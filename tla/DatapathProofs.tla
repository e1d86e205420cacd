--------------------------- MODULE DatapathProofs --------------------------
(***************************************************************************)
(* Facts about the operators of the datapath, for every word width and     *)
(* every instruction table: what arithmetic, lanes, loads, stores and the  *)
(* decoder compute from words is again a word.  The proofs about both      *)
(* cores use them.                                                         *)
(***************************************************************************)
EXTENDS Idecoder, TLAPS

----------------------------------------------------------------------------
(* Words.                                                                  *)

\* The four widths in figures.
LEMMA Widths ==
  \/ ByteBits = 1 /\ ByteSize = 2   /\ WordBits = 4  /\ WordSize = 16
  \/ ByteBits = 2 /\ ByteSize = 4   /\ WordBits = 8  /\ WordSize = 256
  \/ ByteBits = 4 /\ ByteSize = 16  /\ WordBits = 16 /\ WordSize = 65536
  \/ ByteBits = 8 /\ ByteSize = 256 /\ WordBits = 32 /\ WordSize = 4294967296
<1>1. CASE ByteBits = 1
  BY <1>1 DEF ByteSize, WordBits, WordSize
<1>2. CASE ByteBits = 2
  BY <1>2 DEF ByteSize, WordBits, WordSize
<1>3. CASE ByteBits = 4
  BY <1>3 DEF ByteSize, WordBits, WordSize
<1>4. CASE ByteBits = 8
  BY <1>4 DEF ByteSize, WordBits, WordSize
<1>5. QED
  BY <1>1, <1>2, <1>3, <1>4, ByteBitsAssumption

LEMMA ZeroWord == 0 \in Word /\ 4 \in Word
BY Widths DEF Word

LEMMA WrapWord == \A i \in Int : Wrap(i) \in Word
BY Widths DEF Wrap, Word

LEMMA SignedInt == \A w \in Word : Signed(w) \in Int
BY Widths DEF Signed, Word

LEMMA SignExtendWord ==
  \A v \in Int, size \in Nat \ {0} : SignExtend(v, size) \in Word
BY WrapWord DEF SignExtend

LEMMA AlignDownWord ==
  \A a \in Word : Offset(a) \in Lanes /\ AlignDown(a) \in Word /\ AlignDown(a) % 4 = 0
BY Widths DEF Word, AlignDown, Offset, Lanes

\* The weight of a lane, and of a bit.
LEMMA LaneWeight == \A i \in Lanes : ByteSize^i \in Nat \ {0}
<1> SUFFICES ASSUME NEW i \in {0, 1, 2, 3} PROVE ByteSize^i \in Nat \ {0}
  BY DEF Lanes
<1>1. CASE i = 0
  <2>1. CASE ByteBits = 1  BY <1>1, <2>1 DEF ByteSize
  <2>2. CASE ByteBits = 2  BY <1>1, <2>2 DEF ByteSize
  <2>3. CASE ByteBits = 4  BY <1>1, <2>3 DEF ByteSize
  <2>4. CASE ByteBits = 8  BY <1>1, <2>4 DEF ByteSize
  <2>5. QED  BY <2>1, <2>2, <2>3, <2>4, ByteBitsAssumption
<1>2. CASE i = 1
  <2>1. CASE ByteBits = 1  BY <1>2, <2>1 DEF ByteSize
  <2>2. CASE ByteBits = 2  BY <1>2, <2>2 DEF ByteSize
  <2>3. CASE ByteBits = 4  BY <1>2, <2>3 DEF ByteSize
  <2>4. CASE ByteBits = 8  BY <1>2, <2>4 DEF ByteSize
  <2>5. QED  BY <2>1, <2>2, <2>3, <2>4, ByteBitsAssumption
<1>3. CASE i = 2
  <2>1. CASE ByteBits = 1  BY <1>3, <2>1 DEF ByteSize
  <2>2. CASE ByteBits = 2  BY <1>3, <2>2 DEF ByteSize
  <2>3. CASE ByteBits = 4  BY <1>3, <2>3 DEF ByteSize
  <2>4. CASE ByteBits = 8  BY <1>3, <2>4 DEF ByteSize
  <2>5. QED  BY <2>1, <2>2, <2>3, <2>4, ByteBitsAssumption
<1>4. CASE i = 3
  <2>1. CASE ByteBits = 1  BY <1>4, <2>1 DEF ByteSize
  <2>2. CASE ByteBits = 2  BY <1>4, <2>2 DEF ByteSize
  <2>3. CASE ByteBits = 4  BY <1>4, <2>3 DEF ByteSize
  <2>4. CASE ByteBits = 8  BY <1>4, <2>4 DEF ByteSize
  <2>5. QED  BY <2>1, <2>2, <2>3, <2>4, ByteBitsAssumption
<1>5. QED
  BY <1>1, <1>2, <1>3, <1>4

LEMMA BitWeight == \A n \in 0..31 : 2^n \in Nat \ {0}
<1> SUFFICES ASSUME NEW n \in 0..31 PROVE 2^n \in Nat \ {0}
  OBVIOUS
<1>1. CASE n = 0  BY <1>1
<1>2. CASE n = 1  BY <1>2
<1>3. CASE n = 2  BY <1>3
<1>4. CASE n = 3  BY <1>4
<1>5. CASE n = 4  BY <1>5
<1>6. CASE n = 5  BY <1>6
<1>7. CASE n = 6  BY <1>7
<1>8. CASE n = 7  BY <1>8
<1>9. CASE n = 8  BY <1>9
<1>10. CASE n = 9  BY <1>10
<1>11. CASE n = 10  BY <1>11
<1>12. CASE n = 11  BY <1>12
<1>13. CASE n = 12  BY <1>13
<1>14. CASE n = 13  BY <1>14
<1>15. CASE n = 14  BY <1>15
<1>16. CASE n = 15  BY <1>16
<1>17. CASE n = 16  BY <1>17
<1>18. CASE n = 17  BY <1>18
<1>19. CASE n = 18  BY <1>19
<1>20. CASE n = 19  BY <1>20
<1>21. CASE n = 20  BY <1>21
<1>22. CASE n = 21  BY <1>22
<1>23. CASE n = 22  BY <1>23
<1>24. CASE n = 23  BY <1>24
<1>25. CASE n = 24  BY <1>25
<1>26. CASE n = 25  BY <1>26
<1>27. CASE n = 26  BY <1>27
<1>28. CASE n = 27  BY <1>28
<1>29. CASE n = 28  BY <1>29
<1>30. CASE n = 29  BY <1>30
<1>31. CASE n = 30  BY <1>31
<1>32. CASE n = 31  BY <1>32
<1>33. QED
  BY <1>1, <1>2, <1>3, <1>4, <1>5, <1>6, <1>7, <1>8, <1>9, <1>10, <1>11, <1>12, <1>13, <1>14, <1>15, <1>16, <1>17, <1>18, <1>19, <1>20, <1>21, <1>22, <1>23, <1>24, <1>25, <1>26, <1>27, <1>28, <1>29, <1>30, <1>31, <1>32

LEMMA BitsSubset == \A w : Bits(w) \subseteq 0..(WordBits - 1)
BY DEF Bits

LEMMA FromBitsWord ==
  ASSUME NEW S, S \subseteq 0..(WordBits - 1)
  PROVE  FromBits(S) \in Word
<1>1. CASE ByteBits = 1
  BY <1>1, Widths DEF FromBits, Word
<1>2. CASE ByteBits = 2
  BY <1>2, Widths DEF FromBits, Word
<1>3. CASE ByteBits = 4
  BY <1>3, Widths DEF FromBits, Word
<1>4. CASE ByteBits = 8
  BY <1>4, Widths DEF FromBits, Word
<1>5. QED
  BY <1>1, <1>2, <1>3, <1>4, ByteBitsAssumption

LEMMA BitwiseWord ==
  \A a, b : BitAnd(a, b) \in Word /\ BitOr(a, b) \in Word /\ BitXor(a, b) \in Word
BY BitsSubset, FromBitsWord DEF BitAnd, BitOr, BitXor

\* A shift distance is less than the number of bits.
LEMMA ShiftWord ==
  ASSUME NEW w \in Word, NEW n \in 0..(WordBits - 1)
  PROVE  /\ ShiftLeft(w, n) \in Word
         /\ ShiftRight(w, n) \in Word
         /\ ShiftRightArith(w, n) \in Word
<1> DEFINE weight == 2^n
<1>0. n \in 0..31
  BY Widths
<1>1. weight \in Nat \ {0}
  BY <1>0, BitWeight
<1> HIDE DEF weight
<1>2. w * weight \in Int /\ Signed(w) \div weight \in Int /\ w \div weight \in Word
  BY <1>1, SignedInt, Widths DEF Word
<1>3. QED
  BY <1>2, WrapWord DEF weight, ShiftLeft, ShiftRight, ShiftRightArith

LEMMA LaneByte ==
  ASSUME NEW w \in Word, NEW i \in Lanes
  PROVE  Lane(w, i) \in Byte
<1> DEFINE weight == ByteSize^i
<1>1. weight \in Nat \ {0}
  BY LaneWeight
<1> HIDE DEF weight
<1>2. (w \div weight) % ByteSize \in Byte
  BY <1>1, Widths DEF Word, Byte
<1>3. QED
  BY <1>2 DEF weight, Lane

----------------------------------------------------------------------------
(* Loads and stores.                                                       *)

LEMMA StoreStrobeLanes ==
  ASSUME NEW f, NEW offset \in Lanes
  PROVE  StoreStrobe(f, offset) \subseteq Lanes
BY DEF StoreStrobe, Lanes

\* The low bytes of what is shifted down.
LEMMA LowBytesNat ==
  ASSUME NEW w \in Nat, NEW n \in Lanes
  PROVE  LowBytes(w, n) \in Nat /\ LowBytes(w, n) <= w
<1> DEFINE weight == ByteSize^n
<1>1. weight \in Nat \ {0}
  BY LaneWeight
<1> HIDE DEF weight
<1>2. w % weight \in Nat /\ w % weight <= w
  BY <1>1
<1>3. QED
  BY <1>2 DEF weight, LowBytes

LEMMA StoreDataWord ==
  ASSUME NEW f, NEW offset \in Lanes, NEW w \in Word
  PROVE  StoreData(f, offset, w) \in Word
<1> DEFINE weight == ByteSize^offset
<1>1. weight \in Nat \ {0}
  BY LaneWeight
<1>2. LowBytes(w, 1) \in Nat /\ LowBytes(w, 2) \in Nat
  BY LowBytesNat, Widths DEF Word, Lanes
<1> HIDE DEF weight
<1>3. Wrap(LowBytes(w, 1) * weight) \in Word /\ Wrap(LowBytes(w, 2) * weight) \in Word
  BY <1>1, <1>2, WrapWord
<1>4. 0 \in Word
  BY Widths DEF Word
<1>5. QED
  BY <1>3, <1>4 DEF weight, StoreData

LEMMA LoadDataWord ==
  ASSUME NEW f, NEW offset \in Lanes, NEW w \in Word
  PROVE  LoadData(f, offset, w) \in Word
<1> DEFINE weight == ByteSize^offset
           t == w \div weight
<1>1. weight \in Nat \ {0}
  BY LaneWeight
<1> HIDE DEF weight
<1>2. t \in Word
  BY <1>1, Widths DEF Word
<1> HIDE DEF t
<1>3. \A n \in {1, 2} : LowBytes(t, n) \in Word
  BY <1>2, LowBytesNat, Widths DEF Word, Lanes
<1> DEFINE half == ByteSize^2
<1>4. ByteSize \in Nat \ {0} /\ half \in Nat \ {0}
  BY LaneWeight, Widths DEF Lanes
<1> HIDE DEF half
<1>5. SignExtend(LowBytes(t, 1), ByteSize) \in Word /\ SignExtend(LowBytes(t, 2), half) \in Word
  <2>1. LowBytes(t, 1) \in Int /\ LowBytes(t, 2) \in Int
    BY <1>3, Widths DEF Word
  <2>2. QED
    BY <1>4, <2>1, SignExtendWord
<1>6. 0 \in Word
  BY Widths DEF Word
<1>7. QED
  BY <1>2, <1>3, <1>5, <1>6 DEF t, weight, half, LoadData

----------------------------------------------------------------------------
(* The decoder.                                                            *)

LEMMA FieldsTyped == \A inst : FieldsOf(inst) \in Fields
BY SliceAssumption DEF FieldsOf, NoFields, Fields

Format == {"none", "R", "I", "S", "B", "U", "J"}

LEMMA OpcodeTyped ==
  ASSUME NEW f
  PROVE  Opcode(f).inst_type \in InstType /\ Opcode(f).format \in Format
<1>1. \A o \in Opcodes : o.inst_type \in InstType /\ o.format \in Format
  BY DEF Opcodes, InstType, Format
<1>2. CASE \E o \in Opcodes : o.opcode = f.opcode
  <2>1. Opcode(f) \in Opcodes
    BY <1>2 DEF Opcode
  <2>2. QED
    BY <1>1, <2>1
<1>3. CASE ~\E o \in Opcodes : o.opcode = f.opcode
  BY <1>3 DEF Opcode, Unknown, InstType, Format
<1>4. QED
  BY <1>2, <1>3

LEMMA FunctTyped ==
  ASSUME NEW f \in Fields, NEW it
  PROVE  funct(f, it) \in Funct
<1>1. f.funct3 \in 0..7
  BY DEF Fields
<1>2. /\ IntFuncts[f.funct3 + 1] \in Funct /\ BranchFuncts[f.funct3 + 1] \in Funct
      /\ StoreFuncts[f.funct3 + 1] \in Funct /\ LoadFuncts[f.funct3 + 1] \in Funct
  BY <1>1 DEF IntFuncts, BranchFuncts, StoreFuncts, LoadFuncts, Funct
<1>3. int_imm_funct(f) \in Funct /\ int_reg_funct(f) \in Funct
  BY <1>2 DEF int_imm_funct, int_reg_funct, Funct
<1>4. QED
  BY <1>2, <1>3 DEF funct, Funct

LEMMA ImmTyped ==
  ASSUME NEW f \in Fields, NEW it, NEW format
  PROVE  imm(f, it, format) \in Word
<1>1. /\ f.funct7 \in Int /\ f.rs2 \in Int /\ f.rs1 \in Int
      /\ f.funct3 \in Int /\ f.rd \in Int
  BY DEF Fields
<1>2. \A v \in Int : /\ SignExtend(v, 4096) \in Word /\ SignExtend(v, 8192) \in Word
                     /\ SignExtend(v, 2097152) \in Word
  <2>1. 4096 \in Nat \ {0} /\ 8192 \in Nat \ {0} /\ 2097152 \in Nat \ {0}
    BY SMT
  <2>2. QED
    BY <2>1, SignExtendWord
<1>3. HighBit(f) \in Int
  BY <1>1 DEF HighBit
<1>4. imm_i(f) \in Word /\ imm_s(f) \in Word
  <2>1. \A a, b \in Int : a * 32 + b \in Int
    OBVIOUS
  <2>2. QED
    BY <1>1, <1>2, <2>1 DEF imm_i, imm_s
<1>5. imm_b(f) \in Word
  <2>1. \A a, b, c \in Int :
           a * 4096 + (b % 2) * 2048 + (c % 64) * 32 + (b \div 2) * 2 \in Int
    BY SMT
  <2>2. QED
    BY <1>1, <1>2, <1>3, <2>1 DEF imm_b
<1>6. imm_j(f) \in Word
  <2>1. \A a, b, c, d, e \in Int :
           a * 1048576 + (b * 8 + c) * 4096 + (d % 2) * 2048 + (e % 64) * 32
             + (d \div 2) * 2 \in Int
    BY SMT
  <2>2. QED
    BY <1>1, <1>2, <1>3, <2>1 DEF imm_j
<1>7. imm_u(f) \in Word
  BY <1>1, <1>3, WrapWord DEF imm_u
<1>8. Wrap(f.rs2) \in Word
  BY <1>1, WrapWord
<1>9. QED
  BY <1>4, <1>5, <1>6, <1>7, <1>8, ZeroWord DEF imm

\* What the decoder gives for any word.
LEMMA DecodeTyped ==
  ASSUME NEW inst
  PROVE  /\ Decode(inst).inst_type \in InstType /\ inst_type_of(inst) \in InstType
         /\ Decode(inst).funct \in Funct /\ Decode(inst).imm \in Word
         /\ Decode(inst).rd \in RegAddr
         /\ Decode(inst).rs1 \in RegAddr /\ Decode(inst).rs2 \in RegAddr
<1> DEFINE f == FieldsOf(inst)
           o == Opcode(f)
<1>1. f \in Fields
  BY FieldsTyped
<1>2. o.inst_type \in InstType
  BY OpcodeTyped
<1>3. funct(f, o.inst_type) \in Funct /\ imm(f, o.inst_type, o.format) \in Word
  BY <1>1, FunctTyped, ImmTyped
<1>4. f.rd \in RegAddr /\ f.rs1 \in RegAddr /\ f.rs2 \in RegAddr /\ 0 \in RegAddr
  BY <1>1 DEF Fields, RegAddr
<1> HIDE DEF f, o
<1>5. Decode(inst) = [ inst_type |-> o.inst_type,
        funct     |-> funct(f, o.inst_type),
        imm       |-> imm(f, o.inst_type, o.format),
        rd        |-> IF o.format \in {"U", "J", "I", "R"} THEN f.rd ELSE 0,
        rs1       |-> IF o.format \in {"I", "R", "B", "S"} THEN f.rs1 ELSE 0,
        rs2       |-> IF o.format \in {"R", "B", "S"} THEN f.rs2 ELSE 0 ]
  BY DEF f, o, Decode
<1>6. inst_type_of(inst) = o.inst_type
  BY DEF f, o, inst_type_of
<1>7. QED
  BY <1>2, <1>3, <1>4, <1>5, <1>6

============================================================================
