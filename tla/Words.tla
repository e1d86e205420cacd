------------------------------- MODULE Words -------------------------------
(***************************************************************************)
(* Machine words and the hardware arithmetic on them.                      *)
(*                                                                         *)
(* A word is four byte lanes of ByteBits bits.  ByteBits is 8 in the       *)
(* circuit (32-bit words); the lane structure, the sign rules and the      *)
(* wrap-around do not depend on it, so TLC checks narrower words.          *)
(***************************************************************************)
EXTENDS Integers

CONSTANT ByteBits

ASSUME ByteBitsAssumption == ByteBits \in {1, 2, 4, 8}

ByteSize == 2^ByteBits
WordBits == 4 * ByteBits
WordSize == 2^WordBits

Lanes == 0..3
Byte  == 0..(ByteSize - 1)
Word  == 0..(WordSize - 1)

----------------------------------------------------------------------------
(* Wrap-around and the two's complement reading of a word.                 *)

Wrap(i) == i % WordSize

Signed(w) == IF w < WordSize \div 2 THEN w ELSE w - WordSize

\* The word whose low part is v, 0 <= v < size, sign-extended from size.
SignExtend(v, size) == Wrap(IF v < size \div 2 THEN v ELSE v - size)

----------------------------------------------------------------------------
(* Byte lanes and word alignment: the low two bits select a lane.          *)

Offset(a)    == a % 4
AlignDown(a) == a - Offset(a)

Lane(w, i) == (w \div ByteSize^i) % ByteSize

\* The low n bytes of w.
LowBytes(w, n) == w % (ByteSize^n)

----------------------------------------------------------------------------
(* Shifts and bitwise operators.                                           *)

ShiftLeft(w, n)       == Wrap(w * 2^n)
ShiftRight(w, n)      == w \div 2^n
ShiftRightArith(w, n) == Wrap(Signed(w) \div 2^n)

Bits(w) == {i \in 0..(WordBits - 1) : (w \div 2^i) % 2 = 1}

\* The word whose bits are S; a word has at most 32.
FromBits(S) ==
  LET bit(i)  == IF i \in S THEN 2^i ELSE 0
      byte(i) == bit(i) + bit(i + 1) + bit(i + 2) + bit(i + 3)
                   + bit(i + 4) + bit(i + 5) + bit(i + 6) + bit(i + 7)
  IN  byte(0) + byte(8) + byte(16) + byte(24)

BitAnd(a, b) == FromBits(Bits(a) \cap Bits(b))
BitOr(a, b)  == FromBits(Bits(a) \cup Bits(b))
BitXor(a, b) == FromBits((Bits(a) \cup Bits(b)) \ (Bits(a) \cap Bits(b)))

----------------------------------------------------------------------------
(* The lanes of loads and stores: both cores shift the data of a byte or a *)
(* half word to the lane that the low address bits select, and back.  `f'  *)
(* is the function of the instruction, `offset' the low address bits.      *)

\* The lanes that a store writes; what is shifted beyond the word is lost.
StoreStrobe(f, offset) ==
  CASE f = "MEM_BYTE"  -> {offset}
    [] f = "MEM_HWORD" -> {offset, offset + 1} \cap Lanes
    [] f = "MEM_WORD"  -> Lanes
    [] OTHER           -> {}

\* The store data w in its lanes.
StoreData(f, offset, w) ==
  CASE f = "MEM_BYTE"  -> Wrap(LowBytes(w, 1) * ByteSize^offset)
    [] f = "MEM_HWORD" -> Wrap(LowBytes(w, 2) * ByteSize^offset)
    [] f = "MEM_WORD"  -> w
    [] OTHER           -> 0

\* The value loaded from the word w, shifted down and extended.
LoadData(f, offset, w) ==
  LET t == w \div ByteSize^offset
  IN  CASE f = "MEM_BYTE"   -> SignExtend(LowBytes(t, 1), ByteSize)
        [] f = "MEM_HWORD"  -> SignExtend(LowBytes(t, 2), ByteSize^2)
        [] f = "MEM_WORD"   -> t
        [] f = "MEM_BYTEU"  -> LowBytes(t, 1)
        [] f = "MEM_HWORDU" -> LowBytes(t, 2)
        [] OTHER            -> 0

============================================================================
