--------------------------------- MODULE Alu -------------------------------
(***************************************************************************)
(* The arithmetic unit (execution.scala): two operand registers and the    *)
(* operation register, loaded together; results and comparisons are        *)
(* combinational functions of the registers.  None of them is reset.       *)
(***************************************************************************)
EXTENDS Words, CoppervTypes

VARIABLES in1, in2, op

aluVars == <<in1, in2, op>>

AluTypeOK == /\ in1 \in Word
             /\ in2 \in Word
             /\ op \in AluOp

Comp == [ EQ  |-> in1 = in2,
          LT  |-> Signed(in1) < Signed(in2),
          LTU |-> in1 < in2 ]

\* Only the low bits of in2 that index a word's bits shift: in2(4,0).
shamt == in2 % WordBits

BoolWord(b) == IF b THEN 1 ELSE 0

alu_dout ==
  CASE op = "ADD"  -> Wrap(in1 + in2)
    [] op = "SUB"  -> Wrap(in1 - in2)
    [] op = "AND"  -> BitAnd(in1, in2)
    [] op = "SLL"  -> ShiftLeft(in1, shamt)
    [] op = "SRL"  -> ShiftRight(in1, shamt)
    [] op = "SRA"  -> ShiftRightArith(in1, shamt)
    [] op = "XOR"  -> BitXor(in1, in2)
    [] op = "OR"   -> BitOr(in1, in2)
    [] op = "SLT"  -> BoolWord(Comp.LT)
    [] op = "SLTU" -> BoolWord(Comp.LTU)
    [] OTHER       -> 0

\* A clock edge of the unit.
AluEdge(load, din1, din2, alu_op) ==
  IF load
    THEN in1' = din1 /\ in2' = din2 /\ op' = alu_op
    ELSE UNCHANGED aluVars

============================================================================
