---------------------------- MODULE CoppervTypes ---------------------------
(***************************************************************************)
(* The enumerations shared by the control unit, the decoder and the        *)
(* datapath (util.scala).                                                  *)
(***************************************************************************)

EXTENDS Integers

InstType == {"IMM", "INT_IMM", "INT_REG", "BRANCH", "STORE",
             "JAL", "AUIPC", "JALR", "LOAD", "FENCE"}

\* "X" is the undriven value the decoder emits for an unsupported encoding.
Funct == {"ADD", "SUB", "AND", "EQ", "NEQ", "LT", "GTE", "LTU", "GTEU",
          "MEM_BYTE", "MEM_HWORD", "MEM_WORD", "MEM_BYTEU", "MEM_HWORDU",
          "JAL", "SLL", "SLT", "SLTU", "XOR", "SRL", "SRA", "OR", "X"}

RdDinSel   == {"NONE", "IMM", "ALU", "MEM"}
PcNextSel  == {"STALL", "INCR", "ADD_IMM", "ADD_RS1_IMM"}
AluDin1Sel == {"RS1", "PC"}
AluDin2Sel == {"IMM", "RS2", "CONST_4"}

AluOp == {"NOP", "ADD", "SUB", "AND", "SLL", "SRA", "SRL", "XOR", "OR",
          "SLT", "SLTU"}

State == {"RESET", "IDLE", "FETCH", "DECODE", "EXEC", "MEM", "COMMIT"}

\* The register addresses of regfile.scala (addr_width = 5).
RegAddr == 0..31

============================================================================
