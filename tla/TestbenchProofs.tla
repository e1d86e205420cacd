--------------------------- MODULE TestbenchProofs -------------------------
(***************************************************************************)
(* Theorems about Copperv2 under the testbench, for every program, every   *)
(* word width and every latency of the drivers.                            *)
(***************************************************************************)
EXTENDS Testbench, BenchProofs

\* An instruction beyond the end of the program is not executed because its
\* fetch is not answered: at most one answer is under way, and only for a fetch
\* within the program, from which the program counter does not move.
EndInv ==
  /\ inst_valid \in BOOLEAN
  /\ ~rst => state = "RESET"
  /\ state # "FETCH" \/ state_change => ir_queue = <<>> /\ ~inst_valid
  /\ inst_valid => ir_queue = <<>>
  /\ AtMostOne(ir_queue, Within(end_i_address, pc))
  /\ inst_valid \/ state \notin {"RESET", "FETCH"} => Within(end_i_address, pc)

LEMMA InitEndInv == Init => EndInv
BY DEF Init, CoreInit, BenchInit, Load, EndInv, AtMostOne

\* What a clock edge does with the instruction and its fetch.
FetchStep(ir, addr) ==
  /\ Drive(ir_queue, ir_queue', ir_request(inst_fetch), ir_item(addr), ir)
  /\ end_i_address' = end_i_address
  /\ IF rst
       THEN /\ state' = state_next(inst_type, inst_valid, data_valid)
            /\ state_change' = (state # state_next(inst_type, inst_valid, data_valid))
            /\ pc' = pc_next
            /\ inst_valid' = ir_data_valid(ir, addr)
       ELSE state' = "RESET" /\ inst_valid' = FALSE

LEMMA FetchStepOfCycle ==
  ASSUME Cycle
  PROVE  rst' = TRUE /\ \E ir \in BOOLEAN : FetchStep(ir, ir_addr(pc, ir_ready))
<1>1. PICK ir \in BOOLEAN, dr \in BOOLEAN, dw \in BOOLEAN : ClockEdge(ir, dr, dw)
  BY DEF Cycle
<1> DEFINE addr == ir_addr(pc, ir_ready)
<1>2. PICK timer_counter :
        /\ BenchEdge(ir, dr, dw, inst_fetch, addr, timer_counter)
        /\ IF rst
             THEN CoreEdge(ir_data_valid(ir, addr), ir_data(addr),
                           TRUE, dr, dr_data(timer_counter), TRUE, dw, dw_resp)
             ELSE CoreReset(ir_data_valid(ir, addr), ir_data(addr))
  BY <1>1 DEF ClockEdge
<1>3. FetchStep(ir, addr)
  BY <1>2 DEF BenchEdge, FetchStep, CoreEdge, CoreReset, ControlEdge, ControlReset,
              ReadInstruction, BusReset
<1>4. QED
  BY <1>3 DEF Cycle, Running

\* The program counter moves only when an instruction retires.
LEMMA PcHeld ==
  ASSUME NEW ir \in BOOLEAN, NEW addr, FetchStep(ir, addr), rst,
         state = "FETCH" \/ state' \notin {"RESET", "FETCH"}
  PROVE  pc' = pc
BY DEF FetchStep, pc_next, pc_next_sel, state_next

\* Outside FETCH nothing is fetched.
LEMMA StepElsewhere ==
  ASSUME EndInv, NEW ir \in BOOLEAN, NEW addr, FetchStep(ir, addr), rst' = TRUE,
         state # "FETCH"
  PROVE  EndInv'
<1>1. ir_queue = <<>> /\ ~ir_request(inst_fetch)
  BY DEF EndInv, ir_request, inst_fetch
<1>2. ir_queue' = <<>> /\ ~ir_data_valid(ir, addr)
  <2>1. ir_request(inst_fetch) = FALSE
    BY <1>1 DEF ir_request
  <2>2. QED
    BY <1>1, <2>1, IrIdle DEF FetchStep
<1>3. inst_valid' = FALSE
  BY <1>2 DEF FetchStep
<1>4. state' \notin {"RESET", "FETCH"} => Within(end_i_address, pc)'
  <2> SUFFICES ASSUME state' \notin {"RESET", "FETCH"}
               PROVE  Within(end_i_address, pc)'
    OBVIOUS
  <2>1. rst /\ state # "RESET"
    BY DEF FetchStep, EndInv, state_next
  <2>2. pc' = pc /\ end_i_address' = end_i_address
    BY <2>1, PcHeld DEF FetchStep
  <2>3. QED
    BY <2>1, <2>2 DEF EndInv, Within
<1>5. QED
  BY <1>2, <1>3, <1>4 DEF EndInv, AtMostOne

\* In FETCH the answer that comes is for the fetch at pc.
LEMMA StepFetch ==
  ASSUME EndInv, NEW ir \in BOOLEAN, FetchStep(ir, ir_addr(pc, ir_ready)), rst' = TRUE,
         state = "FETCH"
  PROVE  EndInv'
<1> DEFINE addr == ir_addr(pc, ir_ready)
           within == Within(end_i_address, pc)
<1>1. rst /\ pc' = pc /\ end_i_address' = end_i_address
  <2>1. rst
    BY DEF EndInv
  <2>2. QED
    BY <2>1, PcHeld DEF FetchStep
<1>2. within' = within
  BY <1>1 DEF Within
<1>3. inst_valid' = ir_data_valid(ir, addr) /\ inst_valid' \in BOOLEAN
  BY <1>1 DEF FetchStep, ir_data_valid
<1>4. within \in BOOLEAN
  BY DEF Within
<1>5. CASE inst_valid
  <2>1. ir_queue = <<>> /\ ir_request(inst_fetch) = FALSE /\ within
    BY <1>5 DEF EndInv, ir_request, inst_fetch
  <2>2. ir_queue' = <<>> /\ ~ir_data_valid(ir, addr)
    BY <2>1, IrIdle DEF FetchStep
  <2>3. QED
    BY <1>2, <1>3, <2>1, <2>2 DEF EndInv, AtMostOne
<1>6. CASE ~inst_valid
  <2>1. state' = "FETCH" /\ state_change' = FALSE
    BY <1>1, <1>6 DEF FetchStep, state_next
  <2>2. /\ AtMostOne(ir_queue', within)
        /\ ir_data_valid(ir, addr) => ir_queue' = <<>> /\ within
    <3>1. CASE ir_request(inst_fetch)
      <4>1. ir_queue = <<>> /\ addr = pc
        BY <3>1 DEF EndInv, ir_request, inst_fetch, ir_addr
      <4>2. ir_request(inst_fetch) = TRUE
        BY <3>1 DEF ir_request
      <4>3. QED
        BY <4>1, <4>2, IrFetch DEF FetchStep
    <3>2. CASE ~ir_request(inst_fetch)
      <4>1. AtMostOne(ir_queue, within)
        BY DEF EndInv
      <4>2. ir_request(inst_fetch) = FALSE
        BY <3>2 DEF ir_request
      <4>3. Drive(ir_queue, ir_queue', FALSE, ir_item(addr), ir)
        BY <4>2 DEF FetchStep
      <4> HIDE DEF within, addr
      <4>4. QED
        BY <1>4, <4>1, <4>3, IrWaits
    <3>3. QED
      BY <3>1, <3>2
  <2>3. QED
    BY <1>2, <1>3, <2>1, <2>2 DEF EndInv, AtMostOne
<1>7. QED
  BY <1>5, <1>6 DEF EndInv

LEMMA StepEndInv == EndInv /\ [Next]_vars => EndInv'
<1> SUFFICES ASSUME EndInv, [Next]_vars PROVE EndInv'
  OBVIOUS
<1>1. CASE Cycle
  BY <1>1, FetchStepOfCycle, StepElsewhere, StepFetch
<1>2. CASE End
  <2>1. UNCHANGED <<rst, pc, state, state_change, inst_valid, ir_queue, end_i_address>>
    BY <1>2 DEF End, EndTest, coreVars, controlVars, irVars
  <2>2. QED
    BY <2>1 DEF EndInv, AtMostOne, Within
<1>3. CASE UNCHANGED vars
  <2>1. UNCHANGED <<rst, pc, state, state_change, inst_valid, ir_queue, end_i_address>>
    BY <1>3 DEF vars, coreVars, benchVars, controlVars, irVars
  <2>2. QED
    BY <2>1 DEF EndInv, AtMostOne, Within
<1>4. QED
  BY <1>1, <1>2, <1>3 DEF Next

\* No instruction at or beyond the end of a self-checking program is executed.
THEOREM EndRespectedHolds == Spec => []EndRespected
<1>1. EndInv => EndRespected
  BY DEF EndInv, EndRespected
<1>2. QED
  BY <1>1, InitEndInv, StepEndInv, PTL DEF Spec

----------------------------------------------------------------------------
(* The testbench is a slave on the core's bus.                             *)

\* A request that the driver has not answered yet is accepted and pending; one
\* that was refused at the end of the program stays so.
Bus == INSTANCE OpenBusProofs WITH
  ReadyValues <- BOOLEAN, RespValues <- {0, 1},
  InstWords <- Word, DataWords <- Word,
  ir_pending <- Len(ir_queue) + (IF ir_ready THEN 0 ELSE 1),
  dr_pending <- Len(dr_queue),
  dw_pending <- Len(dw_queue)

\* The two cores compute with the same words,
LEMMA SameWords ==
  /\ Bus!Word = Word /\ Bus!Lanes = Lanes /\ Bus!Byte = Byte
  /\ \A w : /\ Bus!Wrap(w) = Wrap(w) /\ Bus!Signed(w) = Signed(w)
            /\ Bus!Offset(w) = Offset(w) /\ Bus!AlignDown(w) = AlignDown(w)
  /\ \A a, b : /\ Bus!BitAnd(a, b) = BitAnd(a, b)
               /\ Bus!BitOr(a, b) = BitOr(a, b)
               /\ Bus!BitXor(a, b) = BitXor(a, b)
  /\ \A w, n : /\ Bus!ShiftLeft(w, n) = ShiftLeft(w, n)
               /\ Bus!ShiftRight(w, n) = ShiftRight(w, n)
               /\ Bus!ShiftRightArith(w, n) = ShiftRightArith(w, n)
               /\ Bus!SignExtend(w, n) = SignExtend(w, n)
  /\ \A f, o, w : /\ Bus!StoreStrobe(f, o) = StoreStrobe(f, o)
                  /\ Bus!StoreData(f, o, w) = StoreData(f, o, w)
                  /\ Bus!LoadData(f, o, w) = LoadData(f, o, w)
<1>1. /\ Bus!ByteSize = ByteSize /\ Bus!WordBits = WordBits /\ Bus!WordSize = WordSize
      /\ Bus!Lanes = Lanes
  BY DEF Bus!ByteSize, ByteSize, Bus!WordBits, WordBits, Bus!WordSize, WordSize,
         Bus!Lanes, Lanes
<1>2. Bus!Word = Word /\ Bus!Byte = Byte
  BY <1>1 DEF Bus!Word, Word, Bus!Byte, Byte
<1>3. \A w : /\ Bus!Wrap(w) = Wrap(w) /\ Bus!Signed(w) = Signed(w)
             /\ Bus!Offset(w) = Offset(w) /\ Bus!AlignDown(w) = AlignDown(w)
  BY <1>1 DEF Bus!Wrap, Wrap, Bus!Signed, Signed, Bus!Offset, Offset,
              Bus!AlignDown, AlignDown
<1>4. \A w, n : Bus!SignExtend(w, n) = SignExtend(w, n) /\ Bus!LowBytes(w, n) = LowBytes(w, n)
  BY <1>1, <1>3 DEF Bus!SignExtend, SignExtend, Bus!LowBytes, LowBytes
<1>5. \A a, b : /\ Bus!BitAnd(a, b) = BitAnd(a, b)
                /\ Bus!BitOr(a, b) = BitOr(a, b)
                /\ Bus!BitXor(a, b) = BitXor(a, b)
  <2>1. \A w : Bus!Bits(w) = Bits(w)
    BY <1>1 DEF Bus!Bits, Bits
  <2>2. \A S : Bus!FromBits(S) = FromBits(S)
    BY DEF Bus!FromBits, FromBits
  <2>3. QED
    BY <2>1, <2>2 DEF Bus!BitAnd, BitAnd, Bus!BitOr, BitOr, Bus!BitXor, BitXor
<1>6. \A w, n : /\ Bus!ShiftLeft(w, n) = ShiftLeft(w, n)
                /\ Bus!ShiftRight(w, n) = ShiftRight(w, n)
                /\ Bus!ShiftRightArith(w, n) = ShiftRightArith(w, n)
  BY <1>3 DEF Bus!ShiftLeft, ShiftLeft, Bus!ShiftRight, ShiftRight,
              Bus!ShiftRightArith, ShiftRightArith
<1>7. \A f, o, w : /\ Bus!StoreStrobe(f, o) = StoreStrobe(f, o)
                   /\ Bus!StoreData(f, o, w) = StoreData(f, o, w)
                   /\ Bus!LoadData(f, o, w) = LoadData(f, o, w)
  BY <1>1, <1>3, <1>4 DEF Bus!StoreStrobe, StoreStrobe, Bus!StoreData, StoreData,
                          Bus!LoadData, LoadData
<1>8. QED
  BY <1>1, <1>2, <1>3, <1>4, <1>5, <1>6, <1>7

\* decode the same instructions,
LEMMA SameDecoder ==
  \A i : Bus!Decode(i) = Decode(i) /\ Bus!inst_type_of(i) = inst_type_of(i)
<1>1. \A i : Bus!FieldsOf(i) = FieldsOf(i)
  BY DEF Bus!FieldsOf, FieldsOf, Bus!NoFields, NoFields
<1>2. \A f : Bus!Opcode(f) = Opcode(f)
  BY DEF Bus!Opcode, Opcode, Bus!Opcodes, Opcodes, Bus!Unknown, Unknown
<1>3. \A f, it : Bus!funct(f, it) = funct(f, it)
  BY DEF Bus!funct, funct, Bus!int_imm_funct, int_imm_funct, Bus!int_reg_funct,
         int_reg_funct, Bus!IntFuncts, IntFuncts, Bus!BranchFuncts, BranchFuncts,
         Bus!StoreFuncts, StoreFuncts, Bus!LoadFuncts, LoadFuncts
<1>4. \A f, it, format : Bus!imm(f, it, format) = imm(f, it, format)
  <2>1. \A f : /\ Bus!imm_i(f) = imm_i(f) /\ Bus!imm_s(f) = imm_s(f)
               /\ Bus!imm_b(f) = imm_b(f) /\ Bus!imm_j(f) = imm_j(f)
               /\ Bus!imm_u(f) = imm_u(f)
    BY SameWords DEF Bus!imm_i, imm_i, Bus!imm_s, imm_s, Bus!imm_b, imm_b,
                     Bus!imm_j, imm_j, Bus!imm_u, imm_u, Bus!HighBit, HighBit
  <2>2. QED
    BY <2>1, SameWords DEF Bus!imm, imm
<1>5. QED
  BY <1>1, <1>2, <1>3, <1>4 DEF Bus!Decode, Decode, Bus!inst_type_of, inst_type_of

\* have the same wires
LEMMA SameWires ==
  /\ Bus!inst_fetch = inst_fetch /\ Bus!inst_type = inst_type
  /\ Bus!idec = idec /\ Bus!data_valid = data_valid
  /\ Bus!alu_dout = alu_dout /\ Bus!din1 = din1 /\ Bus!din2 = din2
  /\ Bus!rd_din = rd_din /\ Bus!pc_next = pc_next
  /\ Bus!write_data = write_data /\ Bus!write_strobe = write_strobe
<1>1. /\ Bus!inst_type = inst_type /\ Bus!idec = idec
      /\ Bus!inst_fetch = inst_fetch /\ Bus!data_valid = data_valid
  BY SameDecoder DEF Bus!inst_type, inst_type, Bus!idec, idec, Bus!inst_fetch, inst_fetch,
                     Bus!data_valid, data_valid
<1>2. Bus!rs1_value = rs1_value /\ Bus!rs2_value = rs2_value
  BY <1>1 DEF Bus!rs1_value, rs1_value, Bus!rs2_value, rs2_value,
              Bus!rs1_dout, rs1_dout, Bus!rs2_dout, rs2_dout
<1>3. Bus!Comp = Comp
  BY SameWords DEF Bus!Comp, Comp
<1>4. Bus!alu_dout = alu_dout
  <2>1. Bus!shamt = shamt
    BY DEF Bus!shamt, shamt, Bus!WordBits, WordBits
  <2>2. \A b : Bus!BoolWord(b) = BoolWord(b)
    BY DEF Bus!BoolWord, BoolWord
  <2>3. QED
    BY SameWords, <1>3, <2>1, <2>2 DEF Bus!alu_dout, alu_dout
<1>5. Bus!din1 = din1 /\ Bus!din2 = din2
  BY SameWords, <1>1, <1>2 DEF Bus!din1, din1, Bus!din2, din2, Bus!alu_din1_sel, alu_din1_sel,
    Bus!alu_din2_sel, alu_din2_sel, Bus!Link, Link
<1>6. Bus!rd_din = rd_din
  <2>1. Bus!ext_read_data = ext_read_data
    BY SameWords, <1>1 DEF Bus!ext_read_data, ext_read_data
  <2>2. Bus!rd_din_sel(inst_type) = rd_din_sel(inst_type)
    BY DEF Bus!rd_din_sel, rd_din_sel, Bus!rd_en, rd_en, Bus!Link, Link, Bus!Integer, Integer
  <2>3. QED
    BY <1>1, <1>4, <2>1, <2>2 DEF Bus!rd_din, rd_din
<1>7. Bus!pc_next = pc_next
  <2>1. \A it, f, c : Bus!pc_next_sel(it, f, c) = pc_next_sel(it, f, c)
    BY DEF Bus!pc_next_sel, pc_next_sel, Bus!take_branch, take_branch, Bus!Immediate,
      Immediate, Bus!Integer, Integer, Bus!Memory, Memory
  <2>2. QED
    BY SameWords, <1>1, <1>2, <1>3, <2>1 DEF Bus!pc_next, pc_next
<1>8. Bus!write_data = write_data /\ Bus!write_strobe = write_strobe
  BY SameWords, <1>1, <1>2, <1>4 DEF Bus!write_data, write_data, Bus!write_strobe,
    write_strobe, Bus!write_offset, write_offset
<1>9. QED
  BY <1>1, <1>4, <1>5, <1>6, <1>7, <1>8

\* and take the same clock edges.
LEMMA SameEdges ==
  /\ \A ia, i, drr, ra, d, dwr, wa, w :
       Bus!CoreEdge(ia, i, drr, ra, d, dwr, wa, w) <=> CoreEdge(ia, i, drr, ra, d, dwr, wa, w)
  /\ \A ia, i : Bus!CoreReset(ia, i) <=> CoreReset(ia, i)
<1>1. \A it, f : /\ Bus!rd_en(it) = rd_en(it) /\ Bus!rs1_en(it) = rs1_en(it)
                 /\ Bus!rs2_en(it) = rs2_en(it) /\ Bus!alu_load(it) = alu_load(it)
                 /\ Bus!alu_op(it, f) = alu_op(it, f) /\ Bus!load_data(it) = load_data(it)
                 /\ Bus!store_data(it) = store_data(it)
  BY DEF Bus!rd_en, rd_en, Bus!rs1_en, rs1_en, Bus!rs2_en, rs2_en, Bus!alu_load, alu_load,
    Bus!alu_op, alu_op, Bus!get_int_alu_op, get_int_alu_op, Bus!load_data, load_data,
    Bus!store_data, store_data, Bus!Link, Link, Bus!Integer, Integer, Bus!Immediate,
    Immediate, Bus!Memory, Memory
<1>2. \A it, iv, dv : /\ Bus!ControlEdge(it, iv, dv) <=> ControlEdge(it, iv, dv)
                      /\ Bus!ControlReset(it, iv, dv) <=> ControlReset(it, iv, dv)
  BY DEF Bus!ControlEdge, ControlEdge, Bus!ControlReset, ControlReset, Bus!state_next,
    state_next, Bus!Immediate, Immediate, Bus!Memory, Memory
<1>3. \A en, rd, d, en1, r1, en2, r2 :
        Bus!RegFileEdge(en, rd, d, en1, r1, en2, r2) <=> RegFileEdge(en, rd, d, en1, r1, en2, r2)
  BY DEF Bus!RegFileEdge, RegFileEdge, Bus!NextAddr, NextAddr
<1>4. \A load, a, b, o : Bus!AluEdge(load, a, b, o) <=> AluEdge(load, a, b, o)
  BY DEF Bus!AluEdge, AluEdge, Bus!aluVars, aluVars
<1>5. \A v, i : /\ Bus!ReadInstruction(v, i) <=> ReadInstruction(v, i)
                /\ Bus!BusReset(v, i) <=> BusReset(v, i)
  BY DEF Bus!ReadInstruction, ReadInstruction, Bus!BusReset, BusReset
<1>6. \A a, d, s, v, wv, w : Bus!WriteData(a, d, s, v, wv, w) <=> WriteData(a, d, s, v, wv, w)
  BY SameWords DEF Bus!WriteData, WriteData, Bus!RespOK, RespOK
<1>7. \A a, v, dv, d : Bus!ReadData(a, v, dv, d) <=> ReadData(a, v, dv, d)
  BY SameWords DEF Bus!ReadData, ReadData
<1>8. \A ready : /\ Bus!dw_req_fire(ready) = dw_req_fire(ready)
                 /\ Bus!dr_req_fire(ready) = dr_req_fire(ready)
  BY <1>1, SameWires DEF Bus!dw_req_fire, dw_req_fire, Bus!dr_req_fire, dr_req_fire
<1>9. QED
  BY SameWords, SameWires, <1>1, <1>2, <1>3, <1>4, <1>5, <1>6, <1>7, <1>8
     DEF Bus!CoreEdge, CoreEdge, Bus!CoreReset, CoreReset

LEMMA SameInit == Bus!CoreInit <=> CoreInit
BY SameWords DEF Bus!CoreInit, CoreInit

LEMMA SameTypes == Bus!CoreTypeOK <=> CoreTypeOK
<1>1. Bus!AluOp = AluOp /\ Bus!RegAddr = RegAddr /\ Bus!State = State
  BY DEF Bus!AluOp, AluOp, Bus!RegAddr, RegAddr, Bus!State, State
<1>2. QED
  BY SameWords, <1>1 DEF Bus!CoreTypeOK, CoreTypeOK, Bus!AluTypeOK, AluTypeOK,
    Bus!RegFileTypeOK, RegFileTypeOK, Bus!ControlTypeOK, ControlTypeOK,
    Bus!BusTypeOK, BusTypeOK

LEMMA SameTypesNext == Bus!CoreTypeOK' <=> CoreTypeOK'
BY SameTypes, PTL

\* What OpenBus assumes of its constants holds of the testbench's.
LEMMA BusAssumptions ==
  /\ Word \subseteq Bus!Word
  /\ PcInit \in Bus!Word
  /\ PowerUpWords \subseteq Bus!Word
  /\ PowerUpAddrs \subseteq Bus!RegAddr
  /\ PowerUpOps \subseteq Bus!AluOp
  /\ PowerUpMems \subseteq [Bus!RegAddr -> Bus!Word]
  /\ DOMAIN Slice \subseteq Bus!Word
  /\ \A w \in DOMAIN Slice : Slice[w] \in Bus!Fields
  /\ ByteBits \in {1, 2, 4, 8}
<1>1. Bus!AluOp = AluOp /\ Bus!RegAddr = RegAddr /\ Bus!Fields = Fields
  BY DEF Bus!AluOp, AluOp, Bus!RegAddr, RegAddr, Bus!Fields, Fields
<1>2. QED
  BY <1>1, SameWords, Copperv2Assumption, SliceAssumption, ByteBitsAssumption

LEMMA BusEdgeTypedAt ==
  ASSUME NEW ia \in BOOLEAN, NEW i \in Bus!Word, NEW drr \in BOOLEAN,
         NEW ra \in BOOLEAN, NEW d \in Bus!Word, NEW dwr \in BOOLEAN,
         NEW wa \in BOOLEAN, NEW w \in Int,
         Bus!CoreEdge(ia, i, drr, ra, d, dwr, wa, w), Bus!CoreTypeOK, rst' \in BOOLEAN
  PROVE  Bus!CoreTypeOK'
<1>1. /\ Word \subseteq Bus!Word /\ PcInit \in Bus!Word /\ PowerUpWords \subseteq Bus!Word
      /\ PowerUpAddrs \subseteq Bus!RegAddr /\ PowerUpOps \subseteq Bus!AluOp
      /\ PowerUpMems \subseteq [Bus!RegAddr -> Bus!Word]
  BY BusAssumptions
<1>2. /\ DOMAIN Slice \subseteq Bus!Word /\ \A x \in DOMAIN Slice : Slice[x] \in Bus!Fields
      /\ ByteBits \in {1, 2, 4, 8}
  BY BusAssumptions
<1>3. QED
  BY ONLY <1>1, <1>2, Bus!CoreEdgeTyped, Bus!CoreTypeOK, rst' \in BOOLEAN,
          ia \in BOOLEAN, i \in Bus!Word, drr \in BOOLEAN, ra \in BOOLEAN, d \in Bus!Word,
          dwr \in BOOLEAN, wa \in BOOLEAN, w \in Int,
          Bus!CoreEdge(ia, i, drr, ra, d, dwr, wa, w), SMTT(60)

LEMMA BusEdgeTyped ==
  ASSUME Bus!CoreTypeOK, rst' \in BOOLEAN,
         \E ia \in BOOLEAN, i \in Bus!Word, drr \in BOOLEAN, ra \in BOOLEAN, d \in Bus!Word,
            dwr \in BOOLEAN, wa \in BOOLEAN, w \in Int :
           Bus!CoreEdge(ia, i, drr, ra, d, dwr, wa, w)
  PROVE  Bus!CoreTypeOK'
<1>1. PICK ia \in BOOLEAN, i \in Bus!Word, drr \in BOOLEAN, ra \in BOOLEAN, d \in Bus!Word,
           dwr \in BOOLEAN, wa \in BOOLEAN, w \in Int :
        Bus!CoreEdge(ia, i, drr, ra, d, dwr, wa, w)
  OBVIOUS
<1>2. QED
  BY ONLY Bus!CoreTypeOK, rst' \in BOOLEAN, <1>1, BusEdgeTypedAt

\* The core looks at a response only when there is one, and at whether a
\* request is accepted only when there is one.
AnsweredEdge(ia, i, ra, d, wa, w) ==
  CoreEdge(ia, IF ia THEN i ELSE 0, load_data(inst_type) \/ dr_addr_valid,
           ra, IF ra THEN d ELSE 0, store_data(inst_type) \/ dw_req_valid,
           wa, IF wa THEN w ELSE 0)

LEMMA CoreEdgeAnswers ==
  ASSUME NEW ia \in BOOLEAN, NEW i, NEW ra \in BOOLEAN, NEW d, NEW wa \in BOOLEAN, NEW w,
         CoreEdge(ia, i, TRUE, ra, d, TRUE, wa, w)
  PROVE  AnsweredEdge(ia, i, ra, d, wa, w)
<1>1. ReadInstruction(ia, IF ia THEN i ELSE 0)
  BY DEF CoreEdge, ReadInstruction
<1>2. ReadData(alu_dout, dr_req_fire(load_data(inst_type) \/ dr_addr_valid),
               ra, IF ra THEN d ELSE 0)
  BY DEF CoreEdge, ReadData, dr_req_fire, load_data
<1>3. WriteData(alu_dout, write_data, write_strobe,
                dw_req_fire(store_data(inst_type) \/ dw_req_valid),
                wa, IF wa THEN w ELSE 0)
  BY DEF CoreEdge, WriteData, dw_req_fire, store_data
<1>4. QED
  BY <1>1, <1>2, <1>3 DEF CoreEdge, AnsweredEdge

\* What holds of core and testbench together.
BenchTyped == CoreTypeOK /\ BenchInv /\ dw_addr % 4 = 0

LEMMA InitTyped == Init => BenchTyped
<1> SUFFICES ASSUME Init PROVE BenchTyped
  OBVIOUS
<1>1. CoreTypeOK
  BY SameInit, SameTypes, BusAssumptions, Bus!CoreInitTyped DEF Init
<1>2. dw_addr % 4 = 0
  BY DEF Init, CoreInit
<1>3. QED
  BY <1>1, <1>2, BenchInitTyped DEF Init, BenchTyped

\* A store request is aligned: the core drops the low bits of its address.
LEMMA StepAligned ==
  ASSUME BenchTyped, \/ \E ia, i, drr, ra, d, dwr, wa, w : CoreEdge(ia, i, drr, ra, d, dwr, wa, w)
                     \/ \E ia, i : CoreReset(ia, i)
  PROVE  (dw_addr % 4 = 0)'
<1>1. AlignDown(alu_dout) % 4 = 0
  <2>1. alu_dout \in Word
    BY SameTypes, SameWires, SameWords, BusAssumptions, Bus!CoreWires
       DEF BenchTyped, Bus!WiresTyped
  <2>2. QED
    BY <2>1, AlignDownWord
<1>2. dw_addr' \in {0, dw_addr, AlignDown(alu_dout)}
  BY DEF CoreEdge, CoreReset, WriteData, BusReset
<1>3. CASE dw_addr' = 0
  BY <1>3
<1>4. CASE dw_addr' = dw_addr
  BY <1>4 DEF BenchTyped
<1>5. CASE dw_addr' = AlignDown(alu_dout)
  BY <1>1, <1>5
<1>6. QED
  BY <1>2, <1>3, <1>4, <1>5

\* A clock cycle keeps the types, and is one of a core with a slave on its bus.
LEMMA CycleImplements ==
  ASSUME BenchTyped, EndInv, Cycle
  PROVE  BenchTyped' /\ Bus!Next
<1>1. PICK ir \in BOOLEAN, dr \in BOOLEAN, dw \in BOOLEAN : ClockEdge(ir, dr, dw)
  BY DEF Cycle
<1> DEFINE addr == ir_addr(pc, ir_ready)
           ia == ir_data_valid(ir, addr)
<1>2. PICK timer_counter \in TimerCounts :
        /\ BenchEdge(ir, dr, dw, inst_fetch, addr, timer_counter)
        /\ IF rst
             THEN CoreEdge(ia, ir_data(addr),
                           TRUE, dr, dr_data(timer_counter), TRUE, dw, dw_resp)
             ELSE CoreReset(ia, ir_data(addr))
  BY <1>1 DEF ClockEdge
<1>3. rst' = TRUE
  BY DEF Cycle, Running
<1>4. /\ rst \in BOOLEAN /\ dw_addr \in Word /\ dw_data \in Word /\ dw_strobe \subseteq Lanes
      /\ dr_addr_valid \in BOOLEAN /\ dw_req_valid \in BOOLEAN /\ dw_addr % 4 = 0
      /\ state_change \in BOOLEAN /\ BenchInv
  BY DEF BenchTyped, CoreTypeOK, BusTypeOK, ControlTypeOK
<1>5. inst_fetch \in BOOLEAN
  BY DEF inst_fetch
<1>6. ir_request(inst_fetch) => ir_queue = <<>>
  BY DEF EndInv, ir_request, inst_fetch
<1>7. Len(ir_queue) <= 1
  <2>1. \A x : Len(<<x>>) = 1
    OBVIOUS
  <2>2. QED
    BY <2>1 DEF EndInv, AtMostOne
<1> HIDE DEF addr
<1>8. /\ BenchInv' /\ Answers(ir, dr, dw, addr, timer_counter)
      /\ Channels(ir_data_valid(ir, addr), dr, dw, inst_fetch)
  BY ONLY <1>2, <1>3, <1>4, <1>5, <1>6, <1>7, BenchEdgeTyped,
          ir \in BOOLEAN, dr \in BOOLEAN, dw \in BOOLEAN
<1>9. (dw_addr % 4 = 0)'
  BY <1>2, StepAligned
<1> DEFINE i == IF ia THEN ir_data(addr) ELSE 0
           d == IF dr THEN dr_data(timer_counter) ELSE 0
           w == IF dw THEN dw_resp ELSE 0
           irr == inst_fetch /\ ir_ready
           drr == load_data(inst_type) \/ dr_addr_valid
           dwr == store_data(inst_type) \/ dw_req_valid
<1>10. /\ ia \in BOOLEAN /\ irr \in BOOLEAN /\ drr \in BOOLEAN /\ dwr \in BOOLEAN
       /\ i \in Word /\ d \in Word /\ w \in {0, 1}
  BY <1>4, <1>5, <1>8, ZeroWord DEF Answers, load_data, store_data, RespOK, BenchInv, BenchTypeOK
<1>11. CASE rst
  <2>1. CoreEdge(ia, i, drr, dr, d, dwr, dw, w)
    <3>1. CoreEdge(ia, ir_data(addr), TRUE, dr, dr_data(timer_counter), TRUE, dw, dw_resp)
      BY <1>2, <1>11
    <3>2. AnsweredEdge(ia, ir_data(addr), dr, dr_data(timer_counter), dw, dw_resp)
      <4> HIDE DEF ia
      <4>1. QED
        BY <1>10, <3>1, CoreEdgeAnswers
    <3>3. QED
      BY <3>2 DEF AnsweredEdge
  <2> HIDE DEF ia, i, d, w, irr, drr, dwr
  <2>2. Bus!CoreEdge(ia, i, drr, dr, d, dwr, dw, w)
    BY <2>1, SameEdges
  <2>3. CoreTypeOK'
    <3>1. /\ Bus!CoreTypeOK /\ rst' \in BOOLEAN
          /\ i \in Bus!Word /\ d \in Bus!Word /\ w \in Int
      BY <1>3, <1>10, SameTypes, SameWords DEF BenchTyped
    <3>2. Bus!CoreTypeOK'
      BY ONLY <1>10, <2>2, <3>1, BusEdgeTypedAt, dr \in BOOLEAN, dw \in BOOLEAN,
              SMTT(60)
    <3>3. QED
      BY <3>2, SameTypesNext
  <2>4. Bus!ClockEdge(ia, dr, dw)
    <3>1. /\ Bus!Channel(ir_under_way, ir_under_way', inst_fetch /\ irr, ia)
          /\ Bus!Channel(Len(dr_queue), Len(dr_queue)', dr_addr_valid /\ drr, dr)
          /\ Bus!Channel(Len(dw_queue), Len(dw_queue)', dw_req_valid /\ dwr, dw)
      BY <1>8, <1>11 DEF Channels, Pending, Bus!Channel, Bus!Count, irr, drr, dwr, ia,
                         ir_request, dr_request, dw_request
    <3>2. /\ irr \in Bus!Ready(Bus!inst_fetch)
          /\ drr \in Bus!Ready(Bus!load_data(Bus!inst_type) \/ dr_addr_valid)
          /\ dwr \in Bus!Ready(Bus!store_data(Bus!inst_type) \/ dw_req_valid)
      BY <1>10, SameWires DEF Bus!Ready, irr, drr, dwr, Bus!load_data, load_data,
                              Bus!store_data, store_data
    <3>3. /\ i \in Bus!Payload(ia, Word) /\ d \in Bus!Payload(dr, Word)
          /\ w \in Bus!Payload(dw, {0, 1})
      BY <1>10 DEF Bus!Payload, i, d, w
    <3>4. QED
      BY <1>11, <2>2, <3>1, <3>2, <3>3, SameWires DEF Bus!ClockEdge, ir_under_way
  <2>5. QED
    BY <1>3, <1>8, <1>9, <1>10, <2>3, <2>4 DEF BenchTyped, Bus!Next, Bus!Runs
<1>12. CASE ~rst
  <2>1. /\ ir_under_way = 0 /\ dr_queue = <<>> /\ dw_queue = <<>>
        /\ ~ir_request(inst_fetch) /\ ~dr_request /\ ~dw_request
    BY <1>4, <1>12 DEF BenchInv, ir_under_way, ir_request, dr_request, dw_request
  <2>2. /\ ~ia /\ ir_under_way' = 0 /\ Len(dr_queue') = 0 /\ Len(dw_queue') = 0
    BY <1>8, <2>1 DEF Channels, Pending
  <2>3. CoreReset(FALSE, 0)
    BY <1>2, <1>12, <2>2 DEF CoreReset, BusReset
  <2>4. Bus!InReset
    BY <1>12, <2>2, <2>3, SameEdges DEF Bus!InReset, Bus!SlaveReset, ir_under_way
  <2>5. CoreTypeOK'
    <3>1. Bus!CoreTypeOK /\ rst' \in BOOLEAN /\ Bus!CoreReset(FALSE, 0)
      BY <1>3, <2>3, SameTypes, SameEdges DEF BenchTyped
    <3>2. Bus!CoreTypeOK'
      BY ONLY <3>1, BusAssumptions, Bus!CoreResetTyped
    <3>3. QED
      BY <3>2, SameTypesNext
  <2>6. QED
    BY <1>3, <1>8, <1>9, <2>4, <2>5 DEF BenchTyped, Bus!Next
<1>13. QED
  BY <1>11, <1>12

LEMMA StepImplements ==
  BenchTyped /\ EndInv /\ [Next]_vars => BenchTyped' /\ [Bus!Next]_Bus!vars
<1> SUFFICES ASSUME BenchTyped, EndInv, [Next]_vars
             PROVE  BenchTyped' /\ [Bus!Next]_Bus!vars
  OBVIOUS
<1>1. CASE Cycle
  BY <1>1, CycleImplements
<1>2. CASE End
  <2>1. /\ UNCHANGED <<coreVars, memory, end_i_address, fake_uart, ir_ready,
                       ir_queue, dr_queue, dw_queue>>
        /\ verdict' \in {"pass", "fail"}
    BY <1>2 DEF End, EndTest, Outcome
  <2>2. BenchTyped'
    BY <2>1 DEF coreVars, aluVars, regVars, controlVars, irVars, drVars, dwVars, BenchTyped,
      CoreTypeOK, AluTypeOK, RegFileTypeOK, ControlTypeOK, BusTypeOK, BenchInv, BenchTypeOK,
      dw_item
  <2>3. UNCHANGED Bus!vars
    BY <2>1 DEF coreVars, aluVars, regVars, controlVars, irVars, drVars, dwVars,
      Bus!vars, Bus!coreVars, Bus!aluVars, Bus!regVars, Bus!controlVars, Bus!irVars,
      Bus!drVars, Bus!dwVars, Bus!slaveVars
  <2>4. QED
    BY <2>2, <2>3
<1>3. CASE UNCHANGED vars
  <2>1. UNCHANGED <<coreVars, benchVars>>
    BY <1>3 DEF vars
  <2>2. BenchTyped'
    BY <2>1 DEF coreVars, aluVars, regVars, controlVars, irVars, drVars, dwVars, BenchTyped,
      CoreTypeOK, AluTypeOK, RegFileTypeOK, ControlTypeOK, BusTypeOK, BenchInv, BenchTypeOK,
      dw_item, benchVars
  <2>3. UNCHANGED Bus!vars
    BY <2>1 DEF coreVars, aluVars, regVars, controlVars, irVars, drVars, dwVars, benchVars,
      Bus!vars, Bus!coreVars, Bus!aluVars, Bus!regVars, Bus!controlVars, Bus!irVars,
      Bus!drVars, Bus!dwVars, Bus!slaveVars
  <2>4. QED
    BY <2>2, <2>3
<1>4. QED
  BY <1>1, <1>2, <1>3 DEF Next

THEOREM BenchInvariant == Spec => [](BenchTyped /\ EndInv)
BY InitTyped, InitEndInv, StepImplements, StepEndInv, PTL DEF Spec

\* Registers, memory, devices and queues hold values of their types: no store
\* leaves the bytes of the memory, nor its addresses, whatever the program.
THEOREM TypeOKHolds == Spec => []TypeOK
<1>1. BenchTyped => TypeOK
  BY DEF BenchTyped, BenchInv, TypeOK
<1>2. QED
  BY <1>1, BenchInvariant, PTL

\* The testbench is a slave within the handshake that the core is proved
\* against: every behaviour of core and testbench is one of the core on an open
\* bus, so what is proved of it there holds here.
THEOREM ImplementsOpenBus == Spec => Bus!Spec
<1>1. Init => Bus!Init
  BY SameInit DEF Init, BenchInit, Load, Bus!Init, Bus!SlaveInit
<1>2. QED
  BY <1>1, BenchInvariant, StepImplements, PTL DEF Spec, Bus!Spec

\* Under the testbench the core follows the bus protocol, with at most one
\* transaction under way: the memory never has two requests to answer, and the
\* answer that its driver gives late is still the one the core waits for.
THEOREM ProtocolUnderTest ==
  Spec => /\ Bus!RestartsProtocol
          /\ []Bus!OneTransaction
          /\ []Bus!ResponseAwaited
<1> USE BusAssumptions
<1>1. Bus!Spec => Bus!RestartsProtocol
  BY Bus!CoreRestartsProtocol
<1>2. Bus!Spec => []Bus!OneTransaction
  BY Bus!OneTransactionHolds
<1>3. Bus!Spec => []Bus!ResponseAwaited
  BY Bus!ResponseAwaitedHolds
<1>4. QED
  BY <1>1, <1>2, <1>3, ImplementsOpenBus, PTL

----------------------------------------------------------------------------
(* What core and bus are known to do, and the cycles of an instruction.    *)

\* What is proved of the core on an open bus, in the testbench's terms.
BusFacts ==
  /\ state \in {"RESET", "FETCH", "DECODE", "EXEC", "MEM", "COMMIT"}
  /\ inst_valid => state = "FETCH"
  /\ state = "MEM" => inst_type \in Memory
  /\ ~(state = "MEM" /\ inst_type = "LOAD") =>
       ~dr_addr_valid /\ dr_queue = <<>> /\ ~read_valid
  /\ ~(state = "MEM" /\ inst_type = "STORE") =>
       ~dw_req_valid /\ dw_queue = <<>> /\ ~write_valid
  /\ Len(dr_queue) <= 1 /\ Len(dw_queue) <= 1
  /\ state_change => /\ ~dr_addr_valid /\ dr_queue = <<>> /\ ~read_valid
                     /\ ~dw_req_valid /\ dw_queue = <<>> /\ ~write_valid
  /\ dr_addr_valid => dr_queue = <<>> /\ ~read_valid
  /\ dw_req_valid => dw_queue = <<>> /\ ~write_valid
  /\ read_valid => dr_queue = <<>>
  /\ write_valid => dw_queue = <<>>
  /\ state \in {"EXEC", "MEM", "COMMIT"} =>
       /\ inst_type \in {"INT_IMM", "LOAD", "JALR", "INT_REG", "BRANCH", "STORE"} =>
            rs1_value = IF idec.rs1 = 0 THEN 0 ELSE mem[idec.rs1]
       /\ inst_type \in {"INT_REG", "BRANCH", "STORE"} =>
            rs2_value = IF idec.rs2 = 0 THEN 0 ELSE mem[idec.rs2]
  /\ state = "COMMIT" /\ inst_type = "LOAD" => read_offset = Offset(alu_dout)

\* They follow from the invariants of core and bus.
LEMMA BusFactsHold == BenchTyped /\ Bus!LatchInv => BusFacts
<1> SUFFICES ASSUME BenchTyped, Bus!LatchInv PROVE BusFacts
  OBVIOUS
<1>1. Bus!ControlsTyped /\ Bus!PhaseInv /\ Bus!OperandsHeld /\ Bus!OffsetKept
  BY DEF Bus!LatchInv, Bus!BusInv
<1>2. /\ state \in {"RESET", "FETCH", "DECODE", "EXEC", "MEM", "COMMIT"}
      /\ state_change \in BOOLEAN
      /\ inst_valid \in BOOLEAN /\ read_valid \in BOOLEAN /\ write_valid \in BOOLEAN
      /\ dr_addr_valid \in BOOLEAN /\ dw_req_valid \in BOOLEAN
      /\ Len(ir_queue) + (IF ir_ready THEN 0 ELSE 1) \in Nat
      /\ Len(dr_queue) \in Nat /\ Len(dw_queue) \in Nat
  BY <1>1 DEF Bus!ControlsTyped, Bus!State
<1>3. Bus!inst_type = inst_type /\ Bus!Memory = Memory /\ Memory = {"LOAD", "STORE"}
  BY SameWires DEF Bus!Memory, Memory
<1>4. /\ \A q \in Seq(Item) : Len(q) = 0 => q = <<>>
      /\ dr_queue \in Seq(Item) /\ dw_queue \in Seq(Item)
  BY DEF BenchTyped, BenchInv, BenchTypeOK
<1>5. /\ inst_valid => state = "FETCH"
      /\ state = "MEM" => inst_type \in Memory
      /\ ~(state = "MEM" /\ inst_type = "LOAD") =>
           ~dr_addr_valid /\ Len(dr_queue) = 0 /\ ~read_valid
      /\ ~(state = "MEM" /\ inst_type = "STORE") =>
           ~dw_req_valid /\ Len(dw_queue) = 0 /\ ~write_valid
      /\ Len(dr_queue) <= 1 /\ Len(dw_queue) <= 1
      /\ state_change => /\ ~dr_addr_valid /\ Len(dr_queue) = 0 /\ ~read_valid
                         /\ ~dw_req_valid /\ Len(dw_queue) = 0 /\ ~write_valid
      /\ dr_addr_valid => Len(dr_queue) = 0 /\ ~read_valid
      /\ dw_req_valid => Len(dw_queue) = 0 /\ ~write_valid
      /\ read_valid => Len(dr_queue) = 0
      /\ write_valid => Len(dw_queue) = 0
  <2> DEFINE ip == Len(ir_queue) + (IF ir_ready THEN 0 ELSE 1)
             dp == Len(dr_queue)
             wp == Len(dw_queue)
  <2>1. /\ state # "FETCH" => ip + Bus!Count(inst_valid) = 0
        /\ ~(state = "MEM" /\ inst_type = "LOAD") =>
             Bus!Count(dr_addr_valid) + dp + Bus!Count(read_valid) = 0
        /\ ~(state = "MEM" /\ inst_type = "STORE") =>
             Bus!Count(dw_req_valid) + wp + Bus!Count(write_valid) = 0
        /\ state = "MEM" => inst_type \in Memory
        /\ state = "MEM" /\ inst_type = "LOAD" =>
             Bus!Count(state_change) + (Bus!Count(dr_addr_valid) + dp + Bus!Count(read_valid)) <= 1
        /\ state = "MEM" /\ inst_type = "STORE" =>
             Bus!Count(state_change) + (Bus!Count(dw_req_valid) + wp + Bus!Count(write_valid)) <= 1
    BY <1>1, <1>3 DEF Bus!PhaseInv, Bus!IrBusy, Bus!DrBusy, Bus!DwBusy
  <2>2. ip \in Nat /\ dp \in Nat /\ wp \in Nat
    BY <1>2
  <2> HIDE DEF ip, dp, wp
  <2>3. /\ inst_valid => state = "FETCH"
        /\ state = "MEM" => inst_type \in Memory
        /\ ~(state = "MEM" /\ inst_type = "LOAD") => ~dr_addr_valid /\ dp = 0 /\ ~read_valid
        /\ ~(state = "MEM" /\ inst_type = "STORE") => ~dw_req_valid /\ wp = 0 /\ ~write_valid
    BY ONLY <1>2, <2>1, <2>2 DEF Bus!Count
  <2>4. /\ dp <= 1
        /\ state_change => ~dr_addr_valid /\ dp = 0 /\ ~read_valid
        /\ dr_addr_valid => dp = 0 /\ ~read_valid
        /\ read_valid => dp = 0
    BY ONLY <1>2, <2>1, <2>2 DEF Bus!Count
  <2>5. /\ wp <= 1
        /\ state_change => ~dw_req_valid /\ wp = 0 /\ ~write_valid
        /\ dw_req_valid => wp = 0 /\ ~write_valid
        /\ write_valid => wp = 0
    BY ONLY <1>2, <2>1, <2>2 DEF Bus!Count
  <2>6. QED
    BY <2>3, <2>4, <2>5 DEF dp, wp
<1>6. state \in {"EXEC", "MEM", "COMMIT"} =>
       /\ inst_type \in {"INT_IMM", "LOAD", "JALR", "INT_REG", "BRANCH", "STORE"} =>
            rs1_value = IF idec.rs1 = 0 THEN 0 ELSE mem[idec.rs1]
       /\ inst_type \in {"INT_REG", "BRANCH", "STORE"} =>
            rs2_value = IF idec.rs2 = 0 THEN 0 ELSE mem[idec.rs2]
  <2>1. Bus!idec = idec
    BY SameWires
  <2> HIDE DEF idec, inst_type
  <2>2. QED
    BY <1>1, <1>3, <2>1 DEF Bus!OperandsHeld, rs1_value, rs2_value, rs1_dout, rs2_dout
<1>7. state = "COMMIT" /\ inst_type = "LOAD" => read_offset = Offset(alu_dout)
  BY <1>1, <1>3, SameWires, SameWords DEF Bus!OffsetKept
<1>8. QED
  BY <1>2, <1>4, <1>5, <1>6, <1>7 DEF BusFacts

\* One clock cycle out of reset.
RunningEdge(ir, dr, dw, t) ==
  /\ rst /\ verdict = "running" /\ ~(dw_request /\ EndsTest)
  /\ ir \in BOOLEAN /\ dr \in BOOLEAN /\ dw \in BOOLEAN /\ t \in TimerCounts
  /\ BenchEdge(ir, dr, dw, inst_fetch, ir_addr(pc, ir_ready), t)
  /\ LET addr == ir_addr(pc, ir_ready)
     IN  CoreEdge(ir_data_valid(ir, addr), ir_data(addr),
                  TRUE, dr, dr_data(t), TRUE, dw, dw_resp)

\* A cycle out of reset is one of them.
LEMMA CycleEdge ==
  ASSUME Cycle, rst
  PROVE  \E ir, dr, dw, t : RunningEdge(ir, dr, dw, t)
BY DEF Cycle, Running, ClockEdge, RunningEdge

\* The instruction being executed stays where it is.
LEMMA InstructionStays ==
  ASSUME EndInv, BusFacts, NEW ir, NEW dr, NEW dw, NEW t, RunningEdge(ir, dr, dw, t),
         inst_valid \/ state \notin {"RESET", "FETCH"}
  PROVE  /\ inst' = inst /\ idec' = idec /\ inst_type' = inst_type
         /\ ~inst_valid' /\ ir_queue' = <<>>
<1> DEFINE addr == ir_addr(pc, ir_ready)
<1>1. ir_queue = <<>> /\ ir_request(inst_fetch) = FALSE
  BY DEF EndInv, BusFacts, ir_request, inst_fetch
<1>2. ir \in BOOLEAN /\ Drive(ir_queue, ir_queue', FALSE, ir_item(addr), ir)
  BY <1>1 DEF RunningEdge, BenchEdge
<1>3. ir_queue' = <<>> /\ ~ir_data_valid(ir, addr)
  BY <1>1, <1>2, IrIdle
<1>4. inst' = inst /\ ~inst_valid'
  BY <1>3 DEF RunningEdge, CoreEdge, ReadInstruction
<1>5. QED
  BY <1>3, <1>4 DEF idec, inst_type

\* No instruction but a store changes the memory, and that in MEM alone.
LEMMA MemoryStays ==
  ASSUME BusFacts, NEW ir, NEW dr, NEW dw, NEW t, RunningEdge(ir, dr, dw, t),
         ~dw_request
  PROVE  memory' = memory /\ fake_uart' = fake_uart
BY DEF RunningEdge, BenchEdge

\* A store becomes visible when its request is performed, and stays so.
LEMMA VisibleStep ==
  ASSUME BenchTyped, EndInv, BusFacts, BusFacts', NEW ir, NEW dr, NEW dw, NEW t,
         RunningEdge(ir, dr, dw, t)
  PROVE  /\ state = "MEM" /\ inst_type = "STORE" =>
              (StoreVisible' <=> StoreVisible \/ dw_request)
         /\ ~(state = "MEM" /\ inst_type = "STORE") => ~StoreVisible'
<1>1. /\ state' = state_next(inst_type, inst_valid, data_valid)
      /\ state_change' = (state # state_next(inst_type, inst_valid, data_valid))
  BY DEF RunningEdge, CoreEdge, ControlEdge
<1>2. verdict' = "running" /\ verdict = "running" /\ rst
  BY DEF RunningEdge, BenchEdge
<1>3. CASE state = "MEM" /\ inst_type = "STORE"
  <2>1. inst_type' = "STORE"
    BY <1>3, InstructionStays
  <2>2. /\ dw \in BOOLEAN /\ Drive(dw_queue, dw_queue', dw_request, dw_item, dw)
        /\ write_valid' = (dw /\ dw_resp = RespOK)
    BY DEF RunningEdge, BenchEdge, CoreEdge, WriteData
  <2>3. ~read_valid
    BY <1>3 DEF BusFacts
  <2>4. dw_queue \in Seq({dw_item})
    BY DEF BenchTyped, BenchInv
  <2>5. dw_resp = RespOK /\ (dw_queue' # <<>> \/ dw <=> dw_queue # <<>> \/ dw_request)
    BY <2>2, <2>4, WriteAnswers
  <2>6. CASE write_valid
    <3>1. StoreVisible /\ state' = "COMMIT"
      BY <1>1, <1>3, <2>6 DEF StoreVisible, state_next, data_valid
    <3>2. QED
      BY <1>3, <2>1, <3>1 DEF StoreVisible
  <2>7. CASE ~write_valid
    <3>1. state' = "MEM"
      BY <1>1, <1>3, <2>3, <2>7 DEF state_next, data_valid
    <3>2. StoreVisible' <=> dw_queue' # <<>> \/ dw
      BY <1>2, <2>1, <2>2, <2>5, <3>1 DEF StoreVisible
    <3>3. StoreVisible <=> dw_queue # <<>>
      BY <1>2, <1>3, <2>7 DEF StoreVisible
    <3>4. QED
      BY <1>3, <2>5, <3>2, <3>3
  <2>8. QED
    BY <2>6, <2>7
<1>4. CASE ~(state = "MEM" /\ inst_type = "STORE")
  <2> SUFFICES ASSUME StoreVisible' PROVE FALSE
    BY <1>4
  <2>1. inst_type' = "STORE" /\ state' \in {"MEM", "COMMIT"}
    BY DEF StoreVisible
  <2>2. state \in {"EXEC", "MEM"}
    BY <1>1, <2>1 DEF state_next, BusFacts
  <2>3. inst_type = "STORE"
    BY <2>1, <2>2, InstructionStays
  <2>4. state = "EXEC" /\ state' = "MEM" /\ state_change'
    BY <1>1, <1>4, <2>2, <2>3 DEF state_next, Memory
  <2>5. QED
    BY <1>2, <2>4 DEF StoreVisible, BusFacts
<1>5. QED
  BY <1>3, <1>4

----------------------------------------------------------------------------
(* The core holds what the instruction says.                               *)

\* The instruction register holds the instruction at the program counter, until
\* a store of the instruction itself may have changed the memory there.
Executing == inst_valid \/ state \in {"DECODE", "EXEC", "MEM", "COMMIT"}

InstructionInv ==
  /\ ~rst => pc = PcInit
  /\ ir_queue # <<>> =>
       /\ state = "FETCH"
       /\ ir_queue[1].kind = "response" => ir_queue[1].data = from_array(memory, pc)
  /\ Executing /\ ~StoreVisible => inst = from_array(memory, pc)

\* The arithmetic unit holds the operands of the instruction.
Operand1 == IF inst_type \in Link THEN pc ELSE rs1_value

Operand2 == CASE inst_type \in {"INT_REG", "BRANCH"} -> rs2_value
              [] inst_type \in {"JAL", "JALR"}       -> Wrap(4)
              [] OTHER                               -> idec.imm

Operation == CASE inst_type \in Integer            -> get_int_alu_op(idec.funct)
               [] inst_type \in Memory \cup Link -> "ADD"
               [] OTHER                            -> "NOP"

OperandInv ==
  /\ state \in {"EXEC", "MEM", "COMMIT"} => inst_type \notin Immediate
  /\ state \in {"MEM", "COMMIT"} => in1 = Operand1 /\ in2 = Operand2 /\ op = Operation

\* What a load may get: the word at its address, or a value of the timer.
Source == ReadSource(AlignDown(alu_dout))

LoadInv ==
  inst_type = "LOAD" =>
    /\ state = "MEM" /\ dr_addr_valid => dr_addr = AlignDown(alu_dout)
    /\ state = "MEM" /\ dr_queue # <<>> => dr_queue[1].data \in Source
    /\ (state = "MEM" /\ read_valid) \/ state = "COMMIT" => read_data \in Source

\* The store request is the instruction's.
StoreInv ==
  state = "MEM" /\ inst_type = "STORE" /\ dw_req_valid =>
    dw_addr = AlignDown(alu_dout) /\ dw_data = write_data /\ dw_strobe = write_strobe

ProgramInv == InstructionInv /\ OperandInv /\ LoadInv /\ StoreInv

\* The invariant holds before the first clock edge.
LEMMA InitProgramInv == Init => ProgramInv
BY DEF Init, CoreInit, BenchInit, Load, ProgramInv, InstructionInv, OperandInv, LoadInv,
       StoreInv, Executing

----------------------------------------------------------------------------
\* A clock cycle out of reset.

\* Only a store, while its request is presented, changes memory and devices.
LEMMA RequestOfStore ==
  ASSUME BusFacts, dw_request
  PROVE  state = "MEM" /\ inst_type = "STORE"
BY DEF BusFacts, dw_request

\* A clock edge keeps the fetched instruction that of the program counter.
LEMMA StepInstruction ==
  ASSUME BenchTyped, EndInv, EndInv', BusFacts, BusFacts', InstructionInv, rst',
         NEW ir, NEW dr, NEW dw, NEW t, RunningEdge(ir, dr, dw, t)
  PROVE  InstructionInv'
<1> DEFINE addr == ir_addr(pc, ir_ready)
<1>1. /\ state' = state_next(inst_type, inst_valid, data_valid)
      /\ state_change' = (state # state_next(inst_type, inst_valid, data_valid))
      /\ pc' = pc_next
  BY DEF RunningEdge, CoreEdge, ControlEdge
<1>2. CASE state = "RESET"
  <2>1. state' = "FETCH" /\ state_change' /\ ir_queue' = <<>> /\ ~inst_valid'
    BY <1>1, <1>2 DEF state_next, EndInv
  <2>2. QED
    BY <2>1 DEF InstructionInv, Executing
<1>3. CASE state = "FETCH"
  <2>1. pc' = pc /\ memory' = memory /\ ~StoreVisible /\ ~StoreVisible'
    <3>1. pc' = pc
      BY <1>1, <1>3 DEF pc_next, pc_next_sel
    <3>2. ~dw_request
      BY <1>3, RequestOfStore
    <3>3. ~StoreVisible
      BY <1>3 DEF StoreVisible
    <3>4. ~StoreVisible'
      BY <1>3, VisibleStep
    <3>5. QED
      BY <3>1, <3>2, <3>3, <3>4, MemoryStays
  <2>2. CASE inst_valid
    <3>1. inst' = inst /\ ir_queue' = <<>>
      BY <2>2, InstructionStays
    <3>2. inst = from_array(memory, pc)
      BY <2>1, <2>2 DEF InstructionInv, Executing
    <3>3. QED
      BY <2>1, <3>1, <3>2 DEF InstructionInv
  <2>3. CASE ~inst_valid
    <3>1. state' = "FETCH"
      BY <1>1, <1>3, <2>3 DEF state_next
    <3>2. /\ ir \in BOOLEAN
          /\ Drive(ir_queue, ir_queue', ir_request(inst_fetch), ir_item(addr), ir)
          /\ inst_valid' = ir_data_valid(ir, addr)
          /\ inst' = IF ir_data_valid(ir, addr) THEN ir_data(addr) ELSE inst
      BY DEF RunningEdge, BenchEdge, CoreEdge, ReadInstruction
    <3>3. ir_queue = <<>> \/ ir_queue = <<ir_queue[1]>>
      BY DEF EndInv, AtMostOne
    <3>4. ir_request(inst_fetch) \in BOOLEAN
      BY DEF EndInv, ir_request, inst_fetch
    <3>5. ir_request(inst_fetch) => ir_queue = <<>> /\ addr = pc
      BY DEF EndInv, ir_request, inst_fetch, ir_addr
    <3> DEFINE w == from_array(memory, pc)
    <3>6. /\ ir_queue' # <<>> /\ ir_queue'[1].kind = "response" => ir_queue'[1].data = w
          /\ ir_data_valid(ir, addr) => ir_data(addr) = w
      <4>1. ir_queue # <<>> /\ ir_queue[1].kind = "response" => ir_queue[1].data = w
        BY DEF InstructionInv
      <4> HIDE DEF w
      <4>2. ir_request(inst_fetch) => ir_queue = <<>> /\ from_array(memory, addr) = w
        BY <3>5 DEF w
      <4> HIDE DEF addr
      <4>3. QED
        BY <3>2, <3>3, <3>4, <4>1, <4>2, FetchAnswers
    <3>7. inst_valid' => inst' = w
      BY <3>2, <3>6
    <3>8. QED
      BY <2>1, <3>1, <3>6, <3>7 DEF InstructionInv, Executing
  <2>4. QED
    BY <2>2, <2>3
<1>4. CASE state \notin {"RESET", "FETCH"}
  <2>1. inst' = inst /\ ir_queue' = <<>> /\ ~inst_valid'
    BY <1>4, InstructionStays
  <2>2. CASE state' \in {"RESET", "FETCH"} \/ StoreVisible'
    BY <2>1, <2>2 DEF InstructionInv, Executing
  <2>3. CASE state' \notin {"RESET", "FETCH"} /\ ~StoreVisible'
    <3>1. pc' = pc
      BY <1>1, <1>4, <2>3 DEF pc_next, pc_next_sel, state_next
    <3>2. ~dw_request
      BY <2>3, RequestOfStore, VisibleStep
    <3>3. memory' = memory
      BY <3>2, MemoryStays
    <3>4. ~StoreVisible
      <4>1. CASE state = "MEM" /\ inst_type = "STORE"
        BY <2>3, <4>1, VisibleStep
      <4>2. CASE state = "COMMIT"
        BY <1>1, <2>3, <4>2 DEF state_next
      <4>3. CASE ~(state = "MEM" /\ inst_type = "STORE") /\ state # "COMMIT"
        BY <4>3 DEF StoreVisible
      <4>4. QED
        BY <4>1, <4>2, <4>3
    <3>5. inst = from_array(memory, pc)
      BY <1>4, <3>4 DEF InstructionInv, Executing, BusFacts
    <3>6. QED
      BY <2>1, <3>1, <3>3, <3>5 DEF InstructionInv
  <2>4. QED
    BY <2>2, <2>3
<1>5. QED
  BY <1>2, <1>3, <1>4

\* Registers, operands and the program counter in EXEC and MEM.
LEMMA OperandsStay ==
  ASSUME EndInv, BusFacts, NEW ir, NEW dr, NEW dw, NEW t, RunningEdge(ir, dr, dw, t),
         state \in {"EXEC", "MEM"}
  PROVE  /\ pc' = pc /\ idec' = idec /\ inst_type' = inst_type /\ mem' = mem
         /\ rs1_value' = rs1_value /\ rs2_value' = rs2_value
         /\ state = "MEM" => in1' = in1 /\ in2' = in2 /\ op' = op
<1>1. idec' = idec /\ inst_type' = inst_type
  BY InstructionStays
<1>2. /\ pc' = pc_next
      /\ RegFileEdge(rd_en(inst_type), idec.rd, rd_din,
                     rs1_en(inst_type), idec.rs1, rs2_en(inst_type), idec.rs2)
      /\ AluEdge(alu_load(inst_type), din1, din2, alu_op(inst_type, idec.funct))
  BY DEF RunningEdge, CoreEdge
<1>3. pc' = pc
  BY <1>2 DEF pc_next, pc_next_sel
<1>4. mem' = mem /\ rs1_addr' = rs1_addr /\ rs2_addr' = rs2_addr
  BY <1>2 DEF RegFileEdge, NextAddr, rd_en, rs1_en, rs2_en
<1>5. rs1_value' = rs1_value /\ rs2_value' = rs2_value
  <2> HIDE DEF idec
  <2>1. QED
    BY <1>1, <1>4 DEF rs1_value, rs2_value, rs1_dout, rs2_dout
<1>6. state = "MEM" => in1' = in1 /\ in2' = in2 /\ op' = op
  BY <1>2 DEF AluEdge, aluVars, alu_load
<1>7. QED
  BY <1>1, <1>3, <1>4, <1>5, <1>6

\* It loads the arithmetic unit with the operands of the instruction, or keeps
\* them.
LEMMA StepOperandInv ==
  ASSUME EndInv, BusFacts, OperandInv,
         NEW ir, NEW dr, NEW dw, NEW t, RunningEdge(ir, dr, dw, t)
  PROVE  OperandInv'
<1>1. state' = state_next(inst_type, inst_valid, data_valid)
  BY DEF RunningEdge, CoreEdge, ControlEdge
<1>2. CASE state \in {"RESET", "FETCH", "COMMIT"}
  BY <1>1, <1>2 DEF state_next, OperandInv
<1>3. CASE state = "DECODE"
  <2>1. inst_type' = inst_type
    BY <1>3, InstructionStays
  <2>2. state' \in {"FETCH", "EXEC"} /\ (state' = "EXEC" => inst_type \notin Immediate)
    BY <1>1, <1>3 DEF state_next
  <2>3. QED
    BY <2>1, <2>2 DEF OperandInv
<1>4. CASE state \in {"EXEC", "MEM"}
  <2>1. /\ pc' = pc /\ idec' = idec /\ inst_type' = inst_type
        /\ rs1_value' = rs1_value /\ rs2_value' = rs2_value
        /\ state = "MEM" => in1' = in1 /\ in2' = in2 /\ op' = op
    BY <1>4, OperandsStay
  <2>2. Operand1' = Operand1 /\ Operand2' = Operand2 /\ Operation' = Operation
    <3> HIDE DEF idec, inst_type, rs1_value, rs2_value
    <3>1. QED
      BY <2>1 DEF Operand1, Operand2, Operation
  <2>3. inst_type \notin Immediate
    BY <1>4 DEF OperandInv
  <2>4. in1' = Operand1 /\ in2' = Operand2 /\ op' = Operation
    <3>1. CASE state = "EXEC"
      <4>1. in1' = din1 /\ in2' = din2 /\ op' = alu_op(inst_type, idec.funct)
        BY <2>3, <3>1 DEF RunningEdge, CoreEdge, AluEdge, alu_load
      <4>2. din1 = Operand1
        BY <3>1 DEF din1, Operand1, alu_din1_sel
      <4>3. din2 = Operand2
        BY <3>1 DEF din2, Operand2, alu_din2_sel
      <4>4. alu_op(inst_type, idec.funct) = Operation
        BY <3>1 DEF alu_op, Operation, Integer, Memory, Link
      <4>5. QED
        BY <4>1, <4>2, <4>3, <4>4
    <3>2. CASE state = "MEM"
      BY <2>1, <3>2 DEF OperandInv
    <3>3. QED
      BY <1>4, <3>1, <3>2
  <2>5. QED
    BY <2>1, <2>2, <2>3, <2>4 DEF OperandInv
<1>5. QED
  BY <1>2, <1>3, <1>4 DEF BusFacts

\* The arithmetic unit's output is a function of its registers.
LEMMA AluStays ==
  ASSUME in1' = in1, in2' = in2, op' = op
  PROVE  alu_dout' = alu_dout
BY DEF alu_dout, Comp, shamt

\* A load gets the word at its address, however late.
LEMMA StepLoadInv ==
  ASSUME BenchTyped, EndInv, BusFacts, BusFacts', LoadInv,
         NEW ir, NEW dr, NEW dw, NEW t, RunningEdge(ir, dr, dw, t)
  PROVE  LoadInv'
<1>1. /\ state' = state_next(inst_type, inst_valid, data_valid)
      /\ state_change' = (state # state_next(inst_type, inst_valid, data_valid))
  BY DEF RunningEdge, CoreEdge, ControlEdge
<1> SUFFICES ASSUME inst_type' = "LOAD", state' \in {"MEM", "COMMIT"} PROVE LoadInv'
  BY DEF LoadInv
<1>2. state \in {"EXEC", "MEM"} /\ inst_type = "LOAD"
  <2>1. state \in {"EXEC", "MEM"}
    BY <1>1 DEF state_next, BusFacts
  <2>2. QED
    BY <2>1, InstructionStays
<1>3. CASE state = "EXEC"
  <2>1. state' = "MEM" /\ state_change'
    BY <1>1, <1>2, <1>3 DEF state_next, Memory
  <2>2. ~dr_addr_valid' /\ dr_queue' = <<>> /\ ~read_valid'
    BY <2>1 DEF BusFacts
  <2>3. QED
    BY <2>1, <2>2 DEF LoadInv
<1>4. CASE state = "MEM"
  <2>1. in1' = in1 /\ in2' = in2 /\ op' = op
    BY <1>4, OperandsStay
  <2>2. alu_dout' = alu_dout
    BY <2>1, AluStays
  <2>3. ~dw_request
    BY <1>2, RequestOfStore
  <2>4. memory' = memory
    BY <2>3, MemoryStays
  <2> DEFINE a == AlignDown(alu_dout)
  <2>5. Source' = Source
    BY <2>2, <2>4 DEF Source, ReadSource
  <2>6. /\ dr \in BOOLEAN /\ Drive(dr_queue, dr_queue', dr_request, dr_item(t), dr)
        /\ t \in TimerCounts /\ rst
        /\ dr_addr_valid' = dr_req_fire(TRUE)
        /\ dr_addr' = IF dr_req_fire(TRUE) THEN a ELSE dr_addr
        /\ read_valid' = dr
        /\ read_data' = IF dr THEN dr_data(t) ELSE read_data
    BY DEF RunningEdge, BenchEdge, CoreEdge, ReadData
  <2>7. dr_queue = <<>> \/ dr_queue = <<dr_queue[1]>>
    <3>1. dr_queue \in Seq(Item) /\ Len(dr_queue) <= 1
      BY DEF BenchTyped, BenchInv, BenchTypeOK, BusFacts
    <3>2. QED
      BY <3>1, ShortQueue
  <2>8. /\ dr_queue' # <<>> => dr_queue'[1].data \in Source
        /\ dr => dr_data(t) \in Source
    <3>1. dr_request \in BOOLEAN
      BY <2>6 DEF BenchTyped, CoreTypeOK, BusTypeOK, dr_request
    <3>2. dr_request => dr_queue = <<>> /\ dr_addr = a
      BY <1>2, <1>4 DEF BusFacts, LoadInv, dr_request
    <3>3. dr_queue # <<>> => dr_queue[1].data \in ReadSource(a)
      BY <1>2, <1>4 DEF LoadInv, Source
    <3> HIDE DEF a
    <3>4. /\ dr_queue' # <<>> => dr_queue'[1].data \in ReadSource(a)
          /\ dr => dr_data(t) \in ReadSource(a)
      BY <2>6, <2>7, <3>1, <3>2, <3>3, ReadAnswers
    <3>5. QED
      BY <3>4 DEF Source, a
  <2>9. CASE state' = "MEM"
    BY <2>2, <2>5, <2>6, <2>8, <2>9 DEF LoadInv
  <2>10. CASE state' = "COMMIT"
    <3>1. read_valid
      BY <1>1, <1>2, <1>4, <2>10 DEF state_next, data_valid, BusFacts
    <3>2. read_data \in Source
      BY <1>2, <1>4, <3>1 DEF LoadInv
    <3>3. ~read_valid'
      BY <2>10 DEF BusFacts
    <3>4. QED
      BY <2>5, <2>6, <2>10, <3>2, <3>3 DEF LoadInv
  <2>11. QED
    BY <2>9, <2>10
<1>5. QED
  BY <1>2, <1>3, <1>4

\* A store's request is made from operands that stay until it is taken.
LEMMA StepStoreInv ==
  ASSUME EndInv, BusFacts, BusFacts',
         NEW ir, NEW dr, NEW dw, NEW t, RunningEdge(ir, dr, dw, t)
  PROVE  StoreInv'
<1>1. /\ state' = state_next(inst_type, inst_valid, data_valid)
      /\ state_change' = (state # state_next(inst_type, inst_valid, data_valid))
      /\ dw_req_valid' = dw_req_fire(TRUE)
      /\ dw_addr' = IF dw_req_fire(TRUE) THEN AlignDown(alu_dout) ELSE dw_addr
      /\ dw_data' = IF dw_req_fire(TRUE) THEN write_data ELSE dw_data
      /\ dw_strobe' = IF dw_req_fire(TRUE) THEN write_strobe ELSE dw_strobe
  BY DEF RunningEdge, CoreEdge, ControlEdge, WriteData
<1> SUFFICES ASSUME state' = "MEM", inst_type' = "STORE", dw_req_valid' PROVE StoreInv'
  BY DEF StoreInv
<1>2. state = "MEM" /\ dw_req_fire(TRUE)
  BY <1>1 DEF dw_req_fire, store_data
<1>3. in1' = in1 /\ in2' = in2 /\ op' = op /\ idec' = idec /\ rs2_value' = rs2_value
  BY <1>2, OperandsStay
<1>4. alu_dout' = alu_dout
  BY <1>3, AluStays
<1>5. write_data' = write_data /\ write_strobe' = write_strobe
  <2> HIDE DEF alu_dout, idec, rs2_value
  <2>1. QED
    BY <1>3, <1>4 DEF write_data, write_strobe, write_offset
<1>6. QED
  BY <1>1, <1>2, <1>4, <1>5 DEF StoreInv

\* A clock edge in reset does nothing that the program sees.
LEMMA CycleInReset ==
  ASSUME EndInv, EndInv', BusFacts, ProgramInv, Cycle, ~rst
  PROVE  /\ ProgramInv'
         /\ pc' = pc /\ mem' = mem /\ memory' = memory /\ fake_uart' = fake_uart
         /\ verdict' = verdict /\ ~StoreVisible /\ ~StoreVisible'
<1>1. PICK ir, dr, dw, t :
        /\ BenchEdge(ir, dr, dw, inst_fetch, ir_addr(pc, ir_ready), t)
        /\ CoreReset(ir_data_valid(ir, ir_addr(pc, ir_ready)), ir_data(ir_addr(pc, ir_ready)))
  BY DEF Cycle, ClockEdge
<1>2. rst' = TRUE /\ state = "RESET" /\ state' = "RESET" /\ pc' = PcInit /\ ~inst_valid'
  BY <1>1 DEF Cycle, Running, EndInv, CoreReset, ControlReset, BusReset
<1>3. ~dw_request
  BY DEF dw_request
<1>4. memory' = memory /\ fake_uart' = fake_uart /\ verdict' = verdict
  BY <1>1, <1>3 DEF BenchEdge
<1>5. mem' = mem
  BY <1>1, <1>2 DEF CoreReset, RegFileEdge, rd_en
<1>6. pc' = pc
  BY <1>2 DEF ProgramInv, InstructionInv
<1>7. ir_queue' = <<>>
  BY <1>2 DEF EndInv
<1>8. ProgramInv'
  BY <1>2, <1>7 DEF ProgramInv, InstructionInv, OperandInv, LoadInv, StoreInv, Executing
<1>9. QED
  BY <1>2, <1>4, <1>5, <1>6, <1>8 DEF StoreVisible

\* Every step keeps the invariant.
LEMMA StepProgramInv ==
  ASSUME BenchTyped, BenchTyped', EndInv, EndInv', BusFacts, BusFacts', ProgramInv, [Next]_vars
  PROVE  ProgramInv'
<1>1. CASE Cycle /\ rst
  <2>1. PICK ir, dr, dw, t : RunningEdge(ir, dr, dw, t)
    BY <1>1, CycleEdge
  <2>2. rst'
    BY <1>1 DEF Cycle, Running
  <2>3. QED
    BY <2>1, <2>2, StepInstruction, StepOperandInv, StepLoadInv, StepStoreInv DEF ProgramInv
<1>2. CASE Cycle /\ ~rst
  BY <1>2, CycleInReset
<1>3. CASE End \/ UNCHANGED vars
  <2>1. /\ UNCHANGED <<rst, pc, read_offset, in1, in2, op, mem, rs1_addr, rs2_addr, state,
                       state_change, inst, inst_valid, dr_addr, dr_addr_valid, read_data,
                       read_valid, dw_addr, dw_data, dw_strobe, dw_req_valid, write_valid,
                       memory, ir_queue, dr_queue, dw_queue>>
        /\ verdict' = verdict \/ verdict = "running"
    BY <1>3 DEF End, EndTest, vars, coreVars, aluVars, regVars, controlVars, irVars, drVars,
      dwVars, benchVars
  <2>2. /\ inst_type' = inst_type /\ idec' = idec /\ alu_dout' = alu_dout
        /\ rs1_value' = rs1_value /\ rs2_value' = rs2_value
    <3>1. inst_type' = inst_type /\ idec' = idec
      BY <2>1 DEF inst_type, idec
    <3>2. alu_dout' = alu_dout
      BY <2>1, AluStays
    <3> HIDE DEF idec
    <3>3. QED
      BY <2>1, <3>1, <3>2 DEF rs1_value, rs2_value, rs1_dout, rs2_dout
  <2> HIDE DEF inst_type, idec, alu_dout, rs1_value, rs2_value
  <2>3. StoreVisible => StoreVisible'
    BY <2>1, <2>2 DEF StoreVisible
  <2>4. InstructionInv'
    BY <2>1, <2>3 DEF ProgramInv, InstructionInv, Executing
  <2>5. OperandInv'
    BY <2>1, <2>2 DEF ProgramInv, OperandInv, Operand1, Operand2, Operation
  <2>6. LoadInv'
    <3>1. Source' = Source
      BY <2>1, <2>2 DEF Source, ReadSource
    <3>2. QED
      BY <2>1, <2>2, <3>1 DEF ProgramInv, LoadInv
  <2>7. StoreInv'
    BY <2>1, <2>2 DEF ProgramInv, StoreInv, write_data, write_strobe, write_offset
  <2>8. QED
    BY <2>4, <2>5, <2>6, <2>7 DEF ProgramInv
<1>4. QED
  BY <1>1, <1>2, <1>3 DEF Next

----------------------------------------------------------------------------
(* Every instruction has its architectural effect.                         *)

\* The instruction set computes with the same words, and reads the same memory.
LEMMA SameProgram ==
  /\ \A w : Program!Wrap(w) = Wrap(w) /\ Program!Signed(w) = Signed(w)
  /\ \A w : Program!Offset(w) = Offset(w) /\ Program!AlignDown(w) = AlignDown(w)
  /\ \A w, n : Program!Lane(w, n) = Lane(w, n) /\ Program!LowBytes(w, n) = LowBytes(w, n)
  /\ Program!ByteSize = ByteSize
  /\ \A m, a : Program!from_array(m, a) = from_array(m, a)
  /\ \A m, f : Program!Merge(m, f) = Merge(m, f)
  /\ Program!Registers = Registers /\ Program!Immediates = Immediates
  /\ Program!Branches = Branches /\ Program!Loads = Loads /\ Program!Stores = Stores
  /\ \A o \in Registers : \A a, b : Program!Operate(o, a, b) = Operate(o, a, b)
  /\ \A a, b : Program!Condition(a, b) = Condition(a, b)
  /\ \A v, n : Program!Extend(v, n) = Extend(v, n)
<1>1. /\ Program!ByteSize = ByteSize /\ Program!WordBits = WordBits
      /\ Program!WordSize = WordSize
  BY DEF Program!ByteSize, ByteSize, Program!WordBits, WordBits, Program!WordSize, WordSize
<1>2. \A w : /\ Program!Wrap(w) = Wrap(w) /\ Program!Signed(w) = Signed(w)
             /\ Program!Offset(w) = Offset(w) /\ Program!AlignDown(w) = AlignDown(w)
  BY <1>1 DEF Program!Wrap, Wrap, Program!Signed, Signed, Program!Offset, Offset,
              Program!AlignDown, AlignDown
<1>3. \A w, n : /\ Program!Lane(w, n) = Lane(w, n) /\ Program!LowBytes(w, n) = LowBytes(w, n)
                /\ Program!SignExtend(w, n) = SignExtend(w, n)
  BY <1>1, <1>2 DEF Program!Lane, Lane, Program!LowBytes, LowBytes, Program!SignExtend,
                    SignExtend
<1>4. \A m, a : Program!from_array(m, a) = from_array(m, a)
  BY <1>1 DEF Program!from_array, from_array, Program!ByteAt, ByteAt
<1>5. \A m, f : Program!Merge(m, f) = Merge(m, f)
  BY DEF Program!Merge, Merge
<1>6. /\ Program!Registers = Registers /\ Program!Immediates = Immediates
      /\ Program!Branches = Branches /\ Program!Loads = Loads /\ Program!Stores = Stores
  BY DEF Program!Registers, Registers, Program!Immediates, Immediates, Program!Branches,
         Branches, Program!Loads, Loads, Program!Stores, Stores
<1>7. \A o \in Registers : \A a, b : Program!Operate(o, a, b) = Operate(o, a, b)
  <2>1. \A w : Program!Bits(w) = Bits(w)
    BY <1>1 DEF Program!Bits, Bits
  <2>2. \A S : Program!FromBits(S) = FromBits(S)
    BY DEF Program!FromBits, FromBits
  <2>3. \A a, b : /\ Program!BitAnd(a, b) = BitAnd(a, b)
                  /\ Program!BitOr(a, b) = BitOr(a, b)
                  /\ Program!BitXor(a, b) = BitXor(a, b)
    BY <2>1, <2>2 DEF Program!BitAnd, BitAnd, Program!BitOr, BitOr, Program!BitXor, BitXor
  <2>4. \A w, n : /\ Program!ShiftLeft(w, n) = ShiftLeft(w, n)
                  /\ Program!ShiftRight(w, n) = ShiftRight(w, n)
                  /\ Program!ShiftRightArith(w, n) = ShiftRightArith(w, n)
    BY <1>2 DEF Program!ShiftLeft, ShiftLeft, Program!ShiftRight, ShiftRight,
                Program!ShiftRightArith, ShiftRightArith
  <2>5. QED
    BY <1>1, <1>2, <2>3, <2>4 DEF Program!Operate, Operate, Program!Bit, Bit, Registers
<1>8. \A a, b : Program!Condition(a, b) = Condition(a, b)
  BY <1>2 DEF Program!Condition, Condition
<1>9. \A v, n : Program!Extend(v, n) = Extend(v, n)
  BY <1>1, <1>3, <1>6 DEF Program!Extend, Extend
<1>10. QED
  BY <1>1, <1>2, <1>3, <1>4, <1>5, <1>6, <1>7, <1>8, <1>9

\* The registers of the program: x0 is 0, whatever the cell holds.
xBar == [mem EXCEPT ![0] = 0]

\* A write to the register file is one to the program's registers, except to x0.
LEMMA RegisterWritten ==
  ASSUME CoreTypeOK, NEW rd \in RegAddr, NEW v, mem' = [mem EXCEPT ![rd] = v]
  PROVE  xBar' = IF rd = 0 THEN xBar ELSE [xBar EXCEPT ![rd] = v]
BY DEF CoreTypeOK, RegFileTypeOK, RegAddr, xBar

\* A read is one of them, too.
LEMMA RegisterRead ==
  ASSUME CoreTypeOK, NEW r \in RegAddr
  PROVE  xBar[r] = IF r = 0 THEN 0 ELSE mem[r]
BY DEF CoreTypeOK, RegFileTypeOK, RegAddr, xBar

\* What the core reads and computes for the instruction of a mnemonic.
LEMMA AluOperates ==
  ASSUME NEW o \in Registers, op = get_int_alu_op(IntFunct[o])
  PROVE  alu_dout = Operate(o, in1, in2)
<1>1. o \in {"add", "sub", "sll", "slt", "sltu", "xor", "srl", "sra", "or", "and"}
  BY DEF Registers
<1>2. CASE o = "add"
  BY <1>2 DEF get_int_alu_op, IntFunct, alu_dout, Operate
<1>3. CASE o = "sub"
  BY <1>3 DEF get_int_alu_op, IntFunct, alu_dout, Operate
<1>4. CASE o = "sll"
  BY <1>4 DEF get_int_alu_op, IntFunct, alu_dout, Operate, shamt
<1>5. CASE o = "slt"
  BY <1>5 DEF get_int_alu_op, IntFunct, alu_dout, Operate, Comp, BoolWord, Bit
<1>6. CASE o = "sltu"
  BY <1>6 DEF get_int_alu_op, IntFunct, alu_dout, Operate, Comp, BoolWord, Bit
<1>7. CASE o = "xor"
  BY <1>7 DEF get_int_alu_op, IntFunct, alu_dout, Operate
<1>8. CASE o = "srl"
  BY <1>8 DEF get_int_alu_op, IntFunct, alu_dout, Operate, shamt
<1>9. CASE o = "sra"
  BY <1>9 DEF get_int_alu_op, IntFunct, alu_dout, Operate, shamt
<1>10. CASE o = "or"
  BY <1>10 DEF get_int_alu_op, IntFunct, alu_dout, Operate
<1>11. CASE o = "and"
  BY <1>11 DEF get_int_alu_op, IntFunct, alu_dout, Operate
<1>12. QED
  BY <1>1, <1>2, <1>3, <1>4, <1>5, <1>6, <1>7, <1>8, <1>9, <1>10, <1>11

\* The comparison of a branch is the one that its mnemonic means.
LEMMA BranchTaken ==
  ASSUME NEW mnemonic \in Branches, in1 \in Word, in2 \in Word
  PROVE  take_branch(BranchFunct[mnemonic], Comp) <=> Condition(in1, in2)[mnemonic]
<1>1. Signed(in1) \in Int /\ Signed(in2) \in Int /\ in1 \in Int /\ in2 \in Int
  BY SignedInt, Widths DEF Word
<1>2. mnemonic \in {"beq", "bne", "blt", "bge", "bltu", "bgeu"}
  BY DEF Branches
<1> DEFINE c == Condition(in1, in2)
<1> HIDE DEF c
<1>10. /\ (Signed(in1) >= Signed(in2)) = ~(Signed(in1) < Signed(in2))
       /\ (in1 >= in2) = ~(in1 < in2)
  BY <1>1
<1>3. CASE mnemonic = "beq"
  BY <1>1, <1>3 DEF c, BranchFunct, take_branch, Comp, Condition
<1>4. CASE mnemonic = "bne"
  BY <1>1, <1>4 DEF c, BranchFunct, take_branch, Comp, Condition
<1>5. CASE mnemonic = "blt"
  BY <1>1, <1>5 DEF c, BranchFunct, take_branch, Comp, Condition
<1>6. CASE mnemonic = "bge"
  BY <1>1, <1>6, <1>10 DEF c, BranchFunct, take_branch, Comp, Condition
<1>7. CASE mnemonic = "bltu"
  BY <1>1, <1>7 DEF c, BranchFunct, take_branch, Comp, Condition
<1>8. CASE mnemonic = "bgeu"
  BY <1>1, <1>8, <1>10 DEF c, BranchFunct, take_branch, Comp, Condition
<1>9. QED
  BY <1>2, <1>3, <1>4, <1>5, <1>6, <1>7, <1>8 DEF c

\* The program has only instructions that the core executes as the instruction
\* set has it.
Supported ==
  state \in {"EXEC", "MEM", "COMMIT"} /\ inst \in DOMAIN Asm =>
    Regular(Asm[inst], rs1_value)

\* An instruction retires, or has its effect on the memory.
LEMMA Executed ==
  ASSUME ProgramInv, Executing, ~StoreVisible, verdict = "running",
         IF inst \in DOMAIN Asm
           THEN Program!Execute(Asm[inst], xBar[Asm[inst].rs1], xBar[Asm[inst].rs2])
           ELSE Program!NoEffect
  PROVE  Program!IsaNext
<1>1. pcBar = pc /\ Program!from_array(memory, pcBar) = inst
  BY SameProgram DEF pcBar, ProgramInv, InstructionInv
<1>2. QED
  BY <1>1 DEF Program!IsaNext, xBar

\* The register write of the instruction set, on the registers of the core.
LEMMA WriteProgram ==
  ASSUME NEW i, NEW v, xBar' = IF i.rd = 0 THEN xBar ELSE [xBar EXCEPT ![i.rd] = v]
  PROVE  Program!Write(i, v)
BY DEF Program!Write, xBar

\* Values in EXEC, MEM and COMMIT.
LEMMA ValuesTyped ==
  ASSUME CoreTypeOK
  PROVE  /\ pc \in Word /\ in1 \in Word /\ in2 \in Word /\ idec.imm \in Word
         /\ idec.rd \in RegAddr /\ idec.rs1 \in RegAddr /\ idec.rs2 \in RegAddr
         /\ rs1_value \in Word /\ rs2_value \in Word /\ alu_dout \in Word
         /\ \A a \in Word : a \in Int
<1>1. pc \in Word /\ in1 \in Word /\ in2 \in Word /\ mem \in [RegAddr -> Word]
      /\ rs1_addr \in RegAddr /\ rs2_addr \in RegAddr
  BY DEF CoreTypeOK, AluTypeOK, RegFileTypeOK
<1>2. /\ idec.imm \in Word /\ idec.rd \in RegAddr
      /\ idec.rs1 \in RegAddr /\ idec.rs2 \in RegAddr
  BY DecodeTyped DEF idec
<1>3. rs1_value \in Word /\ rs2_value \in Word
  <2> HIDE DEF idec
  <2>1. QED
    BY <1>1, ZeroWord DEF rs1_value, rs2_value, rs1_dout, rs2_dout
<1>4. alu_dout \in Word
  BY SameTypes, SameWires, SameWords, BusAssumptions, Bus!CoreWires DEF Bus!WiresTyped
<1>5. \A a \in Word : a \in Int
  BY Widths DEF Word
<1>6. QED
  BY <1>1, <1>2, <1>3, <1>4, <1>5

\* Upper immediates, fences and words that encode no instruction retire in
\* DECODE.
LEMMA DecodeRetires ==
  ASSUME BenchTyped, EndInv, BusFacts, BusFacts', ProgramInv,
         NEW ir, NEW dr, NEW dw, NEW t, RunningEdge(ir, dr, dw, t),
         state = "DECODE", inst_type \in Immediate
  PROVE  Program!IsaNext
<1> DEFINE i == Asm[inst]
<1>1. /\ ~StoreVisible /\ ~StoreVisible' /\ ~dw_request /\ verdict = "running"
      /\ verdict' = verdict
  BY VisibleStep, RequestOfStore DEF StoreVisible, RunningEdge, BenchEdge
<1>2. memory' = memory /\ fake_uart' = fake_uart
  BY <1>1, MemoryStays
<1>3. /\ pc' = pc_next
      /\ mem' = IF rd_en(inst_type) THEN [mem EXCEPT ![idec.rd] = rd_din] ELSE mem
  BY DEF RunningEdge, CoreEdge, RegFileEdge
<1>4. pc' = Wrap(pc + 4) /\ pcBar = pc /\ pcBar' = pc'
  BY <1>1, <1>3 DEF pc_next, pc_next_sel, pcBar
<1>5. mem' = IF inst_type = "IMM" THEN [mem EXCEPT ![idec.rd] = idec.imm] ELSE mem
  BY <1>3 DEF rd_en, rd_din, rd_din_sel, Immediate
<1>6. CoreTypeOK /\ idec.rd \in RegAddr /\ inst_type \in {"IMM", "FENCE"}
  BY ValuesTyped DEF BenchTyped, Immediate
<1>7. xBar' = IF inst_type = "IMM" /\ idec.rd # 0 THEN [xBar EXCEPT ![idec.rd] = idec.imm]
              ELSE xBar
  <2>1. CASE inst_type = "IMM"
    <3> HIDE DEF idec
    <3>1. QED
      BY <1>5, <1>6, <2>1, RegisterWritten
  <2>2. CASE inst_type # "IMM"
    BY <1>5, <2>2 DEF xBar
  <2>3. QED
    BY <2>1, <2>2
<1>8. Program!Continue
  BY <1>4, SameProgram DEF Program!Continue
<1>9. CASE inst \notin DOMAIN Asm
  <2>1. idec.rd = 0
    BY <1>9, Instructions DEF idec
  <2>2. Program!NoEffect
    BY <1>1, <1>2, <1>7, <1>8, <2>1 DEF Program!NoEffect, xBar
  <2>3. QED
    BY <1>1, <1>9, <2>2, Executed DEF Executing
<1>10. CASE inst \in DOMAIN Asm /\ inst_type = "FENCE"
  <2>1. i.mnemonic = "fence"
    BY <1>10, Instructions DEF inst_type, Kind
  <2>2. Program!NoEffect
    BY <1>1, <1>2, <1>7, <1>8, <1>10 DEF Program!NoEffect, xBar
  <2>3. QED
    BY <1>1, <1>10, <2>1, <2>2, Executed DEF Executing, Program!Execute
<1>11. CASE inst \in DOMAIN Asm /\ inst_type = "IMM"
  <2>1. i.mnemonic = "lui" /\ i.imm \in Int
    BY <1>11, Instructions DEF inst_type, Kind
  <2>2. idec.imm = Wrap(i.imm * 4096) /\ idec.rd = i.rd
    BY <1>11, <2>1, Instructions DEF idec, Describes
  <2>3. i.imm * 4096 + 0 = i.imm * 4096
    BY <2>1
  <2>4. xBar' = IF i.rd = 0 THEN xBar ELSE [xBar EXCEPT ![i.rd] = Wrap(i.imm * 4096)]
    <3> HIDE DEF i, idec
    <3>1. QED
      BY <1>7, <1>11, <2>2
  <2>5. Program!LoadUpper(i)
    <3> HIDE DEF i
    <3>1. Program!Write(i, Program!Wrap(i.imm * 4096 + 0))
      <4>1. Program!Wrap(i.imm * 4096 + 0) = Wrap(i.imm * 4096)
        BY <2>3, SameProgram
      <4>2. QED
        BY <2>4, <4>1, WriteProgram
    <3>2. QED
      BY <1>1, <1>2, <1>8, <2>1, <3>1 DEF Program!LoadUpper
  <2>6. QED
    BY <1>1, <1>11, <2>5, Executed DEF Executing, Program!Execute
<1>12. QED
  BY <1>6, <1>9, <1>10, <1>11

\* What the retirement of an instruction does in COMMIT.
Retirement ==
  /\ verdict = "running" /\ ~StoreVisible
  /\ UNCHANGED <<memory, fake_uart, verdict>>
  /\ pcBar = pc /\ pcBar' = pc_next
  /\ state = "COMMIT" /\ inst \in DOMAIN Asm /\ inst_type \notin {"STORE", "IMM", "FENCE"}
  /\ in1 = Operand1 /\ in2 = Operand2 /\ op = Operation
  /\ xBar' = IF inst_type = "BRANCH" \/ idec.rd = 0
               THEN xBar
               ELSE [xBar EXCEPT ![idec.rd] = IF inst_type = "LOAD" THEN ext_read_data
                                                                      ELSE alu_dout]

\* An instruction that is no store retires in COMMIT.
LEMMA CommitRetires ==
  ASSUME BenchTyped, EndInv, BusFacts, BusFacts', ProgramInv,
         NEW ir, NEW dr, NEW dw, NEW t, RunningEdge(ir, dr, dw, t),
         state = "COMMIT", inst_type # "STORE"
  PROVE  Retirement
<1>1. /\ ~StoreVisible /\ ~StoreVisible' /\ ~dw_request /\ verdict = "running"
      /\ verdict' = verdict
  BY VisibleStep, RequestOfStore DEF StoreVisible, RunningEdge, BenchEdge
<1>2. memory' = memory /\ fake_uart' = fake_uart
  BY <1>1, MemoryStays
<1>3. /\ pc' = pc_next
      /\ mem' = IF rd_en(inst_type) THEN [mem EXCEPT ![idec.rd] = rd_din] ELSE mem
  BY DEF RunningEdge, CoreEdge, RegFileEdge
<1>4. pcBar = pc /\ pcBar' = pc_next
  BY <1>1, <1>3 DEF pcBar
<1>5. inst_type \notin Immediate /\ in1 = Operand1 /\ in2 = Operand2 /\ op = Operation
  BY DEF ProgramInv, OperandInv
<1>6. inst \in DOMAIN Asm
  BY <1>5, Instructions DEF inst_type, Immediate
<1>7. CoreTypeOK /\ idec.rd \in RegAddr /\ inst_type \in InstType
  BY ValuesTyped, DecodeTyped DEF BenchTyped, inst_type
<1> DEFINE v == IF inst_type = "LOAD" THEN ext_read_data ELSE alu_dout
<1>8. mem' = IF inst_type = "BRANCH" THEN mem ELSE [mem EXCEPT ![idec.rd] = v]
  <2> HIDE DEF inst_type, idec, ext_read_data, alu_dout
  <2>1. inst_type \in {"INT_IMM", "INT_REG", "BRANCH", "JAL", "AUIPC", "JALR", "LOAD"}
    BY <1>5, <1>7 DEF InstType, Immediate
  <2>2. rd_en(inst_type) <=> inst_type # "BRANCH"
    BY <2>1 DEF rd_en, Link, Integer
  <2>3. rd_en(inst_type) => rd_din = v
    BY DEF rd_din, rd_din_sel
  <2>4. QED
    BY <1>3, <2>2, <2>3
<1>9. xBar' = IF inst_type = "BRANCH" \/ idec.rd = 0 THEN xBar ELSE [xBar EXCEPT ![idec.rd] = v]
  <2> HIDE DEF v, idec, inst_type
  <2>1. CASE inst_type = "BRANCH"
    BY <1>8, <2>1 DEF xBar
  <2>2. CASE inst_type # "BRANCH"
    BY <1>7, <1>8, <2>2, RegisterWritten
  <2>3. QED
    BY <2>1, <2>2
<1>10. QED
  BY <1>1, <1>2, <1>4, <1>5, <1>6, <1>9 DEF Retirement, Immediate

\* The instruction that retires, and its source registers.
LEMMA Retiring ==
  ASSUME BenchTyped, BusFacts, Retirement
  PROVE  /\ Describes(idec, Asm[inst]) /\ Kind(inst_type, Asm[inst])
         /\ Asm[inst].imm \in Int
         /\ pc \in Int /\ rs1_value \in Word /\ rs1_value \in Int /\ rs2_value \in Word
         /\ alu_dout \in Word
         /\ inst_type \in {"INT_IMM", "LOAD", "JALR", "INT_REG", "BRANCH", "STORE"} =>
              rs1_value = xBar[idec.rs1]
         /\ inst_type \in {"INT_REG", "BRANCH", "STORE"} => rs2_value = xBar[idec.rs2]
<1>1. inst \in DOMAIN Asm /\ state = "COMMIT"
  BY DEF Retirement
<1>2. CoreTypeOK
  BY DEF BenchTyped
<1>3. /\ pc \in Int /\ rs1_value \in Word /\ rs1_value \in Int /\ rs2_value \in Word
      /\ idec.rs1 \in RegAddr /\ idec.rs2 \in RegAddr /\ alu_dout \in Word
  BY <1>2, ValuesTyped
<1>4. /\ Describes(idec, Asm[inst]) /\ Kind(inst_type, Asm[inst]) /\ Asm[inst].imm \in Int
  BY <1>1, Instructions DEF idec, inst_type
<1>5. \A r \in RegAddr : xBar[r] = IF r = 0 THEN 0 ELSE mem[r]
  BY <1>2, RegisterRead
<1> HIDE DEF idec, inst_type, rs1_value, rs2_value
<1>6. QED
  BY <1>1, <1>3, <1>4, <1>5 DEF BusFacts

\* What it does is the instruction's effect: auipc adds to the program counter,
LEMMA AuipcRetires ==
  ASSUME BenchTyped, BusFacts, Retirement, inst_type = "AUIPC"
  PROVE  Program!LoadUpper(Asm[inst])
<1> DEFINE i == Asm[inst]
<1>1. i.mnemonic = "auipc" /\ i.imm \in Int /\ pc \in Int
  BY Retiring DEF Kind
<1>2. idec.imm = Wrap(i.imm * 4096) /\ idec.rd = i.rd
  BY <1>1, Retiring DEF Describes
<1> HIDE DEF i, idec, inst_type
<1>3. alu_dout = Wrap(pc + idec.imm)
  BY DEF Retirement, Operand1, Operand2, Operation, Link, Integer, Memory, alu_dout
<1>4. Wrap(pc + Wrap(i.imm * 4096)) = Wrap(i.imm * 4096 + pc)
  <2>1. \A k \in Int : Wrap(pc + Wrap(k)) = Wrap(k + pc)
    BY <1>1, WordSum
  <2>2. i.imm * 4096 \in Int
    BY <1>1
  <2>3. QED
    BY <2>1, <2>2
<1> DEFINE v == Wrap(i.imm * 4096 + pc)
<1>5. xBar' = IF i.rd = 0 THEN xBar ELSE [xBar EXCEPT ![i.rd] = v]
  <2>1. alu_dout = v
    BY <1>2, <1>3, <1>4
  <2> HIDE DEF v
  <2>2. QED
    BY <1>2, <2>1 DEF Retirement
<1>6. pcBar' = Wrap(pcBar + 4) /\ pcBar = pc
  BY DEF Retirement, pc_next, pc_next_sel, Integer, Memory
<1>7. Program!Write(i, Program!Wrap(i.imm * 4096 + pcBar))
  BY <1>5, <1>6, WriteProgram, SameProgram
<1>8. QED
  BY <1>1, <1>6, <1>7, SameProgram DEF Program!LoadUpper, Program!Continue, Retirement, i

\* jal jumps and links,
LEMMA JalRetires ==
  ASSUME BenchTyped, BusFacts, Retirement, inst_type = "JAL", NEW a
  PROVE  Program!JumpAndLink(Asm[inst], a)
<1> DEFINE i == Asm[inst]
<1>1. i.mnemonic = "jal" /\ i.imm \in Int /\ pc \in Int
  BY Retiring DEF Kind
<1>2. idec.imm = Wrap(i.imm) /\ idec.rd = i.rd
  BY <1>1, Retiring DEF Describes
<1> HIDE DEF i, idec, inst_type
<1>3. alu_dout = Wrap(pc + 4)
  <2>1. alu_dout = Wrap(pc + Wrap(4))
    BY DEF Retirement, Operand1, Operand2, Operation, Link, Integer, Memory, alu_dout
  <2>2. QED
    BY <1>1, <2>1, WordSum
<1>4. xBar' = IF i.rd = 0 THEN xBar ELSE [xBar EXCEPT ![i.rd] = Wrap(pc + 4)]
  BY <1>2, <1>3 DEF Retirement
<1>5. pcBar' = Wrap(pcBar + i.imm) /\ pcBar = pc
  <2>1. pcBar' = Wrap(pc + idec.imm) /\ pcBar = pc
    BY DEF Retirement, pc_next, pc_next_sel, Integer, Memory
  <2>2. QED
    BY <1>1, <1>2, <2>1, WordSum
<1>6. Program!Write(i, Program!Wrap(pcBar + 4))
  BY <1>4, <1>5, WriteProgram, SameProgram
<1>7. QED
  BY <1>1, <1>5, <1>6, SameProgram DEF Program!JumpAndLink, Program!Jump, Retirement, i

\* jalr too, to an address in a register; the core keeps the last bit of the
\* sum, which the instruction set clears,
LEMMA JalrRetires ==
  ASSUME BenchTyped, BusFacts, Supported, Retirement, inst_type = "JALR"
  PROVE  Program!JumpAndLink(Asm[inst], xBar[Asm[inst].rs1])
<1> DEFINE i == Asm[inst]
           a == xBar[i.rs1]
<1>1. i.mnemonic = "jalr" /\ i.imm \in Int /\ pc \in Int
  BY Retiring DEF Kind
<1>2. idec.imm = Wrap(i.imm) /\ idec.rd = i.rd /\ idec.rs1 = i.rs1
  BY <1>1, Retiring DEF Describes
<1>3. a = rs1_value /\ a \in Int
  BY <1>2, Retiring
<1>4. (a + i.imm) % 2 = 0
  BY <1>1, <1>3 DEF Supported, Regular, Retirement
<1> HIDE DEF i, idec, inst_type, a
<1>5. alu_dout = Wrap(pc + 4)
  <2>1. alu_dout = Wrap(pc + Wrap(4))
    BY DEF Retirement, Operand1, Operand2, Operation, Link, Integer, Memory, alu_dout
  <2>2. QED
    BY <1>1, <2>1, WordSum
<1>6. xBar' = IF i.rd = 0 THEN xBar ELSE [xBar EXCEPT ![i.rd] = Wrap(pc + 4)]
  BY <1>2, <1>5 DEF Retirement
<1>7. pcBar' = Wrap(a + i.imm) /\ pcBar = pc
  <2>1. pcBar' = Wrap(rs1_value + idec.imm) /\ pcBar = pc
    BY DEF Retirement, pc_next, pc_next_sel, Integer, Memory
  <2>2. Wrap(a + Wrap(i.imm)) = Wrap(a + i.imm)
    BY <1>1, <1>3, WordSum
  <2>3. QED
    BY <1>2, <1>3, <2>1, <2>2
<1>8. Program!Write(i, Program!Wrap(pcBar + 4))
  BY <1>6, <1>7, WriteProgram, SameProgram
<1>9. (a + i.imm) - ((a + i.imm) % 2) = a + i.imm
  BY <1>1, <1>3, <1>4
<1>10. Program!Jump((a + i.imm) - ((a + i.imm) % 2))
  BY <1>7, <1>9, SameProgram DEF Program!Jump
<1>11. QED
  BY <1>1, <1>8, <1>10, SameProgram DEF Program!JumpAndLink, Retirement, i, a

\* a branch compares and jumps,
LEMMA BranchRetires ==
  ASSUME BenchTyped, BusFacts, Retirement, inst_type = "BRANCH"
  PROVE  Program!Branch(Asm[inst], xBar[Asm[inst].rs1], xBar[Asm[inst].rs2])
<1> DEFINE i == Asm[inst]
           a == xBar[i.rs1]
           b == xBar[i.rs2]
<1>1. i.mnemonic \in Branches /\ i.imm \in Int /\ pc \in Int
  BY Retiring DEF Kind
<1>2. /\ idec.imm = Wrap(i.imm) /\ idec.rs1 = i.rs1 /\ idec.rs2 = i.rs2
      /\ idec.funct = BranchFunct[i.mnemonic]
  BY <1>1, Retiring DEF Describes
<1>3. a = rs1_value /\ b = rs2_value /\ a \in Word /\ b \in Word
  BY <1>2, Retiring
<1> HIDE DEF i, idec, inst_type, a, b
<1>4. in1 = a /\ in2 = b
  BY <1>3 DEF Retirement, Operand1, Operand2, Link
<1>5. take_branch(idec.funct, Comp) <=> Condition(a, b)[i.mnemonic]
  BY <1>1, <1>2, <1>3, <1>4, BranchTaken
<1>6. pcBar = pc /\ pcBar' = IF take_branch(idec.funct, Comp)
                               THEN Wrap(pc + idec.imm) ELSE Wrap(pc + 4)
  BY DEF Retirement, pc_next, pc_next_sel, Integer, Memory
<1>7. Wrap(pc + idec.imm) = Wrap(pc + i.imm)
  BY <1>1, <1>2, WordSum
<1>8. IF Condition(a, b)[i.mnemonic] THEN Program!Jump(pcBar + i.imm) ELSE Program!Continue
  BY <1>5, <1>6, <1>7, SameProgram DEF Program!Jump, Program!Continue
<1>9. xBar' = xBar
  BY DEF Retirement
<1>10. QED
  BY <1>1, <1>8, <1>9, SameProgram DEF Program!Branch, Retirement, xBar, i, a, b

\* and the integer operations compute.
LEMMA IntegerRetires ==
  ASSUME BenchTyped, BusFacts, Retirement, inst_type \in {"INT_IMM", "INT_REG"}
  PROVE  Program!Compute(Asm[inst], xBar[Asm[inst].rs1], xBar[Asm[inst].rs2])
<1> DEFINE i == Asm[inst]
           a == xBar[i.rs1]
           b == xBar[i.rs2]
<1>1. /\ inst_type = "INT_IMM" => /\ i.mnemonic \in DOMAIN Immediates
                                  /\ idec.funct = IntFunct[Immediates[i.mnemonic]]
                                  /\ idec.imm = Wrap(i.imm)
                                  /\ Immediates[i.mnemonic] \in Registers
      /\ inst_type = "INT_REG" => /\ i.mnemonic \in Registers
                                  /\ idec.funct = IntFunct[i.mnemonic]
                                  /\ idec.rs2 = i.rs2
      /\ idec.rd = i.rd /\ idec.rs1 = i.rs1
  <2>1. /\ inst_type = "INT_IMM" => i.mnemonic \in DOMAIN Immediates
        /\ inst_type = "INT_REG" => i.mnemonic \in Registers
    BY Retiring DEF Kind
  <2>2. \A m \in DOMAIN Immediates : Immediates[m] \in Registers
    BY DEF Immediates, Registers
  <2>3. Describes(idec, i)
    BY Retiring
  <2> HIDE DEF i, idec, inst_type
  <2>4. QED
    BY <2>1, <2>2, <2>3 DEF Describes
<1>2. a = rs1_value /\ (inst_type = "INT_REG" => b = rs2_value)
  BY <1>1, Retiring
<1> HIDE DEF i, idec, inst_type, a, b
<1>3. /\ in1 = a /\ in2 = (IF inst_type = "INT_REG" THEN b ELSE idec.imm)
      /\ op = get_int_alu_op(idec.funct)
  BY <1>2 DEF Retirement, Operand1, Operand2, Operation, Link, Integer, Memory
<1>4. pcBar' = Wrap(pcBar + 4)
  BY DEF Retirement, pc_next, pc_next_sel, Integer, Memory
<1>5. xBar' = IF i.rd = 0 THEN xBar ELSE [xBar EXCEPT ![i.rd] = alu_dout]
  BY <1>1 DEF Retirement
<1>6. Program!Write(i, alu_dout)
  BY <1>5, WriteProgram
<1>7. Program!Continue /\ UNCHANGED <<memory, fake_uart, verdict>>
  BY <1>4, SameProgram DEF Program!Continue, Retirement
<1>8. CASE inst_type = "INT_IMM"
  <2>1. alu_dout = Operate(Immediates[i.mnemonic], a, Wrap(i.imm))
    BY <1>1, <1>3, <1>8, AluOperates
  <2>2. alu_dout = Program!Operate(Program!Immediates[i.mnemonic], a, Program!Wrap(i.imm))
    BY <1>1, <1>8, <2>1, SameProgram
  <2>3. QED
    BY <1>1, <1>6, <1>7, <1>8, <2>2, SameProgram DEF Program!Compute, i, a, b
<1>9. CASE inst_type = "INT_REG"
  <2>1. alu_dout = Operate(i.mnemonic, a, b)
    BY <1>1, <1>3, <1>9, AluOperates
  <2>2. alu_dout = Program!Operate(i.mnemonic, a, b)
    BY <1>1, <1>9, <2>1, SameProgram
  <2>3. QED
    BY <1>1, <1>6, <1>7, <1>9, <2>2, SameProgram DEF Program!Compute, i, a, b
<1>10. QED
  BY <1>8, <1>9

\* A load extends the bytes at its address.
LEMMA LoadRetires ==
  ASSUME BenchTyped, BusFacts, Supported, LoadInv, Retirement, inst_type = "LOAD"
  PROVE  Program!Load(Asm[inst], Program!Wrap(xBar[Asm[inst].rs1] + Asm[inst].imm))
<1> DEFINE i == Asm[inst]
           a == xBar[i.rs1]
           addr == Wrap(a + i.imm)
           n == Loads[i.mnemonic]
           offset == Offset(addr)
<1>1. i.mnemonic \in DOMAIN Loads /\ i.imm \in Int
  BY Retiring DEF Kind
<1>2. /\ idec.imm = Wrap(i.imm) /\ idec.rd = i.rd /\ idec.rs1 = i.rs1
      /\ idec.funct = MemFunct[i.mnemonic]
  BY <1>1, Retiring DEF Describes
<1>3. a = rs1_value /\ a \in Int
  BY <1>2, Retiring
<1>4. offset + n <= 4
  <2>1. Size(i) = n
    BY <1>1 DEF Size
  <2>2. QED
    BY <1>1, <1>3, <2>1 DEF Supported, Regular, Retirement
<1> HIDE DEF i, a, n, offset, idec, inst_type
<1>5. alu_dout = addr
  <2>1. alu_dout = Wrap(a + idec.imm)
    BY <1>3 DEF Retirement, Operand1, Operand2, Operation, Link, Integer, Memory, alu_dout
  <2>2. Wrap(a + Wrap(i.imm)) = Wrap(a + i.imm)
    BY <1>1, <1>3, WordSum
  <2>3. QED
    BY <1>2, <2>1, <2>2
<1> HIDE DEF addr
<1>6. read_offset = offset /\ addr \in Word
  <2>1. addr \in Word
    BY <1>5, Retiring
  <2>2. QED
    BY <1>5, <2>1 DEF BusFacts, Retirement, offset
<1>7. offset \in Lanes /\ AlignDown(addr) \in Int /\ AlignDown(addr) + offset = addr
  BY <1>6, WordOfAddress DEF offset
<1>8. read_data \in Word /\ Bytes(memory)
  BY DEF BenchTyped, CoreTypeOK, BusTypeOK, BenchInv, BenchTypeOK, Bytes
<1> DEFINE value == Extend(LowBytes(read_data \div ByteSize^offset, n), i.mnemonic)
<1>9. ext_read_data = value
  <2>1. LoadData(MemFunct[i.mnemonic], offset, read_data) = value
    BY <1>1, <1>4, <1>7, <1>8, LoadExtends DEF n
  <2>2. QED
    BY <1>2, <1>6, <2>1 DEF ext_read_data
<1>10. read_data \in IF AlignDown(addr) = TimerAddress
                       THEN TimerValues ELSE {from_array(memory, AlignDown(addr))}
  BY <1>5 DEF LoadInv, Source, ReadSource, Retirement
<1> HIDE DEF value
<1>11. xBar' = IF i.rd = 0 THEN xBar ELSE [xBar EXCEPT ![i.rd] = value]
  BY <1>2, <1>9 DEF Retirement
<1>12. Program!Write(i, value)
  BY <1>11, WriteProgram
<1>13. Program!Continue /\ UNCHANGED <<memory, fake_uart, verdict>>
  <2>1. pcBar' = Wrap(pcBar + 4)
    BY DEF Retirement, pc_next, pc_next_sel, Integer, Memory
  <2>2. QED
    BY <2>1, SameProgram DEF Program!Continue, Retirement
<1>14. \E source \in IF AlignDown(addr) = TimerAddress
                       THEN {t \div ByteSize^offset : t \in TimerValues}
                       ELSE {from_array(memory, addr)} :
         value = Extend(LowBytes(source, n), i.mnemonic)
  <2>1. CASE AlignDown(addr) = TimerAddress
    <3>1. read_data \in TimerValues
      BY <1>10, <2>1
    <3>2. read_data \div ByteSize^offset \in {t \div ByteSize^offset : t \in TimerValues}
      BY <3>1
    <3>3. QED
      BY <2>1, <3>2 DEF value
  <2>2. CASE AlignDown(addr) # TimerAddress
    <3>1. read_data = from_array(memory, AlignDown(addr))
      BY <1>10, <2>2
    <3>2. n \in {1, 2, 4}
      BY <1>1 DEF Loads, n
    <3>3. LowBytes(read_data \div ByteSize^offset, n) = LowBytes(from_array(memory, addr), n)
      BY <1>4, <1>7, <1>8, <3>1, <3>2, LoadLanes
    <3>4. QED
      BY <2>2, <3>3 DEF value
  <2>3. QED
    BY <2>1, <2>2
<1>15. Program!Load(i, addr)
  BY <1>1, <1>12, <1>13, <1>14, SameProgram DEF Program!Load, n, offset
<1>16. QED
  BY <1>15, SameProgram DEF i, a, addr

\* The request of a store is the store that the instruction set has.
StoreRequest(i, addr, b, n) ==
  /\ state = "MEM" /\ inst_type = "STORE" /\ ~StoreVisible
  /\ inst \in DOMAIN Asm /\ i.mnemonic \in DOMAIN Stores
  /\ dw_addr = AlignDown(addr)
  /\ dw_data = Wrap(LowBytes(b, n) * ByteSize^Offset(addr))
  /\ [p \in {dw_addr + k : k \in dw_strobe} |-> Lane(dw_data, p - dw_addr)]
       = [p \in addr..(addr + n - 1) |-> Lane(b, p - addr)]

\* That is what the bus unit asks of the memory.
LEMMA StoreRequested ==
  ASSUME BenchTyped, BusFacts, Supported, ProgramInv, dw_request, verdict = "running"
  PROVE  StoreRequest(Asm[inst], Wrap(xBar[Asm[inst].rs1] + Asm[inst].imm),
                      xBar[Asm[inst].rs2], Stores[Asm[inst].mnemonic])
<1> DEFINE i == Asm[inst]
           a == xBar[i.rs1]
           b == xBar[i.rs2]
           addr == Wrap(a + i.imm)
           n == Stores[i.mnemonic]
           offset == Offset(addr)
<1>1. state = "MEM" /\ inst_type = "STORE" /\ inst \in DOMAIN Asm
  <2>1. state = "MEM" /\ inst_type = "STORE"
    BY RequestOfStore
  <2>2. QED
    BY <2>1, Instructions DEF inst_type
<1>2. ~StoreVisible
  BY <1>1 DEF StoreVisible, BusFacts, dw_request
<1>3. i.mnemonic \in DOMAIN Stores /\ i.imm \in Int
  BY <1>1, Instructions DEF Kind, inst_type
<1>4. /\ idec.imm = Wrap(i.imm) /\ idec.rs1 = i.rs1 /\ idec.rs2 = i.rs2
      /\ idec.funct = MemFunct[i.mnemonic]
  BY <1>1, <1>3, Instructions DEF Describes, idec
<1>5. /\ CoreTypeOK /\ idec.rs1 \in RegAddr /\ idec.rs2 \in RegAddr /\ alu_dout \in Word
      /\ rs1_value \in Word /\ rs2_value \in Word /\ rs1_value \in Int
  BY ValuesTyped DEF BenchTyped
<1>6. a = rs1_value /\ b = rs2_value /\ a \in Int /\ b \in Word
  <2>1. \A r \in RegAddr : xBar[r] = IF r = 0 THEN 0 ELSE mem[r]
    BY <1>5, RegisterRead
  <2> HIDE DEF idec, inst_type, rs1_value, rs2_value
  <2>2. QED
    BY <1>1, <1>4, <1>5, <2>1 DEF BusFacts
<1>7. offset + n <= 4
  <2>1. Size(i) = n
    BY <1>3 DEF Size, Loads, Stores
  <2>2. QED
    BY <1>1, <1>3, <1>6, <2>1 DEF Supported, Regular
<1> HIDE DEF i, a, b, n, offset, idec, inst_type
<1>8. alu_dout = addr
  <2>1. alu_dout = Wrap(a + idec.imm)
    BY <1>1, <1>6 DEF ProgramInv, OperandInv, Operand1, Operand2, Operation, Link, Integer,
                      Memory, alu_dout
  <2>2. Wrap(a + Wrap(i.imm)) = Wrap(a + i.imm)
    BY <1>3, <1>6, WordSum
  <2>3. QED
    BY <1>4, <2>1, <2>2
<1> HIDE DEF addr
<1>9. offset \in Lanes /\ AlignDown(addr) \in Int /\ AlignDown(addr) + offset = addr
  BY <1>5, <1>8, WordOfAddress DEF offset
<1>10. /\ dw_addr = AlignDown(addr)
       /\ dw_data = StoreData(MemFunct[i.mnemonic], offset, b)
       /\ dw_strobe = StoreStrobe(MemFunct[i.mnemonic], offset)
  BY <1>1, <1>4, <1>6, <1>8 DEF ProgramInv, StoreInv, dw_request, write_data, write_strobe,
                                write_offset, offset
<1> DEFINE f == MemFunct[i.mnemonic]
<1>11. /\ StoreData(f, offset, b) = Wrap(LowBytes(b, n) * ByteSize^offset)
       /\ [p \in {AlignDown(addr) + k : k \in StoreStrobe(f, offset)} |->
            Lane(StoreData(f, offset, b), p - AlignDown(addr))]
            = [p \in addr..(addr + n - 1) |-> Lane(b, p - addr)]
  BY <1>3, <1>6, <1>7, <1>9, StoreWrites DEF n
<1>12. StoreRequest(i, addr, b, n)
  BY <1>1, <1>2, <1>3, <1>10, <1>11 DEF StoreRequest, offset
<1>13. QED
  BY <1>12 DEF i, a, b, n, addr

\* A store has its effect when the memory performs its request, or with the
\* verdict that it ends the test with.
LEMMA StoreEffect ==
  ASSUME BenchTyped, BusFacts, Supported, ProgramInv, dw_request, verdict = "running",
         mem' = mem, pcBar' = Wrap(pc + 4),
         \/ /\ ~EndsTest /\ handle_data_write(dw_addr, dw_data, dw_strobe)
            /\ verdict' = verdict
         \/ EndsTest /\ verdict' = Outcome /\ UNCHANGED <<memory, fake_uart>>
  PROVE  Program!IsaNext
<1> DEFINE i == Asm[inst]
           a == xBar[i.rs1]
           b == xBar[i.rs2]
           addr == Wrap(a + i.imm)
           n == Stores[i.mnemonic]
           data == Wrap(LowBytes(b, n) * ByteSize^Offset(addr))
<1>1. StoreRequest(i, addr, b, n)
  BY StoreRequested
<1>2. Executing /\ ~StoreVisible /\ inst \in DOMAIN Asm /\ i.mnemonic \in DOMAIN Stores
  BY <1>1 DEF StoreRequest, Executing
<1>3. /\ dw_addr = AlignDown(addr) /\ dw_data = data
      /\ [p \in {dw_addr + k : k \in dw_strobe} |-> Lane(dw_data, p - dw_addr)]
           = [p \in addr..(addr + n - 1) |-> Lane(b, p - addr)]
  BY <1>1 DEF StoreRequest
<1>4. pcBar = pc /\ xBar' = xBar
  BY <1>2 DEF pcBar, xBar
<1>5. dw_data \in Int /\ CharLimit \in Int
  BY TestbenchAssumption, Widths DEF BenchTyped, CoreTypeOK, BusTypeOK, Word
<1> HIDE DEF i, a, b, n, addr, data
<1>6. \/ Program!StoreMemory(addr, n, b) \/ Program!StoreVerdict(addr, data)
      \/ Program!StoreOutput(addr, data)
  <2>1. CASE ~EndsTest /\ dw_addr = OutputAddress
    <3>1. data < CharLimit
      BY <1>3, <1>5, <2>1 DEF EndsTest
    <3>2. fake_uart' = Append(fake_uart, data) /\ memory' = memory /\ verdict' = verdict
      BY <1>3, <2>1 DEF handle_data_write
    <3>3. Program!StoreOutput(addr, data)
      BY <1>3, <2>1, <3>1, <3>2, SameProgram DEF Program!StoreOutput
    <3>4. QED
      BY <3>3
  <2>2. CASE ~EndsTest /\ dw_addr # OutputAddress
    <3>1. /\ memory' = Merge(memory, [p \in addr..(addr + n - 1) |-> Lane(b, p - addr)])
          /\ fake_uart' = fake_uart /\ verdict' = verdict
      BY <1>3, <2>2 DEF handle_data_write
    <3>2. dw_addr # PassFailAddress
      BY <2>2 DEF EndsTest
    <3>3. [p \in addr..(addr + n - 1) |-> Program!Lane(b, p - addr)]
            = [p \in addr..(addr + n - 1) |-> Lane(b, p - addr)]
      BY SameProgram
    <3>4. Program!StoreMemory(addr, n, b)
      BY <1>3, <2>2, <3>1, <3>2, <3>3, SameProgram DEF Program!StoreMemory
    <3>5. QED
      BY <3>4
  <2>3. CASE EndsTest /\ dw_addr = PassFailAddress
    BY <1>3, <2>3, SameProgram DEF Outcome, Program!StoreVerdict
  <2>4. CASE EndsTest /\ dw_addr # PassFailAddress
    BY <1>3, <1>5, <2>4, SameProgram DEF EndsTest, Outcome, Program!StoreOutput
  <2>5. QED
    BY <2>1, <2>2, <2>3, <2>4
<1>7. xBar' = xBar /\ Program!Continue
  BY <1>4, SameProgram DEF Program!Continue
<1>8. Program!Store(i, addr, b)
  <2>1. /\ Program!Stores = Stores
        /\ data = Program!Wrap(Program!LowBytes(b, n) * Program!ByteSize^Program!Offset(addr))
    BY SameProgram DEF data
  <2>2. QED
    BY <1>2, <1>6, <1>7, <2>1 DEF Program!Store, n, xBar
<1>9. Program!Execute(i, a, b)
  BY <1>8, SameProgram DEF Program!Execute, addr
<1>10. QED
  BY <1>2, <1>9, Executed DEF i, a, b

\* A store takes effect in the cycle in which the memory sees its request,
LEMMA StoreRetires ==
  ASSUME BenchTyped, EndInv, BusFacts, BusFacts', Supported, ProgramInv,
         NEW ir, NEW dr, NEW dw, NEW t, RunningEdge(ir, dr, dw, t), dw_request
  PROVE  Program!IsaNext
<1>1. state = "MEM" /\ inst_type = "STORE"
  BY RequestOfStore
<1>2. mem' = mem /\ pc' = pc
  BY <1>1, OperandsStay
<1>3. pcBar' = Wrap(pc + 4)
  BY <1>1, <1>2, VisibleStep DEF pcBar
<1>4. /\ verdict = "running" /\ verdict' = verdict /\ ~EndsTest
      /\ handle_data_write(dw_addr, dw_data, dw_strobe)
  BY DEF RunningEdge, BenchEdge
<1>5. QED
  BY <1>2, <1>3, <1>4, StoreEffect

\* or ends the test there.
LEMMA EndRetires ==
  ASSUME BenchTyped, BusFacts, Supported, ProgramInv, End
  PROVE  Program!IsaNext
<1>1. /\ verdict = "running" /\ dw_request /\ EndsTest /\ verdict' = Outcome
      /\ UNCHANGED <<memory, fake_uart>> /\ UNCHANGED coreVars
  BY DEF End, EndTest
<1>2. state = "MEM" /\ inst_type = "STORE"
  BY <1>1, RequestOfStore
<1>3. mem' = mem /\ pc' = pc /\ state' = state /\ inst' = inst
  BY <1>1 DEF coreVars, regVars, controlVars, irVars
<1>4. inst_type' = inst_type /\ verdict' # "running"
  BY <1>1, <1>3 DEF inst_type, Outcome
<1>5. pcBar' = Wrap(pc + 4)
  BY <1>2, <1>3, <1>4 DEF pcBar, StoreVisible
<1>6. QED
  BY <1>1, <1>3, <1>5, StoreEffect

\* Any other cycle is invisible to the program.
LEMMA NothingRetires ==
  ASSUME BenchTyped, EndInv, BusFacts, BusFacts', ProgramInv,
         NEW ir, NEW dr, NEW dw, NEW t, RunningEdge(ir, dr, dw, t), ~dw_request,
         \/ state \in {"RESET", "FETCH", "EXEC", "MEM"}
         \/ state = "DECODE" /\ inst_type \notin Immediate
         \/ state = "COMMIT" /\ inst_type = "STORE"
  PROVE  UNCHANGED Program!isaVars
<1>1. /\ memory' = memory /\ fake_uart' = fake_uart /\ verdict' = verdict
      /\ verdict = "running"
  BY MemoryStays DEF RunningEdge, BenchEdge
<1>2. /\ pc' = pc_next
      /\ mem' = IF rd_en(inst_type) THEN [mem EXCEPT ![idec.rd] = rd_din] ELSE mem
  BY DEF RunningEdge, CoreEdge, RegFileEdge
<1>3. mem' = mem
  BY <1>2 DEF rd_en, Immediate, Link, Integer
<1>4. pcBar' = pcBar
  <2>1. CASE state = "COMMIT" /\ inst_type = "STORE"
    <3>1. pc' = Wrap(pc + 4)
      BY <1>2, <2>1 DEF pc_next, pc_next_sel, Integer, Memory
    <3>2. StoreVisible /\ ~StoreVisible'
      BY <2>1, VisibleStep DEF StoreVisible
    <3>3. QED
      BY <3>1, <3>2 DEF pcBar
  <2>2. CASE ~(state = "COMMIT" /\ inst_type = "STORE")
    <3>1. pc' = pc
      BY <1>2, <2>2 DEF pc_next, pc_next_sel, Immediate
    <3>2. StoreVisible' <=> StoreVisible
      <4>1. CASE state = "MEM" /\ inst_type = "STORE"
        BY <4>1, VisibleStep
      <4>2. CASE ~(state = "MEM" /\ inst_type = "STORE")
        BY <2>2, <4>2, VisibleStep DEF StoreVisible
      <4>3. QED
        BY <4>1, <4>2
    <3>3. QED
      BY <3>1, <3>2 DEF pcBar
  <2>3. QED
    BY <2>1, <2>2
<1>5. QED
  BY <1>1, <1>3, <1>4 DEF Program!isaVars

\* An instruction in COMMIT that is no store.
LEMMA CommitStep ==
  ASSUME BenchTyped, EndInv, BusFacts, BusFacts', Supported, ProgramInv,
         NEW ir, NEW dr, NEW dw, NEW t, RunningEdge(ir, dr, dw, t),
         state = "COMMIT", inst_type # "STORE"
  PROVE  Program!IsaNext
<1> DEFINE i == Asm[inst]
           a == xBar[i.rs1]
           b == xBar[i.rs2]
<1>1. Retirement
  BY CommitRetires
<1>2. /\ inst \in DOMAIN Asm /\ ~StoreVisible /\ verdict = "running"
      /\ Executing /\ inst_type \notin {"STORE", "IMM", "FENCE"}
  BY <1>1 DEF Retirement, Executing
<1>3. inst_type \in {"INT_IMM", "INT_REG", "BRANCH", "JAL", "AUIPC", "JALR", "LOAD"}
  <2>1. inst_type \in InstType
    BY DecodeTyped DEF inst_type
  <2> HIDE DEF inst_type
  <2>2. QED
    BY <1>2, <2>1 DEF InstType
<1> HIDE DEF inst_type
<1>4. Program!Execute(i, a, b)
  <2>1. CASE inst_type = "AUIPC"
    BY <1>1, <2>1, AuipcRetires DEF Program!Execute
  <2>2. CASE inst_type = "JAL"
    BY <1>1, <2>2, JalRetires DEF Program!Execute
  <2>3. CASE inst_type = "JALR"
    BY <1>1, <2>3, JalrRetires DEF Program!Execute
  <2>4. CASE inst_type = "BRANCH"
    BY <1>1, <2>4, BranchRetires DEF Program!Execute
  <2>5. CASE inst_type = "LOAD"
    BY <1>1, <2>5, LoadRetires DEF Program!Execute, ProgramInv
  <2>6. CASE inst_type \in {"INT_IMM", "INT_REG"}
    BY <1>1, <2>6, IntegerRetires DEF Program!Execute
  <2>7. QED
    BY <1>3, <2>1, <2>2, <2>3, <2>4, <2>5, <2>6
<1>5. QED
  BY <1>2, <1>4, Executed

\* Every step of core and memory is a step of the program or invisible to it.
LEMMA StepProgram ==
  ASSUME BenchTyped, EndInv, EndInv', BusFacts, BusFacts', Supported, ProgramInv, [Next]_vars
  PROVE  [Program!IsaNext]_Program!isaVars
<1>1. CASE Cycle /\ rst
  <2>1. PICK ir, dr, dw, t : RunningEdge(ir, dr, dw, t)
    BY <1>1, CycleEdge
  <2>2. CASE dw_request
    BY <2>1, <2>2, StoreRetires
  <2>3. CASE state = "DECODE" /\ inst_type \in Immediate
    BY <2>1, <2>3, DecodeRetires
  <2>4. CASE state = "COMMIT" /\ inst_type # "STORE"
    BY <2>1, <2>4, CommitStep
  <2>5. CASE /\ ~dw_request
             /\ \/ state \in {"RESET", "FETCH", "EXEC", "MEM"}
                \/ state = "DECODE" /\ inst_type \notin Immediate
                \/ state = "COMMIT" /\ inst_type = "STORE"
    BY <2>1, <2>5, NothingRetires
  <2>6. state \in {"RESET", "FETCH", "DECODE", "EXEC", "MEM", "COMMIT"}
    BY DEF BusFacts
  <2> HIDE DEF inst_type, dw_request, Immediate
  <2>7. QED
    BY <2>2, <2>3, <2>4, <2>5, <2>6
<1>2. CASE Cycle /\ ~rst
  BY <1>2, CycleInReset DEF Program!isaVars, pcBar
<1>3. CASE End
  BY <1>3, EndRetires
<1>4. CASE UNCHANGED vars
  <2>1. UNCHANGED <<pc, mem, memory, fake_uart, verdict, inst, state, dw_queue, write_valid>>
    BY <1>4 DEF vars, coreVars, regVars, controlVars, irVars, dwVars, benchVars
  <2>2. inst_type' = inst_type
    BY <2>1 DEF inst_type
  <2> HIDE DEF inst_type
  <2>3. QED
    BY <2>1, <2>2 DEF Program!isaVars, pcBar, StoreVisible
<1>5. QED
  BY <1>1, <1>2, <1>3, <1>4 DEF Next

\* The core begins where the program does.
LEMMA InitProgram == Init => Program!IsaInit
<1> SUFFICES ASSUME Init PROVE Program!IsaInit
  OBVIOUS
<1>1. /\ pc = PcInit /\ state = "RESET" /\ mem \in [RegAddr -> Word]
      /\ fake_uart = <<>> /\ verdict = "running"
  BY Copperv2Assumption DEF Init, CoreInit, BenchInit, Load
<1>2. pcBar = PcInit
  BY <1>1 DEF pcBar, StoreVisible
<1>3. [mem EXCEPT ![0] = 0][0] = 0
  BY <1>1 DEF RegAddr
<1>4. QED
  BY <1>1, <1>2, <1>3 DEF Program!IsaInit

\* The facts hold throughout, by what is proved of the core on an open bus.
LEMMA BusFactsInvariant == Spec => []BusFacts
<1> USE BusAssumptions
<1>1. Bus!Spec => []Bus!LatchInv
  BY Bus!LatchInvariant
<1>2. QED
  BY <1>1, ImplementsOpenBus, BenchInvariant, BusFactsHold, PTL

\* Between fetch and retirement the core holds what the instruction at the
\* program counter says: the fetched word, its operands, the data of its load and
\* the request of its store are those of the program, whatever the latencies.
THEOREM ProgramInvariant == Spec => []ProgramInv
<1>1. BenchTyped /\ EndInv /\ BenchTyped' /\ EndInv' /\ BusFacts /\ BusFacts'
        /\ ProgramInv /\ [Next]_vars => ProgramInv'
  BY StepProgramInv
<1>2. QED
  BY <1>1, InitProgramInv, BenchInvariant, BusFactsInvariant, PTL DEF Spec

\* Copperv2 and the memory execute the program that is in memory, for every
\* program of instructions that the core supports, every word width and every
\* latency of the drivers: each instruction has its architectural effect on pc,
\* registers, memory and devices exactly once and in program order.
THEOREM ExecutesIsa == Spec /\ []Supported => ImplementsIsa
<1>1. BenchTyped /\ EndInv /\ EndInv' /\ BusFacts /\ BusFacts' /\ Supported
        /\ ProgramInv /\ [Next]_vars => [Program!IsaNext]_Program!isaVars
  BY StepProgram
<1>2. QED
  BY <1>1, InitProgram, BenchInvariant, BusFactsInvariant, ProgramInvariant, PTL
     DEF Spec, ImplementsIsa, Program!IsaSpec

============================================================================
