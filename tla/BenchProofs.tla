---------------------------- MODULE BenchProofs ----------------------------
(***************************************************************************)
(* Facts about the simulation testbench, which the proofs about both cores *)
(* under it use: the drivers' queues, and what the instructions of a test  *)
(* program are to the decoder, the arithmetic unit and the memory.         *)
(***************************************************************************)
EXTENDS Bench, DatapathProofs

----------------------------------------------------------------------------
(* The instruction channel.                                                *)

\* An answer waits for its driver only if the fetch was within the program.
AtMostOne(queue, within) ==
  \/ queue = <<>>
  \/ queue = <<queue[1]>> /\ (queue[1].kind = "response" => within)

\* Without a fetch an idle channel stays idle, and gives no answer.
LEMMA IrIdle ==
  ASSUME NEW ir \in BOOLEAN, NEW addr, ir_queue = <<>>,
         Drive(ir_queue, ir_queue', FALSE, ir_item(addr), ir)
  PROVE  ir_queue' = <<>> /\ ~ir_data_valid(ir, addr)
BY DEF Drive, ir_data_valid

\* A fetch is answered, at once or later, only within the program.
LEMMA IrFetch ==
  ASSUME NEW ir \in BOOLEAN, NEW addr, ir_queue = <<>>,
         Drive(ir_queue, ir_queue', TRUE, ir_item(addr), ir)
  PROVE  /\ AtMostOne(ir_queue', Within(end_i_address, addr))
         /\ ir_data_valid(ir, addr) => ir_queue' = <<>> /\ Within(end_i_address, addr)
<1>1. Append(ir_queue, ir_item(addr)) = <<ir_item(addr)>>
  OBVIOUS
<1>2. ir_queue' = IF ir THEN <<>> ELSE <<ir_item(addr)>>
  BY <1>1 DEF Drive
<1>3. ir_data_valid(ir, addr) = (ir /\ ir_item(addr).kind = "response")
  BY <1>1 DEF ir_data_valid, Sent
<1>4. ir_item(addr).kind = "response" => Within(end_i_address, addr)
  BY DEF ir_item, ir_callback, DeassertReady
<1>5. QED
  BY <1>2, <1>3, <1>4 DEF AtMostOne

\* The answer that waits is the one that is given.
LEMMA IrWaits ==
  ASSUME NEW ir \in BOOLEAN, NEW addr, NEW within \in BOOLEAN,
         AtMostOne(ir_queue, within),
         Drive(ir_queue, ir_queue', FALSE, ir_item(addr), ir)
  PROVE  /\ AtMostOne(ir_queue', within)
         /\ ir_data_valid(ir, addr) => ir_queue' = <<>> /\ within
<1>1. CASE ir_queue = <<>>
  BY <1>1, IrIdle DEF AtMostOne
<1>2. CASE ir_queue # <<>>
  <2>1. ir_queue = <<ir_queue[1]>> /\ (ir_queue[1].kind = "response" => within)
    BY <1>2 DEF AtMostOne
  <2>2. Sent(ir_queue, ir_item(addr)) = ir_queue[1] /\ Tail(ir_queue) = <<>>
    <3>1. \A a, b : Head(Append(<<a>>, b)) = a /\ Tail(<<a>>) = <<>>
      OBVIOUS
    <3>2. QED
      BY <2>1, <3>1 DEF Sent
  <2>3. ir_queue' = IF ir THEN <<>> ELSE ir_queue
    BY <2>2 DEF Drive
  <2>4. QED
    BY <2>1, <2>2, <2>3 DEF AtMostOne, ir_data_valid
<1>3. QED
  BY <1>1, <1>2

----------------------------------------------------------------------------
(* The channels, as those of a slave that answers what it accepted.        *)

\* A driver answers only what was requested, once.
DriveCounted(Items, queue, queueNext, request, item, runs) ==
  /\ queueNext \in Seq(Items)
  /\ runs => Sent(queue, item) \in Items
  /\ runs => Len(queue) + (IF request THEN 1 ELSE 0) > 0
  /\ Len(queueNext) = Len(queue) + (IF request THEN 1 ELSE 0)
                                 - (IF runs THEN 1 ELSE 0)

LEMMA DriveCounts ==
  ASSUME NEW Items, NEW queue \in Seq(Items), NEW queueNext,
         NEW request \in BOOLEAN, NEW item \in Items, NEW runs \in BOOLEAN,
         Drive(queue, queueNext, request, item, runs)
  PROVE  DriveCounted(Items, queue, queueNext, request, item, runs)
<1> DEFINE pending == IF request THEN Append(queue, item) ELSE queue
<1>1. /\ pending \in Seq(Items)
      /\ Len(pending) = Len(queue) + (IF request THEN 1 ELSE 0)
  OBVIOUS
<1>2. (runs => pending # <<>>) /\ queueNext = IF runs THEN Tail(pending) ELSE pending
  BY DEF Drive
<1>3. runs => Sent(queue, item) \in Items
  <2>1. Append(queue, item) \in Seq(Items) /\ Append(queue, item) # <<>>
    OBVIOUS
  <2>2. QED
    BY <2>1 DEF Sent
<1> HIDE DEF pending
<1>4. pending # <<>> => Len(pending) > 0 /\ Len(Tail(pending)) = Len(pending) - 1
                        /\ Tail(pending) \in Seq(Items)
  BY <1>1
<1>5. QED
  BY <1>1, <1>2, <1>3, <1>4 DEF DriveCounted

----------------------------------------------------------------------------
(* Types.                                                                  *)

\* What a memory of bytes holds is a word at any address.
Bytes(m) == \A a \in DOMAIN m : m[a] \in Byte

LEMMA ReadWord ==
  ASSUME NEW m, Bytes(m), NEW a
  PROVE  from_array(m, a) \in Word
<1>1. \A b : ByteAt(m, b) \in Byte
  BY Widths DEF Bytes, ByteAt, Byte
<1>2. \A b0, b1, b2, b3 \in Byte :
        b0 + b1 * ByteSize + b2 * ByteSize^2 + b3 * ByteSize^3 \in Word
  <2>1. CASE ByteBits = 1
    BY <2>1, Widths DEF Byte, Word, ByteSize
  <2>2. CASE ByteBits = 2
    BY <2>2, Widths DEF Byte, Word, ByteSize
  <2>3. CASE ByteBits = 4
    BY <2>3, Widths DEF Byte, Word, ByteSize
  <2>4. CASE ByteBits = 8
    BY <2>4, Widths DEF Byte, Word, ByteSize
  <2>5. QED
    BY <2>1, <2>2, <2>3, <2>4, ByteBitsAssumption
<1>3. QED
  BY <1>1, <1>2 DEF from_array

LEMMA ItemsTyped ==
  ASSUME NEW addr, NEW timer_counter \in Word, Bytes(memory)
  PROVE  ir_item(addr) \in Item /\ dr_item(timer_counter) \in Item /\ dw_item \in Item
<1>1. \A w \in Word : Response(w) \in Item
  BY DEF Response, Item
<1>2. DeassertReady \in Item
  BY DEF DeassertReady, Item
<1>3. \A a : Response(from_array(memory, a)) \in Item
  BY <1>1, ReadWord
<1>4. RespOK \in Word
  BY Widths DEF RespOK, Word
<1>5. QED
  BY <1>1, <1>2, <1>3, <1>4 DEF ir_item, ir_callback, dr_item, handle_data_read, dw_item

\* A store keeps the memory a memory of bytes; its address is aligned, so that
\* no lane is beyond the last address.
LEMMA WriteTyped ==
  ASSUME DOMAIN memory \subseteq Word, Bytes(memory), fake_uart \in Seq(Word),
         NEW addr \in Word, addr % 4 = 0, NEW data \in Word, NEW strobe \in SUBSET Lanes,
         handle_data_write(addr, data, strobe)
  PROVE  /\ DOMAIN memory' \subseteq Word
         /\ Bytes(memory)'
         /\ fake_uart' \in Seq(Word)
<1>1. CASE addr = OutputAddress
  BY <1>1 DEF handle_data_write, Bytes
<1>2. CASE addr # OutputAddress
  <2> DEFINE lanes == {addr + i : i \in strobe}
             f == [a \in lanes |-> Lane(data, a - addr)]
  <2>1. lanes \subseteq Word
    <3>1. \E q \in Int : addr = 4 * q
      BY Widths DEF Word
    <3>2. WordSize % 4 = 0
      BY Widths
    <3>3. \A i \in Lanes : addr + i \in Word
      <4>1. PICK q \in Int : addr = 4 * q
        BY <3>1
      <4>2. PICK k \in Int : WordSize = 4 * k
        BY ONLY <3>2, Widths
      <4>3. addr \in Nat /\ 4 * q < 4 * k
        BY <4>1, <4>2 DEF Word
      <4>4. q + 1 <= k
        BY ONLY <4>3, q \in Int, k \in Int
      <4>5. QED
        BY <4>1, <4>2, <4>3, <4>4 DEF Word, Lanes
    <3>4. QED
      BY <3>3
  <2>2. \A a \in lanes : f[a] \in Byte
    <3>1. \A i \in Lanes : (addr + i) - addr = i
      BY Widths DEF Word, Lanes
    <3>2. QED
      BY <3>1, LaneByte
  <2>3. memory' = Merge(memory, f) /\ fake_uart' = fake_uart
    BY <1>2 DEF handle_data_write
  <2> HIDE DEF f
  <2>4. DOMAIN f = lanes
    BY DEF f
  <2> HIDE DEF lanes
  <2>5. QED
    BY <2>1, <2>2, <2>3, <2>4 DEF Merge, Bytes
<1>3. QED
  BY <1>1, <1>2

\* What the typing of the testbench rests on: write responses report success,
\* and the address of a store is aligned.
BenchInv == /\ BenchTypeOK
            /\ dw_queue \in Seq({dw_item})
            /\ ~ir_ready => ir_queue = <<>>
            /\ ~rst => ir_ready /\ ir_queue = <<>> /\ dr_queue = <<>> /\ dw_queue = <<>>

\* The bus signals with which the drivers answer.
Answers(ir, dr, dw, addr, timer_counter) ==
  /\ ir_data_valid(ir, addr) \in BOOLEAN
  /\ ir_data_valid(ir, addr) => ir_data(addr) \in Word
  /\ dr => dr_data(timer_counter) \in Word
  /\ dw => dw_resp = RespOK

\* The three channels, with the transactions that are under way on each.
Pending(queue, accepted, answers, queueNext) ==
  /\ answers => Len(queue) + (IF accepted THEN 1 ELSE 0) > 0
  /\ Len(queueNext) = Len(queue) + (IF accepted THEN 1 ELSE 0) - (IF answers THEN 1 ELSE 0)

ir_under_way == Len(ir_queue) + (IF ir_ready THEN 0 ELSE 1)

Channels(ia, dr, dw, fetch) ==
  /\ ia => ir_under_way + (IF ir_request(fetch) THEN 1 ELSE 0) > 0
  /\ ir_under_way' = ir_under_way + (IF ir_request(fetch) THEN 1 ELSE 0) - (IF ia THEN 1 ELSE 0)
  /\ Pending(dr_queue, dr_request, dr, dr_queue')
  /\ Pending(dw_queue, dw_request, dw, dw_queue')

LEMMA BenchInitTyped == BenchInit => BenchInv
<1> SUFFICES ASSUME NEW t \in Tests, Load(t) PROVE BenchInv
  BY DEF BenchInit
<1>1. \A m \in {t.instruction_memory, t.data_memory} : DOMAIN m \subseteq Word /\ Bytes(m)
  BY TestbenchAssumption DEF Bytes
<1>2. DOMAIN memory \subseteq Word /\ Bytes(memory)
  BY <1>1 DEF Load, Merge, Bytes
<1>3. QED
  BY <1>2 DEF Load, BenchInv, BenchTypeOK, Bytes

LEMMA BenchEdgeTyped ==
  ASSUME BenchInv, rst \in BOOLEAN,
         dw_addr \in Word, dw_addr % 4 = 0, dw_data \in Word, dw_strobe \subseteq Lanes,
         dr_addr_valid \in BOOLEAN, dw_req_valid \in BOOLEAN,
         NEW ir \in BOOLEAN, NEW dr \in BOOLEAN, NEW dw \in BOOLEAN,
         NEW fetch \in BOOLEAN, NEW addr, NEW timer_counter \in TimerCounts,
         ir_request(fetch) => ir_queue = <<>>, Len(ir_queue) <= 1, rst' = TRUE,
         BenchEdge(ir, dr, dw, fetch, addr, timer_counter)
  PROVE  /\ BenchInv'
         /\ Answers(ir, dr, dw, addr, timer_counter)
         /\ Channels(ir_data_valid(ir, addr), dr, dw, fetch)
<1>1. timer_counter \in Word
  BY TestbenchAssumption, ZeroWord DEF TimerCounts
<1>2. Bytes(memory) /\ DOMAIN memory \subseteq Word /\ fake_uart \in Seq(Word)
  BY DEF BenchInv, BenchTypeOK, Bytes
<1>3. ir_item(addr) \in Item /\ dr_item(timer_counter) \in Item /\ dw_item \in Item
  BY <1>1, <1>2, ItemsTyped
<1>4. /\ ir_request(fetch) \in BOOLEAN /\ dr_request \in BOOLEAN /\ dw_request \in BOOLEAN
  BY DEF ir_request, dr_request, dw_request, BenchInv, BenchTypeOK
<1>5. \A item \in Item : item.data \in Word /\ (item.kind = "response" \/ item = DeassertReady)
  BY ZeroWord DEF Item, DeassertReady
<1>6. /\ ir_queue \in Seq(Item) /\ dr_queue \in Seq(Item)
      /\ dw_queue \in Seq(Item) /\ dw_queue \in Seq({dw_item}) /\ ir_ready \in BOOLEAN
  BY DEF BenchInv, BenchTypeOK
<1>7. /\ ir_queue' \in Seq(Item)
      /\ ir => Sent(ir_queue, ir_item(addr)) \in Item
      /\ ir => Len(ir_queue) + (IF ir_request(fetch) THEN 1 ELSE 0) > 0
      /\ Len(ir_queue') = Len(ir_queue) + (IF ir_request(fetch) THEN 1 ELSE 0)
                                        - (IF ir THEN 1 ELSE 0)
  <2>1. Drive(ir_queue, ir_queue', ir_request(fetch), ir_item(addr), ir)
    BY DEF BenchEdge
  <2>2. QED
    <3>1. DriveCounted(Item, ir_queue, ir_queue', ir_request(fetch), ir_item(addr), ir)
      BY ONLY <1>3, <1>4, <1>6, <2>1, DriveCounts, ir \in BOOLEAN
    <3>2. QED
      BY <3>1 DEF DriveCounted
<1>8. /\ dr_queue' \in Seq(Item) /\ Pending(dr_queue, dr_request, dr, dr_queue')
      /\ dr => dr_data(timer_counter) \in Word
  <2>1. Drive(dr_queue, dr_queue', dr_request, dr_item(timer_counter), dr)
    BY DEF BenchEdge
  <2>2. /\ dr_queue' \in Seq(Item) /\ Pending(dr_queue, dr_request, dr, dr_queue')
        /\ dr => Sent(dr_queue, dr_item(timer_counter)) \in Item
    <3>1. DriveCounted(Item, dr_queue, dr_queue', dr_request, dr_item(timer_counter), dr)
      BY ONLY <1>3, <1>4, <1>6, <2>1, DriveCounts, dr \in BOOLEAN
    <3>2. QED
      BY <3>1 DEF DriveCounted, Pending
  <2>3. QED
    BY <1>5, <2>2 DEF dr_data
<1>9. /\ dw_queue' \in Seq({dw_item}) /\ Pending(dw_queue, dw_request, dw, dw_queue')
      /\ dw => dw_resp = RespOK
  <2>1. Drive(dw_queue, dw_queue', dw_request, dw_item, dw) /\ dw_item \in {dw_item}
    BY DEF BenchEdge
  <2>2. /\ dw_queue' \in Seq({dw_item}) /\ Pending(dw_queue, dw_request, dw, dw_queue')
        /\ dw => Sent(dw_queue, dw_item) \in {dw_item}
    <3>1. DriveCounted({dw_item}, dw_queue, dw_queue', dw_request, dw_item, dw)
      BY ONLY <1>4, <1>6, <2>1, DriveCounts, dw \in BOOLEAN
    <3>2. QED
      BY <3>1 DEF DriveCounted, Pending
  <2>3. dw_item.data = RespOK
    BY DEF dw_item, Response
  <2>4. QED
    BY <2>2, <2>3 DEF dw_resp
<1>10. Answers(ir, dr, dw, addr, timer_counter)
  BY <1>5, <1>7, <1>8, <1>9 DEF Answers, ir_data_valid, ir_data
<1>11. /\ ~ir_ready' => ir_queue' = <<>>
       /\ ir_under_way' = ir_under_way + (IF ir_request(fetch) THEN 1 ELSE 0)
                                       - (IF ir_data_valid(ir, addr) THEN 1 ELSE 0)
       /\ ir_data_valid(ir, addr) => ir_under_way + (IF ir_request(fetch) THEN 1 ELSE 0) > 0
  <2>1. /\ ir_ready' = (ir_ready /\ (ir => ir_data_valid(ir, addr)))
        /\ ir_data_valid(ir, addr) => ir
    BY DEF BenchEdge, ir_data_valid
  <2>2. /\ Len(ir_queue) + (IF ir_request(fetch) THEN 1 ELSE 0) <= 1
        /\ Len(ir_queue) \in Nat /\ Len(ir_queue') \in Nat
    BY <1>4, <1>6, <1>7
  <2>3. ir => ir_queue' = <<>>
    <3>1. \A q \in Seq(Item) : Len(q) = 0 => q = <<>>
      OBVIOUS
    <3>2. QED
      BY <1>4, <1>7, <2>2, <3>1
  <2>4. CASE ~ir_ready
    <3>1. ir_queue = <<>> /\ ~ir_request(fetch)
      BY <2>4 DEF BenchInv, ir_request
    <3>2. ~ir /\ ir_queue' = <<>>
      BY <1>7, <2>3, <3>1 DEF BenchEdge, Drive
    <3>3. QED
      BY <2>1, <2>4, <3>1, <3>2 DEF ir_under_way
  <2>5. CASE ir_ready /\ ir_data_valid(ir, addr)
    <3>1. ir /\ ir_ready'
      BY <2>1, <2>5
    <3>2. QED
      BY <1>4, <1>7, <2>2, <2>5, <3>1 DEF ir_under_way
  <2>6. CASE ir_ready /\ ir /\ ~ir_data_valid(ir, addr)
    <3>1. Len(ir_queue') = 0 /\ Len(ir_queue) + (IF ir_request(fetch) THEN 1 ELSE 0) = 1
      BY <1>4, <1>7, <2>2, <2>3, <2>6
    <3>2. ~ir_ready'
      BY <2>1, <2>6
    <3>3. ir_under_way = Len(ir_queue) /\ ir_under_way' = 1
      BY <2>2, <2>6, <3>1, <3>2 DEF ir_under_way
    <3>4. ir_queue' = <<>>
      BY <2>3, <2>6
    <3>5. ~ir_data_valid(ir, addr)
      BY <2>6
    <3>6. QED
      BY <1>4, <2>2, <3>1, <3>3, <3>4, <3>5
  <2>7. CASE ir_ready /\ ~ir
    <3>1. ir_ready' /\ ~ir_data_valid(ir, addr)
      BY <2>1, <2>7
    <3>2. QED
      BY <1>4, <1>7, <2>2, <2>7, <3>1 DEF ir_under_way
  <2>8. QED
    BY <2>4, <2>5, <2>6, <2>7
<1>12. /\ DOMAIN memory' \subseteq Word /\ Bytes(memory)' /\ fake_uart' \in Seq(Word)
  <2>1. CASE dw_request
    BY <1>2, <2>1, WriteTyped DEF BenchEdge
  <2>2. CASE ~dw_request
    BY <1>2, <2>2 DEF BenchEdge, Bytes
  <2>3. QED
    BY <2>1, <2>2
<1>13. dw_queue' \in Seq(Item)
  BY <1>3, <1>9
<1>14. BenchInv'
  <2>1. verdict' \in {"running", "pass", "fail"} /\ ir_ready' \in BOOLEAN
    BY DEF BenchEdge, BenchInv, BenchTypeOK
  <2>2. dw_item' = dw_item
    BY DEF dw_item
  <2>3. QED
    BY <1>7, <1>8, <1>9, <1>11, <1>12, <1>13, <2>1, <2>2 DEF BenchInv, BenchTypeOK, Bytes
<1>15. QED
  BY <1>8, <1>9, <1>10, <1>11, <1>14 DEF Channels

----------------------------------------------------------------------------
(* The decoder undoes the assembler's encoding.                            *)

\* The slices of an instruction's immediate.
LEMMA FieldSlices ==
  ASSUME NEW i \in Int
  PROVE  /\ Field(i, 11, 5) = (i \div 32) % 128 /\ Field(i, 4, 0) = i % 32
         /\ Field(i, 12, 12) = (i \div 4096) % 2 /\ Field(i, 10, 5) = (i \div 32) % 64
         /\ Field(i, 4, 1) = (i \div 2) % 16 /\ Field(i, 11, 11) = (i \div 2048) % 2
         /\ Field(i, 19, 13) = (i \div 8192) % 128 /\ Field(i, 12, 8) = (i \div 256) % 32
         /\ Field(i, 7, 3) = (i \div 8) % 32 /\ Field(i, 2, 0) = i % 8
         /\ Field(i, 20, 20) = (i \div 1048576) % 2 
         /\ Field(i, 19, 15) = (i \div 32768) % 32 /\ Field(i, 14, 12) = (i \div 4096) % 8
BY DEF Field

\* An immediate is read back from the fields that the encoding put it in: the
\* twelve bits of loads, of jalr and of the immediate operations,
LEMMA ImmI ==
  ASSUME NEW i \in Int, i >= -2048, i <= 2047, NEW f,
         f.funct7 = Field(i, 11, 5), f.rs2 = Field(i, 4, 0)
  PROVE  imm_i(f) = Wrap(i)
<1> DEFINE a == (i \div 32) % 128
           b == i % 32
<1>0. f.funct7 = a /\ f.rs2 = b
  BY FieldSlices
<1>1. a * 32 + b = i % 4096 /\ a \in Int /\ b \in Int
  BY SMT
<1> HIDE DEF a, b
<1>2. i % 4096 = IF i < 0 THEN i + 4096 ELSE i
  BY SMT
<1>3. QED
  BY <1>0, <1>1, <1>2, SMT DEF imm_i, SignExtend

\* of stores,
LEMMA ImmS ==
  ASSUME NEW i \in Int, i >= -2048, i <= 2047, NEW f,
         f.funct7 = Field(i, 11, 5), f.rd = Field(i, 4, 0)
  PROVE  imm_s(f) = Wrap(i)
<1> DEFINE a == (i \div 32) % 128
           b == i % 32
<1>0. f.funct7 = a /\ f.rd = b
  BY FieldSlices
<1>1. a * 32 + b = i % 4096 /\ a \in Int /\ b \in Int
  BY SMT
<1> HIDE DEF a, b
<1>2. i % 4096 = IF i < 0 THEN i + 4096 ELSE i
  BY SMT
<1>3. QED
  BY <1>0, <1>1, <1>2, SMT DEF imm_s, SignExtend

\* of branches, whose last bit is not kept,
LEMMA ImmB ==
  ASSUME NEW i \in Int, i >= -4096, i <= 4094, i % 2 = 0, NEW f,
         f.funct7 = Field(i, 12, 12) * 64 + Field(i, 10, 5),
         f.rd = Field(i, 4, 1) * 2 + Field(i, 11, 11)
  PROVE  imm_b(f) = Wrap(i)
<1> DEFINE h == (i \div 4096) % 2
           a == (i \div 2048) % 2
           b == (i \div 32) % 64
           c == (i \div 2) % 16
<1>1. f.funct7 = h * 64 + b /\ f.rd = c * 2 + a
  <2>1. /\ Field(i, 12, 12) = h /\ Field(i, 10, 5) = b
        /\ Field(i, 4, 1) = c /\ Field(i, 11, 11) = a
    BY FieldSlices
  <2> HIDE DEF h, a, b, c
  <2>2. QED
    BY <2>1
<1>2. h \in 0..1 /\ a \in 0..1 /\ b \in 0..63 /\ c \in 0..15
  BY SMT
<1>3. h * 4096 + a * 2048 + b * 32 + c * 2 = i % 8192
  BY SMT
<1> HIDE DEF h, a, b, c
<1>4. HighBit(f) = h /\ f.funct7 % 64 = b /\ f.rd % 2 = a /\ f.rd \div 2 = c
  BY <1>1, <1>2, SMT DEF HighBit
<1>5. i % 8192 = IF i < 0 THEN i + 8192 ELSE i
  BY SMT
<1>6. HighBit(f) * 4096 + (f.rd % 2) * 2048 + (f.funct7 % 64) * 32 + (f.rd \div 2) * 2 = i % 8192
  BY <1>3, <1>4, SMT
<1>7. QED
  BY <1>5, <1>6, SMT DEF imm_b, SignExtend

\* the upper twenty bits,
LEMMA ImmU ==
  ASSUME NEW i \in Int, i >= -524288, i <= 524287, NEW f,
         f.funct7 = Field(i, 19, 13), f.rs2 = Field(i, 12, 8),
         f.rs1 = Field(i, 7, 3), f.funct3 = Field(i, 2, 0)
  PROVE  imm_u(f) = Wrap(i * 4096)
<1> DEFINE a == (i \div 8192) % 128
           b == (i \div 256) % 32
           c == (i \div 8) % 32
           d == i % 8
<1>1. f.funct7 = a /\ f.rs2 = b /\ f.rs1 = c /\ f.funct3 = d
  BY FieldSlices, SMT
<1>2. (a * 32 + b) * 256 + c * 8 + d = i % 1048576
  BY SMT
<1>3. a \div 64 = IF i < 0 THEN 1 ELSE 0
  BY SMT
<1>4. i % 1048576 = IF i < 0 THEN i + 1048576 ELSE i
  BY SMT
<1>7. a \in Int /\ b \in Int /\ c \in Int /\ d \in Int
  BY SMT
<1> HIDE DEF a, b, c, d
<1> DEFINE top == (f.funct7 * 32 + f.rs2) * 256 + f.rs1 * 8 + f.funct3
<1>5. top - HighBit(f) * 1048576 = i
  BY <1>1, <1>2, <1>3, <1>4, <1>7, SMT DEF HighBit
<1>6. imm_u(f) = Wrap((top - HighBit(f) * 1048576) * 4096)
  BY DEF imm_u
<1>8. QED
  BY ONLY <1>5, <1>6

\* and of jal, whose last bit is not kept.
LEMMA ImmJ ==
  ASSUME NEW i \in Int, i >= -1048576, i <= 1048574, i % 2 = 0, NEW f,
         f.funct7 = Field(i, 20, 20) * 64 + Field(i, 10, 5),
         f.rs2 = Field(i, 4, 1) * 2 + Field(i, 11, 11),
         f.rs1 = Field(i, 19, 15), f.funct3 = Field(i, 14, 12)
  PROVE  imm_j(f) = Wrap(i)
<1> DEFINE h == (i \div 1048576) % 2
           a == (i \div 2048) % 2
           b == (i \div 32) % 64
           c == (i \div 2) % 16
           d == (i \div 32768) % 32
           e == (i \div 4096) % 8
<1>1. f.funct7 = h * 64 + b /\ f.rs2 = c * 2 + a /\ f.rs1 = d /\ f.funct3 = e
  <2>1. /\ Field(i, 20, 20) = h /\ Field(i, 10, 5) = b
        /\ Field(i, 4, 1) = c /\ Field(i, 11, 11) = a
        /\ Field(i, 19, 15) = d /\ Field(i, 14, 12) = e
    BY FieldSlices
  <2> HIDE DEF h, a, b, c, d, e
  <2>2. QED
    BY <2>1
<1>2. h \in 0..1 /\ a \in 0..1 /\ b \in 0..63 /\ c \in 0..15 /\ d \in 0..31 /\ e \in 0..7
  BY SMT
<1>3. h * 1048576 + (d * 8 + e) * 4096 + a * 2048 + b * 32 + c * 2 = i % 2097152
  <2> DEFINE t == i \div 4096
  <2>1. a * 2048 + b * 32 + c * 2 = i % 4096
    BY ONLY i \in Int, i % 2 = 0, SMTT(30)
  <2>2. i % 2097152 = (t % 512) * 4096 + (i % 4096)
    BY SMT
  <2>3. (t \div 256) % 2 = h /\ (t \div 8) % 32 = d /\ t % 8 = e /\ t \in Int
    BY SMT
  <2> HIDE DEF t
  <2>4. t % 512 = ((t \div 256) % 2) * 256 + ((t \div 8) % 32) * 8 + (t % 8)
    BY <2>3, SMT
  <2> HIDE DEF h, a, b, c, d, e
  <2>5. t % 512 = h * 256 + d * 8 + e
    BY <2>3, <2>4
  <2>6. QED
    BY <1>2, <2>1, <2>2, <2>5, SMT
<1> HIDE DEF h, a, b, c, d, e
<1>4. HighBit(f) = h /\ f.funct7 % 64 = b /\ f.rs2 % 2 = a /\ f.rs2 \div 2 = c
  BY <1>1, <1>2, SMT DEF HighBit
<1>5. i % 2097152 = IF i < 0 THEN i + 2097152 ELSE i
  BY SMT
<1>6. HighBit(f) * 1048576 + (f.rs1 * 8 + f.funct3) * 4096
        + (f.rs2 % 2) * 2048 + (f.funct7 % 64) * 32 + (f.rs2 \div 2) * 2 = i % 2097152
  BY <1>1, <1>3, <1>4, SMT
<1>7. QED
  BY <1>5, <1>6, SMT DEF imm_j, SignExtend

\* The function that the decoder gives for an operation, a condition and a
\* memory access.
IntFunct == [add |-> "ADD", sub |-> "SUB", sll |-> "SLL", slt |-> "SLT", sltu |-> "SLTU",
             xor |-> "XOR", srl |-> "SRL", sra |-> "SRA", or |-> "OR", and |-> "AND"]

BranchFunct == [beq |-> "EQ", bne |-> "NEQ", blt |-> "LT", bge |-> "GTE",
                bltu |-> "LTU", bgeu |-> "GTEU"]

MemFunct == [lb |-> "MEM_BYTE", lh |-> "MEM_HWORD", lw |-> "MEM_WORD",
             lbu |-> "MEM_BYTEU", lhu |-> "MEM_HWORDU",
             sb |-> "MEM_BYTE", sh |-> "MEM_HWORD", sw |-> "MEM_WORD"]

\* The decoder's outputs d say what the instruction i is.
Describes(d, i) ==
  /\ i.mnemonic \in {"lui", "auipc"} =>
       /\ d.inst_type = IF i.mnemonic = "lui" THEN "IMM" ELSE "AUIPC"
       /\ d.imm = Wrap(i.imm * 4096) /\ d.rd = i.rd
  /\ i.mnemonic = "jal" => d.inst_type = "JAL" /\ d.imm = Wrap(i.imm) /\ d.rd = i.rd
  /\ i.mnemonic = "jalr" =>
       d.inst_type = "JALR" /\ d.imm = Wrap(i.imm) /\ d.rd = i.rd /\ d.rs1 = i.rs1
  /\ i.mnemonic \in Branches =>
       /\ d.inst_type = "BRANCH" /\ d.funct = BranchFunct[i.mnemonic]
       /\ d.imm = Wrap(i.imm) /\ d.rs1 = i.rs1 /\ d.rs2 = i.rs2
  /\ i.mnemonic \in DOMAIN Loads =>
       /\ d.inst_type = "LOAD" /\ d.funct = MemFunct[i.mnemonic]
       /\ d.imm = Wrap(i.imm) /\ d.rd = i.rd /\ d.rs1 = i.rs1
  /\ i.mnemonic \in DOMAIN Stores =>
       /\ d.inst_type = "STORE" /\ d.funct = MemFunct[i.mnemonic]
       /\ d.imm = Wrap(i.imm) /\ d.rs1 = i.rs1 /\ d.rs2 = i.rs2
  /\ i.mnemonic \in DOMAIN Immediates =>
       /\ d.inst_type = "INT_IMM" /\ d.funct = IntFunct[Immediates[i.mnemonic]]
       /\ d.imm = Wrap(i.imm) /\ d.rd = i.rd /\ d.rs1 = i.rs1
  /\ i.mnemonic \in Registers =>
       /\ d.inst_type = "INT_REG" /\ d.funct = IntFunct[i.mnemonic]
       /\ d.rd = i.rd /\ d.rs1 = i.rs1 /\ d.rs2 = i.rs2
  /\ i.mnemonic = "fence" => d.inst_type = "FENCE"

\* An opcode tells the row of the decoder's table,
LEMMA OpcodeOf ==
  ASSUME NEW f, NEW o \in Opcodes, f.opcode = o.opcode
  PROVE  Opcode(f) = o
<1>1. \A p \in Opcodes : p.opcode = o.opcode => p = o
  BY DEF Opcodes
<1>2. QED
  BY <1>1 DEF Opcode

\* and here is what each tells.
LEMMA OpcodeTable ==
  ASSUME NEW f
  PROVE  /\ f.opcode = 3 => Opcode(f) = [opcode |-> 3, inst_type |-> "LOAD", format |-> "I"]
         /\ f.opcode = 15 => Opcode(f) = [opcode |-> 15, inst_type |-> "FENCE", format |-> "none"]
         /\ f.opcode = 19 => Opcode(f) = [opcode |-> 19, inst_type |-> "INT_IMM", format |-> "I"]
         /\ f.opcode = 23 => Opcode(f) = [opcode |-> 23, inst_type |-> "AUIPC", format |-> "U"]
         /\ f.opcode = 35 => Opcode(f) = [opcode |-> 35, inst_type |-> "STORE", format |-> "S"]
         /\ f.opcode = 51 => Opcode(f) = [opcode |-> 51, inst_type |-> "INT_REG", format |-> "R"]
         /\ f.opcode = 55 => Opcode(f) = [opcode |-> 55, inst_type |-> "IMM", format |-> "U"]
         /\ f.opcode = 99 => Opcode(f) = [opcode |-> 99, inst_type |-> "BRANCH", format |-> "B"]
         /\ f.opcode = 103 => Opcode(f) = [opcode |-> 103, inst_type |-> "JALR", format |-> "I"]
         /\ f.opcode = 111 => Opcode(f) = [opcode |-> 111, inst_type |-> "JAL", format |-> "J"]
<1>1. f.opcode = 3 => Opcode(f) = [opcode |-> 3, inst_type |-> "LOAD", format |-> "I"]
  BY OpcodeOf DEF Opcodes
<1>2. f.opcode = 15 => Opcode(f) = [opcode |-> 15, inst_type |-> "FENCE", format |-> "none"]
  BY OpcodeOf DEF Opcodes
<1>3. f.opcode = 19 => Opcode(f) = [opcode |-> 19, inst_type |-> "INT_IMM", format |-> "I"]
  BY OpcodeOf DEF Opcodes
<1>4. f.opcode = 23 => Opcode(f) = [opcode |-> 23, inst_type |-> "AUIPC", format |-> "U"]
  BY OpcodeOf DEF Opcodes
<1>5. f.opcode = 35 => Opcode(f) = [opcode |-> 35, inst_type |-> "STORE", format |-> "S"]
  BY OpcodeOf DEF Opcodes
<1>6. f.opcode = 51 => Opcode(f) = [opcode |-> 51, inst_type |-> "INT_REG", format |-> "R"]
  BY OpcodeOf DEF Opcodes
<1>7. f.opcode = 55 => Opcode(f) = [opcode |-> 55, inst_type |-> "IMM", format |-> "U"]
  BY OpcodeOf DEF Opcodes
<1>8. f.opcode = 99 => Opcode(f) = [opcode |-> 99, inst_type |-> "BRANCH", format |-> "B"]
  BY OpcodeOf DEF Opcodes
<1>9. f.opcode = 103 => Opcode(f) = [opcode |-> 103, inst_type |-> "JALR", format |-> "I"]
  BY OpcodeOf DEF Opcodes
<1>10. f.opcode = 111 => Opcode(f) = [opcode |-> 111, inst_type |-> "JAL", format |-> "J"]
  BY OpcodeOf DEF Opcodes
<1>11. QED
  BY <1>1, <1>2, <1>3, <1>4, <1>5, <1>6, <1>7, <1>8, <1>9, <1>10

\* The decoder undoes the encoding, format by format.
LEMMA LuiDescribed ==
  ASSUME NEW w, NEW i, Encodable(i), FieldsOf(w) = Encode(i), i.mnemonic = "lui"
  PROVE  Describes(Decode(w), i)
<1> DEFINE e == Encoding[i.mnemonic]
<1>1. e[1] = 55 /\ e[4] = "U"
  BY SMT DEF Encoding
<1>2. Encode(i) = [funct7 |-> Field(i.imm, 19, 13), rs2 |-> Field(i.imm, 12, 8),
                   rs1 |-> Field(i.imm, 7, 3), funct3 |-> Field(i.imm, 2, 0),
                   rd |-> i.rd, opcode |-> 55]
  <2> HIDE DEF e
  <2>1. QED
    BY <1>1 DEF Encode, e
<1>3. Opcode(FieldsOf(w)) = [opcode |-> 55, inst_type |-> "IMM", format |-> "U"]
  BY <1>2, OpcodeTable
<1>4. imm_u(FieldsOf(w)) = Wrap(i.imm * 4096)
  <2>1. i.imm \in Int /\ i.imm >= -524288 /\ i.imm <= 524287
    <3> HIDE DEF e
    <3>1. QED
      BY <1>1, SMT DEF Encodable, e
  <2>2. QED
    BY <1>2, <2>1, ImmU, SMT
<1>5. i.mnemonic \notin {"auipc", "jal", "jalr", "fence"}
        \cup Branches \cup DOMAIN Loads \cup DOMAIN Stores \cup DOMAIN Immediates \cup Registers
  BY DEF Loads, Branches, Stores, Immediates, Registers
<1> HIDE DEF e
<1>6. /\ Decode(w).inst_type = "IMM" /\ Decode(w).imm = Wrap(i.imm * 4096)
      /\ Decode(w).rd = i.rd
  BY <1>1, <1>2, <1>3, <1>4 DEF Decode, funct, imm
<1>7. QED
  BY <1>5, <1>6 DEF Describes

\* The same for auipc,
LEMMA AuipcDescribed ==
  ASSUME NEW w, NEW i, Encodable(i), FieldsOf(w) = Encode(i), i.mnemonic = "auipc"
  PROVE  Describes(Decode(w), i)
<1> DEFINE e == Encoding[i.mnemonic]
<1>1. e[1] = 23 /\ e[4] = "U"
  BY SMT DEF Encoding
<1>2. Encode(i) = [funct7 |-> Field(i.imm, 19, 13), rs2 |-> Field(i.imm, 12, 8),
                   rs1 |-> Field(i.imm, 7, 3), funct3 |-> Field(i.imm, 2, 0),
                   rd |-> i.rd, opcode |-> 23]
  <2> HIDE DEF e
  <2>1. QED
    BY <1>1 DEF Encode, e
<1>3. Opcode(FieldsOf(w)) = [opcode |-> 23, inst_type |-> "AUIPC", format |-> "U"]
  BY <1>2, OpcodeTable
<1>4. imm_u(FieldsOf(w)) = Wrap(i.imm * 4096)
  <2>1. i.imm \in Int /\ i.imm >= -524288 /\ i.imm <= 524287
    <3> HIDE DEF e
    <3>1. QED
      BY <1>1, SMT DEF Encodable, e
  <2>2. QED
    BY <1>2, <2>1, ImmU, SMT
<1>5. i.mnemonic \notin {"lui", "jal", "jalr", "fence"}
        \cup Branches \cup DOMAIN Loads \cup DOMAIN Stores \cup DOMAIN Immediates \cup Registers
  BY DEF Loads, Branches, Stores, Immediates, Registers
<1> HIDE DEF e
<1>6. /\ Decode(w).inst_type = "AUIPC" /\ Decode(w).imm = Wrap(i.imm * 4096)
      /\ Decode(w).rd = i.rd
  BY <1>1, <1>2, <1>3, <1>4 DEF Decode, funct, imm
<1>7. QED
  BY <1>5, <1>6 DEF Describes

\* for jal,
LEMMA JalDescribed ==
  ASSUME NEW w, NEW i, Encodable(i), FieldsOf(w) = Encode(i), i.mnemonic = "jal"
  PROVE  Describes(Decode(w), i)
<1> DEFINE e == Encoding[i.mnemonic]
<1>1. e[1] = 111 /\ e[4] = "J"
  BY SMT DEF Encoding
<1>2. Encode(i) = [funct7 |-> Field(i.imm, 20, 20) * 64 + Field(i.imm, 10, 5),
                   rs2 |-> Field(i.imm, 4, 1) * 2 + Field(i.imm, 11, 11),
                   rs1 |-> Field(i.imm, 19, 15), funct3 |-> Field(i.imm, 14, 12),
                   rd |-> i.rd, opcode |-> 111]
  <2> HIDE DEF e
  <2>1. QED
    BY <1>1 DEF Encode, e
<1>3. Opcode(FieldsOf(w)) = [opcode |-> 111, inst_type |-> "JAL", format |-> "J"]
  BY <1>2, OpcodeTable
<1>4. imm_j(FieldsOf(w)) = Wrap(i.imm)
  <2>1. i.imm \in Int /\ i.imm >= -1048576 /\ i.imm <= 1048574 /\ i.imm % 2 = 0
    <3> HIDE DEF e
    <3>1. QED
      BY <1>1, SMT DEF Encodable, e
  <2>2. QED
    BY <1>2, <2>1, ImmJ, SMT
<1>5. i.mnemonic \notin {"lui", "auipc", "jalr", "fence"}
        \cup Branches \cup DOMAIN Loads \cup DOMAIN Stores \cup DOMAIN Immediates \cup Registers
  BY DEF Loads, Branches, Stores, Immediates, Registers
<1> HIDE DEF e
<1>6. Decode(w).inst_type = "JAL" /\ Decode(w).imm = Wrap(i.imm) /\ Decode(w).rd = i.rd
  BY <1>1, <1>2, <1>3, <1>4 DEF Decode, funct, imm
<1>7. QED
  BY <1>5, <1>6 DEF Describes

\* for jalr,
LEMMA JalrDescribed ==
  ASSUME NEW w, NEW i, Encodable(i), FieldsOf(w) = Encode(i), i.mnemonic = "jalr"
  PROVE  Describes(Decode(w), i)
<1> DEFINE e == Encoding[i.mnemonic]
<1>1. e[1] = 103 /\ e[4] = "I"
  BY SMT DEF Encoding
<1>2. Encode(i) = [funct7 |-> Field(i.imm, 11, 5), rs2 |-> Field(i.imm, 4, 0),
                   rs1 |-> i.rs1, funct3 |-> e[2], rd |-> i.rd, opcode |-> 103]
  <2> HIDE DEF e
  <2>1. QED
    BY <1>1 DEF Encode, e
<1>3. Opcode(FieldsOf(w)) = [opcode |-> 103, inst_type |-> "JALR", format |-> "I"]
  BY <1>2, OpcodeTable
<1>4. imm_i(FieldsOf(w)) = Wrap(i.imm)
  <2>1. i.imm \in Int /\ i.imm >= -2048 /\ i.imm <= 2047
    <3> HIDE DEF e
    <3>1. QED
      BY <1>1, SMT DEF Encodable, e
  <2>2. QED
    BY <1>2, <2>1, ImmI, SMT
<1>5. i.mnemonic \notin {"lui", "auipc", "jal", "fence"}
        \cup Branches \cup DOMAIN Loads \cup DOMAIN Stores \cup DOMAIN Immediates \cup Registers
  BY DEF Loads, Branches, Stores, Immediates, Registers
<1> HIDE DEF e
<1>6. /\ Decode(w).inst_type = "JALR" /\ Decode(w).imm = Wrap(i.imm) /\ Decode(w).rd = i.rd
      /\ Decode(w).rs1 = i.rs1
  BY <1>1, <1>2, <1>3, <1>4 DEF Decode, funct, imm
<1>7. QED
  BY <1>5, <1>6 DEF Describes

\* for the branches,
LEMMA BranchDescribed ==
  ASSUME NEW w, NEW i, Encodable(i), FieldsOf(w) = Encode(i), i.mnemonic \in Branches
  PROVE  Describes(Decode(w), i)
<1> DEFINE e == Encoding[i.mnemonic]
<1>1. e[1] = 99 /\ e[4] = "B" /\ BranchFuncts[e[2] + 1] = BranchFunct[i.mnemonic]
  BY SMT DEF Encoding, Branches, BranchFuncts, BranchFunct
<1>2. Encode(i) = [funct7 |-> Field(i.imm, 12, 12) * 64 + Field(i.imm, 10, 5), rs2 |-> i.rs2,
                   rs1 |-> i.rs1, funct3 |-> e[2],
                   rd |-> Field(i.imm, 4, 1) * 2 + Field(i.imm, 11, 11), opcode |-> 99]
  <2> HIDE DEF e
  <2>1. QED
    BY <1>1 DEF Encode, e
<1>3. Opcode(FieldsOf(w)) = [opcode |-> 99, inst_type |-> "BRANCH", format |-> "B"]
  BY <1>2, OpcodeTable
<1>4. imm_b(FieldsOf(w)) = Wrap(i.imm)
  <2>1. i.imm \in Int /\ i.imm >= -4096 /\ i.imm <= 4094 /\ i.imm % 2 = 0
    <3> HIDE DEF e
    <3>1. QED
      BY <1>1, SMT DEF Encodable, e
  <2>2. QED
    BY <1>2, <2>1, ImmB, SMT
<1>5. i.mnemonic \notin {"lui", "auipc", "jal", "jalr", "fence"}
        \cup DOMAIN Loads \cup DOMAIN Stores \cup DOMAIN Immediates \cup Registers
  BY DEF Loads, Branches, Stores, Immediates, Registers
<1> HIDE DEF e
<1>6. /\ Decode(w).inst_type = "BRANCH" /\ Decode(w).funct = BranchFunct[i.mnemonic]
      /\ Decode(w).imm = Wrap(i.imm) /\ Decode(w).rs1 = i.rs1 /\ Decode(w).rs2 = i.rs2
  BY <1>1, <1>2, <1>3, <1>4 DEF Decode, funct, imm
<1>7. QED
  BY <1>5, <1>6 DEF Describes

\* for the loads,
LEMMA LoadDescribed ==
  ASSUME NEW w, NEW i, Encodable(i), FieldsOf(w) = Encode(i), i.mnemonic \in DOMAIN Loads
  PROVE  Describes(Decode(w), i)
<1> DEFINE e == Encoding[i.mnemonic]
<1>1. e[1] = 3 /\ e[4] = "I" /\ LoadFuncts[e[2] + 1] = MemFunct[i.mnemonic]
  BY SMT DEF Encoding, Loads, LoadFuncts, MemFunct
<1>2. Encode(i) = [funct7 |-> Field(i.imm, 11, 5), rs2 |-> Field(i.imm, 4, 0),
                   rs1 |-> i.rs1, funct3 |-> e[2], rd |-> i.rd, opcode |-> 3]
  <2> HIDE DEF e
  <2>1. QED
    BY <1>1 DEF Encode, e
<1>3. Opcode(FieldsOf(w)) = [opcode |-> 3, inst_type |-> "LOAD", format |-> "I"]
  BY <1>2, OpcodeTable
<1>4. imm_i(FieldsOf(w)) = Wrap(i.imm)
  <2>1. i.imm \in Int /\ i.imm >= -2048 /\ i.imm <= 2047
    <3> HIDE DEF e
    <3>1. QED
      BY <1>1, SMT DEF Encodable, e
  <2>2. QED
    BY <1>2, <2>1, ImmI, SMT
<1>5. i.mnemonic \notin {"lui", "auipc", "jal", "jalr", "fence"}
        \cup Branches \cup DOMAIN Stores \cup DOMAIN Immediates \cup Registers
  BY DEF Loads, Branches, Stores, Immediates, Registers
<1> HIDE DEF e
<1>6. /\ Decode(w).inst_type = "LOAD" /\ Decode(w).funct = MemFunct[i.mnemonic]
      /\ Decode(w).imm = Wrap(i.imm) /\ Decode(w).rd = i.rd /\ Decode(w).rs1 = i.rs1
  BY <1>1, <1>2, <1>3, <1>4 DEF Decode, funct, imm
<1>7. QED
  BY <1>5, <1>6 DEF Describes

\* for the stores,
LEMMA StoreDescribed ==
  ASSUME NEW w, NEW i, Encodable(i), FieldsOf(w) = Encode(i), i.mnemonic \in DOMAIN Stores
  PROVE  Describes(Decode(w), i)
<1> DEFINE e == Encoding[i.mnemonic]
<1>1. e[1] = 35 /\ e[4] = "S" /\ StoreFuncts[e[2] + 1] = MemFunct[i.mnemonic]
  BY SMT DEF Encoding, Stores, StoreFuncts, MemFunct
<1>2. Encode(i) = [funct7 |-> Field(i.imm, 11, 5), rs2 |-> i.rs2, rs1 |-> i.rs1,
                   funct3 |-> e[2], rd |-> Field(i.imm, 4, 0), opcode |-> 35]
  <2> HIDE DEF e
  <2>1. QED
    BY <1>1 DEF Encode, e
<1>3. Opcode(FieldsOf(w)) = [opcode |-> 35, inst_type |-> "STORE", format |-> "S"]
  BY <1>2, OpcodeTable
<1>4. imm_s(FieldsOf(w)) = Wrap(i.imm)
  <2>1. i.imm \in Int /\ i.imm >= -2048 /\ i.imm <= 2047
    <3> HIDE DEF e
    <3>1. QED
      BY <1>1, SMT DEF Encodable, e
  <2>2. QED
    BY <1>2, <2>1, ImmS, SMT
<1>5. i.mnemonic \notin {"lui", "auipc", "jal", "jalr", "fence"}
        \cup Branches \cup DOMAIN Loads \cup DOMAIN Immediates \cup Registers
  BY DEF Loads, Branches, Stores, Immediates, Registers
<1> HIDE DEF e
<1>6. /\ Decode(w).inst_type = "STORE" /\ Decode(w).funct = MemFunct[i.mnemonic]
      /\ Decode(w).imm = Wrap(i.imm) /\ Decode(w).rs1 = i.rs1 /\ Decode(w).rs2 = i.rs2
  BY <1>1, <1>2, <1>3, <1>4 DEF Decode, funct, imm
<1>7. QED
  BY <1>5, <1>6 DEF Describes

\* for the shifts by an immediate, whose amount is in the field of rs2,
LEMMA ShiftDescribed ==
  ASSUME NEW w, NEW i, Encodable(i), FieldsOf(w) = Encode(i),
         i.mnemonic \in {"slli", "srli", "srai"}
  PROVE  Describes(Decode(w), i)
<1> DEFINE e == Encoding[i.mnemonic]
<1>1. e[1] = 19 /\ e[4] = "shift" /\ e[2] = (IF i.mnemonic = "slli" THEN 1 ELSE 5)
      /\ e[3] = (IF i.mnemonic = "srai" THEN 32 ELSE 0)
  BY SMT DEF Encoding
<1>2. Encode(i) = [funct7 |-> e[3], rs2 |-> i.imm, rs1 |-> i.rs1, funct3 |-> e[2],
                   rd |-> i.rd, opcode |-> 19]
  <2> HIDE DEF e
  <2>1. QED
    BY <1>1 DEF Encode, e
<1>3. Opcode(FieldsOf(w)) = [opcode |-> 19, inst_type |-> "INT_IMM", format |-> "I"]
  BY <1>2, OpcodeTable
<1>5. i.mnemonic \notin {"lui", "auipc", "jal", "jalr", "fence"}
        \cup Branches \cup DOMAIN Loads \cup DOMAIN Stores \cup Registers
  BY DEF Loads, Branches, Stores, Immediates, Registers
<1> DEFINE f == FieldsOf(w)
<1>6. i.imm \in 0..31
  <2> HIDE DEF e
  <2>1. QED
    BY <1>1, SMT DEF Encodable, e
<1>7. f.funct3 = e[2] /\ f.funct7 = e[3] /\ f.rs2 = i.imm /\ f.rs1 = i.rs1 /\ f.rd = i.rd
  BY <1>2
<1>8. i.mnemonic = "slli" => imm_i(f) = Wrap(i.imm)
  <2> HIDE DEF e, f
  <2>1. QED
    BY <1>1, <1>6, <1>7, SMT DEF imm_i, SignExtend
<1>9. int_imm_funct(f) = IntFunct[Immediates[i.mnemonic]]
  <2> HIDE DEF e, f
  <2>1. QED
    BY <1>1, <1>7, SMT DEF int_imm_funct, IntFuncts, IntFunct, Immediates
<1> HIDE DEF e, f
<1>10. imm(f, "INT_IMM", "I") = Wrap(i.imm)
  BY <1>1, <1>7, <1>8 DEF imm
<1>11. QED
  BY <1>3, <1>5, <1>7, <1>9, <1>10 DEF Decode, Describes, funct, f

\* for the other immediate operations,
LEMMA ArithmeticDescribed ==
  ASSUME NEW w, NEW i, Encodable(i), FieldsOf(w) = Encode(i),
         i.mnemonic \in DOMAIN Immediates \ {"slli", "srli", "srai"}
  PROVE  Describes(Decode(w), i)
<1> DEFINE e == Encoding[i.mnemonic]
<1>1. e[1] = 19 /\ e[4] = "I" /\ IntFuncts[e[2] + 1] = IntFunct[Immediates[i.mnemonic]] /\ e[2] # 5
  BY SMT DEF Encoding, Immediates, IntFuncts, IntFunct
<1>2. Encode(i) = [funct7 |-> Field(i.imm, 11, 5), rs2 |-> Field(i.imm, 4, 0),
                   rs1 |-> i.rs1, funct3 |-> e[2], rd |-> i.rd, opcode |-> 19]
  <2> HIDE DEF e
  <2>1. QED
    BY <1>1 DEF Encode, e
<1>3. Opcode(FieldsOf(w)) = [opcode |-> 19, inst_type |-> "INT_IMM", format |-> "I"]
  BY <1>2, OpcodeTable
<1>4. imm_i(FieldsOf(w)) = Wrap(i.imm)
  <2>1. i.imm \in Int /\ i.imm >= -2048 /\ i.imm <= 2047
    <3> HIDE DEF e
    <3>1. QED
      BY <1>1, SMT DEF Encodable, e
  <2>2. QED
    BY <1>2, <2>1, ImmI, SMT
<1>5. i.mnemonic \notin {"lui", "auipc", "jal", "jalr", "fence"}
        \cup Branches \cup DOMAIN Loads \cup DOMAIN Stores \cup Registers
  BY DEF Loads, Branches, Stores, Immediates, Registers
<1> HIDE DEF e
<1>6. /\ Decode(w).inst_type = "INT_IMM"
      /\ Decode(w).funct = IntFunct[Immediates[i.mnemonic]] /\ Decode(w).imm = Wrap(i.imm)
      /\ Decode(w).rd = i.rd /\ Decode(w).rs1 = i.rs1
  BY <1>1, <1>2, <1>3, <1>4 DEF Decode, funct, imm, int_imm_funct
<1>7. QED
  BY <1>5, <1>6 DEF Describes

\* for the register operations,
LEMMA RegisterDescribed ==
  ASSUME NEW w, NEW i, Encodable(i), FieldsOf(w) = Encode(i), i.mnemonic \in Registers
  PROVE  Describes(Decode(w), i)
<1> DEFINE e == Encoding[i.mnemonic]
<1>1. /\ e[1] = 51 /\ e[4] = "R"
      /\ int_reg_funct([funct7 |-> e[3], funct3 |-> e[2]]) = IntFunct[i.mnemonic]
  <2>1. i.mnemonic \in {"add", "sub", "sll", "slt", "sltu", "xor", "srl", "sra", "or", "and"}
    BY DEF Registers
  <2>2. CASE i.mnemonic \in {"add", "sub", "sll", "slt", "sltu"}
    BY <2>2, SMT DEF Encoding, IntFuncts, IntFunct, int_reg_funct
  <2>3. CASE i.mnemonic \in {"xor", "srl", "sra", "or", "and"}
    BY <2>3, SMT DEF Encoding, IntFuncts, IntFunct, int_reg_funct
  <2>4. QED
    BY <2>1, <2>2, <2>3
<1>2. Encode(i) = [funct7 |-> e[3], rs2 |-> i.rs2, rs1 |-> i.rs1, funct3 |-> e[2],
                   rd |-> i.rd, opcode |-> 51]
  <2> HIDE DEF e
  <2>1. QED
    BY <1>1 DEF Encode, e
<1>3. Opcode(FieldsOf(w)) = [opcode |-> 51, inst_type |-> "INT_REG", format |-> "R"]
  BY <1>2, OpcodeTable
<1>5. i.mnemonic \notin {"lui", "auipc", "jal", "jalr", "fence"}
        \cup Branches \cup DOMAIN Loads \cup DOMAIN Stores \cup DOMAIN Immediates
  BY DEF Loads, Branches, Stores, Immediates, Registers
<1> HIDE DEF e
<1>6. /\ Decode(w).inst_type = "INT_REG" /\ Decode(w).funct = IntFunct[i.mnemonic]
      /\ Decode(w).rd = i.rd /\ Decode(w).rs1 = i.rs1 /\ Decode(w).rs2 = i.rs2
  BY <1>1, <1>2, <1>3 DEF Decode, funct, imm, int_reg_funct
<1>7. QED
  BY <1>5, <1>6 DEF Describes

\* and for fence.
LEMMA FenceDescribed ==
  ASSUME NEW w, NEW i, Encodable(i), FieldsOf(w) = Encode(i), i.mnemonic = "fence"
  PROVE  Describes(Decode(w), i)
<1> DEFINE e == Encoding[i.mnemonic]
<1>1. e[1] = 15 /\ e[4] = "I"
  BY SMT DEF Encoding
<1>2. Encode(i) = [funct7 |-> Field(i.imm, 11, 5), rs2 |-> Field(i.imm, 4, 0),
                   rs1 |-> i.rs1, funct3 |-> e[2], rd |-> i.rd, opcode |-> 15]
  <2> HIDE DEF e
  <2>1. QED
    BY <1>1 DEF Encode, e
<1>3. Opcode(FieldsOf(w)) = [opcode |-> 15, inst_type |-> "FENCE", format |-> "none"]
  BY <1>2, OpcodeTable
<1>4. imm_i(FieldsOf(w)) = Wrap(i.imm)
  <2>1. i.imm \in Int /\ i.imm >= -2048 /\ i.imm <= 2047
    <3> HIDE DEF e
    <3>1. QED
      BY <1>1, SMT DEF Encodable, e
  <2>2. QED
    BY <1>2, <2>1, ImmI, SMT
<1>5. i.mnemonic \notin {"lui", "auipc", "jal", "jalr"}
        \cup Branches \cup DOMAIN Loads \cup DOMAIN Stores \cup DOMAIN Immediates \cup Registers
  BY DEF Loads, Branches, Stores, Immediates, Registers
<1> HIDE DEF e
<1>6. Decode(w).inst_type = "FENCE"
  BY <1>1, <1>2, <1>3, <1>4 DEF Decode, funct, imm
<1>7. QED
  BY <1>5, <1>6 DEF Describes

\* The decoder's outputs for a word that stands for an instruction say which
\* it is; any other word is an upper immediate 0 for x0.
LEMMA Decoded ==
  ASSUME NEW w
  PROVE  /\ w \in DOMAIN Asm => Describes(Decode(w), Asm[w]) /\ Asm[w].mnemonic \in Mnemonic
         /\ w \notin DOMAIN Asm => /\ Decode(w).inst_type = "IMM"
                                   /\ Decode(w).imm = 0 /\ Decode(w).rd = 0
<1>1. CASE w \in DOMAIN Asm
  <2> DEFINE i == Asm[w]
  <2>1. Encodable(i) /\ FieldsOf(w) = Encode(i)
    BY <1>1, TestbenchAssumption DEF FieldsOf
  <2>2. i.mnemonic \in Mnemonic
    BY <2>1 DEF Encodable
  <2> HIDE DEF i
  <2>3. \/ i.mnemonic = "lui" \/ i.mnemonic = "auipc"
        \/ i.mnemonic = "jal" \/ i.mnemonic = "jalr"
        \/ i.mnemonic \in Branches \/ i.mnemonic \in DOMAIN Loads
        \/ i.mnemonic \in DOMAIN Stores
        \/ i.mnemonic \in {"slli", "srli", "srai"}
        \/ i.mnemonic \in DOMAIN Immediates \ {"slli", "srli", "srai"}
        \/ i.mnemonic \in Registers \/ i.mnemonic = "fence"
    BY <2>2 DEF Mnemonic, Encoding, Branches, Loads, Stores, Immediates, Registers
  <2>4. Describes(Decode(w), i)
    BY <2>1, <2>3, LuiDescribed, AuipcDescribed, JalDescribed, JalrDescribed,
       BranchDescribed, LoadDescribed, StoreDescribed, ShiftDescribed,
       ArithmeticDescribed, RegisterDescribed, FenceDescribed
  <2>5. QED
    BY <1>1, <2>2, <2>4 DEF i
<1>2. CASE w \notin DOMAIN Asm
  <2>1. FieldsOf(w) = NoFields
    BY <1>2, TestbenchAssumption DEF FieldsOf
  <2>2. Opcode(NoFields) = Unknown
    BY DEF NoFields, Opcode, Opcodes
  <2>3. QED
    BY <1>2, <2>1, <2>2 DEF Decode, Unknown, imm
<1>3. QED
  BY <1>1, <1>2

----------------------------------------------------------------------------
(* Arithmetic on words and bytes.                                          *)

\* A sum of wrapped words is the wrapped sum.
LEMMA WrapOfWrap ==
  \A a, b \in Int : Wrap(a + Wrap(b)) = Wrap(a + b) /\ Wrap(Wrap(b) + a) = Wrap(b + a)
<1>1. CASE WordSize = 16
  BY <1>1, SMT DEF Wrap
<1>2. CASE WordSize = 256
  BY <1>2, SMT DEF Wrap
<1>3. CASE WordSize = 65536
  BY <1>3, SMT DEF Wrap
<1>4. CASE WordSize = 4294967296
  BY <1>4, SMT DEF Wrap
<1>5. WordSize \in {16, 256, 65536, 4294967296}
  BY Widths, SMT
<1>6. QED
  BY ONLY <1>1, <1>2, <1>3, <1>4, <1>5

Weights == {2, 4, 8, 16, 64, 256, 4096, 65536, 16777216}

\* Division by a weight of a byte or of a field takes a number apart.
LEMMA DivMod ==
  ASSUME NEW W \in Weights, NEW x \in Nat, x < W, NEW y \in Nat
  PROVE  (x + y * W) \div W = y /\ (x + y * W) % W = x
<1>1. CASE W = 2
  BY <1>1, SMT
<1>2. CASE W = 4
  BY <1>2, SMT
<1>3. CASE W = 8
  BY <1>3, SMT
<1>4. CASE W = 16
  BY <1>4, SMT
<1>5. CASE W = 64
  BY <1>5, SMT
<1>6. CASE W = 256
  BY <1>6, SMT
<1>7. CASE W = 4096
  BY <1>7, SMT
<1>8. CASE W = 65536
  BY <1>8, SMT
<1>9. CASE W = 16777216
  BY <1>9, SMT
<1>10. QED
  BY <1>1, <1>2, <1>3, <1>4, <1>5, <1>6, <1>7, <1>8, <1>9 DEF Weights

\* The size of a byte, and its powers.
LEMMA Powers ==
  \/ /\ ByteSize = 2 /\ ByteSize^0 = 1 /\ ByteSize^1 = 2 /\ ByteSize^2 = 4
     /\ ByteSize^3 = 8 /\ ByteSize^4 = 16
  \/ /\ ByteSize = 4 /\ ByteSize^0 = 1 /\ ByteSize^1 = 4 /\ ByteSize^2 = 16
     /\ ByteSize^3 = 64 /\ ByteSize^4 = 256
  \/ /\ ByteSize = 16 /\ ByteSize^0 = 1 /\ ByteSize^1 = 16 /\ ByteSize^2 = 256
     /\ ByteSize^3 = 4096 /\ ByteSize^4 = 65536
  \/ /\ ByteSize = 256 /\ ByteSize^0 = 1 /\ ByteSize^1 = 256 /\ ByteSize^2 = 65536
     /\ ByteSize^3 = 16777216 /\ ByteSize^4 = 4294967296
<1>1. CASE ByteBits = 1
  BY <1>1, SMT DEF ByteSize
<1>2. CASE ByteBits = 2
  BY <1>2, SMT DEF ByteSize
<1>3. CASE ByteBits = 4
  BY <1>3, SMT DEF ByteSize
<1>4. CASE ByteBits = 8
  BY <1>4, SMT DEF ByteSize
<1>5. QED
  BY <1>1, <1>2, <1>3, <1>4, ByteBitsAssumption

----------------------------------------------------------------------------
(* Words by bytes: what loads read and stores write.                       *)

\* The word of four bytes.
Four(b0, b1, b2, b3) == b0 + b1 * ByteSize + b2 * ByteSize^2 + b3 * ByteSize^3

\* Its lower and its upper bytes.
LEMMA Split ==
  ASSUME NEW b0 \in Byte, NEW b1 \in Byte, NEW b2 \in Byte, NEW b3 \in Byte
  PROVE  /\ Four(b0, b1, b2, b3) \div ByteSize^0 = Four(b0, b1, b2, b3)
         /\ Four(b0, b1, b2, b3) \div ByteSize^1 = Four(b1, b2, b3, 0)
         /\ Four(b0, b1, b2, b3) \div ByteSize^2 = Four(b2, b3, 0, 0)
         /\ Four(b0, b1, b2, b3) \div ByteSize^3 = Four(b3, 0, 0, 0)
         /\ LowBytes(Four(b0, b1, b2, b3), 1) = b0
         /\ LowBytes(Four(b0, b1, b2, b3), 2) = b0 + b1 * ByteSize
         /\ LowBytes(Four(b0, b1, b2, b3), 4) = Four(b0, b1, b2, b3)
<1>1. /\ b0 \in Nat /\ b1 \in Nat /\ b2 \in Nat /\ b3 \in Nat
      /\ b0 < ByteSize /\ b1 < ByteSize /\ b2 < ByteSize /\ b3 < ByteSize
  BY Powers DEF Byte
<1> DEFINE w == Four(b0, b1, b2, b3)
<1>2. CASE ByteSize = 2
  <2>1. ByteSize^0 = 1 /\ ByteSize^1 = 2 /\ ByteSize^2 = 4 /\ ByteSize^3 = 8 /\ ByteSize^4 = 16
    BY <1>2, Powers, SMT
  <2>2. w = b0 + (b1 + b2 * 2 + b3 * 4) * 2 /\ w = (b0 + b1 * 2) + (b2 + b3 * 2) * 4
        /\ w = (b0 + b1 * 2 + b2 * 4) + b3 * 8
    BY <1>1, <1>2, <2>1, SMT DEF Four
  <2>3. /\ b1 + b2 * 2 + b3 * 4 \in Nat /\ b2 + b3 * 2 \in Nat
        /\ b0 + b1 * 2 \in Nat /\ b0 + b1 * 2 < 4
        /\ b0 + b1 * 2 + b2 * 4 \in Nat /\ b0 + b1 * 2 + b2 * 4 < 8
        /\ w \in Nat /\ w < 16
    BY <1>1, <1>2, <2>1, <2>2, SMT
  <2> HIDE DEF w
  <2>4. w \div 2 = b1 + b2 * 2 + b3 * 4 /\ w % 2 = b0
    BY <1>1, <1>2, <2>2, <2>3, DivMod, SMT DEF Weights
  <2>5. w \div 4 = b2 + b3 * 2 /\ w % 4 = b0 + b1 * 2
    BY <1>1, <2>2, <2>3, DivMod, SMT DEF Weights
  <2>6. w \div 8 = b3
    BY <1>1, <2>2, <2>3, DivMod, SMT DEF Weights
  <2>7. w \div 1 = w /\ w % 16 = w
    BY <2>3, SMT
  <2>8. /\ Four(b1, b2, b3, 0) = b1 + b2 * 2 + b3 * 4
        /\ Four(b2, b3, 0, 0) = b2 + b3 * 2 /\ Four(b3, 0, 0, 0) = b3
    BY <1>1, <1>2, <2>1, SMT DEF Four
  <2>9. QED
    BY ONLY <1>2, <2>1, <2>4, <2>5, <2>6, <2>7, <2>8, SMT DEF w, LowBytes
<1>3. CASE ByteSize = 4
  <2>1. ByteSize^0 = 1 /\ ByteSize^1 = 4 /\ ByteSize^2 = 16 /\ ByteSize^3 = 64 /\ ByteSize^4 = 256
    BY <1>3, Powers, SMT
  <2>2. w = b0 + (b1 + b2 * 4 + b3 * 16) * 4 /\ w = (b0 + b1 * 4) + (b2 + b3 * 4) * 16
        /\ w = (b0 + b1 * 4 + b2 * 16) + b3 * 64
    BY <1>1, <1>3, <2>1, SMT DEF Four
  <2>3. /\ b1 + b2 * 4 + b3 * 16 \in Nat /\ b2 + b3 * 4 \in Nat
        /\ b0 + b1 * 4 \in Nat /\ b0 + b1 * 4 < 16
        /\ b0 + b1 * 4 + b2 * 16 \in Nat /\ b0 + b1 * 4 + b2 * 16 < 64
        /\ w \in Nat /\ w < 256
    BY <1>1, <1>3, <2>1, <2>2, SMT
  <2> HIDE DEF w
  <2>4. w \div 4 = b1 + b2 * 4 + b3 * 16 /\ w % 4 = b0
    BY <1>1, <1>3, <2>2, <2>3, DivMod, SMT DEF Weights
  <2>5. w \div 16 = b2 + b3 * 4 /\ w % 16 = b0 + b1 * 4
    BY <1>1, <2>2, <2>3, DivMod, SMT DEF Weights
  <2>6. w \div 64 = b3
    BY <1>1, <2>2, <2>3, DivMod, SMT DEF Weights
  <2>7. w \div 1 = w /\ w % 256 = w
    BY <2>3, SMT
  <2>8. /\ Four(b1, b2, b3, 0) = b1 + b2 * 4 + b3 * 16
        /\ Four(b2, b3, 0, 0) = b2 + b3 * 4 /\ Four(b3, 0, 0, 0) = b3
    BY <1>1, <1>3, <2>1, SMT DEF Four
  <2>9. QED
    BY ONLY <1>3, <2>1, <2>4, <2>5, <2>6, <2>7, <2>8, SMT DEF w, LowBytes
<1>4. CASE ByteSize = 16
  <2>1. /\ ByteSize^0 = 1 /\ ByteSize^1 = 16 /\ ByteSize^2 = 256
        /\ ByteSize^3 = 4096 /\ ByteSize^4 = 65536
    BY <1>4, Powers, SMT
  <2>2. w = b0 + (b1 + b2 * 16 + b3 * 256) * 16 /\ w = (b0 + b1 * 16) + (b2 + b3 * 16) * 256
        /\ w = (b0 + b1 * 16 + b2 * 256) + b3 * 4096
    BY <1>1, <1>4, <2>1, SMT DEF Four
  <2>3. /\ b1 + b2 * 16 + b3 * 256 \in Nat /\ b2 + b3 * 16 \in Nat
        /\ b0 + b1 * 16 \in Nat /\ b0 + b1 * 16 < 256
        /\ b0 + b1 * 16 + b2 * 256 \in Nat /\ b0 + b1 * 16 + b2 * 256 < 4096
        /\ w \in Nat /\ w < 65536
    BY <1>1, <1>4, <2>1, <2>2, SMT
  <2> HIDE DEF w
  <2>4. w \div 16 = b1 + b2 * 16 + b3 * 256 /\ w % 16 = b0
    BY <1>1, <1>4, <2>2, <2>3, DivMod, SMT DEF Weights
  <2>5. w \div 256 = b2 + b3 * 16 /\ w % 256 = b0 + b1 * 16
    BY <1>1, <2>2, <2>3, DivMod, SMT DEF Weights
  <2>6. w \div 4096 = b3
    BY <1>1, <2>2, <2>3, DivMod, SMT DEF Weights
  <2>7. w \div 1 = w /\ w % 65536 = w
    BY <2>3, SMT
  <2>8. /\ Four(b1, b2, b3, 0) = b1 + b2 * 16 + b3 * 256
        /\ Four(b2, b3, 0, 0) = b2 + b3 * 16 /\ Four(b3, 0, 0, 0) = b3
    BY <1>1, <1>4, <2>1, SMT DEF Four
  <2>9. QED
    BY ONLY <1>4, <2>1, <2>4, <2>5, <2>6, <2>7, <2>8, SMT DEF w, LowBytes
<1>5. CASE ByteSize = 256
  <2>1. /\ ByteSize^0 = 1 /\ ByteSize^1 = 256 /\ ByteSize^2 = 65536
        /\ ByteSize^3 = 16777216 /\ ByteSize^4 = 4294967296
    BY <1>5, Powers, SMT
  <2>2. w = b0 + (b1 + b2 * 256 + b3 * 65536) * 256 /\ w = (b0 + b1 * 256) + (b2 + b3 * 256) * 65536
        /\ w = (b0 + b1 * 256 + b2 * 65536) + b3 * 16777216
    BY <1>1, <1>5, <2>1, SMT DEF Four
  <2>3. /\ b1 + b2 * 256 + b3 * 65536 \in Nat /\ b2 + b3 * 256 \in Nat
        /\ b0 + b1 * 256 \in Nat /\ b0 + b1 * 256 < 65536
        /\ b0 + b1 * 256 + b2 * 65536 \in Nat /\ b0 + b1 * 256 + b2 * 65536 < 16777216
        /\ w \in Nat /\ w < 4294967296
    BY <1>1, <1>5, <2>1, <2>2, SMT
  <2> HIDE DEF w
  <2>4. w \div 256 = b1 + b2 * 256 + b3 * 65536 /\ w % 256 = b0
    BY <1>1, <1>5, <2>2, <2>3, DivMod, SMT DEF Weights
  <2>5. w \div 65536 = b2 + b3 * 256 /\ w % 65536 = b0 + b1 * 256
    BY <1>1, <2>2, <2>3, DivMod, SMT DEF Weights
  <2>6. w \div 16777216 = b3
    BY <1>1, <2>2, <2>3, DivMod, SMT DEF Weights
  <2>7. w \div 1 = w /\ w % 4294967296 = w
    BY <2>3, SMT
  <2>8. /\ Four(b1, b2, b3, 0) = b1 + b2 * 256 + b3 * 65536
        /\ Four(b2, b3, 0, 0) = b2 + b3 * 256 /\ Four(b3, 0, 0, 0) = b3
    BY <1>1, <1>5, <2>1, SMT DEF Four
  <2>9. QED
    BY ONLY <1>5, <2>1, <2>4, <2>5, <2>6, <2>7, <2>8, SMT DEF w, LowBytes
<1>6. QED
  BY <1>2, <1>3, <1>4, <1>5, Powers

\* A memory of bytes gives bytes, where nothing was loaded too.
LEMMA MemoryByte == ASSUME NEW m, Bytes(m) PROVE \A a : ByteAt(m, a) \in Byte
BY Widths DEF Bytes, ByteAt, Byte

\* Shifted down, the word at an address is the bytes from the addressed one on.
LEMMA LoadLanes ==
  ASSUME NEW m, Bytes(m), NEW a \in Int, NEW offset \in Lanes, NEW n \in {1, 2, 4},
         offset + n <= 4
  PROVE  LowBytes(from_array(m, a) \div ByteSize^offset, n)
           = LowBytes(from_array(m, a + offset), n)
<1> DEFINE b(k) == ByteAt(m, a + k)
<1>1. \A k : b(k) \in Byte
  BY MemoryByte
<1>2. 0 \in Byte
  BY Powers DEF Byte
<1>3. from_array(m, a) = Four(b(0), b(1), b(2), b(3))
  BY DEF from_array, Four
<1>4. from_array(m, a + offset) = Four(b(offset), b(offset + 1), b(offset + 2), b(offset + 3))
  <2>1. /\ a + offset + 1 = a + (offset + 1) /\ a + offset + 2 = a + (offset + 2)
        /\ a + offset + 3 = a + (offset + 3)
    BY DEF Lanes
  <2>2. QED
    BY <2>1 DEF from_array, Four
<1> HIDE DEF b
<1>5. CASE offset = 0
  BY <1>1, <1>3, <1>4, <1>5, Split
<1>6. CASE offset = 1 /\ n \in {1, 2}
  BY <1>1, <1>2, <1>3, <1>4, <1>6, Split
<1>7. CASE offset = 2 /\ n \in {1, 2}
  BY <1>1, <1>2, <1>3, <1>4, <1>7, Split
<1>8. CASE offset = 3 /\ n = 1
  BY <1>1, <1>2, <1>3, <1>4, <1>8, Split
<1>9. QED
  BY <1>5, <1>6, <1>7, <1>8 DEF Lanes

\* What a load takes from the word w is what the instruction makes of the bytes
\* from the addressed one on.
LEMMA LoadExtends ==
  ASSUME NEW w \in Word, NEW mnemonic \in DOMAIN Loads, NEW offset \in Lanes,
         offset + Loads[mnemonic] <= 4
  PROVE  LoadData(MemFunct[mnemonic], offset, w)
           = Extend(LowBytes(w \div ByteSize^offset, Loads[mnemonic]), mnemonic)
<1> DEFINE t == w \div ByteSize^offset
<1>1. mnemonic \in {"lb", "lh", "lw", "lbu", "lhu"}
  BY DEF Loads
<1> HIDE DEF t
<1>2. ByteSize^1 = ByteSize
  BY Powers
<1>3. CASE mnemonic = "lb"
  BY <1>2, <1>3 DEF t, LoadData, Extend, MemFunct, Loads
<1>4. CASE mnemonic = "lh"
  BY <1>4 DEF t, LoadData, Extend, MemFunct, Loads
<1>5. CASE mnemonic = "lbu"
  BY <1>5 DEF t, LoadData, Extend, MemFunct, Loads
<1>6. CASE mnemonic = "lhu"
  BY <1>6 DEF t, LoadData, Extend, MemFunct, Loads
<1>7. CASE mnemonic = "lw"
  <2>1. offset = 0
    BY <1>7 DEF Loads, Lanes
  <2>2. ByteSize^0 = 1 /\ ByteSize^4 = WordSize
    BY Powers, Widths
  <2>3. w \div 1 = w /\ w % WordSize = w
    BY Widths DEF Word
  <2>4. QED
    BY <1>7, <2>1, <2>2, <2>3 DEF t, LoadData, Extend, MemFunct, Loads, LowBytes
<1>8. QED
  BY <1>1, <1>3, <1>4, <1>5, <1>6, <1>7

\* Every word is four bytes,
LEMMA WordBytes ==
  ASSUME NEW w \in Word
  PROVE  \E b0, b1, b2, b3 \in Byte : w = Four(b0, b1, b2, b3)
<1> DEFINE b(k) == (w \div ByteSize^k) % ByteSize
<1>1. w \in Nat /\ w < WordSize
  BY Widths DEF Word
<1>2. b(0) \in Byte /\ b(1) \in Byte /\ b(2) \in Byte /\ b(3) \in Byte
  BY LaneByte DEF Lane, Lanes
<1>3. CASE ByteSize = 2
  <2>1. /\ ByteSize^0 = 1 /\ ByteSize^1 = 2 /\ ByteSize^2 = 4 /\ ByteSize^3 = 8
        /\ WordSize = 16
    BY <1>3, Powers, Widths, SMT
  <2>2. w = (w % 2) + ((w \div 2) % 2) * 2 + ((w \div 4) % 2) * 4 + ((w \div 8) % 2) * 8
    BY <1>1, <2>1, SMT
  <2>3. w \div 1 = w
    BY <1>1, SMT
  <2>4. w = Four(b(0), b(1), b(2), b(3))
    BY ONLY <1>3, <2>1, <2>2, <2>3, SMT DEF Four
  <2>5. QED
    BY <1>2, <2>4
<1>4. CASE ByteSize = 4
  <2>1. /\ ByteSize^0 = 1 /\ ByteSize^1 = 4 /\ ByteSize^2 = 16 /\ ByteSize^3 = 64
        /\ WordSize = 256
    BY <1>4, Powers, Widths, SMT
  <2>2. w = (w % 4) + ((w \div 4) % 4) * 4 + ((w \div 16) % 4) * 16 + ((w \div 64) % 4) * 64
    BY <1>1, <2>1, SMT
  <2>3. w \div 1 = w
    BY <1>1, SMT
  <2>4. w = Four(b(0), b(1), b(2), b(3))
    BY ONLY <1>4, <2>1, <2>2, <2>3, SMT DEF Four
  <2>5. QED
    BY <1>2, <2>4
<1>5. CASE ByteSize = 16
  <2>1. /\ ByteSize^0 = 1 /\ ByteSize^1 = 16 /\ ByteSize^2 = 256 /\ ByteSize^3 = 4096
        /\ WordSize = 65536
    BY <1>5, Powers, Widths, SMT
  <2>2. w = (w % 16) + ((w \div 16) % 16) * 16 + ((w \div 256) % 16) * 256
            + ((w \div 4096) % 16) * 4096
    BY <1>1, <2>1, SMT
  <2>3. w \div 1 = w
    BY <1>1, SMT
  <2>4. w = Four(b(0), b(1), b(2), b(3))
    BY ONLY <1>5, <2>1, <2>2, <2>3, SMT DEF Four
  <2>5. QED
    BY <1>2, <2>4
<1>6. CASE ByteSize = 256
  <2>1. /\ ByteSize^0 = 1 /\ ByteSize^1 = 256 /\ ByteSize^2 = 65536 /\ ByteSize^3 = 16777216
        /\ WordSize = 4294967296
    BY <1>6, Powers, Widths, SMT
  <2>2. w = (w % 256) + ((w \div 256) % 256) * 256 + ((w \div 65536) % 256) * 65536
            + ((w \div 16777216) % 256) * 16777216
    BY <1>1, <2>1, SMT
  <2>3. w \div 1 = w
    BY <1>1, SMT
  <2>4. w = Four(b(0), b(1), b(2), b(3))
    BY ONLY <1>6, <2>1, <2>2, <2>3, SMT DEF Four
  <2>5. QED
    BY <1>2, <2>4
<1>7. QED
  BY <1>3, <1>4, <1>5, <1>6, Powers

\* which are its lanes.
LEMMA LaneOfFour ==
  ASSUME NEW b0 \in Byte, NEW b1 \in Byte, NEW b2 \in Byte, NEW b3 \in Byte
  PROVE  /\ Lane(Four(b0, b1, b2, b3), 0) = b0 /\ Lane(Four(b0, b1, b2, b3), 1) = b1
         /\ Lane(Four(b0, b1, b2, b3), 2) = b2 /\ Lane(Four(b0, b1, b2, b3), 3) = b3
<1>1. 0 \in Byte
  BY Powers DEF Byte
<1>2. \A w : LowBytes(w, 1) = w % ByteSize
  <2>1. ByteSize^1 = ByteSize
    BY Powers
  <2>2. QED
    BY <2>1 DEF LowBytes
<1>3. \A c0, c1, c2, c3 \in Byte : Four(c0, c1, c2, c3) % ByteSize = c0
  BY <1>2, Split
<1>4. QED
  BY <1>1, <1>3, Split DEF Lane

\* A byte, or a half word, in its lanes.
LEMMA Shifted ==
  ASSUME NEW b0 \in Byte, NEW b1 \in Byte
  PROVE  /\ Wrap(b0 * ByteSize^0) = Four(b0, 0, 0, 0)
         /\ Wrap(b0 * ByteSize^1) = Four(0, b0, 0, 0)
         /\ Wrap(b0 * ByteSize^2) = Four(0, 0, b0, 0)
         /\ Wrap(b0 * ByteSize^3) = Four(0, 0, 0, b0)
         /\ Wrap((b0 + b1 * ByteSize) * ByteSize^0) = Four(b0, b1, 0, 0)
         /\ Wrap((b0 + b1 * ByteSize) * ByteSize^1) = Four(0, b0, b1, 0)
         /\ Wrap((b0 + b1 * ByteSize) * ByteSize^2) = Four(0, 0, b0, b1)
<1>1. b0 \in Nat /\ b1 \in Nat /\ b0 < ByteSize /\ b1 < ByteSize
  BY Powers DEF Byte
<1>2. CASE ByteSize = 2
  <2>1. /\ ByteSize^0 = 1 /\ ByteSize^1 = 2 /\ ByteSize^2 = 4 /\ ByteSize^3 = 8
        /\ WordSize = 16
    BY <1>2, Powers, Widths, SMT
  <2>2. QED
    BY ONLY <1>1, <1>2, <2>1, SMT DEF Four, Wrap
<1>3. CASE ByteSize = 4
  <2>1. /\ ByteSize^0 = 1 /\ ByteSize^1 = 4 /\ ByteSize^2 = 16 /\ ByteSize^3 = 64
        /\ WordSize = 256
    BY <1>3, Powers, Widths, SMT
  <2>2. QED
    BY ONLY <1>1, <1>3, <2>1, SMT DEF Four, Wrap
<1>4. CASE ByteSize = 16
  <2>1. /\ ByteSize^0 = 1 /\ ByteSize^1 = 16 /\ ByteSize^2 = 256 /\ ByteSize^3 = 4096
        /\ WordSize = 65536
    BY <1>4, Powers, Widths, SMT
  <2>2. QED
    BY ONLY <1>1, <1>4, <2>1, SMT DEF Four, Wrap
<1>5. CASE ByteSize = 256
  <2>1. /\ ByteSize^0 = 1 /\ ByteSize^1 = 256 /\ ByteSize^2 = 65536 /\ ByteSize^3 = 16777216
        /\ WordSize = 4294967296
    BY <1>5, Powers, Widths, SMT
  <2>2. QED
    BY ONLY <1>1, <1>5, <2>1, SMT DEF Four, Wrap
<1>6. QED
  BY <1>2, <1>3, <1>4, <1>5, Powers

\* The lanes that a store writes hold the low bytes of the value stored.
LEMMA StoreLanes ==
  ASSUME NEW v \in Word, NEW n \in {1, 2, 4}, NEW offset \in Lanes, offset + n <= 4,
         NEW j \in 0..(n - 1)
  PROVE  Lane(Wrap(LowBytes(v, n) * ByteSize^offset), offset + j) = Lane(v, j)
<1>1. PICK b0 \in Byte, b1 \in Byte, b2 \in Byte, b3 \in Byte : v = Four(b0, b1, b2, b3)
  BY WordBytes
<1>2. 0 \in Byte
  BY Powers DEF Byte
<1>3. Lane(v, 0) = b0 /\ Lane(v, 1) = b1
  BY <1>1, LaneOfFour
<1>4. LowBytes(v, 1) = b0 /\ LowBytes(v, 2) = b0 + b1 * ByteSize /\ LowBytes(v, 4) = v
  BY <1>1, Split
<1>5. \A b \in Byte : /\ Lane(Four(b, 0, 0, 0), 0) = b /\ Lane(Four(0, b, 0, 0), 1) = b
                      /\ Lane(Four(0, 0, b, 0), 2) = b /\ Lane(Four(0, 0, 0, b), 3) = b
  BY <1>2, LaneOfFour
<1>6. CASE n = 1
  <2>1. j = 0 /\ LowBytes(v, n) = b0
    BY <1>4, <1>6
  <2>2. CASE offset = 0
    BY <1>3, <1>5, <2>1, <2>2, Shifted
  <2>3. CASE offset = 1
    BY <1>3, <1>5, <2>1, <2>3, Shifted
  <2>4. CASE offset = 2
    BY <1>3, <1>5, <2>1, <2>4, Shifted
  <2>5. CASE offset = 3
    BY <1>3, <1>5, <2>1, <2>5, Shifted
  <2>6. QED
    BY <2>2, <2>3, <2>4, <2>5 DEF Lanes
<1>7. CASE n = 2
  <2>1. j \in {0, 1} /\ LowBytes(v, n) = b0 + b1 * ByteSize
    BY <1>4, <1>7
  <2>2. CASE offset = 0
    <3>1. Lane(Four(b0, b1, 0, 0), 0) = b0 /\ Lane(Four(b0, b1, 0, 0), 1) = b1
      BY <1>2, LaneOfFour
    <3>2. QED
      BY <1>3, <2>1, <2>2, <3>1, Shifted
  <2>3. CASE offset = 1
    <3>1. Lane(Four(0, b0, b1, 0), 1) = b0 /\ Lane(Four(0, b0, b1, 0), 2) = b1
      BY <1>2, LaneOfFour
    <3>2. QED
      BY <1>3, <2>1, <2>3, <3>1, Shifted
  <2>4. CASE offset = 2
    <3>1. Lane(Four(0, 0, b0, b1), 2) = b0 /\ Lane(Four(0, 0, b0, b1), 3) = b1
      BY <1>2, LaneOfFour
    <3>2. QED
      BY <1>3, <2>1, <2>4, <3>1, Shifted
  <2>5. QED
    BY <1>7, <2>2, <2>3, <2>4 DEF Lanes
<1>8. CASE n = 4
  <2>1. offset = 0 /\ ByteSize^0 = 1 /\ v * 1 = v /\ Wrap(v) = v
    BY <1>8, Powers, Widths DEF Lanes, Word, Wrap
  <2>2. QED
    BY <1>4, <1>8, <2>1
<1>9. QED
  BY <1>6, <1>7, <1>8

\* What a store writes is what the instruction stores.
LEMMA StoreWrites ==
  ASSUME NEW v \in Word, NEW mnemonic \in DOMAIN Stores, NEW offset \in Lanes,
         NEW a \in Int, offset + Stores[mnemonic] <= 4
  PROVE  LET f == MemFunct[mnemonic]
             n == Stores[mnemonic]
         IN  /\ StoreData(f, offset, v) = Wrap(LowBytes(v, n) * ByteSize^offset)
             /\ [p \in {a + i : i \in StoreStrobe(f, offset)} |->
                   Lane(StoreData(f, offset, v), p - a)]
                  = [p \in (a + offset)..((a + offset) + n - 1) |-> Lane(v, p - (a + offset))]
<1> DEFINE f == MemFunct[mnemonic]
           n == Stores[mnemonic]
           data == Wrap(LowBytes(v, n) * ByteSize^offset)
<1>1. /\ n \in {1, 2, 4} /\ offset + n <= 4 /\ offset \in 0..3
      /\ n = 1 => f = "MEM_BYTE" /\ StoreStrobe(f, offset) = {offset}
      /\ n = 2 => f = "MEM_HWORD" /\ StoreStrobe(f, offset) = {offset, offset + 1}
      /\ n = 4 => f = "MEM_WORD" /\ StoreStrobe(f, offset) = 0..3 /\ offset = 0
  <2>1. n \in {1, 2, 4} /\ offset \in 0..3 /\ offset + n <= 4
    BY DEF Stores, Lanes
  <2>2. /\ n = 1 => f = "MEM_BYTE"
        /\ n = 2 => f = "MEM_HWORD"
        /\ n = 4 => f = "MEM_WORD"
    BY DEF Stores, MemFunct
  <2> HIDE DEF f, n
  <2>3. n = 2 => {offset, offset + 1} \cap Lanes = {offset, offset + 1}
    <3>1. n = 2 => offset \in Lanes /\ offset + 1 \in Lanes
      BY <2>1 DEF Lanes
    <3>2. \A k, l : k \in Lanes /\ l \in Lanes => {k, l} \cap Lanes = {k, l}
      BY Zenon
    <3>3. QED
      BY <3>1, <3>2
  <2>4. QED
    BY <2>1, <2>2, <2>3 DEF StoreStrobe, Lanes
<1>2. StoreData(f, offset, v) = data
  <2>1. CASE n = 4
    <3>1. ByteSize^0 = 1 /\ ByteSize^4 = WordSize /\ v % WordSize = v /\ v * 1 = v
      BY Powers, Widths DEF Word
    <3>2. QED
      BY <1>1, <2>1, <3>1 DEF StoreData, LowBytes, Wrap
  <2>2. CASE n \in {1, 2}
    BY <1>1, <2>2 DEF StoreData
  <2>3. QED
    BY <1>1, <2>1, <2>2
<1> HIDE DEF f, n, data
<1>3. {a + i : i \in StoreStrobe(f, offset)} = (a + offset)..((a + offset) + n - 1)
  <2>1. CASE n = 1
    BY <1>1, <2>1
  <2>2. CASE n = 2
    <3>1. {a + i : i \in {offset, offset + 1}} = {a + offset, (a + offset) + 1}
      BY <1>1
    <3>2. \A b \in Int : b..(b + 2 - 1) = {b, b + 1}
      OBVIOUS
    <3>3. (a + offset)..((a + offset) + 2 - 1) = {a + offset, (a + offset) + 1}
      <4>1. a + offset \in Int
        BY <1>1
      <4>2. QED
        BY <3>2, <4>1
    <3>4. StoreStrobe(f, offset) = {offset, offset + 1}
      BY <1>1, <2>2
    <3>5. QED
      BY ONLY <2>2, <3>1, <3>3, <3>4
  <2>3. CASE n = 4
    BY <1>1, <2>3
  <2>4. QED
    BY <1>1, <2>1, <2>2, <2>3
<1>4. ASSUME NEW p \in (a + offset)..((a + offset) + n - 1)
      PROVE  Lane(data, p - a) = Lane(v, p - (a + offset))
  <2> DEFINE j == p - (a + offset)
  <2>1. j \in 0..(n - 1) /\ p - a = offset + j
    BY <1>1
  <2>2. QED
    BY <1>1, <2>1, StoreLanes DEF data
<1>5. QED
  BY <1>2, <1>3, <1>4 DEF f, n, data

----------------------------------------------------------------------------
(* The instructions, as the core decodes them.                             *)

\* The core's two readings of the type of an instruction are one.
LEMMA TypeDecoded == \A w : Decode(w).inst_type = inst_type_of(w)
BY DEF Decode, inst_type_of

\* The kind of an instruction is told by its type.
Kind(it, i) ==
  /\ it = "IMM"     => i.mnemonic = "lui"
  /\ it = "AUIPC"   => i.mnemonic = "auipc"
  /\ it = "JAL"     => i.mnemonic = "jal"
  /\ it = "JALR"    => i.mnemonic = "jalr"
  /\ it = "BRANCH"  => i.mnemonic \in Branches
  /\ it = "LOAD"    => i.mnemonic \in DOMAIN Loads
  /\ it = "STORE"   => i.mnemonic \in DOMAIN Stores
  /\ it = "INT_IMM" => i.mnemonic \in DOMAIN Immediates
  /\ it = "INT_REG" => i.mnemonic \in Registers
  /\ it = "FENCE"   => i.mnemonic = "fence"

\* The type that the decoder gives tells the kind.
LEMMA Kinds ==
  ASSUME NEW d, NEW i, i.mnemonic \in Mnemonic, Describes(d, i)
  PROVE  Kind(d.inst_type, i)
<1> DEFINE mnemonic == i.mnemonic
           it == d.inst_type
<1>1. /\ mnemonic = "lui" => it = "IMM"
      /\ mnemonic = "auipc" => it = "AUIPC"
      /\ mnemonic = "jal" => it = "JAL" /\ mnemonic # "lui"
      /\ mnemonic = "jalr" => it = "JALR"
      /\ mnemonic \in Branches => it = "BRANCH"
      /\ mnemonic \in DOMAIN Loads => it = "LOAD"
      /\ mnemonic \in DOMAIN Stores => it = "STORE"
      /\ mnemonic \in DOMAIN Immediates => it = "INT_IMM"
      /\ mnemonic \in Registers => it = "INT_REG"
      /\ mnemonic = "fence" => it = "FENCE"
  BY DEF Describes
<1>2. \/ mnemonic \in {"lui", "auipc", "jal", "jalr", "fence"}
      \/ mnemonic \in Branches \/ mnemonic \in DOMAIN Loads
      \/ mnemonic \in DOMAIN Stores \/ mnemonic \in DOMAIN Immediates
      \/ mnemonic \in Registers
  BY DEF Mnemonic, Encoding, Branches, Loads, Stores, Immediates, Registers
<1> HIDE DEF mnemonic, it
<1>3. QED
  BY <1>1, <1>2 DEF Kind, mnemonic, it

\* What is known of an instruction that the core executes.
LEMMA Instructions ==
  ASSUME NEW w
  PROVE  /\ w \in DOMAIN Asm =>
              /\ Describes(Decode(w), Asm[w]) /\ Kind(inst_type_of(w), Asm[w])
              /\ Asm[w].imm \in Int /\ Asm[w].rd \in 0..31
              /\ Asm[w].rs1 \in 0..31 /\ Asm[w].rs2 \in 0..31
         /\ w \notin DOMAIN Asm =>
              inst_type_of(w) = "IMM" /\ Decode(w).imm = 0 /\ Decode(w).rd = 0
<1>1. w \in DOMAIN Asm => /\ Asm[w].imm \in Int /\ Asm[w].rd \in 0..31
                          /\ Asm[w].rs1 \in 0..31 /\ Asm[w].rs2 \in 0..31
  BY TestbenchAssumption DEF Encodable
<1>2. Decode(w).inst_type = inst_type_of(w)
  BY TypeDecoded
<1>3. QED
  BY <1>1, <1>2, Decoded, Kinds

\* A sum of words is taken in any order.
LEMMA WordSum == \A a, b \in Int : Wrap(a + Wrap(b)) = Wrap(a + b) /\ a + b = b + a
BY WrapOfWrap

\* The address of a load or a store is in the word that is read or written.
LEMMA WordOfAddress ==
  ASSUME NEW addr \in Word
  PROVE  /\ Offset(addr) \in Lanes /\ AlignDown(addr) \in Int
         /\ AlignDown(addr) + Offset(addr) = addr
BY Widths DEF Word, Offset, AlignDown, Lanes

\* The instructions that the core executes as the instruction set has it: a
\* jump through a register goes to an even address, and a load or a store does
\* not reach beyond the word of its address.
Size(i) == IF i.mnemonic \in DOMAIN Loads THEN Loads[i.mnemonic] ELSE Stores[i.mnemonic]

Regular(i, a) ==
  /\ i.mnemonic = "jalr" => (a + i.imm) % 2 = 0
  /\ i.mnemonic \in DOMAIN Loads \cup DOMAIN Stores =>
       Offset(Wrap(a + i.imm)) + Size(i) <= 4

----------------------------------------------------------------------------
(* The drivers' queues, with one transaction under way.                    *)

\* A channel with one transaction under way has one item in its driver's queue.
LEMMA ShortQueue ==
  ASSUME NEW Items, NEW q \in Seq(Items), Len(q) <= 1
  PROVE  q = <<>> \/ q = <<q[1]>>
<1>1. Len(q) = 0 => q = <<>>
  OBVIOUS
<1>2. Len(q) = 1 => q = <<q[1]>>
  OBVIOUS
<1>3. Len(q) \in Nat
  OBVIOUS
<1>4. QED
  BY <1>1, <1>2, <1>3

\* What it holds then, and what it sends, is the item of the request or the one
\* that waited.
DriveKept(q, qNext, request, item, runs) ==
  /\ qNext # <<>> => IF request THEN qNext[1] = item
                                ELSE q # <<>> /\ qNext[1] = q[1]
  /\ runs => IF request THEN Sent(q, item) = item
                        ELSE q # <<>> /\ Sent(q, item) = q[1]

\* A channel that takes a request only when it is idle never holds two items.
LEMMA DriveKeeps ==
  ASSUME NEW q, q = <<>> \/ q = <<q[1]>>, NEW qNext,
         NEW request \in BOOLEAN, NEW item, NEW runs \in BOOLEAN,
         Drive(q, qNext, request, item, runs), request => q = <<>>
  PROVE  DriveKept(q, qNext, request, item, runs)
<1>1. \A a, b : /\ Head(Append(<<a>>, b)) = a /\ Tail(<<a>>) = <<>> /\ Head(<<a>>) = a
                /\ Append(<<>>, a) = <<a>> /\ <<a>>[1] = a
  OBVIOUS
<1>2. CASE request
  <2>1. q = <<>> /\ Append(q, item) = <<item>>
    BY <1>1, <1>2
  <2>2. Sent(q, item) = item /\ qNext = IF runs THEN <<>> ELSE <<item>>
    BY <1>1, <1>2, <2>1 DEF Sent, Drive
  <2>3. QED
    BY <1>1, <1>2, <2>2 DEF DriveKept
<1>3. CASE ~request /\ q # <<>>
  <2>1. Sent(q, item) = q[1] /\ qNext = IF runs THEN <<>> ELSE q
    BY <1>1, <1>3 DEF Sent, Drive
  <2>2. QED
    BY <1>3, <2>1 DEF DriveKept
<1>4. CASE ~request /\ q = <<>>
  BY <1>4 DEF Drive, DriveKept
<1>5. QED
  BY <1>2, <1>3, <1>4

\* The instruction that is fetched is the word in memory.
LEMMA FetchAnswers ==
  ASSUME NEW addr, NEW w, NEW request \in BOOLEAN, NEW ir \in BOOLEAN,
         ir_queue = <<>> \/ ir_queue = <<ir_queue[1]>>,
         Drive(ir_queue, ir_queue', request, ir_item(addr), ir),
         request => ir_queue = <<>> /\ from_array(memory, addr) = w,
         ir_queue # <<>> /\ ir_queue[1].kind = "response" => ir_queue[1].data = w
  PROVE  /\ ir_queue' # <<>> /\ ir_queue'[1].kind = "response" => ir_queue'[1].data = w
         /\ ir_data_valid(ir, addr) => ir_data(addr) = w
<1> DEFINE item == ir_item(addr)
           sent == Sent(ir_queue, item)
<1>1. request /\ item.kind = "response" => item.data = w
  BY DEF ir_item, ir_callback, Response, DeassertReady
<1>2. ir_data_valid(ir, addr) => ir /\ sent.kind = "response" /\ ir_data(addr) = sent.data
  BY DEF ir_data_valid, ir_data
<1>3. /\ ir_queue' # <<>> => IF request THEN ir_queue'[1] = item
                                        ELSE ir_queue # <<>> /\ ir_queue'[1] = ir_queue[1]
      /\ ir => IF request THEN sent = item ELSE ir_queue # <<>> /\ sent = ir_queue[1]
  <2>1. DriveKept(ir_queue, ir_queue', request, item, ir)
    BY DriveKeeps
  <2>2. QED
    BY <2>1 DEF DriveKept
<1> HIDE DEF item, sent
<1>4. QED
  BY <1>1, <1>2, <1>3

\* The answer to a read is the word at the address, or a value of the timer.
ReadSource(a) == IF a = TimerAddress THEN TimerValues ELSE {from_array(memory, a)}

\* A read that waits, or is answered, has one of them.
LEMMA ReadAnswers ==
  ASSUME NEW a, NEW t \in TimerCounts, NEW dr \in BOOLEAN, dr_request \in BOOLEAN,
         dr_queue = <<>> \/ dr_queue = <<dr_queue[1]>>,
         Drive(dr_queue, dr_queue', dr_request, dr_item(t), dr),
         dr_request => dr_queue = <<>> /\ dr_addr = a,
         dr_queue # <<>> => dr_queue[1].data \in ReadSource(a)
  PROVE  /\ dr_queue' # <<>> => dr_queue'[1].data \in ReadSource(a)
         /\ dr => dr_data(t) \in ReadSource(a)
<1> DEFINE item == dr_item(t)
           sent == Sent(dr_queue, item)
<1>1. dr_request => item.data \in ReadSource(a)
  BY DEF dr_item, Response, handle_data_read, ReadSource, TimerCounts
<1>2. dr_data(t) = sent.data
  BY DEF dr_data
<1>3. /\ dr_queue' # <<>> => IF dr_request THEN dr_queue'[1] = item
                                           ELSE dr_queue # <<>> /\ dr_queue'[1] = dr_queue[1]
      /\ dr => IF dr_request THEN sent = item ELSE dr_queue # <<>> /\ sent = dr_queue[1]
  <2>1. DriveKept(dr_queue, dr_queue', dr_request, item, dr)
    BY DriveKeeps
  <2>2. QED
    BY <2>1 DEF DriveKept
<1> HIDE DEF item, sent
<1>4. QED
  BY <1>1, <1>2, <1>3

\* What the queue of the write channel says of the request's performance.
LEMMA WriteAnswers ==
  ASSUME NEW dw \in BOOLEAN, dw_queue \in Seq({dw_item}),
         Drive(dw_queue, dw_queue', dw_request, dw_item, dw)
  PROVE  /\ dw_resp = RespOK
         /\ dw_queue' # <<>> \/ dw <=> dw_queue # <<>> \/ dw_request
<1>1. Append(dw_queue, dw_item) \in Seq({dw_item}) /\ Append(dw_queue, dw_item) # <<>>
  OBVIOUS
<1>2. \A q \in Seq({dw_item}) : q # <<>> => Head(q) \in {dw_item}
  OBVIOUS
<1>3. Sent(dw_queue, dw_item) = dw_item
  BY <1>1, <1>2 DEF Sent
<1>4. dw_resp = RespOK
  BY <1>3 DEF dw_resp, dw_item, Response
<1>5. CASE dw_request
  BY <1>1, <1>4, <1>5 DEF Drive
<1>6. CASE ~dw_request
  BY <1>4, <1>6 DEF Drive
<1>7. QED
  BY <1>5, <1>6

============================================================================
