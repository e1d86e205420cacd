-------------------------------- MODULE Bench ------------------------------
(***************************************************************************)
(* The simulation testbench (testbench.py, bus.py) without the core: a     *)
(* memory behind the three bus channels.  A monitor on each channel sees a *)
(* request in the cycle where it is valid and ready and calls              *)
(* memory_callback, which queues the response on the channel's driver; the *)
(* driver sends it in the same cycle or, when the simulator's scheduler    *)
(* lets it run later, in a later one.                                      *)
(*                                                                         *)
(* A store to the pass/fail address ends the simulation there and then; so *)
(* does an exception in the callback, which fails the test.                *)
(*                                                                         *)
(* The testbench runs either core: `fetch' and `addr' are the core's       *)
(* ir_addr_valid and ir_addr, the other requests are registers of the bus. *)
(***************************************************************************)
EXTENDS Idecoder, CoppervBus, Assembler, FiniteSetsExt

CONSTANTS
  Tests,           \* the loaded programs: instruction_memory, data_memory
                   \* and enable_self_checking
  Asm,             \* the assembly instruction that each encoded word stands for
  PassFailAddress, PassValues, OutputAddress,
  CharLimit,       \* the data that chr() rejects: 0x110000 and above
  TimerAddress, TimerValues

ASSUME TestbenchAssumption ==
  /\ \A t \in Tests :
       /\ \A m \in {t.instruction_memory, t.data_memory} :
            DOMAIN m \subseteq Word /\ \A a \in DOMAIN m : m[a] \in Byte
       /\ t.enable_self_checking \in BOOLEAN
  /\ TimerValues \subseteq Word
  /\ CharLimit \in Nat
  /\ DOMAIN Slice = DOMAIN Asm
  /\ \A w \in DOMAIN Asm : Encodable(Asm[w]) /\ Slice[w] = Encode(Asm[w])

VARIABLES
  memory, end_i_address,          \* end_i_address is None or a singleton
  fake_uart, verdict,             \* "running", "pass" or "fail"
  ir_ready,
  ir_queue, dr_queue, dw_queue    \* the drivers' queues

benchVars == <<memory, end_i_address, fake_uart, verdict, ir_ready,
               ir_queue, dr_queue, dw_queue>>

None == {}

Item == [kind : {"response"}, data : Word]
          \cup {[kind |-> "deassert_ready", data |-> 0]}

BenchTypeOK == /\ DOMAIN memory \subseteq Word
               /\ \A a \in DOMAIN memory : memory[a] \in Byte
               /\ fake_uart \in Seq(Word)
               /\ verdict \in {"running", "pass", "fail"}
               /\ ir_ready \in BOOLEAN
               /\ ir_queue \in Seq(Item) /\ dr_queue \in Seq(Item)
               /\ dw_queue \in Seq(Item)

----------------------------------------------------------------------------
(* The memory callback.                                                    *)

\* Address a is before the end of the program, if it has one.
Within(ends, a) == \A end \in ends : a < end

Response(w)   == [kind |-> "response", data |-> w]
DeassertReady == [kind |-> "deassert_ready", data |-> 0]

\* Mutant: the end of the program is not looked at.
ir_callback_endless(addr) == Response(from_array(memory, addr))

\* Mutant: the last instruction is taken for the end.
ir_callback_early(addr) ==
  IF \A end \in end_i_address : addr + 4 < end
    THEN Response(from_array(memory, addr))
    ELSE DeassertReady

\* The instruction channel: past the end of the program nothing is answered.
ir_callback(addr) ==
  IF Within(end_i_address, addr)
    THEN Response(from_array(memory, addr))
    ELSE DeassertReady

handle_data_read(addr, timer_counter) ==
  IF addr = TimerAddress THEN timer_counter ELSE from_array(memory, addr)

\* What a write request does to memory and devices when no exception ends the
\* test: the output device, or the strobed bytes of the word.
handle_data_write(addr, data, strobe) ==
  IF addr = OutputAddress
    THEN fake_uart' = Append(fake_uart, data) /\ memory' = memory
    ELSE /\ memory' = Merge(memory, [a \in {addr + i : i \in strobe} |->
                                       Lane(data, a - addr)])
         /\ fake_uart' = fake_uart

\* The requests that end the test, and how.
EndsTest == \/ dw_addr = PassFailAddress
            \/ dw_addr = OutputAddress /\ dw_data >= CharLimit

Outcome == IF dw_addr = PassFailAddress /\ dw_data \in PassValues
             THEN "pass" ELSE "fail"

----------------------------------------------------------------------------
(* Clock edges.                                                            *)

\* The requests that the monitors see in this cycle.
ir_request(fetch) == rst /\ fetch /\ ir_ready
dr_request == rst /\ dr_addr_valid
dw_request == rst /\ dw_req_valid

TimerCounts == IF dr_request /\ dr_addr = TimerAddress THEN TimerValues ELSE {0}

\* What the callback queues for each channel.
ir_item(addr) == ir_callback(addr)
dr_item(timer_counter) == Response(handle_data_read(dr_addr, timer_counter))
dw_item == Response(RespOK)

\* A driver in one cycle: the callback's item joins the queue, and the first
\* item of the queue is sent if the driver runs.
Drive(queue, queueNext, request, item, runs) ==
  LET pending == IF request THEN Append(queue, item) ELSE queue
  IN  /\ runs => pending # <<>>
      /\ queueNext = IF runs THEN Tail(pending) ELSE pending

Sent(queue, item) == Head(Append(queue, item))

\* The bus signals that the drivers give the core: ir, dr and dw say which of
\* them run.
ir_data_valid(ir, addr) == ir /\ Sent(ir_queue, ir_item(addr)).kind = "response"
ir_data(addr) == Sent(ir_queue, ir_item(addr)).data
dr_data(timer_counter) == Sent(dr_queue, dr_item(timer_counter)).data
dw_resp == Sent(dw_queue, dw_item).data

\* The testbench's part of a clock edge.
BenchEdge(ir, dr, dw, fetch, addr, timer_counter) ==
  /\ Drive(ir_queue, ir_queue', ir_request(fetch), ir_item(addr), ir)
  /\ Drive(dr_queue, dr_queue', dr_request, dr_item(timer_counter), dr)
  /\ Drive(dw_queue, dw_queue', dw_request, dw_item, dw)
  /\ ir_ready' = (ir_ready /\ (ir => ir_data_valid(ir, addr)))
  /\ IF dw_request THEN handle_data_write(dw_addr, dw_data, dw_strobe)
                   ELSE UNCHANGED <<memory, fake_uart>>
  /\ UNCHANGED <<end_i_address, verdict>>

\* reset() releases the core after its second edge; the clock runs on until
\* the test ends.
Running == /\ verdict = "running"
           /\ ~(dw_request /\ EndsTest)
           /\ rst' = TRUE

EndTest == /\ verdict = "running"
           /\ dw_request /\ EndsTest
           /\ verdict' = Outcome
           /\ UNCHANGED <<memory, end_i_address, fake_uart, ir_ready,
                          ir_queue, dr_queue, dw_queue>>

\* Test t begins.
Load(t) ==
  /\ memory = Merge(t.instruction_memory, t.data_memory)
  /\ end_i_address = IF t.enable_self_checking
                       THEN {Max(DOMAIN t.instruction_memory)} ELSE None
  /\ fake_uart = <<>> /\ verdict = "running"
  /\ ir_ready = TRUE
  /\ ir_queue = <<>> /\ dr_queue = <<>> /\ dw_queue = <<>>

BenchInit == \E t \in Tests : Load(t)

\* In this cycle the driver of the channel sends an item.
Sends(ch, fetch) ==
  CASE ch = "ir" -> Len(ir_queue') < Len(ir_queue) + (IF ir_request(fetch) THEN 1 ELSE 0)
    [] ch = "dr" -> Len(dr_queue') < Len(dr_queue) + (IF dr_request THEN 1 ELSE 0)
    [] ch = "dw" -> Len(dw_queue') < Len(dw_queue) + (IF dw_request THEN 1 ELSE 0)

============================================================================
