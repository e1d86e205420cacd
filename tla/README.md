# A formal model of the Copperv2 and Copperv1 cores

Copperv2 is a small RV32I processor core written in Chisel.  Its predecessor, v1,
is written in Verilog and shares the instruction decoder and the three-channel
ready/valid bus with it; a cocotb testbench plays the memory and the devices for
either.  This directory holds a TLA+ model of both cores, of the testbench and its
bus functional models down to their coroutines, of the Wishbone test environment
and of the loading of programs; the configurations that model-check it with TLC;
and theorems about it that TLAPS checks.

- [1. The system](#1-the-system)
- [2. The modules](#2-the-modules)
- [3. The properties](#3-the-properties)
- [4. The runs](#4-the-runs)
- [5. Fairness](#5-fairness)
- [6. The proofs](#6-the-proofs)
- [7. What the runs found](#7-what-the-runs-found)
- [8. What is not modelled](#8-what-is-not-modelled)
- [9. Plan](#9-plan)

To run a configuration, `tlc -config OpenBus.cfg MCOpenBus`; to check the proofs of
a module, `tlapm OpenBusProofs.tla`.  PROJECT.json lists the runs, the theorems,
the lines of the source behind every definition, and the hazards of the code.


## 1. The system

Paths are relative to the repository; `S` is `src/main/scala/copperv2`, `R` is
`src/main/resources/rtl_v1`.

| Component | Source | State | Operations | Must be true of it |
|---|---|---|---|---|
| Control unit | `S/control.scala`, `S/util.scala` | `state`, `state_change` | one state transition per clock edge; drives every enable and selector | each instruction passes its states once, requests are pulses, and it waits exactly where something is awaited |
| Instruction decoder | `R/idecoder.v` | none (combinational) | fields of a word to type, function, immediate, registers | the inverse of the assembler's encoding |
| Arithmetic unit | `S/execution.scala` | `in1`, `in2`, `op` | load the operands; results and comparisons | 32-bit wrap-around arithmetic, signed and unsigned order |
| Register file | `S/regfile.scala` | `mem`, a held address per read port | two enabled reads, one write | the ports still show the instruction's registers when they are used later; x0 reads 0 |
| Core datapath | `S/copperv2.scala` | `pc`, `read_offset` | select operands and next `pc`, form store lanes, extend loads | one architectural effect per instruction |
| Bus registers | `S/copperv2.scala` (`CoppervBusSource`) | `inst`, `inst_valid`, `dr_*`, `dw_*`, `read_*`, `write_valid` | present a request, latch a response | one transaction at a time, no response taken for another, also across a reset |
| v1 core | `R/copperv.v`, `R/control_unit.v`, `R/register_file.v`, `R/execution.v` | `state`, `state_change`, `pc`, `read_offset`, `mem`, `rs1_dout`, `rs2_dout`, the bus registers | one edge; no COMMIT, the register file cleared by reset, one port at a time for write and read | the same instruction set, bus protocol and hazards; what a read port lost is never used |
| Simulation testbench | `sim/testbench.py`, `sim/cocotb_utils.py` | `memory`, `fake_uart`, `end_i_address`, the verdict | `memory_callback` per request, `finish()` | a memory and three devices, in the order of the requests; nothing beyond the program's end is answered |
| Bus functional models | `sim/bus.py` | coroutines; a queue per driver, the `ready` signals | reset, request monitor, full monitor, driver | every request answered once, recorded once, and with no signal changed in the time step of a rising edge |
| Scoreboard, register monitors | `sim/testbench.py`, `sim/regfile.py` | expected transactions, `recv_rs`'s enables | compare | what is received is what happened; the test ends, and not too early |
| Wishbone functional model | `sim/wishbone.py`, `sim/wb_adapter_uvm.py` | coroutines of a test environment | read/write, reply; driver, monitors, coverage, scoreboard | one transaction received and answered per transaction made |
| Wishbone adapter, LithiumSoC | `src/main/scala/lithiumSoC` | none | a stub: accepts, never answers | translate the core's bus (it does not yet) |
| Toolchain helpers | `sim/riscv_utils.py` | none | load ELF sections, parse the tests' transactions | the memory is the program's |
| Test lists | `sim/tests/unit_tests.toml`, `sim/cocotb_tests.py` | none | eleven unit tests | each passes for every latency |
| Scripts and build | `scripts`, `build.sc` | the hex file's loop | ELF file to the hex file of a simulation; the rest formats text or runs tools | the file reads back as the memory |
| Icarus testbench of v1 | `sim/tests/Icarus_simulation` | `fake_memory`, crossbar registers | one read port shared by instructions and data | no two reads at once |

How they interact.  Everything in a core is one synchronous circuit: at each
rising edge all registers take values computed from the values before it.  The
core and its slave interact through ready/valid channels: a transfer happens at an
edge where both signals are high.  There are three channels, each with a request
and a response direction: instruction read (`ir`), data read (`dr`), data write
(`dw`).  Responses carry no identifier.  The testbench is a set of coroutines: a
monitor per channel sees a request and calls `memory_callback`, which reads or
writes the memory at once and appends the response to a driver's queue; the driver
sends it when the simulator runs it, in the same cycle or later.  Other monitors
watch the same signals, and the register file's ports, for the scoreboard.

What is hard about it.

- *Timing of the slave.*  The core offers a request in one single cycle and looks
  at `ready` in only one (`inst_fetch`, `load_data`, `store_data` are pulses); data
  requests are registered, so they are presented one cycle after `ready` was looked
  at.  Responses may arrive in the cycle of the request, or any time later, and the
  core latches them in whatever state it is.
- *Values computed in one state and used in another.*  The read ports are enabled
  in DECODE but used up to COMMIT, `read_offset` is taken at the request and used
  after the response, `inst` is a bare latch that any response overwrites.
- *Reset.*  `state_change`, the register file, the operand registers,
  `read_offset` and `inst` have no reset value, so a reset in the middle of a
  transaction meets whatever they hold.  In v1 reset clears the register file, but
  a write in the same cycle goes through, because it is not in the else branch.
- *Two cores that differ in small ways.*  v1 retires in EXEC or MEM, drops a read
  that meets a write, never writes x0, computes with the arithmetic unit in one
  cycle and gives its control unit one `data_valid` for reads and writes.
- *Interleaved coroutines.*  Two monitors sample the same request in the same phase
  of the simulator, in any order, and the callback of one wakes the driver; a
  driver's `valid` has to be up over exactly one rising edge, and a write in the
  time step of that edge would race with the circuit.  In the Wishbone model an
  acknowledge stays up until the strobe is seen low, and the source may raise it
  again at once.
- *Arithmetic at the edges.*  Sign extension of five immediate formats,
  wrap-around of `pc`, byte lanes of stores and loads, x0, misaligned addresses; in
  the hex file, gaps between addresses and lines that are just full.
- *The end of a test.*  A self-checking test ends by the slave refusing to answer,
  and `finish()` ends it as soon as the lists of expected transactions are empty.

The `hazards` of PROJECT.json give the line of each and the properties that cover
it, or why none does.


## 2. The modules

Either core is composed with an arbitrary bus slave and with the simulation
testbench.  What a module extends stands to its right or below it.

```
MCOpenBus     OpenBus    --+-- Copperv2 --+-- Idecoder CoppervBus
                           |              +-- Alu RegFile ControlUnit
                           +-- BusSlave         (Copperv1: Alu as an INSTANCE)
                           |              +-- Idecoder CoppervBus
MCOpenBusV1   OpenBusV1  --+-- Copperv1 --+-- ControlUnitV1

MCTestbench   Testbench   -+-- Copperv2
                           +-- Bench -------- Idecoder CoppervBus Assembler
MCTestbenchV1 TestbenchV1 -+-- Copperv1

MCUnitTest    UnitTest    ---- Testbench Loader

MCBusBfm      BusBfm      -+
MCWishboneBfm WishboneBfm -+-- Simulator
MCWbAdapter   WbAdapter   -+

MCHexFile     HexFile                     Isa ---- Assembler

abstract (INSTANCE ... WITH):  BusProtocol by OpenBus, OpenBusV1
                               OpenBus     by Testbench        (in TestbenchProofs)
                               OpenBusV1   by TestbenchV1      (in TestbenchV1Proofs)
                               Isa         by Testbench, TestbenchV1
                               Channel     by BusBfm, WishboneBfm
programs:  PathPrograms in MCOpenBus*,  Programs in MCTestbench*, MCUnitTest
proofs:    DatapathProofs (operators) <-- OpenBusProofs,  OpenBusV1Proofs
                                      <-- BenchProofs <-- TestbenchProofs,  TestbenchV1Proofs
           BusBfmProofs,  EnvironmentProofs (of WbAdapter, WishboneBfm and HexFile)
the circuits stand on  Words (arithmetic)  and  CoppervTypes (enumerations)
```

| Module | Models | How it corresponds |
|---|---|---|
| `Words` | hardware integers | `ByteBits` is the width of a byte lane: 8 in the circuit. Every width-dependent operation is written in terms of it, so narrow words overflow, sign-extend and select lanes as wide ones do. The byte lanes of stores and loads (`write_strobe`, `write_data`, `ext_read_data`), which both cores have, are here too |
| `CoppervTypes` | `util.scala` | the Chisel enumerations, as strings |
| `Idecoder` | `idecoder.v` | an instruction is the record of its six bit fields, given for a word by the constant `Slice` (wiring in the circuit). The immediates are computed from the fields, modulo the word: in words narrower than a register number, `rs2` is wrapped where it is used as a shift amount. A function the Verilog leaves undriven for an unsupported encoding is `"X"`, which every consumer treats as its default |
| `Alu`, `RegFile` | `execution.scala`, `regfile.scala` | registers as variables, outputs as operators, `AluEdge` and `RegFileEdge`. `SyncReadMem` is modelled as it is built: an address register per port, loaded when enabled, and an asynchronous array read behind it |
| `ControlUnit` | `control.scala` | `state_next`, one operator per control output, `ControlEdge`, `ControlReset` |
| `CoppervBus` | `read_instruction`, `write_data`, `read_data` | one action per function, whose parameters are the function's inputs and the slave's signals. Both cores have these registers |
| `Copperv2` | the `Copperv2` class | the multiplexers as operators; `CoreEdge` is the conjunction of all component edges, with the same wires, `CoreReset` an edge in reset. All of the core moves in one step, as it does in the circuit |
| `ControlUnitV1` | `control_unit.v` | as `ControlUnit`. `answered` is `state_change_next` in MEM |
| `Copperv1` | `copperv.v`, `register_file.v`, `execution.v` | as `Copperv2`. `rs1_dout` and `rs2_dout` are output registers, loaded only in a cycle without a write (`RegFileEdge` has the if / else if of the code). The arithmetic unit is combinational: `Alu` with the multiplexers for its registers. The `X` it gives for ALU_OP_NOP is the constant `UndefinedWord` |
| `BusSlave` | any bus slave (external) | it counts what it accepted and not yet answered on each channel (`*_pending`), may be ready or not at any edge, may answer in the cycle of the request or any later one, and may fail a write; it is reset with the core |
| `OpenBus`, `OpenBusV1` | either core on any bus slave | one step is one clock edge of both, in reset (`InReset`) or out of it (`Runs`); the reset input of the next cycle is free |
| `BusProtocol` | abstract: what the core promises its bus | `phase` of the current instruction and the data access it `owed` |
| `Bench` | `testbench.py`, `bus.py`, `cocotb_utils.py`, per cycle | see below |
| `Testbench`, `TestbenchV1` | either core under it | one step is one clock cycle of both. v1 is what `+dut_copperv1` (`testbench.py:63`) connects: the same coroutines on the port names of `copperv.v` |
| `UnitTest` | `regfile.py`, the full monitors, scoreboard and `finish()`, on Copperv2 | the receivers as sequences of what they have in a cycle; `recv_rs` remembers the enables of the cycle before |
| `MCUnitTest`, `Loader` | `unit_tests.toml`, `riscv_utils.py` | the eleven tests, loaded by sections, with their expected transactions parsed |
| `Assembler` | the RV32I encoding and what its mnemonics compute (external); `from_array` and the update of the memory's dictionary | independent of the decoder and the arithmetic unit. `TestbenchAssumption` says that every instruction of the assembly is one that an assembler accepts (`Encodable`: register numbers, and immediates that the format holds) and that `Slice` is its `Encode`. A memory is a function from byte addresses to bytes; a missing byte reads 0 |
| `Isa` | abstract: what core and memory promise the program | RV32I executed one instruction per step from memory, with the operators of `Assembler` |
| `Simulator` | the simulator and cocotb's scheduler (external) | see below |
| `BusBfm` | `bus.py`, `SimpleBfm`, coroutine by coroutine | one channel with the reset coroutine, request monitor and callback, full monitor, driver; the circuit is any master that behaves as the cores do |
| `WishboneBfm` | `wishbone.py` | source, sink, reader of the replies, passive monitor |
| `WbAdapter` | `wb_adapter_uvm.py` around `wishbone.scala` | sequence, driver, both monitors, coverage and the scoreboard's fifos, from the time step that releases reset |
| `Channel` | abstract: what a channel promises the circuit | the requests made and the responses taken, in order |
| `HexFile` | `generate_hex_file` of `scripts/utils.py` | a file is the sequence of its tokens (a reader does not see where lines end); the addresses and rows still to be gone through are sets, of which a step takes the least, as `sorted` does; a step is an iteration of the loop that writes or of the one that inserts |

In `Bench` one step is one clock cycle: what monitors, callback and drivers do
between two edges, then the edge.  The callback runs when the monitor sees the
request and is one atomic action in the code (no await), so its memory access
belongs to the cycle of the request; only the sending of the response can be later.
`Drive` is a driver's queue: the item of this cycle joins, the first item is sent
if the driver runs.  `EndTest` is a store to the pass/fail address, or data that
`chr()` rejects, on which the callback ends the test.  `end_i_address` is `None` or
the last address of the instruction memory, and a fetch from there on makes the
driver deassert `ready` instead of answering.

`Simulator` goes below the cycle.  A clock period is two time steps with five
slots in which a coroutine can run: the begin of the step of the rising edge, the
edge, the settled step, the begin of the falling step and its settled part.  A step
runs one coroutine to its next await; those that are due in a slot run in any
order, and time goes on when none is left.  What a coroutine writes takes effect
after the slot; what is written before the rising edge, in its time step, races
with it, and a circuit may see either value (`Sampled`).  `Updated(f, g)` is what
assignments to some signals, or to some coroutines' positions, make of all of them.

Reset.  On the open buses `rst` (active low) is any sequence of values: it comes
at any time, in the middle of any transaction, for any number of cycles, again and
again, and the slave is reset with the core.  `CoreInit` is the state after a first
edge in reset: registers with a reset value hold it and the others hold anything
(`PowerUp*` constants), including `state_change`.  In the testbenches reset is
released once, as `SimpleBfm.reset` does; in `BusBfm` that coroutine is one of the
interleaved ones.

Names are those of the source wherever TLA+ allows them.  An operator preceded by
`\* Mutant:` is a deliberately wrong variant of the definition after it.  It is not
part of any specification; it is there to demonstrate that a property would notice
that error.


## 3. The properties

On the open bus, whatever slave and resets do:

- `OneTransaction`: at most one transaction is under way on all three channels
  together, counted from the pulse to the latch that the control unit consumes.
- `ResponseAwaited`: the one-cycle response flags are set only in the state, and
  for the kind of instruction, that looks at them, so no response is lost or taken
  for another.
- `OperandsHeld`: in EXEC, MEM and COMMIT the read ports still address the
  registers of the instruction.
- `OffsetHeld`: a load that commits extracts the lane of its own address.
- `InstHeld`: `inst` does not change from the cycle in which it is valid until the
  instruction retires.
- `BusInv`: the inductive invariant behind them (section 6).
- `RestartsProtocol`: between resets the core implements `BusProtocol`, and every
  reset is a `Restart` of it.  `BusProtocol` says that each instruction is fetched
  once, makes the one access it owes, and retires only after its answer; and it says
  precisely when the core stops for good: a request that meets a slave which is not
  ready, or a failed write.  That nothing of an instruction cut short survives the
  reset is part of the refinement: the core is at the beginning of the protocol.
- `Recovers`: from the last reset on, fetches go on for ever or the slave has
  stopped the core (`"stuck"`).  That a slave which is always ready and fails no
  write never does is what `Completes` shows under the testbench.

The v1 core on the open bus has the same properties where they make sense (its
`OffsetHeld` compares with the address in MEM, which is where its load uses the
lane; its `inst` is cleared by reset, so `InstHeld` is about steps out of reset),
and in place of `OperandsHeld`:

- `OperandsRead`: in EXEC the read ports show the present contents of the
  instruction's registers.  A port whose enable met a write keeps its old value, so
  this needs that nothing is ever written in DECODE by an instruction that reads.
- `ZeroReads`: x0 reads 0 out of reset, however the file was powered up, whatever
  has been executed, and although an instruction may write its register in the
  very edge of a reset.

With the testbench, for both cores:

- `ImplementsIsa`: refinement of `Isa`. Registers, memory, printed output, verdict
  and `pc` change as the architecture says, once per instruction, in order.
- `EndRespected`: in a self-checking test, nothing at or beyond the program end is
  ever executed.
- `Completes`: every test reaches a verdict or the refusal at its end.

With the unit tests, on Copperv2: `Passes` (the monitors receive exactly what the
test expects, on each interface in order), `Finishes` (`finish()` returns) and
`RunToEnd` (and not before the whole program has run).

The coroutines of a channel:

- `ImplementsChannel`: refinement of `Channel`.  Requests and responses, as the
  circuit sees them, alternate, each response is the callback's answer to the
  request before it, and it comes, unless the request is refused.
- `Observed`: at every rising edge the request monitor has received what the circuit
  requested, and the full monitor has paired it with its own response.
- `NoRace`: no driver changes `valid` in the time step of a rising edge.

The Wishbone model has `ImplementsChannel` too, for its source, and `Delivered`:
the sink takes each operation once, and the passive monitor, which asks for
items for as long as the strobe is up, misses none and invents none (it does record
each several times, see section 7).  Its test environment: `Recorded` (each item
driven is recorded once and in order, whichever channel it is on) and `Ends`.

The hex file: `ReadsBack` (at every step of the loop, what has been written reads
back as the part of the memory gone through) and `HexFileComplete` (the debug file
has the bytes of the ELF file, the hex file also the zeros of sections without
contents).

`TypeOK` is the type invariant of each composition; for the cores it includes that
every word register stays a word, i.e. that no adder keeps a carry.

The refinement mapping of `RestartsProtocol` reads `phase` and `owed` off the
control state and the channel (`phaseBar`, `owedBar`).  That of `ImplementsIsa` is
the identity on memory, output and verdict, hides the cell of x0 (which the register
file of Copperv2 writes but never shows), and moves `pc` early: the memory performs a
store while the instruction is still in MEM, so from that cycle (`StoreVisible`) the
abstract `pc` is already past the store.  For v1 the registers are their cells, and 0
as long as the core is in reset; `pc` moves early in MEM only, as there is no COMMIT.


## 4. The runs

| Run | Module, configuration | Shows | Bounds |
|---|---|---|---|
| `open_bus` | `MCOpenBus`, `OpenBus.cfg` | all properties of the open bus, with a slave that stalls, delays and fails, and any resets | one-bit lanes, so four-bit words; six instructions, one for each path through the states; two data words, both response codes |
| `open_bus_v1` | `MCOpenBusV1`, `OpenBusV1.cfg` | the same for v1 | as above, five instructions |
| `programs` | `MCTestbench`, `Programs.cfg` | `ImplementsIsa`, `EndRespected`, `Completes`, `TypeOK` on nine programs, and on all 34 x 34 two-instruction self-checking programs | four-bit lanes, sixteen-bit words |
| `programs_v1` | `MCTestbenchV1`, `ProgramsV1.cfg` | the same for v1 on the nine programs, and on each of the 34 instructions as a self-checking test | as above |
| `unit_tests` | `MCUnitTest`, `UnitTest.cfg` | `Passes`, `RunToEnd`, `Finishes` on the eleven tests of `unit_tests.toml` | as above; the numbers of `lui`, `lh` and `auipc` are scaled to sixteen bits |
| `bus_bfm` | `MCBusBfm`, `BusBfm.cfg` | `ImplementsChannel`, `Observed`, `NoRace` | two requests that are answered and one that is refused, four requests in all |
| `wishbone_bfm` | `MCWishboneBfm`, `WishboneBfm.cfg` | `ImplementsChannel`, `Delivered` | two reads and a write, three operations in all |
| `wb_adapter` | `MCWbAdapter`, `WbAdapter.cfg` | `Recorded`, `Ends` | reads and writes of two addresses, sequences of three items |
| `hex_file` | `MCHexFile`, `HexFile.cfg` | `ReadsBack`, `HexFileComplete` | files of up to four tokens, three section tables, lines of two values |
| `odd_jalr_target` | `MCTestbench`, `OddTarget.cfg` | violation, section 7 | one program |
| `misaligned_load` | `MCTestbench`, `Misaligned.cfg` | violation, section 7 | one program |
| `wb_coverage` | `MCWbAdapter`, `WbCoverage.cfg` | violation, section 7 | as `wb_adapter` |

Why the bounds are enough.

- *Open bus.*  What the properties are about is control: types of instructions,
  states, channels, latencies, resets.  Every path through the control unit's states
  occurs, with loads at different lanes, in any order, since each fetch returns any of
  the instructions.  Latencies, the slave's counters and the resets are not bounded at
  all (the counters cannot exceed one because the property holds, not because of a
  constraint).  The four-bit data only has to tell one register, lane or instruction
  from another.  The theorems of section 6 cover every instruction table and width.
- *Programs.*  With four-bit lanes a word has sixteen bits, so twelve-bit immediates
  keep their sign, and a branch or jump keeps its whole offset; only the upper
  immediates of `lui` and `auipc` lose their top sixteen bits.  All 37 instructions
  other than `ecall`, `ebreak` and the CSR instructions (which the decoder does not
  know) occur in both signs of operands, in all lanes and for both outcomes of every
  branch; loops, calls through an aliased link register, self-modifying code, a
  failing test, each device, and an undecodable word occur too.
- *Pairs* (in `programs`).  All programs of two instructions with dependent
  registers, for what one instruction leaves behind for the next: held ports, latched
  offsets, `pc` past the end.
- *v1.*  Reset clears its registers, so every program starts with `Setup`, the
  instructions that load them; apart from that the programs are the same.  What one
  instruction leaves behind for the next is less than in Copperv2 (only the read
  ports), and `OperandsRead` covers it on the open bus and in the proofs, so single
  instructions behind `Setup` stand in for the pairs.
- Latency is again unbounded: a driver may sleep for any number of cycles.
- *Coroutines.*  The code has no state that outlives two transactions, so four
  requests (two answered in a row, then one refused, or reset before any) reach every
  combination of what one transaction leaves behind and the next one meets.  The
  same holds for three Wishbone operations; pauses of source and sink are single
  cycles, taken or not, and longer ones leave the same signals.
- *Hex file.*  Four tokens suffice for a gap, a line that is just full, a value that
  is overwritten, and an address that repeats; the tables put a section without
  contents between, next to and behind the data.
- `PowerUp*` values are distinguishable rubbish; `TimerValues` has a small and a
  large value, and a timer read may return either (the model does not count
  cycles).  `CharLimit` stands for 0x110000, scaled down into a sixteen-bit word.

`CHECK_DEADLOCK FALSE` is in the configurations of systems that may stop: a
testbench after its verdict, a test environment after its sequence, the writer of a
file at its end, a core that its slave has stopped.  The coroutine models do not say
so: time goes on there for ever.


## 5. Fairness

`Fairness` of `OpenBus` and `OpenBusV1`: the clock ticks and reset is not held for
ever (`WF` of a step to a cycle out of reset), and the slave answers on each channel
where it accepted a request, out of reset.  Nothing is assumed of its `ready` signals
and response codes: a slave that refuses or fails leaves the core stopped, by
design, and `Recovers` says so.

`Testbench!Fairness` (the same in `TestbenchV1` and `UnitSpec`): the simulation goes
on, and each driver with a queued item is eventually run.  `testbench.py` starts a
clock that never stops, `reset()` releases reset after two edges, and cocotb's
scheduler starts every driver that its `append` has woken; nothing stronger is
assumed.  In particular there is no bound on latency.  The formulas are stated per
channel since answering on one says nothing of the others.

The coroutine models have `WF(Next)`: time goes on.  A coroutine needs no fairness of
its own, because a slot ends only when all that were due in it have run; that is
what the scheduler does.


## 6. The proofs

All theorems hold for every value of the constants that the named assumptions
allow: any lane width of 1, 2, 4 or 8 bits (so the 32-bit circuit), any instruction
table, any reset address, any slave within the handshake, any power-up values, any
program; those on the open bus also for every sequence of resets; those on the
coroutines for every set of requests, every choice of refused ones, every number of
them and every order in which the coroutines run; those on the hex file for every file
and section table of any length and every number of columns.

| Module | Theorem | Says |
|---|---|---|
| `OpenBusProofs` | `BusInvariant` | `Spec => []BusInv`, the inductive invariant |
| | `TypeOKHolds` | every register stays within its width or enumeration |
| | `OneTransactionHolds`, `ResponseAwaitedHolds` | the two safety invariants |
| | `InstHeldHolds` | the action property |
| | `OperandsHeldHolds`, `OffsetHeldHolds` | the latches of the datapath |
| | `CoreRestartsProtocol` | `Spec => RestartsProtocol` |
| `OpenBusV1Proofs` | `BusInvariant`, `TypeOKHolds`, `OneTransactionHolds`, `ResponseAwaitedHolds`, `InstHeldHolds`, `CoreRestartsProtocol` | the same for v1 |
| | `OperandsReadHolds`, `ZeroReadsHolds`, `OffsetHeldHolds` | its register file and load lane |
| `TestbenchProofs`, `TestbenchV1Proofs` | `EndRespectedHolds` | `Spec => []EndRespected` |
| | `TypeOKHolds` | core, memory, output and drivers' queues stay within their types |
| | `ImplementsOpenBus` | the core under the testbench is the core on an open bus |
| | `ProtocolUnderTest` | so what is proved of it there holds here |
| | `ProgramInvariant` | `Spec => []ProgramInv`: between fetch and retirement the core holds what the program says |
| | `ExecutesIsa` | `Spec /\ []Supported => ImplementsIsa`: core and memory execute the program |
| `BusBfmProofs` | `BfmInvariant`, `TypeOKHolds` | the inductive invariant of the coroutines |
| | `ObservedHolds`, `NoRaceHolds` | the two safety invariants |
| | `ChannelSafety` | the safety part of `ImplementsChannel` |
| `EnvironmentProofs` | `WbInvariant`, `RecordedHolds` | `Spec => []Recorded`, of `WbAdapter` |
| | `BfmInvariant` | the inductive invariant of `WishboneBfm` |
| | `DeliveredHolds`, `ChannelSafety` | its safety invariant, and the safety part of its `ImplementsChannel` |
| | `HexInvariant`, `ReadsBackHolds`, `HexFileCompleteHolds` | the two invariants of `HexFile`, and the inductive one behind them |

`DatapathProofs` holds the lemmas about the operators the two cores are built from.
`BenchProofs` has those about the testbench, which also serve both cores: the decoder
undoes the encoding (`Decoded`, put together from one lemma per instruction format), a
load's lanes are the bytes at its address (`LoadLanes`, `LoadExtends`), and a store's
strobed lanes change exactly its bytes of memory (`StoreLanes`, `StoreWrites`).

Named assumptions are on constants, and TLC evaluates them in the runs.  `Supported`
is the one hypothesis on behaviours; see *Programs* below.

*Types.*  `TypeOK` is inductive for the core by itself (the slave's counters need
`BusInv`), but every operator of the datapath must be shown to return a word: sums
and shifts because they end in `Wrap`; the bitwise operations because any set of bit positions below the word's
length sums to a word (`FromBitsWord`, for each length); `StoreDataWord` and
`LoadDataWord` because lanes are bytes; the immediates and the function from every
format of `Idecoder` (`DecodeTyped`).  The last proof failed at first for a good
reason: the shift amount of an immediate shift is a register number, which is no word
when words have 4 bits; `Idecoder` now wraps it.

*The bus.*  `OneTransaction` is not inductive: from a state with one transaction
under way, an answer in the wrong state followed by a state change would start a
second.  `BusInv` strengthens it with *where* the transaction is: outside FETCH the
`ir` channel is idle, outside MEM of a load `dr` is, outside MEM of a store `dw` is;
and in the waiting state the pulse still to come (`state_change`), the presented
request, the accepted request and the latched answer sum to at most one.  A fresh
`FETCH` or `MEM` has the pulse and an idle channel; the pulse clears itself and
hands its unit to the request, the request to the slave, the slave's to the latch,
the latch to the transition that leaves the state.  An edge in reset ends in state
RESET with every channel idle, whatever `state_change` holds; the first edge after
it goes on from there.

The proofs first project a clock edge to its control part (`ControlStep`,
`ResetStep`, `SlaveStep`), so that the datapath stays opaque, then show preservation
for each state and channel.  `InstHeld` follows because outside FETCH nothing is
pending on `ir` for the slave to answer.

*The latches of Copperv2* (`LatchInv`).  `read_offset` is the offset of `alu_dout` from
the cycle after the pulse of a load on; this needs that `alu_load` is confined to
EXEC, and `InstHeld`, so that the instruction whose registers were read is still the
one in `inst`.

*The protocol.*  The refinement is proved from `BusInv` by a table of the abstract
state in each control state (`PhaseTable`) and one lemma per state; an edge in reset
ends in a row of the table that is the protocol's beginning.

*v1.*  The argument is the same and its invariant simpler: EXEC lasts one cycle and
makes the data request there, so in MEM the pulse is over, and the presented
request, the accepted one and the latched answer alone sum to at most one.  Its
`LatchInv` adds that EXEC is always entered with a change, so that a load's lane is
latched at its end; that the cell of x0 is 0 out of reset, which is inductive because a
write has `rd # 0` even when it meets the reset that clears the file; and
`OperandsRead`, because the only way into EXEC for an instruction with sources is a
DECODE in which nothing is written.

*The end of the program.*  `EndRespected` is not inductive: it says nothing of an
answer that waits in the driver's queue.  `EndInv` adds that the queue of the
instruction channel holds at most one item, and a response only if `pc` is within
the program; that it is empty outside FETCH and when a fetch is about to be made;
and that `pc` moves only in the step that leaves an instruction.

*The testbench is a slave* (`ImplementsOpenBus`).  The slave's `*_pending` counters are
the lengths of the drivers' queues, plus one on the instruction channel once `ready`
is down: the fetch at the end of the program is accepted and never answered.  A step of
the testbench is then a clock edge of the open bus, in or out of reset, and the
drivers' choices are the slave's: an item in a queue is always the answer to one
request (`DriveCounts`), so a driver that answers is a slave with a request pending.
The proof needs `BenchTyped` (what memory returns is a word, so it is an answer the
slave may give; this is why `TestbenchAssumption` asks that memories hold bytes at
addresses of the word) and `EndInv` (the instruction queue is empty when a fetch is
made).  The instance `Bus` has its own copy of the core's definitions; the `Same*`
lemmas say that they are the testbench's.  `ProtocolUnderTest` cites the theorems of
`OpenBusProofs` through it, with `BusAssumptions` for their assumptions.

*Programs* (`ExecutesIsa`, for either core).  Two chains meet here.

One is about single instructions and has no time in it.  For every encodable
instruction, `Decoded` says that the fields which `Idecoder` takes out of the encoded
word are its registers, its immediate (as a word: five ways to scatter bits and
sign-extend, `ImmI` to `ImmJ`), its type and its function; the arithmetic unit computes
what the mnemonic means (`Operate`, `Condition`); and words and bytes of memory agree.

The other is the invariant `ProgramInv`, about what the core holds and since when.
`InstructionInv`: an answer in the queue of the instruction channel, and from its latch
to retirement `inst`, is the word in memory at `pc`.  This is where a store could go
wrong, because it may overwrite the next instruction or its own: memory changes when
the request is presented, so from there on (`StoreVisible`) the abstract `pc` is already
behind the store, and nothing is said of `inst`.  `OperandInv`: the operand registers
hold the operands of the instruction in `inst`.  `LoadInv`: the request, the answer in
the queue and the latched data of a load are those of its address, and stay so until
it commits because nothing is stored meanwhile.  `StoreInv`: the presented store is the
instruction's.  Each conjunct needs `BusInv` and the latches, which `ImplementsOpenBus`
brings over from the open bus (`BusFacts`), and `EndInv`.

A clock edge is then a step of `Isa` in three places, and a stutter elsewhere: where an
instruction that is no store retires (in COMMIT, and for some in DECODE, in Copperv2;
in DECODE, EXEC or MEM in v1); where the memory performs the request of a store; and
at the end, in the callback that stops the test.  Reset ends with the registers as the
program finds them.  In v1 the `x` of `Isa` is 0 as long as the core is in reset, so an
edge that leaves reset must find the file cleared.

`Supported` says that, when an instruction of the program executes, the target of a
`jalr` is even and a load or store does not reach beyond its aligned word.  It
cannot be dropped: `odd_jalr_target` and `misaligned_load` violate `ImplementsIsa` by
just these two.  It is a condition on programs, not on the core: code that
keeps its data and functions aligned satisfies it.  All runs that `ImplementsIsa` passes are of programs that satisfy it,
loops, self-modifying code and calls among them, so it is not empty.  `ProgramInvariant`
needs no such hypothesis.

*The coroutines of a channel* (`BfmInv`).  The invariant speaks of `wire`, the signals
with what has been written and not yet taken effect.  `SchedulerInv`: where each
coroutine is, and in which slots it can be due.  `DriverInv`: the driver is in one of
six phases, each with its place, its slot, its queue and what it shows: it boots,
raises `ready` after reset, idles, answers, holds the answer for its cycle, or refuses.
`MonitorInv`: what a monitor has received is what the circuit has done, except for the
item that is on the signals and that the monitor is due to sample in this very slot
(`NewRequest`, `NewResponse`); an order of the coroutines decides only which of the two
forms holds.  `Observed` follows because before a rising edge nobody is due to sample;
`NoRace` because no write is pending then: the driver's phases that change `valid` end
in the falling step; and `ChannelSafety` because the only steps that change `requests`
or `responses` are the clock's, which make a request when none is under way and take
the held answer, that of the last request.

*The Wishbone adapter* (`WbInv`).  The driver gets an item, waits, sends or holds it,
and an item is pending, given by the sequence and not yet in the fifo, exactly until
the monitor samples it in the settled slot in which it is held: one sample, since the
item is taken back before the next.  `WbAdapterAssumption` says that an item is an
address or an address with data, which is how `BusSeqItem.randomize` leaves it.

*The Wishbone bus functional model* (`BfmInv` of `EnvironmentProofs`).  An operation goes through five phases, `Quiet`,
`Sent`, `Awaiting`, `Answered` and `Closing`, each with the place and the slot of the
source, the sink and the reader, with what the wires show, and with how many of the
requests the sink has received and the source has had answered.  The hard phase is
`Closing`: the acknowledge outlasts the strobe, and the source may raise the strobe for
the next operation while the sink still waits to see it low; it does not, because it
comes back only after an edge, when the sink has taken the acknowledge down.  The
monitor samples one operation several times, so `MonitorInv` says that what it has
recorded `Repeats` the requests, all but one that is not yet strobed at an edge;
`Repeats(s, t)` names for each element of `t` the element of `s` it repeats, which can
be extended by one element without an induction over sequences.
`WishboneAssumption` says that a
write has data, a read has none, and only a read is answered with data.

*The hex file* (`HexInv`).  The reader is a loop over tokens, so what it makes of a file
of any length is an induction.  The induction principles of the library take an operator,
but that a set of numbers has a least element (`LeastOf`) can be had from `WFMin`, and a
proof by the least counterexample serves as well: `RunExists` (the recursive function
`state` of `Reading` has a value), `RunsAgree` (which depends only on the tokens read),
`ReadingState` (and is a memory).  From there on there is only `ReadingAppend`: one more
token is one more `read`.  `LoopInv` says that a reader of what has been written would go
on at `last_addr + 1`, so that an address is written exactly when the next value would be
misplaced; it does not hold for a memory that begins at 1 (section 7), where the loop
omits the address although nothing has been written yet.  `ImageInv` says which
sections have been zeroed so far.  Flushing and full lines disappear, since a writer
is the sequence of the tokens in its lines and its buffer (`ValueWrites`).

Only model-checked:

- `Recovers`, `Completes`, `Finishes`, `Ends`, and the liveness part of
  `ImplementsChannel`: liveness under fairness, which needs ENABLED.
- `Passes` and `RunToEnd`: they compare what the monitors receive with the lists that
  each of eleven given tests expects, so there is nothing to be said for every value of
  the constants.


## 7. What the runs found

Two places where the core does not do what tests in the repository say a core
does, and one in a test environment.  Neither of the first two tests is among those
that `sim/test_copperv2.py` runs (`rv32ui`).

- `odd_jalr_target`: `jalr` keeps the least significant bit of its target
  (`copperv2.scala:184`), while `sim/tests/isa/rv64si/ma_fetch.S:44`, included by the
  rv32mi test of the same name, relies on "JALR ignores the target LSB".  The core
  fetches from the odd address, which the memory serves as four unaligned bytes.
- `misaligned_load`: a misaligned `lw` returns the upper bytes of the aligned word
  and zeros (`copperv2.scala:114`, `:224`), while `sim/tests/isa/rv64mi/ma_addr.S:26`
  says a misaligned load "either writes the correct value, or takes an exception
  and performs no writeback".
- `wb_coverage`: `Coverage.write` of `wb_adapter_uvm.py:65` takes an item for a write if
  it has a `resp`, but the items are payloads of requests, so writes are counted as
  reads and the target of line 68 is never covered.

The first two hold for v1 in the same way (`copperv.v:237`; `copperv.v:152` and
`:196`).  In both runs `Isa` is the specification with the documented behaviour and
`ImplementsIsa` is violated by the program's first such instruction.

Observed while modelling, without a statement in the repository to refute:

- The `WbMonitor` of `wb_adapter_uvm.py` asks for one item after the other while the
  strobe is up, so it records a transaction several times, whereas `check_phase`
  (`wb_adapter_uvm.py:85`) compares the n-th with the n-th.  `Delivered` is stated for
  what does hold.
- `WishboneAdapter` forwards nothing (`wishbone.scala:22`), so the first comparison of
  that scoreboard fails on an empty fifo, and a core behind it stops at its first
  fetch: the state `"stuck"`, or rather `"fetching"` for ever, of `BusProtocol`.
- The hex writer begins as if address 0 had been written last (`utils.py:216`), so a
  memory that starts at address 1 is read back at 0 (`StartsAtOne` in `HexFile`
  excludes it).


## 8. What is not modelled

- Values of undriven signals: an unsupported funct reaches the core as `"X"`, and
  every consumer takes its default branch; a four-state simulator could propagate
  unknowns instead.
- A slave that is not reset with the core: the late answer to a request made before
  a reset would be taken for the answer to the first fetch.  Nothing in the
  repository resets one without the other; the variant of `SlaveReset` that keeps the
  slave (`SlaveKept`) shows the consequence.
- The timeouts of cocotb's tests, and the number of cycles: the timer returns any of
  its values.
- `StackMonitor`, which the testbench has disabled (`testbench.py:106`).
- The unit tests on v1: the register monitors are bound to Copperv2's signals.
- `Scoreboard.check_phase` of the UVM environment.  `WbAdapter` ends where it begins, with
  the two fifos as the monitors have filled them: that of Wishbone is empty, because the
  adapter drives `cyc` and `stb` low for ever, so the first comparison fails and none
  follows.
- The receivers that `First` leaves behind in `BusMonitor` (`wb_adapter_uvm.py:118`): of two
  receivers one is taken, the other goes on waiting in a task of its own, and the next
  round starts two more.  `bus_mon` has only those of the current round.  One left behind
  reads signals and writes none, and what it yields goes to nobody, so neither the fifos
  nor the signals can show it.
- Rounding of `chr()` to printable text; only the limit at which it raises matters.
- The Icarus testbench of v1.  Its top level does not compile as it stands
  (`testbench.v:103` has an `` `endif `` whose `` `ifdef `` is commented out), and its
  timer forces signals that another process drives at the same edge, which is a race.
- LithiumSoC's wiring; in `scripts`, disassembly, the generation of monitor code and
  GTKWave files, and synthesis: they format text or run external tools.
- The build and container files, and the test programs themselves (ISA tests,
  dhrystone, hello_world), which are inputs: `Programs` has small counterparts.


## 9. Plan

Done: both cores on an open bus with reset at any time, their protocol and the proofs
of section 6; both under the testbench, as open buses and against the instruction set,
which they are proved to execute; the coroutines of the bus and Wishbone models; the
scoreboard, register monitors and unit tests; the loader and the hex file.  What would
come next:

1. *Icarus memory*: `fake_memory` and `sim_crossbar` as the slave of `Copperv1`; that
   every behaviour of it is one of `OpenBusV1`, that its single read port never sees
   two requests, and that nothing it presents for longer than a cycle is taken twice.
2. *Scoreboard*: that the transactions of a test are those of the program's execution by
   `Isa`, for every program, from which `Passes` would follow for any test whose list of
   transactions is right.
