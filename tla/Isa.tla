--------------------------------- MODULE Isa -------------------------------
(***************************************************************************)
(* What the core and its memory promise together: the RV32I unprivileged   *)
(* instruction set, one instruction per step, on a memory with three       *)
(* devices in it.  A store to the pass/fail address ends the run with a    *)
(* verdict, a store to the output address prints a character, a load from  *)
(* the timer address returns some value of a timer.                        *)
(*                                                                         *)
(* A word that encodes no instruction has no effect.  A misaligned load    *)
(* returns the bytes at its address.                                       *)
(***************************************************************************)
EXTENDS Assembler, Sequences

CONSTANTS
  Asm,             \* the instruction that a memory word encodes
  ResetPc,
  PassFailAddress, PassValues, OutputAddress, CharLimit,
  TimerAddress, TimerValues

VARIABLES pc, x, m, uart, verdict

isaVars == <<pc, x, m, uart, verdict>>

IsaInit == /\ pc = ResetPc
           /\ x[0] = 0
           /\ uart = <<>>
           /\ verdict = "running"

----------------------------------------------------------------------------
(* What the instructions share.  Below, i is the instruction executed, a   *)
(* and b are the values of its source registers.                           *)

Write(i, v)  == x' = IF i.rd = 0 THEN x ELSE [x EXCEPT ![i.rd] = v]
Continue     == pc' = Wrap(pc + 4)
Jump(target) == pc' = Wrap(target)

----------------------------------------------------------------------------
(* The instructions.                                                       *)

LoadUpper(i) ==
  /\ i.mnemonic \in {"lui", "auipc"}
  /\ Write(i, Wrap(i.imm * 4096 + (IF i.mnemonic = "lui" THEN 0 ELSE pc)))
  /\ Continue
  /\ UNCHANGED <<m, uart, verdict>>

Compute(i, a, b) ==
  /\ \/ i.mnemonic \in Registers /\ Write(i, Operate(i.mnemonic, a, b))
     \/ /\ i.mnemonic \in DOMAIN Immediates
        /\ Write(i, Operate(Immediates[i.mnemonic], a, Wrap(i.imm)))
  /\ Continue
  /\ UNCHANGED <<m, uart, verdict>>

JumpAndLink(i, a) ==
  /\ \/ i.mnemonic = "jal" /\ Jump(pc + i.imm)
     \/ i.mnemonic = "jalr" /\ LET t == a + i.imm IN Jump(t - (t % 2))
  /\ Write(i, Wrap(pc + 4))
  /\ UNCHANGED <<m, uart, verdict>>

Branch(i, a, b) ==
  /\ i.mnemonic \in Branches
  /\ IF Condition(a, b)[i.mnemonic] THEN Jump(pc + i.imm) ELSE Continue
  /\ UNCHANGED <<x, m, uart, verdict>>

Load(i, addr) ==
  /\ i.mnemonic \in DOMAIN Loads
  /\ \E source \in IF AlignDown(addr) = TimerAddress
                     THEN {t \div ByteSize^Offset(addr) : t \in TimerValues}
                     ELSE {from_array(m, addr)} :
       Write(i, Extend(LowBytes(source, Loads[i.mnemonic]), i.mnemonic))
  /\ Continue
  /\ UNCHANGED <<m, uart, verdict>>

StoreMemory(addr, n, v) ==
  /\ AlignDown(addr) \notin {PassFailAddress, OutputAddress}
  /\ m' = Merge(m, [p \in addr..(addr + n - 1) |-> Lane(v, p - addr)])
  /\ UNCHANGED <<uart, verdict>>

\* A device sees the aligned address and the stored bytes in their lanes.
StoreVerdict(addr, data) ==
  /\ AlignDown(addr) = PassFailAddress
  /\ verdict' = IF data \in PassValues THEN "pass" ELSE "fail"
  /\ UNCHANGED <<m, uart>>

StoreOutput(addr, data) ==
  /\ AlignDown(addr) = OutputAddress
  /\ IF data < CharLimit
       THEN uart' = Append(uart, data) /\ verdict' = verdict
       ELSE uart' = uart /\ verdict' = "fail"
  /\ m' = m

Store(i, addr, b) ==
  /\ i.mnemonic \in DOMAIN Stores
  /\ LET n    == Stores[i.mnemonic]
         data == Wrap(LowBytes(b, n) * ByteSize^Offset(addr))
     IN  StoreMemory(addr, n, b) \/ StoreVerdict(addr, data) \/ StoreOutput(addr, data)
  /\ Continue
  /\ x' = x

NoEffect == /\ Continue
            /\ UNCHANGED <<x, m, uart, verdict>>

Execute(i, a, b) ==
  \/ LoadUpper(i)
  \/ Compute(i, a, b)
  \/ JumpAndLink(i, a)
  \/ Branch(i, a, b)
  \/ Load(i, Wrap(a + i.imm))
  \/ Store(i, Wrap(a + i.imm), b)
  \/ i.mnemonic = "fence" /\ NoEffect

IsaNext == /\ verdict = "running"
           /\ \E word \in {from_array(m, pc)} :
                IF word \in DOMAIN Asm
                  THEN \E i \in {Asm[word]} : Execute(i, x[i.rs1], x[i.rs2])
                  ELSE NoEffect

IsaSpec == IsaInit /\ [][IsaNext]_isaVars

============================================================================
