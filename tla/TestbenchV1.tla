----------------------------- MODULE TestbenchV1 ---------------------------
(***************************************************************************)
(* The v1 core under the same simulation testbench, which drives the ports *)
(* of copperv.v when the simulation is started with +dut_copperv1.         *)
(***************************************************************************)
EXTENDS Copperv1, Bench

vars == <<coreVars, benchVars>>

TypeOK == CoreTypeOK /\ BenchTypeOK

----------------------------------------------------------------------------
\* One clock edge; ir, dr and dw say which drivers send in the cycle before.
ClockEdge(ir, dr, dw) ==
  \E timer_counter \in TimerCounts :
    /\ BenchEdge(ir, dr, dw, inst_fetch, pc, timer_counter)
    /\ IF rst
         THEN CoreEdge(ir_data_valid(ir, pc), ir_data(pc),
                       TRUE, dr, dr_data(timer_counter), TRUE, dw, dw_resp)
         ELSE CoreReset

Cycle == Running /\ \E ir \in BOOLEAN, dr \in BOOLEAN, dw \in BOOLEAN : ClockEdge(ir, dr, dw)

End == EndTest /\ UNCHANGED coreVars

Init == CoreInit /\ BenchInit

Next == Cycle \/ End

Spec == Init /\ [][Next]_vars

\* The clock runs, and the simulator runs every driver that has an item.
Fairness == /\ WF_vars(Next)
            /\ \A ch \in {"ir", "dr", "dw"} : WF_vars(Cycle /\ Sends(ch, inst_fetch))

FairSpec == Spec /\ Fairness

----------------------------------------------------------------------------
(* Properties.                                                             *)

\* The memory performs a store while the instruction waits in MEM.
StoreVisible == /\ inst_type = "STORE" /\ state = "MEM"
                /\ dw_queue # <<>> \/ write_valid \/ verdict # "running"

Program == INSTANCE Isa WITH
  pc <- IF StoreVisible THEN Wrap(pc + 4) ELSE pc,
  x <- IF rst THEN mem ELSE [r \in RegAddr |-> 0],
  m <- memory, uart <- fake_uart, ResetPc <- PcInit

\* The v1 core and the memory execute the program that is in memory, from
\* cleared registers: every instruction has its architectural effect on pc,
\* registers, memory and devices exactly once and in program order, however
\* long the responses take.
ImplementsIsa == Program!IsaSpec

\* A self-checking test has a program end: no instruction from there on is
\* executed, whatever jumps led there.
EndRespected == \/ Within(end_i_address, pc)
                \/ state \in {"RESET", "FETCH"} /\ ~inst_valid

\* The test comes to its end: a verdict, or the core waiting at the end of
\* the program for an answer that does not come.
Completes == <>[](verdict # "running" \/ ~ir_ready)

============================================================================
