------------------------------ MODULE Testbench ----------------------------
(***************************************************************************)
(* The Copperv2 core under the simulation testbench.  One step is a clock  *)
(* cycle of both: what monitors, callback and drivers do between two       *)
(* edges, then the edge.                                                   *)
(***************************************************************************)
EXTENDS Copperv2, Bench

vars == <<coreVars, benchVars>>

TypeOK == CoreTypeOK /\ BenchTypeOK

----------------------------------------------------------------------------
\* One clock edge; ir, dr and dw say which drivers send in the cycle before.
ClockEdge(ir, dr, dw) ==
  LET addr == ir_addr(pc, ir_ready)
  IN  \E timer_counter \in TimerCounts :
        /\ BenchEdge(ir, dr, dw, inst_fetch, addr, timer_counter)
        /\ IF rst
             THEN CoreEdge(ir_data_valid(ir, addr), ir_data(addr),
                           TRUE, dr, dr_data(timer_counter), TRUE, dw, dw_resp)
             ELSE CoreReset(ir_data_valid(ir, addr), ir_data(addr))

Cycle == Running /\ \E ir \in BOOLEAN, dr \in BOOLEAN, dw \in BOOLEAN : ClockEdge(ir, dr, dw)

End == EndTest /\ UNCHANGED coreVars

Init == CoreInit /\ BenchInit

Next == Cycle \/ End

Spec == Init /\ [][Next]_vars

\* The clock runs, and the simulator runs every driver that has an item.
Fairness == /\ WF_vars(Next)
            /\ \A ch \in {"ir", "dr", "dw"} : WF_vars(Cycle /\ Sends(ch, inst_fetch))

FairSpec == Spec /\ Fairness

----------------------------------------------------------------------------
(* Properties.                                                             *)

\* A store takes effect for the program when the memory has performed it,
\* before the core has retired it.
StoreVisible ==
  /\ inst_type = "STORE"
  /\ \/ state = "MEM" /\ (dw_queue # <<>> \/ write_valid \/ verdict # "running")
     \/ state = "COMMIT"

pcBar == IF StoreVisible THEN Wrap(pc + 4) ELSE pc

Program == INSTANCE Isa WITH
  pc <- pcBar, x <- [mem EXCEPT ![0] = 0], m <- memory, uart <- fake_uart,
  ResetPc <- PcInit

\* The core and the memory execute the program that is in memory: however
\* long the responses take, every instruction has its architectural effect on
\* pc, registers, memory and devices exactly once and in program order.
ImplementsIsa == Program!IsaSpec

\* A self-checking test has a program end: no instruction from there on is
\* executed, whatever jumps led there.
EndRespected == \/ Within(end_i_address, pc)
                \/ state \in {"RESET", "FETCH"} /\ ~inst_valid

\* The test comes to its end: a verdict, or the core waiting at the end of
\* the program for an answer that does not come.
Completes == <>[](verdict # "running" \/ ~ir_ready)

============================================================================
