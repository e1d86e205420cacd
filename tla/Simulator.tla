------------------------------ MODULE Simulator -----------------------------
(***************************************************************************)
(* The simulator and cocotb's scheduler, as the testbench uses them.       *)
(*                                                                         *)
(* A clock period is two time steps, one with the rising edge and one with *)
(* the falling edge.  A time step begins (NextTimeStep), the clock changes *)
(* (RisingEdge), what was written takes effect, and the values are settled *)
(* (ReadOnly).  That makes five slots in which a coroutine can run:        *)
(*                                                                         *)
(*   "before"   begin of the rising step     "after"  begin of the falling *)
(*   "edge"     rising edge                  "low"    settled falling step *)
(*   "settled"  settled rising step                                        *)
(*                                                                         *)
(* A coroutine runs to its next await in one step; coroutines that are due *)
(* in the same slot run in any order.                                      *)
(***************************************************************************)
EXTENDS Integers, Sequences

VARIABLES
  slot,
  task,     \* per coroutine: where it is (at) and what it awaits (on)
  due,      \* the coroutines still to run in this slot
  bus,      \* the signals
  writes    \* written to signals, not yet in effect

\* The function f with the values of g.
Updated(f, g) == [x \in DOMAIN f \cup DOMAIN g |-> IF x \in DOMAIN g THEN g[x] ELSE f[x]]

simVars == <<slot, task, due, bus, writes>>

NextSlot == [before |-> "edge", edge |-> "settled", settled |-> "after",
             after |-> "low", low |-> "before"]

\* The slots in which a trigger fires.  "Sample" is RisingEdge followed by
\* ReadOnly (awaited after the "edge" slot), "AfterEdge" RisingEdge followed
\* by NextTimeStep; "now" is a coroutine that can go on, "event" one that
\* waits for another coroutine.
Fires == [NextTimeStep |-> {"before", "after"}, RisingEdge |-> {"edge"},
          ReadOnly |-> {"settled", "low"}, Sample |-> {"settled"},
          AfterEdge |-> {"after"}, now |-> {}, event |-> {}]

Task(at, on) == [at |-> at, on |-> on]

\* A task that a running coroutine has made runnable goes on in this slot;
\* so does one that awaits ReadOnly when the signals are settled.
GoesOn(t) == t.on = "now" \/ (t.on = "ReadOnly" /\ slot \in Fires["ReadOnly"])

SimTypeOK == /\ slot \in DOMAIN NextSlot /\ due \subseteq DOMAIN task
             /\ \A c \in DOMAIN task : task[c].on \in DOMAIN Fires

----------------------------------------------------------------------------
Runs(c, at) == c \in due /\ task[c].at = at

\* Coroutine c runs to its next await; `new' gives the new state of c and of
\* the coroutines it wakes or starts.
Continue(c, new) ==
  /\ task' = Updated(task, new)
  /\ due' = (due \ {c}) \cup {t \in DOMAIN new : GoesOn(new[t])}
  /\ UNCHANGED <<slot, bus>>

Await(c, at, on) == Continue(c, [k \in {c} |-> Task(at, on)])

Write(values) == writes' = Updated(writes, values)

\* Time goes on when no coroutine is left to run in this slot.
Tick == /\ due = {}
        /\ slot' = NextSlot[slot]
        /\ due' = {c \in DOMAIN task : slot' \in Fires[task[c].on]}
        /\ UNCHANGED task

Commits == slot \in {"edge", "after"}

\* A tick that is no rising edge.
Pass == /\ Tick /\ slot # "before"
        /\ bus' = IF Commits THEN Updated(bus, writes) ELSE bus
        /\ writes' = IF Commits THEN <<>> ELSE writes

\* A rising edge.  Writes of the slot before it race with it: a circuit sees
\* the signals with or without them.
RisingEdge == Tick /\ slot = "before" /\ UNCHANGED bus

Sampled == {bus, Updated(bus, writes)}

SimInit(tasks, signals) ==
  /\ slot = "low"
  /\ task = tasks
  /\ due = {c \in DOMAIN tasks : tasks[c].on = "now"}
  /\ bus = signals
  /\ writes = <<>>

============================================================================
