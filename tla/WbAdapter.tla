------------------------------- MODULE WbAdapter ----------------------------
(***************************************************************************)
(* The UVM environment of the Wishbone adapter (wb_adapter_uvm.py) around  *)
(* the adapter as it stands (wishbone.scala): it is ready for every        *)
(* request and drives nothing.  A sequence of items is driven on the       *)
(* core's side of the adapter, one monitor on each side records, and at    *)
(* the end scoreboard and coverage are checked.  The model begins where    *)
(* reset() returns, in the time step that releases reset.                  *)
(***************************************************************************)
EXTENDS Simulator, SequencesExt

CONSTANTS
  Items,       \* records of addr and, for a write, data (with its strobe)
  SequenceLength

ASSUME WbAdapterAssumption ==
  /\ SequenceLength \in Nat \ {0}
  /\ \A item \in Items : \/ item = [addr |-> item.addr]
                         \/ item = [addr |-> item.addr, data |-> item.data]

VARIABLES
  items,       \* what the sequence has given to the driver
  bus_fifo, wb_fifo,  \* the scoreboard's: what either monitor has recorded
  cvg,         \* the coverage
  ended        \* the objection is dropped: the check phase

testVars == <<items, bus_fifo, wb_fifo, cvg, ended>>
vars == <<simVars, testVars>>

IsWrite(item) == "data" \in DOMAIN item

----------------------------------------------------------------------------
\* BusSeq.body: one randomized item after the other; then the objection is
\* dropped and the simulation ends.
NextItem(item) == /\ Runs("driver", "get") /\ Len(items) < SequenceLength
                  /\ items' = Append(items, item)
                  /\ Await("driver", "wait", "ReadOnly") /\ UNCHANGED <<ended, writes>>

EndSequence == /\ Runs("driver", "get") /\ Len(items) = SequenceLength
               /\ ended' = TRUE
               /\ Await("driver", "get", "event") /\ UNCHANGED <<items, writes>>

\* send() on the channel of the item, which is always ready.
valid(item, v) == IF IsWrite(item) THEN [req_valid |-> v] ELSE [addr_valid |-> v]

wait_for_signal == /\ Runs("driver", "wait") /\ UNCHANGED <<items, ended, writes>>
                   /\ Await("driver", "send", "NextTimeStep")

send == /\ Runs("driver", "send") /\ UNCHANGED <<items, ended>>
        /\ Write(Updated(Last(items), valid(Last(items), TRUE)))
        /\ Await("driver", "hold", "AfterEdge")

\* Mutant: the item stays valid for another cycle.
item_done_late == /\ Runs("driver", "hold") /\ UNCHANGED <<items, ended, writes>>
                  /\ Await("driver", "late", "AfterEdge")

\* Mutant: the driver does not ask for the next item.
item_done_never == /\ Runs("driver", "hold") /\ UNCHANGED <<items, ended>>
                   /\ Write(valid(Last(items), FALSE)) /\ Await("driver", "get", "event")

item_done == /\ Runs("driver", "hold") /\ UNCHANGED <<items, ended>>
             /\ Write(valid(Last(items), FALSE)) /\ Await("driver", "get", "now")

driver == /\ \/ \E item \in Items : NextItem(item)
             \/ EndSequence \/ wait_for_signal \/ send \/ item_done
          /\ UNCHANGED <<bus_fifo, wb_fifo, cvg>>

\* What receive() yields on the two channels
\* (the two have one addr in the model, as at most one is valid).
Received == (IF bus.addr_valid THEN {[addr |-> bus.addr]} ELSE {})
              \cup (IF bus.req_valid THEN {[addr |-> bus.addr, data |-> bus.data]} ELSE {})

\* Coverage.write is called with the payload of a request.
covered(payload) == IF "resp" \in DOMAIN payload THEN "write" ELSE "read"

\* The first of the two channels that has something.
bus_mon == /\ Runs("bus_mon", "receive") /\ Await("bus_mon", "receive", "Sample")
           /\ \/ Received = {} /\ UNCHANGED <<bus_fifo, cvg>>
              \/ \E datum \in Received : /\ bus_fifo' = Append(bus_fifo, datum)
                                         /\ cvg' = cvg \cup {covered(datum)}
           /\ UNCHANGED <<items, wb_fifo, ended, writes>>

wb_mon == /\ Runs("wb_mon", "receive") /\ Await("wb_mon", "receive", "Sample")
          /\ wb_fifo' = IF bus.cyc /\ bus.stb THEN Append(wb_fifo, [addr |-> bus.adr]) ELSE wb_fifo
          /\ UNCHANGED <<items, bus_fifo, cvg, ended, writes>>

Init ==
  /\ slot = "edge"
  /\ task = [driver |-> Task("get", "now"), bus_mon |-> Task("receive", "Sample"),
              wb_mon |-> Task("receive", "Sample")]
  /\ due = {"driver"}
  /\ bus = [addr_valid |-> FALSE, req_valid |-> FALSE, addr |-> 0, data |-> 0,
            cyc |-> FALSE, stb |-> FALSE, adr |-> 0]
  /\ writes = <<>>
  /\ items = <<>> /\ bus_fifo = <<>> /\ wb_fifo = <<>> /\ cvg = {} /\ ended = FALSE

Next == /\ ~ended
        /\ \/ driver \/ bus_mon \/ wb_mon
           \/ (Pass \/ (RisingEdge /\ UNCHANGED writes)) /\ UNCHANGED testVars

Spec == Init /\ [][Next]_vars /\ WF_vars(Next)

----------------------------------------------------------------------------
(* Properties.                                                             *)

\* The bus monitor, which restarts the receivers of both channels after each
\* transaction, records each item driven once and in order.
Recorded == /\ IsPrefix(bus_fifo, items) /\ Len(items) <= Len(bus_fifo) + 1
            /\ ended => bus_fifo = items

\* The sequence is sent, and the check phase is reached.
Ends == <>ended

Target == {"read", "write"}

\* A sequence of reads and writes covers both.
CoverageReached ==
  ended /\ (\E n \in DOMAIN items : IsWrite(items[n]))
        /\ (\E n \in DOMAIN items : ~IsWrite(items[n])) => cvg = Target

=============================================================================
