------------------------------ MODULE WishboneBfm ---------------------------
(***************************************************************************)
(* The Wishbone bus functional model (wishbone.py): a source that performs *)
(* one operation after the other, a sink that receives and replies, a      *)
(* reader of the replies as in the tests of the model (test_testbench.py), *)
(* and the passive monitor of the UVM environment (wb_adapter_uvm.py).     *)
(* Between its operations the source, and before its reply the sink, may   *)
(* let a clock cycle pass.  The model begins after reset.                  *)
(***************************************************************************)
EXTENDS Simulator, SequencesExt

CONSTANTS
  Operations,    \* records of we, adr and, for a write, datwr (data and lanes)
  Answer,        \* the sink's reply to each operation
  MaxOperations  \* bound of the model

Ack == [ack |-> TRUE]

ASSUME WishboneAssumption ==
  /\ \A op \in Operations :
       \/ op = [we |-> FALSE, adr |-> op.adr]
       \/ op = [we |-> TRUE, adr |-> op.adr, datwr |-> op.datwr]
  /\ DOMAIN Answer = Operations
  /\ \A op \in Operations :
       Answer[op] = IF op.we THEN Ack ELSE [ack |-> TRUE, data |-> Answer[op].data]

VARIABLES
  requests,   \* the operations that the source has started
  received,   \* what the sink has received
  responses,  \* what the reader has received
  monitored   \* what the monitor has received

operationVars == <<requests, received, responses, monitored>>
bfmVars == <<simVars, operationVars>>

----------------------------------------------------------------------------
\* source_read_write.
Start(op) ==
  /\ Runs("source", "start") /\ Len(requests) < MaxOperations
  /\ requests' = Append(requests, op)
  /\ Write(Updated(op, [cyc |-> TRUE, stb |-> TRUE]))
  /\ Await("source", "started", "RisingEdge")

NextEdge == /\ Runs("source", "started") /\ UNCHANGED <<requests, writes>>
            /\ Await("source", "ack", "ReadOnly")

AwaitAck == /\ Runs("source", "ack") /\ UNCHANGED <<requests, writes>>
            /\ IF bus.ack THEN Await("source", "end", "RisingEdge")
                          ELSE Await("source", "ack", "Sample")

\* Mutant: the strobe is not taken back.
EndStrobed == /\ Runs("source", "end") /\ UNCHANGED requests
              /\ Write([cyc |-> FALSE]) /\ Await("source", "start", "RisingEdge")

End == /\ Runs("source", "end") /\ UNCHANGED requests
       /\ Write([cyc |-> FALSE, stb |-> FALSE]) /\ Await("source", "start", "RisingEdge")

Idle == /\ Runs("source", "start") /\ UNCHANGED <<requests, writes>>
        /\ Await("source", "start", "RisingEdge")

source == /\ (\E op \in Operations : Start(op)) \/ NextEdge \/ AwaitAck \/ End \/ Idle
          /\ UNCHANGED <<received, responses, monitored>>

\* What sink_receive and source_receive yield.
Strobed  == bus.cyc /\ bus.stb
Reply    == IF bus.we THEN Ack ELSE [ack |-> TRUE, data |-> bus.datrd]

Payload  == IF bus.we THEN [we |-> TRUE, adr |-> bus.adr, datwr |-> bus.datwr]
                      ELSE [we |-> FALSE, adr |-> bus.adr]

\* The sink: sink_receive, then sink_reply.
Receive == /\ Runs("sink", "receive") /\ UNCHANGED writes
           /\ IF Strobed
                THEN /\ received' = Append(received, Payload)
                     /\ Continue("sink", [sink |-> Task("reply", "RisingEdge"),
                                         reader |-> Task("receive", "Sample")])
                ELSE Await("sink", "receive", "Sample") /\ UNCHANGED received

Delay == /\ Runs("sink", "reply") /\ UNCHANGED <<received, writes>>
         /\ Await("sink", "late", "RisingEdge")

sink_reply == /\ Runs("sink", "reply") \/ Runs("sink", "late")
              /\ Write(IF bus.we THEN [ack |-> TRUE]
                               ELSE [ack |-> TRUE, datrd |-> Answer[Last(received)].data])
              /\ Await("sink", "wait", "ReadOnly") /\ UNCHANGED received

wait_for_strobe == /\ Runs("sink", "wait") /\ UNCHANGED <<received, writes>>
                   /\ IF bus.stb THEN Await("sink", "wait", "Sample")
                                 ELSE Await("sink", "unack", "NextTimeStep")

\* Mutant: the acknowledge is not taken back.
UnackNever == /\ Runs("sink", "unack") /\ UNCHANGED <<received, writes>>
              /\ Await("sink", "receive", "Sample")

Unack == /\ Runs("sink", "unack") /\ Write([ack |-> FALSE]) /\ UNCHANGED received
         /\ Await("sink", "receive", "Sample")

sink == /\ Receive \/ Delay \/ sink_reply \/ wait_for_strobe \/ Unack
        /\ UNCHANGED <<requests, responses, monitored>>

\* anext(source_receive())
reader == /\ Runs("reader", "receive")
          /\ IF bus.ack THEN responses' = Append(responses, Reply) /\ Await("reader", "done", "event")
                        ELSE Await("reader", "receive", "Sample") /\ UNCHANGED responses
          /\ UNCHANGED <<requests, received, monitored, writes>>

\* WbMonitor.run_phase: anext(sink_receive()) for ever.
monitor == /\ Runs("monitor", "receive") /\ Await("monitor", "receive", "Sample")
           /\ monitored' = IF Strobed THEN Append(monitored, Payload) ELSE monitored
           /\ UNCHANGED <<requests, received, responses, writes>>

\* source_init, sink_init
BfmInit ==
  /\ SimInit([source |-> Task("start", "RisingEdge"), sink |-> Task("receive", "Sample"),
              reader |-> Task("done", "event"), monitor |-> Task("receive", "Sample")],
             [cyc |-> FALSE, stb |-> FALSE, we |-> FALSE, adr |-> 0, datwr |-> 0,
              ack |-> FALSE, datrd |-> 0])
  /\ requests = <<>> /\ received = <<>> /\ responses = <<>> /\ monitored = <<>>

BfmNext == \/ source \/ sink \/ reader \/ monitor
           \/ (Pass \/ (RisingEdge /\ UNCHANGED writes)) /\ UNCHANGED operationVars

\* Time goes on.
BfmSpec == BfmInit /\ [][BfmNext]_bfmVars /\ WF_bfmVars(BfmNext)

----------------------------------------------------------------------------
(* Properties.                                                             *)

Channel == INSTANCE Channel WITH Refused <- {}

\* Every operation of the source is answered once, with the reply made to it,
\* before the source starts the next one, whether the two sides run back to
\* back or with pauses: no acknowledge outlives its operation.
ImplementsChannel == Channel!ChannelSpec

\* t is s with each of its elements once or several times.
Repeats(s, t) ==
  \E of \in [DOMAIN t -> DOMAIN s] :
    /\ \A j \in DOMAIN t : t[j] = s[of[j]]
    /\ \A j, k \in DOMAIN t : j < k => of[j] <= of[k]
    /\ \A i \in DOMAIN s : \E j \in DOMAIN t : of[j] = i

\* The sink receives every operation once and in order, although the strobe
\* outlasts its reply.  The monitor, which asks for one item after the other,
\* misses none and invents none, but has each as often as the strobe is up.
Delivered == slot = "before" => received = requests /\ Repeats(requests, monitored)

=============================================================================
