------------------------------ MODULE BusBfmProofs --------------------------
(***************************************************************************)
(* Theorems about the bus functional models, for every set of requests,    *)
(* every answer and every number of transactions: the order in which the   *)
(* coroutines of a time step run makes no difference to what the circuit   *)
(* and the monitors see.                                                   *)
(***************************************************************************)
EXTENDS BusBfm, SequenceTheorems, TLAPS

----------------------------------------------------------------------------
(* The inductive invariant.                                                *)

Coroutines == {"reset", "driver", "req_monitor", "full_monitor"}
Signals == {"reset_n", "req_valid", "req", "req_ready", "resp_valid", "resp", "resp_ready"}

\* The signals, with what has been written to them.
wire == Updated(bus, writes)

At(c, at, on) == task[c] = Task(at, on)

\* Coroutines run in the slots of their triggers, and write to signals only in
\* the two that end with writes taking effect.
SchedulerInv ==
  /\ slot \in DOMAIN NextSlot
  /\ DOMAIN task = Coroutines /\ due \subseteq Coroutines
  /\ DOMAIN bus = Signals /\ DOMAIN writes \subseteq Signals
  /\ ~Commits => writes = <<>>
  /\ "reset" \in due => slot = "edge" /\ ~At("reset", "done", "event")
  /\ \A m \in {"req_monitor", "full_monitor"} : m \in due => slot = "settled"
  /\ At("req_monitor", "receive", "Sample")
  /\ At("full_monitor", "request", "Sample") \/ At("full_monitor", "response", "Sample")
  /\ \/ At("reset", "assert", "RisingEdge") \/ At("reset", "release", "RisingEdge")
     \/ At("reset", "done", "event")

\* What the signals and the circuit hold.
MasterInv ==
  /\ wire.reset_n \in BOOLEAN /\ (wire.reset_n <=> At("reset", "done", "event"))
  /\ wire.req_valid \in BOOLEAN /\ wire.req_ready \in BOOLEAN /\ wire.resp_valid \in BOOLEAN
  /\ wire.req \in DOMAIN Answer /\ wire.resp_ready = TRUE
  /\ busy \in BOOLEAN
  /\ requests \in Seq(DOMAIN Answer) /\ seen \in Seq(DOMAIN Answer)
  /\ responses \in Seq({Answer[r] : r \in DOMAIN Answer})
  /\ Len(requests) = Len(responses) + (IF busy THEN 1 ELSE 0)
  /\ requests # <<>> => wire.reset_n

\* The signals that the circuit has just presented, or taken, and that monitor
\* m is still to sample.
Unsampled(m)   == slot = "edge" \/ m \in due
NewRequest(m)  == Unsampled(m) /\ wire.req_valid
NewResponse(m) == Unsampled(m) /\ wire.resp_valid

\* What a monitor is still to sample can be told from what is on the bus.
PresentedInv ==
  /\ \A m \in {"req_monitor", "full_monitor"} :
       NewRequest(m) => busy /\ wire.req_ready /\ ~wire.resp_valid /\ wire.req = Last(requests)
  /\ NewResponse("full_monitor") => ~busy /\ wire.resp = Last(responses)

\* The monitors have what they have sampled.
SeenInv == requests = IF NewRequest("req_monitor") THEN Append(seen, wire.req) ELSE seen

PairedInv ==
  CASE NewRequest("full_monitor") ->
         /\ At("full_monitor", "request", "Sample")
         /\ Append(transactions, <<wire.req>>) = Exchanged
    [] NewResponse("full_monitor") ->
         /\ At("full_monitor", "response", "Sample")
         /\ [transactions EXCEPT ![Len(transactions)] = Append(@, wire.resp)] = Exchanged
    [] OTHER ->
         /\ At("full_monitor", IF busy THEN "response" ELSE "request", "Sample")
         /\ transactions = Exchanged

MonitorInv == PresentedInv /\ SeenInv /\ PairedInv

\* The driver, with the transaction under way.
Booting ==
  /\ At("driver", "get", "now") /\ "driver" \in due /\ slot = "low"
  /\ At("reset", "assert", "RisingEdge")
  /\ queue = <<AssertReady(TRUE)>> /\ requests = <<>> /\ ~wire.resp_valid

Raising ==
  /\ At("driver", "drive_ready", "RisingEdge")
  /\ slot \in {"low", "before", "edge"} /\ ("driver" \in due <=> slot = "edge")
  /\ \/ At("reset", "assert", "RisingEdge")
     \/ slot = "edge" /\ At("reset", "release", "RisingEdge") /\ "reset" \notin due
  /\ queue = <<AssertReady(TRUE)>> /\ requests = <<>> /\ ~wire.resp_valid

Idling ==
  /\ \/ At("driver", "get", "event") /\ "driver" \notin due
     \/ At("driver", "get", "now") /\ "driver" \in due /\ Commits
  /\ queue = <<>> /\ ~wire.resp_valid
  /\ ~busy => wire.req_ready
  /\ busy => (NewRequest("req_monitor") \/ Last(requests) \in Refused)

Answering ==
  /\ \/ At("driver", "get", "now") /\ slot = "settled" /\ "driver" \in due
     \/ At("driver", "wait", "ReadOnly") /\ slot = "settled" /\ "driver" \in due
     \/ At("driver", "send", "NextTimeStep") /\ slot = "settled" /\ "driver" \notin due
     \/ At("driver", "send", "NextTimeStep") /\ slot = "after" /\ "driver" \in due
  /\ busy /\ ~NewRequest("req_monitor") /\ Last(requests) \notin Refused
  /\ queue = <<Response(Answer[Last(requests)])>> /\ ~wire.resp_valid /\ wire.req_ready

Holding ==
  /\ At("driver", "hold", "AfterEdge")
  /\ IF busy THEN slot \in {"after", "low", "before"} /\ "driver" \notin due
             ELSE \/ slot \in {"edge", "settled"} /\ "driver" \notin due
                  \/ slot = "after" /\ "driver" \in due
  /\ requests # <<>> /\ Last(requests) \notin Refused
  /\ queue = <<Response(Answer[Last(requests)])>>
  /\ wire.resp_valid /\ wire.resp = Answer[Last(requests)] /\ wire.req_ready

Refusing ==
  /\ \/ At("driver", "get", "now") /\ slot = "settled" /\ "driver" \in due
     \/ At("driver", "drive_ready", "RisingEdge") /\ ("driver" \in due <=> slot = "edge")
  /\ busy /\ ~NewRequest("req_monitor") /\ Last(requests) \in Refused
  /\ queue = <<AssertReady(FALSE)>> /\ ~wire.resp_valid

DriverInv == Booting \/ Raising \/ Idling \/ Answering \/ Holding \/ Refusing

BfmInv == SchedulerInv /\ MasterInv /\ MonitorInv /\ DriverInv

----------------------------------------------------------------------------
(* The simulator's operators.                                              *)

LEMMA UpdatedValues ==
  ASSUME NEW f, NEW g
  PROVE  /\ DOMAIN Updated(f, g) = DOMAIN f \cup DOMAIN g
         /\ \A x \in DOMAIN f \cup DOMAIN g :
              Updated(f, g)[x] = IF x \in DOMAIN g THEN g[x] ELSE f[x]
BY DEF Updated

\* What has been written and takes effect leaves the signals as they will be.
LEMMA WireValues ==
  ASSUME DOMAIN bus = Signals, DOMAIN writes \subseteq Signals
  PROVE  /\ DOMAIN wire = Signals
         /\ \A x \in Signals : wire[x] = IF x \in DOMAIN writes THEN writes[x] ELSE bus[x]
         /\ writes = <<>> => \A x \in Signals : wire[x] = bus[x]
<1>1. wire = Updated(bus, writes)
  BY DEF wire
<1>2. QED
  BY <1>1 DEF Updated

\* A coroutine that runs to its next await.
Awaited(c, at, on) ==
  /\ DOMAIN task' = Coroutines
  /\ task'[c] = Task(at, on)
  /\ \A k \in Coroutines \ {c} : task'[k] = task[k]
  /\ due' = (due \ {c}) \cup (IF on = "now" \/ (on = "ReadOnly" /\ slot \in {"settled", "low"})
                                THEN {c} ELSE {})
  /\ slot' = slot /\ bus' = bus

LEMMA AwaitStep ==
  ASSUME NEW c \in Coroutines, NEW at, NEW on, DOMAIN task = Coroutines, Await(c, at, on)
  PROVE  Awaited(c, at, on)
<1> DEFINE new == [k \in {c} |-> Task(at, on)]
<1>1. /\ task' = Updated(task, new)
      /\ due' = (due \ {c}) \cup {t \in DOMAIN new : GoesOn(new[t])}
      /\ slot' = slot /\ bus' = bus
  BY DEF Await, Continue
<1>2. DOMAIN new = {c} /\ new[c] = Task(at, on)
  OBVIOUS
<1> HIDE DEF new
<1>3. /\ DOMAIN task' = Coroutines /\ task'[c] = Task(at, on)
      /\ \A k \in Coroutines \ {c} : task'[k] = task[k]
  BY <1>1, <1>2, UpdatedValues
<1>4. GoesOn(new[c]) <=> on = "now" \/ (on = "ReadOnly" /\ slot \in {"settled", "low"})
  BY <1>2 DEF GoesOn, Task, Fires
<1>5. QED
  BY <1>1, <1>2, <1>3, <1>4 DEF Awaited

\* A write is in the signals at once.
Wrote(values) ==
  /\ DOMAIN writes' \subseteq Signals
  /\ \A x \in Signals : wire'[x] = IF x \in DOMAIN values THEN values[x] ELSE wire[x]

LEMMA WriteStep ==
  ASSUME DOMAIN bus = Signals, DOMAIN writes \subseteq Signals, bus' = bus,
         NEW values, DOMAIN values \subseteq Signals, Write(values)
  PROVE  Wrote(values)
<1>1. writes' = Updated(writes, values)
  BY DEF Write
<1>2. /\ DOMAIN writes' = DOMAIN writes \cup DOMAIN values
      /\ \A x \in DOMAIN writes' : writes'[x] = IF x \in DOMAIN values THEN values[x] ELSE writes[x]
  BY <1>1 DEF Updated
<1>3. /\ wire' = Updated(bus', writes')
      /\ \A x \in Signals : wire'[x] = IF x \in DOMAIN writes' THEN writes'[x] ELSE bus[x]
  <2>1. wire' = Updated(bus', writes')
    BY DEF wire
  <2>2. QED
    BY <1>2, <2>1 DEF Updated
<1>4. QED
  BY <1>2, <1>3, WireValues DEF Wrote

\* Coroutines that read, and writes that take effect, leave the signals alone.
SignalsKept == \A x \in Signals : wire'[x] = wire[x]

LEMMA UnchangedSignals ==
  ASSUME UNCHANGED <<bus, writes>>
  PROVE  SignalsKept
BY DEF SignalsKept, wire

LEMMA PassSignals ==
  ASSUME SchedulerInv, Pass
  PROVE  SignalsKept /\ DOMAIN bus' = Signals /\ writes' = <<>>
<1>1. CASE Commits
  <2>1. bus' = wire /\ writes' = <<>> /\ DOMAIN writes' = {}
    BY <1>1 DEF Pass, wire
  <2>2. DOMAIN wire = Signals
    BY WireValues DEF SchedulerInv
  <2>3. wire' = Updated(bus', writes')
    BY DEF wire
  <2>4. QED
    BY <2>1, <2>2, <2>3 DEF SignalsKept, Updated
<1>2. CASE ~Commits
  <2>1. bus' = bus /\ writes' = writes /\ writes = <<>>
    BY <1>2 DEF Pass, SchedulerInv
  <2>2. QED
    BY <2>1, UnchangedSignals DEF SchedulerInv
<1>3. QED
  BY <1>1, <1>2

----------------------------------------------------------------------------
(* What a step leaves alone.                                               *)

\* A step that the full monitor and the circuit do not notice.
Unnoticed ==
  /\ UNCHANGED <<requests, responses, busy, transactions>>
  /\ task'["full_monitor"] = task["full_monitor"]
  /\ Unsampled("full_monitor")' <=> Unsampled("full_monitor")
  /\ NewRequest("req_monitor")' => NewRequest("req_monitor")
  /\ \A x \in {"req_valid", "req", "req_ready", "resp_valid", "resp"} : wire'[x] = wire[x]

LEMMA UnnoticedStep ==
  ASSUME MonitorInv, Unnoticed
  PROVE  PresentedInv' /\ PairedInv'
<1>1. /\ wire'.req_valid = wire.req_valid /\ wire'.req = wire.req
      /\ wire'.req_ready = wire.req_ready
      /\ wire'.resp_valid = wire.resp_valid /\ wire'.resp = wire.resp
  BY DEF Unnoticed
<1>2. /\ NewRequest("full_monitor")' <=> NewRequest("full_monitor")
      /\ NewResponse("full_monitor")' <=> NewResponse("full_monitor")
  BY <1>1 DEF Unnoticed, NewRequest, NewResponse
<1>3. \A at, on : At("full_monitor", at, on)' <=> At("full_monitor", at, on)
  BY DEF Unnoticed, At
<1>4. Exchanged' = Exchanged
  BY DEF Unnoticed, Exchanged
<1>5. Last(requests)' = Last(requests) /\ Last(responses)' = Last(responses)
  BY DEF Unnoticed, Last
<1> HIDE DEF Exchanged
<1>6. QED
  BY <1>1, <1>2, <1>3, <1>4, <1>5 DEF Unnoticed, MonitorInv, PresentedInv, PairedInv

LEMMA UnnoticedMonitors ==
  ASSUME MonitorInv, Unnoticed, seen' = seen,
         NewRequest("req_monitor")' <=> NewRequest("req_monitor")
  PROVE  MonitorInv'
BY UnnoticedStep DEF MonitorInv, SeenInv, Unnoticed

\* The circuit does not notice a step that reads signals.
LEMMA SameMaster ==
  ASSUME MasterInv, SignalsKept, UNCHANGED <<requests, responses, busy>>,
         seen' \in Seq(DOMAIN Answer),
         At("reset", "done", "event")' <=> At("reset", "done", "event")
  PROVE  MasterInv'
<1>1. /\ wire'.reset_n = wire.reset_n /\ wire'.req_valid = wire.req_valid
      /\ wire'.req = wire.req /\ wire'.req_ready = wire.req_ready
      /\ wire'.resp_valid = wire.resp_valid /\ wire'.resp_ready = wire.resp_ready
  BY DEF SignalsKept, Signals
<1>2. QED
  BY <1>1 DEF MasterInv

\* The driver does not notice what another coroutine samples.
LEMMA SameDriver ==
  ASSUME DriverInv, SignalsKept, UNCHANGED <<slot, queue, busy, requests>>,
         task'["driver"] = task["driver"], task'["reset"] = task["reset"],
         "driver" \in due' <=> "driver" \in due, "reset" \in due' => "reset" \in due,
         NewRequest("req_monitor")' <=> NewRequest("req_monitor")
  PROVE  DriverInv'
<1>1. /\ wire'.req_ready = wire.req_ready /\ wire'.resp_valid = wire.resp_valid
      /\ wire'.resp = wire.resp /\ Last(requests)' = Last(requests)
  BY DEF SignalsKept, Signals, Last
<1>2. CASE Booting
  BY <1>1, <1>2 DEF Booting, DriverInv, At
<1>3. CASE Raising
  BY <1>1, <1>3 DEF Raising, DriverInv, At
<1>4. CASE Idling
  BY <1>1, <1>4 DEF Idling, DriverInv, At, Commits
<1>5. CASE Answering
  BY <1>1, <1>5 DEF Answering, DriverInv, At
<1>6. CASE Holding
  BY <1>1, <1>6 DEF Holding, DriverInv, At
<1>7. CASE Refusing
  BY <1>1, <1>7 DEF Refusing, DriverInv, At
<1>8. QED
  BY <1>2, <1>3, <1>4, <1>5, <1>6, <1>7 DEF DriverInv

\* A step of the driver or of reset() goes on in the same slot, in which the
\* monitors do not.
Local(c, at, on) ==
  /\ Awaited(c, at, on)
  /\ UNCHANGED <<requests, responses, busy, seen, transactions>>

LEMMA LocalUnsampled ==
  ASSUME NEW c \in {"reset", "driver"}, NEW at, NEW on, Local(c, at, on)
  PROVE  /\ \A m \in {"req_monitor", "full_monitor"} : Unsampled(m)' = Unsampled(m)
         /\ task'["full_monitor"] = task["full_monitor"]
         /\ task'["req_monitor"] = task["req_monitor"]
         /\ \A m \in {"req_monitor", "full_monitor"} : m \in due' <=> m \in due
BY DEF Local, Awaited, Unsampled, Coroutines

----------------------------------------------------------------------------
(* The coroutines.                                                         *)

LEMMA ResetStep == ASSUME BfmInv, reset PROVE BfmInv'
<1>1. PICK at \in {"assert", "release"} :
        /\ Runs("reset", at)
        /\ Write([reset_n |-> at = "release"])
        /\ Await("reset", IF at = "assert" THEN "release" ELSE "done",
                          IF at = "assert" THEN "RisingEdge" ELSE "event")
  BY DEF reset
<1> DEFINE next == IF at = "assert" THEN "release" ELSE "done"
           trigger == IF at = "assert" THEN "RisingEdge" ELSE "event"
<1>2. Local("reset", next, trigger)
  BY <1>1, AwaitStep DEF BfmInv, SchedulerInv, Coroutines, reset, benchVars, masterVars, Local
<1>3. Wrote([reset_n |-> at = "release"])
  BY <1>1, <1>2, WriteStep DEF BfmInv, SchedulerInv, Signals, Local, Awaited
<1>4. /\ slot = "edge" /\ slot' = "edge" /\ due' = due \ {"reset"}
      /\ task["reset"] = Task(at, "RisingEdge") /\ task'["reset"] = Task(next, trigger)
      /\ task'["driver"] = task["driver"]
  BY <1>1, <1>2 DEF Runs, Local, Awaited, BfmInv, SchedulerInv, At, Task, Coroutines
<1>5. /\ wire'.reset_n = (at = "release")
      /\ \A x \in Signals \ {"reset_n"} : wire'[x] = wire[x]
  BY <1>3 DEF Wrote, Signals
<1>6. SchedulerInv'
  BY <1>1, <1>2, <1>3, <1>4, LocalUnsampled DEF BfmInv, SchedulerInv, Local, Awaited, Wrote,
    At, Task, Commits
<1>7. MasterInv'
  <2>1. requests = <<>>
    <3>1. ~At("reset", "done", "event")
      BY <1>1, <1>4 DEF At, Task
    <3>2. QED
      BY <3>1 DEF BfmInv, MasterInv
  <2>2. QED
    <3>1. At("reset", "done", "event")' <=> at = "release"
      BY <1>1, <1>4 DEF At, Task
    <3>2. wire'.reset_n \in BOOLEAN /\ (wire'.reset_n <=> at = "release")
      <4>1. CASE at = "release"
        BY <1>5, <4>1
      <4>2. CASE at = "assert"
        BY <1>5, <4>2
      <4>3. QED
        BY <1>1, <4>1, <4>2
    <3>3. /\ wire'.req_valid = wire.req_valid /\ wire'.req = wire.req
          /\ wire'.req_ready = wire.req_ready
          /\ wire'.resp_valid = wire.resp_valid /\ wire'.resp_ready = wire.resp_ready
      BY <1>5 DEF Signals
    <3>4. UNCHANGED <<requests, responses, busy, seen>>
      BY <1>2 DEF Local
    <3>5. QED
      BY <2>1, <3>1, <3>2, <3>3, <3>4 DEF BfmInv, MasterInv
<1>8. NewRequest("req_monitor")' <=> NewRequest("req_monitor")
  BY <1>2, <1>5, LocalUnsampled DEF NewRequest, Signals
<1>9. MonitorInv'
  <2>1. Unnoticed
    BY <1>2, <1>5, <1>8, LocalUnsampled DEF Local, Signals, Unnoticed
  <2>2. QED
    BY <1>2, <1>8, <2>1, UnnoticedMonitors DEF BfmInv, Local
<1>10. DriverInv'
  <2>2. queue' = queue /\ UNCHANGED <<requests, busy>>
    BY DEF reset, benchVars, masterVars
  <2>3. /\ wire'.req_ready = wire.req_ready /\ wire'.resp_valid = wire.resp_valid
        /\ wire'.resp = wire.resp
    BY <1>5 DEF Signals
  <2>4. "driver" \in due' <=> "driver" \in due
    BY <1>4
  <2>5. CASE Raising
    BY <1>1, <1>4, <2>2, <2>3, <2>4, <2>5 DEF Raising, DriverInv, At, Task, Runs
  <2>6. CASE Idling
    BY <1>4, <1>8, <2>2, <2>3, <2>4, <2>6 DEF Idling, DriverInv, At, Commits, Last
  <2>7. CASE Holding
    BY <1>4, <1>8, <2>2, <2>3, <2>4, <2>7 DEF Holding, DriverInv, At, Last
  <2>8. CASE Refusing
    BY <1>4, <1>8, <2>2, <2>3, <2>4, <2>8 DEF Refusing, DriverInv, At, Last
  <2>9. ~Booting /\ ~Answering
    BY <1>4 DEF Booting, Answering
  <2>10. QED
    BY <2>5, <2>6, <2>7, <2>8, <2>9 DEF BfmInv, DriverInv
<1>11. QED
  BY <1>6, <1>7, <1>9, <1>10 DEF BfmInv

\* The request monitor receives just the requests.
LEMMA RequestSeen ==
  ASSUME BfmInv, Runs("req_monitor", "receive")
  PROVE  /\ slot = "settled" /\ writes = <<>> /\ "req_monitor" \in due
         /\ Requested <=> NewRequest("req_monitor")
         /\ bus.req = wire.req
<1>1. slot = "settled" /\ writes = <<>> /\ "req_monitor" \in due
  BY DEF Runs, BfmInv, SchedulerInv, Commits
<1>2. \A x \in Signals : wire[x] = bus[x]
  BY <1>1, WireValues DEF BfmInv, SchedulerInv
<1>3. /\ bus.reset_n = wire.reset_n /\ bus.req_ready = wire.req_ready
      /\ bus.req_valid = wire.req_valid /\ bus.req = wire.req
  BY <1>2 DEF Signals
<1>4. NewRequest("req_monitor") => wire.reset_n /\ wire.req_ready
  <2>1. busy => requests # <<>>
    BY DEF BfmInv, MasterInv
  <2>2. QED
    BY <2>1 DEF BfmInv, MasterInv, MonitorInv, PresentedInv
<1>5. QED
  BY <1>1, <1>3, <1>4 DEF Requested, NewRequest, Unsampled, in_reset

LEMMA ReqMonitorStep == ASSUME BfmInv, req_monitor PROVE BfmInv'
<1>1. /\ slot = "settled" /\ writes = <<>> /\ "req_monitor" \in due
      /\ Requested <=> NewRequest("req_monitor")
      /\ bus.req = wire.req
  BY RequestSeen DEF req_monitor
<1>2. /\ UNCHANGED <<transactions, busy, requests, responses, writes, slot, bus>>
  BY DEF req_monitor, masterVars, Await, Continue
<1>3. SignalsKept
  BY <1>2, UnchangedSignals
<1>4. /\ seen' = IF Requested THEN Append(seen, wire.req) ELSE seen
      /\ DOMAIN task' = Coroutines
      /\ \A c \in Coroutines : (c = "driver" => ~Requested) => task'[c] = task[c]
      /\ due' = (due \ {"req_monitor"})
                  \cup (IF Requested /\ queue = <<>> THEN {"driver"} ELSE {})
      /\ Requested => queue' = Append(queue, memory_callback(wire.req))
      /\ Requested /\ queue = <<>> => task'["driver"] = Task("get", "now")
      /\ ~Requested => queue' = queue
  <2>1. CASE ~Requested
    <3>1. Await("req_monitor", "receive", "Sample") /\ seen' = seen /\ queue' = queue
      BY <2>1 DEF req_monitor
    <3>2. Awaited("req_monitor", "receive", "Sample")
      BY <3>1, AwaitStep DEF Coroutines, BfmInv, SchedulerInv
    <3>3. QED
      BY <2>1, <3>1, <3>2 DEF Awaited, BfmInv, SchedulerInv, At
  <2>2. CASE Requested /\ queue = <<>>
    <3> DEFINE new == [req_monitor |-> Task("receive", "Sample"), driver |-> Task("get", "now")]
    <3>1. /\ seen' = Append(seen, bus.req) /\ queue' = Append(queue, memory_callback(bus.req))
          /\ Continue("req_monitor", new)
      BY <2>2 DEF req_monitor
    <3>2. /\ task' = Updated(task, new)
          /\ due' = (due \ {"req_monitor"}) \cup {t \in DOMAIN new : GoesOn(new[t])}
      BY <3>1 DEF Continue
    <3>3. /\ DOMAIN new = {"req_monitor", "driver"}
          /\ new["req_monitor"] = Task("receive", "Sample") /\ new["driver"] = Task("get", "now")
      OBVIOUS
    <3> HIDE DEF new
    <3>4. {t \in DOMAIN new : GoesOn(new[t])} = {"driver"}
      BY <3>3 DEF GoesOn, Task
    <3>5. /\ DOMAIN task' = Coroutines /\ task'["driver"] = Task("get", "now")
          /\ \A c \in Coroutines : c # "driver" => task'[c] = task[c]
      BY <3>2, <3>3 DEF Updated, BfmInv, SchedulerInv, At, Coroutines
    <3>6. QED
      BY <1>1, <2>2, <3>1, <3>2, <3>4, <3>5
  <2>3. CASE Requested /\ queue # <<>>
    <3> DEFINE new == [req_monitor |-> Task("receive", "Sample")]
    <3>1. /\ seen' = Append(seen, bus.req) /\ queue' = Append(queue, memory_callback(bus.req))
          /\ Continue("req_monitor", new)
      BY <2>3 DEF req_monitor
    <3>2. /\ task' = Updated(task, new)
          /\ due' = (due \ {"req_monitor"}) \cup {t \in DOMAIN new : GoesOn(new[t])}
      BY <3>1 DEF Continue
    <3>3. DOMAIN new = {"req_monitor"} /\ new["req_monitor"] = Task("receive", "Sample")
      OBVIOUS
    <3> HIDE DEF new
    <3>4. {t \in DOMAIN new : GoesOn(new[t])} = {}
      BY <3>3 DEF GoesOn, Task
    <3>5. DOMAIN task' = Coroutines /\ \A c \in Coroutines : task'[c] = task[c]
      BY <3>2, <3>3 DEF Updated, BfmInv, SchedulerInv, At, Coroutines
    <3>6. QED
      BY <1>1, <2>3, <3>1, <3>2, <3>4, <3>5
  <2>4. QED
    BY <2>1, <2>2, <2>3
<1>5. ~NewRequest("req_monitor")'
  BY <1>1, <1>2, <1>4 DEF NewRequest, Unsampled
<1>6. Requested => Idling /\ busy /\ queue = <<>> /\ Last(requests) = wire.req
                   /\ ~wire.resp_valid /\ wire.req_ready
  BY <1>1 DEF BfmInv, DriverInv, Booting, Raising, Idling, Answering, Holding, Refusing,
              MonitorInv, PresentedInv
<1>7. SchedulerInv'
  BY <1>1, <1>2, <1>4 DEF BfmInv, SchedulerInv, At, Coroutines, Commits
<1>8. MasterInv'
  <2>1. seen' \in Seq(DOMAIN Answer)
    <3>1. seen \in Seq(DOMAIN Answer) /\ wire.req \in DOMAIN Answer
      BY DEF BfmInv, MasterInv
    <3>2. Append(seen, wire.req) \in Seq(DOMAIN Answer)
      BY ONLY <3>1
    <3>3. QED
      BY <1>4, <3>1, <3>2
  <2>2. At("reset", "done", "event")' <=> At("reset", "done", "event")
    BY <1>4 DEF At, Coroutines
  <2>3. QED
    BY <1>2, <1>3, <2>1, <2>2, SameMaster DEF BfmInv
<1>9. MonitorInv'
  <2>1. Unsampled("full_monitor")' <=> Unsampled("full_monitor")
    BY <1>2, <1>4 DEF Unsampled
  <2>2. Unnoticed
    BY <1>2, <1>3, <1>4, <1>5, <2>1 DEF Unnoticed, SignalsKept, Signals, Coroutines
  <2>3. SeenInv'
    BY <1>1, <1>2, <1>4, <1>5 DEF BfmInv, MonitorInv, SeenInv
  <2>4. QED
    BY <2>2, <2>3, UnnoticedStep DEF BfmInv, MonitorInv
<1>10. DriverInv'
  <2>1. /\ wire'.req_ready = wire.req_ready /\ wire'.resp_valid = wire.resp_valid
        /\ Last(requests)' = Last(requests)
    BY <1>2, <1>3 DEF SignalsKept, Signals, Last
  <2>2. CASE Requested
    <3>1. task'["driver"] = Task("get", "now") /\ "driver" \in due'
      BY <1>4, <1>6, <2>2
    <3>2. queue' = <<memory_callback(Last(requests))>>
      BY <1>4, <1>6, <2>2
    <3>3. CASE Last(requests) \in Refused
      <4>1. Refusing'
        BY <1>1, <1>2, <1>5, <1>6, <2>1, <2>2, <3>1, <3>2, <3>3 DEF Refusing, memory_callback, At
      <4>2. QED
        BY <4>1 DEF DriverInv
    <3>4. CASE Last(requests) \notin Refused
      <4>1. Answering'
        BY <1>1, <1>2, <1>5, <1>6, <2>1, <2>2, <3>1, <3>2, <3>4 DEF Answering, memory_callback, At
      <4>2. QED
        BY <4>1 DEF DriverInv
    <3>5. QED
      BY <3>3, <3>4
  <2>3. CASE ~Requested
    <3>1. /\ task'["driver"] = task["driver"] /\ task'["reset"] = task["reset"]
          /\ queue' = queue
          /\ "driver" \in due' <=> "driver" \in due
          /\ "reset" \in due' => "reset" \in due
      BY <1>4, <2>3 DEF Coroutines
    <3>2. NewRequest("req_monitor")' <=> NewRequest("req_monitor")
      BY <1>1, <1>5, <2>3
    <3>3. QED
      BY <1>2, <1>3, <3>1, <3>2, SameDriver DEF BfmInv
  <2>4. QED
    BY <2>2, <2>3
<1>11. QED
  BY <1>7, <1>8, <1>9, <1>10 DEF BfmInv

\* The full monitor takes just the requests, and just the responses.
LEMMA PairSeen ==
  ASSUME BfmInv, "full_monitor" \in due
  PROVE  /\ slot = "settled" /\ writes = <<>>
         /\ Requested <=> NewRequest("full_monitor")
         /\ Responded <=> NewResponse("full_monitor")
         /\ bus.req = wire.req /\ bus.resp = wire.resp
<1>1. slot = "settled" /\ writes = <<>>
  BY DEF BfmInv, SchedulerInv, Commits
<1>2. \A x \in Signals : wire[x] = bus[x]
  BY <1>1, WireValues DEF BfmInv, SchedulerInv
<1>3. /\ bus.reset_n = wire.reset_n /\ bus.req_ready = wire.req_ready
      /\ bus.req_valid = wire.req_valid /\ bus.req = wire.req
      /\ bus.resp_ready = wire.resp_ready /\ bus.resp_valid = wire.resp_valid
      /\ bus.resp = wire.resp
  BY <1>2 DEF Signals
<1>4. NewRequest("full_monitor") => wire.reset_n /\ wire.req_ready
  <2>1. busy => requests # <<>>
    BY DEF BfmInv, MasterInv
  <2>2. QED
    BY <2>1 DEF BfmInv, MasterInv, MonitorInv, PresentedInv
<1>5. wire.resp_valid => wire.reset_n
  <2>1. wire.resp_valid => requests # <<>>
    BY DEF BfmInv, DriverInv, Booting, Raising, Idling, Answering, Holding, Refusing
  <2>2. QED
    BY <2>1 DEF BfmInv, MasterInv
<1>6. wire.resp_ready
  BY DEF BfmInv, MasterInv
<1>7. QED
  BY <1>1, <1>3, <1>4, <1>5, <1>6 DEF Requested, Responded, NewRequest, NewResponse,
                                      Unsampled, in_reset

LEMMA FullMonitorStep == ASSUME BfmInv, full_monitor PROVE BfmInv'
<1>1. "full_monitor" \in due
  BY DEF full_monitor, Runs
<1>2. /\ slot = "settled" /\ writes = <<>>
      /\ Requested <=> NewRequest("full_monitor")
      /\ Responded <=> NewResponse("full_monitor")
      /\ bus.req = wire.req /\ bus.resp = wire.resp
  BY <1>1, PairSeen
<1>3. UNCHANGED <<queue, seen, busy, requests, responses, writes>>
  BY DEF full_monitor, masterVars
<1> DEFINE next == IF busy THEN "response" ELSE "request"
<1>4. Awaited("full_monitor", next, "Sample") /\ transactions' = Exchanged
  <2>1. CASE Runs("full_monitor", "request")
    <3>1. /\ Await("full_monitor", IF Requested THEN "response" ELSE "request", "Sample")
          /\ transactions' = IF Requested THEN Append(transactions, <<bus.req>>)
                                          ELSE transactions
      BY <2>1 DEF full_monitor, Runs
    <3>2. ~At("full_monitor", "response", "Sample")
      BY <2>1 DEF Runs, At, Task
    <3>3. /\ busy <=> Requested
          /\ Exchanged = IF Requested THEN Append(transactions, <<bus.req>>)
                                      ELSE transactions
      BY <1>2, <3>2 DEF BfmInv, MonitorInv, PairedInv, PresentedInv
    <3>4. Await("full_monitor", next, "Sample")
      BY <3>1, <3>3
    <3>5. Awaited("full_monitor", next, "Sample")
      BY <3>4, AwaitStep DEF Coroutines, BfmInv, SchedulerInv
    <3>6. QED
      BY <3>1, <3>3, <3>5
  <2>2. CASE Runs("full_monitor", "response")
    <3>1. /\ Await("full_monitor", IF Responded THEN "request" ELSE "response", "Sample")
          /\ transactions' =
               IF Responded
                 THEN [transactions EXCEPT ![Len(transactions)] = Append(@, bus.resp)]
                 ELSE transactions
      BY <2>2 DEF full_monitor, Runs
    <3>2. ~At("full_monitor", "request", "Sample")
      BY <2>2 DEF Runs, At, Task
    <3>3. /\ ~busy <=> Responded
          /\ Exchanged =
               IF Responded
                 THEN [transactions EXCEPT ![Len(transactions)] = Append(@, bus.resp)]
                 ELSE transactions
      BY <1>2, <3>2 DEF BfmInv, MonitorInv, PairedInv, PresentedInv
    <3>4. Await("full_monitor", next, "Sample")
      BY <3>1, <3>3
    <3>5. Awaited("full_monitor", next, "Sample")
      BY <3>4, AwaitStep DEF Coroutines, BfmInv, SchedulerInv
    <3>6. QED
      BY <3>1, <3>3, <3>5
  <2>3. QED
    BY <2>1, <2>2 DEF full_monitor
<1>5. /\ due' = due \ {"full_monitor"} /\ slot' = slot /\ bus' = bus
      /\ DOMAIN task' = Coroutines /\ task'["full_monitor"] = Task(next, "Sample")
      /\ \A c \in Coroutines \ {"full_monitor"} : task'[c] = task[c]
  BY <1>4 DEF Awaited
<1>6. SignalsKept
  BY <1>3, <1>5, UnchangedSignals
<1>7. SchedulerInv'
  BY <1>2, <1>3, <1>5 DEF BfmInv, SchedulerInv, At, Coroutines, Commits
<1>8. MasterInv'
  <2>1. At("reset", "done", "event")' <=> At("reset", "done", "event")
    BY <1>5 DEF At, Coroutines
  <2>2. seen' \in Seq(DOMAIN Answer)
    BY <1>3 DEF BfmInv, MasterInv
  <2>3. QED
    BY <1>3, <1>6, <2>1, <2>2, SameMaster DEF BfmInv
<1>9. NewRequest("req_monitor")' <=> NewRequest("req_monitor")
  BY <1>5, <1>6 DEF NewRequest, Unsampled, SignalsKept, Signals
<1>10. MonitorInv'
  <2>1. ~NewRequest("full_monitor")' /\ ~NewResponse("full_monitor")'
    BY <1>2, <1>5 DEF NewRequest, NewResponse, Unsampled
  <2>2. /\ wire'.req_ready = wire.req_ready /\ wire'.resp_valid = wire.resp_valid
        /\ wire'.req = wire.req /\ Last(requests)' = Last(requests)
    BY <1>3, <1>6 DEF SignalsKept, Signals, Last
  <2>3. Exchanged' = Exchanged
    BY <1>3 DEF Exchanged
  <2>4. PresentedInv'
    BY <1>3, <1>9, <2>1, <2>2 DEF BfmInv, MonitorInv, PresentedInv
  <2>5. SeenInv'
    BY <1>3, <1>9, <2>2 DEF BfmInv, MonitorInv, SeenInv
  <2>6. PairedInv'
    <3>1. At("full_monitor", IF busy THEN "response" ELSE "request", "Sample")'
      BY <1>3, <1>5 DEF At
    <3>2. QED
      BY <1>4, <2>1, <2>3, <3>1 DEF PairedInv
  <2>7. QED
    BY <2>4, <2>5, <2>6 DEF MonitorInv
<1>11. DriverInv'
  <2>1. /\ task'["driver"] = task["driver"] /\ task'["reset"] = task["reset"]
        /\ "driver" \in due' <=> "driver" \in due
        /\ "reset" \in due' => "reset" \in due
    BY <1>5 DEF Coroutines
  <2>2. QED
    BY <1>3, <1>5, <1>6, <1>9, <2>1, SameDriver DEF BfmInv
<1>12. QED
  BY <1>7, <1>8, <1>10, <1>11 DEF BfmInv

----------------------------------------------------------------------------
(* The driver.                                                             *)

\* The driver goes on in its slot, and leaves the circuit's signals alone.
DriverStep(at, on) ==
  /\ Local("driver", at, on)
  /\ \A x \in {"reset_n", "req_valid", "req", "resp_ready"} : wire'[x] = wire[x]
  /\ DOMAIN writes' \subseteq Signals

LEMMA DriverFrame ==
  ASSUME BfmInv, NEW at, NEW on, DriverStep(at, on),
         wire'.req_ready \in BOOLEAN, wire'.resp_valid \in BOOLEAN,
         Commits \/ writes' = writes
  PROVE  /\ SchedulerInv' /\ MasterInv' /\ slot' = slot
         /\ At("driver", at, on)'
         /\ \A a, o : At("reset", a, o)' <=> At("reset", a, o)
         /\ "reset" \in due' <=> "reset" \in due
         /\ "driver" \in due' <=> \/ on = "now"
                                  \/ on = "ReadOnly" /\ slot \in {"settled", "low"}
         /\ NewRequest("req_monitor")' <=> NewRequest("req_monitor")
         /\ Last(requests)' = Last(requests)
<1>1. /\ Awaited("driver", at, on) /\ UNCHANGED <<requests, responses, busy, seen>>
  BY DEF DriverStep, Local
<1>2. /\ wire'.reset_n = wire.reset_n /\ wire'.req_valid = wire.req_valid
      /\ wire'.req = wire.req /\ wire'.resp_ready = wire.resp_ready
  BY DEF DriverStep
<1>3. /\ slot' = slot /\ bus' = bus /\ DOMAIN task' = Coroutines
      /\ task'["driver"] = Task(at, on)
      /\ \A c \in Coroutines \ {"driver"} : task'[c] = task[c] /\ (c \in due' <=> c \in due)
      /\ due' \subseteq Coroutines
      /\ "driver" \in due' <=> \/ on = "now"
                               \/ on = "ReadOnly" /\ slot \in {"settled", "low"}
  BY <1>1 DEF Awaited, BfmInv, SchedulerInv, Coroutines
<1>4. \A a, o : At("reset", a, o)' <=> At("reset", a, o)
  BY <1>3 DEF At, Coroutines
<1>5. SchedulerInv'
  BY <1>3 DEF BfmInv, SchedulerInv, At, Coroutines, Commits, DriverStep
<1>6. MasterInv'
  BY <1>1, <1>2, <1>4 DEF BfmInv, MasterInv
<1>7. NewRequest("req_monitor")' <=> NewRequest("req_monitor")
  BY <1>2, <1>3 DEF NewRequest, Unsampled, Coroutines
<1>8. QED
  BY <1>1, <1>3, <1>4, <1>5, <1>6, <1>7 DEF At, Last, Coroutines

\* The monitors do not notice a step that changes no signal they are about to
\* sample.
LEMMA DriverUnnoticed ==
  ASSUME BfmInv, NEW at, NEW on, DriverStep(at, on),
         \/ SignalsKept
         \/ slot = "after"
         \/ /\ ~wire.req_valid /\ wire'.resp_valid = wire.resp_valid
            /\ wire'.resp = wire.resp
  PROVE  MonitorInv'
<1>1. /\ UNCHANGED <<slot, requests, responses, busy, seen, transactions>>
      /\ wire'.req_valid = wire.req_valid /\ wire'.req = wire.req
      /\ \A m \in {"req_monitor", "full_monitor"} : Unsampled(m)' <=> Unsampled(m)
      /\ task'["full_monitor"] = task["full_monitor"]
  BY LocalUnsampled DEF DriverStep, Local, Awaited
<1>2. \A m \in {"req_monitor", "full_monitor"} : NewRequest(m)' <=> NewRequest(m)
  BY <1>1 DEF NewRequest
<1>3. CASE slot = "after"
  <2>1. \A m \in {"req_monitor", "full_monitor"} : ~Unsampled(m)
    BY <1>3 DEF Unsampled, BfmInv, SchedulerInv
  <2>2. /\ ~NewRequest("full_monitor") /\ ~NewRequest("full_monitor")'
        /\ ~NewRequest("req_monitor") /\ ~NewRequest("req_monitor")'
        /\ ~NewResponse("full_monitor") /\ ~NewResponse("full_monitor")'
    BY <1>1, <2>1 DEF NewRequest, NewResponse
  <2>3. PairedInv'
    <3>1. At("full_monitor", IF busy THEN "response" ELSE "request", "Sample")'
      BY <1>1, <2>2 DEF At, BfmInv, MonitorInv, PairedInv
    <3>2. transactions' = Exchanged'
      BY <1>1, <2>2 DEF Exchanged, BfmInv, MonitorInv, PairedInv
    <3>3. QED
      BY <2>2, <3>1, <3>2 DEF PairedInv
  <2>4. PresentedInv' /\ SeenInv'
    BY <1>1, <2>2 DEF BfmInv, MonitorInv, PresentedInv, SeenInv
  <2>5. QED
    BY <2>3, <2>4 DEF MonitorInv
<1>4. CASE SignalsKept
  <2>1. Unnoticed
    BY <1>1, <1>2, <1>4 DEF Unnoticed, SignalsKept, Signals
  <2>2. QED
    BY <1>1, <1>2, <2>1, UnnoticedMonitors DEF BfmInv
<1>5. CASE /\ ~wire.req_valid /\ wire'.resp_valid = wire.resp_valid
           /\ wire'.resp = wire.resp
  <2>1. \A m \in {"req_monitor", "full_monitor"} : ~NewRequest(m) /\ ~NewRequest(m)'
    BY <1>2, <1>5 DEF NewRequest
  <2>2. NewResponse("full_monitor")' <=> NewResponse("full_monitor")
    BY <1>1, <1>5 DEF NewResponse
  <2>3. Exchanged' = Exchanged /\ Last(responses)' = Last(responses)
    BY <1>1 DEF Exchanged, Last
  <2>4. \A a, o : At("full_monitor", a, o)' <=> At("full_monitor", a, o)
    BY <1>1 DEF At
  <2>5. QED
    BY <1>1, <1>5, <2>1, <2>2, <2>3, <2>4
       DEF BfmInv, MonitorInv, PresentedInv, SeenInv, PairedInv
<1>6. QED
  BY <1>3, <1>4, <1>5

\* What remains to be told of a step of the driver.
DriverMoved(at, on) ==
  /\ SchedulerInv' /\ MasterInv' /\ MonitorInv'
  /\ slot' = slot /\ UNCHANGED <<requests, busy>> /\ Last(requests)' = Last(requests)
  /\ \A a, o : At("driver", a, o)' <=> Task(at, on) = Task(a, o)
  /\ \A a, o : At("reset", a, o)' <=> At("reset", a, o)
  /\ "reset" \in due' <=> "reset" \in due
  /\ "driver" \in due' <=> \/ on = "now"
                           \/ on = "ReadOnly" /\ slot \in {"settled", "low"}
  /\ NewRequest("req_monitor")' <=> NewRequest("req_monitor")

LEMMA DriverMoves ==
  ASSUME BfmInv, NEW at, NEW on, DriverStep(at, on),
         wire'.req_ready \in BOOLEAN, wire'.resp_valid \in BOOLEAN,
         Commits \/ writes' = writes,
         \/ SignalsKept
         \/ slot = "after"
         \/ /\ ~wire.req_valid /\ wire'.resp_valid = wire.resp_valid
            /\ wire'.resp = wire.resp
  PROVE  DriverMoved(at, on)
<1>1. MonitorInv'
  BY DriverUnnoticed
<1>2. /\ SchedulerInv' /\ MasterInv' /\ slot' = slot
      /\ At("driver", at, on)'
      /\ \A a, o : At("reset", a, o)' <=> At("reset", a, o)
      /\ "reset" \in due' <=> "reset" \in due
      /\ "driver" \in due' <=> \/ on = "now"
                               \/ on = "ReadOnly" /\ slot \in {"settled", "low"}
      /\ NewRequest("req_monitor")' <=> NewRequest("req_monitor")
      /\ Last(requests)' = Last(requests)
  BY DriverFrame
<1>3. \A a, o : At("driver", a, o)' <=> Task(at, on) = Task(a, o)
  BY <1>2 DEF At
<1>4. UNCHANGED <<requests, busy>>
  BY DEF DriverStep, Local
<1>5. QED
  BY <1>1, <1>2, <1>3, <1>4 DEF DriverMoved

\* The driver looks at the queue, or at the signals.
LEMMA DriverReads ==
  ASSUME BfmInv, NEW at, NEW on, Await("driver", at, on),
         UNCHANGED <<seen, transactions, masterVars, writes>>
  PROVE  DriverMoved(at, on) /\ SignalsKept
<1>1. Awaited("driver", at, on)
  BY AwaitStep DEF Coroutines, BfmInv, SchedulerInv
<1>2. Local("driver", at, on)
  BY <1>1 DEF Local, masterVars
<1>3. SignalsKept
  BY <1>1, UnchangedSignals DEF Awaited
<1>4. DriverStep(at, on)
  BY <1>2, <1>3 DEF DriverStep, SignalsKept, Signals, BfmInv, SchedulerInv
<1>5. wire'.req_ready \in BOOLEAN /\ wire'.resp_valid \in BOOLEAN
  BY <1>3 DEF SignalsKept, Signals, BfmInv, MasterInv
<1>6. QED
  BY <1>3, <1>4, <1>5, DriverMoves

LEMMA GetStep ==
  ASSUME BfmInv, Get, UNCHANGED <<seen, transactions, masterVars>>
  PROVE  BfmInv'
<1>1. /\ "driver" \in due /\ task["driver"].at = "get" /\ queue' = queue /\ writes' = writes
  BY DEF Get, Runs
<1>2. \A on : ~At("driver", "drive_ready", on) /\ ~At("driver", "wait", on)
              /\ ~At("driver", "send", on) /\ ~At("driver", "hold", on)
  BY <1>1 DEF At, Task
<1>3. CASE Booting
  <2>1. Await("driver", "drive_ready", "RisingEdge")
    BY <1>3 DEF Get, Booting, AssertReady
  <2>2. DriverMoved("drive_ready", "RisingEdge") /\ SignalsKept
    BY <1>1, <2>1, DriverReads
  <2>3. Raising'
    BY <1>1, <1>3, <2>2 DEF Booting, Raising, DriverMoved, SignalsKept, Signals
  <2>4. QED
    BY <2>2, <2>3 DEF DriverMoved, BfmInv, DriverInv
<1>4. CASE Idling
  <2>1. Await("driver", "get", "event")
    BY <1>4 DEF Get, Idling
  <2>2. DriverMoved("get", "event") /\ SignalsKept
    BY <1>1, <2>1, DriverReads
  <2>3. Idling'
    BY <1>1, <1>4, <2>2 DEF Idling, DriverMoved, SignalsKept, Signals
  <2>4. QED
    BY <2>2, <2>3 DEF DriverMoved, BfmInv, DriverInv
<1>5. CASE Answering
  <2>1. Await("driver", "wait", "ReadOnly")
    BY <1>5 DEF Get, Answering, Response
  <2>2. DriverMoved("wait", "ReadOnly") /\ SignalsKept
    BY <1>1, <2>1, DriverReads
  <2>3. slot = "settled"
    BY <1>2, <1>5 DEF Answering
  <2>4. Answering'
    BY <1>1, <1>5, <2>2, <2>3 DEF Answering, DriverMoved, SignalsKept, Signals
  <2>5. QED
    BY <2>2, <2>4 DEF DriverMoved, BfmInv, DriverInv
<1>6. CASE Refusing
  <2>1. Await("driver", "drive_ready", "RisingEdge")
    BY <1>6 DEF Get, Refusing, AssertReady
  <2>2. DriverMoved("drive_ready", "RisingEdge") /\ SignalsKept
    BY <1>1, <2>1, DriverReads
  <2>3. slot = "settled"
    BY <1>2, <1>6 DEF Refusing
  <2>4. Refusing'
    BY <1>1, <1>6, <2>2, <2>3 DEF Refusing, DriverMoved, SignalsKept, Signals
  <2>5. QED
    BY <2>2, <2>4 DEF DriverMoved, BfmInv, DriverInv
<1>7. QED
  BY <1>2, <1>3, <1>4, <1>5, <1>6 DEF BfmInv, DriverInv, Raising, Holding

\* The coroutine tells the phase of the transaction.
LEMMA DriverAt ==
  ASSUME BfmInv, "driver" \in due
  PROVE  /\ task["driver"].at = "wait" => Answering /\ slot = "settled"
         /\ task["driver"].at = "send" => Answering /\ slot = "after"
         /\ task["driver"].at = "hold" => Holding /\ slot = "after" /\ ~busy
         /\ task["driver"].at = "drive_ready" => (Raising \/ Refusing) /\ slot = "edge"
<1>1. \A a, o : At("driver", a, o) => task["driver"].at = a
  BY DEF At, Task
<1>2. CASE Booting
  BY <1>1, <1>2 DEF Booting
<1>3. CASE Raising
  BY <1>1, <1>3 DEF Raising
<1>4. CASE Idling
  BY <1>1, <1>4 DEF Idling
<1>5. CASE Answering
  BY <1>1, <1>5 DEF Answering
<1>6. CASE Holding
  BY <1>1, <1>6 DEF Holding
<1>7. CASE Refusing
  BY <1>1, <1>7 DEF Refusing
<1>8. QED
  BY <1>2, <1>3, <1>4, <1>5, <1>6, <1>7 DEF BfmInv, DriverInv

\* The circuit is ready, so that the driver waits for no second sample.
LEMMA WaitStep ==
  ASSUME BfmInv, wait_for_signal, UNCHANGED <<seen, transactions, masterVars>>
  PROVE  BfmInv'
<1>1. /\ "driver" \in due /\ task["driver"].at = "wait" /\ queue' = queue /\ writes' = writes
  BY DEF wait_for_signal, Runs
<1>2. Answering /\ slot = "settled"
  BY <1>1, DriverAt
<1>3. bus.reset_n /\ bus.resp_ready
  <2>1. requests # <<>>
    BY <1>2 DEF Answering, BfmInv, MasterInv
  <2>2. \A x \in Signals : wire[x] = bus[x]
    BY <1>2, WireValues DEF BfmInv, SchedulerInv, Commits
  <2>3. wire.reset_n = bus.reset_n /\ wire.resp_ready = bus.resp_ready
    BY <2>2 DEF Signals
  <2>4. QED
    BY <2>1, <2>3 DEF BfmInv, MasterInv
<1>4. Await("driver", "send", "NextTimeStep")
  BY <1>3 DEF wait_for_signal, in_reset
<1>5. DriverMoved("send", "NextTimeStep") /\ SignalsKept
  BY <1>1, <1>4, DriverReads
<1>6. Answering'
  BY <1>1, <1>2, <1>5 DEF Answering, DriverMoved, SignalsKept, Signals
<1>7. QED
  BY <1>5, <1>6 DEF DriverMoved, BfmInv, DriverInv

\* The driver writes to its signals.
LEMMA DriverWrites ==
  ASSUME BfmInv, NEW at, NEW on, Await("driver", at, on),
         UNCHANGED <<seen, transactions, masterVars>>,
         NEW values, Write(values), DOMAIN values \subseteq {"req_ready", "resp_valid", "resp"},
         "req_ready" \in DOMAIN values => values.req_ready \in BOOLEAN,
         "resp_valid" \in DOMAIN values => values.resp_valid \in BOOLEAN,
         \/ slot = "after"
         \/ slot = "edge" /\ ~wire.req_valid /\ DOMAIN values = {"req_ready"}
  PROVE  DriverMoved(at, on) /\ Wrote(values)
<1>1. Awaited("driver", at, on)
  BY AwaitStep DEF Coroutines, BfmInv, SchedulerInv
<1>2. Local("driver", at, on)
  BY <1>1 DEF Local, masterVars
<1>3. Wrote(values)
  BY <1>1, WriteStep DEF Awaited, BfmInv, SchedulerInv, Signals
<1>4. DriverStep(at, on)
  BY <1>2, <1>3 DEF DriverStep, Wrote, Signals
<1>5. wire'.req_ready \in BOOLEAN /\ wire'.resp_valid \in BOOLEAN
  BY <1>3 DEF Wrote, Signals, BfmInv, MasterInv
<1>6. DOMAIN values = {"req_ready"} => wire'.resp_valid = wire.resp_valid
                                       /\ wire'.resp = wire.resp
  BY <1>3 DEF Wrote, Signals
<1>7. QED
  BY <1>3, <1>4, <1>5, <1>6, DriverMoves DEF Commits

LEMMA SendStep ==
  ASSUME BfmInv, Send, UNCHANGED <<seen, transactions, masterVars>>
  PROVE  BfmInv'
<1>1. /\ "driver" \in due /\ task["driver"].at = "send" /\ queue' = queue
      /\ Await("driver", "hold", "AfterEdge")
  BY DEF Send, Runs
<1>2. Answering /\ slot = "after"
  BY <1>1, DriverAt
<1> DEFINE values == Updated(Head(queue), [resp_valid |-> TRUE])
<1>3. Write(values)
  BY DEF Send
<1>4. /\ DOMAIN values = {"resp", "resp_valid"}
      /\ values.resp = Answer[Last(requests)] /\ values.resp_valid = TRUE
  <2>1. Head(queue) = [resp |-> Answer[Last(requests)]]
    BY <1>2 DEF Answering, Response
  <2>2. QED
    BY <2>1 DEF Updated
<1> HIDE DEF values
<1>5. DriverMoved("hold", "AfterEdge") /\ Wrote(values)
  BY <1>1, <1>2, <1>3, <1>4, DriverWrites
<1>6. /\ wire'.resp = Answer[Last(requests)] /\ wire'.resp_valid
      /\ wire'.req_ready = wire.req_ready
  BY <1>4, <1>5 DEF Wrote, Signals
<1>7. Holding'
  BY <1>1, <1>2, <1>5, <1>6 DEF Answering, Holding, DriverMoved, BfmInv, MasterInv
<1>8. QED
  BY <1>5, <1>7 DEF DriverMoved, BfmInv, DriverInv

LEMMA HoldStep ==
  ASSUME BfmInv, Hold, UNCHANGED <<seen, transactions, masterVars>>
  PROVE  BfmInv'
<1>1. /\ "driver" \in due /\ task["driver"].at = "hold" /\ queue' = Tail(queue)
      /\ Await("driver", "get", "now") /\ Write([resp_valid |-> FALSE])
  BY DEF Hold, Runs
<1>2. Holding /\ slot = "after" /\ ~busy
  BY <1>1, DriverAt
<1>3. DriverMoved("get", "now") /\ Wrote([resp_valid |-> FALSE])
  BY <1>1, <1>2, DriverWrites
<1>4. ~wire'.resp_valid /\ wire'.req_ready = wire.req_ready
  BY <1>3 DEF Wrote, Signals
<1>5. queue' = <<>>
  BY <1>1, <1>2 DEF Holding
<1>6. Idling'
  BY <1>2, <1>3, <1>4, <1>5 DEF Holding, Idling, DriverMoved, Commits
<1>7. QED
  BY <1>3, <1>6 DEF DriverMoved, BfmInv, DriverInv

LEMMA DriveReadyStep ==
  ASSUME BfmInv, drive_ready, UNCHANGED <<seen, transactions, masterVars>>
  PROVE  BfmInv'
<1>1. /\ "driver" \in due /\ task["driver"].at = "drive_ready" /\ queue' = Tail(queue)
      /\ Await("driver", "get", "now") /\ Write(Head(queue))
  BY DEF drive_ready, Runs
<1>2. (Raising \/ Refusing) /\ slot = "edge"
  BY <1>1, DriverAt
<1>3. ~wire.req_valid
  <2>1. Raising => ~busy
    BY DEF Raising, BfmInv, MasterInv
  <2>2. ~NewRequest("req_monitor")
    BY <1>2, <2>1 DEF Refusing, BfmInv, MonitorInv, PresentedInv
  <2>3. QED
    BY <1>2, <2>2 DEF NewRequest, Unsampled
<1>4. PICK v \in BOOLEAN : /\ queue = <<AssertReady(v)>> /\ ~wire.resp_valid
                           /\ ~busy => v
                           /\ busy => Last(requests) \in Refused
  <2>1. CASE Raising
    <3>1. ~busy
      BY <2>1 DEF Raising, BfmInv, MasterInv
    <3>2. QED
      BY <2>1, <3>1 DEF Raising
  <2>2. CASE Refusing
    BY <2>2 DEF Refusing
  <2>3. QED
    BY <1>2, <2>1, <2>2
<1>5. Write([req_ready |-> v]) /\ queue' = <<>>
  BY <1>1, <1>4 DEF AssertReady
<1>6. DriverMoved("get", "now") /\ Wrote([req_ready |-> v])
  BY <1>1, <1>2, <1>3, <1>5, DriverWrites
<1>7. wire'.req_ready = v /\ wire'.resp_valid = wire.resp_valid
  BY <1>6 DEF Wrote, Signals
<1>8. Idling'
  BY <1>2, <1>4, <1>5, <1>6, <1>7 DEF Idling, DriverMoved, Commits
<1>9. QED
  BY <1>6, <1>8 DEF DriverMoved, BfmInv, DriverInv

LEMMA DriverActs == ASSUME BfmInv, driver PROVE BfmInv'
BY GetStep, WaitStep, SendStep, HoldStep, DriveReadyStep DEF driver

----------------------------------------------------------------------------
(* Time.                                                                   *)

\* The coroutines of the new slot are those whose trigger fires.
LEMMA TickStep ==
  ASSUME SchedulerInv, Tick
  PROVE  /\ due = {} /\ task' = task /\ slot' = NextSlot[slot] /\ due' \subseteq Coroutines
         /\ \A c \in Coroutines : \A a, o : At(c, a, o)' <=> At(c, a, o)
         /\ \A c \in Coroutines : \A a, o : At(c, a, o) => (c \in due' <=> slot' \in Fires[o])
<1>1. /\ due = {} /\ task' = task /\ slot' = NextSlot[slot]
      /\ due' = {c \in Coroutines : slot' \in Fires[task[c].on]}
  BY DEF Tick, SchedulerInv
<1>2. \A c \in Coroutines : \A a, o : At(c, a, o) => task[c].on = o
  BY DEF At, Task
<1>3. QED
  BY <1>1, <1>2 DEF At

LEMMA NextSlotOf ==
  /\ NextSlot["before"] = "edge" /\ NextSlot["edge"] = "settled"
  /\ NextSlot["settled"] = "after" /\ NextSlot["after"] = "low" /\ NextSlot["low"] = "before"
BY DEF NextSlot

LEMMA FiresIn ==
  /\ Fires["RisingEdge"] = {"edge"} /\ Fires["Sample"] = {"settled"}
  /\ Fires["NextTimeStep"] = {"before", "after"} /\ Fires["AfterEdge"] = {"after"}
  /\ Fires["event"] = {}
BY DEF Fires

\* Which coroutines run next.
LEMMA TickDue ==
  ASSUME SchedulerInv, Tick
  PROVE  /\ "reset" \in due' => slot' = "edge" /\ ~At("reset", "done", "event")
         /\ \A m \in {"req_monitor", "full_monitor"} : m \in due' <=> slot' = "settled"
<1>1. \A c \in Coroutines : \A a, o : At(c, a, o) => (c \in due' <=> slot' \in Fires[o])
  BY TickStep
<1>2. \/ \E a : At("reset", a, "RisingEdge") /\ ~At("reset", "done", "event")
      \/ At("reset", "done", "event")
  BY DEF SchedulerInv
<1>3. \A m \in {"req_monitor", "full_monitor"} : \E a : At(m, a, "Sample")
  BY DEF SchedulerInv
<1>4. QED
  BY <1>1, <1>2, <1>3, FiresIn DEF Coroutines

LEMMA PassStep ==
  ASSUME BfmInv, Pass, UNCHANGED <<benchVars, masterVars>>
  PROVE  BfmInv'
<1>1. /\ due = {} /\ task' = task /\ slot' = NextSlot[slot] /\ due' \subseteq Coroutines
      /\ \A c \in Coroutines : \A a, o : At(c, a, o)' <=> At(c, a, o)
      /\ \A c \in Coroutines : \A a, o : At(c, a, o) => (c \in due' <=> slot' \in Fires[o])
  BY TickStep DEF Pass, BfmInv
<1>2. \/ slot = "edge" /\ slot' = "settled"
      \/ slot = "settled" /\ slot' = "after"
      \/ slot = "after" /\ slot' = "low"
      \/ slot = "low" /\ slot' = "before"
  <2>1. slot \in {"before", "edge", "settled", "after", "low"}
    BY DEF BfmInv, SchedulerInv, NextSlot
  <2>2. slot # "before"
    BY DEF Pass
  <2>3. QED
    BY <1>1, <2>1, <2>2, NextSlotOf
<1>3. SignalsKept /\ DOMAIN bus' = Signals /\ writes' = <<>>
  BY PassSignals DEF BfmInv
<1>4. /\ "reset" \in due' => slot' = "edge" /\ ~At("reset", "done", "event")
      /\ \A m \in {"req_monitor", "full_monitor"} : m \in due' <=> slot' = "settled"
  BY TickDue DEF Pass, BfmInv
<1>5. UNCHANGED <<queue, seen, transactions, busy, requests, responses>>
  BY DEF benchVars, masterVars
<1>6. SchedulerInv'
  <2>1. slot' \in DOMAIN NextSlot
    BY <1>2 DEF NextSlot
  <2>2. DOMAIN writes' = {}
    BY <1>3
  <2>3. \A a, o : /\ At("reset", a, o)' <=> At("reset", a, o)
                  /\ At("req_monitor", a, o)' <=> At("req_monitor", a, o)
                  /\ At("full_monitor", a, o)' <=> At("full_monitor", a, o)
    BY <1>1 DEF Coroutines
  <2>4. QED
    BY <1>1, <1>3, <1>4, <2>1, <2>2, <2>3 DEF BfmInv, SchedulerInv
<1>7. MasterInv'
  BY <1>1, <1>3, <1>5, SameMaster DEF Coroutines, BfmInv, MasterInv
<1>8. \A m \in {"req_monitor", "full_monitor"} : Unsampled(m)' <=> Unsampled(m)
  BY <1>1, <1>2, <1>4 DEF Unsampled
<1>9. NewRequest("req_monitor")' <=> NewRequest("req_monitor")
  BY <1>3, <1>8 DEF NewRequest, SignalsKept, Signals
<1>10. MonitorInv'
  <2>1. Unnoticed
    BY <1>1, <1>3, <1>5, <1>8, <1>9 DEF Unnoticed, SignalsKept, Signals
  <2>2. QED
    BY <1>5, <1>9, <2>1, UnnoticedMonitors DEF BfmInv
<1>11. DriverInv'
  <2>1. /\ wire'.req_ready = wire.req_ready /\ wire'.resp_valid = wire.resp_valid
        /\ wire'.resp = wire.resp /\ Last(requests)' = Last(requests)
    BY <1>3, <1>5 DEF SignalsKept, Signals, Last
  <2>2. /\ \A a, o : /\ At("reset", a, o)' <=> At("reset", a, o)
                     /\ At("driver", a, o)' <=> At("driver", a, o)
                     /\ At("driver", a, o) => ("driver" \in due' <=> slot' \in Fires[o])
    BY <1>1 DEF Coroutines
  <2>3. ~Booting
    BY <1>1 DEF Booting
  <2>4. CASE Raising
    <3>1. slot = "low" /\ slot' = "before" /\ "driver" \notin due'
      BY <1>1, <1>2, <2>2, <2>4, FiresIn DEF Raising, Pass
    <3>2. Raising'
      BY <1>5, <2>1, <2>2, <2>4, <3>1 DEF Raising
    <3>3. QED
      BY <3>2 DEF DriverInv
  <2>5. CASE Idling
    <3>1. At("driver", "get", "event") /\ "driver" \notin due'
      BY <1>1, <2>2, <2>5, FiresIn DEF Idling
    <3>2. Idling'
      BY <1>5, <1>9, <2>1, <2>2, <2>5, <3>1 DEF Idling
    <3>3. QED
      BY <3>2 DEF DriverInv
  <2>6. CASE Answering
    <3>1. /\ At("driver", "send", "NextTimeStep") /\ slot = "settled" /\ slot' = "after"
          /\ "driver" \in due'
      BY <1>1, <1>2, <2>2, <2>6, FiresIn DEF Answering
    <3>2. Answering'
      BY <1>5, <1>9, <2>1, <2>2, <2>6, <3>1 DEF Answering
    <3>3. QED
      BY <3>2 DEF DriverInv
  <2>7. CASE Holding
    <3>1. "driver" \in due' <=> slot' = "after"
      BY <2>2, <2>7, FiresIn DEF Holding
    <3>2. IF busy THEN slot' \in {"low", "before"} ELSE slot' \in {"settled", "after"}
      BY <1>1, <1>2, <2>7 DEF Holding, Pass
    <3>3. Holding'
      BY <1>5, <2>1, <2>2, <2>7, <3>1, <3>2 DEF Holding
    <3>4. QED
      BY <3>3 DEF DriverInv
  <2>8. CASE Refusing
    <3>1. At("driver", "drive_ready", "RisingEdge") /\ "driver" \notin due' /\ slot' # "edge"
      BY <1>1, <1>2, <2>2, <2>8, FiresIn DEF Refusing
    <3>2. Refusing'
      BY <1>5, <1>9, <2>1, <2>2, <2>8, <3>1 DEF Refusing
    <3>3. QED
      BY <3>2 DEF DriverInv
  <2>9. QED
    BY <2>3, <2>4, <2>5, <2>6, <2>7, <2>8 DEF BfmInv, DriverInv
<1>12. QED
  BY <1>6, <1>7, <1>10, <1>11 DEF BfmInv

----------------------------------------------------------------------------
(* The circuit.                                                            *)

LEMMA AppendSecond ==
  ASSUME NEW x, NEW y
  PROVE  Append(<<x>>, y) = <<x, y>>
<1> DEFINE S == {x, y}
           s == Append(<<x>>, y)
<1>1. <<x>> \in Seq(S) /\ Len(<<x>>) = 1 /\ <<x>>[1] = x /\ y \in S
  OBVIOUS
<1>2. <<x, y>> \in Seq(S) /\ Len(<<x, y>>) = 2 /\ <<x, y>>[1] = x /\ <<x, y>>[2] = y
  OBVIOUS
<1> HIDE DEF S
<1>3. s \in Seq(S) /\ Len(s) = 2 /\ s[1] = x /\ s[2] = y
  BY ONLY <1>1
<1> HIDE DEF s
<1>4. \A i \in 1 .. 2 : s[i] = <<x, y>>[i]
  <2>1. \A i \in 1 .. 2 : i = 1 \/ i = 2
    OBVIOUS
  <2>2. QED
    BY ONLY <1>2, <1>3, <2>1
<1>5. s = <<x, y>>
  BY ONLY <1>2, <1>3, <1>4, SeqEqual
<1>6. QED
  BY <1>5 DEF s

\* What the full monitor is to have after the next request.
LEMMA ExchangedRequest ==
  ASSUME NEW D, requests \in Seq(D), NEW n \in Nat, Len(requests) = n,
         DOMAIN responses = 1 .. n, responses' = responses,
         NEW r \in D, requests' = Append(requests, r)
  PROVE  Append(Exchanged, <<r>>) = Exchanged'
<1> DEFINE E == {Exchanged[k] : k \in 1 .. n}
<1>1. DOMAIN requests = 1 .. n
  OBVIOUS
<1>2. /\ DOMAIN requests' = 1 .. n + 1 /\ requests'[n + 1] = r
      /\ \A k \in 1 .. n : requests'[k] = requests[k]
  BY <1>1
<1>3. /\ Exchanged = [k \in 1 .. n |-> <<requests[k], responses[k]>>]
      /\ Exchanged' = [k \in 1 .. n + 1 |-> IF k \in 1 .. n THEN <<requests'[k], responses[k]>>
                                                            ELSE <<requests'[k]>>]
  BY <1>1, <1>2 DEF Exchanged
<1> HIDE DEF Exchanged
<1>4. Exchanged \in [1 .. n -> E]
  BY <1>3
<1> HIDE DEF E
<1>5. Exchanged \in Seq(E) /\ Len(Exchanged) = n
  BY ONLY <1>4
<1> DEFINE A == Append(Exchanged, <<r>>)
<1>6. /\ A = [k \in 1 .. n + 1 |-> IF k = n + 1 THEN <<r>> ELSE Exchanged[k]]
  BY ONLY <1>5, n \in Nat
<1> HIDE DEF A
<1>7. \A k \in 1 .. n + 1 : A[k] = Exchanged'[k]
  <2>1. ASSUME NEW k \in 1 .. n PROVE A[k] = Exchanged'[k]
    <3>1. k \in 1 .. n + 1 /\ k # n + 1
      BY n \in Nat
    <3>2. A[k] = Exchanged[k]
      BY <1>6, <3>1
    <3>3. Exchanged[k] = <<requests[k], responses[k]>>
      BY <1>3
    <3>4. Exchanged'[k] = <<requests'[k], responses[k]>>
      BY <1>3, <3>1
    <3>5. requests'[k] = requests[k]
      BY <1>2
    <3>6. QED
      BY <3>2, <3>3, <3>4, <3>5
  <2>2. A[n + 1] = <<r>> /\ Exchanged'[n + 1] = <<r>>
    BY <1>2, <1>3, <1>6, n \in Nat
  <2>3. QED
    BY <2>1, <2>2, n \in Nat
<1>8. QED
  BY <1>3, <1>6, <1>7 DEF A

\* And after the next response.
LEMMA ExchangedResponse ==
  ASSUME NEW D, requests \in Seq(D), requests' = requests,
         NEW R, responses \in Seq(R), NEW a \in R,
         Len(requests) = Len(responses) + 1, responses' = Append(responses, a)
  PROVE  [Exchanged EXCEPT ![Len(Exchanged)] = Append(@, a)] = Exchanged'
<1> DEFINE n == Len(responses)
           E == {Exchanged[k] : k \in 1 .. n + 1}
<1>1. n \in Nat /\ DOMAIN requests = 1 .. n + 1 /\ DOMAIN responses = 1 .. n
  OBVIOUS
<1>2. /\ DOMAIN responses' = 1 .. n + 1 /\ responses'[n + 1] = a
      /\ \A k \in 1 .. n : responses'[k] = responses[k]
  BY <1>1
<1> HIDE DEF n
<1>3. /\ Exchanged = [k \in 1 .. n + 1 |-> IF k \in 1 .. n THEN <<requests[k], responses[k]>>
                                                          ELSE <<requests[k]>>]
      /\ Exchanged' = [k \in 1 .. n + 1 |-> <<requests[k], responses'[k]>>]
  BY <1>1, <1>2 DEF Exchanged
<1> HIDE DEF Exchanged
<1>4. Exchanged \in [1 .. n + 1 -> E]
  BY <1>3
<1> HIDE DEF E
<1>5. Exchanged \in Seq(E) /\ Len(Exchanged) = n + 1
  BY ONLY <1>1, <1>4
<1>6. Exchanged[n + 1] = <<requests[n + 1]>>
  BY <1>1, <1>3
<1>7. Append(Exchanged[n + 1], a) = <<requests[n + 1], a>>
  BY <1>6, AppendSecond
<1> DEFINE A == [Exchanged EXCEPT ![Len(Exchanged)] = Append(@, a)]
<1>8. A = [k \in 1 .. n + 1 |-> IF k = n + 1 THEN <<requests[n + 1], a>> ELSE Exchanged[k]]
  BY ONLY <1>1, <1>4, <1>5, <1>7
<1> HIDE DEF A
<1>9. \A k \in 1 .. n + 1 : A[k] = Exchanged'[k]
  <2>1. ASSUME NEW k \in 1 .. n PROVE A[k] = Exchanged'[k]
    <3>1. k \in 1 .. n + 1 /\ k # n + 1
      BY <1>1
    <3>2. A[k] = Exchanged[k]
      BY <1>8, <3>1
    <3>3. Exchanged[k] = <<requests[k], responses[k]>>
      BY <1>3, <3>1
    <3>4. Exchanged'[k] = <<requests[k], responses'[k]>>
      BY <1>3, <3>1
    <3>5. responses'[k] = responses[k]
      BY <1>2
    <3>6. QED
      BY <3>2, <3>3, <3>4, <3>5
  <2>2. A[n + 1] = <<requests[n + 1], a>> /\ Exchanged'[n + 1] = <<requests[n + 1], a>>
    BY <1>1, <1>2, <1>3, <1>8
  <2>3. n \in Nat
    BY <1>1
  <2>4. QED
    BY ONLY <2>1, <2>2, <2>3
<1>10. QED
  BY <1>3, <1>8, <1>9 DEF A

\* At a rising edge no write is pending, and the monitors have seen everything.
SeenAll == /\ requests = seen /\ transactions = Exchanged
           /\ At("full_monitor", IF busy THEN "response" ELSE "request", "Sample")

LEMMA BeforeEdge ==
  ASSUME BfmInv, slot = "before", due \subseteq {}
  PROVE  /\ writes = <<>> /\ SeenAll
         /\ ~NewRequest("req_monitor")
         /\ \A s \in Sampled, x \in Signals : s[x] = bus[x] /\ s[x] = wire[x]
<1>1. writes = <<>>
  BY DEF BfmInv, SchedulerInv, Commits
<1>2. \A x \in Signals : wire[x] = bus[x]
  BY <1>1, WireValues DEF BfmInv, SchedulerInv
<1>3. \A m : ~NewRequest(m) /\ ~NewResponse(m)
  BY DEF NewRequest, NewResponse, Unsampled
<1>4. SeenAll
  BY <1>3 DEF BfmInv, MonitorInv, SeenInv, PairedInv, SeenAll
<1>5. QED
  BY <1>1, <1>2, <1>3, <1>4 DEF Sampled, wire

\* What a rising edge does besides the circuit's own writes.
Edge ==
  /\ slot = "before" /\ due = {} /\ slot' = "edge" /\ bus' = bus
  /\ UNCHANGED <<queue, seen, transactions>>
  /\ due' \subseteq Coroutines
  /\ \A m \in {"req_monitor", "full_monitor"} : m \notin due'
  /\ \A c \in Coroutines : \A a, o : At(c, a, o)' <=> At(c, a, o)
  /\ \A c \in Coroutines : \A a, o : At(c, a, o) => (c \in due' <=> "edge" \in Fires[o])
  /\ \A x \in Signals \ {"req_valid", "req"} : wire'[x] = wire[x]

LEMMA EdgeStep ==
  ASSUME BfmInv, Clock,
         NEW values, DOMAIN values \subseteq {"req_valid", "req"}, Write(values)
  PROVE  Edge /\ SchedulerInv' /\ Wrote(values)
<1>1. RisingEdge /\ Tick /\ slot = "before" /\ bus' = bus /\ UNCHANGED benchVars
  BY DEF Clock, RisingEdge
<1>2. /\ due = {} /\ task' = task /\ slot' = NextSlot[slot] /\ due' \subseteq Coroutines
      /\ \A c \in Coroutines : \A a, o : At(c, a, o)' <=> At(c, a, o)
      /\ \A c \in Coroutines : \A a, o : At(c, a, o) => (c \in due' <=> slot' \in Fires[o])
  BY <1>1, TickStep DEF BfmInv
<1>3. slot' = "edge"
  BY <1>1, <1>2, NextSlotOf
<1>4. /\ "reset" \in due' => ~At("reset", "done", "event")
      /\ \A m \in {"req_monitor", "full_monitor"} : m \notin due'
  BY <1>1, <1>3, TickDue DEF BfmInv
<1>5. Wrote(values)
  BY <1>1, WriteStep DEF BfmInv, SchedulerInv, Signals
<1>6. SchedulerInv'
  <2>1. slot' \in DOMAIN NextSlot
    BY <1>3 DEF NextSlot
  <2>2. \A a, o : /\ At("reset", a, o)' <=> At("reset", a, o)
                  /\ At("req_monitor", a, o)' <=> At("req_monitor", a, o)
                  /\ At("full_monitor", a, o)' <=> At("full_monitor", a, o)
    BY <1>2 DEF Coroutines
  <2>3. DOMAIN task' = Coroutines /\ DOMAIN bus' = Signals
    BY <1>1, <1>2 DEF BfmInv, SchedulerInv
  <2>4. Commits'
    BY <1>3 DEF Commits
  <2>5. QED
    BY <1>2, <1>3, <1>4, <1>5, <2>1, <2>2, <2>3, <2>4 DEF BfmInv, SchedulerInv, Wrote
<1>7. \A x \in Signals \ {"req_valid", "req"} : wire'[x] = wire[x]
  BY <1>5 DEF Wrote
<1>8. QED
  BY <1>1, <1>2, <1>3, <1>4, <1>5, <1>6, <1>7 DEF Edge, benchVars

\* The circuit takes an answer, when there is one.
LEMMA IdleEdge ==
  ASSUME BfmInv, Clock, NEW s \in Sampled, Idles(s),
         responses' = IF s.reset_n /\ s.resp_valid THEN Append(responses, s.resp) ELSE responses
  PROVE  BfmInv'
<1>1. Write([req_valid |-> FALSE])
  BY DEF Idles
<1>2. Edge /\ SchedulerInv' /\ Wrote([req_valid |-> FALSE])
  BY <1>1, EdgeStep
<1>3. /\ wire'.reset_n = wire.reset_n /\ wire'.req_ready = wire.req_ready
      /\ wire'.resp_valid = wire.resp_valid /\ wire'.resp = wire.resp
      /\ wire'.resp_ready = wire.resp_ready
  BY <1>2 DEF Edge, Signals
<1>4. ~wire'.req_valid /\ wire'.req_valid \in BOOLEAN /\ wire'.req = wire.req
  BY <1>2 DEF Wrote, Signals
<1>5. /\ writes = <<>> /\ SeenAll /\ ~NewRequest("req_monitor")
      /\ s.reset_n = wire.reset_n /\ s.resp_valid = wire.resp_valid /\ s.resp = wire.resp
  BY <1>2, BeforeEdge DEF Edge, Signals
<1>6. \A a, o : /\ At("reset", a, o)' <=> At("reset", a, o)
                /\ At("driver", a, o)' <=> At("driver", a, o)
                /\ At("full_monitor", a, o)' <=> At("full_monitor", a, o)
                /\ At("driver", a, o) => ("driver" \in due' <=> "edge" \in Fires[o])
                /\ At("reset", a, o) => ("reset" \in due' <=> "edge" \in Fires[o])
  BY <1>2 DEF Edge, Coroutines
<1>7. \A m : ~NewRequest(m)'
  BY <1>4 DEF NewRequest
<1>8. NewResponse("full_monitor")' <=> wire.resp_valid
  BY <1>2, <1>3 DEF NewResponse, Unsampled, Edge
<1>9. UNCHANGED <<seen, queue, transactions, requests>> /\ Last(requests)' = Last(requests)
  BY <1>2 DEF Edge, Idles, Last
<1>10. slot = "before" /\ slot' = "edge" /\ due = {}
  BY <1>2 DEF Edge
<1>11. busy => wire.reset_n
  BY DEF BfmInv, MasterInv
<1>12. CASE wire.resp_valid
  <2>1. Holding /\ busy
    BY <1>10, <1>12 DEF BfmInv, DriverInv, Booting, Raising, Idling, Answering, Holding, Refusing
  <2> DEFINE a == Answer[Last(requests)]
  <2>2. ~busy' /\ wire.resp = a /\ responses' = Append(responses, a)
    BY <1>5, <1>11, <1>12, <2>1 DEF Idles, Holding
  <2>3. /\ requests \in Seq(DOMAIN Answer) /\ requests # <<>>
        /\ responses \in Seq({Answer[r] : r \in DOMAIN Answer})
        /\ Len(requests) = Len(responses) + 1
    BY <2>1 DEF BfmInv, MasterInv, Holding
  <2>4. a \in {Answer[r] : r \in DOMAIN Answer}
    <3>1. Last(requests) \in DOMAIN Answer
      BY <2>3 DEF Last
    <3>2. QED
      BY <3>1
  <2> HIDE DEF a
  <2>5. /\ responses' \in Seq({Answer[r] : r \in DOMAIN Answer})
        /\ Len(responses') = Len(requests) /\ Last(responses)' = a
    BY <2>2, <2>3, <2>4 DEF Last
  <2>6. MasterInv'
    <3>1. Len(requests') = Len(responses') + (IF busy' THEN 1 ELSE 0) /\ busy' \in BOOLEAN
      <4>1. requests' = requests /\ Len(requests) \in Nat /\ Len(responses') \in Nat
        BY <1>9, <2>3, <2>5
      <4>2. (IF busy' THEN 1 ELSE 0) = 0
        BY <2>2
      <4>3. busy' \in BOOLEAN
        BY <1>5, <1>11, <2>1, <2>2 DEF Idles
      <4>4. Len(requests') = Len(responses') + (IF busy' THEN 1 ELSE 0)
        BY ONLY <2>5, <4>1, <4>2
      <4>5. QED
        BY <4>3, <4>4
    <3>2. requests' = requests /\ seen' = seen
      BY <1>9
    <3>3. QED
      BY <1>3, <1>4, <1>6, <2>5, <3>1, <3>2 DEF BfmInv, MasterInv
  <2>7. [transactions EXCEPT ![Len(transactions)] = Append(@, a)] = Exchanged'
    BY <1>5, <1>9, <2>2, <2>3, <2>4, ExchangedResponse DEF SeenAll
  <2>8. MonitorInv'
    <3>1. PresentedInv'
      BY <1>3, <1>7, <2>2, <2>5 DEF PresentedInv
    <3>2. SeenInv'
      BY <1>5, <1>7, <1>9 DEF SeenInv, SeenAll
    <3>3. At("full_monitor", "response", "Sample")'
      BY <1>5, <1>6, <2>1 DEF SeenAll
    <3>4. transactions' = transactions /\ wire'.resp = a
      BY <1>3, <1>9, <2>2
    <3>5. [transactions' EXCEPT ![Len(transactions')] = Append(@, wire'.resp)] = Exchanged'
      BY <2>7, <3>4
    <3>6. PairedInv'
      BY <1>7, <1>8, <1>12, <3>3, <3>5 DEF PairedInv
    <3>7. QED
      BY <3>1, <3>2, <3>6 DEF MonitorInv
  <2>9. Holding'
    BY <1>3, <1>6, <1>9, <1>10, <1>12, <2>1, <2>2, FiresIn DEF Holding
  <2>10. QED
    BY <1>2, <2>6, <2>8, <2>9 DEF BfmInv, DriverInv
<1>13. CASE ~wire.resp_valid
  <2>1. (busy' <=> busy) /\ busy' \in BOOLEAN /\ responses' = responses
    BY <1>5, <1>11, <1>13 DEF Idles, BfmInv, MasterInv
  <2>2. MasterInv'
    BY <1>3, <1>4, <1>6, <1>9, <2>1 DEF BfmInv, MasterInv
  <2>3. Exchanged' = Exchanged
    BY <1>9, <2>1 DEF Exchanged
  <2>4. MonitorInv'
    <3>1. PresentedInv'
      BY <1>7, <1>8, <1>13 DEF PresentedInv
    <3>2. SeenInv'
      BY <1>5, <1>7, <1>9 DEF SeenInv, SeenAll
    <3>3. At("full_monitor", IF busy THEN "response" ELSE "request", "Sample")'
      BY <1>5, <1>6, <2>1 DEF SeenAll
    <3>4. transactions' = Exchanged'
      BY <1>5, <1>9, <2>3 DEF SeenAll
    <3>5. PairedInv'
      BY <1>7, <1>8, <1>13, <3>3, <3>4 DEF PairedInv
    <3>6. QED
      BY <3>1, <3>2, <3>5 DEF MonitorInv
  <2>5. CASE Raising
    <3>1. Raising'
      BY <1>3, <1>6, <1>9, <1>10, <2>5, FiresIn DEF Raising
    <3>2. QED
      BY <1>2, <2>2, <2>4, <3>1 DEF BfmInv, DriverInv
  <2>6. CASE Idling
    <3>1. At("driver", "get", "event") /\ "driver" \notin due'
      BY <1>6, <1>10, <2>6, FiresIn DEF Idling
    <3>2. Idling'
      BY <1>3, <1>5, <1>6, <1>9, <2>1, <2>6, <3>1 DEF Idling
    <3>3. QED
      BY <1>2, <2>2, <2>4, <3>2 DEF BfmInv, DriverInv
  <2>7. CASE Refusing
    <3>1. At("driver", "drive_ready", "RisingEdge") /\ "driver" \in due'
      BY <1>6, <1>10, <2>7, FiresIn DEF Refusing
    <3>2. Refusing'
      BY <1>3, <1>6, <1>7, <1>9, <1>10, <2>1, <2>7, <3>1 DEF Refusing
    <3>3. QED
      BY <1>2, <2>2, <2>4, <3>2 DEF BfmInv, DriverInv
  <2>8. ~Booting /\ ~Answering /\ ~Holding
    BY <1>10, <1>13 DEF Booting, Answering, Holding
  <2>9. QED
    BY <2>5, <2>6, <2>7, <2>8 DEF BfmInv, DriverInv
<1>14. QED
  BY <1>12, <1>13

\* The circuit requests only when it is neither busy nor answered.
LEMMA RequestEdge ==
  ASSUME BfmInv, Clock, NEW s \in Sampled, Requests(s),
         responses' = IF s.reset_n /\ s.resp_valid THEN Append(responses, s.resp) ELSE responses
  PROVE  BfmInv'
<1>1. PICK r \in DOMAIN Answer : /\ requests' = Append(requests, r)
                                 /\ Write([req_valid |-> TRUE, req |-> r])
  BY DEF Requests
<1>2. Edge /\ SchedulerInv' /\ Wrote([req_valid |-> TRUE, req |-> r])
  BY <1>1, EdgeStep
<1>3. /\ wire'.reset_n = wire.reset_n /\ wire'.req_ready = wire.req_ready
      /\ wire'.resp_valid = wire.resp_valid /\ wire'.resp = wire.resp
      /\ wire'.resp_ready = wire.resp_ready
  BY <1>2 DEF Edge, Signals
<1>4. wire'.req_valid = TRUE /\ wire'.req = r
  BY <1>2 DEF Wrote, Signals
<1>5. slot = "before" /\ slot' = "edge" /\ due = {} /\ UNCHANGED <<seen, queue, transactions>>
  BY <1>2 DEF Edge
<1>6. /\ SeenAll /\ s.reset_n = wire.reset_n /\ s.resp_valid = wire.resp_valid
  BY <1>5, BeforeEdge DEF Signals
<1>7. wire.reset_n /\ ~busy /\ ~wire.resp_valid /\ busy' = TRUE /\ responses' = responses
  BY <1>6 DEF Requests
<1>8. \A a, o : /\ At("reset", a, o)' <=> At("reset", a, o)
                /\ At("driver", a, o)' <=> At("driver", a, o)
                /\ At("full_monitor", a, o)' <=> At("full_monitor", a, o)
                /\ At("driver", a, o) => ("driver" \in due' <=> "edge" \in Fires[o])
  BY <1>2 DEF Edge, Coroutines
<1>9. Idling
  <2>1. At("reset", "done", "event")
    BY <1>7 DEF BfmInv, MasterInv
  <2>2. ~Raising /\ ~Booting
    <3>1. \A a, o : At("reset", a, o) => a = "done"
      BY <2>1 DEF At, Task
    <3>2. QED
      BY <1>5, <3>1 DEF Raising, Booting
  <2>3. QED
    BY <1>7, <2>2 DEF BfmInv, DriverInv, Answering, Holding, Refusing
<1>10. wire.req_ready /\ queue = <<>> /\ At("driver", "get", "event")
  BY <1>5, <1>7, <1>9 DEF Idling
<1>11. /\ requests \in Seq(DOMAIN Answer)
       /\ responses \in Seq({Answer[x] : x \in DOMAIN Answer})
       /\ Len(requests) = Len(responses)
  BY <1>7 DEF BfmInv, MasterInv
<1>12. /\ requests' \in Seq(DOMAIN Answer) /\ Len(requests') = Len(responses) + 1
       /\ Last(requests)' = r
  BY <1>1, <1>11 DEF Last
<1>13. MasterInv'
  BY <1>3, <1>4, <1>5, <1>7, <1>8, <1>11, <1>12 DEF BfmInv, MasterInv
<1>14. Append(transactions, <<r>>) = Exchanged'
  <2>1. Len(responses) \in Nat /\ DOMAIN responses = 1 .. Len(responses)
    BY <1>11
  <2>2. Append(Exchanged, <<r>>) = Exchanged'
    BY <1>1, <1>7, <1>11, <2>1, ExchangedRequest
  <2>3. QED
    BY <1>6, <2>2 DEF SeenAll
<1>15. NewRequest("req_monitor")' /\ NewRequest("full_monitor")'
  BY <1>4, <1>5 DEF NewRequest, Unsampled
<1>16. ~NewResponse("full_monitor")'
  BY <1>3, <1>7 DEF NewResponse
<1>17. MonitorInv'
  <2>1. PresentedInv'
    BY <1>3, <1>4, <1>7, <1>10, <1>12, <1>16 DEF PresentedInv
  <2>2. SeenInv'
    BY <1>1, <1>4, <1>5, <1>6, <1>15 DEF SeenInv, SeenAll
  <2>3. At("full_monitor", "request", "Sample")'
    BY <1>6, <1>7, <1>8 DEF SeenAll
  <2>4. Append(transactions', <<wire'.req>>) = Exchanged'
    BY <1>4, <1>5, <1>14
  <2>5. PairedInv'
    BY <1>15, <1>16, <2>3, <2>4 DEF PairedInv
  <2>6. QED
    BY <2>1, <2>2, <2>5 DEF MonitorInv
<1>18. Idling'
  <2>1. "driver" \notin due'
    BY <1>8, <1>10, FiresIn
  <2>2. QED
    BY <1>3, <1>5, <1>7, <1>8, <1>10, <1>15, <2>1 DEF Idling
<1>19. QED
  BY <1>2, <1>13, <1>17, <1>18 DEF BfmInv, DriverInv

LEMMA ClockStep == ASSUME BfmInv, Clock PROVE BfmInv'
BY IdleEdge, RequestEdge DEF Clock

----------------------------------------------------------------------------
(* The theorems.                                                           *)

LEMMA InitBfmInv == Init => BfmInv
<1> SUFFICES ASSUME Init PROVE BfmInv
  OBVIOUS
<1> DEFINE T == [reset |-> Task("assert", "RisingEdge"), driver |-> Task("get", "now"),
                 req_monitor |-> Task("receive", "Sample"),
                 full_monitor |-> Task("request", "Sample")]
           B(r, v) == [reset_n |-> FALSE, req_valid |-> v, req |-> r, req_ready |-> FALSE,
                       resp_valid |-> FALSE, resp |-> Answer[r], resp_ready |-> TRUE]
<1>1. PICK r \in DOMAIN Answer, v \in BOOLEAN : SimInit(T, B(r, v))
  BY DEF Init
<1>2. /\ queue = <<AssertReady(TRUE)>> /\ seen = <<>> /\ transactions = <<>>
      /\ busy = FALSE /\ requests = <<>> /\ responses = <<>>
  BY DEF Init
<1>3. slot = "low" /\ task = T /\ bus = B(r, v) /\ writes = <<>>
  BY <1>1 DEF SimInit
<1>4. DOMAIN T = Coroutines
  BY DEF Coroutines
<1>5. /\ T["reset"] = Task("assert", "RisingEdge") /\ T["driver"] = Task("get", "now")
      /\ T["req_monitor"] = Task("receive", "Sample") /\ T["full_monitor"] = Task("request", "Sample")
  OBVIOUS
<1>6. /\ DOMAIN bus = Signals /\ DOMAIN writes = {}
  <2>1. DOMAIN B(r, v) = Signals
    BY DEF Signals
  <2>2. QED
    BY <1>3, <2>1
<1>7. /\ bus.reset_n = FALSE /\ bus.req_valid = v /\ bus.req = r /\ bus.req_ready = FALSE
      /\ bus.resp_valid = FALSE /\ bus.resp_ready = TRUE
  BY <1>3
<1> HIDE DEF T, B
<1>8. due = {"driver"}
  <2>1. due = {c \in Coroutines : T[c].on = "now"}
    BY <1>1, <1>4 DEF SimInit
  <2>2. QED
    BY <1>5, <2>1 DEF Coroutines, Task
<1>9. \A x \in Signals : wire[x] = bus[x]
  BY <1>3, <1>6, WireValues
<1>10. /\ wire.reset_n = FALSE /\ wire.req_valid = v /\ wire.req = r /\ wire.req_ready = FALSE
       /\ wire.resp_valid = FALSE /\ wire.resp_ready = TRUE
  BY <1>7, <1>9 DEF Signals
<1>11. /\ At("reset", "assert", "RisingEdge") /\ At("driver", "get", "now")
       /\ At("req_monitor", "receive", "Sample") /\ At("full_monitor", "request", "Sample")
       /\ ~At("reset", "done", "event")
  BY <1>3, <1>5 DEF At, Task
<1>12. SchedulerInv
  BY <1>3, <1>4, <1>6, <1>8, <1>11 DEF SchedulerInv, Coroutines, NextSlot
<1>13. MasterInv
  <2>1. /\ requests \in Seq(DOMAIN Answer) /\ seen \in Seq(DOMAIN Answer)
        /\ responses \in Seq({Answer[x] : x \in DOMAIN Answer})
        /\ Len(requests) = 0 /\ Len(responses) = 0
    BY <1>2
  <2>2. Len(requests) = Len(responses) + (IF busy THEN 1 ELSE 0)
    BY <1>2, <2>1
  <2>3. busy \in BOOLEAN
    BY <1>2
  <2>4. QED
    BY <1>2, <1>10, <1>11, <2>1, <2>2, <2>3 DEF MasterInv
<1>14. MonitorInv
  <2>1. \A m \in {"req_monitor", "full_monitor"} : ~NewRequest(m) /\ ~NewResponse(m)
    BY <1>3, <1>8 DEF NewRequest, NewResponse, Unsampled
  <2>2. Exchanged = <<>>
    BY <1>2 DEF Exchanged
  <2>3. QED
    BY <1>2, <1>11, <2>1, <2>2 DEF MonitorInv, PresentedInv, SeenInv, PairedInv
<1>15. Booting
  BY <1>2, <1>3, <1>8, <1>10, <1>11 DEF Booting
<1>16. QED
  BY <1>12, <1>13, <1>14, <1>15 DEF BfmInv, DriverInv

LEMMA StutterBfmInv == ASSUME BfmInv, UNCHANGED vars PROVE BfmInv'
<1>1. /\ UNCHANGED <<slot, task, due, bus, writes>> /\ UNCHANGED <<queue, seen, transactions>>
      /\ UNCHANGED <<busy, requests, responses>>
  BY DEF vars, simVars, benchVars, masterVars
<1>2. wire' = wire
  BY <1>1 DEF wire
<1>3. \A c, a, o : At(c, a, o)' <=> At(c, a, o)
  BY <1>1 DEF At
<1>4. \A m : (NewRequest(m)' <=> NewRequest(m)) /\ (NewResponse(m)' <=> NewResponse(m))
  BY <1>1, <1>2 DEF NewRequest, NewResponse, Unsampled
<1>5. Exchanged' = Exchanged /\ Last(requests)' = Last(requests) /\ Last(responses)' = Last(responses)
  BY <1>1 DEF Exchanged, Last
<1>6. SchedulerInv'
  BY <1>1, <1>3 DEF BfmInv, SchedulerInv, Commits
<1>7. MasterInv'
  BY <1>1, <1>2, <1>3 DEF BfmInv, MasterInv
<1>8. PresentedInv'
  BY <1>1, <1>2, <1>4, <1>5 DEF BfmInv, MonitorInv, PresentedInv
<1>9. SeenInv'
  BY <1>1, <1>2, <1>4 DEF BfmInv, MonitorInv, SeenInv
<1>10. PairedInv'
  BY <1>1, <1>2, <1>3, <1>4, <1>5 DEF BfmInv, MonitorInv, PairedInv
<1>11. DriverInv'
  BY <1>1, <1>2, <1>3, <1>4, SameDriver DEF BfmInv, SignalsKept
<1>12. QED
  BY <1>6, <1>7, <1>8, <1>9, <1>10, <1>11 DEF BfmInv, MonitorInv

LEMMA StepBfmInv == BfmInv /\ [Next]_vars => BfmInv'
BY ResetStep, ReqMonitorStep, FullMonitorStep, DriverActs, ClockStep, PassStep, StutterBfmInv
   DEF Next

\* The phases of the driver and what the monitors are to sample belong
\* together, in every state of the bus functional models.
THEOREM BfmInvariant == Spec => []BfmInv
BY InitBfmInv, StepBfmInv, PTL DEF Spec

LEMMA BfmInvTypeOK == BfmInv => TypeOK
<1> SUFFICES ASSUME BfmInv PROVE TypeOK
  OBVIOUS
<1>1. SimTypeOK
  <2>1. /\ task["reset"].on \in DOMAIN Fires /\ task["req_monitor"].on \in DOMAIN Fires
        /\ task["full_monitor"].on \in DOMAIN Fires
    BY DEF BfmInv, SchedulerInv, At, Task, Fires
  <2>2. task["driver"].on \in DOMAIN Fires
    <3>1. \A a, o : At("driver", a, o) => task["driver"].on = o
      BY DEF At, Task
    <3>2. {"now", "event", "RisingEdge", "ReadOnly", "NextTimeStep", "AfterEdge"} \subseteq DOMAIN Fires
      BY DEF Fires
    <3>3. QED
      BY <3>1, <3>2 DEF BfmInv, DriverInv, Booting, Raising, Idling, Answering, Holding, Refusing
  <2>3. QED
    BY <2>1, <2>2 DEF BfmInv, SchedulerInv, SimTypeOK, Coroutines
<1>2. queue \in Seq({Response(Answer[r]) : r \in DOMAIN Answer} \cup {AssertReady(v) : v \in BOOLEAN})
  <2> DEFINE Items == {Response(Answer[r]) : r \in DOMAIN Answer} \cup {AssertReady(v) : v \in BOOLEAN}
  <2>1. AssertReady(TRUE) \in Items /\ AssertReady(FALSE) \in Items
    OBVIOUS
  <2>2. requests # <<>> => Response(Answer[Last(requests)]) \in Items
    <3>1. requests # <<>> => Last(requests) \in DOMAIN Answer
      BY DEF BfmInv, MasterInv, Last
    <3>2. QED
      BY <3>1
  <2>3. busy => requests # <<>>
    BY DEF BfmInv, MasterInv
  <2> HIDE DEF Items
  <2>4. queue = <<>> \/ \E item \in Items : queue = <<item>>
    BY <2>1, <2>2, <2>3
       DEF BfmInv, DriverInv, Booting, Raising, Idling, Answering, Holding, Refusing
  <2>5. queue \in Seq(Items)
    <3>1. CASE queue = <<>>
      BY <3>1
    <3>2. CASE \E item \in Items : queue = <<item>>
      <4>1. PICK item \in Items : queue = <<item>>
        BY <3>2
      <4>2. QED
        BY ONLY <4>1
    <3>3. QED
      BY <2>4, <3>1, <3>2
  <2>6. QED
    BY <2>5 DEF Items
<1>3. QED
  BY <1>1, <1>2 DEF TypeOK, BfmInv, MasterInv

\* The coroutines stay within their types: the driver's queue holds only
\* responses to requests and the changes of ready.
THEOREM TypeOKHolds == Spec => []TypeOK
BY BfmInvariant, BfmInvTypeOK, PTL

\* Before each rising edge the request monitor has received all the requests
\* and the full monitor has paired each with its response, in whatever order
\* the coroutines of the time steps ran.
THEOREM ObservedHolds == Spec => []Observed
<1>1. BfmInv => Observed
  <2> SUFFICES ASSUME BfmInv, slot = "before" PROVE seen = requests /\ transactions = Exchanged
    BY DEF Observed
  <2>1. \A m \in {"req_monitor", "full_monitor"} : ~NewRequest(m) /\ ~NewResponse(m)
    BY DEF BfmInv, SchedulerInv, NewRequest, NewResponse, Unsampled
  <2>2. QED
    BY <2>1 DEF BfmInv, MonitorInv, SeenInv, PairedInv
<1>2. QED
  BY <1>1, BfmInvariant, PTL

\* No response is raised or taken back in the time step of a rising edge: with
\* and without the writes that race with the edge the circuit sees the same.
THEOREM NoRaceHolds == Spec => []NoRace
<1>1. BfmInv => NoRace
  <2> SUFFICES ASSUME BfmInv, slot = "before", NEW s \in Sampled
               PROVE  s.resp_valid = bus.resp_valid
    BY DEF NoRace
  <2>1. writes = <<>> /\ DOMAIN bus = Signals
    BY DEF BfmInv, SchedulerInv, Commits
  <2>2. \A x \in Signals : wire[x] = bus[x]
    BY <2>1, WireValues
  <2>3. QED
    BY <2>2 DEF Sampled, wire, Signals
<1>2. QED
  BY <1>1, BfmInvariant, PTL

\* The circuit requests.
LEMMA RequestsChannel ==
  ASSUME BfmInv, Clock, NEW s \in Sampled, Requests(s),
         responses' = IF s.reset_n /\ s.resp_valid THEN Append(responses, s.resp) ELSE responses
  PROVE  Channel!ChannelNext
<1>1. ~s.resp_valid /\ ~busy /\ \E r \in DOMAIN Answer : requests' = Append(requests, r)
  BY DEF Requests
<1>2. Len(requests) = Len(responses) /\ Len(requests) \in Nat
  BY <1>1 DEF BfmInv, MasterInv
<1>3. ~Channel!Waiting
  BY <1>2 DEF Channel!Waiting
<1>4. QED
  BY <1>1, <1>3 DEF Channel!ChannelNext, Channel!Request

\* It takes an answer, the one that it waits for, or none.
LEMMA IdlesChannel ==
  ASSUME BfmInv, Clock, NEW s \in Sampled, Idles(s),
         responses' = IF s.reset_n /\ s.resp_valid THEN Append(responses, s.resp) ELSE responses
  PROVE  Channel!ChannelNext \/ UNCHANGED <<requests, responses>>
<1>1. requests' = requests
  BY DEF Idles
<1>2. CASE ~(s.reset_n /\ s.resp_valid)
  BY <1>1, <1>2
<1>3. CASE s.reset_n /\ s.resp_valid
  <2>1. slot = "before" /\ due = {}
    BY DEF Clock, RisingEdge, Tick
  <2>2. s.resp_valid = wire.resp_valid /\ s.resp = wire.resp
    BY <2>1, BeforeEdge DEF Signals
  <2>3. Holding /\ busy
    BY <1>3, <2>1, <2>2
       DEF BfmInv, DriverInv, Booting, Raising, Idling, Answering, Holding, Refusing
  <2>4. Channel!Waiting
    <3>1. Len(requests) = Len(responses) + 1 /\ Len(responses) \in Nat
      BY <2>3 DEF BfmInv, MasterInv
    <3>2. QED
      BY <3>1 DEF Channel!Waiting
  <2>5. responses' = Append(responses, Answer[Last(requests)]) /\ Last(requests) \notin Refused
    BY <1>3, <2>2, <2>3 DEF Holding
  <2>6. QED
    BY <1>1, <2>4, <2>5 DEF Channel!ChannelNext, Channel!Respond, Last, Channel!Last
<1>4. QED
  BY <1>2, <1>3

LEMMA StepChannel ==
  ASSUME BfmInv, [Next]_vars
  PROVE  [Channel!ChannelNext]_<<requests, responses>>
<1>1. CASE Clock
  BY <1>1, RequestsChannel, IdlesChannel DEF Clock
<1>2. CASE ~Clock
  BY <1>2 DEF Next, vars, masterVars, reset, req_monitor, full_monitor, driver
<1>3. QED
  BY <1>1, <1>2

\* Each request of the circuit is answered at most once, with its own answer
\* and before the next request, and a refused one never: what the circuit sees
\* of the bus functional models are steps of the channel that Channel
\* describes.
THEOREM ChannelSafety ==
  Spec => Channel!ChannelInit /\ [][Channel!ChannelNext]_<<requests, responses>>
<1>1. Init => Channel!ChannelInit
  BY DEF Init, Channel!ChannelInit
<1>2. QED
  BY <1>1, BfmInvariant, StepChannel, PTL DEF Spec

============================================================================
