-------------------------- MODULE EnvironmentProofs -------------------------
(***************************************************************************)
(* Theorems about the programs around a simulation: the UVM environment of *)
(* the Wishbone adapter, for every set of items and every length of the    *)
(* sequence; the bus functional model of Wishbone, for every set of        *)
(* operations and every number of them; and the hex files, for all files   *)
(* that objcopy may write, all section tables and every number of values   *)
(* on a line.  The first two are on Simulator, each with its own           *)
(* coroutines.                                                             *)
(***************************************************************************)
EXTENDS WbAdapter, WishboneBfm, HexFile, SequenceTheorems, WellFoundedInduction, TLAPS

----------------------------------------------------------------------------
(* The inductive invariant.                                                *)

Coroutines == {"driver", "bus_mon", "wb_mon"}
Signals == {"addr_valid", "req_valid", "addr", "data", "cyc", "stb", "adr"}

\* The signals, with what has been written to them.
wire == Updated(bus, writes)

TaskAt(c, at, on) == task[c] = Task(at, on)

\* The monitors run in the settled slot of the rising step, and no write is
\* pending in a settled slot.
SchedulerInv ==
  /\ slot \in DOMAIN NextSlot
  /\ DOMAIN task = Coroutines /\ due \subseteq Coroutines
  /\ DOMAIN bus = Signals /\ DOMAIN writes \subseteq Signals
  /\ slot \in {"settled", "low"} => writes = <<>>
  /\ TaskAt("bus_mon", "receive", "Sample") /\ TaskAt("wb_mon", "receive", "Sample")
  /\ "bus_mon" \in due \/ "wb_mon" \in due => slot = "settled"
  /\ items \in Seq(Items) /\ bus_fifo \in Seq(Items)

\* What the signals show: no item, or one on its channel.
Silent == ~wire.addr_valid /\ ~wire.req_valid

Presents(item) == /\ wire.addr = item.addr
                  /\ IF IsWrite(item) THEN ~wire.addr_valid /\ wire.req_valid
                                           /\ wire.data = item.data
                                      ELSE wire.addr_valid /\ ~wire.req_valid

\* The last item is still to be recorded.
Pending == items # <<>> /\ items = Append(bus_fifo, Last(items))

\* The driver, with the item that it is about.
Getting ==
  /\ TaskAt("driver", "get", "now") /\ "driver" \in due /\ Commits
  /\ Silent /\ bus_fifo = items

Waiting ==
  /\ TaskAt("driver", "wait", "ReadOnly") /\ slot # "before"
  /\ "driver" \in due <=> slot \in {"settled", "low"}
  /\ Silent /\ Pending

Sending ==
  /\ TaskAt("driver", "send", "NextTimeStep") /\ slot # "edge"
  /\ "driver" \in due <=> slot \in {"before", "after"}
  /\ Silent /\ Pending

Holding ==
  /\ TaskAt("driver", "hold", "AfterEdge") /\ items # <<>> /\ Presents(Last(items))
  /\ \/ /\ Pending /\ "driver" \notin due
        /\ slot = "settled" => "bus_mon" \in due
     \/ /\ bus_fifo = items
        /\ \/ slot = "settled" /\ "bus_mon" \notin due /\ "driver" \notin due
           \/ slot = "after" /\ "driver" \in due

Ended == ended /\ bus_fifo = items

DriverInv == ~ended /\ (Getting \/ Waiting \/ Sending \/ Holding)

WbInv == SchedulerInv /\ (Ended \/ DriverInv)

----------------------------------------------------------------------------
(* The simulator's operators.                                              *)

LEMMA UpdatedValues ==
  ASSUME NEW f, NEW g
  PROVE  /\ DOMAIN Updated(f, g) = DOMAIN f \cup DOMAIN g
         /\ \A x \in DOMAIN f \cup DOMAIN g :
              Updated(f, g)[x] = IF x \in DOMAIN g THEN g[x] ELSE f[x]
BY DEF Updated

\* What has been written and takes effect leaves the signals as they will be.
LEMMA WireValues ==
  ASSUME DOMAIN bus = Signals, DOMAIN writes \subseteq Signals
  PROVE  /\ DOMAIN wire = Signals
         /\ \A x \in Signals : wire[x] = IF x \in DOMAIN writes THEN writes[x] ELSE bus[x]
         /\ writes = <<>> => \A x \in Signals : wire[x] = bus[x]
<1>1. wire = Updated(bus, writes)
  BY DEF wire
<1>2. QED
  BY <1>1 DEF Updated

\* A coroutine that runs to its next await.
Awaited(c, at, on) ==
  /\ DOMAIN task' = Coroutines
  /\ task'[c] = Task(at, on)
  /\ \A k \in Coroutines \ {c} : task'[k] = task[k]
  /\ due' = (due \ {c}) \cup (IF on = "now" \/ (on = "ReadOnly" /\ slot \in {"settled", "low"})
                                THEN {c} ELSE {})
  /\ slot' = slot /\ bus' = bus

LEMMA AwaitStep ==
  ASSUME NEW c \in Coroutines, NEW at, NEW on, DOMAIN task = Coroutines, Await(c, at, on)
  PROVE  Awaited(c, at, on)
<1> DEFINE new == [k \in {c} |-> Task(at, on)]
<1>1. /\ task' = Updated(task, new)
      /\ due' = (due \ {c}) \cup {t \in DOMAIN new : GoesOn(new[t])}
      /\ slot' = slot /\ bus' = bus
  BY DEF Await, Continue
<1>2. DOMAIN new = {c} /\ new[c] = Task(at, on)
  OBVIOUS
<1> HIDE DEF new
<1>3. /\ DOMAIN task' = Coroutines /\ task'[c] = Task(at, on)
      /\ \A k \in Coroutines \ {c} : task'[k] = task[k]
  BY <1>1, <1>2 DEF Updated
<1>4. GoesOn(new[c]) <=> on = "now" \/ (on = "ReadOnly" /\ slot \in {"settled", "low"})
  BY <1>2 DEF GoesOn, Task, Fires
<1>5. QED
  BY <1>1, <1>2, <1>3, <1>4 DEF Awaited

\* A write is in the signals at once.
Wrote(values) ==
  /\ DOMAIN writes' \subseteq Signals
  /\ \A x \in Signals : wire'[x] = IF x \in DOMAIN values THEN values[x] ELSE wire[x]

LEMMA WriteStep ==
  ASSUME DOMAIN bus = Signals, DOMAIN writes \subseteq Signals, bus' = bus,
         NEW values, DOMAIN values \subseteq Signals, Write(values)
  PROVE  Wrote(values)
<1>1. writes' = Updated(writes, values)
  BY DEF Write
<1>2. /\ DOMAIN writes' = DOMAIN writes \cup DOMAIN values
      /\ \A x \in DOMAIN writes' : writes'[x] = IF x \in DOMAIN values THEN values[x] ELSE writes[x]
  BY <1>1 DEF Updated
<1>3. /\ wire' = Updated(bus', writes')
      /\ \A x \in Signals : wire'[x] = IF x \in DOMAIN writes' THEN writes'[x] ELSE bus[x]
  <2>1. wire' = Updated(bus', writes')
    BY DEF wire
  <2>2. QED
    BY <1>2, <2>1 DEF Updated
<1>4. QED
  BY <1>2, <1>3, WireValues DEF Wrote

\* What the signals show does not change when they do not.
SignalsKept == \A x \in Signals : wire'[x] = wire[x]

LEMMA UnchangedSignals ==
  ASSUME UNCHANGED <<bus, writes>>
  PROVE  SignalsKept
BY DEF SignalsKept, wire

LEMMA KeptShown ==
  ASSUME SignalsKept, UNCHANGED items
  PROVE  /\ Silent' <=> Silent
         /\ Presents(Last(items))' <=> Presents(Last(items))
<1>1. /\ wire'.addr_valid = wire.addr_valid /\ wire'.req_valid = wire.req_valid
      /\ wire'.addr = wire.addr /\ wire'.data = wire.data
  BY DEF SignalsKept, Signals
<1>2. Last(items)' = Last(items)
  BY DEF Last
<1>3. QED
  BY <1>1, <1>2 DEF Silent, Presents, IsWrite

----------------------------------------------------------------------------
(* The driver.                                                             *)

\* What a step of the driver leaves alone.
Moved(at, on) ==
  /\ SchedulerInv' /\ slot' = slot /\ UNCHANGED bus_fifo
  /\ \A a, o : TaskAt("driver", a, o)' <=> Task(at, on) = Task(a, o)
  /\ "driver" \in due' <=> \/ on = "now"
                           \/ on = "ReadOnly" /\ slot \in {"settled", "low"}
  /\ "bus_mon" \in due' <=> "bus_mon" \in due

LEMMA DriverMoves ==
  ASSUME SchedulerInv, NEW at, NEW on, Await("driver", at, on), UNCHANGED bus_fifo,
         items' \in Seq(Items), DOMAIN writes' \subseteq Signals,
         slot \in {"settled", "low"} => writes' = writes
  PROVE  Moved(at, on)
<1>1. Awaited("driver", at, on)
  BY AwaitStep DEF Coroutines, SchedulerInv
<1>2. /\ DOMAIN task' = Coroutines /\ task'["driver"] = Task(at, on)
      /\ task'["bus_mon"] = task["bus_mon"] /\ task'["wb_mon"] = task["wb_mon"]
      /\ "bus_mon" \in due' <=> "bus_mon" \in due
      /\ "wb_mon" \in due' <=> "wb_mon" \in due
      /\ due' \subseteq Coroutines /\ slot' = slot /\ bus' = bus
      /\ "driver" \in due' <=> \/ on = "now"
                               \/ on = "ReadOnly" /\ slot \in {"settled", "low"}
  BY <1>1 DEF Awaited, Coroutines, SchedulerInv
<1>3. SchedulerInv'
  BY <1>2 DEF SchedulerInv, TaskAt
<1>4. QED
  BY <1>2, <1>3 DEF Moved, TaskAt

\* The coroutine tells the phase of the item.
LEMMA DriverAt ==
  ASSUME WbInv, ~ended, "driver" \in due
  PROVE  /\ task["driver"].at = "get" => Getting
         /\ task["driver"].at = "wait" => Waiting /\ slot \in {"settled", "low"}
         /\ task["driver"].at = "send" => Sending /\ slot \in {"before", "after"}
         /\ task["driver"].at = "hold" => Holding /\ slot = "after" /\ bus_fifo = items
<1>1. \A a, o : TaskAt("driver", a, o) => task["driver"].at = a
  BY DEF TaskAt, Task
<1>2. CASE Getting
  BY <1>1, <1>2 DEF Getting
<1>3. CASE Waiting
  BY <1>1, <1>3 DEF Waiting
<1>4. CASE Sending
  BY <1>1, <1>4 DEF Sending
<1>5. CASE Holding
  BY <1>1, <1>5 DEF Holding
<1>6. QED
  BY <1>2, <1>3, <1>4, <1>5 DEF WbInv, Ended, DriverInv

LEMMA NextItemStep ==
  ASSUME WbInv, ~ended, NEW item \in Items, NextItem(item), UNCHANGED bus_fifo
  PROVE  WbInv'
<1>1. /\ Await("driver", "wait", "ReadOnly") /\ items' = Append(items, item)
      /\ ended' = ended /\ writes' = writes
      /\ "driver" \in due /\ task["driver"].at = "get"
  BY DEF NextItem, Runs
<1>2. Getting
  BY <1>1, DriverAt
<1>3. /\ items' \in Seq(Items) /\ Last(items') = item /\ items' # <<>>
  BY <1>1 DEF WbInv, SchedulerInv, Last
<1>4. Moved("wait", "ReadOnly")
  BY <1>1, <1>3, DriverMoves DEF WbInv, SchedulerInv
<1>5. SignalsKept
  BY <1>1, UnchangedSignals DEF Await, Continue
<1>6. Silent'
  BY <1>2, <1>5 DEF Getting, Silent, SignalsKept, Signals
<1>7. Pending'
  <2>1. Last(items)' = item /\ bus_fifo' = items
    BY <1>2, <1>3 DEF Getting, Last
  <2>2. QED
    BY <1>1, <1>3, <2>1 DEF Pending
<1>8. Waiting'
  BY <1>2, <1>4, <1>6, <1>7 DEF Waiting, Moved, Getting, Commits
<1>9. QED
  BY <1>1, <1>4, <1>8 DEF WbInv, DriverInv, Moved

LEMMA EndStep ==
  ASSUME WbInv, ~ended, EndSequence, UNCHANGED bus_fifo
  PROVE  WbInv'
<1>1. /\ Await("driver", "get", "event") /\ UNCHANGED <<items, writes>> /\ ended' = TRUE
      /\ "driver" \in due /\ task["driver"].at = "get"
  BY DEF EndSequence, Runs
<1>2. Getting
  BY <1>1, DriverAt
<1>3. Moved("get", "event")
  BY <1>1, DriverMoves DEF WbInv, SchedulerInv
<1>4. Ended'
  BY <1>1, <1>2 DEF Getting, Ended
<1>5. QED
  BY <1>3, <1>4 DEF WbInv, Moved

LEMMA WaitStep ==
  ASSUME WbInv, ~ended, wait_for_signal, UNCHANGED bus_fifo
  PROVE  WbInv'
<1>1. /\ Await("driver", "send", "NextTimeStep") /\ UNCHANGED <<items, ended, writes>>
      /\ "driver" \in due /\ task["driver"].at = "wait"
  BY DEF wait_for_signal, Runs
<1>2. Waiting /\ slot \in {"settled", "low"}
  BY <1>1, DriverAt
<1>3. Moved("send", "NextTimeStep")
  BY <1>1, DriverMoves DEF WbInv, SchedulerInv
<1>4. SignalsKept
  BY <1>1, UnchangedSignals DEF Await, Continue
<1>5. Silent' /\ Pending'
  <2>1. Last(items)' = Last(items)
    BY <1>1 DEF Last
  <2>2. QED
    BY <1>1, <1>2, <1>4, <2>1, KeptShown DEF Waiting, Pending
<1>6. Sending'
  BY <1>2, <1>3, <1>5 DEF Sending, Moved
<1>7. QED
  BY <1>1, <1>3, <1>6 DEF WbInv, DriverInv, Moved

LEMMA SendStep ==
  ASSUME WbInv, ~ended, send, UNCHANGED bus_fifo
  PROVE  WbInv'
<1> DEFINE item == Last(items)
           values == Updated(item, valid(item, TRUE))
<1>1. /\ Await("driver", "hold", "AfterEdge") /\ UNCHANGED <<items, ended>> /\ Write(values)
      /\ "driver" \in due /\ task["driver"].at = "send"
  BY DEF send, Runs
<1>2. Sending /\ slot \in {"before", "after"}
  BY <1>1, DriverAt
<1>3. item \in Items
  BY <1>2 DEF Sending, Pending, WbInv, SchedulerInv, Last
<1>4. IF IsWrite(item)
        THEN /\ DOMAIN values = {"addr", "data", "req_valid"}
             /\ values.addr = item.addr /\ values.data = item.data /\ values.req_valid
        ELSE /\ DOMAIN values = {"addr", "addr_valid"}
             /\ values.addr = item.addr /\ values.addr_valid
  <2>1. CASE item = [addr |-> item.addr]
    <3> DEFINE v == valid(item, TRUE)
    <3>1. DOMAIN item = {"addr"} /\ ~IsWrite(item)
      BY <2>1 DEF IsWrite
    <3>2. DOMAIN v = {"addr_valid"} /\ v.addr_valid = TRUE
      BY <3>1 DEF valid
    <3> HIDE DEF item, v
    <3>3. values = Updated(item, v)
      BY DEF item, v
    <3> HIDE DEF values
    <3>4. QED
      BY <3>1, <3>2, <3>3, UpdatedValues
  <2>2. CASE item = [addr |-> item.addr, data |-> item.data]
    <3> DEFINE v == valid(item, TRUE)
    <3>1. DOMAIN item = {"addr", "data"} /\ IsWrite(item)
      BY <2>2 DEF IsWrite
    <3>2. DOMAIN v = {"req_valid"} /\ v.req_valid = TRUE
      BY <3>1 DEF valid
    <3> HIDE DEF item, v
    <3>3. values = Updated(item, v)
      BY DEF item, v
    <3> HIDE DEF values
    <3>4. QED
      BY <3>1, <3>2, <3>3, UpdatedValues
  <2>3. QED
    BY <1>3, <2>1, <2>2, WbAdapterAssumption
<1> HIDE DEF values
<1>5. Wrote(values)
  BY <1>1, <1>4, WriteStep DEF WbInv, SchedulerInv, Signals, Await, Continue
<1>6. Moved("hold", "AfterEdge")
  BY <1>1, <1>2, <1>5, DriverMoves DEF WbInv, SchedulerInv, Wrote
<1>7. Last(items)' = item
  BY <1>1 DEF Last
<1>8. Presents(Last(items))'
  <2>1. wire'.addr = item.addr
    BY <1>4, <1>5 DEF Wrote, Signals
  <2>2. IF IsWrite(item) THEN ~wire'.addr_valid /\ wire'.req_valid /\ wire'.data = item.data
                         ELSE wire'.addr_valid /\ ~wire'.req_valid
    BY <1>2, <1>4, <1>5 DEF Sending, Silent, Wrote, Signals
  <2>3. IsWrite(Last(items))' <=> IsWrite(item)
    BY <1>7 DEF IsWrite
  <2>4. QED
    BY <1>7, <2>1, <2>2, <2>3 DEF Presents
<1>9. Holding'
  BY <1>1, <1>2, <1>6, <1>7, <1>8 DEF Sending, Holding, Pending, Moved
<1>10. QED
  BY <1>1, <1>6, <1>9 DEF WbInv, DriverInv, Moved

LEMMA DoneStep ==
  ASSUME WbInv, ~ended, item_done, UNCHANGED bus_fifo
  PROVE  WbInv'
<1> DEFINE values == valid(Last(items), FALSE)
<1>1. /\ Await("driver", "get", "now") /\ UNCHANGED <<items, ended>> /\ Write(values)
      /\ "driver" \in due /\ task["driver"].at = "hold"
  BY DEF item_done, Runs
<1>2. Holding /\ slot = "after" /\ bus_fifo = items
  BY <1>1, DriverAt
<1>3. IF IsWrite(Last(items)) THEN DOMAIN values = {"req_valid"} /\ ~values.req_valid
                              ELSE DOMAIN values = {"addr_valid"} /\ ~values.addr_valid
  BY DEF valid
<1> HIDE DEF values
<1>4. Wrote(values)
  BY <1>1, <1>3, WriteStep DEF WbInv, SchedulerInv, Signals, Await, Continue
<1>5. Moved("get", "now")
  BY <1>1, <1>2, <1>4, DriverMoves DEF WbInv, SchedulerInv, Wrote
<1>6. Silent'
  BY <1>2, <1>3, <1>4 DEF Holding, Presents, Silent, Wrote, Signals
<1>7. Getting'
  BY <1>1, <1>2, <1>5, <1>6 DEF Getting, Moved, Commits
<1>8. QED
  BY <1>1, <1>5, <1>7 DEF WbInv, DriverInv, Moved

LEMMA DriverStep == ASSUME WbInv, ~ended, driver PROVE WbInv'
BY NextItemStep, EndStep, WaitStep, SendStep, DoneStep DEF driver

----------------------------------------------------------------------------
(* The monitors.                                                           *)

\* A monitor runs to its next sample.
LEMMA MonitorMoves ==
  ASSUME WbInv, NEW m \in {"bus_mon", "wb_mon"}, Await(m, "receive", "Sample"),
         UNCHANGED <<items, writes>>, bus_fifo' \in Seq(Items)
  PROVE  /\ SchedulerInv' /\ slot' = slot /\ SignalsKept
         /\ due' = due \ {m}
         /\ \A a, o : TaskAt("driver", a, o)' <=> TaskAt("driver", a, o)
         /\ Last(items)' = Last(items)
<1>1. Awaited(m, "receive", "Sample")
  BY AwaitStep DEF Coroutines, WbInv, SchedulerInv
<1>2. /\ DOMAIN task' = Coroutines /\ \A c \in Coroutines : task'[c] = task[c]
      /\ due' = due \ {m} /\ slot' = slot /\ bus' = bus
  BY <1>1 DEF Awaited, WbInv, SchedulerInv, TaskAt
<1>3. SchedulerInv'
  BY <1>2 DEF WbInv, SchedulerInv, TaskAt, Coroutines
<1>4. \A a, o : TaskAt("driver", a, o)' <=> TaskAt("driver", a, o)
  BY <1>2 DEF TaskAt, Coroutines
<1>5. QED
  BY <1>2, <1>3, <1>4, UnchangedSignals DEF Last

\* The bus monitor receives the item that the signals show, and nothing else.
LEMMA Receives ==
  ASSUME SchedulerInv, slot = "settled"
  PROVE  /\ Silent => Received = {}
         /\ \A item \in Items : Presents(item) => Received = {item}
<1>1. \A x \in Signals : wire[x] = bus[x]
  BY WireValues DEF SchedulerInv
<1>2. /\ bus.addr_valid = wire.addr_valid /\ bus.req_valid = wire.req_valid
      /\ bus.addr = wire.addr /\ bus.data = wire.data
  BY <1>1 DEF Signals
<1>3. ASSUME NEW item \in Items, Presents(item) PROVE Received = {item}
  <2>1. CASE item = [addr |-> item.addr]
    <3>1. ~IsWrite(item)
      BY <2>1 DEF IsWrite
    <3>2. bus.addr_valid /\ ~bus.req_valid /\ [addr |-> bus.addr] = item
      BY <1>2, <1>3, <2>1, <3>1 DEF Presents
    <3>3. QED
      BY <3>2 DEF Received
  <2>2. CASE item = [addr |-> item.addr, data |-> item.data]
    <3>1. IsWrite(item)
      BY <2>2 DEF IsWrite
    <3>2. ~bus.addr_valid /\ bus.req_valid /\ [addr |-> bus.addr, data |-> bus.data] = item
      BY <1>2, <1>3, <2>2, <3>1 DEF Presents
    <3>3. QED
      BY <3>2 DEF Received
  <2>3. QED
    BY <2>1, <2>2, WbAdapterAssumption
<1>4. QED
  BY <1>2, <1>3 DEF Silent, Received

LEMMA BusMonStep == ASSUME WbInv, ~ended, bus_mon PROVE WbInv'
<1>1. /\ Await("bus_mon", "receive", "Sample") /\ UNCHANGED <<items, ended, writes>>
      /\ "bus_mon" \in due
      /\ \/ Received = {} /\ bus_fifo' = bus_fifo
         \/ \E datum \in Received : bus_fifo' = Append(bus_fifo, datum)
  BY DEF bus_mon, Runs
<1>2. slot = "settled" /\ DriverInv
  BY <1>1 DEF WbInv, SchedulerInv, Ended
<1>3. CASE Waiting \/ Sending
  <2>1. bus_fifo' = bus_fifo
    BY <1>1, <1>2, <1>3, Receives DEF WbInv, Waiting, Sending
  <2>2. /\ SchedulerInv' /\ slot' = slot /\ SignalsKept /\ due' = due \ {"bus_mon"}
        /\ \A a, o : TaskAt("driver", a, o)' <=> TaskAt("driver", a, o)
        /\ Last(items)' = Last(items)
    BY <1>1, <2>1, MonitorMoves DEF WbInv, SchedulerInv
  <2>3. Silent' <=> Silent
    BY <1>1, <2>2, KeptShown
  <2>4. Pending' <=> Pending
    BY <1>1, <2>1, <2>2 DEF Pending
  <2>5. QED
    BY <1>1, <1>2, <1>3, <2>2, <2>3, <2>4 DEF WbInv, DriverInv, Waiting, Sending
<1>4. CASE Holding
  <2>1. items # <<>> /\ Presents(Last(items)) /\ Pending /\ "driver" \notin due
    BY <1>1, <1>2, <1>4 DEF Holding
  <2>2. Last(items) \in Items
    BY <2>1 DEF WbInv, SchedulerInv, Last
  <2>3. Received = {Last(items)}
    BY <1>2, <2>1, <2>2, Receives DEF WbInv
  <2>4. bus_fifo' = items
    BY <1>1, <2>1, <2>3 DEF Pending
  <2>5. /\ SchedulerInv' /\ slot' = slot /\ SignalsKept /\ due' = due \ {"bus_mon"}
        /\ \A a, o : TaskAt("driver", a, o)' <=> TaskAt("driver", a, o)
    BY <1>1, <2>4, MonitorMoves DEF WbInv, SchedulerInv
  <2>6. Presents(Last(items))'
    BY <1>1, <2>1, <2>5, KeptShown
  <2>7. Holding'
    BY <1>1, <1>2, <1>4, <2>1, <2>4, <2>5, <2>6 DEF Holding
  <2>8. QED
    BY <1>1, <1>2, <2>5, <2>7 DEF WbInv, DriverInv
<1>5. QED
  BY <1>2, <1>3, <1>4 DEF DriverInv, Getting, Commits

LEMMA WbMonStep == ASSUME WbInv, ~ended, wb_mon PROVE WbInv'
<1>1. /\ Await("wb_mon", "receive", "Sample") /\ UNCHANGED <<items, bus_fifo, ended, writes>>
      /\ "wb_mon" \in due
  BY DEF wb_mon, Runs
<1>2. /\ SchedulerInv' /\ slot' = slot /\ SignalsKept /\ due' = due \ {"wb_mon"}
      /\ \A a, o : TaskAt("driver", a, o)' <=> TaskAt("driver", a, o)
      /\ Last(items)' = Last(items)
  BY <1>1, MonitorMoves DEF WbInv, SchedulerInv
<1>3. /\ Silent' <=> Silent
      /\ Presents(Last(items))' <=> Presents(Last(items))
  BY <1>1, <1>2, KeptShown
<1>4. Pending' <=> Pending
  BY <1>1, <1>2 DEF Pending
<1>5. DriverInv
  BY DEF WbInv, Ended
<1>6. CASE Getting
  BY <1>1, <1>2, <1>3, <1>5, <1>6 DEF WbInv, DriverInv, Getting, Commits
<1>7. CASE Waiting
  BY <1>1, <1>2, <1>3, <1>4, <1>5, <1>7 DEF WbInv, DriverInv, Waiting
<1>8. CASE Sending
  BY <1>1, <1>2, <1>3, <1>4, <1>5, <1>8 DEF WbInv, DriverInv, Sending
<1>9. CASE Holding
  BY <1>1, <1>2, <1>3, <1>4, <1>5, <1>9 DEF WbInv, DriverInv, Holding
<1>10. QED
  BY <1>5, <1>6, <1>7, <1>8, <1>9 DEF DriverInv

----------------------------------------------------------------------------
(* Time.                                                                   *)

LEMMA NextSlotOf ==
  /\ NextSlot["before"] = "edge" /\ NextSlot["edge"] = "settled"
  /\ NextSlot["settled"] = "after" /\ NextSlot["after"] = "low" /\ NextSlot["low"] = "before"
BY DEF NextSlot

LEMMA FiresIn ==
  /\ Fires["Sample"] = {"settled"} /\ Fires["ReadOnly"] = {"settled", "low"}
  /\ Fires["NextTimeStep"] = {"before", "after"} /\ Fires["AfterEdge"] = {"after"}
BY DEF Fires

\* The writes of a slot take effect at its end, or stay pending over the edge.
LEMMA TickSignals ==
  ASSUME SchedulerInv, Pass \/ (RisingEdge /\ UNCHANGED writes)
  PROVE  /\ SignalsKept /\ DOMAIN bus' = Signals /\ DOMAIN writes' \subseteq Signals
         /\ slot # "before" => writes' = <<>>
<1>1. CASE Pass /\ Commits
  <2>1. bus' = wire /\ writes' = <<>> /\ DOMAIN writes' = {}
    BY <1>1 DEF Pass, wire
  <2>2. DOMAIN wire = Signals
    BY WireValues DEF SchedulerInv
  <2>3. wire' = Updated(bus', writes')
    BY DEF wire
  <2>4. QED
    BY <2>1, <2>2, <2>3 DEF SignalsKept, Updated
<1>2. CASE Pass /\ ~Commits
  <2>1. bus' = bus /\ writes' = writes /\ slot # "before"
    BY <1>2 DEF Pass
  <2>2. slot \in {"settled", "low"}
    BY <1>2, <2>1 DEF SchedulerInv, NextSlot, Commits
  <2>3. QED
    BY <2>1, <2>2, UnchangedSignals DEF SchedulerInv
<1>3. CASE RisingEdge /\ UNCHANGED writes
  BY <1>3, UnchangedSignals DEF RisingEdge, SchedulerInv
<1>4. QED
  BY <1>1, <1>2, <1>3

LEMMA TickStep ==
  ASSUME WbInv, ~ended, Pass \/ (RisingEdge /\ UNCHANGED writes), UNCHANGED testVars
  PROVE  WbInv'
<1>1. /\ due = {} /\ task' = task /\ slot' = NextSlot[slot]
      /\ due' = {c \in DOMAIN task : slot' \in Fires[task[c].on]}
  BY DEF Pass, RisingEdge, Tick
<1>2. UNCHANGED <<items, bus_fifo, ended>>
  BY DEF testVars
<1>3. /\ SignalsKept /\ DOMAIN bus' = Signals /\ DOMAIN writes' \subseteq Signals
      /\ slot # "before" => writes' = <<>>
  BY TickSignals DEF WbInv
<1>4. \/ slot = "edge" /\ slot' = "settled"
      \/ slot = "settled" /\ slot' = "after"
      \/ slot = "after" /\ slot' = "low"
      \/ slot = "low" /\ slot' = "before"
      \/ slot = "before" /\ slot' = "edge"
  <2>1. slot \in {"before", "edge", "settled", "after", "low"}
    BY DEF WbInv, SchedulerInv, NextSlot
  <2>2. QED
    BY <1>1, <2>1, NextSlotOf
<1>5. /\ \A c \in Coroutines : \A a, o : TaskAt(c, a, o)' <=> TaskAt(c, a, o)
      /\ \A c \in Coroutines : \A a, o : TaskAt(c, a, o) => (c \in due' <=> slot' \in Fires[o])
  <2>1. \A c \in Coroutines : \A a, o : TaskAt(c, a, o) => task[c].on = o
    BY DEF TaskAt, Task
  <2>2. QED
    BY <1>1, <2>1 DEF TaskAt, WbInv, SchedulerInv
<1>6. /\ "bus_mon" \in due' <=> slot' = "settled"
      /\ "wb_mon" \in due' <=> slot' = "settled"
  BY <1>5, FiresIn DEF WbInv, SchedulerInv, Coroutines
<1>7. SchedulerInv'
  <2>1. slot' \in DOMAIN NextSlot
    BY <1>4 DEF NextSlot
  <2>2. due' \subseteq Coroutines
    BY <1>1 DEF WbInv, SchedulerInv
  <2>3. slot' \in {"settled", "low"} => writes' = <<>>
    BY <1>3, <1>4
  <2>4. TaskAt("bus_mon", "receive", "Sample")' /\ TaskAt("wb_mon", "receive", "Sample")'
    BY <1>5 DEF WbInv, SchedulerInv, Coroutines
  <2>5. QED
    BY <1>1, <1>2, <1>3, <1>6, <2>1, <2>2, <2>3, <2>4 DEF WbInv, SchedulerInv
<1>8. /\ Silent' <=> Silent
      /\ Presents(Last(items))' <=> Presents(Last(items))
  BY <1>2, <1>3, KeptShown
<1>9. Pending' <=> Pending
  BY <1>2 DEF Pending, Last
<1>10. /\ \A a, o : TaskAt("driver", a, o)' <=> TaskAt("driver", a, o)
       /\ \A a, o : TaskAt("driver", a, o) => ("driver" \in due' <=> slot' \in Fires[o])
  BY <1>5 DEF Coroutines
<1>11. DriverInv
  BY DEF WbInv, Ended
<1>12. ~Getting
  BY <1>1 DEF Getting
<1>13. CASE Waiting
  <2>1. slot \in {"edge", "after"}
    BY <1>1, <1>4, <1>13 DEF Waiting
  <2>2. "driver" \in due' /\ slot' \in {"settled", "low"}
    BY <1>4, <1>10, <1>13, <2>1, FiresIn DEF Waiting
  <2>3. Waiting'
    BY <1>8, <1>9, <1>10, <1>13, <2>2 DEF Waiting
  <2>4. QED
    BY <1>2, <1>7, <2>3 DEF WbInv, DriverInv
<1>14. CASE Sending
  <2>1. slot \in {"settled", "low"}
    BY <1>1, <1>4, <1>14 DEF Sending
  <2>2. "driver" \in due' /\ slot' \in {"before", "after"}
    BY <1>4, <1>10, <1>14, <2>1, FiresIn DEF Sending
  <2>3. Sending'
    BY <1>8, <1>9, <1>10, <1>14, <2>2 DEF Sending
  <2>4. QED
    BY <1>2, <1>7, <2>3 DEF WbInv, DriverInv
<1>15. CASE Holding
  <2>1. "driver" \in due' <=> slot' = "after"
    BY <1>10, <1>15, FiresIn DEF Holding
  <2>2. \/ Pending /\ slot # "settled"
        \/ bus_fifo = items /\ slot = "settled"
    BY <1>1, <1>15 DEF Holding
  <2>3. Holding'
    BY <1>2, <1>4, <1>6, <1>8, <1>9, <1>10, <1>15, <2>1, <2>2 DEF Holding
  <2>4. QED
    BY <1>2, <1>7, <2>3 DEF WbInv, DriverInv
<1>16. QED
  BY <1>11, <1>12, <1>13, <1>14, <1>15 DEF DriverInv

----------------------------------------------------------------------------
(* The theorem.                                                            *)

LEMMA InitWbInv == Init => WbInv
<1> SUFFICES ASSUME Init PROVE WbInv
  OBVIOUS
<1> DEFINE T == [driver |-> Task("get", "now"), bus_mon |-> Task("receive", "Sample"),
                 wb_mon |-> Task("receive", "Sample")]
           B == [addr_valid |-> FALSE, req_valid |-> FALSE, addr |-> 0, data |-> 0,
                 cyc |-> FALSE, stb |-> FALSE, adr |-> 0]
<1>1. /\ slot = "edge" /\ task = T /\ due = {"driver"} /\ bus = B /\ writes = <<>>
      /\ items = <<>> /\ bus_fifo = <<>> /\ ended = FALSE
  BY DEF Init
<1>2. /\ DOMAIN T = Coroutines /\ DOMAIN B = Signals
      /\ T["driver"] = Task("get", "now") /\ T["bus_mon"] = Task("receive", "Sample")
      /\ T["wb_mon"] = Task("receive", "Sample")
      /\ B.addr_valid = FALSE /\ B.req_valid = FALSE
  BY DEF Coroutines, Signals
<1> HIDE DEF T, B
<1>3. DOMAIN writes = {} /\ items \in Seq(Items) /\ bus_fifo \in Seq(Items)
  BY <1>1
<1>4. Silent
  <2>1. \A x \in Signals : wire[x] = bus[x]
    BY <1>1, <1>2, <1>3, WireValues
  <2>2. QED
    BY <1>1, <1>2, <2>1 DEF Silent, Signals
<1>5. SchedulerInv
  BY <1>1, <1>2, <1>3 DEF SchedulerInv, TaskAt, Coroutines, NextSlot
<1>6. Getting
  BY <1>1, <1>2, <1>4 DEF Getting, TaskAt, Commits
<1>7. QED
  BY <1>1, <1>5, <1>6 DEF WbInv, DriverInv

LEMMA StutterWbInv == ASSUME WbInv, UNCHANGED vars PROVE WbInv'
<1>1. UNCHANGED <<slot, task, due, bus, writes, items, bus_fifo, ended>>
  BY DEF vars, simVars, testVars
<1>2. wire' = wire
  BY <1>1 DEF wire
<1>3. QED
  BY <1>1, <1>2 DEF WbInv, SchedulerInv, Ended, DriverInv, Getting, Waiting, Sending, Holding,
                    Silent, Pending, Presents, IsWrite, TaskAt, Commits, Last

LEMMA StepWbInv == WbInv /\ [Next]_vars => WbInv'
BY DriverStep, BusMonStep, WbMonStep, TickStep, StutterWbInv DEF Next

\* The item under way is on the bus, and in the scoreboard's fifo, exactly when
\* the driver's coroutine says so.
THEOREM WbInvariant == Spec => []WbInv
BY InitWbInv, StepWbInv, PTL DEF Spec

\* A sequence without its last item is a prefix of it, and so is all of it.
LEMMA PrefixOfAppend ==
  ASSUME NEW D, NEW s \in Seq(D), NEW t \in Seq(D), t = s \/ \E x : t = Append(s, x)
  PROVE  IsPrefix(s, t) /\ Len(t) <= Len(s) + 1
<1>1. Len(s) \in Nat /\ Len(t) \in Nat
  OBVIOUS
<1>2. CASE t = s
  BY <1>1, <1>2 DEF IsPrefix
<1>3. CASE \E x : t = Append(s, x)
  <2>1. PICK x : t = Append(s, x)
    BY <1>3
  <2>2. Len(t) = Len(s) + 1 /\ \A i \in 1 .. Len(s) : t[i] = s[i]
    BY <2>1
  <2>3. SubSeq(t, 1, Len(s)) \in Seq(D) /\ SubSeq(s, 1, Len(s)) \in Seq(D)
    BY <1>1, <2>2
  <2>4. /\ Len(SubSeq(t, 1, Len(s))) = Len(s) /\ Len(SubSeq(s, 1, Len(s))) = Len(s)
        /\ \A i \in 1 .. Len(s) : SubSeq(s, 1, Len(s))[i] = SubSeq(t, 1, Len(s))[i]
    BY <1>1, <2>2
  <2>5. SubSeq(s, 1, Len(s)) = SubSeq(t, 1, Len(s))
    BY <2>3, <2>4, SeqEqual
  <2>6. QED
    BY <1>1, <2>2, <2>5 DEF IsPrefix
<1>4. QED
  BY <1>2, <1>3

\* The bus monitor, which restarts the receivers of both channels after each
\* transaction, records each item driven once and in order, for every sequence
\* of reads and writes.
THEOREM RecordedHolds == Spec => []Recorded
<1>1. WbInv => Recorded
  <2> SUFFICES ASSUME WbInv PROVE Recorded
    OBVIOUS
  <2>1. items \in Seq(Items) /\ bus_fifo \in Seq(Items)
    BY DEF WbInv, SchedulerInv
  <2>2. items = bus_fifo \/ (~ended /\ \E x : items = Append(bus_fifo, x))
    <3>1. items = bus_fifo \/ (~ended /\ Pending)
      BY DEF WbInv, Ended, DriverInv, Getting, Waiting, Sending, Holding
    <3>2. QED
      BY <3>1 DEF Pending
  <2>3. IsPrefix(bus_fifo, items) /\ Len(items) <= Len(bus_fifo) + 1
    BY <2>1, <2>2, PrefixOfAppend
  <2>4. QED
    BY <2>2, <2>3 DEF Recorded
<1>2. QED
  BY <1>1, WbInvariant, PTL

----------------------------------------------------------------------------
(* The Wishbone bus functional model: its coroutines and signals.          *)

BfmCoroutines == {"source", "sink", "reader", "monitor"}
BfmSignals == {"cyc", "stb", "we", "adr", "datwr", "ack", "datrd"}

Replies == {Answer[op] : op \in Operations}

\* A coroutine is due only in the slots of what it awaits; values are settled,
\* and every write in effect, when the coroutines that sample run.
BfmSchedulerInv ==
  /\ slot \in DOMAIN NextSlot
  /\ DOMAIN task = BfmCoroutines /\ due \subseteq BfmCoroutines
  /\ DOMAIN bus = BfmSignals /\ DOMAIN writes \subseteq BfmSignals
  /\ slot \in {"before", "settled", "low"} => writes = <<>>
  /\ \A c \in BfmCoroutines : task[c].on \in DOMAIN Fires
  /\ \A c \in due : slot \in Fires[task[c].on]
  /\ TaskAt("monitor", "receive", "Sample")

QueuesInv ==
  /\ requests \in Seq(Operations) /\ received \in Seq(Operations)
  /\ monitored \in Seq(Operations) /\ responses \in Seq(Replies)

\* The operation under way is the last one that was started.
Operation == Last(requests)

BfmSilent == ~wire.cyc /\ ~wire.stb

Shows == /\ requests # <<>> /\ wire.cyc /\ wire.stb
         /\ wire.we = Operation.we /\ wire.adr = Operation.adr
         /\ Operation.we => wire.datwr = Operation.datwr

\* Every operation is received, and all of them, or all but the last, answered.
Idled == received = requests /\ Len(responses) = Len(requests)
Owed  == received = requests /\ Len(requests) = Len(responses) + 1

\* The phases of an operation.  No operation is under way:
Quiet ==
  /\ TaskAt("source", "start", "RisingEdge") /\ TaskAt("sink", "receive", "Sample")
  /\ TaskAt("reader", "done", "event")
  /\ BfmSilent /\ ~wire.ack /\ Idled

\* the source has driven it and the sink has not seen it:
Sent ==
  /\ TaskAt("source", "started", "RisingEdge") /\ TaskAt("sink", "receive", "Sample")
  /\ TaskAt("reader", "done", "event")
  /\ Shows /\ ~wire.ack
  /\ requests = Append(received, Operation) /\ Len(responses) = Len(received)
  /\ \/ slot = "edge" /\ "source" \notin due
     \/ slot = "settled" /\ "sink" \in due

\* the sink has received it and not replied, on the next edge or one later,
\* while the source comes to wait for the acknowledge:
Awaiting ==
  /\ Shows /\ ~wire.ack /\ Owed /\ writes = <<>> /\ TaskAt("reader", "receive", "Sample")
  /\ \/ /\ TaskAt("source", "started", "RisingEdge") /\ TaskAt("sink", "reply", "RisingEdge")
        /\ slot = "edge" => "source" \in due /\ "sink" \in due
     \/ /\ TaskAt("source", "started", "RisingEdge") /\ TaskAt("sink", "late", "RisingEdge")
        /\ slot = "edge" /\ "source" \in due /\ "sink" \notin due
     \/ /\ TaskAt("source", "ack", "ReadOnly") /\ TaskAt("sink", "reply", "RisingEdge")
        /\ slot = "edge" /\ "sink" \in due
     \/ /\ TaskAt("source", "ack", "ReadOnly") /\ TaskAt("sink", "late", "RisingEdge")
        /\ \/ slot = "edge" /\ "sink" \notin due
           \/ slot = "settled" /\ "source" \in due
     \/ /\ TaskAt("source", "ack", "Sample") /\ TaskAt("sink", "late", "RisingEdge")
        /\ slot = "settled" => "source" \notin due
        /\ slot = "edge" => "sink" \in due

\* the reply is on the signals; in the settled slot the source, the sink and
\* the reader see it, each in its turn:
Answered ==
  /\ Shows /\ wire.ack /\ (~Operation.we => wire.datrd = Answer[Operation].data)
  /\ received = requests
  /\ \/ /\ slot = "edge" /\ TaskAt("sink", "wait", "ReadOnly")
        /\ TaskAt("reader", "receive", "Sample") /\ Owed
        /\ \/ TaskAt("source", "started", "RisingEdge") /\ "source" \in due
           \/ TaskAt("source", "ack", "ReadOnly") \/ TaskAt("source", "ack", "Sample")
     \/ /\ \/ /\ TaskAt("source", "ack", "ReadOnly") \/ TaskAt("source", "ack", "Sample")
              /\ slot = "settled" /\ "source" \in due
           \/ TaskAt("source", "end", "RisingEdge") /\ (slot = "edge" => "source" \in due)
        /\ \/ TaskAt("sink", "wait", "ReadOnly") /\ slot = "settled" /\ "sink" \in due
           \/ TaskAt("sink", "wait", "Sample") /\ (slot = "settled" => "sink" \notin due)
        /\ \/ TaskAt("reader", "receive", "Sample") /\ slot = "settled" /\ "reader" \in due /\ Owed
           \/ TaskAt("reader", "done", "event") /\ Idled

\* the strobe is taken back, and then the acknowledge.
Closing ==
  /\ TaskAt("source", "start", "RisingEdge") /\ TaskAt("reader", "done", "event")
  /\ BfmSilent /\ wire.ack /\ Idled
  /\ \/ /\ TaskAt("sink", "wait", "Sample")
        /\ \/ slot = "edge" /\ "source" \notin due
           \/ slot = "settled" /\ "sink" \in due
     \/ /\ TaskAt("sink", "unack", "NextTimeStep")
        /\ slot = "settled" \/ (slot = "after" /\ "sink" \in due)

\* The monitor misses at most the operation that has just been driven.
MonitorInv ==
  \/ Repeats(requests, monitored)
  \/ /\ Shows /\ TaskAt("source", "started", "RisingEdge")
     /\ \/ slot = "edge" /\ "source" \notin due
        \/ slot = "settled" /\ "monitor" \in due
     /\ \E s \in Seq(Operations) : requests = Append(s, Operation) /\ Repeats(s, monitored)

PhaseInv == Quiet \/ Sent \/ Awaiting \/ Answered \/ Closing

BfmInv == BfmSchedulerInv /\ QueuesInv /\ PhaseInv /\ MonitorInv

----------------------------------------------------------------------------
(* Repetitions.                                                            *)

LEMMA RepeatsNothing == Repeats(<<>>, <<>>)
<1> DEFINE of == [j \in {} |-> 1]
<1>1. DOMAIN <<>> = {} /\ of \in [{} -> {}]
  OBVIOUS
<1>2. QED
  BY <1>1 DEF Repeats

\* A new element once in both, or the last element once more.
LEMMA RepeatsNext ==
  ASSUME NEW D, NEW s \in Seq(D), NEW t \in Seq(D), NEW x \in D, Repeats(s, t)
  PROVE  Repeats(Append(s, x), Append(t, x))
<1>1. PICK of \in [DOMAIN t -> DOMAIN s] :
        /\ \A j \in DOMAIN t : t[j] = s[of[j]]
        /\ \A j, k \in DOMAIN t : j < k => of[j] <= of[k]
        /\ \A i \in DOMAIN s : \E j \in DOMAIN t : of[j] = i
  BY DEF Repeats
<1> DEFINE sx == Append(s, x)
           tx == Append(t, x)
           ofx == [j \in DOMAIN tx |-> IF j = Len(t) + 1 THEN Len(s) + 1 ELSE of[j]]
<1>2. /\ Len(s) \in Nat /\ DOMAIN s = 1..Len(s) /\ DOMAIN sx = 1..(Len(s) + 1)
      /\ Len(t) \in Nat /\ DOMAIN t = 1..Len(t) /\ DOMAIN tx = 1..(Len(t) + 1)
  OBVIOUS
<1>3. /\ \A i \in 1..Len(s) : sx[i] = s[i]
      /\ \A j \in 1..Len(t) : tx[j] = t[j]
      /\ sx[Len(s) + 1] = x /\ tx[Len(t) + 1] = x
  OBVIOUS
<1>4. \A j \in 1..Len(t) : of[j] \in 1..Len(s)
  BY <1>1, <1>2
<1> HIDE DEF sx, tx
<1>5. ofx \in [DOMAIN tx -> DOMAIN sx]
  BY <1>2, <1>4
<1>6. /\ \A j \in 1..Len(t) : ofx[j] = of[j]
      /\ ofx[Len(t) + 1] = Len(s) + 1
  BY <1>2
<1> HIDE DEF ofx
<1>7. \A j \in DOMAIN tx : tx[j] = sx[ofx[j]]
  <2> TAKE j \in DOMAIN tx
  <2>1. CASE j = Len(t) + 1
    BY <1>3, <1>6, <2>1
  <2>2. CASE j # Len(t) + 1
    <3>1. j \in 1..Len(t)
      BY <1>2, <2>2
    <3>2. tx[j] = t[j] /\ t[j] = s[of[j]] /\ sx[of[j]] = s[of[j]] /\ ofx[j] = of[j]
      BY <1>1, <1>2, <1>3, <1>4, <1>6, <3>1
    <3>3. QED
      BY <3>2
  <2>3. QED
    BY <2>1, <2>2
<1>8. \A j, k \in DOMAIN tx : j < k => ofx[j] <= ofx[k]
  <2> SUFFICES ASSUME NEW j \in DOMAIN tx, NEW k \in DOMAIN tx, j < k PROVE ofx[j] <= ofx[k]
    OBVIOUS
  <2>1. j \in 1..Len(t) /\ ofx[j] = of[j] /\ of[j] \in 1..Len(s)
    BY <1>2, <1>4, <1>6
  <2>2. CASE k = Len(t) + 1
    BY <1>2, <1>6, <2>1, <2>2
  <2>3. CASE k # Len(t) + 1
    <3>1. k \in 1..Len(t) /\ ofx[k] = of[k]
      BY <1>2, <1>6, <2>3
    <3>2. QED
      BY <1>1, <1>2, <2>1, <3>1
  <2>4. QED
    BY <2>2, <2>3
<1>9. \A i \in DOMAIN sx : \E j \in DOMAIN tx : ofx[j] = i
  <2> TAKE i \in DOMAIN sx
  <2>1. CASE i = Len(s) + 1
    BY <1>2, <1>6, <2>1
  <2>2. CASE i # Len(s) + 1
    <3>1. PICK j \in 1..Len(t) : of[j] = i
      BY <1>1, <1>2, <2>2
    <3>2. QED
      BY <1>2, <1>6, <3>1
  <2>3. QED
    BY <2>1, <2>2
<1>10. QED
  BY <1>5, <1>7, <1>8, <1>9 DEF Repeats, sx, tx

LEMMA RepeatsAgain ==
  ASSUME NEW D, NEW s \in Seq(D), NEW t \in Seq(D), s # <<>>, Repeats(s, t)
  PROVE  Repeats(s, Append(t, Last(s)))
<1>1. PICK of \in [DOMAIN t -> DOMAIN s] :
        /\ \A j \in DOMAIN t : t[j] = s[of[j]]
        /\ \A j, k \in DOMAIN t : j < k => of[j] <= of[k]
        /\ \A i \in DOMAIN s : \E j \in DOMAIN t : of[j] = i
  BY DEF Repeats
<1> DEFINE x == s[Len(s)]
           tx == Append(t, x)
           ofx == [j \in DOMAIN tx |-> IF j = Len(t) + 1 THEN Len(s) ELSE of[j]]
<1>2. /\ Len(s) \in Nat /\ DOMAIN s = 1..Len(s) /\ Len(s) \in DOMAIN s
      /\ Len(t) \in Nat /\ DOMAIN t = 1..Len(t) /\ DOMAIN tx = 1..(Len(t) + 1)
  OBVIOUS
<1>3. /\ \A j \in 1..Len(t) : tx[j] = t[j]
      /\ tx[Len(t) + 1] = x
  OBVIOUS
<1>4. \A j \in 1..Len(t) : of[j] \in 1..Len(s)
  BY <1>1, <1>2
<1> HIDE DEF tx
<1>5. ofx \in [DOMAIN tx -> DOMAIN s]
  BY <1>2, <1>4
<1>6. /\ \A j \in 1..Len(t) : ofx[j] = of[j]
      /\ ofx[Len(t) + 1] = Len(s)
  BY <1>2
<1> HIDE DEF ofx
<1>7. \A j \in DOMAIN tx : tx[j] = s[ofx[j]]
  <2> TAKE j \in DOMAIN tx
  <2>1. CASE j = Len(t) + 1
    BY <1>3, <1>6, <2>1
  <2>2. CASE j # Len(t) + 1
    <3>1. j \in 1..Len(t)
      BY <1>2, <2>2
    <3>2. tx[j] = t[j] /\ t[j] = s[of[j]] /\ ofx[j] = of[j]
      BY <1>1, <1>2, <1>3, <1>6, <3>1
    <3>3. QED
      BY <3>2
  <2>3. QED
    BY <2>1, <2>2
<1>8. \A j, k \in DOMAIN tx : j < k => ofx[j] <= ofx[k]
  <2> SUFFICES ASSUME NEW j \in DOMAIN tx, NEW k \in DOMAIN tx, j < k PROVE ofx[j] <= ofx[k]
    OBVIOUS
  <2>1. j \in 1..Len(t) /\ ofx[j] = of[j] /\ of[j] \in 1..Len(s)
    BY <1>2, <1>4, <1>6
  <2>2. CASE k = Len(t) + 1
    BY <1>2, <1>6, <2>1, <2>2
  <2>3. CASE k # Len(t) + 1
    <3>1. k \in 1..Len(t) /\ ofx[k] = of[k]
      BY <1>2, <1>6, <2>3
    <3>2. QED
      BY <1>1, <1>2, <2>1, <3>1
  <2>4. QED
    BY <2>2, <2>3
<1>9. \A i \in DOMAIN s : \E j \in DOMAIN tx : ofx[j] = i
  <2> TAKE i \in DOMAIN s
  <2>1. PICK j \in 1..Len(t) : of[j] = i
    BY <1>1, <1>2
  <2>2. QED
    BY <1>2, <1>6, <2>1
<1>10. QED
  BY <1>5, <1>7, <1>8, <1>9 DEF Repeats, tx, Last

----------------------------------------------------------------------------
(* The scheduler.                                                          *)

LEMMA TaskIs == \A a, o : Task(a, o).at = a /\ Task(a, o).on = o
BY DEF Task

LEMMA BfmFiresIn ==
  /\ Fires["Sample"] = {"settled"} /\ Fires["ReadOnly"] = {"settled", "low"}
  /\ Fires["NextTimeStep"] = {"before", "after"} /\ Fires["RisingEdge"] = {"edge"}
  /\ Fires["event"] = {}
  /\ {"Sample", "ReadOnly", "NextTimeStep", "RisingEdge", "event"} \subseteq DOMAIN Fires
BY DEF Fires

LEMMA BfmNextSlotOf ==
  /\ DOMAIN NextSlot = {"before", "edge", "settled", "after", "low"}
  /\ NextSlot["before"] = "edge" /\ NextSlot["edge"] = "settled"
  /\ NextSlot["settled"] = "after" /\ NextSlot["after"] = "low"
  /\ NextSlot["low"] = "before"
BY DEF NextSlot

\* The signals with what has been written to them.
LEMMA BfmWireValues ==
  ASSUME BfmSchedulerInv
  PROVE  /\ DOMAIN wire = BfmSignals
         /\ \A x \in BfmSignals : wire[x] = IF x \in DOMAIN writes THEN writes[x] ELSE bus[x]
         /\ writes = <<>> => \A x \in BfmSignals : wire[x] = bus[x]
<1>1. wire = Updated(bus, writes)
  BY DEF wire
<1>2. QED
  BY <1>1 DEF Updated, BfmSchedulerInv

\* A coroutine that runs to its next await.
Ran(c, at, on) ==
  /\ DOMAIN task' = BfmCoroutines /\ task'[c] = Task(at, on)
  /\ \A k \in BfmCoroutines \ {c} : task'[k] = task[k]
  /\ due' = due \ {c} /\ slot' = slot /\ bus' = bus

LEMMA AwaitMoves ==
  ASSUME BfmSchedulerInv, NEW c \in BfmCoroutines, NEW at, NEW on \in DOMAIN Fires, on # "now",
         on = "ReadOnly" => slot = "edge", Await(c, at, on)
  PROVE  Ran(c, at, on)
<1> DEFINE new == [k \in {c} |-> Task(at, on)]
<1>1. /\ task' = Updated(task, new)
      /\ due' = (due \ {c}) \cup {t \in DOMAIN new : GoesOn(new[t])}
      /\ slot' = slot /\ bus' = bus
  BY DEF Await, Continue
<1>2. DOMAIN new = {c} /\ new[c] = Task(at, on)
  OBVIOUS
<1> HIDE DEF new
<1>3. /\ DOMAIN task' = BfmCoroutines /\ task'[c] = Task(at, on)
      /\ \A k \in BfmCoroutines \ {c} : task'[k] = task[k]
  BY <1>1, <1>2 DEF Updated, BfmSchedulerInv
<1>4. ~GoesOn(new[c])
  BY <1>2, TaskIs, BfmFiresIn DEF GoesOn
<1>5. QED
  BY <1>1, <1>2, <1>3, <1>4 DEF Ran

LEMMA RanScheduler ==
  ASSUME BfmSchedulerInv, NEW c \in BfmCoroutines, NEW at, NEW on \in DOMAIN Fires,
         Ran(c, at, on),
         c = "monitor" => at = "receive" /\ on = "Sample",
         DOMAIN writes' \subseteq BfmSignals,
         slot \in {"before", "settled", "low"} => writes' = <<>>
  PROVE  BfmSchedulerInv'
<1>1. /\ slot' \in DOMAIN NextSlot /\ DOMAIN task' = BfmCoroutines
      /\ due' \subseteq BfmCoroutines /\ DOMAIN bus' = BfmSignals
  BY DEF BfmSchedulerInv, Ran
<1>2. /\ \A k \in BfmCoroutines : task'[k].on \in DOMAIN Fires
      /\ \A k \in due' : slot' \in Fires[task'[k].on]
  BY TaskIs DEF BfmSchedulerInv, Ran
<1>3. TaskAt("monitor", "receive", "Sample")'
  BY DEF BfmSchedulerInv, Ran, TaskAt, BfmCoroutines
<1>4. QED
  BY <1>1, <1>2, <1>3 DEF BfmSchedulerInv, Ran

\* A write is in the signals at once.
LEMMA BfmWriteStep ==
  ASSUME BfmSchedulerInv, bus' = bus, NEW values, DOMAIN values \subseteq BfmSignals,
         Write(values)
  PROVE  /\ DOMAIN writes' \subseteq BfmSignals
         /\ \A x \in BfmSignals :
              wire'[x] = IF x \in DOMAIN values THEN values[x] ELSE wire[x]
<1>1. /\ DOMAIN writes' = DOMAIN writes \cup DOMAIN values
      /\ \A x \in DOMAIN writes' : writes'[x] = IF x \in DOMAIN values THEN values[x] ELSE writes[x]
  BY DEF Write, Updated
<1>2. wire' = Updated(bus', writes')
  BY DEF wire
<1>3. \A x \in BfmSignals : wire'[x] = IF x \in DOMAIN writes' THEN writes'[x] ELSE bus[x]
  BY <1>1, <1>2 DEF Updated, BfmSchedulerInv
<1>4. QED
  BY <1>1, <1>3, BfmWireValues DEF BfmSchedulerInv

\* The signals, with their writes, stay as they are.
BfmSignalsKept == \A x \in BfmSignals : wire'[x] = wire[x]

LEMMA BfmUnchangedSignals ==
  ASSUME UNCHANGED <<bus, writes>>
  PROVE  BfmSignalsKept
BY DEF BfmSignalsKept, wire

\* Only the source changes what the signals show of its operation.
RequestKept == /\ requests' = requests
               /\ \A x \in BfmSignals \ {"ack", "datrd"} : wire'[x] = wire[x]

LEMMA ShowsKept ==
  ASSUME RequestKept
  PROVE  (Shows' <=> Shows) /\ (BfmSilent' <=> BfmSilent) /\ Operation' = Operation
<1>1. /\ wire'.cyc = wire.cyc /\ wire'.stb = wire.stb /\ wire'.we = wire.we
      /\ wire'.adr = wire.adr /\ wire'.datwr = wire.datwr
  BY DEF RequestKept, BfmSignals
<1>2. Operation' = Operation
  BY DEF Operation, Last, RequestKept
<1>3. QED
  BY <1>1, <1>2 DEF RequestKept, Shows, BfmSilent

LEMMA OperationIs ==
  ASSUME QueuesInv, requests # <<>>
  PROVE  /\ Operation \in Operations
         /\ \/ Operation = [we |-> FALSE, adr |-> Operation.adr]
            \/ Operation = [we |-> TRUE, adr |-> Operation.adr, datwr |-> Operation.datwr]
         /\ Answer[Operation] = IF Operation.we THEN Ack
                                ELSE [ack |-> TRUE, data |-> Answer[Operation].data]
<1>1. Operation \in Operations
  BY DEF QueuesInv, Operation, Last
<1>2. QED
  BY <1>1, WishboneAssumption

----------------------------------------------------------------------------
(* The source.                                                             *)

\* Nothing is missing from the monitor's record when the source runs.
LEMMA SourceMonitored ==
  ASSUME BfmSchedulerInv, MonitorInv, "source" \in due
  PROVE  Repeats(requests, monitored)
BY TaskIs, BfmFiresIn DEF BfmSchedulerInv, MonitorInv, TaskAt

LEMMA StartStep ==
  ASSUME BfmInv, NEW op \in Operations, Start(op), UNCHANGED <<received, responses, monitored>>
  PROVE  BfmInv'
<1> DEFINE r == [cyc |-> TRUE, stb |-> TRUE]
           values == Updated(op, r)
<1>1. /\ Await("source", "started", "RisingEdge") /\ requests' = Append(requests, op)
      /\ Write(values) /\ "source" \in due /\ task["source"].at = "start"
  BY DEF Start, Runs
<1>2. Quiet /\ slot = "edge"
  BY <1>1, TaskIs, BfmFiresIn
     DEF BfmInv, BfmSchedulerInv, PhaseInv, Quiet, Sent, Awaiting, Answered, Closing, TaskAt
<1>3. /\ DOMAIN values = DOMAIN op \cup {"cyc", "stb"}
      /\ \A x \in DOMAIN values : values[x] = IF x \in {"cyc", "stb"} THEN TRUE ELSE op[x]
  <2>1. DOMAIN r = {"cyc", "stb"} /\ r["cyc"] = TRUE /\ r["stb"] = TRUE
    OBVIOUS
  <2> HIDE DEF r
  <2>2. QED
    BY <2>1 DEF Updated
<1>4. \/ op = [we |-> FALSE, adr |-> op.adr]
      \/ op = [we |-> TRUE, adr |-> op.adr, datwr |-> op.datwr]
  BY WishboneAssumption
<1>5. /\ \/ DOMAIN op = {"we", "adr"} /\ op.we = FALSE
         \/ DOMAIN op = {"we", "adr", "datwr"} /\ op.we = TRUE
      /\ op.we = op["we"] /\ op.adr = op["adr"] /\ op.datwr = op["datwr"]
  BY <1>4
<1> HIDE DEF values
<1>6. Ran("source", "started", "RisingEdge")
  BY <1>1, AwaitMoves, BfmFiresIn DEF BfmInv, BfmCoroutines
<1>7. /\ DOMAIN writes' \subseteq BfmSignals
      /\ \A x \in BfmSignals : wire'[x] = IF x \in DOMAIN values THEN values[x] ELSE wire[x]
  <2>1. DOMAIN values \subseteq BfmSignals
    BY <1>3, <1>5 DEF BfmSignals
  <2>2. QED
    BY <1>1, <1>6, <2>1, BfmWriteStep DEF BfmInv, Ran
<1>8. BfmSchedulerInv'
  BY <1>2, <1>6, <1>7, RanScheduler, BfmFiresIn DEF BfmInv, BfmCoroutines
<1>9. /\ requests' \in Seq(Operations) /\ requests' # <<>> /\ Operation' = op
      /\ Len(requests) = Len(responses)
  <2>1. requests \in Seq(Operations) /\ requests' = Append(requests, op)
    BY <1>1 DEF BfmInv, QueuesInv
  <2>2. /\ requests' \in Seq(Operations) /\ requests' # <<>>
        /\ requests'[Len(requests')] = op
    BY <2>1
  <2>3. QED
    BY <1>2, <2>2 DEF Operation, Last, Quiet, Idled
<1>10. Shows' /\ ~wire'.ack
  <2>1. /\ wire'["cyc"] = TRUE /\ wire'["stb"] = TRUE
        /\ wire'["we"] = op.we /\ wire'["adr"] = op.adr
    BY <1>3, <1>5, <1>7 DEF BfmSignals
  <2>2. op.we => wire'["datwr"] = op.datwr
    BY <1>3, <1>5, <1>7 DEF BfmSignals
  <2>3. wire'["ack"] = wire["ack"]
    BY <1>3, <1>5, <1>7 DEF BfmSignals
  <2>4. QED
    BY <1>2, <1>9, <2>1, <2>2, <2>3 DEF Shows, Quiet
<1>11. Sent'
  BY <1>1, <1>2, <1>6, <1>9, <1>10 DEF Sent, Quiet, Idled, TaskAt, Ran, BfmCoroutines
<1>12. MonitorInv'
  <2>1. Repeats(requests, monitored)
    BY <1>1, SourceMonitored DEF BfmInv
  <2>2. TaskAt("source", "started", "RisingEdge")' /\ slot' = "edge" /\ "source" \notin due'
    BY <1>2, <1>6 DEF TaskAt, Ran
  <2>3. /\ requests \in Seq(Operations) /\ requests' = Append(requests, Operation')
        /\ monitored' = monitored
    BY <1>1, <1>9 DEF BfmInv, QueuesInv
  <2>4. QED
    BY <1>10, <2>1, <2>2, <2>3 DEF MonitorInv
<1>13. QED
  BY <1>8, <1>9, <1>11, <1>12 DEF BfmInv, QueuesInv, PhaseInv

\* A coroutine that writes nothing.
LEMMA ReadStep ==
  ASSUME BfmInv, NEW c \in BfmCoroutines, NEW at, NEW on \in DOMAIN Fires, on # "now",
         on = "ReadOnly" => slot = "edge", c = "monitor" => at = "receive" /\ on = "Sample",
         Await(c, at, on), UNCHANGED <<requests, writes>>
  PROVE  /\ BfmSchedulerInv' /\ Ran(c, at, on)
         /\ (Shows' <=> Shows) /\ (BfmSilent' <=> BfmSilent) /\ Operation' = Operation
         /\ wire'.ack = wire.ack /\ wire'.datrd = wire.datrd
<1>1. Ran(c, at, on)
  BY AwaitMoves DEF BfmInv
<1>2. BfmSchedulerInv'
  BY <1>1, RanScheduler DEF BfmInv, BfmSchedulerInv
<1>3. BfmSignalsKept /\ RequestKept
  BY <1>1, BfmUnchangedSignals DEF Ran, BfmSignalsKept, RequestKept
<1>4. QED
  BY <1>1, <1>2, <1>3, ShowsKept DEF BfmSignalsKept, BfmSignals

\* The signals are settled when they are read.
LEMMA ReadSignals ==
  ASSUME BfmSchedulerInv, slot = "settled"
  PROVE  \A x \in BfmSignals : bus[x] = wire[x]
BY BfmWireValues DEF BfmSchedulerInv

LEMMA NextEdgeStep ==
  ASSUME BfmInv, NextEdge, UNCHANGED <<received, responses, monitored>>
  PROVE  BfmInv'
<1>1. /\ Await("source", "ack", "ReadOnly") /\ UNCHANGED <<requests, writes>>
      /\ "source" \in due /\ task["source"].at = "started"
  BY DEF NextEdge, Runs
<1>2. slot = "edge" /\ (Awaiting \/ Answered)
  BY <1>1, TaskIs, BfmFiresIn
     DEF BfmInv, BfmSchedulerInv, PhaseInv, Quiet, Sent, Awaiting, Answered, Closing, TaskAt
<1>3. /\ BfmSchedulerInv' /\ Ran("source", "ack", "ReadOnly")
      /\ (Shows' <=> Shows) /\ Operation' = Operation
      /\ wire'.ack = wire.ack /\ wire'.datrd = wire.datrd
  BY <1>1, <1>2, ReadStep, BfmFiresIn DEF BfmCoroutines
<1>4. ASSUME Awaiting PROVE Awaiting'
  BY <1>1, <1>2, <1>3, <1>4, TaskIs DEF Awaiting, Owed, TaskAt, Ran, BfmCoroutines
<1>5. ASSUME Answered PROVE Answered'
  BY <1>1, <1>2, <1>3, <1>5, TaskIs DEF Answered, Owed, Idled, TaskAt, Ran, BfmCoroutines
<1>6. MonitorInv'
  BY <1>1, SourceMonitored DEF BfmInv, MonitorInv
<1>7. QED
  BY <1>1, <1>2, <1>3, <1>4, <1>5, <1>6 DEF BfmInv, QueuesInv, PhaseInv

LEMMA AwaitAckStep ==
  ASSUME BfmInv, AwaitAck, UNCHANGED <<received, responses, monitored>>
  PROVE  BfmInv'
<1>1. /\ "source" \in due /\ task["source"].at = "ack" /\ UNCHANGED <<requests, writes>>
      /\ IF bus.ack THEN Await("source", "end", "RisingEdge")
                    ELSE Await("source", "ack", "Sample")
  BY DEF AwaitAck, Runs
<1>2. slot = "settled" /\ (Awaiting \/ Answered)
  BY <1>1, TaskIs, BfmFiresIn
     DEF BfmInv, BfmSchedulerInv, PhaseInv, Quiet, Sent, Awaiting, Answered, Closing, TaskAt
<1>3. bus.ack <=> wire.ack
  BY <1>2, ReadSignals DEF BfmInv, BfmSignals
<1>4. ASSUME Awaiting PROVE BfmSchedulerInv' /\ Awaiting'
  <2>1. Await("source", "ack", "Sample")
    BY <1>1, <1>3, <1>4 DEF Awaiting
  <2>2. /\ BfmSchedulerInv' /\ Ran("source", "ack", "Sample")
        /\ (Shows' <=> Shows) /\ wire'.ack = wire.ack
    BY <1>1, <2>1, ReadStep, BfmFiresIn DEF BfmCoroutines
  <2>3. QED
    BY <1>1, <1>2, <1>4, <2>2, TaskIs DEF Awaiting, Owed, TaskAt, Ran, BfmCoroutines
<1>5. ASSUME Answered PROVE BfmSchedulerInv' /\ Answered'
  <2>1. Await("source", "end", "RisingEdge")
    BY <1>1, <1>3, <1>5 DEF Answered
  <2>2. /\ BfmSchedulerInv' /\ Ran("source", "end", "RisingEdge")
        /\ (Shows' <=> Shows) /\ Operation' = Operation
        /\ wire'.ack = wire.ack /\ wire'.datrd = wire.datrd
    BY <1>1, <2>1, ReadStep, BfmFiresIn DEF BfmCoroutines
  <2>3. QED
    BY <1>1, <1>2, <1>5, <2>2, TaskIs DEF Answered, Owed, Idled, TaskAt, Ran, BfmCoroutines
<1>6. MonitorInv'
  BY <1>1, SourceMonitored DEF BfmInv, MonitorInv
<1>7. QED
  BY <1>1, <1>2, <1>4, <1>5, <1>6 DEF BfmInv, QueuesInv, PhaseInv

LEMMA BfmEndStep ==
  ASSUME BfmInv, End, UNCHANGED <<received, responses, monitored>>
  PROVE  BfmInv'
<1> DEFINE values == [cyc |-> FALSE, stb |-> FALSE]
<1>1. /\ Await("source", "start", "RisingEdge") /\ requests' = requests /\ Write(values)
      /\ "source" \in due /\ task["source"].at = "end"
  BY DEF End, Runs
<1>2. slot = "edge" /\ Answered
  BY <1>1, TaskIs, BfmFiresIn
     DEF BfmInv, BfmSchedulerInv, PhaseInv, Quiet, Sent, Awaiting, Answered, Closing, TaskAt
<1>3. DOMAIN values = {"cyc", "stb"} /\ values["cyc"] = FALSE /\ values["stb"] = FALSE
  OBVIOUS
<1> HIDE DEF values
<1>4. Ran("source", "start", "RisingEdge")
  BY <1>1, AwaitMoves, BfmFiresIn DEF BfmInv, BfmCoroutines
<1>5. /\ DOMAIN writes' \subseteq BfmSignals
      /\ \A x \in BfmSignals : wire'[x] = IF x \in DOMAIN values THEN values[x] ELSE wire[x]
  BY <1>1, <1>3, <1>4, BfmWriteStep DEF BfmInv, Ran, BfmSignals
<1>6. BfmSchedulerInv'
  BY <1>2, <1>4, <1>5, RanScheduler, BfmFiresIn DEF BfmInv, BfmCoroutines
<1>7. BfmSilent' /\ wire'.ack = wire.ack
  BY <1>3, <1>5 DEF BfmSilent, BfmSignals
<1>8. Closing'
  BY <1>1, <1>2, <1>4, <1>7, TaskIs DEF Answered, Closing, Idled, TaskAt, Ran, BfmCoroutines
<1>9. MonitorInv'
  BY <1>1, SourceMonitored DEF BfmInv, MonitorInv
<1>10. QED
  BY <1>1, <1>6, <1>8, <1>9 DEF BfmInv, QueuesInv, PhaseInv

LEMMA IdleStep ==
  ASSUME BfmInv, Idle, UNCHANGED <<received, responses, monitored>>
  PROVE  BfmInv'
<1>1. /\ Await("source", "start", "RisingEdge") /\ UNCHANGED <<requests, writes>>
      /\ "source" \in due /\ task["source"].at = "start"
  BY DEF Idle, Runs
<1>2. slot = "edge" /\ Quiet
  BY <1>1, TaskIs, BfmFiresIn
     DEF BfmInv, BfmSchedulerInv, PhaseInv, Quiet, Sent, Awaiting, Answered, Closing, TaskAt
<1>3. /\ BfmSchedulerInv' /\ Ran("source", "start", "RisingEdge")
      /\ (BfmSilent' <=> BfmSilent) /\ wire'.ack = wire.ack
  BY <1>1, ReadStep, BfmFiresIn DEF BfmCoroutines
<1>4. Quiet'
  BY <1>1, <1>2, <1>3 DEF Quiet, Idled, TaskAt, Ran, BfmCoroutines
<1>5. MonitorInv'
  BY <1>1, SourceMonitored DEF BfmInv, MonitorInv
<1>6. QED
  BY <1>1, <1>3, <1>4, <1>5 DEF BfmInv, QueuesInv, PhaseInv

LEMMA SourceStep == ASSUME BfmInv, source PROVE BfmInv'
BY StartStep, NextEdgeStep, AwaitAckStep, BfmEndStep, IdleStep DEF source

----------------------------------------------------------------------------
(* The sink and the reader.                                                *)

\* What the others do does not concern the monitor.
LEMMA OthersMonitored ==
  ASSUME BfmInv, Shows' <=> Shows, Operation' = Operation, UNCHANGED <<requests, monitored>>,
         NEW c \in {"sink", "reader"}, NEW at, NEW on, Ran(c, at, on)
  PROVE  MonitorInv'
BY DEF BfmInv, MonitorInv, TaskAt, Ran, BfmCoroutines

\* A request on the signals is received as the operation that was started.
LEMMA PayloadIs ==
  ASSUME BfmSchedulerInv, QueuesInv, slot = "settled", Shows
  PROVE  Strobed /\ Payload = Operation
<1>1. /\ bus.cyc = wire.cyc /\ bus.stb = wire.stb
      /\ bus.we = wire.we /\ bus.adr = wire.adr
      /\ bus.datwr = wire.datwr
  BY ReadSignals DEF BfmSignals
<1>2. CASE Operation = [we |-> FALSE, adr |-> Operation.adr]
  <2>1. Operation.we = FALSE
    BY <1>2
  <2>2. QED
    BY <1>1, <1>2, <2>1 DEF Shows, Strobed, Payload
<1>3. CASE Operation = [we |-> TRUE, adr |-> Operation.adr, datwr |-> Operation.datwr]
  <2>1. Operation.we = TRUE
    BY <1>3
  <2>2. QED
    BY <1>1, <1>3, <2>1 DEF Shows, Strobed, Payload
<1>4. QED
  BY <1>2, <1>3, OperationIs DEF Shows

\* The sink receives, starts its reply and wakes the reader.
LEMMA ReceivedMoves ==
  ASSUME BfmSchedulerInv, "sink" \in due, TaskAt("reader", "done", "event"),
         Continue("sink", [sink |-> Task("reply", "RisingEdge"),
                           reader |-> Task("receive", "Sample")])
  PROVE  /\ DOMAIN task' = BfmCoroutines /\ task'["sink"] = Task("reply", "RisingEdge")
         /\ task'["reader"] = Task("receive", "Sample")
         /\ task'["source"] = task["source"] /\ task'["monitor"] = task["monitor"]
         /\ due' = due \ {"sink"} /\ slot' = slot /\ bus' = bus
<1> DEFINE new == [sink |-> Task("reply", "RisingEdge"),
                   reader |-> Task("receive", "Sample")]
<1>1. /\ task' = Updated(task, new)
      /\ due' = (due \ {"sink"}) \cup {t \in DOMAIN new : GoesOn(new[t])}
      /\ slot' = slot /\ bus' = bus
  BY DEF Continue
<1>2. /\ DOMAIN new = {"sink", "reader"} /\ new["sink"] = Task("reply", "RisingEdge")
      /\ new["reader"] = Task("receive", "Sample")
  OBVIOUS
<1> HIDE DEF new
<1>3. ~GoesOn(new["sink"]) /\ ~GoesOn(new["reader"])
  BY <1>2, TaskIs, BfmFiresIn DEF GoesOn
<1>4. due' = due \ {"sink"}
  BY <1>1, <1>2, <1>3
<1>5. QED
  BY <1>1, <1>2, <1>4 DEF Updated, BfmSchedulerInv, BfmCoroutines

LEMMA ReceiveStep ==
  ASSUME BfmInv, Receive, UNCHANGED <<requests, responses, monitored>>
  PROVE  BfmInv'
<1>1. /\ "sink" \in due /\ task["sink"].at = "receive" /\ UNCHANGED <<requests, writes>>
      /\ IF Strobed
           THEN /\ received' = Append(received, Payload)
                /\ Continue("sink", [sink |-> Task("reply", "RisingEdge"),
                                     reader |-> Task("receive", "Sample")])
           ELSE Await("sink", "receive", "Sample") /\ UNCHANGED received
  BY DEF Receive, Runs
<1>2. slot = "settled" /\ (Quiet \/ Sent)
  BY <1>1, TaskIs, BfmFiresIn
     DEF BfmInv, BfmSchedulerInv, PhaseInv, Quiet, Sent, Awaiting, Answered, Closing, TaskAt
<1>3. ASSUME Quiet PROVE BfmInv'
  <2>1. ~Strobed
    BY <1>2, <1>3, ReadSignals DEF BfmInv, BfmSignals, Strobed, Quiet, BfmSilent
  <2>2. /\ BfmSchedulerInv' /\ Ran("sink", "receive", "Sample")
        /\ (Shows' <=> Shows) /\ (BfmSilent' <=> BfmSilent) /\ Operation' = Operation
        /\ wire'.ack = wire.ack
    BY <1>1, <2>1, ReadStep, BfmFiresIn DEF BfmCoroutines
  <2>3. Quiet'
    BY <1>1, <1>3, <2>1, <2>2 DEF Quiet, Idled, TaskAt, Ran, BfmCoroutines
  <2>4. MonitorInv'
    BY <1>1, <2>2, OthersMonitored
  <2>5. QED
    BY <1>1, <2>1, <2>2, <2>3, <2>4 DEF BfmInv, QueuesInv, PhaseInv
<1>4. ASSUME Sent PROVE BfmInv'
  <2>1. Strobed /\ Payload = Operation
    BY <1>2, <1>4, PayloadIs DEF BfmInv, Sent
  <2>2. /\ DOMAIN task' = BfmCoroutines /\ task'["sink"] = Task("reply", "RisingEdge")
        /\ task'["reader"] = Task("receive", "Sample")
        /\ task'["source"] = task["source"] /\ task'["monitor"] = task["monitor"]
        /\ due' = due \ {"sink"} /\ slot' = slot /\ bus' = bus
    BY <1>1, <1>4, <2>1, ReceivedMoves DEF BfmInv, Sent
  <2>3. BfmSchedulerInv'
    <3>1. \A k \in BfmCoroutines : task'[k].on \in DOMAIN Fires
      BY <2>2, TaskIs, BfmFiresIn DEF BfmInv, BfmSchedulerInv, BfmCoroutines
    <3>2. \A k \in due' : slot' \in Fires[task'[k].on]
      <4>1. "reader" \notin due
        BY <1>4, TaskIs, BfmFiresIn DEF BfmInv, BfmSchedulerInv, Sent, TaskAt
      <4>2. QED
        BY <2>2, <4>1 DEF BfmInv, BfmSchedulerInv, BfmCoroutines
    <3>3. due' \subseteq BfmCoroutines /\ TaskAt("monitor", "receive", "Sample")'
      BY <2>2 DEF BfmInv, BfmSchedulerInv, TaskAt
    <3>4. QED
      BY <1>1, <2>2, <3>1, <3>2, <3>3 DEF BfmInv, BfmSchedulerInv
  <2>4. BfmSignalsKept /\ RequestKept
    BY <1>1, <2>2, BfmUnchangedSignals DEF BfmSignalsKept, RequestKept
  <2>5. (Shows' <=> Shows) /\ Operation' = Operation /\ wire'.ack = wire.ack
    BY <2>4, ShowsKept DEF BfmSignalsKept, BfmSignals
  <2>6. received' = requests' /\ Len(requests') = Len(responses') + 1
    BY <1>1, <1>4, <2>1 DEF Sent, BfmInv, QueuesInv
  <2>7. Awaiting'
    BY <1>1, <1>2, <1>4, <2>2, <2>5, <2>6 DEF BfmInv, BfmSchedulerInv, Sent, Awaiting, Owed, TaskAt
  <2>8. MonitorInv'
    BY <1>1, <2>2, <2>5 DEF BfmInv, MonitorInv, TaskAt
  <2>9. received' \in Seq(Operations)
    BY <1>1, <2>6 DEF BfmInv, QueuesInv
  <2>10. QED
    BY <1>1, <2>3, <2>7, <2>8, <2>9 DEF BfmInv, QueuesInv, PhaseInv
<1>5. QED
  BY <1>2, <1>3, <1>4

LEMMA DelayStep ==
  ASSUME BfmInv, Delay, UNCHANGED <<requests, responses, monitored>>
  PROVE  BfmInv'
<1>1. /\ Await("sink", "late", "RisingEdge") /\ UNCHANGED <<received, writes>>
      /\ "sink" \in due /\ task["sink"].at = "reply"
  BY DEF Delay, Runs
<1>2. slot = "edge" /\ Awaiting
  BY <1>1, TaskIs, BfmFiresIn
     DEF BfmInv, BfmSchedulerInv, PhaseInv, Quiet, Sent, Awaiting, Answered, Closing, TaskAt
<1>3. /\ BfmSchedulerInv' /\ Ran("sink", "late", "RisingEdge")
      /\ (Shows' <=> Shows) /\ Operation' = Operation /\ wire'.ack = wire.ack
  BY <1>1, ReadStep, BfmFiresIn DEF BfmCoroutines
<1>4. Awaiting'
  BY <1>1, <1>2, <1>3, TaskIs DEF Awaiting, Owed, TaskAt, Ran, BfmCoroutines
<1>5. MonitorInv'
  BY <1>1, <1>3, OthersMonitored
<1>6. QED
  BY <1>1, <1>3, <1>4, <1>5 DEF BfmInv, QueuesInv, PhaseInv

LEMMA ReplyStep ==
  ASSUME BfmInv, sink_reply, UNCHANGED <<requests, responses, monitored>>
  PROVE  BfmInv'
<1> DEFINE values == IF bus.we THEN [ack |-> TRUE]
                               ELSE [ack |-> TRUE, datrd |-> Answer[Last(received)].data]
<1>1. /\ Await("sink", "wait", "ReadOnly") /\ received' = received /\ Write(values)
      /\ "sink" \in due /\ task["sink"].at \in {"reply", "late"}
  BY DEF sink_reply, Runs
<1>2. slot = "edge" /\ Awaiting
  BY <1>1, TaskIs, BfmFiresIn
     DEF BfmInv, BfmSchedulerInv, PhaseInv, Quiet, Sent, Awaiting, Answered, Closing, TaskAt
<1>3. bus.we = Operation.we /\ Last(received) = Operation
  BY <1>2, BfmWireValues DEF BfmInv, Awaiting, Owed, Shows, BfmSignals, Operation, Last
<1>4. /\ DOMAIN values \subseteq {"ack", "datrd"} /\ "ack" \in DOMAIN values
      /\ values["ack"] = TRUE
      /\ ~Operation.we => "datrd" \in DOMAIN values /\ values["datrd"] = Answer[Operation].data
  BY <1>3
<1> HIDE DEF values
<1>5. Ran("sink", "wait", "ReadOnly")
  BY <1>1, <1>2, AwaitMoves, BfmFiresIn DEF BfmInv, BfmCoroutines
<1>6. /\ DOMAIN writes' \subseteq BfmSignals
      /\ \A x \in BfmSignals : wire'[x] = IF x \in DOMAIN values THEN values[x] ELSE wire[x]
  BY <1>1, <1>4, <1>5, BfmWriteStep DEF BfmInv, Ran, BfmSignals
<1>7. BfmSchedulerInv'
  BY <1>2, <1>5, <1>6, RanScheduler, BfmFiresIn DEF BfmInv, BfmCoroutines
<1>8. RequestKept
  BY <1>4, <1>6 DEF RequestKept
<1>9. (Shows' <=> Shows) /\ Operation' = Operation
  BY <1>8, ShowsKept
<1>10. wire'.ack /\ (~Operation'.we => wire'.datrd = Answer[Operation'].data)
  BY <1>4, <1>6, <1>9 DEF BfmSignals
<1>11. Answered'
  BY <1>1, <1>2, <1>5, <1>9, <1>10, TaskIs DEF Awaiting, Answered, Owed, TaskAt, Ran, BfmCoroutines
<1>12. MonitorInv'
  BY <1>5, <1>9, OthersMonitored
<1>13. QED
  BY <1>1, <1>7, <1>11, <1>12 DEF BfmInv, QueuesInv, PhaseInv

LEMMA BfmWaitStep ==
  ASSUME BfmInv, wait_for_strobe, UNCHANGED <<requests, responses, monitored>>
  PROVE  BfmInv'
<1>1. /\ "sink" \in due /\ task["sink"].at = "wait" /\ UNCHANGED <<received, writes>>
      /\ IF bus.stb THEN Await("sink", "wait", "Sample")
                    ELSE Await("sink", "unack", "NextTimeStep")
  BY DEF wait_for_strobe, Runs
<1>2. slot = "settled" /\ (Answered \/ Closing)
  BY <1>1, TaskIs, BfmFiresIn
     DEF BfmInv, BfmSchedulerInv, PhaseInv, Quiet, Sent, Awaiting, Answered, Closing, TaskAt
<1>3. bus.stb <=> wire.stb
  BY <1>2, ReadSignals DEF BfmInv, BfmSignals
<1>4. ASSUME Answered PROVE BfmInv'
  <2>1. Await("sink", "wait", "Sample")
    BY <1>1, <1>3, <1>4 DEF Answered, Shows
  <2>2. /\ BfmSchedulerInv' /\ Ran("sink", "wait", "Sample")
        /\ (Shows' <=> Shows) /\ Operation' = Operation
        /\ wire'.ack = wire.ack /\ wire'.datrd = wire.datrd
    BY <1>1, <2>1, ReadStep, BfmFiresIn DEF BfmCoroutines
  <2>3. Answered'
    BY <1>1, <1>2, <1>4, <2>2, TaskIs DEF Answered, Owed, Idled, TaskAt, Ran, BfmCoroutines
  <2>4. MonitorInv'
    BY <2>2, OthersMonitored
  <2>5. QED
    BY <1>1, <2>2, <2>3, <2>4 DEF BfmInv, QueuesInv, PhaseInv
<1>5. ASSUME Closing PROVE BfmInv'
  <2>1. Await("sink", "unack", "NextTimeStep")
    BY <1>1, <1>3, <1>5 DEF Closing, BfmSilent
  <2>2. /\ BfmSchedulerInv' /\ Ran("sink", "unack", "NextTimeStep")
        /\ (Shows' <=> Shows) /\ (BfmSilent' <=> BfmSilent) /\ Operation' = Operation
        /\ wire'.ack = wire.ack
    BY <1>1, <2>1, ReadStep, BfmFiresIn DEF BfmCoroutines
  <2>3. Closing'
    BY <1>1, <1>2, <1>5, <2>2, TaskIs DEF Closing, Idled, TaskAt, Ran, BfmCoroutines
  <2>4. MonitorInv'
    BY <2>2, OthersMonitored
  <2>5. QED
    BY <1>1, <2>2, <2>3, <2>4 DEF BfmInv, QueuesInv, PhaseInv
<1>6. QED
  BY <1>2, <1>4, <1>5

LEMMA UnackStep ==
  ASSUME BfmInv, Unack, UNCHANGED <<requests, responses, monitored>>
  PROVE  BfmInv'
<1> DEFINE values == [ack |-> FALSE]
<1>1. /\ Await("sink", "receive", "Sample") /\ received' = received /\ Write(values)
      /\ "sink" \in due /\ task["sink"].at = "unack"
  BY DEF Unack, Runs
<1>2. slot = "after" /\ Closing
  BY <1>1, TaskIs, BfmFiresIn
     DEF BfmInv, BfmSchedulerInv, PhaseInv, Quiet, Sent, Awaiting, Answered, Closing, TaskAt
<1>3. DOMAIN values = {"ack"} /\ values["ack"] = FALSE
  OBVIOUS
<1> HIDE DEF values
<1>4. Ran("sink", "receive", "Sample")
  BY <1>1, AwaitMoves, BfmFiresIn DEF BfmInv, BfmCoroutines
<1>5. /\ DOMAIN writes' \subseteq BfmSignals
      /\ \A x \in BfmSignals : wire'[x] = IF x \in DOMAIN values THEN values[x] ELSE wire[x]
  BY <1>1, <1>3, <1>4, BfmWriteStep DEF BfmInv, Ran, BfmSignals
<1>6. BfmSchedulerInv'
  BY <1>2, <1>4, <1>5, RanScheduler, BfmFiresIn DEF BfmInv, BfmCoroutines
<1>7. RequestKept
  BY <1>3, <1>5 DEF RequestKept
<1>8. (Shows' <=> Shows) /\ (BfmSilent' <=> BfmSilent) /\ Operation' = Operation
  BY <1>7, ShowsKept
<1>9. ~wire'.ack
  BY <1>3, <1>5 DEF BfmSignals
<1>10. Quiet'
  BY <1>1, <1>2, <1>4, <1>8, <1>9, TaskIs DEF Closing, Quiet, Idled, TaskAt, Ran, BfmCoroutines
<1>11. MonitorInv'
  BY <1>4, <1>8, OthersMonitored
<1>12. QED
  BY <1>1, <1>6, <1>10, <1>11 DEF BfmInv, QueuesInv, PhaseInv

LEMMA SinkStep == ASSUME BfmInv, sink PROVE BfmInv'
BY ReceiveStep, DelayStep, ReplyStep, BfmWaitStep, UnackStep DEF sink

\* The reply that is read is the one to the operation under way.
LEMMA ReplyIs ==
  ASSUME BfmSchedulerInv, QueuesInv, slot = "settled", Answered
  PROVE  Operation \in Operations /\ Reply = Answer[Operation]
<1>1. bus.we = wire.we /\ bus.datrd = wire.datrd
  BY ReadSignals DEF BfmSignals
<1>2. QED
  BY <1>1, OperationIs DEF Answered, Shows, Reply

LEMMA ReaderStep == ASSUME BfmInv, reader PROVE BfmInv'
<1>1. /\ "reader" \in due /\ task["reader"].at = "receive"
      /\ UNCHANGED <<requests, received, monitored, writes>>
      /\ IF bus.ack
           THEN responses' = Append(responses, Reply) /\ Await("reader", "done", "event")
           ELSE Await("reader", "receive", "Sample") /\ UNCHANGED responses
  BY DEF reader, Runs
<1>2. slot = "settled" /\ (Awaiting \/ Answered)
  BY <1>1, TaskIs, BfmFiresIn
     DEF BfmInv, BfmSchedulerInv, PhaseInv, Quiet, Sent, Awaiting, Answered, Closing, TaskAt
<1>3. bus.ack <=> wire.ack
  BY <1>2, ReadSignals DEF BfmInv, BfmSignals
<1>4. ASSUME Awaiting PROVE BfmInv'
  <2>1. Await("reader", "receive", "Sample") /\ responses' = responses
    BY <1>1, <1>3, <1>4 DEF Awaiting
  <2>2. /\ BfmSchedulerInv' /\ Ran("reader", "receive", "Sample")
        /\ (Shows' <=> Shows) /\ Operation' = Operation /\ wire'.ack = wire.ack
    BY <1>1, <2>1, ReadStep, BfmFiresIn DEF BfmCoroutines
  <2>3. Awaiting'
    BY <1>1, <1>2, <1>4, <2>1, <2>2, TaskIs DEF Awaiting, Owed, TaskAt, Ran, BfmCoroutines
  <2>4. MonitorInv'
    BY <1>1, <2>2, OthersMonitored
  <2>5. QED
    BY <1>1, <2>1, <2>2, <2>3, <2>4 DEF BfmInv, QueuesInv, PhaseInv
<1>5. ASSUME Answered PROVE BfmInv'
  <2>1. Await("reader", "done", "event") /\ responses' = Append(responses, Answer[Operation])
    BY <1>1, <1>2, <1>3, <1>5, ReplyIs DEF BfmInv, Answered
  <2>2. /\ BfmSchedulerInv' /\ Ran("reader", "done", "event")
        /\ (Shows' <=> Shows) /\ Operation' = Operation
        /\ wire'.ack = wire.ack /\ wire'.datrd = wire.datrd
    BY <1>1, <2>1, ReadStep, BfmFiresIn DEF BfmCoroutines
  <2>3. Owed
    BY <1>1, <1>2, <1>5, TaskIs DEF Answered, TaskAt
  <2>4. responses' \in Seq(Replies) /\ Len(responses') = Len(responses) + 1
    <3>1. Answer[Operation] \in Replies
      BY <1>2, <1>5, ReplyIs DEF BfmInv, Replies
    <3>2. QED
      BY <2>1, <3>1 DEF BfmInv, QueuesInv
  <2>5. Idled'
    BY <1>1, <2>3, <2>4 DEF Owed, Idled
  <2>6. Answered'
    BY <1>1, <1>2, <1>5, <2>2, <2>5, TaskIs DEF Answered, TaskAt, Ran, BfmCoroutines
  <2>7. MonitorInv'
    BY <1>1, <2>2, OthersMonitored
  <2>8. QED
    BY <1>1, <2>2, <2>4, <2>6, <2>7 DEF BfmInv, QueuesInv, PhaseInv
<1>6. QED
  BY <1>2, <1>4, <1>5

----------------------------------------------------------------------------
(* The monitor.                                                            *)

LEMMA MonitorStep == ASSUME BfmInv, monitor PROVE BfmInv'
<1>1. /\ "monitor" \in due /\ Await("monitor", "receive", "Sample")
      /\ monitored' = IF Strobed THEN Append(monitored, Payload) ELSE monitored
      /\ UNCHANGED <<requests, received, responses, writes>>
  BY DEF monitor, Runs
<1>2. slot = "settled"
  BY <1>1, TaskIs, BfmFiresIn DEF BfmInv, BfmSchedulerInv, TaskAt
<1>3. /\ BfmSchedulerInv' /\ Ran("monitor", "receive", "Sample")
      /\ (Shows' <=> Shows) /\ (BfmSilent' <=> BfmSilent) /\ Operation' = Operation
      /\ wire'.ack = wire.ack /\ wire'.datrd = wire.datrd
  BY <1>1, ReadStep, BfmFiresIn DEF BfmCoroutines
<1>4. /\ task'["source"] = task["source"] /\ task'["sink"] = task["sink"]
      /\ task'["reader"] = task["reader"] /\ slot' = slot
      /\ "source" \in due' <=> "source" \in due
      /\ "sink" \in due' <=> "sink" \in due
      /\ "reader" \in due' <=> "reader" \in due
  BY <1>3 DEF Ran, BfmCoroutines
<1>5. PhaseInv'
  <2>1. (Idled' <=> Idled) /\ (Owed' <=> Owed)
    BY <1>1 DEF Idled, Owed
  <2>2. (Quiet' <=> Quiet) /\ (Closing' <=> Closing) /\ (Sent' <=> Sent)
    BY <1>1, <1>3, <1>4, <2>1 DEF Quiet, Closing, Sent, TaskAt
  <2>3. Awaiting' <=> Awaiting
    BY <1>1, <1>3, <1>4, <2>1 DEF Awaiting, TaskAt
  <2>4. Answered' <=> Answered
    BY <1>1, <1>3, <1>4, <2>1 DEF Answered, TaskAt
  <2>5. QED
    BY <2>2, <2>3, <2>4 DEF BfmInv, PhaseInv
<1>6. monitored' \in Seq(Operations) /\ Repeats(requests, monitored')
  <2>1. BfmSilent \/ Shows
    BY DEF BfmInv, PhaseInv, Quiet, Sent, Awaiting, Answered, Closing
  <2>2. CASE BfmSilent
    <3>1. ~Strobed /\ ~Shows
      BY <1>2, <2>2, ReadSignals DEF BfmInv, BfmSignals, Strobed, BfmSilent, Shows
    <3>2. QED
      BY <1>1, <3>1 DEF BfmInv, QueuesInv, MonitorInv
  <2>3. CASE Shows
    <3>1. monitored' = Append(monitored, Operation) /\ Operation \in Operations
      BY <1>1, <1>2, <2>3, PayloadIs, OperationIs DEF BfmInv, Shows
    <3>2. CASE Repeats(requests, monitored)
      BY <2>3, <3>1, <3>2, RepeatsAgain DEF BfmInv, QueuesInv, Shows, Operation
    <3>3. CASE ~Repeats(requests, monitored)
      <4>1. PICK s \in Seq(Operations) :
              requests = Append(s, Operation) /\ Repeats(s, monitored)
        BY <3>3 DEF BfmInv, MonitorInv
      <4>2. Repeats(Append(s, Operation), Append(monitored, Operation))
        BY <3>1, <4>1, RepeatsNext DEF BfmInv, QueuesInv
      <4>3. QED
        BY <3>1, <4>1, <4>2 DEF BfmInv, QueuesInv
    <3>4. QED
      BY <3>1, <3>2, <3>3 DEF BfmInv, QueuesInv
  <2>4. QED
    BY <2>1, <2>2, <2>3
<1>7. QED
  BY <1>1, <1>3, <1>5, <1>6 DEF BfmInv, QueuesInv, MonitorInv

----------------------------------------------------------------------------
(* Time.                                                                   *)

LEMMA BfmTickSignals ==
  ASSUME BfmSchedulerInv, Pass \/ (RisingEdge /\ UNCHANGED writes)
  PROVE  /\ BfmSignalsKept /\ DOMAIN bus' = BfmSignals /\ DOMAIN writes' \subseteq BfmSignals
         /\ writes' = <<>>
<1>1. CASE Pass /\ Commits
  <2>1. bus' = wire /\ writes' = <<>> /\ DOMAIN writes' = {}
    BY <1>1 DEF Pass, wire
  <2>2. wire' = Updated(bus', writes')
    BY DEF wire
  <2>3. QED
    BY <2>1, <2>2, BfmWireValues DEF BfmSignalsKept, Updated
<1>2. CASE Pass /\ ~Commits
  <2>1. bus' = bus /\ writes' = writes /\ slot \in {"settled", "low"}
    BY <1>2, BfmNextSlotOf DEF Pass, BfmSchedulerInv, Commits
  <2>2. QED
    BY <2>1, BfmUnchangedSignals DEF BfmSchedulerInv
<1>3. CASE RisingEdge /\ UNCHANGED writes
  BY <1>3, BfmUnchangedSignals DEF RisingEdge, BfmSchedulerInv
<1>4. QED
  BY <1>1, <1>2, <1>3

LEMMA BfmTickStep ==
  ASSUME BfmInv, Pass \/ (RisingEdge /\ UNCHANGED writes), UNCHANGED operationVars
  PROVE  BfmInv'
<1>1. /\ due = {} /\ task' = task /\ slot' = NextSlot[slot]
      /\ due' = {c \in DOMAIN task : slot' \in Fires[task[c].on]}
      /\ UNCHANGED <<requests, received, responses, monitored>>
  BY DEF Pass, RisingEdge, Tick, operationVars
<1>2. /\ BfmSignalsKept /\ DOMAIN bus' = BfmSignals
      /\ DOMAIN writes' \subseteq BfmSignals /\ writes' = <<>>
  BY BfmTickSignals DEF BfmInv
<1>3. \/ slot = "edge" /\ slot' = "settled"
      \/ slot = "settled" /\ slot' = "after"
      \/ slot = "after" /\ slot' = "low"
      \/ slot = "low" /\ slot' = "before"
      \/ slot = "before" /\ slot' = "edge"
  BY <1>1, BfmNextSlotOf DEF BfmInv, BfmSchedulerInv
<1>4. BfmSchedulerInv'
  BY <1>1, <1>2, <1>3, BfmNextSlotOf DEF BfmInv, BfmSchedulerInv, TaskAt
<1>5. /\ (Shows' <=> Shows) /\ (BfmSilent' <=> BfmSilent) /\ Operation' = Operation
      /\ wire'.ack = wire.ack /\ wire'.datrd = wire.datrd
  BY <1>1, <1>2, ShowsKept DEF BfmSignalsKept, RequestKept, BfmSignals
<1>6. /\ \A c \in BfmCoroutines : c \in due' <=> slot' \in Fires[task[c].on]
      /\ \A c \in BfmCoroutines :
           \A a, o : TaskAt(c, a, o) => (c \in due' <=> slot' \in Fires[o])
  BY <1>1, TaskIs DEF BfmInv, BfmSchedulerInv, TaskAt
<1>7. \A c, a, o : TaskAt(c, a, o)' <=> TaskAt(c, a, o)
  BY <1>1 DEF TaskAt
<1>8. (Idled' <=> Idled) /\ (Owed' <=> Owed)
  BY <1>1 DEF Idled, Owed
<1>9. CASE Quiet
  <2>1. Quiet'
    BY <1>5, <1>7, <1>8, <1>9 DEF Quiet
  <2>2. Repeats(requests, monitored)
    BY <1>1, <1>9, TaskIs DEF BfmInv, Quiet, MonitorInv, TaskAt
  <2>3. QED
    BY <1>1, <1>4, <2>1, <2>2 DEF BfmInv, QueuesInv, PhaseInv, MonitorInv
<1>10. CASE Sent
  <2>1. slot = "edge" /\ slot' = "settled" /\ "sink" \in due' /\ "monitor" \in due'
    BY <1>1, <1>3, <1>4, <1>6, <1>7, <1>10, BfmFiresIn DEF Sent, BfmSchedulerInv, BfmCoroutines
  <2>2. Sent'
    BY <1>1, <1>5, <1>7, <1>10, <2>1 DEF Sent
  <2>3. MonitorInv'
    BY <1>1, <1>5, <1>7, <1>10, <2>1 DEF BfmInv, MonitorInv, Sent
  <2>4. QED
    BY <1>1, <1>4, <2>2, <2>3 DEF BfmInv, QueuesInv, PhaseInv
<1>11. CASE Awaiting
  <2>1. Awaiting'
    BY <1>1, <1>2, <1>3, <1>5, <1>6, <1>7, <1>8, <1>11, BfmFiresIn DEF Awaiting, BfmCoroutines
  <2>2. Repeats(requests, monitored)
    BY <1>1, <1>11, TaskIs DEF BfmInv, Awaiting, MonitorInv, TaskAt
  <2>3. QED
    BY <1>1, <1>4, <2>1, <2>2 DEF BfmInv, QueuesInv, PhaseInv, MonitorInv
<1>12. CASE Answered
  <2>1. Answered'
    BY <1>1, <1>3, <1>5, <1>6, <1>7, <1>8, <1>12, BfmFiresIn DEF Answered, Owed, BfmCoroutines
  <2>2. Repeats(requests, monitored)
    BY <1>1, <1>12, TaskIs DEF BfmInv, Answered, MonitorInv, TaskAt
  <2>3. QED
    BY <1>1, <1>4, <2>1, <2>2 DEF BfmInv, QueuesInv, PhaseInv, MonitorInv
<1>13. CASE Closing
  <2>1. Closing'
    BY <1>1, <1>3, <1>5, <1>6, <1>7, <1>8, <1>13, BfmFiresIn DEF Closing, BfmCoroutines
  <2>2. Repeats(requests, monitored)
    BY <1>1, <1>13, TaskIs DEF BfmInv, Closing, MonitorInv, TaskAt
  <2>3. QED
    BY <1>1, <1>4, <2>1, <2>2 DEF BfmInv, QueuesInv, PhaseInv, MonitorInv
<1>14. QED
  BY <1>9, <1>10, <1>11, <1>12, <1>13 DEF BfmInv, PhaseInv

----------------------------------------------------------------------------
(* The theorems.                                                           *)

LEMMA InitBfmInv == BfmInit => BfmInv
<1> SUFFICES ASSUME BfmInit PROVE BfmInv
  OBVIOUS
<1> DEFINE T == [source |-> Task("start", "RisingEdge"), sink |-> Task("receive", "Sample"),
                 reader |-> Task("done", "event"), monitor |-> Task("receive", "Sample")]
           B == [cyc |-> FALSE, stb |-> FALSE, we |-> FALSE, adr |-> 0, datwr |-> 0,
                 ack |-> FALSE, datrd |-> 0]
<1>1. /\ slot = "low" /\ task = T /\ due = {c \in DOMAIN T : T[c].on = "now"} /\ bus = B
      /\ writes = <<>> /\ requests = <<>> /\ received = <<>> /\ responses = <<>>
      /\ monitored = <<>>
  BY DEF BfmInit, SimInit
<1>2. /\ DOMAIN T = BfmCoroutines /\ DOMAIN B = BfmSignals
      /\ T["source"] = Task("start", "RisingEdge") /\ T["sink"] = Task("receive", "Sample")
      /\ T["reader"] = Task("done", "event") /\ T["monitor"] = Task("receive", "Sample")
      /\ B["cyc"] = FALSE /\ B["stb"] = FALSE /\ B["ack"] = FALSE
  BY DEF BfmCoroutines, BfmSignals
<1> HIDE DEF T, B
<1>3. DOMAIN writes = {} /\ due = {}
  BY <1>1, <1>2, TaskIs DEF BfmCoroutines
<1>4. BfmSchedulerInv
  BY <1>1, <1>2, <1>3, TaskIs, BfmFiresIn, BfmNextSlotOf DEF BfmSchedulerInv, TaskAt, BfmCoroutines
<1>5. Quiet
  BY <1>1, <1>2, <1>4, BfmWireValues DEF Quiet, BfmSilent, Idled, TaskAt, BfmSignals
<1>6. QueuesInv /\ MonitorInv
  BY <1>1, RepeatsNothing DEF QueuesInv, MonitorInv
<1>7. QED
  BY <1>4, <1>5, <1>6 DEF BfmInv, PhaseInv

LEMMA StutterBfmInv == ASSUME BfmInv, UNCHANGED bfmVars PROVE BfmInv'
<1>1. UNCHANGED <<slot, task, due, bus, writes, requests, received, responses, monitored>>
  BY DEF bfmVars, simVars, operationVars
<1>2. /\ BfmSchedulerInv' /\ QueuesInv'
      /\ (Shows' <=> Shows) /\ (BfmSilent' <=> BfmSilent) /\ Operation' = Operation
      /\ wire' = wire
  BY <1>1 DEF BfmInv, BfmSchedulerInv, QueuesInv, TaskAt, wire, Shows, BfmSilent, Operation,
              Last
<1>3. PhaseInv'
  BY <1>1, <1>2 DEF BfmInv, PhaseInv, Quiet, Sent, Awaiting, Answered, Closing, Idled, Owed, TaskAt
<1>4. MonitorInv'
  BY <1>1, <1>2 DEF BfmInv, MonitorInv, TaskAt
<1>5. QED
  BY <1>2, <1>3, <1>4 DEF BfmInv

LEMMA StepBfmInv == BfmInv /\ [BfmNext]_bfmVars => BfmInv'
BY SourceStep, SinkStep, ReaderStep, MonitorStep, BfmTickStep, StutterBfmInv DEF BfmNext

\* Which phase an operation is in, and which coroutines have still to run in
\* it, is told by where source, sink and reader wait and what the signals show.
THEOREM BfmInvariant == BfmSpec => []BfmInv
BY InitBfmInv, StepBfmInv, PTL DEF BfmSpec

\* The sink receives every operation once and in order, however long the strobe
\* outlasts its reply, and the monitor misses none and invents none, for every
\* set of operations, with or without pauses.
THEOREM DeliveredHolds == BfmSpec => []Delivered
<1>1. BfmInv => Delivered
  BY TaskIs DEF BfmInv, PhaseInv, MonitorInv, Quiet, Sent, Awaiting, Answered, Closing, Idled, Owed,
                Delivered
<1>2. QED
  BY <1>1, BfmInvariant, PTL

LEMMA StepChannel ==
  ASSUME BfmInv, [BfmNext]_bfmVars
  PROVE  [Channel!ChannelNext]_<<requests, responses>>
<1>1. ASSUME NEW op \in Operations, Start(op), UNCHANGED responses PROVE Channel!Request
  <2>1. requests' = Append(requests, op) /\ "source" \in due /\ task["source"].at = "start"
    BY <1>1 DEF Start, Runs
  <2>2. Quiet
    BY <2>1, TaskIs, BfmFiresIn
       DEF BfmInv, BfmSchedulerInv, PhaseInv, Quiet, Sent, Awaiting, Answered, Closing, TaskAt
  <2>3. ~Channel!Waiting
    BY <2>2 DEF Quiet, Idled, Channel!Waiting, BfmInv, QueuesInv
  <2>4. op \in DOMAIN Answer
    BY WishboneAssumption
  <2>5. QED
    BY <1>1, <2>1, <2>3, <2>4 DEF Channel!Request
<1>2. ASSUME reader PROVE Channel!ChannelNext \/ UNCHANGED <<requests, responses>>
  <2>1. /\ "reader" \in due /\ task["reader"].at = "receive" /\ requests' = requests
        /\ IF bus.ack THEN responses' = Append(responses, Reply) ELSE responses' = responses
    BY <1>2 DEF reader, Runs
  <2>2. slot = "settled" /\ (Awaiting \/ Answered)
    BY <2>1, TaskIs, BfmFiresIn
       DEF BfmInv, BfmSchedulerInv, PhaseInv, Quiet, Sent, Awaiting, Answered, Closing, TaskAt
  <2>3. bus.ack <=> wire.ack
    BY <2>2, ReadSignals DEF BfmInv, BfmSignals
  <2>4. CASE Awaiting
    BY <2>1, <2>3, <2>4 DEF Awaiting
  <2>5. CASE Answered
    <3>1. responses' = Append(responses, Answer[Operation])
      BY <2>1, <2>2, <2>3, <2>5, ReplyIs DEF BfmInv, Answered
    <3>2. Owed
      BY <2>1, <2>2, <2>5, TaskIs DEF Answered, TaskAt
    <3>3. Channel!Waiting
      BY <3>2 DEF Owed, BfmInv, QueuesInv, Channel!Waiting
    <3>4. QED
      BY <2>1, <3>1, <3>3
         DEF Channel!ChannelNext, Channel!Respond, Operation, Last, Channel!Last
  <2>6. QED
    BY <2>2, <2>4, <2>5
<1>3. CASE source
  <2>1. CASE \E op \in Operations : Start(op)
    BY <1>1, <1>3, <2>1 DEF source, Channel!ChannelNext
  <2>2. CASE NextEdge \/ AwaitAck \/ End \/ Idle
    BY <1>3, <2>2 DEF source, NextEdge, AwaitAck, End, Idle
  <2>3. QED
    BY <1>3, <2>1, <2>2 DEF source
<1>4. CASE sink \/ monitor
  BY <1>4 DEF sink, monitor
<1>5. CASE (Pass \/ (RisingEdge /\ UNCHANGED writes)) /\ UNCHANGED operationVars
  BY <1>5 DEF operationVars
<1>6. CASE UNCHANGED bfmVars
  BY <1>6 DEF bfmVars, operationVars
<1>7. QED
  BY <1>2, <1>3, <1>4, <1>5, <1>6 DEF BfmNext

\* The safety half of ImplementsChannel: every step of the functional model is a
\* step of the channel, one operation after the other, each answered with its own
\* reply, or leaves the channel alone.
THEOREM ChannelSafety ==
  BfmSpec => Channel!ChannelInit /\ [][Channel!ChannelNext]_<<requests, responses>>
<1>1. BfmInit => Channel!ChannelInit
  BY DEF BfmInit, Channel!ChannelInit
<1>2. QED
  BY <1>1, BfmInvariant, StepChannel, PTL DEF BfmSpec


----------------------------------------------------------------------------
(* The hex files: reading.                                                 *)

\* Induction: a set of numbers has a least one.
LEMMA LeastOf == ASSUME NEW S \in SUBSET Nat, S # {} PROVE \E n \in S : \A m \in S : n <= m
<1> DEFINE R == OpToRel(<, Nat)
<1>1. IsWellFoundedOn(R, Nat)
  BY NatLessThanWellFounded
<1>2. \A x, y \in Nat : y < x => <<y, x>> \in R
  BY DEF OpToRel
<1> HIDE DEF R
<1>3. PICK n \in S : \A m \in S : ~ (<<m, n>> \in R)
  BY <1>1, WFMin
<1>4. \A m \in S : n <= m
  <2> TAKE m \in S
  <2>1. m \in Nat /\ n \in Nat /\ ~ (<<m, n>> \in R)
    BY <1>3
  <2>2. ~ (m < n)
    BY <1>2, <2>1
  <2>3. QED
    BY <2>1, <2>2
<1>5. QED
  BY <1>4

Nothing == [data |-> <<>>, addr |-> 0]

\* f is what the loop has after each of the first k tokens.
Run(f, tokens, k) ==
  f = [n \in 0..k |-> IF n = 0 THEN Nothing ELSE read(f[n - 1], tokens[n])]

LEMMA RunSteps ==
  ASSUME NEW tokens, NEW k \in Nat, NEW f, Run(f, tokens, k)
  PROVE  f[0] = Nothing /\ \A n \in 1..k : f[n] = read(f[n - 1], tokens[n])
<1> DEFINE F(n) == IF n = 0 THEN Nothing ELSE read(f[n - 1], tokens[n])
<1>1. f = [n \in 0..k |-> F(n)]
  BY DEF Run
<1>2. \A n \in 0..k : f[n] = F(n)
  <2> HIDE DEF F
  <2>1. QED
    BY <1>1
<1>3. 0 \in 0..k /\ \A n \in 1..k : n \in 0..k /\ n # 0
  OBVIOUS
<1>4. QED
  BY <1>2, <1>3

LEMMA StepsRun ==
  ASSUME NEW tokens, NEW k \in Nat, NEW f, f = [n \in 0..k |-> f[n]],
         f[0] = Nothing, \A n \in 1..k : f[n] = read(f[n - 1], tokens[n])
  PROVE  Run(f, tokens, k)
<1> DEFINE F(n) == IF n = 0 THEN Nothing ELSE read(f[n - 1], tokens[n])
<1>1. \A n \in 0..k : f[n] = F(n)
  <2> TAKE n \in 0..k
  <2>1. n = 0 \/ n \in 1..k
    OBVIOUS
  <2>2. QED
    BY <2>1
<1>2. f = [n \in 0..k |-> F(n)]
  <2> HIDE DEF F
  <2>1. QED
    BY <1>1
<1>3. QED
  BY <1>2 DEF Run

LEMMA RunExists == ASSUME NEW tokens, NEW k \in Nat PROVE \E f : Run(f, tokens, k)
<1> DEFINE S == {n \in Nat : ~ \E f : Run(f, tokens, n)}
<1> SUFFICES ASSUME S # {} PROVE FALSE
  OBVIOUS
<1>1. PICK n \in S : \A m \in S : n <= m
  BY LeastOf
<1>2. n \in Nat /\ ~ \E f : Run(f, tokens, n)
  OBVIOUS
<1>3. CASE n = 0
  <2> DEFINE f == [i \in 0..0 |-> Nothing]
  <2>1. /\ f = [i \in 0..0 |-> f[i]] /\ f[0] = Nothing
    OBVIOUS
  <2> HIDE DEF f
  <2>2. \A i \in 1..0 : f[i] = read(f[i - 1], tokens[i])
    OBVIOUS
  <2>3. Run(f, tokens, 0)
    BY <2>1, <2>2, StepsRun
  <2>4. QED
    BY <1>2, <1>3, <2>3
<1>4. CASE n # 0
  <2>1. n - 1 \in Nat /\ n - 1 \notin S
    BY <1>1, <1>2, <1>4
  <2>2. PICK g : Run(g, tokens, n - 1)
    BY <2>1
  <2>3. g[0] = Nothing /\ \A i \in 1..(n - 1) : g[i] = read(g[i - 1], tokens[i])
    BY <2>1, <2>2, RunSteps
  <2> DEFINE f == [i \in 0..n |-> IF i = n THEN read(g[n - 1], tokens[n]) ELSE g[i]]
  <2>4. f[n] = read(g[n - 1], tokens[n]) /\ \A i \in 0..(n - 1) : f[i] = g[i]
    BY <1>2
  <2>5. f = [i \in 0..n |-> f[i]]
    OBVIOUS
  <2> HIDE DEF f
  <2>6. f[0] = Nothing
    BY <1>2, <1>4, <2>3, <2>4
  <2>7. \A i \in 1..n : f[i] = read(f[i - 1], tokens[i])
    <3> TAKE i \in 1..n
    <3>1. i - 1 \in 0..(n - 1) /\ f[i - 1] = g[i - 1]
      BY <1>2, <2>4
    <3>2. CASE i = n
      BY <2>4, <3>1, <3>2
    <3>3. CASE i # n
      <4>1. i \in 1..(n - 1) /\ i \in 0..(n - 1)
        BY <1>2, <3>3
      <4>2. QED
        BY <2>3, <2>4, <3>1, <4>1
    <3>4. QED
      BY <3>2, <3>3
  <2>8. Run(f, tokens, n)
    BY <1>2, <2>5, <2>6, <2>7, StepsRun
  <2>9. QED
    BY <1>2, <2>8
<1>5. QED
  BY <1>3, <1>4

LEMMA RunsAgree ==
  ASSUME NEW s, NEW t, NEW k \in Nat, NEW l \in Nat, NEW f, NEW g,
         Run(f, s, k), Run(g, t, l), NEW m \in Nat, m <= k, m <= l,
         \A i \in 1..m : s[i] = t[i]
  PROVE  f[m] = g[m]
<1> DEFINE S == {n \in 0..m : f[n] # g[n]}
<1> SUFFICES ASSUME f[m] # g[m] PROVE FALSE
  OBVIOUS
<1>1. /\ f[0] = Nothing /\ \A n \in 1..k : f[n] = read(f[n - 1], s[n])
      /\ g[0] = Nothing /\ \A n \in 1..l : g[n] = read(g[n - 1], t[n])
  BY RunSteps
<1>2. m \in S /\ S \in SUBSET Nat
  OBVIOUS
<1>3. PICK n \in S : \A j \in S : n <= j
  BY <1>2, LeastOf
<1>4. n \in 0..m /\ f[n] # g[n] /\ n # 0
  BY <1>1
<1>5. n - 1 \in 0..m /\ n - 1 \notin S
  BY <1>3, <1>4
<1>6. f[n - 1] = g[n - 1] /\ n \in 1..k /\ n \in 1..l /\ s[n] = t[n]
  BY <1>4, <1>5
<1>7. QED
  BY <1>1, <1>4, <1>6

LEMMA ReadingRun ==
  ASSUME NEW tokens, Len(tokens) \in Nat
  PROVE  \E f : Run(f, tokens, Len(tokens)) /\ Reading(tokens) = f[Len(tokens)]
<1> DEFINE state == CHOOSE f : Run(f, tokens, Len(tokens))
<1>1. Run(state, tokens, Len(tokens))
  BY RunExists
<1>2. Reading(tokens) = state[Len(tokens)]
  BY DEF Reading, Run, Nothing
<1>3. QED
  BY <1>1, <1>2

LEMMA ReadingNothing == Reading(<<>>) = Nothing
<1>1. Len(<<>>) = 0
  OBVIOUS
<1>2. PICK f : Run(f, <<>>, 0) /\ Reading(<<>>) = f[0]
  BY <1>1, ReadingRun
<1>3. QED
  BY <1>2, RunSteps

\* One more token.
LEMMA ReadingAppend ==
  ASSUME NEW T, NEW tokens \in Seq(T), NEW t \in T
  PROVE  Reading(Append(tokens, t)) = read(Reading(tokens), t)
<1> DEFINE L == Len(tokens)
           longer == Append(tokens, t)
<1>1. L \in Nat /\ Len(longer) = L + 1 /\ longer[L + 1] = t /\ \A i \in 1..L : longer[i] = tokens[i]
  OBVIOUS
<1> HIDE DEF longer
<1>2. PICK f : Run(f, tokens, L) /\ Reading(tokens) = f[L]
  BY <1>1, ReadingRun
<1>3. PICK g : Run(g, longer, L + 1) /\ Reading(longer) = g[L + 1]
  BY <1>1, ReadingRun
<1>4. g[L] = f[L]
  BY <1>1, <1>2, <1>3, RunsAgree
<1>5. g[L + 1] = read(g[L], longer[L + 1])
  <2>1. \A n \in 1..(L + 1) : g[n] = read(g[n - 1], longer[n])
    BY <1>1, <1>3, RunSteps
  <2>2. L + 1 \in 1..(L + 1) /\ (L + 1) - 1 = L
    BY <1>1
  <2>3. QED
    BY <2>1, <2>2
<1>6. QED
  BY <1>1, <1>2, <1>3, <1>4, <1>5 DEF longer

\* Memories, and what the loop has when it has read tokens.
IsMemory(m) == \E D \in SUBSET Nat : m \in [D -> Nat]
IsState(s)  == s = [data |-> s.data, addr |-> s.addr] /\ IsMemory(s.data) /\ s.addr \in Nat

LEMMA PlacedMemory ==
  ASSUME NEW m, IsMemory(m), NEW a \in Nat, NEW v \in Nat
  PROVE  IsMemory(Placed(m, a, v))
<1>1. PICK D \in SUBSET Nat : m \in [D -> Nat]
  BY DEF IsMemory
<1>2. Placed(m, a, v) \in [D \cup {a} -> Nat]
  BY <1>1 DEF Placed
<1>3. QED
  BY <1>2 DEF IsMemory

LEMMA ReadState ==
  ASSUME NEW s, IsState(s), NEW t \in Token
  PROVE  IsState(read(s, t))
<1>1. t.n \in Nat /\ IsMemory(s.data) /\ s.addr \in Nat
  BY DEF Token, IsState
<1>2. CASE t.kind = "@"
  BY <1>1, <1>2 DEF read, IsState
<1>3. CASE t.kind # "@"
  BY <1>1, <1>3, PlacedMemory DEF read, IsState
<1>4. QED
  BY <1>2, <1>3

LEMMA NothingState == IsState(Nothing)
<1>1. <<>> \in [{} -> Nat]
  OBVIOUS
<1>2. QED
  BY <1>1 DEF IsState, IsMemory, Nothing

LEMMA ReadingState == ASSUME NEW tokens \in Seq(Token) PROVE IsState(Reading(tokens))
<1> DEFINE L == Len(tokens)
<1>1. PICK f : Run(f, tokens, L) /\ Reading(tokens) = f[L]
  BY ReadingRun
<1> DEFINE S == {n \in 0..L : ~IsState(f[n])}
<1>2. L \in Nat /\ S \in SUBSET Nat
  OBVIOUS
<1>3. f[0] = Nothing /\ \A n \in 1..L : f[n] = read(f[n - 1], tokens[n])
  BY <1>1, <1>2, RunSteps
<1>4. SUFFICES ASSUME S # {} PROVE FALSE
  BY <1>1, <1>2
<1>5. PICK n \in S : \A j \in S : n <= j
  BY <1>2, <1>4, LeastOf
<1>6. n \in 0..L /\ ~IsState(f[n]) /\ n # 0
  BY <1>3, NothingState
<1>7. n - 1 \in 0..L /\ n - 1 \notin S /\ n \in 1..L
  BY <1>2, <1>5, <1>6
<1>8. IsState(f[n - 1]) /\ tokens[n] \in Token
  BY <1>7
<1>9. QED
  BY <1>3, <1>6, <1>7, <1>8, ReadState

----------------------------------------------------------------------------
(* Writing.                                                                *)

LEMMA TokenOf == \A n \in Nat : At(n) \in Token /\ Value(n) \in Token
BY DEF At, Value, Token

LEMMA AppendConcat ==
  ASSUME NEW s \in Seq(Token), NEW t \in Seq(Token), NEW x \in Token
  PROVE  /\ Append(s \o t, x) = s \o Append(t, x)
         /\ s \o <<>> = s
<1> DEFINE l == Append(s \o t, x)
           r == s \o Append(t, x)
<1>1. l \in Seq(Token) /\ r \in Seq(Token) /\ Len(l) = Len(r)
  OBVIOUS
<1>2. \A i \in 1..Len(l) : l[i] = r[i]
  OBVIOUS
<1>3. l = r
  <2> HIDE DEF l, r
  <2>1. QED
    BY <1>1, <1>2, SeqEqual
<1>4. QED
  BY <1>3, ConcatEmptySeq

\* The tokens of a writer, those in its buffer included.
TokensOf(w) == w.lines \o w.buffer

IsWriter(w) == w.lines \in Seq(Token) /\ w.buffer \in Seq(Token)

LEMMA AddressWrites ==
  ASSUME NEW w, IsWriter(w), NEW a \in Nat
  PROVE  /\ IsWriter(Address(w, a)) /\ TokensOf(Address(w, a)) = Append(TokensOf(w), At(a))
         /\ Address(w, a).buffer = <<>>
<1>1. /\ Address(w, a).lines = Append(w.lines \o w.buffer, At(a))
      /\ Address(w, a).buffer = <<>>
  BY DEF Address, flush_columns
<1>2. w.lines \o w.buffer \in Seq(Token) /\ At(a) \in Token
  BY TokenOf DEF IsWriter
<1>3. Append(w.lines \o w.buffer, At(a)) \in Seq(Token) /\ <<>> \in Seq(Token)
  BY <1>2
<1>4. QED
  BY <1>1, <1>2, <1>3, AppendConcat DEF IsWriter, TokensOf

LEMMA FlushWrites ==
  ASSUME NEW w, IsWriter(w)
  PROVE  IsWriter(flush_columns(w)) /\ TokensOf(flush_columns(w)) = TokensOf(w)
<1>1. flush_columns(w).lines = w.lines \o w.buffer /\ flush_columns(w).buffer = <<>>
  BY DEF flush_columns
<1>2. w.lines \o w.buffer \in Seq(Token) /\ <<>> \in Seq(Token)
  BY DEF IsWriter
<1>3. (w.lines \o w.buffer) \o <<>> = w.lines \o w.buffer
  BY <1>2, ConcatEmptySeq
<1>4. QED
  BY <1>1, <1>2, <1>3 DEF IsWriter, TokensOf

LEMMA ValueWrites ==
  ASSUME NEW w, IsWriter(w), NEW v \in Nat
  PROVE  IsWriter(value(w, v)) /\ TokensOf(value(w, v)) = Append(TokensOf(w), Value(v))
<1> DEFINE full == [lines |-> w.lines, buffer |-> Append(w.buffer, Value(v))]
<1>1. Value(v) \in Token /\ w.lines \in Seq(Token) /\ w.buffer \in Seq(Token)
  BY TokenOf DEF IsWriter
<1>2. full.lines = w.lines /\ full.buffer = Append(w.buffer, Value(v))
  OBVIOUS
<1>3. value(w, v) = full \/ value(w, v) = flush_columns(full)
  BY DEF value
<1> HIDE DEF full
<1>4. IsWriter(full)
  BY <1>1, <1>2 DEF IsWriter
<1>5. TokensOf(full) = Append(TokensOf(w), Value(v))
  <2>1. TokensOf(full) = w.lines \o Append(w.buffer, Value(v)) /\ TokensOf(w) = w.lines \o w.buffer
    BY <1>2 DEF TokensOf
  <2>2. \A s, t \in Seq(Token), x \in Token : Append(s \o t, x) = s \o Append(t, x)
    BY AppendConcat
  <2>3. Append(w.lines \o w.buffer, Value(v)) = w.lines \o Append(w.buffer, Value(v))
    BY <1>1, <2>2, Zenon
  <2>4. QED
    BY <2>1, <2>3
<1>6. QED
  BY <1>3, <1>4, <1>5, FlushWrites

----------------------------------------------------------------------------
(* Inserting.                                                              *)

LEMMA ZerosMemory ==
  ASSUME NEW m, IsMemory(m), NEW zs \in SUBSET Nat
  PROVE  IsMemory(Zeros(zs, m)) /\ DOMAIN m \subseteq DOMAIN Zeros(zs, m)
<1>1. PICK D \in SUBSET Nat : m \in [D -> Nat]
  BY DEF IsMemory
<1>2. Zeros(zs, m) \in [zs \cup D -> Nat]
  BY <1>1 DEF Zeros
<1>3. QED
  BY <1>1, <1>2 DEF IsMemory

LEMMA ZerosTwice ==
  ASSUME NEW m, NEW ys, NEW zs
  PROVE  Zeros(zs, Zeros(ys, m)) = Zeros(zs \cup ys, m)
<1>1. DOMAIN Zeros(ys, m) = ys \cup DOMAIN m
  BY DEF Zeros
<1>2. \A a \in ys \cup DOMAIN m : Zeros(ys, m)[a] = IF a \in ys THEN 0 ELSE m[a]
  BY DEF Zeros
<1> DEFINE inner == Zeros(ys, m)
<1> HIDE DEF inner
<1>3. Zeros(zs, inner) = [a \in zs \cup (ys \cup DOMAIN m) |-> IF a \in zs THEN 0 ELSE inner[a]]
  BY <1>1 DEF Zeros, inner
<1>4. Zeros(zs \cup ys, m) =
        [a \in (zs \cup ys) \cup DOMAIN m |-> IF a \in zs \cup ys THEN 0 ELSE m[a]]
  BY DEF Zeros
<1>5. \A a \in zs \cup (ys \cup DOMAIN m) :
        (IF a \in zs THEN 0 ELSE inner[a]) = (IF a \in zs \cup ys THEN 0 ELSE m[a])
  BY <1>2 DEF inner
<1>6. zs \cup (ys \cup DOMAIN m) = (zs \cup ys) \cup DOMAIN m
  OBVIOUS
<1>7. QED
  BY <1>3, <1>4, <1>5, <1>6 DEF inner

LEMMA NoZeros == ASSUME NEW m, IsMemory(m) PROVE Zeros({}, m) = m
<1>1. PICK D \in SUBSET Nat : m \in [D -> Nat]
  BY DEF IsMemory
<1>2. QED
  BY <1>1 DEF Zeros

LEMMA ExtentOf ==
  ASSUME NEW t \in Tables, NEW row \in Nobits(t)
  PROVE  Extent(t[row]) \in SUBSET Nat
<1>1. t \in Seq(Section) /\ row \in DOMAIN t
  BY HexFileAssumption DEF Nobits, parse_readelf
<1>2. t[row] \in Section
  BY <1>1
<1>3. t[row].addr \in Nat /\ t[row].size \in Nat
  BY <1>2 DEF Section
<1>4. QED
  BY <1>3 DEF Extent

LEMMA InsertZerosIn == ASSUME NEW m, NEW row PROVE Insert(m, row) = Zeros(Extent(row), m)
BY DEF Insert, Extent

----------------------------------------------------------------------------
(* The invariant.                                                          *)

HexTypes ==
  /\ v_hex_file \in VHexFiles /\ table \in Tables
  /\ IsMemory(data) /\ init_zeros \subseteq Nobits(table)
  /\ address \subseteq DOMAIN data /\ last_addr \in Nat
  /\ IsWriter(Writer)
  /\ phase \in {"debug", "zeros", "hex", "done"}

loaded == parse_verilog_hex(v_hex_file)

\* The memory is the file's, with zeros where sections have been inserted.
ImageInv ==
  /\ data = Zeros(Zeroed(Nobits(table) \ init_zeros), loaded)
  /\ phase = "debug" => init_zeros = Nobits(table)
  /\ phase \in {"hex", "done"} => init_zeros = {}

\* Where a reader of what is written would go on.
LoopInv ==
  phase \in {"debug", "hex"} /\ ~StartsAtOne(data) =>
    IF address = DOMAIN data THEN Tokens = <<>> /\ last_addr = 0
                             ELSE Reading(Tokens).addr = last_addr + 1

DoneInv ==
  /\ phase = "done" => address = {} /\ buffer = <<>>
  /\ phase # "debug" /\ ~StartsAtOne(loaded) => parse_verilog_hex(debug_hex) = loaded

HexInv == HexTypes /\ ImageInv /\ LoopInv /\ DoneInv /\ ReadsBack

LEMMA LoadedMemory == ASSUME v_hex_file \in VHexFiles PROVE IsMemory(loaded)
<1>1. v_hex_file \in Seq(Token)
  BY HexFileAssumption
<1>2. QED
  BY <1>1, ReadingState DEF IsState, loaded, parse_verilog_hex

LEMMA EmptyMemory == ASSUME NEW m PROVE [a \in DOMAIN m \ DOMAIN m |-> m[a]] = <<>>
OBVIOUS

LEMMA WholeMemory == ASSUME NEW m, IsMemory(m) PROVE [a \in DOMAIN m \ {} |-> m[a]] = m
<1>1. PICK D \in SUBSET Nat : m \in [D -> Nat]
  BY DEF IsMemory
<1>2. QED
  BY <1>1

LEMMA NothingRead == parse_verilog_hex(<<>>) = <<>>
BY ReadingNothing DEF parse_verilog_hex, Nothing

\* An address at the end changes nothing that is read.
LEMMA ReadAddress ==
  ASSUME NEW tokens \in Seq(Token), NEW a \in Nat
  PROVE  Reading(Append(tokens, At(a))) = [data |-> Reading(tokens).data, addr |-> a]
<1>1. Reading(Append(tokens, At(a))) = read(Reading(tokens), At(a))
  BY TokenOf, ReadingAppend
<1>2. At(a).kind = "@" /\ At(a).n = a
  BY DEF At
<1>3. QED
  BY <1>1, <1>2 DEF read

LEMMA ReadValue ==
  ASSUME NEW tokens \in Seq(Token), NEW v \in Nat
  PROVE  Reading(Append(tokens, Value(v))) =
           [data |-> Placed(Reading(tokens).data, Reading(tokens).addr, v),
            addr |-> Reading(tokens).addr + 1]
<1>1. Reading(Append(tokens, Value(v))) = read(Reading(tokens), Value(v))
  BY TokenOf, ReadingAppend
<1>2. Value(v).kind # "@" /\ Value(v).n = v
  BY DEF Value
<1>3. QED
  BY <1>1, <1>2 DEF read

LEMMA WriterTokens == IsWriter(Writer) => Tokens \in Seq(Token) /\ TokensOf(Writer) = Tokens
BY DEF IsWriter, Writer, Tokens, TokensOf

LEMMA HexInitInv == HexInit => HexInv
<1> SUFFICES ASSUME HexInit PROVE HexInv
  OBVIOUS
<1> USE DEF HexInit
<1>1. IsMemory(data)
  BY LoadedMemory DEF loaded
<1>2. lines = <<>> /\ buffer = <<>> /\ Tokens = <<>>
  BY DEF Tokens
<1>3. HexTypes
  <2>1. IsWriter(Writer)
    BY <1>2 DEF IsWriter, Writer
  <2>2. QED
    BY <1>1, <2>1 DEF HexTypes
<1>4. ImageInv
  <2>1. Zeroed(Nobits(table) \ init_zeros) = {}
    BY DEF Zeroed
  <2>2. QED
    BY <1>1, <2>1, NoZeros DEF ImageInv, loaded
<1>5. LoopInv /\ DoneInv
  BY <1>2 DEF LoopInv, DoneInv
<1>6. ReadsBack
  BY <1>2, NothingRead, EmptyMemory DEF ReadsBack
<1>7. QED
  BY <1>3, <1>4, <1>5, <1>6 DEF HexInv

\* What an iteration of the loop makes of what a reader has.
LEMMA WriteReads ==
  ASSUME HexInv, phase \in {"debug", "hex"}, ~StartsAtOne(data),
         NEW addr \in address, Least(addr, address),
         NEW w, w = (IF addr # last_addr + 1 THEN Address(Writer, addr) ELSE Writer)
  PROVE  Reading(TokensOf(value(w, data[addr]))) =
           [data |-> Placed(parse_verilog_hex(Tokens), addr, data[addr]), addr |-> addr + 1]
<1>1. IsWriter(Writer) /\ last_addr \in Nat /\ address \subseteq DOMAIN data
  BY DEF HexInv, HexTypes
<1>2. addr \in Nat /\ data[addr] \in Nat
  <2>1. PICK D \in SUBSET Nat : data \in [D -> Nat]
    BY DEF HexInv, HexTypes, IsMemory
  <2>2. QED
    BY <1>1, <2>1
<1>3. Tokens \in Seq(Token) /\ TokensOf(Writer) = Tokens
  BY <1>1, WriterTokens
<1>4. IsWriter(w) /\ Reading(TokensOf(w)) = [data |-> parse_verilog_hex(Tokens), addr |-> addr]
  <2>1. CASE addr # last_addr + 1
    <3>1. w = Address(Writer, addr)
      BY <2>1
    <3>2. IsWriter(w) /\ TokensOf(w) = Append(Tokens, At(addr))
      BY <1>1, <1>2, <1>3, <3>1, AddressWrites
    <3>3. QED
      BY <1>2, <1>3, <3>2, ReadAddress DEF parse_verilog_hex
  <2>2. CASE addr = last_addr + 1
    <3>1. w = Writer
      BY <2>2
    <3>2. address # DOMAIN data
      <4>1. SUFFICES ASSUME address = DOMAIN data PROVE FALSE
        OBVIOUS
      <4>2. last_addr = 0
        BY <4>1 DEF HexInv, LoopInv
      <4>3. addr = 1 /\ 1 \in DOMAIN data /\ 0 \notin DOMAIN data
        BY <2>2, <4>1, <4>2 DEF Least
      <4>4. QED
        BY <4>3 DEF StartsAtOne
    <3>3. Reading(Tokens).addr = addr
      BY <2>2, <3>2 DEF HexInv, LoopInv
    <3>4. Reading(Tokens) = [data |-> Reading(Tokens).data, addr |-> Reading(Tokens).addr]
      BY <1>3, ReadingState DEF IsState
    <3>5. QED
      BY <1>1, <1>3, <3>1, <3>3, <3>4 DEF parse_verilog_hex
  <2>3. QED
    BY <2>1, <2>2
<1>5. TokensOf(w) \in Seq(Token)
  BY <1>4 DEF IsWriter, TokensOf
<1>6. TokensOf(value(w, data[addr])) = Append(TokensOf(w), Value(data[addr]))
  BY <1>2, <1>4, ValueWrites
<1>7. Reading(TokensOf(w)).data = parse_verilog_hex(Tokens) /\ Reading(TokensOf(w)).addr = addr
  BY <1>4
<1> DEFINE tokens == TokensOf(w)
           v == data[addr]
<1>8. tokens \in Seq(Token) /\ v \in Nat
  BY <1>2, <1>5
<1>9. Reading(Append(tokens, Value(v))) =
        [data |-> Placed(Reading(tokens).data, Reading(tokens).addr, v),
         addr |-> Reading(tokens).addr + 1]
  <2> HIDE DEF tokens, v
  <2>1. QED
    BY <1>8, ReadValue
<1>10. QED
  BY <1>6, <1>7, <1>9

\* The part of the memory that is written grows by the address.
LEMMA WrittenGrows ==
  ASSUME NEW m, NEW S \in SUBSET DOMAIN m, NEW a \in S
  PROVE  /\ Placed([b \in DOMAIN m \ S |-> m[b]], a, m[a]) =
              [b \in DOMAIN m \ (S \ {a}) |-> m[b]]
         /\ S \ {a} # DOMAIN m
<1> DEFINE part == [b \in DOMAIN m \ S |-> m[b]]
<1>1. DOMAIN part \cup {a} = DOMAIN m \ (S \ {a})
  OBVIOUS
<1>2. \A b \in DOMAIN part \cup {a} : (IF b = a THEN m[a] ELSE part[b]) = m[b]
  OBVIOUS
<1>3. Placed(part, a, m[a]) = [b \in DOMAIN part \cup {a} |-> IF b = a THEN m[a] ELSE part[b]]
  BY DEF Placed
<1>4. QED
  <2> HIDE DEF part
  <2>1. Placed(part, a, m[a]) = [b \in DOMAIN m \ (S \ {a}) |-> m[b]]
    BY <1>1, <1>2, <1>3
  <2>2. QED
    BY <2>1 DEF part

LEMMA WriteValueInv == HexInv /\ WriteValue => HexInv'
<1> SUFFICES ASSUME HexInv, WriteValue PROVE HexInv'
  OBVIOUS
<1>1. PICK addr \in address :
        /\ Least(addr, address)
        /\ LET w == IF addr # last_addr + 1 THEN Address(Writer, addr) ELSE Writer
           IN  Becomes(value(w, data[addr]))
        /\ last_addr' = addr /\ address' = address \ {addr}
  BY DEF WriteValue
<1> DEFINE w == IF addr # last_addr + 1 THEN Address(Writer, addr) ELSE Writer
           after == value(w, data[addr])
<1>2. /\ lines' = after.lines /\ buffer' = after.buffer
      /\ last_addr' = addr /\ address' = address \ {addr} /\ phase \in {"debug", "hex"}
      /\ UNCHANGED <<v_hex_file, table, data, init_zeros, debug_hex, phase>>
  BY <1>1 DEF WriteValue, Becomes
<1>3. IsWriter(Writer) /\ last_addr \in Nat /\ address \subseteq DOMAIN data
  BY DEF HexInv, HexTypes
<1>4. addr \in Nat /\ data[addr] \in Nat
  <2>1. PICK D \in SUBSET Nat : data \in [D -> Nat]
    BY DEF HexInv, HexTypes, IsMemory
  <2>2. QED
    BY <1>3, <2>1
<1>5. IsWriter(w)
  BY <1>3, <1>4, AddressWrites
<1>6. IsWriter(after)
  BY <1>4, <1>5, ValueWrites
<1>7. Tokens' = TokensOf(after) /\ Writer'.lines = after.lines /\ Writer'.buffer = after.buffer
  BY <1>2 DEF Tokens, TokensOf, Writer
<1>8. ~StartsAtOne(data) =>
        Reading(Tokens)' = [data |-> Placed(parse_verilog_hex(Tokens), addr, data[addr]),
                            addr |-> addr + 1]
  BY <1>1, <1>2, <1>7, WriteReads
<1> HIDE DEF w, after
<1>9. HexTypes'
  BY <1>2, <1>3, <1>4, <1>6, <1>7 DEF HexInv, HexTypes, IsWriter
<1>10. ImageInv' /\ DoneInv'
  <2>1. loaded' = loaded /\ Zeroed(Nobits(table) \ init_zeros)' = Zeroed(Nobits(table) \ init_zeros)
    BY <1>2 DEF loaded, Zeroed
  <2>2. DoneInv'
    BY <1>2, <2>1 DEF HexInv, DoneInv
  <2>3. ImageInv'
    BY <1>2, <2>1 DEF HexInv, ImageInv
  <2>4. QED
    BY <2>2, <2>3
<1>11. address' # DOMAIN data'
  BY <1>2, <1>3
<1>12. LoopInv'
  BY <1>2, <1>8, <1>11 DEF LoopInv
<1>13. ReadsBack'
  <2>1. SUFFICES ASSUME ~StartsAtOne(data)
                 PROVE  parse_verilog_hex(Tokens') = [a \in DOMAIN data \ address' |-> data[a]]
    BY <1>2 DEF ReadsBack
  <2>2. parse_verilog_hex(Tokens) = [a \in DOMAIN data \ address |-> data[a]]
    BY <1>2, <2>1 DEF HexInv, ReadsBack
  <2>3. parse_verilog_hex(Tokens') = Placed(parse_verilog_hex(Tokens), addr, data[addr])
    BY <1>8, <2>1 DEF parse_verilog_hex
  <2>4. Placed([a \in DOMAIN data \ address |-> data[a]], addr, data[addr]) =
          [a \in DOMAIN data \ (address \ {addr}) |-> data[a]]
    BY <1>3, WrittenGrows
  <2>5. QED
    BY <1>2, <2>2, <2>3, <2>4
<1>14. QED
  BY <1>9, <1>10, <1>12, <1>13 DEF HexInv

LEMMA CloseInv == HexInv /\ Close => HexInv'
<1> SUFFICES ASSUME HexInv, Close PROVE HexInv'
  OBVIOUS
<1> DEFINE after == Address(Writer, last_addr + 1)
<1>1. /\ lines' = after.lines /\ buffer' = after.buffer
      /\ phase \in {"debug", "hex"} /\ address = {}
      /\ UNCHANGED <<v_hex_file, table, data, init_zeros, address, last_addr>>
  BY DEF Close, Becomes
<1>2. IsWriter(Writer) /\ last_addr + 1 \in Nat
  BY DEF HexInv, HexTypes
<1>3. IsWriter(after) /\ TokensOf(after) = Append(TokensOf(Writer), At(last_addr + 1))
      /\ after.buffer = <<>>
  BY <1>2, AddressWrites
<1>4. Tokens \in Seq(Token) /\ TokensOf(Writer) = Tokens
  BY <1>2, WriterTokens
<1>5. Tokens' = TokensOf(after) /\ Writer'.lines = after.lines /\ Writer'.buffer = after.buffer
  BY <1>1 DEF Tokens, TokensOf, Writer
<1> HIDE DEF after
<1>6. parse_verilog_hex(Tokens') = parse_verilog_hex(Tokens)
  <2>1. Reading(Append(Tokens, At(last_addr + 1))) =
          [data |-> Reading(Tokens).data, addr |-> last_addr + 1]
    BY <1>2, <1>4, ReadAddress
  <2>2. QED
    BY <1>3, <1>4, <1>5, <2>1 DEF parse_verilog_hex
<1>7. lines' = Tokens' /\ buffer' = <<>>
  <2>1. lines' \in Seq(Token) /\ buffer' = <<>>
    BY <1>1, <1>3 DEF IsWriter
  <2>2. lines' \o <<>> = lines'
    BY <2>1, ConcatEmptySeq
  <2>3. QED
    BY <2>1, <2>2 DEF Tokens
<1>8. phase' \in {"zeros", "done"}
  BY <1>1 DEF Close
<1>9. ~StartsAtOne(data) => parse_verilog_hex(Tokens) = data
  BY <1>1, WholeMemory DEF HexInv, HexTypes, ReadsBack
<1>10. loaded' = loaded /\ Zeroed(Nobits(table) \ init_zeros)' = Zeroed(Nobits(table) \ init_zeros)
  BY <1>1 DEF loaded, Zeroed
<1>11. HexTypes'
  BY <1>1, <1>3, <1>5, <1>8 DEF HexInv, HexTypes, IsWriter
<1>12. ImageInv'
  BY <1>1, <1>8, <1>10 DEF HexInv, ImageInv, Close
<1>13. LoopInv'
  BY <1>8 DEF LoopInv
<1>14. DoneInv'
  <2>1. phase' = "done" => address' = {} /\ buffer' = <<>>
    BY <1>1, <1>7
  <2>2. CASE phase = "debug"
    <3>1. data = loaded
      <4>1. Zeroed(Nobits(table) \ init_zeros) = {}
        BY <2>2 DEF HexInv, ImageInv, Zeroed
      <4>2. IsMemory(loaded)
        BY LoadedMemory DEF HexInv, HexTypes
      <4>3. QED
        BY <4>1, <4>2, NoZeros DEF HexInv, ImageInv
    <3>2. debug_hex' = Tokens'
      BY <1>7, <2>2 DEF Close
    <3>3. QED
      BY <1>6, <1>9, <1>10, <2>1, <3>1, <3>2 DEF DoneInv
  <2>3. CASE phase # "debug"
    BY <1>10, <2>1, <2>3 DEF HexInv, DoneInv, Close
  <2>4. QED
    BY <2>2, <2>3
<1>15. ReadsBack'
  <2>1. CASE phase' = "done" /\ ~StartsAtOne(data)
    <3>1. parse_verilog_hex(Tokens') = data /\ address' = {} /\ data' = data
      BY <1>1, <1>6, <1>9, <2>1
    <3>2. [a \in DOMAIN data \ {} |-> data[a]] = data
      BY WholeMemory DEF HexInv, HexTypes
    <3>3. QED
      BY <3>1, <3>2 DEF ReadsBack
  <2>2. QED
    BY <1>1, <1>8, <2>1 DEF ReadsBack
<1>16. QED
  BY <1>11, <1>12, <1>13, <1>14, <1>15 DEF HexInv

LEMMA InsertZerosInv == HexInv /\ InsertZeros => HexInv'
<1> SUFFICES ASSUME HexInv, InsertZeros PROVE HexInv'
  OBVIOUS
<1>1. PICK row \in init_zeros : /\ data' = Insert(data, table[row])
                                /\ init_zeros' = init_zeros \ {row}
  BY DEF InsertZeros
<1>2. /\ phase = "zeros"
      /\ UNCHANGED <<v_hex_file, table, address, last_addr, lines, buffer, debug_hex, phase>>
  BY DEF InsertZeros
<1> DEFINE rows == Nobits(table) \ init_zeros
           extent == Extent(table[row])
<1>3. row \in Nobits(table) /\ extent \in SUBSET Nat
  BY <1>1, ExtentOf DEF HexInv, HexTypes
<1>4. data' = Zeros(extent, data)
  BY <1>1, InsertZerosIn
<1>5. loaded' = loaded /\ Nobits(table)' = Nobits(table)
  BY <1>2 DEF loaded
<1>6. Zeroed(Nobits(table) \ init_zeros)' = extent \cup Zeroed(rows)
  <2>1. Nobits(table) \ init_zeros' = rows \cup {row}
    BY <1>1, <1>3
  <2>2. UNION {Extent(table[n]) : n \in rows \cup {row}} =
          Extent(table[row]) \cup UNION {Extent(table[n]) : n \in rows}
    OBVIOUS
  <2>3. QED
    BY <1>2, <1>5, <2>1, <2>2 DEF Zeroed
<1> HIDE DEF rows, extent
<1>7. HexTypes'
  <2>1. IsMemory(data') /\ DOMAIN data \subseteq DOMAIN data'
    BY <1>3, <1>4, ZerosMemory DEF HexInv, HexTypes
  <2>2. QED
    BY <1>1, <1>2, <2>1 DEF HexInv, HexTypes, Writer, IsWriter
<1>8. ImageInv'
  <2>1. data = Zeros(Zeroed(rows), loaded)
    BY DEF HexInv, ImageInv, rows
  <2>2. data' = Zeros(extent \cup Zeroed(rows), loaded)
    BY <1>4, <2>1, ZerosTwice
  <2>3. QED
    BY <1>2, <1>5, <1>6, <2>2 DEF ImageInv
<1>9. LoopInv' /\ DoneInv' /\ ReadsBack'
  BY <1>2, <1>5 DEF HexInv, LoopInv, DoneInv, ReadsBack
<1>10. QED
  BY <1>7, <1>8, <1>9 DEF HexInv

LEMMA BeginHexInv == HexInv /\ BeginHex => HexInv'
<1> SUFFICES ASSUME HexInv, BeginHex PROVE HexInv'
  OBVIOUS
<1>1. /\ init_zeros = {} /\ phase = "zeros" /\ phase' = "hex" /\ address' = DOMAIN data
      /\ last_addr' = 0 /\ lines' = <<>> /\ buffer' = <<>>
      /\ UNCHANGED <<v_hex_file, table, data, init_zeros, debug_hex>>
  BY DEF BeginHex
<1>2. Tokens' = <<>>
  BY <1>1 DEF Tokens
<1>3. loaded' = loaded /\ Zeroed(Nobits(table) \ init_zeros)' = Zeroed(Nobits(table) \ init_zeros)
  BY <1>1 DEF loaded, Zeroed
<1>4. HexTypes'
  <2>1. IsWriter(Writer)'
    BY <1>1 DEF IsWriter, Writer
  <2>2. QED
    BY <1>1, <2>1 DEF HexInv, HexTypes
<1>5. ImageInv'
  BY <1>1, <1>3 DEF HexInv, ImageInv
<1>6. LoopInv'
  BY <1>1, <1>2 DEF LoopInv
<1>7. DoneInv'
  BY <1>1, <1>3 DEF HexInv, DoneInv
<1>8. ReadsBack'
  BY <1>1, <1>2, NothingRead, EmptyMemory DEF ReadsBack
<1>9. QED
  BY <1>4, <1>5, <1>6, <1>7, <1>8 DEF HexInv

LEMMA HexStutterInv == HexInv /\ UNCHANGED hexVars => HexInv'
<1> SUFFICES ASSUME HexInv, UNCHANGED hexVars PROVE HexInv'
  OBVIOUS
<1>1. HexTypes'
  BY DEF HexInv, HexTypes, hexVars, Writer, IsWriter
<1>2. loaded' = loaded /\ Zeroed(Nobits(table) \ init_zeros)' = Zeroed(Nobits(table) \ init_zeros)
      /\ Tokens' = Tokens
  BY DEF hexVars, loaded, Zeroed, Tokens
<1>3. ImageInv' /\ LoopInv' /\ DoneInv' /\ ReadsBack'
  BY <1>2 DEF HexInv, ImageInv, LoopInv, DoneInv, ReadsBack, hexVars
<1>4. QED
  BY <1>1, <1>3 DEF HexInv

\* The memory is the file's image, and what is written reads back as the part
\* of it that the loop has gone through.
THEOREM HexInvariant == HexSpec => []HexInv
<1>1. HexInv /\ [HexNext]_hexVars => HexInv'
  BY WriteValueInv, CloseInv, InsertZerosInv, BeginHexInv, HexStutterInv DEF HexNext
<1>2. QED
  BY HexInitInv, <1>1, PTL DEF HexSpec

\* No value is lost, doubled or displaced by write_verilog_hex.
THEOREM ReadsBackHolds == HexSpec => []ReadsBack
<1>1. HexInv => ReadsBack
  BY DEF HexInv
<1>2. QED
  BY <1>1, HexInvariant, PTL

\* The two files that generate_hex_file writes have the bytes of the ELF file,
\* the second also zeros for the sections without contents.
THEOREM HexFileCompleteHolds == HexSpec => []HexFileComplete
<1>1. HexInv => HexFileComplete
  <2> SUFFICES ASSUME HexInv PROVE HexFileComplete
    OBVIOUS
  <2> DEFINE image == Zeros(Zeroed(Nobits(table)), loaded)
  <2>1. phase # "debug" /\ ~StartsAtOne(loaded) => parse_verilog_hex(debug_hex) = loaded
    BY DEF HexInv, DoneInv
  <2>2. phase = "done" /\ ~StartsAtOne(image) => parse_verilog_hex(lines) = image
    <3>1. SUFFICES ASSUME phase = "done", ~StartsAtOne(image)
                   PROVE  parse_verilog_hex(lines) = image
      OBVIOUS
    <3>2. init_zeros = {} /\ address = {} /\ buffer = <<>>
      BY <3>1 DEF HexInv, ImageInv, DoneInv
    <3>3. data = image
      <4>1. Nobits(table) \ init_zeros = Nobits(table)
        BY <3>2
      <4>2. QED
        BY <4>1 DEF HexInv, ImageInv
    <3>4. Tokens = lines
      BY <3>2, ConcatEmptySeq DEF HexInv, HexTypes, IsWriter, Writer, Tokens
    <3>5. parse_verilog_hex(Tokens) = [a \in DOMAIN data \ {} |-> data[a]]
      BY <3>1, <3>2, <3>3 DEF HexInv, ReadsBack
    <3>6. [a \in DOMAIN data \ {} |-> data[a]] = data
      BY WholeMemory DEF HexInv, HexTypes
    <3>7. QED
      BY <3>3, <3>4, <3>5, <3>6
  <2>3. QED
    BY <2>1, <2>2 DEF HexFileComplete, loaded
<1>2. QED
  BY <1>1, HexInvariant, PTL

=============================================================================
