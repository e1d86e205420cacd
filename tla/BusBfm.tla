-------------------------------- MODULE BusBfm ------------------------------
(***************************************************************************)
(* The bus functional models of one bus channel (bus.py) at the            *)
(* granularity of their coroutines: the request monitor and its callback,  *)
(* the driver that sends the responses, and the full monitor that pairs    *)
(* requests with responses.  The three channels of the bus have the same   *)
(* coroutines.  The circuit is any bus master that, as the cores do, is    *)
(* always ready for an answer, presents a request for one cycle, has one   *)
(* transaction at a time, and makes no request in the edge that takes an   *)
(* answer.                                                                 *)
(***************************************************************************)
EXTENDS Simulator, SequencesExt

CONSTANTS
  Answer,      \* what the callback answers, a function of the request
  Refused,     \* the requests that end the test: past the end of the program
  MaxRequests  \* bound of the model

ASSUME BusBfmAssumption == Refused \subseteq DOMAIN Answer /\ MaxRequests \in Nat

VARIABLES
  queue,         \* the driver's; the first item stays until it is sent
  seen,          \* what the request monitor has received
  transactions,  \* what the full monitor has received
  busy,          \* the circuit waits for an answer
  requests, responses  \* what it has requested, and taken as answers

benchVars == <<queue, seen, transactions>>
masterVars == <<busy, requests, responses>>
vars == <<simVars, benchVars, masterVars>>

\* An item of the driver: the signal that it drives.
Response(data) == [resp |-> data]
AssertReady(value) == [req_ready |-> value]

TypeOK ==
  /\ SimTypeOK
  /\ queue \in Seq({Response(Answer[r]) : r \in DOMAIN Answer}
                     \cup {AssertReady(v) : v \in BOOLEAN})
  /\ seen \in Seq(DOMAIN Answer) /\ requests \in Seq(DOMAIN Answer)
  /\ busy \in BOOLEAN

----------------------------------------------------------------------------
(* Coroutines of the testbench.                                            *)

in_reset == ~bus.reset_n

\* SimpleBfm.reset
reset == /\ UNCHANGED <<benchVars, masterVars>>
         /\ \/ /\ Runs("reset", "assert")
               /\ Write([reset_n |-> FALSE]) /\ Await("reset", "release", "RisingEdge")
            \/ /\ Runs("reset", "release")
               /\ Write([reset_n |-> TRUE]) /\ Await("reset", "done", "event")

\* The conditions on which recv_payload yields.
Requested == ~in_reset /\ bus.req_ready /\ bus.req_valid

\* Mutant: valid is not looked at.
RespondedReady == ~in_reset /\ bus.resp_ready

Responded == ~in_reset /\ bus.resp_ready /\ bus.resp_valid

\* Mutant: the request is echoed.
memory_callback_echo(request) ==
  IF request \in Refused THEN AssertReady(FALSE) ELSE Response(request)

memory_callback(request) ==
  IF request \in Refused THEN AssertReady(FALSE) ELSE Response(Answer[request])

\* The request monitor; the callback's append wakes an idle driver.
req_monitor ==
  /\ Runs("req_monitor", "receive")
  /\ IF Requested
       THEN /\ seen' = Append(seen, bus.req)
            /\ queue' = Append(queue, memory_callback(bus.req))
            /\ Continue("req_monitor",
                 IF queue = <<>>
                   THEN [req_monitor |-> Task("receive", "Sample"), driver |-> Task("get", "now")]
                   ELSE [req_monitor |-> Task("receive", "Sample")])
       ELSE Await("req_monitor", "receive", "Sample") /\ UNCHANGED <<seen, queue>>
  /\ UNCHANGED <<transactions, masterVars, writes>>

\* The monitor of requests and responses takes the next response for the
\* response to the request before it.
full_monitor ==
  /\ \/ /\ Runs("full_monitor", "request")
        /\ Await("full_monitor", IF Requested THEN "response" ELSE "request", "Sample")
        /\ transactions' = IF Requested THEN Append(transactions, <<bus.req>>) ELSE transactions
     \/ /\ Runs("full_monitor", "response")
        /\ Await("full_monitor", IF Responded THEN "request" ELSE "response", "Sample")
        /\ transactions' = IF Responded
                             THEN [transactions EXCEPT ![Len(transactions)] = Append(@, bus.resp)]
                             ELSE transactions
  /\ UNCHANGED <<queue, seen, masterVars, writes>>

\* BusSourceDriver: send_payload (wait, send, hold) or drive_ready.
Get == /\ Runs("driver", "get") /\ UNCHANGED <<queue, writes>>
       /\ CASE queue = <<>> -> Await("driver", "get", "event")
            [] queue # <<>> /\ "resp" \in DOMAIN Head(queue) -> Await("driver", "wait", "ReadOnly")
            [] OTHER -> Await("driver", "drive_ready", "RisingEdge")

wait_for_signal == /\ Runs("driver", "wait") /\ UNCHANGED <<queue, writes>>
                   /\ IF in_reset \/ ~bus.resp_ready THEN Await("driver", "wait", "Sample")
                      ELSE Await("driver", "send", "NextTimeStep")

\* Mutant: valid is held for a time step, not to the next rising edge.
SendShort == /\ Runs("driver", "send") /\ UNCHANGED queue
             /\ Write(Updated(Head(queue), [resp_valid |-> TRUE]))
             /\ Await("driver", "hold", "NextTimeStep")

Send == /\ Runs("driver", "send") /\ UNCHANGED queue
        /\ Write(Updated(Head(queue), [resp_valid |-> TRUE]))
        /\ Await("driver", "hold", "AfterEdge")

\* Mutant: the response stays valid until the signal is seen again.
HoldOn == /\ Runs("driver", "hold") /\ queue' = Tail(queue) /\ UNCHANGED writes
          /\ Await("driver", "get", "now")

Hold == /\ Runs("driver", "hold") /\ queue' = Tail(queue)
        /\ Write([resp_valid |-> FALSE]) /\ Await("driver", "get", "now")

drive_ready == /\ Runs("driver", "drive_ready") /\ queue' = Tail(queue)
               /\ Write(Head(queue)) /\ Await("driver", "get", "now")

driver == /\ Get \/ wait_for_signal \/ Send \/ Hold \/ drive_ready
          /\ UNCHANGED <<seen, transactions, masterVars>>

----------------------------------------------------------------------------
(* The circuit at a rising edge, with the inputs s.                        *)

Idles(s) == /\ Write([req_valid |-> FALSE])
            /\ busy' = (busy /\ s.reset_n /\ ~s.resp_valid)
            /\ UNCHANGED requests

Requests(s) == /\ s.reset_n /\ ~busy /\ ~s.resp_valid /\ Len(requests) < MaxRequests
               /\ busy' = TRUE
               /\ \E r \in DOMAIN Answer :
                    /\ requests' = Append(requests, r)
                    /\ Write([req_valid |-> TRUE, req |-> r])

Clock == /\ RisingEdge
         /\ \E s \in Sampled :
              /\ responses' = IF s.reset_n /\ s.resp_valid THEN Append(responses, s.resp)
                                                           ELSE responses
              /\ Idles(s) \/ Requests(s)
         /\ UNCHANGED benchVars

Init == \E r \in DOMAIN Answer, v \in BOOLEAN :
  /\ SimInit([reset |-> Task("assert", "RisingEdge"), driver |-> Task("get", "now"),
              req_monitor |-> Task("receive", "Sample"),
              full_monitor |-> Task("request", "Sample")],
             [reset_n |-> FALSE, req_valid |-> v, req |-> r, req_ready |-> FALSE,
              resp_valid |-> FALSE, resp |-> Answer[r], resp_ready |-> TRUE])
  /\ queue = <<AssertReady(TRUE)>> /\ seen = <<>> /\ transactions = <<>>
  /\ busy = FALSE /\ requests = <<>> /\ responses = <<>>

Next == \/ reset \/ req_monitor \/ full_monitor \/ driver
        \/ Clock
        \/ Pass /\ UNCHANGED <<benchVars, masterVars>>

\* Time goes on.
Spec == Init /\ [][Next]_vars /\ WF_vars(Next)

----------------------------------------------------------------------------
(* Properties.                                                             *)

\* Each request is answered once, with its own answer and before the next one,
\* or refused for good.
Channel == INSTANCE Channel

ImplementsChannel == Channel!ChannelSpec

\* The request monitor has received what the circuit has requested and the
\* full monitor has paired each request with its response, however the
\* coroutines of a time step are ordered.
Exchanged == [n \in DOMAIN requests |->
                IF n \in DOMAIN responses THEN <<requests[n], responses[n]>>
                                          ELSE <<requests[n]>>]

Observed == slot = "before" => seen = requests
                            /\ transactions = Exchanged

\* A response is never driven, or taken back, in the time step of a rising
\* edge, where the circuit might miss it or see it twice.
NoRace == slot = "before" => \A s \in Sampled : s.resp_valid = bus.resp_valid

=============================================================================
