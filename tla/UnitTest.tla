------------------------------- MODULE UnitTest -----------------------------
(***************************************************************************)
(* A self-checking unit test of Copperv2 (run_unit_test): the core, the    *)
(* testbench, and its self-checking part, which is the monitors of the     *)
(* register file (regfile.py), the full monitors of the data channels      *)
(* (bus.py), the scoreboard that compares what they receive with the       *)
(* expected lists of the test, and finish() (testbench.py).                *)
(*                                                                         *)
(* A step is a clock cycle: the monitors sample the signals of the cycle,  *)
(* finish() looks at the lists at the edge that ends it.                   *)
(***************************************************************************)
EXTENDS Testbench, Loader

VARIABLES
  rs_enabled,        \* recv_rs: the ports enabled in the cycle before
  dr_open, dw_open,  \* the full monitors: the request without response, if any
  dr_sent, dw_sent,  \* the responses on the wires in this cycle
  expected,          \* per interface, the transactions still to come
  failed,            \* the scoreboard has raised an error
  finishing          \* the clock cycles to the end of the test, or Waiting

checkVars == <<rs_enabled, dr_open, dw_open, dr_sent, dw_sent, expected,
               failed, finishing>>

Waiting == 3

Interface == {"regfile_write", "regfile_read", "bus_dr", "bus_dw"}

----------------------------------------------------------------------------
(* Receivers and monitors: the sequence of what each one has in this cycle. *)

recv_rd == IF rd_en(inst_type) THEN << <<idec.rd, rd_din>> >> ELSE <<>>

RegFileWriteMonitor(received) ==
  [n \in DOMAIN received |-> RegFileWriteTransaction(received[n][1], received[n][2])]

\* Enables in one cycle, address and data in the next, in which no enable is
\* looked at.
Enabled == (IF rs1_en(inst_type) THEN {"rs1"} ELSE {}) \cup
           (IF rs2_en(inst_type) THEN {"rs2"} ELSE {})

Port(enabled, rs, value) == IF enabled THEN << <<rs, value>> >> ELSE <<>>

\* Mutant: the data is sampled with the enable.
recv_rs_early == Port("rs1" \in Enabled, idec.rs1, rs1_value) \o
                 Port("rs2" \in Enabled, idec.rs2, rs2_value)

recv_rs == Port("rs1" \in rs_enabled, idec.rs1, rs1_value) \o
           Port("rs2" \in rs_enabled, idec.rs2, rs2_value)

RegFileReadMonitor(received) ==
  IF received = <<>> THEN <<>> ELSE <<RegFileReadTransaction(received)>>

\* BusMonitor._monitor_recv with both receivers: what is open after the cycle,
\* and whether a transaction is complete.
Open(open, request, payload, sent) ==
  CASE open = <<>> /\ request     -> <<payload>>
    [] open # <<>> /\ sent # <<>> -> <<>>
    [] OTHER                      -> open

Complete(open, sent) == open # <<>> /\ sent # <<>>

bus_dr == IF Complete(dr_open, dr_sent)
            THEN <<BusReadTransaction(dr_open[1], dr_sent[1])>> ELSE <<>>

bus_dw == IF Complete(dw_open, dw_sent)
            THEN LET r == dw_open[1]
                 IN  <<BusWriteTransaction(r.addr, r.data, r.strobe, dw_sent[1])>>
            ELSE <<>>

----------------------------------------------------------------------------
(* Scoreboard and finish().                                                *)

\* The list without what has been received.
Remaining(list, received) ==
  IF received = <<>> \/ list = <<>> THEN list ELSE Tail(list)

Mismatch(list, received) ==
  received # <<>> /\ (list = <<>> \/ Head(list) # Head(received))

\* Mutant: the writes to the bus are not waited for.
AllReceived_dw(lists) == \A i \in Interface \ {"bus_dw"} : lists[i] = <<>>

AllReceived(lists) == \A i \in Interface : lists[i] = <<>>

\* finish(): two more clock cycles after everything expected has been received.
finish == finishing' = IF finishing # Waiting \/ AllReceived(expected')
                         THEN finishing - 1 ELSE Waiting

\* The self-checking part of a clock edge; dr and dw say which drivers send.
SelfCheckEdge(dr, dw) ==
  LET received == [regfile_write |-> RegFileWriteMonitor(recv_rd),
                   regfile_read |-> RegFileReadMonitor(recv_rs),
                   bus_dr |-> bus_dr, bus_dw |-> bus_dw]
  IN  /\ expected' = [i \in Interface |-> Remaining(expected[i], received[i])]
      /\ failed' = \E i \in Interface : Mismatch(expected[i], received[i])
      /\ finish
      /\ rs_enabled' = IF rs_enabled = {} THEN Enabled ELSE {}
      /\ dr_open' = Open(dr_open, dr_request, dr_addr, dr_sent)
      /\ dw_open' = Open(dw_open, dw_request,
                         [addr |-> dw_addr, data |-> dw_data, strobe |-> dw_strobe], dw_sent)
      /\ dr_sent' = IF dr THEN <<Sent(dr_queue, dr_item(0)).data>> ELSE <<>>
      /\ dw_sent' = IF dw THEN <<dw_resp>> ELSE <<>>

\* The test goes on until the scoreboard raises or finish() returns.
Unfinished == ~failed /\ finishing # 0

\* Test t begins.
SelfCheckInit(t) ==
  /\ rs_enabled = {} /\ dr_open = <<>> /\ dw_open = <<>>
  /\ dr_sent = <<>> /\ dw_sent = <<>>
  /\ expected = t.expected /\ failed = FALSE /\ finishing = Waiting

----------------------------------------------------------------------------
(* The core under the test.                                                *)

unitVars == <<vars, checkVars>>

UnitInit == CoreInit /\ \E t \in Tests : Load(t) /\ SelfCheckInit(t)

UnitNext ==
  /\ Unfinished /\ Running
  /\ \E ir \in BOOLEAN, dr \in BOOLEAN, dw \in BOOLEAN :
       /\ ClockEdge(ir, dr, dw)
       /\ SelfCheckEdge(dr, dw)

\* The clock runs, and the simulator runs every driver that has an item.
UnitSpec == /\ UnitInit /\ [][UnitNext]_unitVars
            /\ WF_unitVars(UnitNext)
            /\ \A ch \in {"ir", "dr", "dw"} : WF_unitVars(UnitNext /\ Sends(ch, inst_fetch))

----------------------------------------------------------------------------
(* Properties.                                                             *)

\* The monitors receive what the test expects, in its order on each interface,
\* whatever the latencies.
Passes == ~failed

\* Every test comes to its end: a transaction that does not come would keep
\* finish() waiting for ever.
Finishes == <>(finishing = 0)

\* A test that passes has run its whole program: nothing is left that a
\* monitor could still have received.
RunToEnd == finishing = 0 => \A end \in end_i_address : pc > end /\ state = "FETCH"

=============================================================================
