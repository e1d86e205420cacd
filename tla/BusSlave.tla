------------------------------ MODULE BusSlave -----------------------------
(***************************************************************************)
(* An arbitrary slave on the core's bus, within the handshake: on each     *)
(* channel it may be ready or not in any cycle, it accepts a request that  *)
(* is valid while it is ready, and it answers each accepted request once,  *)
(* in the same cycle or any number of cycles later, with any data and, for *)
(* a write, any response code.  It never answers what it did not accept.   *)
(***************************************************************************)
EXTENDS CoppervBus

CONSTANTS
  ReadyValues,   \* values of the slave's ready signals, a subset of BOOLEAN
  RespValues,    \* write response codes, a subset of {0, 1}
  InstWords,     \* what instruction reads return
  DataWords      \* what data reads return

ASSUME SlaveAssumption == /\ ReadyValues \subseteq BOOLEAN
                          /\ RespValues \subseteq {0, 1}
                          /\ InstWords \subseteq Word
                          /\ DataWords \subseteq Word

VARIABLES
  ir_pending,    \* requests the slave has accepted and not answered yet,
  dr_pending,    \* on each channel
  dw_pending

slaveVars == <<ir_pending, dr_pending, dw_pending>>

SlaveTypeOK == ir_pending \in Nat /\ dr_pending \in Nat /\ dw_pending \in Nat

SlaveInit == ir_pending = 0 /\ dr_pending = 0 /\ dw_pending = 0

----------------------------------------------------------------------------
Count(b) == IF b THEN 1 ELSE 0

\* What the slave may drive on a payload, which the core looks at only when
\* there is a response, and on a ready signal, which core and slave look at
\* only when there is, or is about to be, a request.
Payload(answers, values) == IF answers THEN values ELSE {0}
Ready(request)           == IF request THEN ReadyValues ELSE {FALSE}

\* A channel of the slave in one cycle: it may answer only what it accepted,
\* this cycle's request included.
Channel(pending, pendingNext, accepted, answers) ==
  /\ answers => pending + Count(accepted) > 0
  /\ pendingNext = pending + Count(accepted) - Count(answers)

\* Mutant: a slave that is not reset.
SlaveKept == UNCHANGED slaveVars

\* The slave is reset with the core: it forgets the requests it accepted.
SlaveReset == ir_pending' = 0 /\ dr_pending' = 0 /\ dw_pending' = 0

----------------------------------------------------------------------------
(* What is under way on a channel: presented, accepted, or latched for the *)
(* control unit.  A fetch is presented by the control unit's pulse.        *)

IrBusy == ir_pending + Count(inst_valid)
DrBusy == Count(dr_addr_valid) + dr_pending + Count(read_valid)
DwBusy == Count(dw_req_valid) + dw_pending + Count(write_valid)

============================================================================
