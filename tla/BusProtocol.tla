----------------------------- MODULE BusProtocol ---------------------------
(***************************************************************************)
(* What the core promises the bus, whatever the program: one instruction   *)
(* after the other, each one fetched once, followed by the one data access *)
(* it owes (none, a read or a write) and retired only when that access has *)
(* been answered.  A request is offered once: if the slave is not ready    *)
(* for it, or answers a write with a failure, the core stops for good.     *)
(***************************************************************************)

VARIABLES
  phase,  \* where the current instruction is
  owed    \* the data access it still has to complete

protocolVars == <<phase, owed>>

Phase == {"ready", "fetching", "running", "reading", "writing", "stuck"}
Owed  == {"none", "read", "write"}

ProtocolTypeOK == phase \in Phase /\ owed \in Owed

ProtocolInit == phase = "ready" /\ owed = "none"

\* The fetch request is accepted, or lost.
OfferFetch == /\ phase = "ready"
              /\ phase' \in {"fetching", "stuck"}
              /\ owed' = "none"

\* The instruction arrives, possibly in the cycle of the request.
TakeInstruction == /\ phase \in {"ready", "fetching"}
                   /\ phase' = "running"
                   /\ owed' \in Owed

\* The data request is accepted, or lost.
OfferRead  == /\ phase = "running" /\ owed = "read"
              /\ phase' \in {"reading", "stuck"}
              /\ owed' = owed

OfferWrite == /\ phase = "running" /\ owed = "write"
              /\ phase' \in {"writing", "stuck"}
              /\ owed' = owed

TakeData == /\ phase \in {"running", "reading"} /\ owed = "read"
            /\ phase' = "running" /\ owed' = "none"

WriteDone == /\ phase \in {"running", "writing"} /\ owed = "write"
             /\ phase' = "running" /\ owed' = "none"

WriteFailed == /\ phase \in {"running", "writing"} /\ owed = "write"
               /\ phase' = "stuck" /\ owed' = owed

Retire == /\ phase = "running" /\ owed = "none"
          /\ phase' = "ready" /\ owed' = "none"

\* Where the core may be reset with the slave, whatever was under way is dropped.
Restart == phase' = "ready" /\ owed' = "none"

ProtocolNext == \/ OfferFetch \/ TakeInstruction
                \/ OfferRead \/ OfferWrite
                \/ TakeData \/ WriteDone \/ WriteFailed
                \/ Retire

ProtocolSpec == ProtocolInit /\ [][ProtocolNext]_protocolVars

============================================================================
