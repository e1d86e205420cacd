-------------------------------- MODULE Channel -----------------------------
(***************************************************************************)
(* What a bus channel of the testbench promises the circuit: one           *)
(* transaction after the other, each request answered once, with its own   *)
(* answer, until a request is refused.                                     *)
(***************************************************************************)
EXTENDS SequencesExt, Naturals

CONSTANTS Answer, Refused

VARIABLES requests, responses

channelVars == <<requests, responses>>

Waiting == Len(responses) < Len(requests)

Request == /\ ~Waiting
           /\ \E r \in DOMAIN Answer : requests' = Append(requests, r)
           /\ UNCHANGED responses

Respond == /\ Waiting /\ Last(requests) \notin Refused
           /\ responses' = Append(responses, Answer[Last(requests)])
           /\ UNCHANGED requests

ChannelInit == requests = <<>> /\ responses = <<>>
ChannelNext == Request \/ Respond

ChannelSpec == ChannelInit /\ [][ChannelNext]_channelVars /\ WF_channelVars(Respond)

=============================================================================
