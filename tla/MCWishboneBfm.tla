----------------------------- MODULE MCWishboneBfm --------------------------
(* Two reads and a write. *)
EXTENDS WishboneBfm

MCOperations == {[we |-> FALSE, adr |-> 0], [we |-> FALSE, adr |-> 1],
                 [we |-> TRUE, adr |-> 1, datwr |-> 5]}
MCAnswer == [op \in MCOperations |->
               IF op.we THEN Ack ELSE [ack |-> TRUE, data |-> 10 + op.adr]]

=============================================================================
