------------------------------- MODULE MCBusBfm -----------------------------
(* A channel with two addresses that are answered and one that is refused. *)
EXTENDS BusBfm

MCAnswer == [r \in 0..2 |-> 10 + r]
MCRefused == {2}

=============================================================================
