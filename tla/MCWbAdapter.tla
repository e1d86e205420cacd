------------------------------ MODULE MCWbAdapter ---------------------------
(* Reads and writes of two addresses. *)
EXTENDS WbAdapter

MCItems == [addr : {1, 2}] \cup [addr : {1, 2}, data : {5}]

=============================================================================
