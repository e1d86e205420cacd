--------------------------- MODULE MCTestbenchV1 ---------------------------
(***************************************************************************)
(* The programs on the v1 core.  Reset clears its registers, so every      *)
(* program starts with the instructions that load them.                    *)
(***************************************************************************)
EXTENDS TestbenchV1, Programs

MCPowerUpMems == {[r \in RegAddr |-> 48879]}

\* TLC evaluates the named tables only once; the LETs keep its coverage
\* statistics from expanding them wherever a word is decoded.
MCAsm   == LET table == AsmTable IN table
MCSlice == LET table == SliceTable IN table

After(numbers) == Numbers(13) \o numbers

\* The programs, and each instruction as a self-checking test that ends behind
\* it.
MCTests == {Loaded(After(Numbers(k)), FALSE) : k \in 2..10}
             \cup {Loaded(After(<<n>>), TRUE) : n \in DOMAIN Tokens}

============================================================================
