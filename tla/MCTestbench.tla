---------------------------- MODULE MCTestbench ----------------------------
(***************************************************************************)
(* The programs on Copperv2, whose registers are not reset: they hold the  *)
(* programs' values at power-up, and rubbish in the cell of x0.            *)
(***************************************************************************)
EXTENDS Testbench, Programs

MCPowerUpMems ==
  {[r \in RegAddr |-> CASE r = 0                       -> 48879
                       [] r \in DOMAIN Registered -> Registered[r]
                       [] OTHER                       -> 7 * r]}

\* TLC evaluates the named tables only once; the LETs keep its coverage
\* statistics from expanding them wherever a word is decoded.
MCAsm   == LET table == AsmTable IN table
MCSlice == LET table == SliceTable IN table

MCTests      == {Loaded(Numbers(k), FALSE) : k \in 2..10}
MCPairs      == {Loaded(<<a, b>>, TRUE) : a \in DOMAIN Tokens, b \in DOMAIN Tokens}
MCPrograms   == MCTests \cup MCPairs
MCOdd        == {Loaded(Numbers(11), FALSE)}
MCMisaligned == {Loaded(Numbers(12), FALSE)}

============================================================================
