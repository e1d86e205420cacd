----------------------------- MODULE MCHexFile -----------------------------
(* Files of up to four tokens, and the section tables of three programs.   *)
EXTENDS HexFile, SequencesExt

MCTokens == {At(a) : a \in {0, 1, 4}} \cup {Value(v) : v \in {7, 9}}

MCVHexFiles == LET files == {f \in SeqOf(MCTokens, 4) : \E n \in DOMAIN f : f[n].kind = "value"}
               IN  files

Row(dotted, type, addr, size) ==
  [dotted |-> dotted, type |-> type, addr |-> addr, size |-> size]

\* No section without contents; one between and one behind the data, next to
\* one with contents; an empty one, and one whose name has no dot.
MCTables == {<<>>,
             <<Row(TRUE, "PROGBITS", 0, 2), Row(TRUE, "NOBITS", 2, 2),
               Row(TRUE, "NOBITS", 7, 3)>>,
             <<Row(TRUE, "NOBITS", 5, 0), Row(FALSE, "NOBITS", 6, 2)>>}

=============================================================================
