------------------------------ MODULE TablesMC ------------------------------
EXTENDS Tables, TLC

CONSTANTS t1, t2, r1, r2, r3

\* Which table or row is which does not matter
Objects == Permutations({t1, t2}) \cup Permutations({r1, r2, r3})

\* Cells with every letter, and with enclosers and ends of lines in every order;
\* a column of them, and a row, with a name that is an encloser or without names
Strings(letters, n) == UNION {[1..m -> letters] : m \in 0..n}
MCCells == Strings({"a", "s", "e", "n", "h"}, 1) \cup Strings({"e", "n"}, 2) \cup {<<"e", "s">>, <<"a", "e">>}
MCSaved == {[columns |-> c, rows |-> r] : c \in {<<>>, <<<<"e">>>>},
                                          r \in [1..2 -> [1..1 -> MCCells]] \cup [1..1 -> [1..2 -> MCCells]]}

\* Bodies of up to four letters, tainted and clean
MCBodies == Strings({"a", "s", "n", "e", "S", "E", "N"}, 4) \ {<<>>}
=============================================================================
