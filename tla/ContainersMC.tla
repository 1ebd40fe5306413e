---------------------------- MODULE ContainersMC ----------------------------
EXTENDS Containers, Sequences, TLC

CONSTANTS p1, p2, p3, p4

\* Which pair is which does not matter
Memory == Permutations({p1, p2, p3, p4})

\* Two of three keys meet in the small table, another two in the big one
MCCode == ("a" :> 0) @@ ("b" :> 2) @@ ("c" :> 3)
MCAllocates == <<2, 3>>

\* Nothing, an element, one with a hole before it, two
MCOthers == {<<>>, 0 :> 2, 2 :> 1, (0 :> 1) @@ (1 :> 2)}
=============================================================================
