----------------------------- MODULE OrderedMap -----------------------------
(***************************************************************************)
(* What a hash of the language is to its programs: keys with their values, *)
(* in the order in which the keys came, unless the program changes it.     *)
(***************************************************************************)
EXTENDS Naturals, Sequences

CONSTANTS Key, Value
VARIABLE order \* a sequence of [key, value]

Keys(o) == {o[i].key : i \in DOMAIN o}
Without(o, k) ==
    IF k \notin Keys(o) THEN o
    ELSE LET n == CHOOSE i \in DOMAIN o : o[i].key = k
         IN  [i \in 1..(Len(o) - 1) |-> o[IF i < n THEN i ELSE i + 1]]

Init == order = <<>>

Put(k, v) ==
    order' = IF k \in Keys(order)
             THEN [i \in DOMAIN order |-> IF order[i].key = k THEN [key |-> k, value |-> v] ELSE order[i]]
             ELSE Append(order, [key |-> k, value |-> v])

Remove(k) == order' = Without(order, k)

\* The pair stays where it is, another that has had the new key goes
Rename(from, to) ==
    /\ from \in Keys(order) /\ from # to
    /\ order' = LET rest == Without(order, to)
                IN  [i \in DOMAIN rest |-> IF rest[i].key = from THEN [rest[i] EXCEPT !.key = to] ELSE rest[i]]

Clear == order' = <<>>

Sort == \E p \in [DOMAIN order -> DOMAIN order] :
            /\ \A i, j \in DOMAIN order : i # j => p[i] # p[j]
            /\ order' = [i \in DOMAIN order |-> order[p[i]]]

Next == \/ \E k \in Key : \E v \in Value : Put(k, v)
        \/ \E k \in Key : Remove(k)
        \/ \E from, to \in Key : Rename(from, to)
        \/ Clear
        \/ Sort

Spec == Init /\ [][Next]_order
=============================================================================
