----------------------------- MODULE ElementMap -----------------------------
(***************************************************************************)
(* What an array of the language is to its programs: elements at indices,  *)
(* with holes where no element is, and what each call makes of them.       *)
(***************************************************************************)
EXTENDS Naturals, FiniteSets

VARIABLES elements, \* from the indices in use to their elements
          call      \* the last call: name, index, element, other (elements at indices)

Used(m) == DOMAIN m
End(m) == IF Used(m) = {} THEN 0 ELSE (CHOOSE i \in Used(m) : \A j \in Used(m) : j <= i) + 1
Rank(m, i) == Cardinality({j \in Used(m) : j < i})
Compact(m) == [n \in 0..(Cardinality(Used(m)) - 1) |-> m[CHOOSE i \in Used(m) : Rank(m, i) = n]]
With(m, new) == [i \in Used(m) \cup Used(new) |-> IF i \in Used(new) THEN new[i] ELSE m[i]]
Put(m, i, e) == With(m, [j \in {i} |-> e])
Without(m, i) == [j \in Used(m) \ {i} |-> m[j]]

\* All from index i on make room for one, or close up
Up(m, i) == [j \in {k \in Used(m) : k < i} \cup {k + 1 : k \in {l \in Used(m) : l >= i}} |->
                IF j < i THEN m[j] ELSE m[j - 1]]
Down(m, i) == [j \in {k \in Used(m) : k < i} \cup {k - 1 : k \in {l \in Used(m) : l > i}} |->
                  IF j < i THEN m[j] ELSE m[j + 1]]

\* In the order of the elements, equal ones next to each other
Sorted(m, desc) ==
    LET before(i, j) == m[i] < m[j] \/ (m[i] = m[j] /\ i < j)
        place(j) == LET n == Cardinality({i \in Used(m) : before(i, j)})
                    IN  IF desc THEN Cardinality(Used(m)) - 1 - n ELSE n
    IN  [n \in 0..(Cardinality(Used(m)) - 1) |-> m[CHOOSE j \in Used(m) : place(j) = n]]

After(c, m) ==
    CASE c.name = "put" -> Put(m, c.index, c.element)
      [] c.name = "set" -> Put(m, CHOOSE i \in Used(m) : Rank(m, i) = c.index, c.element)
      [] c.name = "append" -> Put(m, End(m), c.element)
      [] c.name = "insert" -> Put(Up(m, c.index), c.index, c.element)
      [] c.name = "delete" -> Without(m, c.index)
      [] c.name \in {"new", "clear"} -> [i \in {} |-> 0]
      [] c.name = "remove" -> Down(m, c.index)
      [] c.name = "pop" -> Without(m, End(m) - 1)
      [] c.name = "compact" -> Compact(m)
      [] c.name = "sort" -> Sorted(m, c.index = 1)
      [] c.name = "reverse" -> [i \in {End(m) - 1 - j : j \in Used(m)} |-> m[End(m) - 1 - i]]
      [] c.name = "mid" -> LET all == Compact(m)
                               some == {i \in Used(all) : i >= c.index /\ i < c.index + c.element}
                           IN  [i \in {j - c.index : j \in some} |-> all[i + c.index]]
      [] c.name = "add" -> With(m, c.other)
      [] c.name = "join" -> [i \in Used(m) \cup {End(m) + j : j \in Used(Compact(c.other))} |->
                                IF i \in Used(m) THEN m[i] ELSE Compact(c.other)[i - End(m)]]
      [] c.name = "query" -> c.other

Init == elements = [i \in {} |-> 0] /\ call = [name |-> "new"]
Next == elements' = After(call', elements)
Spec == Init /\ [][Next]_<<elements, call>>
=============================================================================
