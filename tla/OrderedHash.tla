---------------------------- MODULE OrderedHash -----------------------------
(***************************************************************************)
(* HashString, the hash of the interpreter, with its pointers: chains of   *)
(* pairs with equal remainders of the hash code, and a list of all pairs   *)
(* in their order, of which a pair keeps the next one and the place, in    *)
(* the pair before or in the hash, where the pointer to itself is.         *)
(*                                                                         *)
(* A cycle over the hash holds a pair only; its body may change the hash.  *)
(* A pair that is removed keeps its pointers, and the collector frees it   *)
(* when nothing leads to it.                                               *)
(***************************************************************************)
EXTENDS Naturals, Sequences, FiniteSets

CONSTANTS Key, Value,
          Code,      \* hash codes of the keys
          Allocates, \* Hash_allocates: sizes of the table
          Pairs,     \* the memory
          Null,      \* no pair, and as a place, `first` itself
          MaxFused   \* bound on fused_refs, which only grows

ConstantsOK ==
    /\ Null \notin Pairs /\ IsFiniteSet(Pairs) /\ Key # {} /\ Value # {} /\ Code \in [Key -> Nat]
    /\ Allocates \in Seq(Nat \ {0}) /\ Allocates # <<>>

VARIABLES pair,      \* of each pair: key, value, link, next, prev; None if it is free
          refs,      \* the chains
          index,     \* allocates_index + 1
          fused_refs, fpairs_count,
          first, last,
          cycle      \* the cycle: its direction, its pair, those it has to visit

hash == <<refs, index, fused_refs, fpairs_count, first, last>>
vars == <<pair, hash, cycle>>
-----------------------------------------------------------------------------
None == [key |-> CHOOSE k \in Key : TRUE, value |-> CHOOSE v \in Value : TRUE, link |-> Null, next |-> Null, prev |-> Null]
NoCycle == [way |-> "none", at |-> Null, due |-> {}]
State == [pair |-> pair, refs |-> refs, index |-> index, fused |-> fused_refs, count |-> fpairs_count,
          first |-> first, last |-> last]

allocated(h) == Allocates[h.index]
is_full(h) == h.fused + allocated(h) \div 4 >= allocated(h)
Slot(h, k) == (Code[k] % allocated(h)) + 1

\* Pairs met from pair p on by following a pointer
Met(p, pointer) ==
    LET met[n \in 0..Cardinality(Pairs)] ==
            IF n = 0 THEN p ELSE LET q == met[n - 1] IN IF q = Null THEN Null ELSE pointer[q]
    IN  met
Follow(p, pointer) ==
    LET met == Met(p, pointer)
    IN  [n \in 1..Cardinality({i \in 0..(Cardinality(Pairs) - 1) : met[i] # Null}) |-> met[n - 1]]
Chain(h, i) == Follow(h.refs[i], [p \in Pairs |-> h.pair[p].link])
List(h) == Follow(h.first, [p \in Pairs |-> h.pair[p].next])
In(s) == {s[i] : i \in DOMAIN s}

\* The pair of a key, or Null
Find(h, k) == LET chain == Chain(h, Slot(h, k))
                  found == {i \in DOMAIN chain : h.pair[chain[i]].key = k}
              IN  IF found = {} THEN Null ELSE chain[CHOOSE i \in found : \A j \in found : i <= j]
-----------------------------------------------------------------------------
\* *place = p
put_next(h, place, p) == IF place = Null THEN [h EXCEPT !.first = p] ELSE [h EXCEPT !.pair[place].next = p]

\* Takes a pair out of its chain
unlink(h, k, p) ==
    IF h.refs[Slot(h, k)] = p THEN [h EXCEPT !.refs[Slot(h, k)] = h.pair[p].link]
    ELSE LET before == CHOOSE q \in In(Chain(h, Slot(h, k))) : h.pair[q].link = p
         IN  [h EXCEPT !.pair[before].link = h.pair[p].link]

\* Mutant: `last` stays at the removed pair
unorder_wrong(h, p) ==
    LET out == put_next(h, h.pair[p].prev, h.pair[p].next)
    IN  IF h.pair[p].next # Null THEN [out EXCEPT !.pair[h.pair[p].next].prev = h.pair[p].prev] ELSE out

unorder(h, p) ==
    LET out == put_next(h, h.pair[p].prev, h.pair[p].next)
    IN  IF h.pair[p].next # Null THEN [out EXCEPT !.pair[h.pair[p].next].prev = h.pair[p].prev]
                              ELSE [out EXCEPT !.last = h.pair[p].prev]

removed(h, k) == LET p == Find(h, k)
                 IN  IF p = Null THEN h ELSE [unlink(unorder(h, p), k, p) EXCEPT !.count = @ - 1]

order_next(h, p) ==
    [put_next([h EXCEPT !.pair[p].prev = h.last, !.pair[p].next = Null], h.last, p) EXCEPT !.last = p]

\* Chains of pairs that are put, in the order of these numbers, each at the head of its chain
chained(h, number) ==
    LET slot(p) == Slot(h, h.pair[p].key)
        latest(ps) == IF ps = {} THEN Null ELSE CHOOSE p \in ps : \A q \in ps : number[q] <= number[p]
        before(p) == {q \in DOMAIN number : slot(q) = slot(p) /\ number[q] < number[p]}
    IN  [h EXCEPT !.refs = [s \in 1..allocated(h) |-> latest({p \in DOMAIN number : slot(p) = s})],
                  !.pair = [p \in Pairs |-> IF p \in DOMAIN number THEN [h.pair[p] EXCEPT !.link = latest(before(p))]
                                            ELSE h.pair[p]]]
Place(s, p) == CHOOSE i \in DOMAIN s : s[i] = p

\* The chains are taken one after another
expand(h) ==
    LET number(i, p) == i * Cardinality(Pairs) + Place(Chain(h, i), p)
        slot(p) == Slot(h, h.pair[p].key)
    IN  chained([h EXCEPT !.index = IF @ < Len(Allocates) THEN @ + 1 ELSE @],
                [p \in UNION {In(Chain(h, i)) : i \in 1..allocated(h)} |-> number(slot(p), p)])

\* What leads from the hash and the cycle to a pair keeps it
Reachable(h, at) ==
    LET roots == (In(h.refs) \cup {h.first, h.last, at}) \ {Null}
        to(p) == {h.pair[p].link, h.pair[p].next, h.pair[p].prev} \ {Null}
        closed == {s \in SUBSET Pairs : roots \subseteq s /\ \A p \in s : to(p) \subseteq s}
    IN  {p \in Pairs : \A s \in closed : p \in s}

added(h, k, v, p) ==
    LET new == [h EXCEPT !.pair[p] = [None EXCEPT !.key = k, !.value = v, !.link = h.refs[Slot(h, k)]],
                         !.refs[Slot(h, k)] = p, !.count = @ + 1,
                         !.fused = IF h.refs[Slot(h, k)] = Null THEN @ + 1 ELSE @]
    IN  order_next(new, p)

Init ==
    /\ pair = [p \in Pairs |-> None] /\ refs = [i \in 1..Allocates[1] |-> Null] /\ index = 1
    /\ fused_refs = 0 /\ fpairs_count = 0 /\ first = Null /\ last = Null /\ cycle = NoCycle

Becomes(h) ==
    /\ LET kept == Reachable(h, cycle'.at) IN pair' = [p \in Pairs |-> IF p \in kept THEN h.pair[p] ELSE None]
    /\ refs' = h.refs /\ index' = h.index /\ fused_refs' = h.fused /\ fpairs_count' = h.count
    /\ first' = h.first /\ last' = h.last

\* A pair that is removed need not be visited
Leaves(pairs) == cycle' = [cycle EXCEPT !.due = @ \ pairs]
-----------------------------------------------------------------------------
Free(h) == Pairs \ Reachable(h, cycle.at)

put(k, v) ==
    /\ fused_refs < MaxFused /\ UNCHANGED cycle
    /\ LET h == IF is_full(State) THEN expand(State) ELSE State
       IN  \/ Find(h, k) # Null /\ Becomes([h EXCEPT !.pair[Find(h, k)].value = v])
           \/ Find(h, k) = Null /\ \E p \in Free(h) : Becomes(added(h, k, v, p))

put_dont_replace(k, v) ==
    /\ fused_refs < MaxFused /\ UNCHANGED cycle
    /\ LET h == IF is_full(State) THEN expand(State) ELSE State
       IN  \/ Find(h, k) # Null /\ Becomes(h)
           \/ Find(h, k) = Null /\ \E p \in Free(h) : Becomes(added(h, k, v, p))

put_replaced(k, v) ==
    /\ Find(State, k) # Null
    /\ pair' = [pair EXCEPT ![Find(State, k)].value = v]
    /\ UNCHANGED <<hash, cycle>>

\* remove(), and put() of nothing
remove(k) == Find(State, k) # Null /\ Leaves({Find(State, k)}) /\ Becomes(removed(State, k))

renamed(h, from, to) ==
    LET p == Find(h, from)
        rest == removed(unlink(h, from, p), to)
    IN  [rest EXCEPT !.pair[p].key = to, !.pair[p].link = rest.refs[Slot(h, to)], !.refs[Slot(h, to)] = p,
                     !.fused = IF rest.refs[Slot(h, to)] = Null THEN @ + 1 ELSE @]

rename(from, to) ==
    /\ from # to /\ Find(State, from) # Null /\ fused_refs < MaxFused
    /\ Leaves({Find(State, to)})
    /\ Becomes(renamed(State, from, to))

clear ==
    /\ Leaves(Pairs)
    /\ Becomes([State EXCEPT !.refs = [i \in DOMAIN refs |-> Null], !.fused = 0, !.count = 0,
                             !.first = Null, !.last = Null])

\* order_clear() and then order_next() of these pairs
ordered(h, s) ==
    LET at(i) == IF i \in DOMAIN s THEN s[i] ELSE Null
    IN  [h EXCEPT !.first = at(1), !.last = at(Len(s)),
                  !.pair = [p \in Pairs |-> IF p \in In(s)
                                THEN [h.pair[p] EXCEPT !.prev = at(Place(s, p) - 1), !.next = at(Place(s, p) + 1)]
                                ELSE h.pair[p]]]

\* ^hash.sort: the pairs in any other order.  Not in a cycle over the hash
sort ==
    /\ cycle.way = "none" /\ UNCHANGED cycle
    /\ LET list == List(State)
       IN  \E s \in [1..Len(list) -> 1..Len(list)] :
               /\ \A i, j \in DOMAIN s : i # j => s[i] # s[j]
               /\ Becomes(ordered(State, [i \in 1..Len(list) |-> list[s[i]]]))
\* $hash[^hash::create[$hash]]: chains of the copy come from the list, its numbers from
\* the source.  Its pairs are new, no cycle holds the old ones
clone ==
    /\ cycle.way = "none" /\ UNCHANGED cycle
    /\ Becomes(chained(State, [p \in In(List(State)) |-> Place(List(State), p)]))
-----------------------------------------------------------------------------
\* Iterator or ReverseIterator is made
foreach(way) ==
    /\ cycle.way = "none" /\ first # Null
    /\ cycle' = [NoCycle EXCEPT !.way = way, !.due = In(List(State)) \ {IF way = "next" THEN first ELSE last},
                                !.at = IF way = "next" THEN first ELSE last]
    /\ UNCHANGED <<pair, hash>>

\* Mutant: a removed pair leads nowhere
following_wrong == IF cycle.way = "next" /\ cycle.at \in In(List(State)) THEN pair[cycle.at].next
                   ELSE IF cycle.way = "next" THEN Null ELSE pair[cycle.at].prev

following == IF cycle.way = "next" THEN pair[cycle.at].next ELSE pair[cycle.at].prev

\* The body is done: next(), prev()
step ==
    /\ cycle.way # "none" /\ following # Null
    /\ cycle' = [cycle EXCEPT !.at = following, !.due = @ \ {following}]
    /\ Becomes(State)

\* The cycle is over, or is broken
over(break) ==
    /\ cycle.way # "none" /\ (break \/ following = Null)
    /\ cycle' = NoCycle
    /\ Becomes(State)

Next ==
    \/ \E k \in Key : \E v \in Value : put(k, v) \/ put_dont_replace(k, v) \/ put_replaced(k, v)
    \/ \E k \in Key : remove(k)
    \/ \E from, to \in Key : rename(from, to)
    \/ clear \/ sort \/ clone
    \/ (\E way \in {"next", "prev"} : foreach(way)) \/ step \/ \E break \in BOOLEAN : over(break)

Spec == Init /\ [][Next]_vars
-----------------------------------------------------------------------------
Order == LET list == List(State)
         IN  [i \in DOMAIN list |-> [key |-> pair[list[i]].key, value |-> pair[list[i]].value]]
Map == INSTANCE OrderedMap WITH order <- Order

\* Through chains, links and places the hash is an ordered map: keys keep the order
\* in which they came, rename leaves the pair where it is and takes the other one
\* away, growing of the table changes nothing
ImplementsMap == Map!Spec
MapStep == [Map!Next]_Order

\* The pairs found by their keys are those of the list, each once, the counter is
\* their number and `last` is the place after them: whatever order the operations came in
ListAgrees ==
    LET list == List(State)
    IN  /\ fpairs_count = Len(list) /\ last = (IF list = <<>> THEN Null ELSE list[Len(list)])
        /\ \A i, j \in DOMAIN list : i # j => list[i] # list[j]
        /\ {Find(State, k) : k \in Key} \ {Null} = In(list)
        /\ \A i \in 1..allocated(State) : In(Chain(State, i)) \subseteq In(list)

\* A cycle comes to every pair that stays in the hash while it lasts, even if its
\* body removes the pair it is at, or pairs around it, renames pairs and adds new ones
StayersVisited == cycle.way # "none" /\ following = Null => cycle.due = {}
=============================================================================
