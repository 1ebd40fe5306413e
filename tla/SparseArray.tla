---------------------------- MODULE SparseArray -----------------------------
(***************************************************************************)
(* SparseArray and the array class: a buffer of pointers with the end of   *)
(* what is used of it, and a cached number of the elements that are not    *)
(* NULL, where 0 stands for not counted.                                   *)
(*                                                                         *)
(* The buffer keeps what is above its end.  Memory comes zeroed.           *)
(***************************************************************************)
EXTENDS Integers, FiniteSets

CONSTANTS Element,  \* numbers
          MaxIndex, \* $MAIN:LIMITS.max_array_size
          Others,   \* arrays and results of queries that are added: elements at indices
          Careless  \* what the program does that the array is not ready for, see the guards

ConstantsOK ==
    /\ Element \subseteq Nat \ {0} /\ MaxIndex \in Nat
    /\ Others \subseteq UNION {[s -> Element] : s \in SUBSET (0..MaxIndex)}

VARIABLES felements, fsize,
          fused,
          cycle, \* the cycle over the array: direction, findex, indices it has to visit
          call   \* the last call of the program

vars == <<felements, fsize, fused, cycle, call>>
array == <<felements, fsize, fused>>
-----------------------------------------------------------------------------
NULL == 0
Index == 0..MaxIndex
NoCycle == [way |-> "none", findex |-> 0, due |-> {}]
CallWith(name, i, e) == [name |-> name, index |-> i, element |-> e, other |-> [j \in {} |-> 0]]
CallOf(name, m) == [CallWith(name, 0, 0) EXCEPT !.other = m]

\* The array as a record of its fields
Now == [at |-> felements, size |-> fsize, fused |-> fused]
actual(a) == Cardinality({i \in 0..(a.size - 1) : a.at[i] # NULL})
used(a) == IF a.fused = 0 THEN actual(a) ELSE a.fused

\* Positions of the elements that are not NULL, by their order from 0
nth(a, n) == CHOOSE i \in 0..(a.size - 1) : a.at[i] # NULL /\ Cardinality({j \in 0..(i - 1) : a.at[j] # NULL}) = n

\* Mutant: the end stays where it is
locate_last_used_wrong(a) == a

locate_last_used(a) ==
    [a EXCEPT !.size = CHOOSE s \in 0..a.size : /\ s = 0 \/ a.at[s - 1] # NULL
                                                /\ \A i \in s..(a.size - 1) : a.at[i] = NULL]

invalidate(a) == [a EXCEPT !.fused = 0]
confirm_all_used(a) == [a EXCEPT !.fused = a.size]
change_used(a, delta) == [a EXCEPT !.fused = IF @ = 0 THEN 0 ELSE @ + delta]

put(a, i, e) == [a EXCEPT !.at[i] = e, !.size = IF i >= @ THEN i + 1 ELSE @]

\* Array::insert() moves what is from the index on
insert(a, i, e) ==
    IF i >= a.size THEN put(a, i, e)
    ELSE [a EXCEPT !.at = [j \in Index |-> IF j < i \/ j > a.size THEN @[j] ELSE IF j = i THEN e ELSE @[j - 1]],
                   !.size = @ + 1]

clear(a, i) ==
    IF i >= a.size THEN a
    ELSE LET cleared == [a EXCEPT !.at[i] = NULL]
         IN  IF i = a.size - 1 THEN locate_last_used([cleared EXCEPT !.size = @ - 1]) ELSE cleared

clear_all(a) == [a EXCEPT !.at = [i \in Index |-> IF i < a.size THEN NULL ELSE @[i]], !.size = 0]

\* Mutant: what is after the index stays where it is
remove_wrong(a, i) == clear(a, i)

\* Array::remove() moves what is after the index; the last pointer stays above the end
remove(a, i) ==
    IF i >= a.size THEN a
    ELSE LET closed == [a EXCEPT !.at = [j \in Index |-> IF j >= i /\ j < a.size - 1 THEN @[j + 1] ELSE @[j]],
                                 !.size = @ - 1]
         IN  IF i = closed.size THEN locate_last_used(closed) ELSE closed

pop(a) == locate_last_used([a EXCEPT !.size = @ - 1])

\* The elements of sequence s from index from on, as `+=` puts them
appended(a, from, n, s) ==
    [a EXCEPT !.at = [j \in Index |-> IF j >= from /\ j < from + n THEN s[j - from] ELSE @[j]], !.size = from + n]

compact(a) == appended(a, 0, actual(a), [n \in 0..(actual(a) - 1) |-> a.at[nth(a, n)]])

New == [at |-> [i \in Index |-> NULL], size |-> 0, fused |-> 0]
Copied(m) == [at |-> [i \in Index |-> IF i \in DOMAIN m THEN m[i] ELSE NULL],
              size |-> Cardinality(IF DOMAIN m = {} THEN {} ELSE 0..(CHOOSE i \in DOMAIN m : \A j \in DOMAIN m : j <= i)),
              fused |-> 0]

Becomes(a) == felements' = a.at /\ fsize' = a.size /\ fused' = a.fused
Calls(c) == call' = c

\* Elements at these indices need not be visited
Leave(indices) == cycle' = [cycle EXCEPT !.due = @ \ indices]
Idle == cycle.way = "none" /\ UNCHANGED cycle
-----------------------------------------------------------------------------
Init == felements = New.at /\ fsize = 0 /\ fused = 0 /\ cycle = NoCycle /\ call = [name |-> "new"]

\* $array.index[element].  The array does not see that it gets back what is above its end
Clean(i) == "gap" \in Careless \/ \A j \in fsize..(i - 1) : felements[j] = NULL

put_element(i, e) ==
    /\ Clean(i) /\ UNCHANGED cycle
    /\ Calls(CallWith("put", i, e))
    /\ Becomes(invalidate(put(Now, i, e)))

\* append, push
append(e) ==
    /\ fsize <= MaxIndex /\ UNCHANGED cycle
    /\ Calls(CallWith("append", 0, e))
    /\ LET more == put(Now, fsize, e)
       IN  Becomes(IF fsize > 0 THEN change_used(more, 1) ELSE confirm_all_used(more))

insert_(i, e) ==
    /\ Clean(i) /\ fsize <= MaxIndex /\ Idle
    /\ Calls(CallWith("insert", i, e))
    /\ Becomes(change_used(insert(Now, i, e), 1))

delete(i) ==
    /\ Leave({i})
    /\ Calls(CallWith("delete", i, 0))
    /\ Becomes(invalidate(clear(Now, i)))

delete_all ==
    /\ Leave(Index)
    /\ Calls(CallWith("clear", 0, 0))
    /\ Becomes(invalidate(clear_all(Now)))

_remove(a, i) == invalidate(remove(a, i))

\* In a cycle: only backwards, where what moves has been visited
remove_(i) ==
    /\ cycle.way = "none" \/ (cycle.way = "back" /\ i >= cycle.findex)
    /\ UNCHANGED cycle
    /\ Calls(CallWith("remove", i, 0))
    /\ Becomes(_remove(Now, i))

pop_ ==
    /\ fsize > 0 /\ Leave({fsize - 1})
    /\ Calls(CallWith("pop", 0, 0))
    /\ Becomes(change_used(pop(Now), -1))

compact_ ==
    /\ Idle /\ Calls(CallWith("compact", 0, 0))
    /\ Becomes(confirm_all_used(compact(Now)))

\* ^sort[]: its number of elements is the cached one
sort(desc) ==
    /\ Idle /\ Calls(CallWith("sort", IF desc THEN 1 ELSE 0, 0))
    /\ LET count == used(Now)
           of(n) == felements[nth(Now, n)]
           before(m, n) == of(m) < of(n) \/ (of(m) = of(n) /\ m < n)
           seq == [n \in 0..(count - 1) |-> of(CHOOSE m \in 0..(count - 1) : Cardinality({l \in 0..(count - 1) : before(l, m)}) = n)]
       IN  Becomes(confirm_all_used(appended(clear_all(Now), 0, count,
                                            [n \in 0..(count - 1) |-> IF desc THEN seq[count - 1 - n] ELSE seq[n]])))

\* $array[^array.reverse[]]: holes are turned round with the elements
reverse ==
    /\ Idle /\ ("hole" \in Careless \/ fsize = 0 \/ felements[0] # NULL)
    /\ Calls(CallWith("reverse", 0, 0))
    /\ Becomes(appended(New, 0, fsize, [n \in 0..(fsize - 1) |-> felements[fsize - 1 - n]]))

\* $array[^array.mid(offset;limit)]
mid(offset, limit) ==
    /\ Idle /\ Calls(CallWith("mid", offset, limit))
    /\ LET rest == IF offset < actual(Now) THEN actual(Now) - offset ELSE 0
       IN  Becomes(confirm_all_used(appended(New, 0, IF limit < rest THEN limit ELSE rest,
                                             [n \in 0..(actual(Now) - offset - 1) |-> felements[nth(Now, offset + n)]])))

\* add, and create from another array: into an empty one it is copied whole
_copy_or_add(m) ==
    /\ UNCHANGED cycle /\ \A i \in DOMAIN m : Clean(i)
    /\ Calls(CallOf("add", m))
    /\ LET src == Copied(m)
       IN  Becomes(IF fsize = 0
                   THEN [at |-> [i \in Index |-> IF i < src.size THEN src.at[i] ELSE felements[i]],
                         size |-> src.size, fused |-> IF src.size = 0 THEN fused ELSE src.fused]
                   ELSE invalidate([at |-> [i \in Index |-> IF i \in DOMAIN m THEN m[i] ELSE felements[i]],
                                    size |-> IF src.size > fsize THEN src.size ELSE fsize, fused |-> fused]))

_join(m) ==
    /\ fsize + actual(Copied(m)) <= MaxIndex + 1 /\ UNCHANGED cycle
    /\ Calls(CallOf("join", m))
    /\ Becomes(invalidate(appended(Now, fsize, actual(Copied(m)), [n \in 0..(actual(Copied(m)) - 1) |-> Copied(m).at[nth(Copied(m), n)]])))

\* ^array.sql{}: rows are appended, or with $.sparse(true) put at indices they name
_sql(m, sparse) ==
    /\ Idle /\ Calls(CallOf("query", m))
    /\ "sparse" \in Careless \/ actual(Copied(m)) = Copied(m).size
    /\ sparse /\ "gap" \notin Careless => \A i \in fsize..MaxIndex : felements[i] = NULL
    /\ LET empty == IF fsize > 0 THEN invalidate(clear_all(Now)) ELSE Now
       IN  Becomes(confirm_all_used([empty EXCEPT !.at = [i \in Index |-> IF i \in DOMAIN m THEN m[i] ELSE @[i]],
                                                  !.size = Copied(m).size]))

\* ^array._at(pos;element)[], ^array.set(pos)[element]
_set(pos, e) ==
    /\ pos < used(Now) /\ UNCHANGED cycle /\ fused' = used(Now) /\ UNCHANGED fsize
    /\ Calls(CallWith("set", pos, e))
    /\ felements' = [felements EXCEPT ![IF used(Now) = fsize THEN pos
                                        ELSE IF pos = used(Now) - 1 THEN fsize - 1 ELSE nth(Now, pos)] = e]

\* used() keeps what it has counted
_count == fused' = used(Now) /\ UNCHANGED <<felements, fsize, cycle, call>>
-----------------------------------------------------------------------------
\* RobustIterator and ReverseIterator, of which foreach and select skip what is NULL
foreach(way) ==
    /\ cycle.way = "none" /\ fsize > 0
    /\ cycle' = [way |-> way, findex |-> IF way = "on" THEN 0 ELSE fsize - 1,
                 due |-> {i \in 0..(fsize - 1) : felements[i] # NULL} \ {IF way = "on" THEN 0 ELSE fsize - 1}]
    /\ UNCHANGED <<array, call>>

\* The iterator is true after next(), or before prev()
more == IF cycle.way = "on" THEN cycle.findex + 1 < fsize ELSE cycle.findex > 0 /\ cycle.findex <= fsize

step ==
    /\ cycle.way # "none" /\ more
    /\ LET next == IF cycle.way = "on" THEN cycle.findex + 1 ELSE cycle.findex - 1
       IN  cycle' = [cycle EXCEPT !.findex = next, !.due = @ \ {next}]
    /\ UNCHANGED <<array, call>>

over(break) ==
    /\ cycle.way # "none" /\ (break \/ ~more)
    /\ cycle' = NoCycle
    /\ UNCHANGED <<array, call>>

Next ==
    \/ \E i \in Index : \E e \in Element : put_element(i, e) \/ insert_(i, e) \/ _set(i, e)
    \/ \E e \in Element : append(e)
    \/ \E i \in Index : delete(i) \/ remove_(i)
    \/ delete_all \/ pop_ \/ compact_ \/ reverse \/ _count
    \/ \E desc \in BOOLEAN : sort(desc)
    \/ \E offset, limit \in 0..2 : mid(offset, limit)
    \/ \E m \in Others : _copy_or_add(m) \/ _join(m) \/ \E sparse \in BOOLEAN : _sql(m, sparse)
    \/ (\E way \in {"on", "back"} : foreach(way)) \/ step \/ \E break \in BOOLEAN : over(break)

Spec == Init /\ [][Next]_vars
-----------------------------------------------------------------------------
Elements == [i \in {j \in 0..(fsize - 1) : felements[j] # NULL} |-> felements[i]]
Map == INSTANCE ElementMap WITH elements <- Elements, call <- call

\* Every call makes of the elements what it says: nothing that has been taken away
\* comes back, nothing moves that should not, a new element comes right after the last
ImplementsMap == Map!Spec
MapStep == [Map!Next]_<<Elements, call>>

\* at() and set(), which trust the cached number and the end, find the element with
\* this order among the used ones, for each order below the number count() gives
at(pos) == IF used(Now) = fsize THEN pos ELSE IF pos = used(Now) - 1 THEN fsize - 1 ELSE nth(Now, pos)
AtFinds == /\ used(Now) = actual(Now)
           /\ \A pos \in 0..(used(Now) - 1) : at(pos) = nth(Now, pos)

\* A cycle comes to every element that stays where it is while the cycle lasts
StayersVisited == cycle.way = "on" /\ ~more => cycle.due = {}
ReverseVisits == cycle.way = "back" /\ ~more => cycle.due = {}
=============================================================================
