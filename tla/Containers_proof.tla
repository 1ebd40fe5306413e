-------------------------- MODULE Containers_proof ---------------------------
(***************************************************************************)
(* Tables, arrays and hashes, for any number of tables, rows, indices and  *)
(* pairs, and any hash codes.                                              *)
(*                                                                         *)
(* Tables: rows are shared only by tables that select, join and sort have  *)
(* made kin, one row of a table with rows is current, and locate finds the *)
(* first row that fits.                                                    *)
(*                                                                         *)
(* Arrays: Sound, the last place holds an element, and the cached number   *)
(* of elements is right or 0, unknown; Walked, a cycle has before it each  *)
(* element that it has to visit.  From them at() and set() find the        *)
(* element, a cycle visits all, and calls are steps of a map of indices.   *)
(*                                                                         *)
(* Hashes: there are pairs M and two numberings of them, such that along   *)
(* the pointers of each chain the first and along those of the list the    *)
(* second one changes by the next greater or smaller number (Linked).      *)
(* Numbers say in one quantifier what a list is without induction along    *)
(* its pointers: an operation keeps them, gives a new pair a greater one   *)
(* or takes a pair out.  A cycle is at a pair that may have been removed   *)
(* since, so for it the invariant is about pointers only: what it has to   *)
(* visit is in each set of pairs that is closed under its way (Due).       *)
(***************************************************************************)
EXTENDS Tables, Containers, SequenceTheorems, FiniteSetTheorems, TLAPS

-----------------------------------------------------------------------------
\* Numbers: any of them have a least one,
LEMMA Least ==
    ASSUME NEW T, T \subseteq Nat, T # {}
    PROVE  \E m \in T : \A k \in T : m <= k
<1>. DEFINE F == {0 .. n : n \in T}
            R == StrictSubsetOrdering(Nat)
<1>1. F \subseteq FiniteSubsetsOf(Nat) /\ F # {}
  <2>1. \A n \in T : 0 .. n \in SUBSET Nat /\ IsFiniteSet(0 .. n)
    BY FS_Interval
  <2>. QED
    BY <2>1 DEF FiniteSubsetsOf
<1>2. IsWellFoundedOn(R, FiniteSubsetsOf(Nat))
  BY FS_StrictSubsetOrderingWellFounded
<1>. HIDE DEF F
<1>3. PICK x \in F : \A y \in F : ~ (<<y, x>> \in R)
  BY <1>1, <1>2, WFMin
<1>4. PICK m \in T : x = 0 .. m
  BY DEF F
<1>5. ASSUME NEW k \in T, k < m PROVE FALSE
  <2>1. 0 .. k \in F
    BY DEF F
  <2>2. 0 .. k \in SUBSET Nat /\ 0 .. m \in SUBSET Nat /\ 0 .. k \subseteq 0 .. m
    BY <1>5
  <2>3. m \in 0 .. m /\ m \notin 0 .. k
    BY <1>5
  <2>4. <<0 .. k, 0 .. m>> \in R
    BY <2>2, <2>3 DEF StrictSubsetOrdering
  <2>. QED
    BY <1>3, <1>4, <2>1, <2>4
<1>. QED
  BY <1>5

\* and those up to a bound a greatest one.
LEMMA Greatest ==
    ASSUME NEW n \in Nat, NEW T, T \subseteq 0 .. n, T # {}
    PROVE  \E m \in T : \A k \in T : k <= m
<1>. DEFINE U == {n - k : k \in T}
<1>1. \A k \in T : k \in Nat /\ n - k \in Nat
  OBVIOUS
<1>6. U \subseteq Nat /\ U # {}
  BY <1>1
<1>. HIDE DEF U
<1>2. PICK u \in U : \A v \in U : u <= v
  BY <1>6, Least
<1>3. PICK m \in T : u = n - m
  BY DEF U
<1>4. ASSUME NEW k \in T PROVE k <= m
  <2>1. n - k \in U
    BY DEF U
  <2>2. n - m <= n - k
    BY <1>2, <1>3, <2>1
  <2>3. k \in Nat /\ m \in Nat
    OBVIOUS
  <2>. QED
    BY <2>2, <2>3
<1>. QED
  BY <1>4

\* In a total order each place is somebody's: what select rests on.
Before(R, S, i) == {j \in S : <<j, i>> \in R}
IsOrder(R, S) ==
    /\ \A i \in S : <<i, i>> \notin R
    /\ \A i, j, k \in S : <<i, j>> \in R /\ <<j, k>> \in R => <<i, k>> \in R
    /\ \A i, j \in S : i # j => <<i, j>> \in R \/ <<j, i>> \in R
LEMMA Places ==
    ASSUME NEW S, IsFiniteSet(S), NEW R, IsOrder(R, S), NEW n \in 1 .. Cardinality(S)
    PROVE  \E i \in S : Cardinality(Before(R, S, i)) = n - 1
<1>. DEFINE c == Cardinality(S)
            rank == [i \in S |-> Cardinality(Before(R, S, i))]
<1>1. c \in Nat
  BY FS_CardinalityType
<1>2. \A i \in S : /\ Before(R, S, i) \subseteq S /\ IsFiniteSet(Before(R, S, i))
                   /\ Cardinality(Before(R, S, i)) \in Nat
  <2>. TAKE i \in S
  <2>1. Before(R, S, i) \subseteq S
    BY DEF Before
  <2>. QED
    BY <2>1, FS_Subset, FS_CardinalityType
<1>3. \A i \in S : rank[i] \in 0 .. c - 1
  <2>. TAKE i \in S
  <2>1. i \notin Before(R, S, i)
    BY DEF Before, IsOrder
  <2>2. Cardinality(Before(R, S, i)) <= c /\ Cardinality(Before(R, S, i)) # c
    BY <1>2, <2>1, FS_Subset
  <2>. QED
    BY <1>1, <1>2, <2>2
<1>4. ASSUME NEW i \in S, NEW j \in S, <<i, j>> \in R PROVE rank[i] < rank[j]
  <2>1. Before(R, S, i) \subseteq Before(R, S, j) /\ i \in Before(R, S, j) /\ i \notin Before(R, S, i)
    BY <1>4 DEF Before, IsOrder
  <2>2. /\ Cardinality(Before(R, S, i)) <= Cardinality(Before(R, S, j))
        /\ Cardinality(Before(R, S, i)) # Cardinality(Before(R, S, j))
    BY <1>2, <2>1, FS_Subset
  <2>. QED
    BY <1>2, <2>2
<1>. HIDE DEF rank
<1>5. rank \in [S -> 0 .. c - 1]
  BY <1>3 DEF rank
<1>6. ASSUME NEW i \in S, NEW j \in S, i # j PROVE rank[i] # rank[j]
  <2>1. rank[i] \in Int /\ rank[j] \in Int
    BY <1>3, <1>1
  <2>2. <<i, j>> \in R \/ <<j, i>> \in R
    BY <1>6 DEF IsOrder
  <2>. QED
    BY <1>4, <2>1, <2>2
<1>. HIDE DEF c
<1>12. 0 \in Int /\ c - 1 \in Int
  BY <1>1
<1>7. IsFiniteSet(0 .. c - 1) /\ Cardinality(0 .. c - 1) = c
  <2>1. IsFiniteSet(0 .. c - 1) /\ Cardinality(0 .. c - 1) = IF 0 > c - 1 THEN 0 ELSE (c - 1) - 0 + 1
    BY <1>12, FS_Interval
  <2>. QED
    BY <1>1, <2>1
<1>13. Cardinality(S) = c
  BY DEF c
<1>8. rank \in Injection(S, 0 .. c - 1)
  BY <1>5, <1>6 DEF Injection, IsInjective
<1>9. rank \in Surjection(S, 0 .. c - 1)
  BY <1>7, <1>8, <1>13, FS_Injection
<1>10. n - 1 \in 0 .. c - 1
  BY <1>1, <1>13
<1>11. PICK i \in S : rank[i] = n - 1
  BY <1>9, <1>10 DEF Surjection
<1>. QED
  BY <1>11 DEF rank
-----------------------------------------------------------------------------
RowLists == Seq(Rows)
CellLists == Seq(Cell)
NameLists == Seq(Nat)
Indexes == UNION {[S -> Nat] : S \in SUBSET Nat}
TableSet == [rows : RowLists, fcurrent : Nat, columns : Lists \cup {0}, name2number : Indexes]
Cycles == [of : Tables \cup {Null}, row : Nat, saved : Nat]
Types ==
    /\ table \in [Tables -> TableSet] /\ row \in [Rows -> CellLists] /\ names \in [Lists -> NameLists]
    /\ cycle \in Cycles
IInv == Types /\ RowsApart /\ CurrentStands

\* One row of a table with rows is current,
Stands(new) == new.fcurrent < count(new) \/ (count(new) = 0 /\ new.fcurrent = 0)
\* and whoever has a row of what table t becomes is its kin.
Handed(t, new) == \A v \in Tables \ {t} : In(new.rows) \cap In(table[v].rows) # {} => {t, v} \in kin'

\* A table made anew, as Becoming() does: nothing else changes hands.
LEMMA Made ==
    ASSUME IInv, NEW t \in Tables, NEW new \in TableSet, NEW cells \in [Rows -> CellLists],
           NEW lists \in [Lists -> NameLists],
           table' = [table EXCEPT ![t] = new], Becomes(table', cells), List(lists, table'),
           Stands(new), Handed(t, new), cycle' \in Cycles,
           \A u, v \in Tables \ {t} : {u, v} \in kin => {u, v} \in kin'
    PROVE  IInv'
<1>1. table' \in [Tables -> TableSet] /\ table'[t] = new /\ \A u \in Tables \ {t} : table'[u] = table[u]
  BY DEF IInv, Types
<1>2. Types'
  <2>1. <<>> \in CellLists /\ <<>> \in NameLists
    BY EmptySeq DEF CellLists, NameLists
  <2>2. row' \in [Rows -> CellLists]
    BY <2>1 DEF Becomes
  <2>3. names' \in [Lists -> NameLists]
    BY <2>1 DEF List
  <2>. QED
    BY <1>1, <2>2, <2>3 DEF Types
<1>3. RowsApart'
  <2>. SUFFICES ASSUME NEW u \in Tables, NEW v \in Tables, u # v, In(table'[u].rows) \cap In(table'[v].rows) # {}
                PROVE  {u, v} \in kin'
    BY DEF RowsApart
  <2>1. CASE u # t /\ v # t
    BY <1>1, <2>1 DEF IInv, RowsApart
  <2>2. CASE u = t
    BY <1>1, <2>2 DEF Handed
  <2>3. CASE v = t
    <3>1. {v, u} = {u, v}
      OBVIOUS
    <3>. QED
      BY <1>1, <2>3, <3>1 DEF Handed
  <2>. QED
    BY <2>1, <2>2, <2>3
<1>4. CurrentStands'
  BY <1>1 DEF IInv, CurrentStands, Stands
<1>. QED
  BY <1>2, <1>3, <1>4 DEF IInv

\* The current row moves within a table: its rows stay.
LEMMA Moved ==
    ASSUME IInv, NEW t \in Tables, NEW new \in TableSet, table' = [table EXCEPT ![t] = new],
           new.rows = table[t].rows, Stands(new), row' \in [Rows -> CellLists],
           names' \in [Lists -> NameLists], kin' = kin, cycle' \in Cycles
    PROVE  IInv'
<1>1. table' \in [Tables -> TableSet] /\ table'[t] = new /\ \A u \in Tables \ {t} : table'[u] = table[u]
  BY DEF IInv, Types
<1>2. \A u \in Tables : table'[u].rows = table[u].rows
  BY <1>1
<1>3. RowsApart'
  BY <1>2 DEF IInv, RowsApart
<1>4. CurrentStands'
  BY <1>1 DEF IInv, CurrentStands, Stands
<1>. QED
  BY <1>1, <1>3, <1>4 DEF IInv, Types
-----------------------------------------------------------------------------
\* What the operations are made of.  Sequences:
LEMMA Joined ==
    ASSUME NEW S, NEW s \in Seq(S), NEW s2 \in Seq(S)
    PROVE  s \o s2 \in Seq(S) /\ In(s \o s2) \subseteq In(s) \cup In(s2) /\ Len(s \o s2) = Len(s) + Len(s2)
<1>1. /\ s \o s2 \in Seq(S) /\ Len(s \o s2) = Len(s) + Len(s2)
      /\ \A i \in 1 .. Len(s) + Len(s2) : (s \o s2)[i] = IF i <= Len(s) THEN s[i] ELSE s2[i - Len(s)]
  BY ConcatProperties
<1>2. DOMAIN s = 1 .. Len(s) /\ DOMAIN s2 = 1 .. Len(s2) /\ Len(s) \in Nat /\ Len(s2) \in Nat
  BY LenProperties
<1>3. DOMAIN (s \o s2) = 1 .. Len(s) + Len(s2)
  BY <1>1, LenProperties
<1>4. ASSUME NEW i \in 1 .. Len(s) + Len(s2) PROVE (s \o s2)[i] \in In(s) \cup In(s2)
  <2>1. CASE i <= Len(s)
    BY <1>1, <1>2, <2>1 DEF In
  <2>2. CASE ~ (i <= Len(s))
    <3>1. i - Len(s) \in 1 .. Len(s2)
      BY <1>2, <2>2
    <3>. QED
      BY <1>1, <1>2, <2>2, <3>1 DEF In
  <2>. QED
    BY <2>1, <2>2
<1>. QED
  BY <1>1, <1>3, <1>4 DEF In

\* a piece of one,
LEMMA Piece ==
    ASSUME NEW S, NEW s \in Seq(S), NEW m \in Nat \ {0}, NEW n \in Nat, n <= Len(s)
    PROVE  /\ SubSeq(s, m, n) \in Seq(S) /\ In(SubSeq(s, m, n)) \subseteq In(s)
           /\ Len(SubSeq(s, m, n)) = IF m <= n THEN n - m + 1 ELSE 0
<1>1. DOMAIN s = 1 .. Len(s) /\ Len(s) \in Nat /\ \A i \in 1 .. Len(s) : s[i] \in S
  BY LenProperties, ElementOfSeq
<1>2. \A i \in m .. n : s[i] \in S
  BY <1>1
<1>3. m \in Int /\ n \in Int
  OBVIOUS
<1>4. /\ SubSeq(s, m, n) \in Seq(S)
      /\ Len(SubSeq(s, m, n)) = IF m <= n THEN n - m + 1 ELSE 0
      /\ \A i \in 1 .. n - m + 1 : SubSeq(s, m, n)[i] = s[m + i - 1]
  BY <1>2, <1>3, SubSeqProperties
<1>5. DOMAIN SubSeq(s, m, n) = 1 .. Len(SubSeq(s, m, n))
  BY <1>4, LenProperties
<1>6. ASSUME NEW i \in DOMAIN SubSeq(s, m, n) PROVE SubSeq(s, m, n)[i] \in In(s)
  <2>1. i \in 1 .. n - m + 1 /\ m + i - 1 \in 1 .. Len(s)
    BY <1>1, <1>4, <1>5
  <2>. QED
    BY <1>1, <1>4, <2>1 DEF In
<1>. QED
  BY <1>4, <1>6 DEF In

\* and functions that are ones.
LEMMA Listed ==
    ASSUME NEW S, NEW n \in Nat, NEW f \in [1 .. n -> S]
    PROVE  f \in Seq(S) /\ Len(f) = n /\ DOMAIN f = 1 .. n
<1>1. f \in Seq(S)
  BY SeqDef
<1>2. DOMAIN f = 1 .. n
  OBVIOUS
<1>. QED
  BY <1>1, <1>2

\* The index of a list of names has numbers of its columns,
LEMMA IndexNumbers ==
    ASSUME NEW list \in NameLists
    PROVE  Index(list) \in Indexes
<1>1. Len(list) \in Nat /\ DOMAIN list = 1 .. Len(list) /\ \A i \in 1 .. Len(list) : list[i] \in Nat
  BY LenProperties, ElementOfSeq DEF NameLists
<1>2. ASSUME NEW n \in In(list)
      PROVE  \E i \in DOMAIN list : list[i] = n /\ \A j \in DOMAIN list : list[j] = n => j <= i
  <2>. DEFINE T == {i \in DOMAIN list : list[i] = n}
  <2>1. T \subseteq 0 .. Len(list) /\ T # {}
    BY <1>1, <1>2 DEF In
  <2>2. \E m \in T : \A k \in T : k <= m
    BY <1>1, <2>1, Greatest
  <2>. QED
    BY <2>2
<1>3. \A n \in In(list) : Index(list)[n] \in Nat
  <2>. TAKE n \in In(list)
  <2>. DEFINE P(i) == i \in DOMAIN list /\ list[i] = n /\ \A j \in DOMAIN list : list[j] = n => j <= i
  <2>1. (CHOOSE i \in DOMAIN list : list[i] = n /\ \A j \in DOMAIN list : list[j] = n => j <= i) \in DOMAIN list
    BY <1>2
  <2>. QED
    BY <1>1, <2>1 DEF Index
<1>4. In(list) \in SUBSET Nat
  BY <1>1 DEF In
<1>5. Index(list) \in [In(list) -> Nat]
  <2>1. Index(list) = [n \in In(list) |-> Index(list)[n]]
    BY DEF Index
  <2>. QED
    BY <1>3, <2>1
<1>. QED
  BY <1>4, <1>5 DEF Indexes

\* and so have names of a nameless table.
LEMMA ColumnNumbers ==
    ASSUME NEW t \in TableSet, NEW n \in Nat
    PROVE  column_name2index(t, n) \in Nat
<1>1. PICK S \in SUBSET Nat : t.name2number \in [S -> Nat]
  BY DEF TableSet, Indexes
<1>. QED
  BY <1>1 DEF column_name2index

LEMMA NoIndex == <<>> \in Indexes
<1>1. <<>> \in Seq(Nat) /\ Len(<<>>) = 0
  BY EmptySeq
<1>2. <<>> \in [1 .. 0 -> Nat]
  BY <1>1, LenProperties
<1>3. 1 .. 0 \in SUBSET Nat
  OBVIOUS
<1>. QED
  BY <1>2, <1>3 DEF Indexes

\* Who is chosen is chosen in order, and stands at a place in it,
LEMMA NthStands ==
    ASSUME NEW S, S \subseteq Nat, IsFiniteSet(S), NEW n \in 1 .. Cardinality(S)
    PROVE  Nth(S, n) \in S
<1>. DEFINE R == {p \in S \X S : p[1] < p[2]}
<1>1. \A i, j \in S : <<i, j>> \in R <=> i < j
  OBVIOUS
<1>. HIDE DEF R
<1>2. IsOrder(R, S)
  <2>1. \A i \in S : i \in Int
    OBVIOUS
  <2>. QED
    BY <1>1, <2>1 DEF IsOrder
<1>3. PICK i \in S : Cardinality(Before(R, S, i)) = n - 1
  BY <1>2, Places
<1>4. Before(R, S, i) = {j \in S : j < i}
  BY <1>1 DEF Before
<1>. QED
  BY <1>3, <1>4 DEF Nth

LEMMA SelectedStand ==
    ASSUME NEW n \in Nat, NEW chosen, chosen \subseteq 1 .. n, NEW o \in Options, MaxRows \in Nat
    PROVE  Selected(chosen, o) \in Seq(chosen)
<1>1. IsFiniteSet(chosen) /\ Cardinality(chosen) \in Nat /\ chosen \subseteq Nat
  <2>1. 1 \in Int /\ n \in Int
    OBVIOUS
  <2>2. IsFiniteSet(1 .. n)
    BY <2>1, FS_Interval
  <2>3. IsFiniteSet(chosen)
    BY <2>2, FS_Subset
  <2>4. Cardinality(chosen) \in Nat
    BY <2>3, FS_CardinalityType
  <2>. QED
    BY <2>3, <2>4
<1>. DEFINE all == Cardinality(chosen)
            path == [i \in 1 .. all |-> Nth(chosen, IF o.reverse THEN all + 1 - i ELSE i)]
            upto == Min2(all, o.offset + o.limit)
<1>2. o.offset \in Nat /\ o.limit \in Nat
  BY DEF Options
<1>3. \A i \in 1 .. all : path[i] \in chosen
  <2>. TAKE i \in 1 .. all
  <2>1. (IF o.reverse THEN all + 1 - i ELSE i) \in 1 .. all
    BY <1>1
  <2>. QED
    BY <1>1, <2>1, NthStands
<1>. HIDE DEF path
<1>4. path \in [1 .. all -> chosen]
  BY <1>3 DEF path
<1>5. path \in Seq(chosen) /\ Len(path) = all
  BY <1>1, <1>4, Listed
<1>6. upto \in Nat /\ upto <= all /\ o.offset + 1 \in Nat \ {0}
  BY <1>1, <1>2 DEF Min2
<1>7. SubSeq(path, o.offset + 1, upto) \in Seq(chosen)
  BY <1>5, <1>6, Piece
<1>. QED
  BY <1>7 DEF Selected, path

\* and rows in the order of a key are the same rows.
LEMMA SortedRows ==
    ASSUME NEW rs \in RowLists, NEW key, NEW desc, NEW sorted \in Sorted(rs, key, desc)
    PROVE  sorted \in RowLists /\ In(sorted) \subseteq In(rs)
<1>. DEFINE D == DOMAIN rs
<1>1. D = 1 .. Len(rs) /\ Len(rs) \in Nat /\ \A i \in D : rs[i] \in Rows
  BY LenProperties, ElementOfSeq DEF RowLists
<1>2. PICK p \in [D -> D] : sorted = [n \in D |-> rs[p[n]]]
  BY DEF Sorted
<1>3. sorted \in [1 .. Len(rs) -> Rows] /\ \A n \in D : sorted[n] \in In(rs)
  BY <1>1, <1>2 DEF In
<1>4. sorted \in RowLists /\ DOMAIN sorted = D
  BY <1>1, <1>3, Listed DEF RowLists
<1>. QED
  BY <1>3, <1>4 DEF In

\* A walk is over rows of the table,
LEMMA WalkStays ==
    ASSUME NEW n \in Nat, NEW o \in Options, MaxRows \in Nat
    PROVE  /\ adjust(o, n) \in Nat
           /\ \A i \in 1 .. adjust(o, n) : (IF o.reverse THEN o.offset - (i - 1) ELSE o.offset + (i - 1)) \in 0 .. n - 1
<1>1. o.offset \in Nat /\ o.limit \in Nat /\ o.reverse \in BOOLEAN
  BY DEF Options
<1>. QED
  BY <1>1 DEF adjust

\* and what an item of a row is, is a cell.
LEMMA ItemIsCell ==
    ASSUME ConstantsOK, NEW t \in TableSet, row \in [Rows -> CellLists], NEW column \in Nat, item(t, column) # -1
    PROVE  item(t, column) \in Cell
<1>1. t.rows \in Seq(Rows) /\ t.fcurrent \in Nat
  BY DEF TableSet, RowLists
<1>2. t.fcurrent < count(t) /\ column > 0 /\ column <= Len(row[t.rows[t.fcurrent + 1]])
  BY DEF item
<1>3. t.fcurrent + 1 \in 1 .. Len(t.rows)
  BY <1>1, <1>2, LenProperties DEF count
<1>4. t.rows[t.fcurrent + 1] \in Rows
  BY <1>1, <1>3, ElementOfSeq
<1>5. row[t.rows[t.fcurrent + 1]] \in Seq(Cell)
  BY <1>4 DEF CellLists
<1>6. Len(row[t.rows[t.fcurrent + 1]]) \in Nat
  BY <1>5, LenProperties
<1>7. column \in 1 .. Len(row[t.rows[t.fcurrent + 1]])
  BY <1>2, <1>6
<1>8. row[t.rows[t.fcurrent + 1]][column] \in Cell
  BY <1>5, <1>7, ElementOfSeq
<1>. QED
  BY <1>2, <1>8 DEF item
-----------------------------------------------------------------------------
\* A table that is new has its first row current.
LEMMA NewTable ==
    ASSUME NEW rows \in RowLists, NEW columns \in Lists \cup {0}, NEW numbers \in Indexes
    PROVE  /\ New(rows, columns, numbers) \in TableSet /\ Stands(New(rows, columns, numbers))
           /\ New(rows, columns, numbers).rows = rows
<1>1. Len(rows) \in Nat
  BY LenProperties DEF RowLists
<1>. QED
  BY <1>1 DEF New, TableSet, Stands, count

\* Kin of a table that is made anew: those that took no rows of it stay as they are,
LEMMA OtherKin ==
    ASSUME NEW t, NEW u, NEW v, u # t, v # t, {u, v} \in kin
    PROVE  {u, v} \in Apart(t)
  BY DEF Apart

\* and with rows of one table come its kin.
LEMMA Adopted ==
    ASSUME NEW k, NEW t, NEW u, NEW v, v = u \/ {u, v} \in k
    PROVE  {t, v} \in Akin(k, t, u)
<1>. DEFINE group == {t} \cup UNION {p \in k : t \in p}
            with == {u} \cup UNION {p \in k : u \in p}
<1>1. t \in group /\ v \in with
  OBVIOUS
<1>. QED
  BY <1>1 DEF Akin

LEMMA KinStay ==
    ASSUME NEW k, NEW t, NEW u
    PROVE  k \subseteq Akin(k, t, u)
  BY DEF Akin

\* Rows that no table has: a row object is made.
LEMMA FreshRows ==
    ASSUME NEW n \in Nat, NEW fresh \in Fresh(n)
    PROVE  /\ fresh \in RowLists /\ Len(fresh) = n /\ DOMAIN fresh = 1 .. n
           /\ \A v \in Tables : In(fresh) \cap In(table[v].rows) = {}
<1>1. fresh \in [1 .. n -> Rows \ UsedRows]
  BY DEF Fresh
<1>2. fresh \in [1 .. n -> Rows]
  BY <1>1
<1>3. fresh \in RowLists /\ Len(fresh) = n /\ DOMAIN fresh = 1 .. n
  BY <1>2, Listed DEF RowLists
<1>4. ASSUME NEW v \in Tables PROVE In(fresh) \cap In(table[v].rows) = {}
  <2>1. In(fresh) \cap UsedRows = {}
    BY <1>1 DEF In
  <2>2. In(table[v].rows) \subseteq UsedRows
    BY DEF UsedRows
  <2>. QED
    BY <2>1, <2>2
<1>. QED
  BY <1>3, <1>4

LEMMA TableTypes ==
    ASSUME IInv, NEW t \in Tables
    PROVE  /\ table[t] \in TableSet /\ table[t].rows \in RowLists /\ table[t].fcurrent \in Nat
           /\ table[t].columns \in Lists \cup {0} /\ table[t].name2number \in Indexes
           /\ count(table[t]) \in Nat /\ DOMAIN table[t].rows = 1 .. count(table[t])
           /\ row \in [Rows -> CellLists] /\ names \in [Lists -> NameLists] /\ cycle \in Cycles
<1>1. table[t] \in TableSet
  BY DEF IInv, Types
<1>2. table[t].rows \in RowLists
  BY <1>1 DEF TableSet
<1>3. Len(table[t].rows) \in Nat /\ DOMAIN table[t].rows = 1 .. Len(table[t].rows)
  BY <1>2, LenProperties DEF RowLists
<1>. QED
  BY <1>1, <1>2, <1>3 DEF IInv, Types, TableSet, count

\* ^table::create[table]: rows of its own
LEMMA Clones ==
    ASSUME ConstantsOK, IInv, NEW t \in Tables, NEW u \in Tables, NEW o \in Options, _create_clone(t, u, o)
    PROVE  IInv'
<1>. DEFINE src == table[u]
            path == Walk(src, o)
            of == [i \in DOMAIN path |-> src.rows[path[i] + 1]]
            n == adjust(o, count(src))
<1>1. MaxRows \in Nat
  BY DEF ConstantsOK
<1>2. /\ src.rows \in RowLists /\ src.columns \in Lists \cup {0} /\ src.name2number \in Indexes
      /\ count(src) \in Nat /\ DOMAIN src.rows = 1 .. count(src)
      /\ row \in [Rows -> CellLists] /\ names \in [Lists -> NameLists] /\ cycle \in Cycles
  BY TableTypes
<1>3. n \in Nat /\ DOMAIN path = 1 .. n /\ \A i \in 1 .. n : path[i] \in 0 .. count(src) - 1
  BY <1>1, <1>2, WalkStays DEF Walk
<1>4. \A r \in 1 .. count(src) : src.rows[r] \in Rows
  BY <1>2, ElementOfSeq DEF RowLists, count
<1>5. of \in [1 .. n -> Rows]
  <2>1. ASSUME NEW i \in 1 .. n PROVE src.rows[path[i] + 1] \in Rows
    <3>1. path[i] + 1 \in 1 .. count(src)
      BY <1>2, <1>3
    <3>. QED
      BY <1>4, <3>1
  <2>. QED
    BY <1>3, <2>1
<1>6. Len(of) = n /\ DOMAIN of = 1 .. n
  BY <1>3, <1>5, Listed
<1>7. PICK fresh \in Fresh(n) :
           Becoming(t, New(append_rows(of, fresh), src.columns, src.name2number), Cells(of, fresh))
  BY <1>6 DEF _create_clone
<1>8. /\ fresh \in RowLists /\ DOMAIN fresh = 1 .. n
      /\ \A v \in Tables : In(fresh) \cap In(table[v].rows) = {}
  BY <1>3, <1>7, FreshRows
<1>. DEFINE cells == Cells(of, fresh)
            new == New(fresh, src.columns, src.name2number)
<1>9. cells \in [Rows -> CellLists]
  <2>1. ASSUME NEW r \in Rows, \E i \in DOMAIN fresh : fresh[i] = r
        PROVE  row[of[CHOOSE i \in DOMAIN fresh : fresh[i] = r]] \in CellLists
    <3>1. (CHOOSE i \in DOMAIN fresh : fresh[i] = r) \in 1 .. n
      BY <1>8, <2>1
    <3>. HIDE DEF of
    <3>. QED
      BY <1>2, <1>5, <3>1
  <2>. QED
    BY <1>2, <2>1 DEF Cells
<1>10. new \in TableSet /\ Stands(new) /\ new.rows = fresh
  BY <1>2, <1>8, NewTable
<1>11. Becoming(t, new, cells)
  BY <1>7 DEF append_rows
<1>. HIDE DEF new, cells
<1>12. table' = [table EXCEPT ![t] = new] /\ Becomes(table', cells) /\ List(names, table')
  BY <1>11 DEF Becoming, Becomes
<1>13. cycle' = cycle /\ kin' = Apart(t)
  BY DEF _create_clone, NotCycled
<1>14. Handed(t, new)
  BY <1>8, <1>10 DEF Handed
<1>15. \A a, b \in Tables \ {t} : {a, b} \in kin => {a, b} \in kin'
  BY <1>13, OtherKin
<1>. QED
  BY <1>2, <1>9, <1>10, <1>12, <1>13, <1>14, <1>15, Made

\* ^table::create{}, load, sql: no rows
LEMMA Creates ==
    ASSUME ConstantsOK, IInv, NEW t \in Tables, NEW nameless \in BOOLEAN, _create(t, nameless)
    PROVE  IInv'
<1>1. row \in [Rows -> CellLists] /\ names \in [Lists -> NameLists] /\ cycle \in Cycles
  BY TableTypes
<1>2. cycle' = cycle /\ kin' = Apart(t)
  BY DEF _create, NotCycled
<1>3. <<>> \in RowLists /\ In(<<>>) = {}
  <2>1. <<>> \in Seq(Rows) /\ Len(<<>>) = 0
    BY EmptySeq
  <2>2. DOMAIN <<>> = 1 .. 0
    BY <2>1, LenProperties
  <2>. QED
    BY <2>1, <2>2 DEF In, RowLists
<1>4. \A u, v \in Tables \ {t} : {u, v} \in kin => {u, v} \in kin'
  BY <1>2, OtherKin
<1>5. CASE nameless /\ Becoming(t, New(<<>>, 0, <<>>), row)
  <2>. DEFINE new == New(<<>>, 0, <<>>)
  <2>0. 0 \in Lists \cup {0} /\ <<>> \in Indexes
    BY NoIndex
  <2>1. new \in TableSet /\ Stands(new) /\ new.rows = <<>>
    BY <1>3, <2>0, NewTable
  <2>2. Becoming(t, new, row)
    BY <1>5
  <2>. HIDE DEF new
  <2>3. table' = [table EXCEPT ![t] = new] /\ Becomes(table', row) /\ List(names, table')
    BY <2>2 DEF Becoming, Becomes
  <2>4. Handed(t, new)
    BY <1>3, <2>1 DEF Handed
  <2>. QED
    BY <1>1, <1>2, <1>4, <2>1, <2>3, <2>4, Made
<1>6. CASE ~ nameless
  <2>. DEFINE list == <<0, 1>>
  <2>1. PICK l \in Lists \ UsedLists :
             /\ Becomes([table EXCEPT ![t] = New(<<>>, l, Index(list))], row)
             /\ List([names EXCEPT ![l] = list], [table EXCEPT ![t] = New(<<>>, l, Index(list))])
    BY <1>6 DEF _create
  <2>2. list \in NameLists
    BY DEF NameLists
  <2>3. Index(list) \in Indexes
    BY <2>2, IndexNumbers
  <2>. DEFINE new == New(<<>>, l, Index(list))
              lists == [names EXCEPT ![l] = list]
  <2>4. lists \in [Lists -> NameLists]
    BY <1>1, <2>2
  <2>5. new \in TableSet /\ Stands(new) /\ new.rows = <<>>
    <3>1. l \in Lists \cup {0}
      OBVIOUS
    <3>. QED
      BY <1>3, <2>3, <3>1, NewTable
  <2>6. Becomes([table EXCEPT ![t] = new], row) /\ List(lists, [table EXCEPT ![t] = new])
    BY <2>1
  <2>. HIDE DEF new, lists
  <2>7. table' = [table EXCEPT ![t] = new] /\ Becomes(table', row) /\ List(lists, table')
    BY <2>6 DEF Becomes
  <2>8. Handed(t, new)
    BY <1>3, <2>5 DEF Handed
  <2>. QED
    BY <1>1, <1>2, <1>4, <2>4, <2>5, <2>7, <2>8, Made
<1>. QED
  BY <1>5, <1>6 DEF _create

\* The index that select and sort make
LEMMA IndexMade ==
    ASSUME IInv, NEW u \in Tables
    PROVE  (IF table[u].columns = 0 THEN <<>> ELSE Index(names[table[u].columns])) \in Indexes
<1>1. table[u].columns \in Lists \cup {0} /\ names \in [Lists -> NameLists]
  BY TableTypes
<1>2. CASE table[u].columns = 0
  BY <1>2, NoIndex
<1>3. CASE table[u].columns # 0
  <2>1. names[table[u].columns] \in NameLists
    BY <1>1, <1>3
  <2>2. Index(names[table[u].columns]) \in Indexes
    BY <2>1, IndexNumbers
  <2>. QED
    BY <1>3, <2>2
<1>. QED
  BY <1>2, <1>3

\* $t[^u.select()]: rows of u, and so of its kin
LEMMA Selects ==
    ASSUME ConstantsOK, IInv, NEW t \in Tables, NEW u \in Tables, NEW chosen, NEW o \in Options,
           _select(t, u, chosen, o)
    PROVE  IInv'
<1>. DEFINE src == table[u]
            some == Selected(chosen, o)
            rows == [i \in DOMAIN some |-> src.rows[some[i]]]
            numbers == IF src.columns = 0 THEN <<>> ELSE Index(names[src.columns])
            new == New(rows, src.columns, numbers)
<1>1. /\ src.rows \in RowLists /\ src.columns \in Lists \cup {0} /\ count(src) \in Nat
      /\ DOMAIN src.rows = 1 .. count(src)
      /\ row \in [Rows -> CellLists] /\ names \in [Lists -> NameLists] /\ cycle \in Cycles
  BY TableTypes
<1>2. /\ t # u /\ chosen \subseteq 1 .. count(src) /\ cycle' = cycle
      /\ Becoming(t, new, row) /\ kin' = Akin(Apart(t), t, u)
  BY DEF _select, NotCycled
<1>3. some \in Seq(chosen)
  BY <1>1, <1>2, SelectedStand DEF ConstantsOK
<1>4. Len(some) \in Nat /\ DOMAIN some = 1 .. Len(some) /\ \A i \in 1 .. Len(some) : some[i] \in 1 .. count(src)
  BY <1>2, <1>3, LenProperties, ElementOfSeq
<1>5. \A r \in 1 .. count(src) : src.rows[r] \in Rows /\ src.rows[r] \in In(src.rows)
  BY <1>1, ElementOfSeq DEF RowLists, count, In
<1>. HIDE DEF some
<1>6. rows \in [1 .. Len(some) -> Rows] /\ \A i \in DOMAIN rows : rows[i] \in In(src.rows)
  BY <1>4, <1>5
<1>. HIDE DEF rows
<1>7. rows \in RowLists /\ In(rows) \subseteq In(src.rows)
  BY <1>4, <1>6, Listed DEF RowLists, In
<1>8. numbers \in Indexes
  BY IndexMade
<1>. HIDE DEF numbers
<1>9. new \in TableSet /\ Stands(new) /\ new.rows = rows
  BY <1>1, <1>7, <1>8, NewTable
<1>. HIDE DEF new
<1>10. table' = [table EXCEPT ![t] = new] /\ Becomes(table', row) /\ List(names, table')
  BY <1>2 DEF Becoming, Becomes
<1>11. Handed(t, new)
  <2>. SUFFICES ASSUME NEW v \in Tables \ {t}, In(rows) \cap In(table[v].rows) # {} PROVE {t, v} \in kin'
    BY <1>9 DEF Handed
  <2>1. In(table[u].rows) \cap In(table[v].rows) # {}
    BY <1>7
  <2>2. v = u \/ {u, v} \in kin
    BY <2>1 DEF IInv, RowsApart
  <2>3. v = u \/ {u, v} \in Apart(t)
    BY <1>2, <2>2, OtherKin
  <2>. QED
    BY <1>2, <2>3, Adopted
<1>12. \A a, b \in Tables \ {t} : {a, b} \in kin => {a, b} \in kin'
  BY <1>2, OtherKin, KinStay
<1>. QED
  BY <1>1, <1>2, <1>9, <1>10, <1>11, <1>12, Made

\* sort: the same rows
LEMMA Sorts ==
    ASSUME ConstantsOK, IInv, NEW t \in Tables, NEW desc \in BOOLEAN, _sort(t, 1, desc)
    PROVE  IInv'
<1>. DEFINE rs == table[t].rows
            key == [i \in DOMAIN rs |-> IF 1 <= Len(row[rs[i]]) THEN row[rs[i]][1] ELSE 0]
            numbers == IF table[t].columns = 0 THEN <<>> ELSE Index(names[table[t].columns])
<1>1. /\ rs \in RowLists /\ table[t].columns \in Lists \cup {0}
      /\ row \in [Rows -> CellLists] /\ names \in [Lists -> NameLists] /\ cycle \in Cycles
  BY TableTypes
<1>2. PICK sorted \in Sorted(rs, key, desc) : Becoming(t, New(sorted, table[t].columns, numbers), row)
  BY DEF _sort
<1>3. cycle' = cycle /\ kin' = kin
  BY DEF _sort, NotCycled
<1>. DEFINE new == New(sorted, table[t].columns, numbers)
<1>. HIDE DEF key, rs
<1>4. sorted \in RowLists /\ In(sorted) \subseteq In(rs)
  BY <1>1, SortedRows
<1>5. numbers \in Indexes
  BY IndexMade
<1>. HIDE DEF numbers
<1>6. new \in TableSet /\ Stands(new) /\ new.rows = sorted
  BY <1>1, <1>4, <1>5, NewTable
<1>7. Becoming(t, new, row)
  BY <1>2
<1>. HIDE DEF new
<1>8. table' = [table EXCEPT ![t] = new] /\ Becomes(table', row) /\ List(names, table')
  BY <1>7 DEF Becoming, Becomes
<1>9. Handed(t, new)
  <2>. SUFFICES ASSUME NEW v \in Tables \ {t}, In(sorted) \cap In(table[v].rows) # {} PROVE {t, v} \in kin'
    BY <1>6 DEF Handed
  <2>1. In(table[t].rows) \cap In(table[v].rows) # {}
    BY <1>4 DEF rs
  <2>. QED
    BY <1>3, <2>1 DEF IInv, RowsApart
<1>. QED
  BY <1>1, <1>3, <1>6, <1>8, <1>9, Made

\* A table that keeps its rows and gets some: those of others bring its kin.
LEMMA Grown ==
    ASSUME IInv, NEW t \in Tables, NEW rows \in RowLists
    PROVE  /\ [table[t] EXCEPT !.rows = rows] \in TableSet
           /\ [table[t] EXCEPT !.rows = rows].rows = rows
           /\ count(table[t]) <= Len(rows) => Stands([table[t] EXCEPT !.rows = rows])
<1>1. table[t] \in TableSet /\ table[t].fcurrent \in Nat /\ count(table[t]) \in Nat
  BY TableTypes
<1>2. Len(rows) \in Nat
  BY LenProperties DEF RowLists
<1>3. [table[t] EXCEPT !.rows = rows] \in TableSet /\ [table[t] EXCEPT !.rows = rows].rows = rows
      /\ [table[t] EXCEPT !.rows = rows].fcurrent = table[t].fcurrent
  BY <1>1 DEF TableSet
<1>4. Stands(table[t])
  BY DEF IInv, CurrentStands, Stands
<1>. QED
  BY <1>1, <1>2, <1>3, <1>4 DEF Stands, count

\* The rows that one row is added to, whoever had them before
LEMMA OneMore ==
    ASSUME ConstantsOK, IInv, NEW t \in Tables, NEW s \in Fresh(1), NEW rows \in RowLists, NEW cells \in CellLists,
           In(rows) \subseteq In(table[t].rows) \cup In(s), count(table[t]) <= Len(rows),
           Becoming(t, [table[t] EXCEPT !.rows = rows], [row EXCEPT ![s[1]] = cells]),
           cycle' = cycle, kin' = kin
    PROVE  IInv'
<1>. DEFINE new == [table[t] EXCEPT !.rows = rows]
            all == [row EXCEPT ![s[1]] = cells]
<1>1. row \in [Rows -> CellLists] /\ names \in [Lists -> NameLists] /\ cycle \in Cycles
  BY TableTypes
<1>2. 1 \in Nat
  OBVIOUS
<1>3. \A v \in Tables : In(s) \cap In(table[v].rows) = {}
  BY <1>2, FreshRows
<1>4. new \in TableSet /\ Stands(new) /\ new.rows = rows
  BY Grown
<1>5. all \in [Rows -> CellLists]
  BY <1>1
<1>6. Becoming(t, new, all)
  OBVIOUS
<1>. HIDE DEF new, all
<1>7. table' = [table EXCEPT ![t] = new] /\ Becomes(table', all) /\ List(names, table')
  BY <1>6 DEF Becoming, Becomes
<1>8. Handed(t, new)
  <2>. SUFFICES ASSUME NEW v \in Tables \ {t}, In(rows) \cap In(table[v].rows) # {} PROVE {t, v} \in kin'
    BY <1>4 DEF Handed
  <2>1. In(table[t].rows) \cap In(table[v].rows) # {}
    BY <1>3
  <2>. QED
    BY <2>1 DEF IInv, RowsApart
<1>. QED
  BY <1>1, <1>4, <1>5, <1>7, <1>8, Made

\* The cells that Next appends and inserts
Added == <<1>>
LEMMA OneCell ==
    ASSUME ConstantsOK
    PROVE  Added \in CellLists
  BY DEF ConstantsOK, CellLists, Added

LEMMA OneRow ==
    ASSUME NEW s \in Fresh(1)
    PROVE  s \in RowLists /\ Len(s) = 1
<1>1. 1 \in Nat
  OBVIOUS
<1>. QED
  BY <1>1, FreshRows

\* append
LEMMA Appends ==
    ASSUME ConstantsOK, IInv, NEW t \in Tables, _append(t, Added)
    PROVE  IInv'
<1>1. PICK s \in Fresh(1) :
           Becoming(t, [table[t] EXCEPT !.rows = table[t].rows \o s], [row EXCEPT ![s[1]] = Added])
  BY DEF _append
<1>2. table[t].rows \in Seq(Rows) /\ s \in Seq(Rows) /\ Len(s) = 1 /\ count(table[t]) \in Nat
  BY TableTypes, OneRow DEF RowLists
<1>. DEFINE rows == table[t].rows \o s
            cells == Added
<1>3. rows \in RowLists /\ In(rows) \subseteq In(table[t].rows) \cup In(s) /\ count(table[t]) <= Len(rows)
  <2>1. /\ rows \in Seq(Rows) /\ In(rows) \subseteq In(table[t].rows) \cup In(s)
        /\ Len(rows) = Len(table[t].rows) + Len(s)
    BY <1>2, Joined
  <2>. QED
    BY <1>2, <2>1 DEF RowLists, count
<1>4. cells \in CellLists /\ Becoming(t, [table[t] EXCEPT !.rows = rows], [row EXCEPT ![s[1]] = cells])
  BY <1>1, OneCell
<1>5. cycle' = cycle /\ kin' = kin
  BY DEF _append
<1>. HIDE DEF rows, cells
<1>. QED
  BY <1>3, <1>4, <1>5, OneMore

\* insert
LEMMA Inserts ==
    ASSUME ConstantsOK, IInv, NEW t \in Tables, _insert(t, Added)
    PROVE  IInv'
<1>. DEFINE rs == table[t].rows
            c == table[t].fcurrent
            before == SubSeq(rs, 1, c)
            after == SubSeq(rs, c + 1, Len(rs))
            cells == Added
<1>1. PICK s \in Fresh(1) : Becoming(t, [table[t] EXCEPT !.rows = before \o s \o after], [row EXCEPT ![s[1]] = cells])
  BY DEF _insert
<1>2. /\ rs \in Seq(Rows) /\ s \in Seq(Rows) /\ Len(s) = 1
      /\ c \in Nat /\ Len(rs) \in Nat /\ c <= Len(rs) /\ count(table[t]) = Len(rs)
  <2>1. rs \in Seq(Rows) /\ c \in Nat /\ count(table[t]) \in Nat
    BY TableTypes DEF RowLists
  <2>2. Stands(table[t])
    BY DEF IInv, CurrentStands, Stands
  <2>. QED
    BY <2>1, <2>2, OneRow DEF RowLists, Stands, count
<1>. HIDE DEF rs, c
<1>3. before \in Seq(Rows) /\ In(before) \subseteq In(rs) /\ Len(before) = c
  <2>1. 1 \in Nat \ {0}
    OBVIOUS
  <2>2. /\ before \in Seq(Rows) /\ In(before) \subseteq In(rs)
        /\ Len(before) = IF 1 <= c THEN c - 1 + 1 ELSE 0
    BY <1>2, <2>1, Piece
  <2>. QED
    BY <1>2, <2>2
<1>4. after \in Seq(Rows) /\ In(after) \subseteq In(rs) /\ Len(after) = Len(rs) - c
  <2>1. c + 1 \in Nat \ {0} /\ Len(rs) <= Len(rs)
    BY <1>2
  <2>2. /\ after \in Seq(Rows) /\ In(after) \subseteq In(rs)
        /\ Len(after) = IF c + 1 <= Len(rs) THEN Len(rs) - (c + 1) + 1 ELSE 0
    BY <1>2, <2>1, Piece
  <2>. QED
    BY <1>2, <2>2
<1>. HIDE DEF before, after
<1>. DEFINE half == before \o s
            rows == half \o after
<1>5. half \in Seq(Rows) /\ In(half) \subseteq In(before) \cup In(s) /\ Len(half) = c + 1
  BY <1>2, <1>3, Joined
<1>6. rows \in Seq(Rows) /\ In(rows) \subseteq In(half) \cup In(after) /\ Len(rows) = Len(rs) + 1
  <2>. HIDE DEF half
  <2>1. rows \in Seq(Rows) /\ In(rows) \subseteq In(half) \cup In(after) /\ Len(rows) = Len(half) + Len(after)
    BY <1>4, <1>5, Joined
  <2>. QED
    BY <1>2, <1>4, <1>5, <2>1
<1>7. Becoming(t, [table[t] EXCEPT !.rows = rows], [row EXCEPT ![s[1]] = cells])
  BY <1>1
<1>8. cells \in CellLists
  BY OneCell
<1>. HIDE DEF half, rows, cells
<1>9. rows \in RowLists /\ In(rows) \subseteq In(table[t].rows) \cup In(s) /\ count(table[t]) <= Len(rows)
  <2>1. In(rows) \subseteq In(rs) \cup In(s)
    BY <1>3, <1>4, <1>5, <1>6
  <2>2. In(rs) = In(table[t].rows)
    BY DEF rs
  <2>. QED
    BY <1>2, <1>6, <2>1, <2>2 DEF RowLists
<1>10. cycle' = cycle /\ kin' = kin
  BY DEF _insert
<1>. QED
  BY <1>7, <1>8, <1>9, <1>10, OneMore

\* delete: the row before the last one is current when the last one was
LEMMA Deletes ==
    ASSUME ConstantsOK, IInv, NEW t \in Tables, _delete(t)
    PROVE  IInv'
<1>. DEFINE rs == table[t].rows
            c == table[t].fcurrent
            before == SubSeq(rs, 1, c)
            after == SubSeq(rs, c + 2, Len(rs))
            rows == before \o after
            rest == [table[t] EXCEPT !.rows = rows]
            new == remove_current(table[t])
<1>1. /\ row \in [Rows -> CellLists] /\ names \in [Lists -> NameLists] /\ cycle \in Cycles
      /\ rs \in Seq(Rows) /\ c \in Nat /\ Len(rs) \in Nat /\ table[t] \in TableSet
  BY TableTypes DEF RowLists, count
<1>2. c < Len(rs) /\ cycle' = cycle /\ kin' = kin /\ Becoming(t, new, row)
  BY DEF _delete, count
<1>3. new = IF rest.fcurrent >= count(rest) /\ count(rest) > 0 THEN [rest EXCEPT !.fcurrent = rest.fcurrent - 1] ELSE rest
  BY DEF remove_current
<1>. HIDE DEF rs, c
<1>4. before \in Seq(Rows) /\ In(before) \subseteq In(rs) /\ Len(before) = c
  <2>1. 1 \in Nat \ {0} /\ c <= Len(rs)
    BY <1>1, <1>2
  <2>2. /\ before \in Seq(Rows) /\ In(before) \subseteq In(rs)
        /\ Len(before) = IF 1 <= c THEN c - 1 + 1 ELSE 0
    BY <1>1, <2>1, Piece
  <2>. QED
    BY <1>1, <2>2
<1>5. after \in Seq(Rows) /\ In(after) \subseteq In(rs) /\ Len(after) = Len(rs) - c - 1
  <2>1. c + 2 \in Nat \ {0} /\ Len(rs) <= Len(rs)
    BY <1>1
  <2>2. /\ after \in Seq(Rows) /\ In(after) \subseteq In(rs)
        /\ Len(after) = IF c + 2 <= Len(rs) THEN Len(rs) - (c + 2) + 1 ELSE 0
    BY <1>1, <2>1, Piece
  <2>. QED
    BY <1>1, <1>2, <2>2
<1>. HIDE DEF before, after
<1>6. rows \in Seq(Rows) /\ In(rows) \subseteq In(rs) /\ Len(rows) = Len(rs) - 1
  <2>1. rows \in Seq(Rows) /\ In(rows) \subseteq In(before) \cup In(after) /\ Len(rows) = Len(before) + Len(after)
    BY <1>4, <1>5, Joined
  <2>. QED
    BY <1>1, <1>4, <1>5, <2>1
<1>. HIDE DEF rows
<1>7. rest \in TableSet /\ rest.rows = rows /\ rest.fcurrent = c
  BY <1>1, <1>6 DEF TableSet, RowLists, c
<1>. HIDE DEF rest, new
<1>8. new \in TableSet /\ new.rows = rows /\ Stands(new)
  <2>1. count(rest) = Len(rs) - 1
    BY <1>6, <1>7 DEF count
  <2>2. CASE c = Len(rs) - 1 /\ Len(rs) - 1 > 0
    <3>1. new = [rest EXCEPT !.fcurrent = c - 1]
      BY <1>1, <1>3, <1>7, <2>1, <2>2
    <3>2. c - 1 \in Nat
      BY <1>1, <2>2
    <3>3. new \in TableSet /\ new.rows = rows /\ new.fcurrent = c - 1
      BY <1>7, <3>1, <3>2 DEF TableSet
    <3>. QED
      BY <1>1, <1>6, <2>2, <3>3 DEF Stands, count
  <2>3. CASE ~ (c = Len(rs) - 1 /\ Len(rs) - 1 > 0)
    <3>1. new = rest
      BY <1>1, <1>2, <1>3, <1>7, <2>1, <2>3
    <3>. QED
      BY <1>1, <1>2, <1>6, <1>7, <2>3, <3>1 DEF Stands, count
  <2>. QED
    BY <2>2, <2>3
<1>9. table' = [table EXCEPT ![t] = new] /\ Becomes(table', row) /\ List(names, table')
  BY <1>2 DEF Becoming, Becomes
<1>10. Handed(t, new)
  <2>. SUFFICES ASSUME NEW v \in Tables \ {t}, In(rows) \cap In(table[v].rows) # {} PROVE {t, v} \in kin'
    BY <1>8 DEF Handed
  <2>1. In(table[t].rows) \cap In(table[v].rows) # {}
    BY <1>6 DEF rs
  <2>. QED
    BY <1>2, <2>1 DEF IInv, RowsApart
<1>. QED
  BY <1>1, <1>2, <1>8, <1>9, <1>10, Made

\* ^t.join[u]: a nameless table takes the rows of the walk, and with them its kin,
LEMMA JoinsRows ==
    ASSUME ConstantsOK, IInv, NEW t \in Tables, NEW u \in Tables, t # u, cycle' = cycle,
           NEW path, NEW n \in Nat, DOMAIN path = 1 .. n, \A i \in 1 .. n : path[i] \in 0 .. count(table[u]) - 1,
           Becoming(t, [table[t] EXCEPT !.rows = table[t].rows \o [i \in DOMAIN path |-> table[u].rows[path[i] + 1]]], row),
           (kin' = kin /\ n = 0) \/ kin' = Akin(kin, t, u)
    PROVE  IInv'
<1>. DEFINE more == [i \in DOMAIN path |-> table[u].rows[path[i] + 1]]
            rows == table[t].rows \o more
            new == [table[t] EXCEPT !.rows = rows]
<1>1. /\ row \in [Rows -> CellLists] /\ names \in [Lists -> NameLists] /\ cycle \in Cycles
      /\ table[t].rows \in Seq(Rows) /\ table[u].rows \in Seq(Rows) /\ count(table[u]) \in Nat
      /\ DOMAIN table[u].rows = 1 .. count(table[u]) /\ count(table[t]) \in Nat
  BY TableTypes DEF RowLists
<1>2. ASSUME NEW i \in 1 .. n PROVE more[i] \in Rows /\ more[i] \in In(table[u].rows)
  <2>1. path[i] + 1 \in 1 .. count(table[u])
    BY <1>1
  <2>2. table[u].rows[path[i] + 1] \in Rows
    BY <1>1, <2>1, ElementOfSeq DEF count
  <2>. QED
    BY <1>1, <2>1, <2>2 DEF In
<1>3. more \in [1 .. n -> Rows]
  <2>1. more = [i \in 1 .. n |-> more[i]]
    OBVIOUS
  <2>. HIDE DEF more
  <2>. QED
    BY <1>2, <2>1
<1>4. Becoming(t, new, row)
  OBVIOUS
<1>. HIDE DEF more
<1>5. more \in Seq(Rows) /\ Len(more) = n /\ In(more) \subseteq In(table[u].rows)
  BY <1>2, <1>3, Listed DEF In
<1>6. /\ rows \in Seq(Rows) /\ In(rows) \subseteq In(table[t].rows) \cup In(more)
      /\ Len(rows) = Len(table[t].rows) + Len(more)
  BY <1>1, <1>5, Joined
<1>. HIDE DEF rows
<1>7. new \in TableSet /\ new.rows = rows /\ Stands(new)
  <2>1. rows \in RowLists /\ count(table[t]) <= Len(rows)
    BY <1>1, <1>5, <1>6 DEF RowLists, count
  <2>. QED
    BY <2>1, Grown
<1>. HIDE DEF new
<1>8. table' = [table EXCEPT ![t] = new] /\ Becomes(table', row) /\ List(names, table')
  BY <1>4 DEF Becoming, Becomes
<1>9. kin \subseteq kin'
  BY KinStay
<1>10. Handed(t, new)
  <2>. SUFFICES ASSUME NEW v \in Tables \ {t}, In(rows) \cap In(table[v].rows) # {} PROVE {t, v} \in kin'
    BY <1>7 DEF Handed
  <2>1. CASE In(table[t].rows) \cap In(table[v].rows) # {}
    BY <1>9, <2>1 DEF IInv, RowsApart
  <2>2. CASE In(more) \cap In(table[v].rows) # {}
    <3>1. n # 0
      BY <1>2, <1>3, <2>2 DEF In
    <3>2. In(table[u].rows) \cap In(table[v].rows) # {}
      BY <1>5, <2>2
    <3>3. v = u \/ {u, v} \in kin
      BY <3>2 DEF IInv, RowsApart
    <3>. QED
      BY <3>1, <3>3, Adopted
  <2>. QED
    BY <1>6, <2>1, <2>2
<1>. QED
  BY <1>1, <1>7, <1>8, <1>9, <1>10, Made

\* a named one has rows made of their cells.
LEMMA JoinsCells ==
    ASSUME ConstantsOK, IInv, NEW t \in Tables, NEW n \in Nat, NEW fresh \in Fresh(n), NEW cells \in [Rows -> CellLists],
           Becoming(t, [table[t] EXCEPT !.rows = table[t].rows \o fresh], cells), cycle' = cycle, kin' = kin
    PROVE  IInv'
<1>. DEFINE rows == table[t].rows \o fresh
            new == [table[t] EXCEPT !.rows = rows]
<1>1. /\ row \in [Rows -> CellLists] /\ names \in [Lists -> NameLists] /\ cycle \in Cycles
      /\ table[t].rows \in Seq(Rows) /\ count(table[t]) \in Nat
  BY TableTypes DEF RowLists
<1>2. /\ fresh \in Seq(Rows) /\ Len(fresh) = n
      /\ \A v \in Tables : In(fresh) \cap In(table[v].rows) = {}
  BY FreshRows DEF RowLists
<1>3. /\ rows \in Seq(Rows) /\ In(rows) \subseteq In(table[t].rows) \cup In(fresh)
      /\ Len(rows) = Len(table[t].rows) + Len(fresh)
  BY <1>1, <1>2, Joined
<1>4. Becoming(t, new, cells)
  OBVIOUS
<1>. HIDE DEF rows
<1>5. new \in TableSet /\ new.rows = rows /\ Stands(new)
  <2>1. rows \in RowLists /\ count(table[t]) <= Len(rows)
    BY <1>1, <1>2, <1>3 DEF RowLists, count
  <2>. QED
    BY <2>1, Grown
<1>. HIDE DEF new
<1>6. table' = [table EXCEPT ![t] = new] /\ Becomes(table', cells) /\ List(names, table')
  BY <1>4 DEF Becoming, Becomes
<1>7. Handed(t, new)
  <2>. SUFFICES ASSUME NEW v \in Tables \ {t}, In(rows) \cap In(table[v].rows) # {} PROVE {t, v} \in kin'
    BY <1>5 DEF Handed
  <2>1. In(table[t].rows) \cap In(table[v].rows) # {}
    BY <1>2, <1>3
  <2>. QED
    BY <2>1 DEF IInv, RowsApart
<1>. QED
  BY <1>1, <1>5, <1>6, <1>7, Made

LEMMA Joins ==
    ASSUME ConstantsOK, IInv, NEW t \in Tables, NEW u \in Tables, NEW o \in Options, _join(t, u, o)
    PROVE  IInv'
<1>. DEFINE src == table[u]
            path == Walk(src, o)
            n == adjust(o, count(src))
            list == names[table[t].columns]
            at(i) == [src EXCEPT !.fcurrent = path[i]]
            cell(i, c) == item(at(i), column_name2index(src, list[c]))
            got(i) == [c \in DOMAIN list |-> IF cell(i, c) = -1 THEN 0 ELSE cell(i, c)]
<1>1. /\ src \in TableSet /\ count(src) \in Nat /\ table[t].columns \in Lists \cup {0}
      /\ row \in [Rows -> CellLists] /\ names \in [Lists -> NameLists] /\ MaxRows \in Nat
  BY TableTypes DEF ConstantsOK
<1>2. n \in Nat /\ DOMAIN path = 1 .. n /\ \A i \in 1 .. n : path[i] \in 0 .. count(src) - 1
  BY <1>1, WalkStays DEF Walk
<1>. HIDE DEF n
<1>3. t # u /\ cycle' = cycle
  BY DEF _join
<1>4. CASE /\ Becoming(t, [table[t] EXCEPT !.rows = table[t].rows \o [i \in DOMAIN path |-> src.rows[path[i] + 1]]], row)
           /\ kin' = IF path = <<>> THEN kin ELSE Akin(kin, t, u)
  <2>1. path = <<>> => n = 0
    <3>1. path \in [1 .. n -> 0 .. count(src) - 1]
      BY <1>2 DEF Walk
    <3>2. Len(path) = n
      BY <1>2, <3>1, Listed
    <3>3. Len(<<>>) = 0
      BY EmptySeq
    <3>. QED
      BY <3>2, <3>3
  <2>. HIDE DEF path
  <2>2. (kin' = kin /\ n = 0) \/ kin' = Akin(kin, t, u)
    BY <1>4, <2>1
  <2>3. Becoming(t, [table[t] EXCEPT !.rows = table[t].rows \o [i \in DOMAIN path |-> table[u].rows[path[i] + 1]]], row)
    BY <1>4
  <2>. QED
    BY <1>2, <1>3, <2>2, <2>3, JoinsRows
<1>5. CASE /\ table[t].columns # 0
           /\ \E fresh \in Fresh(n) :
                  Becoming(t, [table[t] EXCEPT !.rows = table[t].rows \o fresh],
                           [r \in Rows |-> IF r \in In(fresh) THEN got(CHOOSE i \in DOMAIN fresh : fresh[i] = r) ELSE row[r]])
           /\ kin' = kin
  <2>1. PICK fresh \in Fresh(n) :
             Becoming(t, [table[t] EXCEPT !.rows = table[t].rows \o fresh],
                      [r \in Rows |-> IF r \in In(fresh) THEN got(CHOOSE i \in DOMAIN fresh : fresh[i] = r) ELSE row[r]])
    BY <1>5
  <2>2. DOMAIN fresh = 1 .. n
    BY <1>2, FreshRows
  <2>3. list \in Seq(Nat) /\ Len(list) \in Nat /\ DOMAIN list = 1 .. Len(list) /\ \A c \in DOMAIN list : list[c] \in Nat
    <3>1. list \in Seq(Nat)
      BY <1>1, <1>5 DEF NameLists
    <3>. QED
      BY <3>1, LenProperties, ElementOfSeq
  <2>. HIDE DEF list, path
  <2>4. ASSUME NEW i \in 1 .. n PROVE got(i) \in CellLists
    <3>1. at(i) \in TableSet
      <4>1. path[i] \in Nat
        BY <1>1, <1>2
      <4>. QED
        BY <1>1, <4>1 DEF TableSet
    <3>. HIDE DEF at
    <3>2. ASSUME NEW c \in DOMAIN list PROVE (IF cell(i, c) = -1 THEN 0 ELSE cell(i, c)) \in Cell
      <4>1. column_name2index(src, list[c]) \in Nat
        BY <1>1, <2>3, ColumnNumbers
      <4>2. cell(i, c) # -1 => cell(i, c) \in Cell
        BY <1>1, <3>1, <4>1, ItemIsCell
      <4>3. 0 \in Cell
        BY DEF ConstantsOK
      <4>. HIDE DEF cell
      <4>. QED
        BY <4>2, <4>3
    <3>. HIDE DEF cell
    <3>3. got(i) \in [1 .. Len(list) -> Cell]
      BY <2>3, <3>2
    <3>. HIDE DEF got
    <3>. QED
      BY <2>3, <3>3, Listed DEF CellLists
  <2>. HIDE DEF got
  <2>. DEFINE cells == [r \in Rows |-> IF r \in In(fresh) THEN got(CHOOSE i \in DOMAIN fresh : fresh[i] = r) ELSE row[r]]
  <2>5. ASSUME NEW r \in Rows, r \in In(fresh) PROVE (CHOOSE i \in DOMAIN fresh : fresh[i] = r) \in 1 .. n
    <3>1. \E i \in DOMAIN fresh : fresh[i] = r
      BY <2>5 DEF In
    <3>. QED
      BY <2>2, <3>1
  <2>6. cells \in [Rows -> CellLists]
    BY <1>1, <2>4, <2>5
  <2>7. Becoming(t, [table[t] EXCEPT !.rows = table[t].rows \o fresh], cells)
    BY <2>1
  <2>. HIDE DEF cells
  <2>. QED
    BY <1>2, <1>3, <1>5, <2>6, <2>7, JoinsCells
<1>6. n = Len(path)
  <2>1. path \in [1 .. n -> 0 .. count(src) - 1]
    BY <1>2 DEF Walk
  <2>. QED
    BY <1>2, <2>1, Listed
<1>. QED
  BY <1>4, <1>5, <1>6 DEF _join

\* $table.name[value]: the cells of a row change, whoever has it
LEMMA Puts ==
    ASSUME ConstantsOK, IInv, NEW t \in Tables, NEW n, NEW value \in Cell, put_element(t, n, value)
    PROVE  IInv'
<1>. DEFINE column == column_name2index(table[t], n)
            r == table[t].rows[table[t].fcurrent + 1]
            cells == row[r]
            length == IF column > Len(cells) THEN column ELSE Len(cells)
            put == [c \in 1 .. length |-> IF c = column THEN value ELSE IF c <= Len(cells) THEN cells[c] ELSE 0]
<1>1. /\ row \in [Rows -> CellLists] /\ names \in [Lists -> NameLists] /\ cycle \in Cycles
      /\ table[t].rows \in Seq(Rows) /\ table[t].fcurrent \in Nat /\ table \in [Tables -> TableSet]
  BY TableTypes DEF RowLists, IInv, Types
<1>2. /\ column \in 1 .. MaxCells /\ row' = [row EXCEPT ![r] = put] /\ table[t].fcurrent < count(table[t])
      /\ names' = names /\ table' = table /\ cycle' = cycle /\ kin' = kin
  BY DEF put_element
<1>3. r \in Rows
  <2>1. table[t].fcurrent + 1 \in 1 .. Len(table[t].rows)
    BY <1>1, <1>2, LenProperties DEF count
  <2>. QED
    BY <1>1, <2>1, ElementOfSeq
<1>4. cells \in Seq(Cell) /\ Len(cells) \in Nat /\ column \in Nat
  <2>1. cells \in CellLists /\ CellLists \subseteq Seq(Cell)
    BY <1>1, <1>3 DEF CellLists
  <2>2. cells \in Seq(Cell)
    BY <2>1
  <2>3. Len(cells) \in Nat
    BY <2>2, LenProperties
  <2>4. column \in Nat
    BY <1>2
  <2>. QED
    BY <2>2, <2>3, <2>4
<1>. HIDE DEF column, r, cells
<1>5. put \in CellLists
  <2>1. length \in Nat
    BY <1>4
  <2>2. ASSUME NEW c \in 1 .. length PROVE (IF c = column THEN value ELSE IF c <= Len(cells) THEN cells[c] ELSE 0) \in Cell
    <3>1. c <= Len(cells) => cells[c] \in Cell
      BY <1>4, <2>1, ElementOfSeq
    <3>2. 0 \in Cell
      BY DEF ConstantsOK
    <3>. QED
      BY <3>1, <3>2
  <2>. HIDE DEF length
  <2>3. put \in [1 .. length -> Cell]
    BY <2>2
  <2>. HIDE DEF put
  <2>. QED
    BY <2>1, <2>3, Listed DEF CellLists
<1>. HIDE DEF put
<1>6. row' \in [Rows -> CellLists]
  BY <1>1, <1>2, <1>5
<1>7. Types'
  BY <1>1, <1>2, <1>6 DEF Types
<1>8. RowsApart' /\ CurrentStands'
  BY <1>2 DEF IInv, RowsApart, CurrentStands
<1>. QED
  BY <1>7, <1>8 DEF IInv

\* rename: the index is of this table
LEMMA Renames ==
    ASSUME ConstantsOK, IInv, NEW t \in Tables, _rename(t, 0, 2)
    PROVE  IInv'
<1>. DEFINE old == names[table[t].columns]
            list == [i \in DOMAIN old |-> IF old[i] = 0 THEN 2 ELSE old[i]]
            new == [table[t] EXCEPT !.name2number = Index(list)]
<1>1. /\ row \in [Rows -> CellLists] /\ names \in [Lists -> NameLists] /\ cycle \in Cycles
      /\ table[t] \in TableSet /\ table[t].columns \in Lists \cup {0} /\ table \in [Tables -> TableSet]
  BY TableTypes DEF IInv, Types
<1>2. /\ table[t].columns # 0 /\ names' = [names EXCEPT ![table[t].columns] = list]
      /\ table' = [table EXCEPT ![t] = [table[t] EXCEPT !.name2number = Index(list)]]
      /\ row' = row /\ cycle' = cycle /\ kin' = kin
  BY <1>1 DEF _rename
<1>3. old \in Seq(Nat) /\ Len(old) \in Nat /\ DOMAIN old = 1 .. Len(old) /\ \A i \in 1 .. Len(old) : old[i] \in Nat
  <2>1. old \in Seq(Nat)
    BY <1>1, <1>2 DEF NameLists
  <2>. QED
    BY <2>1, LenProperties, ElementOfSeq
<1>. HIDE DEF old
<1>4. list \in NameLists
  <2>1. list \in [1 .. Len(old) -> Nat]
    BY <1>3
  <2>. HIDE DEF list
  <2>. QED
    BY <1>3, <2>1, Listed DEF NameLists
<1>. HIDE DEF list
<1>5. Index(list) \in Indexes
  BY <1>4, IndexNumbers
<1>6. new \in TableSet /\ new.rows = table[t].rows /\ new.fcurrent = table[t].fcurrent
  BY <1>1, <1>5 DEF TableSet
<1>7. table' = [table EXCEPT ![t] = new]
  BY <1>2
<1>. HIDE DEF new
<1>8. Stands(new)
  BY <1>6 DEF IInv, CurrentStands, Stands, count
<1>9. names' \in [Lists -> NameLists]
  BY <1>1, <1>2, <1>4
<1>. QED
  BY <1>1, <1>2, <1>6, <1>7, <1>8, <1>9, Moved

\* What set_current() leaves
LEMMA Current ==
    ASSUME NEW t \in TableSet, NEW n \in Nat
    PROVE  /\ set_current(t, n) \in TableSet /\ set_current(t, n).rows = t.rows /\ Stands(set_current(t, n))
           /\ n < count(t) => set_current(t, n).fcurrent = n
<1>1. count(t) \in Nat
  <2>1. t.rows \in Seq(Rows)
    BY DEF TableSet, RowLists
  <2>. QED
    BY <2>1, LenProperties DEF count
<1>. DEFINE c == IF n < count(t) THEN n ELSE IF count(t) > 0 THEN count(t) - 1 ELSE 0
<1>2. c \in Nat /\ (c < count(t) \/ (count(t) = 0 /\ c = 0)) /\ (n < count(t) => c = n)
  BY <1>1
<1>3. set_current(t, n) = [t EXCEPT !.fcurrent = c]
  BY DEF set_current
<1>. HIDE DEF c
<1>4. [t EXCEPT !.fcurrent = c] \in TableSet /\ [t EXCEPT !.fcurrent = c].rows = t.rows /\ [t EXCEPT !.fcurrent = c].fcurrent = c
  BY <1>2 DEF TableSet
<1>. QED
  BY <1>2, <1>3, <1>4 DEF Stands, count

\* A row becomes current: offset, locate, and the steps of a cycle
LEMMA Becurrents ==
    ASSUME IInv, NEW t \in Tables, NEW n \in Nat, table' = [table EXCEPT ![t] = set_current(table[t], n)],
           row' = row, names' = names, kin' = kin, cycle' \in Cycles
    PROVE  IInv'
<1>. DEFINE new == set_current(table[t], n)
<1>1. row \in [Rows -> CellLists] /\ names \in [Lists -> NameLists] /\ table[t] \in TableSet
  BY TableTypes
<1>2. new \in TableSet /\ new.rows = table[t].rows /\ Stands(new)
  BY <1>1, Current
<1>3. table' = [table EXCEPT ![t] = new]
  OBVIOUS
<1>. HIDE DEF new
<1>. QED
  BY <1>1, <1>2, <1>3, Moved

LEMMA Offsets ==
    ASSUME ConstantsOK, IInv, NEW t \in Tables, NEW absolute \in BOOLEAN, NEW n \in {-1, 1}, offset(t, absolute, n)
    PROVE  IInv'
<1>1. /\ count(table[t]) > 0 /\ row' = row /\ names' = names /\ cycle' = cycle /\ kin' = kin
      /\ table' = [table EXCEPT ![t] = [table[t] EXCEPT !.fcurrent = Offset(table[t], absolute, n)]]
  <2>1. table \in [Tables -> TableSet]
    BY DEF IInv, Types
  <2>. QED
    BY <2>1 DEF offset
<1>2. count(table[t]) \in Nat /\ table[t].fcurrent \in Nat /\ cycle \in Cycles
  BY TableTypes
<1>3. Offset(table[t], absolute, n) \in 0 .. count(table[t]) - 1
  <2>. DEFINE sum == (IF absolute THEN 0 ELSE table[t].fcurrent) + n + count(table[t])
              c == count(table[t])
  <2>1. sum \in Int /\ Word \in Nat \ {0} /\ c \in Nat \ {0}
    BY <1>1, <1>2 DEF ConstantsOK
  <2>2. Offset(table[t], absolute, n) = (sum % Word) % c
    BY DEF Offset
  <2>. HIDE DEF sum, c
  <2>3. sum % Word \in Int
    BY <2>1
  <2>. DEFINE m == sum % Word
  <2>. HIDE DEF m
  <2>4. m % c \in 0 .. c - 1
    BY <2>1, <2>3 DEF m
  <2>. QED
    BY <2>2, <2>4 DEF m, c
<1>4. table' = [table EXCEPT ![t] = set_current(table[t], Offset(table[t], absolute, n))]
  <2>1. Offset(table[t], absolute, n) < count(table[t])
    BY <1>2, <1>3
  <2>. QED
    BY <1>1, <2>1 DEF set_current
<1>5. Offset(table[t], absolute, n) \in Nat
  BY <1>2, <1>3
<1>. QED
  BY <1>1, <1>2, <1>4, <1>5, Becurrents

\* The walk is over the rows that offset and limit leave, each of them once.
Left(n, o) == IF o.offset < n THEN {i \in 0 .. (n - 1) : IF o.reverse THEN i <= o.offset /\ i > o.offset - o.limit
                                                         ELSE i >= o.offset /\ i < o.offset + o.limit}
              ELSE {}
Step(o, i) == IF o.reverse THEN o.offset - (i - 1) ELSE o.offset + (i - 1)
LEMMA WalkIsWhole ==
    ASSUME NEW n \in Nat, NEW o \in Options, MaxRows \in Nat
    PROVE  /\ \A i \in 1 .. adjust(o, n) : Step(o, i) \in Left(n, o)
           /\ \A j \in Left(n, o) : \E i \in 1 .. adjust(o, n) : Step(o, i) = j
<1>1. o.offset \in Nat /\ o.limit \in Nat /\ o.reverse \in BOOLEAN /\ adjust(o, n) \in Nat
  BY WalkStays DEF Options
<1>2. ASSUME NEW i \in 1 .. adjust(o, n) PROVE Step(o, i) \in Left(n, o)
  <2>1. CASE o.reverse
    BY <1>1, <2>1 DEF adjust, Step, Left
  <2>2. CASE ~ o.reverse
    BY <1>1, <2>2 DEF adjust, Step, Left
  <2>. QED
    BY <2>1, <2>2
<1>3. ASSUME NEW j \in Left(n, o) PROVE \E i \in 1 .. adjust(o, n) : Step(o, i) = j
  <2>0. j \in 0 .. n - 1 /\ o.offset < n
    BY DEF Left
  <2>1. CASE o.reverse
    <3>1. j <= o.offset /\ j > o.offset - o.limit
      BY <2>1 DEF Left
    <3>2. o.offset - j + 1 \in 1 .. adjust(o, n)
      BY <1>1, <2>0, <2>1, <3>1 DEF adjust
    <3>3. Step(o, o.offset - j + 1) = j
      BY <1>1, <2>0, <2>1 DEF Step
    <3>. QED
      BY <3>2, <3>3
  <2>2. CASE ~ o.reverse
    <3>1. j >= o.offset /\ j < o.offset + o.limit
      BY <2>2 DEF Left
    <3>2. j - o.offset + 1 \in 1 .. adjust(o, n)
      BY <1>1, <2>0, <2>2, <3>1 DEF adjust
    <3>3. Step(o, j - o.offset + 1) = j
      BY <1>1, <2>0, <2>2 DEF Step
    <3>. QED
      BY <3>2, <3>3
  <2>. QED
    BY <2>1, <2>2
<1>. QED
  BY <1>2, <1>3

\* locate makes the first of them that fits current, and nothing if none does.
First(o, found, w) == \A j \in found : IF o.reverse THEN j <= w ELSE w <= j
LEMMA Locates ==
    ASSUME ConstantsOK, NEW t \in TableSet, NEW o \in Options, NEW fit
    PROVE  /\ Left(count(t), o) \cap fit = {} => Located(t, fit, o) = t
           /\ Left(count(t), o) \cap fit # {} =>
                \E w \in Left(count(t), o) \cap fit :
                    Located(t, fit, o) = set_current(t, w) /\ First(o, Left(count(t), o) \cap fit, w)
<1>. DEFINE n == count(t)
            a == adjust(o, n)
            numbers == {i \in 1 .. a : Walk(t, o)[i] \in fit}
            found == Left(n, o) \cap fit
            least == CHOOSE i \in numbers : \A j \in numbers : i <= j
<1>1. n \in Nat /\ MaxRows \in Nat
  <2>1. t.rows \in Seq(Rows)
    BY DEF TableSet, RowLists
  <2>. QED
    BY <2>1, LenProperties DEF count, ConstantsOK
<1>2. /\ \A i \in 1 .. a : Step(o, i) \in Left(n, o)
      /\ \A j \in Left(n, o) : \E i \in 1 .. a : Step(o, i) = j
      /\ a \in Nat
  BY <1>1, WalkIsWhole, WalkStays
<1>3. \A i \in 1 .. a : Walk(t, o)[i] = Step(o, i)
  BY DEF Walk, Step
<1>4. Located(t, fit, o) = IF numbers = {} THEN t ELSE set_current(t, Walk(t, o)[least])
  BY DEF Located
<1>. HIDE DEF n, a
<1>5. numbers = {} <=> found = {}
  BY <1>2, <1>3
<1>6. ASSUME found # {} PROVE \E w \in found : Located(t, fit, o) = set_current(t, w) /\ First(o, found, w)
  <2>1. numbers # {} /\ numbers \subseteq Nat
    BY <1>2, <1>5, <1>6
  <2>2. \E i \in numbers : \A j \in numbers : i <= j
    <3>. HIDE DEF numbers
    <3>. QED
      BY <2>1, Least
  <2>3. least \in numbers /\ \A j \in numbers : least <= j
    <3>. HIDE DEF numbers
    <3>. QED
      BY <2>2
  <2>. HIDE DEF least
  <2>4. Step(o, least) \in found /\ Located(t, fit, o) = set_current(t, Step(o, least))
    BY <1>2, <1>3, <1>4, <2>1, <2>3
  <2>5. ASSUME NEW j \in found PROVE IF o.reverse THEN j <= Step(o, least) ELSE Step(o, least) <= j
    <3>1. PICK i \in 1 .. a : Step(o, i) = j
      BY <1>2
    <3>2. i \in numbers
      BY <1>3, <3>1
    <3>3. least <= i /\ least \in Int /\ i \in Int
      BY <1>2, <2>3, <3>2
    <3>4. o.offset \in Int
      BY DEF Options
    <3>. QED
      BY <3>1, <3>3, <3>4 DEF Step
  <2>. QED
    BY <2>4, <2>5 DEF First
<1>. QED
  BY <1>4, <1>5, <1>6 DEF n

LEMMA Locate ==
    ASSUME ConstantsOK, IInv, NEW t \in Tables, NEW n, NEW value, NEW o \in Options, _locate(t, n, value, o)
    PROVE  IInv'
<1>. DEFINE u == table[t]
            fit == {i \in 0 .. (count(u) - 1) : item(set_current(u, i), column_name2index(u, n)) = value}
<1>1. /\ row' = row /\ names' = names /\ cycle' = cycle /\ kin' = kin
      /\ table' = [table EXCEPT ![t] = Located(u, fit, o)]
  BY DEF _locate
<1>2. u \in TableSet /\ cycle \in Cycles /\ count(u) \in Nat /\ table \in [Tables -> TableSet]
  BY TableTypes DEF IInv, Types
<1>. HIDE DEF fit
<1>3. CASE Left(count(u), o) \cap fit = {}
  <2>1. table' = table
    BY <1>1, <1>2, <1>3, Locates
  <2>. QED
    BY <1>1, <2>1 DEF IInv, Types, RowsApart, CurrentStands
<1>4. CASE Left(count(u), o) \cap fit # {}
  <2>1. PICK w \in Left(count(u), o) : Located(u, fit, o) = set_current(u, w)
    BY <1>2, <1>4, Locates
  <2>2. w \in Nat
    BY <1>2 DEF Left
  <2>. QED
    BY <1>1, <1>2, <2>1, <2>2, Becurrents
<1>. QED
  BY <1>3, <1>4

\* menu and foreach
LEMMA Begins ==
    ASSUME ConstantsOK, IInv, NEW t \in Tables, begin(t)
    PROVE  IInv'
<1>1. table[t].fcurrent \in Nat /\ table \in [Tables -> TableSet] /\ 0 \in Nat
  BY TableTypes DEF IInv, Types
<1>2. /\ row' = row /\ names' = names /\ kin' = kin
      /\ table' = [table EXCEPT ![t] = set_current(table[t], 0)]
      /\ cycle' = [of |-> t, row |-> 0, saved |-> table[t].fcurrent]
  BY <1>1 DEF begin
<1>3. cycle' \in Cycles
  BY <1>1, <1>2 DEF Cycles
<1>. QED
  BY <1>1, <1>2, <1>3, Becurrents

LEMMA Steps ==
    ASSUME ConstantsOK, IInv, step
    PROVE  IInv'
<1>1. cycle \in Cycles /\ table \in [Tables -> TableSet]
  BY DEF IInv, Types
<1>2. cycle.of \in Tables /\ cycle.row + 1 \in Nat
  BY <1>1 DEF step, Cycles
<1>3. /\ row' = row /\ names' = names /\ kin' = kin
      /\ table' = [table EXCEPT ![cycle.of] = set_current(table[cycle.of], cycle.row + 1)]
      /\ cycle' = [cycle EXCEPT !.row = cycle.row + 1]
  BY <1>1, <1>2 DEF step
<1>4. cycle' \in Cycles
  BY <1>1, <1>2, <1>3 DEF Cycles
<1>. QED
  BY <1>2, <1>3, <1>4, Becurrents

LEMMA Overs ==
    ASSUME ConstantsOK, IInv, NEW break \in BOOLEAN, over(break)
    PROVE  IInv'
<1>1. cycle \in Cycles /\ table \in [Tables -> TableSet]
  BY DEF IInv, Types
<1>2. cycle.of \in Tables /\ cycle.saved \in Nat
  BY <1>1 DEF over, Cycles
<1>3. /\ row' = row /\ names' = names /\ kin' = kin /\ cycle' = NoCycle
      /\ table' = [table EXCEPT ![cycle.of] = set_current(table[cycle.of], cycle.saved)]
  BY <1>1, <1>2 DEF over
<1>4. cycle' \in Cycles
  BY <1>3 DEF Cycles, NoCycle
<1>. QED
  BY <1>2, <1>3, <1>4, Becurrents
-----------------------------------------------------------------------------
LEMMA Starts ==
    ASSUME ConstantsOK, Init
    PROVE  IInv
<1>1. <<>> \in RowLists /\ <<>> \in CellLists /\ <<>> \in NameLists
  BY EmptySeq DEF RowLists, CellLists, NameLists
<1>. DEFINE new == New(<<>>, 0, <<>>)
<1>2. new \in TableSet /\ Stands(new) /\ new.rows = <<>>
  <2>1. 0 \in Lists \cup {0} /\ <<>> \in Indexes
    BY NoIndex
  <2>. QED
    BY <1>1, <2>1, NewTable
<1>3. table = [t \in Tables |-> new] /\ cycle = NoCycle
  BY DEF Init
<1>. HIDE DEF new
<1>4. Types
  BY <1>1, <1>2, <1>3 DEF Init, Types, Cycles, NoCycle
<1>5. In(<<>>) = {}
  <2>1. <<>> \in Seq(Rows) /\ Len(<<>>) = 0
    BY EmptySeq
  <2>2. DOMAIN <<>> = 1 .. 0
    BY <2>1, LenProperties
  <2>. QED
    BY <2>2 DEF In
<1>6. \A t \in Tables : table[t].rows = <<>> /\ Stands(table[t])
  BY <1>2, <1>3
<1>. QED
  BY <1>4, <1>5, <1>6 DEF IInv, RowsApart, CurrentStands, Stands

\* No operation of a table takes a row away from a table that does not know of it, or
\* leaves one with rows without a current one.
LEMMA Keeps ==
    ASSUME ConstantsOK, IInv, [Next]_vars
    PROVE  IInv'
<1>1. CASE UNCHANGED vars
  BY <1>1 DEF vars, IInv, Types, RowsApart, CurrentStands
<1>2. ASSUME NEW t \in Tables, NEW u \in Tables, NEW o \in Walks,
             \/ _create_clone(t, u, o) \/ _join(t, u, o)
             \/ \E chosen \in SUBSET (1..MaxRows) : _select(t, u, chosen, o)
      PROVE  IInv'
  <2>1. o \in Options
    BY DEF Walks
  <2>. QED
    BY <1>2, <2>1, Clones, Joins, Selects
<1>3. ASSUME NEW t \in Tables,
             \/ (\E nameless \in BOOLEAN : _create(t, nameless)) \/ (\E desc \in BOOLEAN : _sort(t, 1, desc))
             \/ _append(t, Added) \/ _insert(t, Added) \/ _delete(t)
             \/ _rename(t, 0, 2)
             \/ (\E absolute \in BOOLEAN, n \in {-1, 1} : offset(t, absolute, n))
             \/ begin(t)
      PROVE  IInv'
  BY <1>3, Creates, Sorts, Appends, Inserts, Deletes, Renames, Offsets, Begins
<1>4. ASSUME NEW t \in Tables, NEW n \in Name, NEW value \in Cell,
             put_element(t, n, value) \/ \E o \in Walks : _locate(t, n, value, o)
      PROVE  IInv'
  <2>1. Walks \subseteq Options
    BY DEF Walks
  <2>. QED
    BY <1>4, <2>1, Puts, Locate
<1>5. CASE step \/ \E break \in BOOLEAN : over(break)
  BY <1>5, Steps, Overs
<1>. QED
  BY <1>1, <1>2, <1>3, <1>4, <1>5 DEF Next, Added

LEMMA Invariant == TablesSpec => []IInv
<1>1. TablesInit => IInv
  BY Starts, TableConstants DEF TablesInit
<1>2. IInv /\ [TablesNext]_<<which, vars, one, two, source>> => IInv'
  <2>1. [TablesNext]_<<which, vars, one, two, source>> => [Next]_vars
    BY DEF TablesNext
  <2>. QED
    BY <2>1, Keeps, TableConstants
<1>. QED
  BY <1>1, <1>2, PTL DEF TablesSpec

\* Rows are shared only by tables that select, join or sort have made kin, so that what is
\* done to a clone or to its source does not reach the other; and one row of a table with
\* rows is current, whatever the body of a cycle over it does: table.C and pa_vtable.C.
THEOREM RowsAreKept == TablesSpec => []RowsKept
<1>1. IInv => RowsKept
  BY DEF IInv, RowsKept
<1>. QED
  BY <1>1, Invariant, PTL

\* locate makes the first row that fits current, forwards or backwards, among the rows that
\* offset and limit leave, and otherwise leaves the current row: table_first_that().
THEOREM LocateIsRight == TablesSpec => []LocateFinds
<1>1. IInv => LocateFinds
  <2>. SUFFICES ASSUME IInv, NEW t \in Tables, NEW o \in Options, NEW value \in Cell
                PROVE  LET n == count(table[t])
                           fit == {i \in 0..(n - 1) : item([table[t] EXCEPT !.fcurrent = i], 1) = value}
                           range == {i \in 0..(n - 1) : IF o.reverse THEN i <= o.offset /\ i > o.offset - o.limit
                                                                     ELSE i >= o.offset /\ i < o.offset + o.limit}
                           found == (IF o.offset < n THEN range ELSE {}) \cap fit
                       IN  Located(table[t], fit, o).fcurrent
                             = IF found = {} THEN table[t].fcurrent
                               ELSE CHOOSE i \in found : \A j \in found : IF o.reverse THEN j <= i ELSE i <= j
    BY DEF LocateFinds
  <2>. DEFINE n == count(table[t])
              fit == {i \in 0..(n - 1) : item([table[t] EXCEPT !.fcurrent = i], 1) = value}
              found == Left(n, o) \cap fit
              nearest == CHOOSE i \in found : \A j \in found : IF o.reverse THEN j <= i ELSE i <= j
  <2>1. table[t] \in TableSet /\ n \in Nat
    BY TableTypes
  <2>2. ASSUME found = {} PROVE Located(table[t], fit, o).fcurrent = table[t].fcurrent
    <3>. HIDE DEF fit
    <3>. QED
      BY <2>1, <2>2, Locates, TableConstants
  <2>3. ASSUME found # {} PROVE Located(table[t], fit, o).fcurrent = nearest
    <3>. HIDE DEF fit
    <3>1. PICK w \in found : Located(table[t], fit, o) = set_current(table[t], w) /\ First(o, found, w)
      BY <2>1, <2>3, Locates, TableConstants
    <3>2. \A j \in found : j \in 0 .. n - 1
      BY <2>1 DEF Left
    <3>3. w < n /\ w \in Nat
      BY <2>1, <3>2
    <3>4. Located(table[t], fit, o).fcurrent = w
      BY <2>1, <3>1, <3>3, Current
    <3>. HIDE DEF found
    <3>5. nearest \in found /\ First(o, found, nearest)
      BY <3>1 DEF First
    <3>. HIDE DEF nearest
    <3>6. nearest = w
      <4>1. nearest \in Int /\ w \in Int
        BY <3>2, <3>5
      <4>2. IF o.reverse THEN nearest <= w /\ w <= nearest ELSE w <= nearest /\ nearest <= w
        BY <3>1, <3>5 DEF First
      <4>. QED
        BY <4>1, <4>2
    <3>. QED
      BY <3>4, <3>6
  <2>4. Located(table[t], fit, o).fcurrent = IF found = {} THEN table[t].fcurrent ELSE nearest
    <3>. HIDE DEF fit
    <3>. QED
      BY <2>2, <2>3
  <2>. QED
    BY <2>4 DEF Left
<1>. QED
  BY <1>1, Invariant, PTL
-----------------------------------------------------------------------------
\* Elements that are not NULL below an index, and their number
Below(f, i) == {j \in 0..(i - 1) : f[j] # 0}
Count(f, i) == Cardinality(Below(f, i))

LEMMA OneCardinality == \A S : Array!Cardinality(S) = Cardinality(S) /\ Array!Map!Cardinality(S) = Cardinality(S)
  BY DEF Array!Cardinality, Array!Map!Cardinality, Cardinality

LEMMA Counts ==
    ASSUME NEW f, NEW i \in Nat
    PROVE  /\ IsFiniteSet(Below(f, i)) /\ Count(f, i) \in Nat /\ Count(f, 0) = 0
           /\ Count(f, i + 1) = IF f[i] # 0 THEN Count(f, i) + 1 ELSE Count(f, i)
<1>1. 0 \in Int /\ i - 1 \in Int /\ IsFiniteSet(0..(i - 1))
  BY FS_Interval
<1>2. IsFiniteSet(Below(f, i))
  BY <1>1, FS_Subset DEF Below
<1>3. Count(f, i) \in Nat
  BY <1>2, FS_CardinalityType DEF Count
<1>4. Below(f, 0) = {}
  BY DEF Below
<1>5. Count(f, 0) = 0
  BY <1>4, FS_EmptySet DEF Count
<1>6. i \notin Below(f, i)
  BY DEF Below
<1>7. CASE f[i] # 0
  <2>1. Below(f, i + 1) = Below(f, i) \cup {i}
    BY <1>7 DEF Below
  <2>. QED
    BY <1>2, <1>3, <1>5, <1>6, <1>7, <2>1, FS_AddElement DEF Count
<1>8. CASE f[i] = 0
  <2>1. Below(f, i + 1) = Below(f, i)
    BY <1>8 DEF Below
  <2>. QED
    BY <1>2, <1>3, <1>5, <1>8, <2>1 DEF Count
<1>. QED
  BY <1>7, <1>8

LEMMA Counted ==
    ASSUME NEW f, NEW i \in Nat, NEW k \in Nat, i <= k
    PROVE  /\ Count(f, i) <= Count(f, k)
           /\ i < k /\ f[i] # 0 => Count(f, i) < Count(f, k)
           /\ Count(f, k) <= k
           /\ (\A j \in 0..(k - 1) : f[j] # 0) => Count(f, k) = k
           /\ Count(f, k) = k => \A j \in 0..(k - 1) : f[j] # 0
<1>0. 0 \in Int /\ k - 1 \in Int /\ IsFiniteSet(0..(k - 1)) /\ Cardinality(0..(k - 1)) = k
  BY FS_Interval
<1>1. Below(f, i) \subseteq Below(f, k) /\ IsFiniteSet(Below(f, k)) /\ Below(f, k) \subseteq 0..(k - 1)
  <2>1. IsFiniteSet(Below(f, k))
    BY Counts
  <2>. QED
    BY <2>1 DEF Below
<1>2. Count(f, i) <= Count(f, k) /\ Count(f, k) <= k
  BY <1>0, <1>1, FS_Subset DEF Count
<1>3. ASSUME i < k, f[i] # 0 PROVE Count(f, i) < Count(f, k)
  <2>1. i \in Below(f, k) /\ i \notin Below(f, i)
    BY <1>3 DEF Below
  <2>. QED
    BY <1>1, <1>2, <2>1, FS_Subset, Counts DEF Count
<1>4. ASSUME \A j \in 0..(k - 1) : f[j] # 0 PROVE Count(f, k) = k
  <2>1. Below(f, k) = 0..(k - 1)
    BY <1>4 DEF Below
  <2>. QED
    BY <1>0, <2>1 DEF Count
<1>5. ASSUME Count(f, k) = k PROVE \A j \in 0..(k - 1) : f[j] # 0
  <2>1. Below(f, k) = 0..(k - 1)
    BY <1>0, <1>1, <1>5, FS_Subset DEF Count
  <2>. QED
    BY <2>1 DEF Below
<1>. QED
  BY <1>2, <1>3, <1>4, <1>5

\* Each order below the number is the order of one element
LEMMA InOrder ==
    ASSUME NEW f, NEW k \in Nat, NEW n \in 0..(Count(f, k) - 1)
    PROVE  \E i \in Below(f, k) : Count(f, i) = n /\ \A j \in Below(f, k) : Count(f, j) = n => j = i
<1>. DEFINE T == {i \in Nat : Count(f, i + 1) > n}
<1>0. Count(f, k) \in Nat /\ n \in Nat /\ n < Count(f, k)
  BY Counts
<1>1. k # 0
  BY <1>0, Counts
<1>2. k - 1 \in Nat /\ (k - 1) + 1 = k
  BY <1>1
<1>3. k - 1 \in T
  BY <1>0, <1>2
<1>4. PICK i \in T : \A j \in T : i <= j
  <2>1. T \subseteq Nat /\ T # {}
    BY <1>3
  <2>. HIDE DEF T
  <2>. QED
    BY <2>1, Least
<1>5. i \in Nat /\ i <= k - 1 /\ Count(f, i + 1) > n /\ Count(f, i) \in Nat /\ Count(f, i + 1) \in Nat
  BY <1>3, <1>4, Counts
<1>6. Count(f, i) <= n
  <2>1. CASE i = 0
    BY <1>0, <2>1, Counts
  <2>2. CASE i # 0
    <3>1. i - 1 \in Nat /\ (i - 1) + 1 = i /\ ~(i <= i - 1)
      BY <1>5, <2>2
    <3>2. i - 1 \notin T
      BY <1>4, <3>1
    <3>. QED
      BY <1>0, <1>5, <3>1, <3>2
  <2>. QED
    BY <2>1, <2>2
<1>7. f[i] # 0 /\ Count(f, i) = n
  <2>1. Count(f, i + 1) = IF f[i] # 0 THEN Count(f, i) + 1 ELSE Count(f, i)
    BY <1>5, Counts
  <2>. QED
    BY <1>0, <1>5, <1>6, <2>1
<1>8. i \in Below(f, k)
  BY <1>5, <1>7 DEF Below
<1>9. ASSUME NEW j \in Below(f, k), Count(f, j) = n PROVE j = i
  <2>1. j \in Nat /\ f[j] # 0
    BY DEF Below
  <2>2. ~(j < i)
    BY <1>5, <1>7, <1>9, <2>1, Counted
  <2>3. ~(i < j)
    BY <1>5, <1>7, <1>9, <2>1, Counted
  <2>. QED
    BY <1>5, <2>1, <2>2, <2>3
<1>. QED
  BY <1>7, <1>8, <1>9
-----------------------------------------------------------------------------
\* An array of any numbers, and one that is in order
Arrays == [at : [Array!Index -> Nat], size : 0..(MaxIndex + 1), fused : Nat]
Sound(a) ==
    /\ a \in Arrays
    /\ a.size > 0 => a.at[a.size - 1] # 0
    /\ a.fused # 0 => a.fused = Count(a.at, a.size)
Shown(a) == [i \in Below(a.at, a.size) |-> a.at[i]]

LEMMA ArrayFields ==
    ASSUME NEW a \in Arrays
    PROVE  /\ a.size \in 0..(MaxIndex + 1) /\ a.size \in Nat /\ a.fused \in Nat /\ MaxIndex \in Nat
           /\ a.at \in [Array!Index -> Nat] /\ Array!Index = 0..MaxIndex /\ Array!NULL = 0
           /\ Below(a.at, a.size) \subseteq 0..(a.size - 1) /\ Below(a.at, a.size) \subseteq Array!Index
           /\ Array!actual(a) = Count(a.at, a.size) /\ Count(a.at, a.size) \in Nat
           /\ Count(a.at, a.size) <= a.size
<1>1. MaxIndex \in Nat
  BY ArrayConstants DEF Array!ConstantsOK
<1>2. /\ a.size \in 0..(MaxIndex + 1) /\ a.size \in Nat /\ a.fused \in Nat
      /\ a.at \in [Array!Index -> Nat] /\ Array!Index = 0..MaxIndex /\ Array!NULL = 0
  BY <1>1 DEF Arrays, Array!Index, Array!NULL
<1>3. Below(a.at, a.size) \subseteq 0..(a.size - 1) /\ Below(a.at, a.size) \subseteq Array!Index
  BY <1>1, <1>2 DEF Below
<1>4. Array!actual(a) = Count(a.at, a.size)
  BY <1>2, OneCardinality DEF Array!actual, Count, Below
<1>5. Count(a.at, a.size) \in Nat /\ Count(a.at, a.size) <= a.size
  BY <1>2, Counts, Counted
<1>. QED
  BY <1>1, <1>2, <1>3, <1>4, <1>5

\* nth() finds the element with this order
LEMMA NthIs ==
    ASSUME NEW a \in Arrays, NEW n \in 0..(Count(a.at, a.size) - 1)
    PROVE  /\ Array!nth(a, n) \in Below(a.at, a.size) /\ Count(a.at, Array!nth(a, n)) = n
           /\ \A i \in Below(a.at, a.size) : Count(a.at, i) = n => i = Array!nth(a, n)
<1>. DEFINE P(i) == a.at[i] # Array!NULL /\ Array!Cardinality({j \in 0..(i - 1) : a.at[j] # Array!NULL}) = n
<1>1. \A i : P(i) <=> a.at[i] # 0 /\ Count(a.at, i) = n
  BY OneCardinality, ArrayFields DEF Count, Below
<1>2. PICK i \in Below(a.at, a.size) : Count(a.at, i) = n /\ \A j \in Below(a.at, a.size) : Count(a.at, j) = n => j = i
  BY InOrder, ArrayFields
<1>3. i \in 0..(a.size - 1) /\ P(i)
  BY <1>1, <1>2 DEF Below
<1>4. \A j \in 0..(a.size - 1) : P(j) => j = i
  BY <1>1, <1>2 DEF Below
<1>5. Array!nth(a, n) = CHOOSE j \in 0..(a.size - 1) : P(j)
  BY DEF Array!nth
<1>. HIDE DEF P
<1>6. Array!nth(a, n) = i
  BY <1>3, <1>4, <1>5
<1>. QED
  BY <1>2, <1>6

\* locate_last_used() takes NULLs off the end
LEMMA Trimmed ==
    ASSUME NEW a \in Arrays
    PROVE  LET b == Array!locate_last_used(a)
           IN  /\ b \in Arrays /\ b.at = a.at /\ b.fused = a.fused /\ b.size <= a.size
               /\ b.size > 0 => b.at[b.size - 1] # 0
               /\ Below(b.at, b.size) = Below(a.at, a.size)
<1>. DEFINE P(s) == (s = 0 \/ a.at[s - 1] # Array!NULL) /\ \A i \in s..(a.size - 1) : a.at[i] = Array!NULL
            T == {s \in 0..a.size : \A i \in s..(a.size - 1) : a.at[i] = 0}
            b == Array!locate_last_used(a)
<1>0. a.size \in 0..(MaxIndex + 1) /\ a.size \in Nat /\ Array!NULL = 0 /\ MaxIndex \in Nat
  BY ArrayFields
<1>1. a.size \in T /\ T \subseteq Nat
  BY <1>0
<1>2. PICK s \in T : \A k \in T : s <= k
  <2>. HIDE DEF T
  <2>. QED
    BY <1>1, Least
<1>3. P(s)
  <2>1. ASSUME s # 0, a.at[s - 1] = 0 PROVE FALSE
    <3>1. s - 1 \in 0..a.size
      BY <1>0, <2>1
    <3>2. \A i \in (s - 1)..(a.size - 1) : i = s - 1 \/ i \in s..(a.size - 1)
      BY <1>0
    <3>3. s - 1 \in T
      BY <2>1, <3>1, <3>2
    <3>. QED
      BY <1>2, <3>1, <3>3, <1>0
  <2>. QED
    BY <1>0, <2>1
<1>4. b = [a EXCEPT !.size = CHOOSE t \in 0..a.size : P(t)]
  BY DEF Array!locate_last_used
<1>5. PICK t \in 0..a.size : P(t) /\ b = [a EXCEPT !.size = t]
  <2>. HIDE DEF P
  <2>. QED
    BY <1>3, <1>4
<1>6. b \in Arrays /\ b.at = a.at /\ b.fused = a.fused /\ b.size = t
  BY <1>0, <1>5 DEF Arrays
<1>7. Below(a.at, t) = Below(a.at, a.size)
  <2>1. \A i \in 0..(a.size - 1) : a.at[i] # 0 => i \in 0..(t - 1)
    BY <1>0, <1>5
  <2>2. \A i \in 0..(t - 1) : i \in 0..(a.size - 1)
    BY <1>0
  <2>. QED
    BY <2>1, <2>2 DEF Below
<1>. QED
  BY <1>0, <1>5, <1>6, <1>7

\* What a call leaves is what the fields become
LEMMA Became ==
    ASSUME NEW b \in Arrays, Array!Becomes(b)
    PROVE  Array!Now' = b /\ Array!Elements' = Shown(b)
<1>1. b = [at |-> b.at, size |-> b.size, fused |-> b.fused]
  BY DEF Arrays
<1>2. Array!Now' = b
  BY <1>1 DEF Array!Becomes, Array!Now
<1>3. Array!Elements' = Shown(b)
  BY DEF Array!Becomes, Array!Elements, Shown, Below, Array!NULL
<1>. QED
  BY <1>2, <1>3

LEMMA ShownNow == Array!Elements = Shown(Array!Now)
  BY DEF Array!Elements, Array!Now, Shown, Below, Array!NULL

LEMMA Ends ==
    ASSUME NEW a, Sound(a)
    PROVE  /\ Array!Map!Used(Shown(a)) = Below(a.at, a.size) /\ Array!Map!End(Shown(a)) = a.size
           /\ \A i \in Below(a.at, a.size) : Array!Map!Rank(Shown(a), i) = Count(a.at, i)
<1>. DEFINE used == Below(a.at, a.size)
<1>0. a \in Arrays /\ a.size \in Nat /\ used \subseteq 0..(a.size - 1)
  BY ArrayFields DEF Sound
<1>1. Array!Map!Used(Shown(a)) = used
  BY DEF Array!Map!Used, Shown
<1>2. ASSUME a.size = 0 PROVE Array!Map!End(Shown(a)) = a.size
  <2>1. used = {}
    BY <1>0, <1>2
  <2>. QED
    BY <1>1, <1>2, <2>1 DEF Array!Map!End
<1>3. ASSUME a.size > 0 PROVE Array!Map!End(Shown(a)) = a.size
  <2>1. a.size - 1 \in used
    BY <1>0, <1>3 DEF Sound, Below
  <2>2. \A j \in used : j <= a.size - 1 /\ j \in Int
    BY <1>0
  <2>3. \A i \in used : (\A j \in used : j <= i) => i = a.size - 1
    BY <1>0, <2>1, <2>2
  <2>4. (CHOOSE i \in used : \A j \in used : j <= i) = a.size - 1
    <3>. HIDE DEF used
    <3>. QED
      BY <2>1, <2>2, <2>3
  <2>5. Array!Map!End(Shown(a)) = (a.size - 1) + 1
    BY <1>1, <2>1, <2>4 DEF Array!Map!End
  <2>. QED
    BY <1>0, <1>1, <2>5
<1>4. ASSUME NEW i \in used PROVE Array!Map!Rank(Shown(a), i) = Count(a.at, i)
  <2>1. \A j \in Nat : j < i => j \in 0..(a.size - 1)
    BY <1>0
  <2>2. i \in Nat
    BY <1>0
  <2>3. {j \in used : j < i} = Below(a.at, i)
    BY <1>0, <2>1, <2>2 DEF Below
  <2>. QED
    BY <1>1, <2>3, OneCardinality DEF Array!Map!Rank, Count
<1>. QED
  BY <1>0, <1>1, <1>2, <1>3, <1>4
-----------------------------------------------------------------------------
\* What calls make of the buffer, and of the elements
ArrayMade(a, f, n) == [a EXCEPT !.at = f, !.size = n]
LEMMA Remade ==
    ASSUME NEW a \in Arrays, NEW f \in [Array!Index -> Nat], NEW n \in 0..(MaxIndex + 1)
    PROVE  /\ ArrayMade(a, f, n) \in Arrays
           /\ ArrayMade(a, f, n).at = f /\ ArrayMade(a, f, n).size = n /\ ArrayMade(a, f, n).fused = a.fused
  BY DEF ArrayMade, Arrays

LEMMA PutIs ==
    ASSUME NEW a, Sound(a), NEW i \in Array!Index, NEW e \in Element, \A j \in a.size..(i - 1) : a.at[j] = 0
    PROVE  LET b == Array!put(a, i, e)
           IN  /\ b \in Arrays /\ b.fused = a.fused /\ b.size > 0 /\ b.at[b.size - 1] # 0
               /\ Shown(b) = Array!Map!Put(Shown(a), i, e)
               /\ i >= a.size => Count(b.at, b.size) = Count(a.at, a.size) + 1
<1>. DEFINE b == Array!put(a, i, e)
            used == Below(a.at, a.size)
<1>0. /\ a \in Arrays /\ a.size \in Nat /\ a.at \in [Array!Index -> Nat] /\ Array!Index = 0..MaxIndex
      /\ MaxIndex \in Nat /\ e \in Nat /\ e # 0 /\ a.size <= MaxIndex + 1 /\ i \in Nat /\ a.fused \in Nat
      /\ used \subseteq Array!Index
  BY ArrayFields, ArrayConstants DEF Sound, Array!ConstantsOK
<1>1. b = [a EXCEPT !.at = [a.at EXCEPT ![i] = e], !.size = IF i >= a.size THEN i + 1 ELSE a.size]
  BY DEF Array!put
<1>2. [a.at EXCEPT ![i] = e] \in [Array!Index -> Nat] /\ (IF i >= a.size THEN i + 1 ELSE a.size) \in 1..(MaxIndex + 1)
  BY <1>0
<1>3. /\ b \in Arrays /\ b.at = [a.at EXCEPT ![i] = e] /\ b.fused = a.fused
      /\ b.size = (IF i >= a.size THEN i + 1 ELSE a.size) /\ b.size > 0
  <2>. DEFINE f == [a.at EXCEPT ![i] = e]
              n == IF i >= a.size THEN i + 1 ELSE a.size
  <2>1. f \in [Array!Index -> Nat] /\ n \in 0..(MaxIndex + 1) /\ n > 0
    BY <1>0, <1>2
  <2>2. b = ArrayMade(a, f, n)
    BY <1>1 DEF ArrayMade
  <2>. HIDE DEF f, n, b
  <2>3. a \in Arrays /\ f \in [Array!Index -> Nat] /\ n \in 0..(MaxIndex + 1)
    BY <1>0, <2>1
  <2>4. b \in Arrays /\ b.at = f /\ b.size = n /\ b.fused = a.fused
    BY <2>2, <2>3, Remade
  <2>. QED
    BY <2>1, <2>4 DEF f, n
<1>4. b.at[i] = e /\ \A j \in Array!Index \ {i} : b.at[j] = a.at[j]
  BY <1>0, <1>3
<1>5. b.at[b.size - 1] # 0
  <2>1. CASE i >= a.size
    BY <1>0, <1>3, <1>4, <2>1
  <2>2. CASE ~(i >= a.size)
    BY <1>0, <1>3, <1>4, <2>2 DEF Sound
  <2>. QED
    BY <2>1, <2>2
<1>6. Below(b.at, b.size) = used \cup {i}
  <2>1. ASSUME NEW j \in Below(b.at, b.size), j # i PROVE j \in used
    <3>1. j \in 0..(b.size - 1) /\ b.at[j] # 0 /\ j \in Array!Index
      BY <1>0, <1>3, ArrayFields DEF Below
    <3>2. a.at[j] # 0
      BY <1>4, <2>1, <3>1
    <3>3. j < a.size
      BY <1>0, <1>3, <2>1, <3>1, <3>2
    <3>. QED
      BY <1>0, <3>1, <3>2, <3>3 DEF Below
  <2>2. ASSUME NEW j \in used PROVE j \in Below(b.at, b.size)
    <3>1. j \in 0..(a.size - 1) /\ a.at[j] # 0 /\ j \in Array!Index
      BY <1>0 DEF Below
    <3>2. b.at[j] # 0
      BY <1>0, <1>4, <3>1
    <3>. QED
      BY <1>0, <1>3, <3>1, <3>2 DEF Below
  <2>3. i \in Below(b.at, b.size)
    BY <1>0, <1>3, <1>4 DEF Below
  <2>. QED
    BY <2>1, <2>2, <2>3
<1>7. Shown(b) = Array!Map!Put(Shown(a), i, e)
  <2>1. Array!Map!Used(Shown(a)) = used /\ Array!Map!Used([j \in {i} |-> e]) = {i}
    BY DEF Array!Map!Used, Shown
  <2>2. Array!Map!Put(Shown(a), i, e) = [j \in used \cup {i} |-> IF j \in {i} THEN e ELSE a.at[j]]
    BY <2>1 DEF Array!Map!Put, Array!Map!With, Shown
  <2>3. \A j \in used \cup {i} : b.at[j] = IF j \in {i} THEN e ELSE a.at[j]
    BY <1>0, <1>4
  <2>. QED
    BY <1>6, <2>2, <2>3 DEF Shown
<1>8. ASSUME i >= a.size PROVE Count(b.at, b.size) = Count(a.at, a.size) + 1
  <2>1. IsFiniteSet(used)
    BY <1>0, Counts
  <2>2. i \notin used
    BY <1>0, <1>8 DEF Below
  <2>. QED
    BY <1>6, <2>1, <2>2, FS_AddElement DEF Count
<1>. QED
  BY <1>3, <1>5, <1>7, <1>8

\* What After() means for each call
LEMMA CallPut ==
    ASSUME NEW m, NEW i, NEW e
    PROVE  Array!Map!After(Array!CallWith("put", i, e), m)
             = Array!Map!Put(m, i, e)
  BY DEF Array!Map!After, Array!CallWith

LEMMA CallSet ==
    ASSUME NEW m, NEW i, NEW e
    PROVE  Array!Map!After(Array!CallWith("set", i, e), m)
             = Array!Map!Put(m, CHOOSE j \in Array!Map!Used(m) : Array!Map!Rank(m, j) = i, e)
  BY DEF Array!Map!After, Array!CallWith

LEMMA CallAppend ==
    ASSUME NEW m, NEW i, NEW e
    PROVE  Array!Map!After(Array!CallWith("append", i, e), m)
             = Array!Map!Put(m, Array!Map!End(m), e)
  BY DEF Array!Map!After, Array!CallWith

LEMMA CallInsert ==
    ASSUME NEW m, NEW i, NEW e
    PROVE  Array!Map!After(Array!CallWith("insert", i, e), m)
             = Array!Map!Put(Array!Map!Up(m, i), i, e)
  BY DEF Array!Map!After, Array!CallWith

LEMMA CallDelete ==
    ASSUME NEW m, NEW i, NEW e
    PROVE  Array!Map!After(Array!CallWith("delete", i, e), m)
             = Array!Map!Without(m, i)
  BY DEF Array!Map!After, Array!CallWith

LEMMA CallClear ==
    ASSUME NEW m, NEW i, NEW e
    PROVE  Array!Map!After(Array!CallWith("clear", i, e), m)
             = [j \in {} |-> 0]
  BY DEF Array!Map!After, Array!CallWith

LEMMA CallRemove ==
    ASSUME NEW m, NEW i, NEW e
    PROVE  Array!Map!After(Array!CallWith("remove", i, e), m)
             = Array!Map!Down(m, i)
  BY DEF Array!Map!After, Array!CallWith

LEMMA CallPop ==
    ASSUME NEW m, NEW i, NEW e
    PROVE  Array!Map!After(Array!CallWith("pop", i, e), m)
             = Array!Map!Without(m, Array!Map!End(m) - 1)
  BY DEF Array!Map!After, Array!CallWith

LEMMA CallCompact ==
    ASSUME NEW m, NEW i, NEW e
    PROVE  Array!Map!After(Array!CallWith("compact", i, e), m)
             = Array!Map!Compact(m)
  BY DEF Array!Map!After, Array!CallWith

LEMMA CallSort ==
    ASSUME NEW m, NEW i, NEW e
    PROVE  Array!Map!After(Array!CallWith("sort", i, e), m)
             = Array!Map!Sorted(m, i = 1)
  BY DEF Array!Map!After, Array!CallWith

Reversed(m) == [j \in {Array!Map!End(m) - 1 - k : k \in Array!Map!Used(m)} |-> m[Array!Map!End(m) - 1 - j]]
LEMMA CallReverse ==
    ASSUME NEW m, NEW i, NEW e
    PROVE  Array!Map!After(Array!CallWith("reverse", i, e), m)
             = Reversed(m)
  BY DEF Reversed, Array!Map!After, Array!CallWith

Middle(m, i, e) ==
    LET all == Array!Map!Compact(m)
        some == {j \in Array!Map!Used(all) : j >= i /\ j < i + e}
    IN  [j \in {k - i : k \in some} |-> all[j + i]]
LEMMA CallMid ==
    ASSUME NEW m, NEW i, NEW e
    PROVE  Array!Map!After(Array!CallWith("mid", i, e), m)
             = Middle(m, i, e)
  BY DEF Middle, Array!Map!After, Array!CallWith

LEMMA CallAdd ==
    ASSUME NEW m, NEW other
    PROVE  Array!Map!After(Array!CallOf("add", other), m)
             = Array!Map!With(m, other)
  BY DEF Array!Map!After, Array!CallWith, Array!CallOf

Together(m, more) ==
    [j \in Array!Map!Used(m) \cup {Array!Map!End(m) + k : k \in Array!Map!Used(more)} |->
        IF j \in Array!Map!Used(m) THEN m[j] ELSE more[j - Array!Map!End(m)]]
LEMMA CallJoin ==
    ASSUME NEW m, NEW other
    PROVE  Array!Map!After(Array!CallOf("join", other), m)
             = Together(m, Array!Map!Compact(other))
  BY DEF Together, Array!Map!After, Array!CallWith, Array!CallOf

LEMMA CallQuery ==
    ASSUME NEW m, NEW other
    PROVE  Array!Map!After(Array!CallOf("query", other), m)
             = other
  BY DEF Array!Map!After, Array!CallWith, Array!CallOf

\* Numbers from i on make room for one, or close up
LEMMA ShiftUp ==
    ASSUME NEW S, S \subseteq Nat, IsFiniteSet(S), NEW i \in Nat
    PROVE  LET T == {k \in S : k < i} \cup {k + 1 : k \in {l \in S : l >= i}}
           IN  IsFiniteSet(T) /\ Cardinality(T) = Cardinality(S) /\ i \notin T
<1>. DEFINE T == {k \in S : k < i} \cup {k + 1 : k \in {l \in S : l >= i}}
            f == [k \in S |-> IF k < i THEN k ELSE k + 1]
<1>1. f \in [S -> T]
  OBVIOUS
<1>2. \A j, k \in S : f[j] = f[k] => j = k
  OBVIOUS
<1>3. \A t \in T : \E k \in S : f[k] = t
  OBVIOUS
<1>4. f \in Bijection(S, T)
  <2>. HIDE DEF f, T
  <2>. QED
    BY <1>1, <1>2, <1>3 DEF Bijection, Injection, Surjection, IsInjective
<1>5. i \notin T
  OBVIOUS
<1>. HIDE DEF f, T
<1>6. IsFiniteSet(T) /\ Cardinality(T) = Cardinality(S)
  BY <1>4, FS_Bijection DEF ExistsBijection
<1>. QED
  BY <1>5, <1>6 DEF T

LEMMA InsertIs ==
    ASSUME NEW a, Sound(a), NEW i \in Array!Index, NEW e \in Element, i < a.size, a.size <= MaxIndex
    PROVE  LET b == Array!insert(a, i, e)
           IN  /\ b \in Arrays /\ b.fused = a.fused /\ b.size > 0 /\ b.at[b.size - 1] # 0
               /\ Shown(b) = Array!Map!Put(Array!Map!Up(Shown(a), i), i, e)
               /\ Count(b.at, b.size) = Count(a.at, a.size) + 1
<1>. DEFINE b == Array!insert(a, i, e)
            f == [j \in Array!Index |-> IF j < i \/ j > a.size THEN a.at[j] ELSE IF j = i THEN e ELSE a.at[j - 1]]
            used == Below(a.at, a.size)
            up == {k \in used : k < i} \cup {k + 1 : k \in {l \in used : l >= i}}
<1>0. /\ a \in Arrays /\ a.size \in Nat /\ a.at \in [Array!Index -> Nat] /\ i \in Nat
      /\ MaxIndex \in Nat /\ e \in Nat /\ e # 0 /\ used \subseteq Array!Index
      /\ \A j : j \in Array!Index <=> j \in Nat /\ j <= MaxIndex
  BY ArrayFields, ArrayConstants DEF Sound, Array!ConstantsOK
<1>1. a.size + 1 \in 0..(MaxIndex + 1)
  BY <1>0
<1>2. f \in [Array!Index -> Nat]
  <2>1. ASSUME NEW j \in Array!Index PROVE f[j] \in Nat
    <3>1. ~(j < i \/ j > a.size \/ j = i) => j - 1 \in Array!Index
      BY <1>0
    <3>. QED
      BY <1>0, <3>1
  <2>. QED
    BY <2>1
<1>3. b = ArrayMade(a, f, a.size + 1)
  BY <1>0 DEF Array!insert, ArrayMade
<1>4. b \in Arrays /\ b.at = f /\ b.size = a.size + 1 /\ b.fused = a.fused
  <2>. HIDE DEF f, b
  <2>1. a \in Arrays
    BY <1>0
  <2>. QED
    BY <1>1, <1>2, <1>3, <2>1, Remade
<1>5. b.at[b.size - 1] # 0
  <2>1. b.size - 1 = a.size /\ a.size \in Array!Index /\ a.at[a.size - 1] # 0
    BY <1>0, <1>4 DEF Sound
  <2>2. f[a.size] = a.at[a.size - 1]
    BY <1>0, <2>1
  <2>. QED
    BY <1>4, <2>1, <2>2
<1>6. Below(b.at, b.size) = up \cup {i}
  <2>1. ASSUME NEW j \in Below(f, a.size + 1), j # i PROVE j \in up
    <3>1. j \in Array!Index /\ j \in Nat /\ j <= a.size /\ f[j] # 0
      BY <1>0 DEF Below
    <3>2. CASE j < i
      <4>1. f[j] = a.at[j]
        BY <3>1, <3>2
      <4>2. j \in used
        BY <1>0, <3>1, <3>2, <4>1 DEF Below
      <4>. QED
        BY <3>2, <4>2
    <3>3. CASE j > i
      <4>1. f[j] = a.at[j - 1]
        BY <1>0, <3>1, <3>3
      <4>2. j - 1 \in used /\ j - 1 >= i /\ j = (j - 1) + 1
        BY <1>0, <3>1, <3>3, <4>1 DEF Below
      <4>. QED
        BY <4>2
    <3>. QED
      BY <1>0, <2>1, <3>1, <3>2, <3>3
  <2>2. ASSUME NEW k \in used PROVE (IF k < i THEN k ELSE k + 1) \in Below(f, a.size + 1)
    <3>1. k \in Array!Index /\ k \in Nat /\ k < a.size /\ a.at[k] # 0
      BY <1>0 DEF Below
    <3>2. CASE k < i
      <4>1. f[k] = a.at[k]
        BY <3>1, <3>2
      <4>. QED
        BY <1>0, <3>1, <3>2, <4>1 DEF Below
    <3>3. CASE ~(k < i)
      <4>1. k + 1 \in Array!Index /\ f[k + 1] = a.at[k]
        BY <1>0, <3>1, <3>3
      <4>. QED
        BY <1>0, <3>1, <3>3, <4>1 DEF Below
    <3>. QED
      BY <3>2, <3>3
  <2>3. i \in Below(f, a.size + 1)
    BY <1>0 DEF Below
  <2>4. up \subseteq Below(f, a.size + 1)
    <3>. HIDE DEF used, f
    <3>1. \A k \in used : k < i => k \in Below(f, a.size + 1)
      BY <2>2
    <3>2. \A k \in used : k >= i => k + 1 \in Below(f, a.size + 1)
      <4>1. ASSUME NEW k \in used, k >= i PROVE k + 1 \in Below(f, a.size + 1)
        <5>1. k \in Nat /\ ~(k < i)
          BY <1>0, <4>1, ArrayFields
        <5>. QED
          BY <2>2, <5>1
      <4>. QED
        BY <4>1
    <3>. QED
      BY <3>1, <3>2
  <2>. QED
    BY <1>4, <2>1, <2>3, <2>4
<1>7. Shown(b) = Array!Map!Put(Array!Map!Up(Shown(a), i), i, e)
  <2>1. /\ Array!Map!Used(Shown(a)) = used /\ \A j \in used : Shown(a)[j] = a.at[j]
        /\ Array!Map!Used([j \in {i} |-> e]) = {i}
    BY DEF Array!Map!Used, Shown
  <2>. DEFINE m == [j \in up |-> IF j < i THEN Shown(a)[j] ELSE Shown(a)[j - 1]]
  <2>2. Array!Map!Up(Shown(a), i) = m
    BY <2>1 DEF Array!Map!Up
  <2>3. Array!Map!Used(m) = up
    BY DEF Array!Map!Used
  <2>4. Array!Map!Put(m, i, e) = [j \in up \cup {i} |-> IF j \in {i} THEN e ELSE m[j]]
    <3>. HIDE DEF m, up
    <3>. QED
      BY <2>1, <2>3 DEF Array!Map!Put, Array!Map!With
  <2>5. ASSUME NEW j \in up \cup {i} PROVE f[j] = IF j \in {i} THEN e ELSE m[j]
    <3>1. CASE j = i
      BY <3>1, <1>0
    <3>2. CASE j # i /\ j < i
      <4>1. j \in used
        BY <1>0, <3>2
      <4>. QED
        BY <1>0, <2>1, <3>2, <4>1
    <3>3. CASE j # i /\ ~(j < i)
      <4>1. PICK k \in used : j = k + 1 /\ k >= i
        BY <3>3
      <4>2. k \in Nat /\ k < a.size /\ j \in Array!Index /\ j - 1 = k
        BY <1>0, <4>1 DEF Below
      <4>3. f[j] = a.at[k]
        BY <1>0, <3>3, <4>1, <4>2
      <4>4. m[j] = a.at[k]
        BY <2>1, <3>3, <4>1, <4>2
      <4>. QED
        BY <3>3, <4>3, <4>4
    <3>. QED
      BY <3>1, <3>2, <3>3
  <2>6. Shown(b) = [j \in up \cup {i} |-> f[j]]
    BY <1>4, <1>6 DEF Shown
  <2>. QED
    <3>. HIDE DEF f, m, up, b
    <3>. QED
      BY <2>2, <2>4, <2>5, <2>6
<1>8. Count(b.at, b.size) = Count(a.at, a.size) + 1
  <2>1. used \subseteq Nat /\ IsFiniteSet(used)
    BY <1>0, Counts
  <2>2. IsFiniteSet(up) /\ Cardinality(up) = Cardinality(used) /\ i \notin up
    <3>. HIDE DEF used
    <3>. QED
      BY <1>0, <2>1, ShiftUp
  <2>. HIDE DEF up, used, b
  <2>3. Cardinality(up \cup {i}) = Cardinality(used) + 1
    BY <2>2, FS_AddElement
  <2>. QED
    BY <1>6, <2>3 DEF Count, used
<1>9. b.size > 0
  BY <1>0, <1>4
<1>. QED
  BY <1>4, <1>5, <1>7, <1>8, <1>9

\* What `--fused_size` and locate_last_used() leave
LEMMA Shorter ==
    ASSUME NEW a \in Arrays, a.size > 0
    PROVE  LET b == Array!locate_last_used([a EXCEPT !.size = @ - 1])
           IN  /\ b \in Arrays /\ b.at = a.at /\ b.fused = a.fused
               /\ b.size > 0 => b.at[b.size - 1] # 0
               /\ Below(b.at, b.size) = Below(a.at, a.size - 1)
<1>. DEFINE c == [a EXCEPT !.size = a.size - 1]
<1>1. c \in Arrays /\ c.at = a.at /\ c.size = a.size - 1 /\ c.fused = a.fused
  <2>1. a.size - 1 \in 0..(MaxIndex + 1)
    BY ArrayFields
  <2>. QED
    BY <2>1 DEF Arrays
<1>. HIDE DEF c
<1>. QED
  BY <1>1, Trimmed DEF c

LEMMA PopIs ==
    ASSUME NEW a, Sound(a), a.size > 0
    PROVE  LET b == Array!pop(a)
           IN  /\ b \in Arrays /\ b.fused = a.fused /\ (b.size > 0 => b.at[b.size - 1] # 0)
               /\ Shown(b) = Array!Map!Without(Shown(a), Array!Map!End(Shown(a)) - 1)
               /\ Count(b.at, b.size) = Count(a.at, a.size) - 1
<1>. DEFINE b == Array!pop(a)
            used == Below(a.at, a.size)
<1>0. a \in Arrays /\ a.size \in Nat
  BY ArrayFields DEF Sound
<1>1. /\ b \in Arrays /\ b.at = a.at /\ b.fused = a.fused /\ (b.size > 0 => b.at[b.size - 1] # 0)
      /\ Below(b.at, b.size) = Below(a.at, a.size - 1)
  BY <1>0, Shorter DEF Array!pop
<1>. HIDE DEF b
<1>2. Below(a.at, a.size - 1) = used \ {a.size - 1}
  BY <1>0 DEF Below
<1>3. Array!Map!Without(Shown(a), Array!Map!End(Shown(a)) - 1) = [j \in used \ {a.size - 1} |-> Shown(a)[j]]
  BY Ends DEF Array!Map!Without
<1>4. \A j \in used : Shown(a)[j] = a.at[j]
  BY DEF Shown
<1>5. Shown(b) = [j \in used \ {a.size - 1} |-> a.at[j]]
  BY <1>1, <1>2 DEF Shown
<1>6. Count(b.at, b.size) = Count(a.at, a.size) - 1
  <2>1. a.size - 1 \in Nat /\ (a.size - 1) + 1 = a.size /\ a.at[a.size - 1] # 0
    BY <1>0 DEF Sound
  <2>2. Count(a.at, a.size) = Count(a.at, a.size - 1) + 1 /\ Count(a.at, a.size - 1) \in Nat
    BY <2>1, Counts
  <2>3. Count(b.at, b.size) = Count(a.at, a.size - 1)
    BY <1>1 DEF Count
  <2>. QED
    BY <2>2, <2>3
<1>. HIDE DEF used
<1>. QED
  BY <1>1, <1>3, <1>4, <1>5, <1>6 DEF b

LEMMA ClearIs ==
    ASSUME NEW a, Sound(a), NEW i \in Array!Index
    PROVE  LET b == Array!clear(a, i)
           IN  /\ b \in Arrays /\ (b.size > 0 => b.at[b.size - 1] # 0)
               /\ Shown(b) = Array!Map!Without(Shown(a), i)
<1>. DEFINE b == Array!clear(a, i)
            used == Below(a.at, a.size)
            f == [a.at EXCEPT ![i] = 0]
            c == [a EXCEPT !.at = f]
<1>0. /\ a \in Arrays /\ a.size \in Nat /\ i \in Nat /\ a.at \in [Array!Index -> Nat] /\ used \subseteq Array!Index
      /\ Array!Map!Used(Shown(a)) = used /\ (a.size > 0 => a.at[a.size - 1] # 0)
      /\ MaxIndex \in Nat /\ a.size <= MaxIndex + 1 /\ \A j : j \in Array!Index <=> j \in Nat /\ j <= MaxIndex
  BY ArrayFields, Ends DEF Sound
<1>1. Array!Map!Without(Shown(a), i) = [j \in used \ {i} |-> a.at[j]]
  <2>1. \A j \in used : Shown(a)[j] = a.at[j]
    BY DEF Shown
  <2>2. Array!Map!Without(Shown(a), i) = [j \in used \ {i} |-> Shown(a)[j]]
    BY <1>0 DEF Array!Map!Without
  <2>. HIDE DEF used
  <2>. QED
    BY <2>1, <2>2
<1>2. CASE i >= a.size
  <2>1. b = a
    BY <1>2 DEF Array!clear
  <2>2. used \ {i} = used
    BY <1>0, <1>2 DEF Below
  <2>. QED
    BY <1>0, <1>1, <2>1, <2>2 DEF Shown
<1>3. CASE i < a.size
  <2>1. f \in [Array!Index -> Nat] /\ f[i] = 0 /\ \A j \in Array!Index \ {i} : f[j] = a.at[j]
    BY <1>0
  <2>2. c \in Arrays /\ c.at = f /\ c.size = a.size
    <3>. HIDE DEF f
    <3>. QED
      BY <1>0, <2>1 DEF Arrays
  <2>3. Below(f, a.size) = used \ {i}
    <3>1. \A j \in Below(f, a.size) : j # i /\ j \in used
      BY <1>0, <2>1 DEF Below
    <3>2. \A j \in used \ {i} : j \in Below(f, a.size)
      BY <1>0, <2>1 DEF Below
    <3>. QED
      BY <3>1, <3>2
  <2>4. CASE i = a.size - 1
    <3>1. b = Array!locate_last_used([c EXCEPT !.size = @ - 1])
      BY <1>0, <1>3, <2>4 DEF Array!clear, Array!NULL
    <3>2. Below(f, a.size - 1) = Below(f, a.size)
      BY <1>0, <2>1, <2>4 DEF Below
    <3>. HIDE DEF b, c, f
    <3>3. b \in Arrays /\ b.at = f /\ (b.size > 0 => b.at[b.size - 1] # 0) /\ Below(b.at, b.size) = used \ {i}
      BY <1>0, <1>3, <2>2, <2>3, <3>1, <3>2, Shorter
    <3>4. Shown(b) = [j \in used \ {i} |-> f[j]]
      BY <3>3 DEF Shown
    <3>5. \A j \in used \ {i} : f[j] = a.at[j]
      BY <1>0, <2>1
    <3>. HIDE DEF used
    <3>. QED
      BY <1>1, <3>3, <3>4, <3>5 DEF b
  <2>5. CASE i # a.size - 1
    <3>1. b = c
      BY <1>0, <1>3, <2>5 DEF Array!clear, Array!NULL
    <3>. HIDE DEF b, c, f
    <3>2. b.at[b.size - 1] # 0
      <4>1. a.size - 1 \in Array!Index \ {i} /\ a.size > 0
        BY <1>0, <1>3, <2>5
      <4>. QED
        BY <1>0, <2>1, <2>2, <3>1, <4>1
    <3>3. Shown(b) = [j \in used \ {i} |-> f[j]]
      BY <2>2, <2>3, <3>1 DEF Shown
    <3>4. \A j \in used \ {i} : f[j] = a.at[j]
      BY <1>0, <2>1
    <3>. HIDE DEF used
    <3>. QED
      BY <1>1, <2>2, <3>1, <3>2, <3>3, <3>4 DEF b
  <2>. QED
    BY <2>4, <2>5
<1>. QED
  BY <1>0, <1>2, <1>3

LEMMA RemoveIs ==
    ASSUME NEW a, Sound(a), NEW i \in Array!Index
    PROVE  LET b == Array!remove(a, i)
           IN  /\ b \in Arrays /\ (b.size > 0 => b.at[b.size - 1] # 0)
               /\ Shown(b) = Array!Map!Down(Shown(a), i)
<1>. DEFINE b == Array!remove(a, i)
            f == [j \in Array!Index |-> IF j >= i /\ j < a.size - 1 THEN a.at[j + 1] ELSE a.at[j]]
            c == [a EXCEPT !.at = f, !.size = a.size - 1]
            used == Below(a.at, a.size)
            down == {k \in used : k < i} \cup {k - 1 : k \in {l \in used : l > i}}
            m == [j \in down |-> IF j < i THEN a.at[j] ELSE a.at[j + 1]]
<1>0. /\ a \in Arrays /\ a.size \in Nat /\ i \in Nat /\ a.at \in [Array!Index -> Nat] /\ used \subseteq Array!Index
      /\ Array!Map!Used(Shown(a)) = used /\ (a.size > 0 => a.at[a.size - 1] # 0)
      /\ MaxIndex \in Nat /\ a.size <= MaxIndex + 1 /\ \A j : j \in Array!Index <=> j \in Nat /\ j <= MaxIndex
  BY ArrayFields, Ends DEF Sound
<1>1. \A k \in used : k \in Nat /\ k < a.size /\ a.at[k] # 0
  BY <1>0 DEF Below
<1>2. Array!Map!Down(Shown(a), i) = m
  <2>1. \A j \in used : Shown(a)[j] = a.at[j]
    BY DEF Shown
  <2>2. Array!Map!Down(Shown(a), i) = [j \in down |-> IF j < i THEN Shown(a)[j] ELSE Shown(a)[j + 1]]
    BY <1>0 DEF Array!Map!Down
  <2>3. \A j \in down : IF j < i THEN j \in used ELSE j + 1 \in used
    BY <1>0, <1>1
  <2>. HIDE DEF used, down
  <2>. QED
    BY <2>1, <2>2, <2>3
<1>3. CASE i >= a.size
  <2>1. b = a
    BY <1>3 DEF Array!remove
  <2>2. down = used
    BY <1>0, <1>1, <1>3
  <2>3. \A j \in used : j < i
    BY <1>0, <1>1, <1>3
  <2>4. Shown(a) = m
    <3>. HIDE DEF used, down
    <3>. QED
      BY <2>2, <2>3 DEF Shown, used
  <2>. QED
    BY <1>0, <1>2, <2>1, <2>4
<1>4. CASE i < a.size
  <2>1. f \in [Array!Index -> Nat]
    <3>1. ASSUME NEW j \in Array!Index PROVE f[j] \in Nat
      <4>1. j < a.size - 1 => j + 1 \in Array!Index
        BY <1>0
      <4>. QED
        BY <1>0, <4>1
    <3>. QED
      BY <3>1
  <2>2. c \in Arrays /\ c.at = f /\ c.size = a.size - 1 /\ a.size - 1 \in Nat
    <3>1. a.size - 1 \in 0..(MaxIndex + 1) /\ a.size - 1 \in Nat
      BY <1>0, <1>4
    <3>2. a \in Arrays
      BY <1>0
    <3>3. c = ArrayMade(a, f, a.size - 1)
      BY DEF ArrayMade
    <3>. HIDE DEF f, c
    <3>. QED
      BY <2>1, <3>1, <3>2, <3>3, Remade
  <2>3. Below(f, a.size - 1) = down
    <3>1. ASSUME NEW j \in Below(f, a.size - 1) PROVE j \in down
      <4>1. j \in Nat /\ j < a.size - 1 /\ f[j] # 0 /\ j \in Array!Index
        BY <1>0 DEF Below
      <4>2. CASE j < i
        <5>1. f[j] = a.at[j]
          BY <1>0, <4>1, <4>2
        <5>2. j \in used
          BY <1>0, <4>1, <5>1 DEF Below
        <5>. QED
          BY <4>2, <5>2
      <4>3. CASE ~(j < i)
        <5>1. f[j] = a.at[j + 1]
          BY <1>0, <4>1, <4>3
        <5>2. j + 1 \in used /\ j + 1 > i /\ j = (j + 1) - 1
          BY <1>0, <4>1, <4>3, <5>1 DEF Below
        <5>. QED
          BY <5>2
      <4>. QED
        BY <4>2, <4>3
    <3>2. ASSUME NEW k \in used, k < i PROVE k \in Below(f, a.size - 1)
      <4>1. k \in Array!Index /\ k \in 0..((a.size - 1) - 1)
        BY <1>0, <1>1, <1>4, <3>2
      <4>2. f[k] = a.at[k]
        BY <1>0, <3>2, <4>1
      <4>. QED
        BY <1>1, <4>1, <4>2 DEF Below
    <3>3. ASSUME NEW k \in used, k > i PROVE k - 1 \in Below(f, a.size - 1)
      <4>1. k - 1 \in Array!Index /\ k - 1 \in 0..((a.size - 1) - 1) /\ k - 1 >= i
        BY <1>0, <1>1, <1>4, <3>3
      <4>2. f[k - 1] = a.at[k]
        BY <1>0, <1>1, <3>3, <4>1
      <4>. QED
        BY <1>1, <4>1, <4>2 DEF Below
    <3>4. down \subseteq Below(f, a.size - 1)
      <4>. HIDE DEF used, f
      <4>. QED
        BY <3>2, <3>3
    <3>. QED
      BY <3>1, <3>4
  <2>4. [j \in down |-> f[j]] = m
    <3>1. ASSUME NEW j \in down PROVE f[j] = IF j < i THEN a.at[j] ELSE a.at[j + 1]
      <4>1. CASE j < i
        <5>1. j \in Array!Index
          BY <1>0, <4>1, <1>1
        <5>. QED
          BY <4>1, <5>1, <1>0
      <4>2. CASE ~(j < i)
        <5>1. j + 1 \in used /\ j \in Nat
          BY <1>0, <4>2, <1>1
        <5>2. j \in Array!Index /\ j < a.size - 1
          BY <1>0, <1>1, <5>1
        <5>. QED
          BY <1>0, <4>2, <5>1, <5>2
      <4>. QED
        BY <4>1, <4>2
    <3>. HIDE DEF f, down
    <3>. QED
      BY <3>1
  <2>5. CASE i = a.size - 1
    <3>1. b = Array!locate_last_used(c)
      BY <1>0, <1>4, <2>2, <2>5 DEF Array!remove
    <3>. HIDE DEF b, c, f
    <3>2. b \in Arrays /\ b.at = f /\ (b.size > 0 => b.at[b.size - 1] # 0) /\ Below(b.at, b.size) = down
      BY <2>2, <2>3, <3>1, Trimmed
    <3>3. Shown(b) = [j \in down |-> f[j]]
      BY <3>2 DEF Shown
    <3>. HIDE DEF m, down
    <3>. QED
      BY <1>2, <2>4, <3>2, <3>3 DEF b
  <2>6. CASE i # a.size - 1
    <3>1. b = c
      BY <1>0, <1>4, <2>2, <2>6 DEF Array!remove
    <3>2. f[a.size - 2] # 0
      <4>1. a.size - 2 \in Array!Index /\ a.size - 2 >= i /\ a.size - 2 < a.size - 1 /\ (a.size - 2) + 1 = a.size - 1
        BY <1>0, <1>4, <2>6
      <4>. QED
        BY <1>0, <4>1
    <3>3. c.size - 1 = a.size - 2
      BY <1>0, <2>2
    <3>. HIDE DEF b, c, f
    <3>4. Shown(b) = [j \in down |-> f[j]]
      BY <2>2, <2>3, <3>1 DEF Shown
    <3>. HIDE DEF m, down
    <3>. QED
      BY <1>2, <2>2, <2>4, <3>1, <3>2, <3>3, <3>4 DEF b
  <2>. QED
    BY <2>5, <2>6
<1>. QED
  BY <1>0, <1>3, <1>4

\* Elements that are put one after another
LEMMA AppendedIs ==
    ASSUME NEW a \in Arrays, NEW from \in Nat, NEW n \in Nat, from + n <= MaxIndex + 1,
           NEW s, \A k \in 0..(n - 1) : s[k] \in Nat
    PROVE  LET b == Array!appended(a, from, n, s)
           IN  /\ b \in Arrays /\ b.size = from + n /\ b.fused = a.fused
               /\ \A j \in Array!Index : j < from => b.at[j] = a.at[j]
               /\ \A k \in 0..(n - 1) : b.at[from + k] = s[k]
<1>. DEFINE b == Array!appended(a, from, n, s)
            f == [j \in Array!Index |-> IF j >= from /\ j < from + n THEN s[j - from] ELSE a.at[j]]
<1>0. /\ a.at \in [Array!Index -> Nat] /\ MaxIndex \in Nat
      /\ \A j : j \in Array!Index <=> j \in Nat /\ j <= MaxIndex
  BY ArrayFields
<1>1. f \in [Array!Index -> Nat]
  <2>1. ASSUME NEW j \in Array!Index, j >= from, j < from + n PROVE f[j] \in Nat
    <3>1. j - from \in 0..(n - 1)
      BY <1>0, <2>1
    <3>. QED
      BY <2>1, <3>1
  <2>2. ASSUME NEW j \in Array!Index, ~(j >= from /\ j < from + n) PROVE f[j] \in Nat
    BY <1>0, <2>2
  <2>. QED
    BY <2>1, <2>2
<1>2. from + n \in 0..(MaxIndex + 1)
  BY <1>0
<1>3. b = ArrayMade(a, f, from + n)
  BY DEF Array!appended, ArrayMade
<1>4. b \in Arrays /\ b.at = f /\ b.size = from + n /\ b.fused = a.fused
  <2>. HIDE DEF b, f
  <2>. QED
    BY <1>1, <1>2, <1>3, Remade
<1>5. \A j \in Array!Index : j < from => f[j] = a.at[j]
  BY <1>0
<1>6. ASSUME NEW k \in 0..(n - 1) PROVE f[from + k] = s[k]
  <2>1. from + k \in Array!Index /\ from + k >= from /\ from + k < from + n /\ (from + k) - from = k
    BY <1>0
  <2>. QED
    BY <2>1
<1>. QED
  BY <1>4, <1>5, <1>6

\* The cached number
LEMMA FusedIs ==
    ASSUME NEW a \in Arrays, NEW n \in Nat
    PROVE  /\ [a EXCEPT !.fused = n] \in Arrays /\ [a EXCEPT !.fused = n].at = a.at
           /\ [a EXCEPT !.fused = n].size = a.size /\ [a EXCEPT !.fused = n].fused = n
           /\ Shown([a EXCEPT !.fused = n]) = Shown(a)
  BY DEF Arrays, Shown

LEMMA Invalid ==
    ASSUME NEW a \in Arrays, a.size > 0 => a.at[a.size - 1] # 0
    PROVE  Sound(Array!invalidate(a)) /\ Shown(Array!invalidate(a)) = Shown(a)
<1>1. 0 \in Nat
  OBVIOUS
<1>. QED
  BY <1>1, FusedIs DEF Sound, Array!invalidate

LEMMA Changed ==
    ASSUME NEW a \in Arrays, a.size > 0 => a.at[a.size - 1] # 0, NEW d \in Int,
           a.fused # 0 => a.fused + d = Count(a.at, a.size)
    PROVE  Sound(Array!change_used(a, d)) /\ Shown(Array!change_used(a, d)) = Shown(a)
<1>. DEFINE n == IF a.fused = 0 THEN 0 ELSE a.fused + d
<1>1. n \in Nat
  BY ArrayFields
<1>2. Array!change_used(a, d) = [a EXCEPT !.fused = n]
  BY DEF Array!change_used
<1>3. n # 0 => n = Count(a.at, a.size)
  OBVIOUS
<1>. HIDE DEF n
<1>. QED
  BY <1>1, <1>2, <1>3, FusedIs DEF Sound

\* An array without holes
LEMMA Confirmed ==
    ASSUME NEW a \in Arrays, \A i \in 0..(a.size - 1) : a.at[i] # 0
    PROVE  /\ Sound(Array!confirm_all_used(a)) /\ Shown(Array!confirm_all_used(a)) = Shown(a)
           /\ Below(a.at, a.size) = 0..(a.size - 1) /\ Shown(a) = [i \in 0..(a.size - 1) |-> a.at[i]]
<1>1. a.size \in Nat /\ Count(a.at, a.size) = a.size
  BY ArrayFields, Counted
<1>2. a.size > 0 => a.at[a.size - 1] # 0
  BY <1>1
<1>3. Below(a.at, a.size) = 0..(a.size - 1)
  BY DEF Below
<1>4. Array!confirm_all_used(a) = [a EXCEPT !.fused = a.size]
  BY DEF Array!confirm_all_used
<1>. QED
  BY <1>1, <1>2, <1>3, <1>4, FusedIs DEF Sound, Shown

\* The elements one after another, without holes
LEMMA CompactIs ==
    ASSUME NEW a \in Arrays
    PROVE  LET n == Count(a.at, a.size)
           IN  /\ Array!Map!Compact(Shown(a)) = [k \in 0..(n - 1) |-> a.at[Array!nth(a, k)]]
               /\ \A k \in 0..(n - 1) : a.at[Array!nth(a, k)] \in Nat /\ a.at[Array!nth(a, k)] # 0
<1>. DEFINE n == Count(a.at, a.size)
            used == Below(a.at, a.size)
            m == Shown(a)
<1>0. a.size \in Nat /\ used \subseteq 0..(a.size - 1) /\ used \subseteq Array!Index /\ a.at \in [Array!Index -> Nat]
  BY ArrayFields
<1>1. Array!Map!Used(m) = used /\ \A i \in used : m[i] = a.at[i]
  BY DEF Array!Map!Used, Shown
<1>2. ASSUME NEW i \in used PROVE Array!Map!Rank(m, i) = Count(a.at, i)
  <2>1. {j \in used : j < i} = Below(a.at, i)
    <3>1. \A j \in 0..(i - 1) : j \in 0..(a.size - 1) /\ j < i
      BY <1>0
    <3>2. \A j \in used : j < i => j \in 0..(i - 1)
      BY <1>0
    <3>. QED
      BY <1>0, <3>1, <3>2 DEF Below
  <2>. HIDE DEF used, m
  <2>. QED
    BY <1>1, <2>1, OneCardinality DEF Array!Map!Rank, Count
<1>3. Cardinality(used) = n
  BY DEF Count
<1>4. Array!Map!Compact(m) = [k \in 0..(n - 1) |-> m[CHOOSE i \in used : Array!Map!Rank(m, i) = k]]
  <2>. HIDE DEF used, m, n
  <2>. QED
    BY <1>1, <1>3, OneCardinality DEF Array!Map!Compact
<1>5. ASSUME NEW k \in 0..(n - 1) PROVE m[CHOOSE i \in used : Array!Map!Rank(m, i) = k] = a.at[Array!nth(a, k)]
  <2>1. /\ Array!nth(a, k) \in used /\ Count(a.at, Array!nth(a, k)) = k
        /\ \A i \in used : Count(a.at, i) = k => i = Array!nth(a, k)
    BY NthIs
  <2>. HIDE DEF used, m
  <2>2. (CHOOSE i \in used : Array!Map!Rank(m, i) = k) = Array!nth(a, k)
    BY <1>2, <2>1
  <2>. QED
    BY <1>1, <2>1, <2>2
<1>6. ASSUME NEW k \in 0..(n - 1) PROVE a.at[Array!nth(a, k)] \in Nat /\ a.at[Array!nth(a, k)] # 0
  <2>1. Array!nth(a, k) \in used
    BY NthIs
  <2>. QED
    BY <1>0, <2>1 DEF Below
<1>. HIDE DEF m, used
<1>. QED
  BY <1>4, <1>5, <1>6 DEF m
-----------------------------------------------------------------------------
\* The calls: the array stays in order, and its elements are what the call says
Follows == Sound(Array!Now)' /\ Array!Elements' = Array!Map!After(call', Array!Elements)

LEMMA Done ==
    ASSUME NEW b, Sound(b), Array!Becomes(b), Shown(b) = Array!Map!After(call', Shown(Array!Now))
    PROVE  Follows
<1>1. Array!Now' = b /\ Array!Elements' = Shown(b)
  BY Became DEF Sound
<1>2. Sound(Array!Now)' <=> Sound(Array!Now')
  BY DEF Sound, Arrays, Count, Below, Array!Index
<1>. QED
  BY <1>1, <1>2, ShownNow DEF Follows

\* What the array is now
LEMMA NowIs ==
    ASSUME Sound(Array!Now)
    PROVE  /\ Array!Now \in Arrays /\ Array!Now.at = felements /\ Array!Now.size = fsize /\ Array!Now.fused = fused
           /\ Array!actual(Array!Now) = Count(felements, fsize) /\ Array!used(Array!Now) = Count(felements, fsize)
           /\ fsize \in Nat /\ Count(felements, fsize) \in Nat /\ Count(felements, fsize) <= fsize
           /\ MaxIndex \in Nat /\ fsize <= MaxIndex + 1
<1>1. Array!Now \in Arrays /\ Array!Now.at = felements /\ Array!Now.size = fsize /\ Array!Now.fused = fused
  BY DEF Sound, Array!Now
<1>2. /\ Array!actual(Array!Now) = Count(felements, fsize) /\ fsize \in Nat /\ Count(felements, fsize) \in Nat
      /\ Count(felements, fsize) <= fsize /\ MaxIndex \in Nat /\ fsize <= MaxIndex + 1
  BY <1>1, ArrayFields
<1>. QED
  BY <1>1, <1>2 DEF Sound, Array!used

LEMMA ArrayPuts ==
    ASSUME Unready = {}, Sound(Array!Now), NEW i \in Array!Index, NEW e \in Element, Array!put_element(i, e)
    PROVE  Follows
<1>. DEFINE a == Array!Now
            b == Array!put(a, i, e)
<1>1. \A j \in a.size..(i - 1) : a.at[j] = 0
  BY NowIs DEF Array!put_element, Array!Clean, Array!NULL
<1>2. b \in Arrays /\ b.at[b.size - 1] # 0 /\ Shown(b) = Array!Map!Put(Shown(a), i, e)
  BY <1>1, PutIs
<1>3. Array!Becomes(Array!invalidate(b)) /\ call' = Array!CallWith("put", i, e)
  BY DEF Array!put_element, Array!Calls
<1>. HIDE DEF a, b
<1>4. Array!Map!After(call', Shown(a)) = Array!Map!Put(Shown(a), i, e)
  BY <1>3, CallPut
<1>5. Sound(Array!invalidate(b)) /\ Shown(Array!invalidate(b)) = Shown(b)
  BY <1>2, Invalid
<1>. QED
  BY <1>2, <1>3, <1>4, <1>5, Done DEF a

LEMMA AppendsOne ==
    ASSUME Sound(Array!Now), NEW e \in Element, Array!append(e)
    PROVE  Follows
<1>. DEFINE a == Array!Now
            b == Array!put(a, fsize, e)
<1>0. a \in Arrays /\ a.size = fsize /\ fsize \in Nat /\ a.fused = fused /\ a.at = felements /\ Array!used(a) = Count(a.at, a.size)
  BY NowIs
<1>1. fsize \in Array!Index /\ \A j \in a.size..(fsize - 1) : a.at[j] = 0
  BY <1>0 DEF Array!append, Array!Index
<1>2. /\ b \in Arrays /\ b.at[b.size - 1] # 0 /\ Shown(b) = Array!Map!Put(Shown(a), fsize, e)
      /\ b.fused = a.fused /\ Count(b.at, b.size) = Count(a.at, a.size) + 1
  BY <1>0, <1>1, PutIs
<1>3. Array!Map!End(Shown(a)) = fsize
  BY <1>0, Ends
<1>4. call' = Array!CallWith("append", 0, e)
  BY DEF Array!append, Array!Calls
<1>5. Array!Map!After(call', Shown(a)) = Array!Map!Put(Shown(a), fsize, e)
  <2>. HIDE DEF a
  <2>. QED
    BY <1>3, <1>4, CallAppend
<1>6. CASE fsize > 0
  <2>1. Array!Becomes(Array!change_used(b, 1))
    BY <1>6 DEF Array!append
  <2>2. b.fused # 0 => b.fused + 1 = Count(b.at, b.size)
    BY <1>2 DEF Sound
  <2>. HIDE DEF b
  <2>3. Sound(Array!change_used(b, 1)) /\ Shown(Array!change_used(b, 1)) = Shown(b)
    BY <1>2, <2>2, Changed
  <2>. QED
    BY <1>2, <1>5, <2>1, <2>3, Done
<1>7. CASE fsize = 0
  <2>1. Array!Becomes(Array!confirm_all_used(b))
    BY <1>7, <1>0 DEF Array!append
  <2>2. b.size = 1
    BY <1>0, <1>7 DEF Array!put, Arrays
  <2>. HIDE DEF b
  <2>3. \A i \in 0..(b.size - 1) : b.at[i] # 0
    BY <1>2, <2>2
  <2>4. Sound(Array!confirm_all_used(b)) /\ Shown(Array!confirm_all_used(b)) = Shown(b)
    BY <1>2, <2>3, Confirmed
  <2>. QED
    BY <1>2, <1>5, <2>1, <2>4, Done
<1>. QED
  BY <1>0, <1>6, <1>7

LEMMA InsertsOne ==
    ASSUME Unready = {}, Sound(Array!Now), NEW i \in Array!Index, NEW e \in Element, Array!insert_(i, e)
    PROVE  Follows
<1>. DEFINE a == Array!Now
            b == Array!insert(a, i, e)
<1>0. /\ a \in Arrays /\ a.size = fsize /\ fsize \in Nat /\ i \in Nat /\ fsize <= MaxIndex
      /\ Array!Map!Used(Shown(a)) = Below(a.at, a.size) /\ Below(a.at, a.size) \subseteq 0..(fsize - 1)
  BY NowIs, Ends, ArrayFields DEF Array!insert_
<1>1. \A j \in a.size..(i - 1) : a.at[j] = 0
  BY NowIs DEF Array!insert_, Array!Clean, Array!NULL
<1>2. Array!Becomes(Array!change_used(b, 1)) /\ call' = Array!CallWith("insert", i, e)
  BY DEF Array!insert_, Array!Calls
<1>3. Array!Map!After(call', Shown(a)) = Array!Map!Put(Array!Map!Up(Shown(a), i), i, e)
  <2>. HIDE DEF a
  <2>. QED
    BY <1>2, CallInsert
<1>4. /\ b \in Arrays /\ b.at[b.size - 1] # 0 /\ b.fused = a.fused /\ Count(b.at, b.size) = Count(a.at, a.size) + 1
      /\ Shown(b) = Array!Map!Put(Array!Map!Up(Shown(a), i), i, e)
  <2>1. CASE i < fsize
    BY <1>0, <2>1, InsertIs
  <2>2. CASE i >= fsize
    <3>1. b = Array!put(a, i, e)
      BY <1>0, <2>2 DEF Array!insert
    <3>2. Array!Map!Up(Shown(a), i) = Shown(a)
      <4>1. {k \in Below(a.at, a.size) : k < i} \cup {k + 1 : k \in {l \in Below(a.at, a.size) : l >= i}} = Below(a.at, a.size)
        BY <1>0, <2>2
      <4>2. \A j \in Below(a.at, a.size) : j < i
        BY <1>0, <2>2
      <4>3. Array!Map!Up(Shown(a), i) = [j \in Below(a.at, a.size) |-> IF j < i THEN Shown(a)[j] ELSE Shown(a)[j - 1]]
        BY <1>0, <4>1 DEF Array!Map!Up
      <4>4. Shown(a) = [j \in Below(a.at, a.size) |-> Shown(a)[j]]
        BY DEF Shown
      <4>. HIDE DEF a
      <4>. QED
        BY <4>2, <4>3, <4>4
    <3>. QED
      BY <1>0, <1>1, <2>2, <3>1, <3>2, PutIs
  <2>. QED
    BY <1>0, <2>1, <2>2
<1>5. b.fused # 0 => b.fused + 1 = Count(b.at, b.size)
  BY <1>4 DEF Sound
<1>. HIDE DEF a, b
<1>6. Sound(Array!change_used(b, 1)) /\ Shown(Array!change_used(b, 1)) = Shown(b)
  BY <1>4, <1>5, Changed
<1>. QED
  BY <1>2, <1>3, <1>4, <1>6, Done DEF a

LEMMA DeletesOne ==
    ASSUME Sound(Array!Now), NEW i \in Array!Index, Array!delete(i)
    PROVE  Follows
<1>. DEFINE a == Array!Now
            b == Array!clear(a, i)
<1>1. Array!Becomes(Array!invalidate(b)) /\ call' = Array!CallWith("delete", i, 0)
  BY DEF Array!delete, Array!Calls
<1>2. b \in Arrays /\ (b.size > 0 => b.at[b.size - 1] # 0) /\ Shown(b) = Array!Map!Without(Shown(a), i)
  BY ClearIs
<1>. HIDE DEF a, b
<1>3. Array!Map!After(call', Shown(a)) = Array!Map!Without(Shown(a), i)
  BY <1>1, CallDelete
<1>4. Sound(Array!invalidate(b)) /\ Shown(Array!invalidate(b)) = Shown(b)
  BY <1>2, Invalid
<1>. QED
  BY <1>1, <1>2, <1>3, <1>4, Done DEF a

LEMMA RemovesOne ==
    ASSUME Sound(Array!Now), NEW i \in Array!Index, Array!remove_(i)
    PROVE  Follows
<1>. DEFINE a == Array!Now
            b == Array!remove(a, i)
<1>1. Array!Becomes(Array!invalidate(b)) /\ call' = Array!CallWith("remove", i, 0)
  BY DEF Array!remove_, Array!_remove, Array!Calls
<1>2. b \in Arrays /\ (b.size > 0 => b.at[b.size - 1] # 0) /\ Shown(b) = Array!Map!Down(Shown(a), i)
  BY RemoveIs
<1>. HIDE DEF a, b
<1>3. Array!Map!After(call', Shown(a)) = Array!Map!Down(Shown(a), i)
  BY <1>1, CallRemove
<1>4. Sound(Array!invalidate(b)) /\ Shown(Array!invalidate(b)) = Shown(b)
  BY <1>2, Invalid
<1>. QED
  BY <1>1, <1>2, <1>3, <1>4, Done DEF a

LEMMA Pops ==
    ASSUME Sound(Array!Now), Array!pop_
    PROVE  Follows
<1>. DEFINE a == Array!Now
            b == Array!pop(a)
<1>1. Array!Becomes(Array!change_used(b, -1)) /\ call' = Array!CallWith("pop", 0, 0) /\ a.size > 0
  BY NowIs DEF Array!pop_, Array!Calls
<1>2. /\ b \in Arrays /\ (b.size > 0 => b.at[b.size - 1] # 0) /\ b.fused = a.fused
      /\ Shown(b) = Array!Map!Without(Shown(a), Array!Map!End(Shown(a)) - 1)
      /\ Count(b.at, b.size) = Count(a.at, a.size) - 1 /\ Count(a.at, a.size) \in Nat
  BY <1>1, PopIs, ArrayFields DEF Sound
<1>3. b.fused # 0 => b.fused + (-1) = Count(b.at, b.size)
  BY <1>2 DEF Sound
<1>. HIDE DEF a, b
<1>4. Array!Map!After(call', Shown(a)) = Array!Map!Without(Shown(a), Array!Map!End(Shown(a)) - 1)
  BY <1>1, CallPop
<1>5. Sound(Array!change_used(b, -1)) /\ Shown(Array!change_used(b, -1)) = Shown(b)
  BY <1>2, <1>3, Changed
<1>. QED
  BY <1>1, <1>2, <1>4, <1>5, Done DEF a

LEMMA Cleared ==
    ASSUME NEW a \in Arrays
    PROVE  LET b == Array!clear_all(a)
           IN  b \in Arrays /\ b.size = 0 /\ b.fused = a.fused /\ Shown(b) = [j \in {} |-> 0]
<1>. DEFINE b == Array!clear_all(a)
            f == [i \in Array!Index |-> IF i < a.size THEN 0 ELSE a.at[i]]
<1>1. f \in [Array!Index -> Nat]
  BY ArrayFields
<1>2. b = ArrayMade(a, f, 0)
  BY DEF Array!clear_all, ArrayMade, Array!NULL
<1>3. 0 \in 0..(MaxIndex + 1)
  BY ArrayFields
<1>4. b \in Arrays /\ b.size = 0 /\ b.fused = a.fused
  <2>. HIDE DEF b, f
  <2>. QED
    BY <1>1, <1>2, <1>3, Remade
<1>5. Below(b.at, 0) = {}
  BY DEF Below
<1>. HIDE DEF b
<1>6. Shown(b) = [j \in {} |-> 0]
  BY <1>4, <1>5 DEF Shown
<1>. QED
  BY <1>4, <1>6 DEF b

LEMMA DeletesAll ==
    ASSUME Sound(Array!Now), Array!delete_all
    PROVE  Follows
<1>. DEFINE a == Array!Now
            b == Array!clear_all(a)
<1>1. Array!Becomes(Array!invalidate(b)) /\ call' = Array!CallWith("clear", 0, 0)
  BY DEF Array!delete_all, Array!Calls
<1>2. b \in Arrays /\ (b.size > 0 => b.at[b.size - 1] # 0) /\ Shown(b) = [j \in {} |-> 0]
  BY Cleared DEF Sound
<1>. HIDE DEF a, b
<1>3. Array!Map!After(call', Shown(a)) = [j \in {} |-> 0]
  BY <1>1, CallClear
<1>4. Sound(Array!invalidate(b)) /\ Shown(Array!invalidate(b)) = Shown(b)
  BY <1>2, Invalid
<1>. QED
  BY <1>1, <1>2, <1>3, <1>4, Done DEF a

\* Elements put from the start on, none of them NULL
LEMMA FromStart ==
    ASSUME NEW a \in Arrays, NEW n \in Nat, n <= MaxIndex + 1, NEW s,
           \A k \in 0..(n - 1) : s[k] \in Nat /\ s[k] # 0
    PROVE  LET b == Array!confirm_all_used(Array!appended(a, 0, n, s))
           IN  Sound(b) /\ Shown(b) = [k \in 0..(n - 1) |-> s[k]]
<1>. DEFINE c == Array!appended(a, 0, n, s)
<1>1. c \in Arrays /\ c.size = 0 + n /\ \A k \in 0..(n - 1) : c.at[0 + k] = s[k]
  <2>1. 0 \in Nat /\ 0 + n <= MaxIndex + 1
    OBVIOUS
  <2>. QED
    BY <2>1, AppendedIs
<1>2. c.size = n
  BY <1>1
<1>3. \A k \in 0..(n - 1) : c.at[k] = s[k]
  <2>1. ASSUME NEW k \in 0..(n - 1) PROVE c.at[k] = s[k]
    <3>1. 0 + k = k
      OBVIOUS
    <3>. QED
      BY <1>1, <3>1
  <2>. QED
    BY <2>1
<1>. HIDE DEF c
<1>4. \A k \in 0..(c.size - 1) : c.at[k] # 0
  BY <1>2, <1>3
<1>5. /\ Sound(Array!confirm_all_used(c)) /\ Shown(Array!confirm_all_used(c)) = Shown(c)
      /\ Shown(c) = [k \in 0..(c.size - 1) |-> c.at[k]]
  BY <1>1, <1>4, Confirmed
<1>6. Shown(c) = [k \in 0..(n - 1) |-> s[k]]
  BY <1>2, <1>3, <1>5
<1>. QED
  BY <1>5, <1>6 DEF c

LEMMA Compacts ==
    ASSUME Sound(Array!Now), Array!compact_
    PROVE  Follows
<1>. DEFINE a == Array!Now
            n == Count(a.at, a.size)
            s == [k \in 0..(Array!actual(a) - 1) |-> a.at[Array!nth(a, k)]]
            b == Array!confirm_all_used(Array!compact(a))
<1>0. a \in Arrays /\ Array!actual(a) = n /\ n \in Nat /\ n <= MaxIndex + 1
  BY NowIs
<1>1. Array!Becomes(b) /\ call' = Array!CallWith("compact", 0, 0)
  BY DEF Array!compact_, Array!Calls
<1>2. b = Array!confirm_all_used(Array!appended(a, 0, n, s))
  BY <1>0 DEF Array!compact
<1>3. /\ Array!Map!Compact(Shown(a)) = [k \in 0..(n - 1) |-> s[k]]
      /\ \A k \in 0..(n - 1) : s[k] \in Nat /\ s[k] # 0
  BY <1>0, CompactIs
<1>. HIDE DEF a, b, n, s
<1>4. Array!Map!After(call', Shown(a)) = Array!Map!Compact(Shown(a))
  BY <1>1, CallCompact
<1>5. Sound(b) /\ Shown(b) = [k \in 0..(n - 1) |-> s[k]]
  BY <1>0, <1>2, <1>3, FromStart
<1>. QED
  BY <1>1, <1>3, <1>4, <1>5, Done DEF a

LEMMA NewIs ==
    /\ Array!New \in Arrays /\ Array!New.size = 0 /\ Array!New.fused = 0
    /\ Array!New.at = [i \in Array!Index |-> 0] /\ Sound(Array!New)
<1>1. MaxIndex \in Nat
  BY ArrayConstants DEF Array!ConstantsOK
<1>2. [i \in Array!Index |-> 0] \in [Array!Index -> Nat] /\ 0 \in 0..(MaxIndex + 1)
  BY <1>1
<1>3. Array!New = [at |-> [i \in Array!Index |-> 0], size |-> 0, fused |-> 0]
  BY DEF Array!New, Array!NULL
<1>. QED
  BY <1>2, <1>3 DEF Arrays, Sound

LEMMA Reverses ==
    ASSUME Unready = {}, Sound(Array!Now), Array!reverse
    PROVE  Follows
<1>. DEFINE a == Array!Now
            n == a.size
            s == [k \in 0..(n - 1) |-> a.at[n - 1 - k]]
            b == Array!appended(Array!New, 0, n, s)
            used == Below(a.at, a.size)
            m == Shown(a)
<1>0. /\ a \in Arrays /\ n \in Nat /\ n <= MaxIndex + 1 /\ a.at \in [Array!Index -> Nat] /\ MaxIndex \in Nat
      /\ \A j : j \in Array!Index <=> j \in Nat /\ j <= MaxIndex
  BY NowIs, ArrayFields
<1>1. Array!Becomes(b) /\ call' = Array!CallWith("reverse", 0, 0) /\ (n = 0 \/ a.at[0] # 0)
  BY NowIs DEF Array!reverse, Array!Calls, Array!NULL
<1>2. ASSUME NEW k \in 0..(n - 1) PROVE s[k] \in Nat /\ s[k] = a.at[n - 1 - k] /\ n - 1 - k \in 0..(n - 1)
  <2>1. n - 1 - k \in Array!Index
    BY <1>0
  <2>. QED
    BY <1>0, <2>1
<1>3. /\ b \in Arrays /\ b.size = n /\ b.fused = 0
      /\ \A k \in 0..(n - 1) : b.at[k] = a.at[n - 1 - k]
  <2>1. 0 \in Nat /\ 0 + n <= MaxIndex + 1
    BY <1>0
  <2>2. b \in Arrays /\ b.size = 0 + n /\ b.fused = 0 /\ \A k \in 0..(n - 1) : b.at[0 + k] = s[k]
    <3>. HIDE DEF s, n
    <3>. QED
      BY <1>0, <1>2, <2>1, NewIs, AppendedIs
  <2>3. ASSUME NEW k \in 0..(n - 1) PROVE b.at[k] = a.at[n - 1 - k]
    <3>1. 0 + k = k
      BY <1>0
    <3>. HIDE DEF b, s
    <3>. QED
      BY <1>2, <2>2, <3>1
  <2>. HIDE DEF b, s
  <2>. QED
    BY <1>0, <2>2, <2>3
<1>4. b.size > 0 => b.at[b.size - 1] # 0
  <2>. HIDE DEF b
  <2>1. ASSUME n > 0 PROVE b.at[n - 1] # 0
    <3>1. n - 1 \in 0..(n - 1) /\ n - 1 - (n - 1) = 0
      BY <1>0, <2>1
    <3>2. b.at[n - 1] = a.at[0]
      BY <1>3, <3>1
    <3>. QED
      BY <1>1, <2>1, <3>2
  <2>. QED
    BY <1>3, <2>1
<1>5. /\ Array!Map!End(m) = n /\ Array!Map!Used(m) = used
      /\ used \subseteq 0..(n - 1) /\ \A j \in used : m[j] = a.at[j]
  BY Ends, ArrayFields, <1>0 DEF Shown
<1>6. Below(b.at, n) = {n - 1 - k : k \in used}
  <2>. HIDE DEF b
  <2>1. ASSUME NEW k \in Below(b.at, n) PROVE n - 1 - k \in used /\ k = n - 1 - (n - 1 - k)
    <3>1. k \in 0..(n - 1) /\ b.at[k] # 0
      BY DEF Below
    <3>2. b.at[k] = a.at[n - 1 - k] /\ n - 1 - k \in 0..(n - 1)
      BY <1>2, <1>3, <3>1
    <3>3. k = n - 1 - (n - 1 - k)
      BY <1>0, <3>1
    <3>. QED
      BY <3>1, <3>2, <3>3 DEF Below
  <2>2. ASSUME NEW k \in used PROVE n - 1 - k \in Below(b.at, n)
    <3>1. k \in 0..(n - 1) /\ a.at[k] # 0
      BY DEF Below
    <3>2. n - 1 - k \in 0..(n - 1) /\ n - 1 - (n - 1 - k) = k
      BY <1>0, <3>1
    <3>3. b.at[n - 1 - k] = a.at[k]
      BY <1>3, <3>2
    <3>. QED
      BY <3>1, <3>2, <3>3 DEF Below
  <2>. HIDE DEF used, n
  <2>. QED
    BY <2>1, <2>2
<1>7. Array!Map!After(call', m) = [j \in {n - 1 - k : k \in used} |-> m[n - 1 - j]]
  <2>. HIDE DEF m, n, used
  <2>1. Array!Map!After(call', m) = Reversed(m)
    BY <1>1, CallReverse
  <2>. QED
    BY <1>5, <2>1 DEF Reversed
<1>8. ASSUME NEW j \in {n - 1 - k : k \in used} PROVE b.at[j] = m[n - 1 - j]
  <2>1. PICK k \in used : j = n - 1 - k
    OBVIOUS
  <2>2. k \in 0..(n - 1) /\ j \in 0..(n - 1) /\ n - 1 - j = k
    BY <1>0, <1>5, <2>1
  <2>. HIDE DEF b, m, used, n
  <2>. QED
    BY <1>3, <1>5, <2>2
<1>. HIDE DEF a, b, m, n, used
<1>9. Shown(b) = [j \in {n - 1 - k : k \in used} |-> b.at[j]]
  BY <1>3, <1>6 DEF Shown
<1>10. Sound(b)
  BY <1>3, <1>4 DEF Sound
<1>. QED
  BY <1>1, <1>7, <1>8, <1>9, <1>10, Done DEF a, m

LEMMA Middles ==
    ASSUME Sound(Array!Now), NEW o \in Nat, NEW l \in Nat, Array!mid(o, l)
    PROVE  Follows
<1>. DEFINE a == Array!Now
            c == Count(a.at, a.size)
            rest == IF o < c THEN c - o ELSE 0
            n == IF l < rest THEN l ELSE rest
            s == [k \in 0..(c - o - 1) |-> a.at[Array!nth(a, o + k)]]
            b == Array!confirm_all_used(Array!appended(Array!New, 0, n, s))
            m == Shown(a)
            all == Array!Map!Compact(m)
            some == {j \in Array!Map!Used(all) : j >= o /\ j < o + l}
<1>0. a \in Arrays /\ Array!actual(a) = c /\ c \in Nat /\ c <= MaxIndex + 1 /\ a.at = felements /\ MaxIndex \in Nat
  BY NowIs
<1>1. Array!Becomes(b) /\ call' = Array!CallWith("mid", o, l)
  BY <1>0 DEF Array!mid, Array!Calls
<1>2. all = [k \in 0..(c - 1) |-> a.at[Array!nth(a, k)]] /\ \A k \in 0..(c - 1) : all[k] \in Nat /\ all[k] # 0
  BY <1>0, CompactIs
<1>3. n \in Nat /\ n <= MaxIndex + 1 /\ \A k \in 0..(n - 1) : k \in 0..(c - o - 1) /\ o + k \in 0..(c - 1)
  <2>. HIDE DEF c
  <2>. QED
    BY <1>0
<1>4. \A k \in 0..(n - 1) : s[k] = all[o + k]
  <2>. HIDE DEF n, c, a
  <2>. QED
    BY <1>2, <1>3 DEF a
<1>5. Sound(b) /\ Shown(b) = [k \in 0..(n - 1) |-> s[k]]
  <2>1. \A k \in 0..(n - 1) : s[k] \in Nat /\ s[k] # 0
    <3>. HIDE DEF s, n, all
    <3>. QED
      BY <1>2, <1>3, <1>4
  <2>. HIDE DEF s, n
  <2>. QED
    BY <1>3, <2>1, NewIs, FromStart
<1>6. Array!Map!Used(all) = 0..(c - 1)
  BY <1>2 DEF Array!Map!Used
<1>7. {k - o : k \in some} = 0..(n - 1)
  <2>1. ASSUME NEW k \in some PROVE k - o \in 0..(n - 1)
    <3>1. k \in 0..(c - 1) /\ k >= o /\ k < o + l
      BY <1>6
    <3>. HIDE DEF c
    <3>. QED
      BY <1>0, <3>1
  <2>2. ASSUME NEW k \in 0..(n - 1) PROVE o + k \in some /\ (o + k) - o = k
    <3>1. o + k \in 0..(c - 1) /\ o + k >= o /\ o + k < o + l
      <4>. HIDE DEF c
      <4>. QED
        BY <1>0, <1>3
    <3>. QED
      BY <1>6, <3>1
  <2>. HIDE DEF some, n
  <2>. QED
    BY <2>1, <2>2
<1>8. Array!Map!After(call', m) = [k \in 0..(n - 1) |-> all[k + o]]
  <2>. HIDE DEF m, n
  <2>1. Array!Map!After(call', m) = Middle(m, o, l)
    BY <1>1, CallMid
  <2>. QED
    BY <1>7, <2>1 DEF Middle
<1>9. \A k \in 0..(n - 1) : o + k = k + o
  BY <1>3
<1>. HIDE DEF a, b, c, m, n, s, all
<1>10. Shown(b) = [k \in 0..(n - 1) |-> all[k + o]]
  BY <1>4, <1>5, <1>9
<1>. QED
  BY <1>1, <1>5, <1>8, <1>10, Done DEF a, m
-----------------------------------------------------------------------------
\* What is added from elsewhere
LEMMA CopiedIs ==
    ASSUME NEW m \in Others
    PROVE  LET b == Array!Copied(m)
           IN  /\ Sound(b) /\ Shown(b) = m /\ DOMAIN m \subseteq Array!Index /\ b.fused = 0
               /\ Below(b.at, b.size) = DOMAIN m /\ \A i \in DOMAIN m : m[i] \in Nat /\ m[i] # 0
               /\ \A i \in Array!Index : b.at[i] = IF i \in DOMAIN m THEN m[i] ELSE 0
               /\ \A i \in DOMAIN m : i < b.size
<1>. DEFINE b == Array!Copied(m)
            D == DOMAIN m
            f == [i \in Array!Index |-> IF i \in D THEN m[i] ELSE 0]
<1>0. MaxIndex \in Nat /\ Element \subseteq Nat \ {0} /\ Others \subseteq UNION {[S -> Element] : S \in SUBSET (0..MaxIndex)}
  BY ArrayConstants DEF Array!ConstantsOK
<1>1. PICK S \in SUBSET (0..MaxIndex) : m \in [S -> Element]
  BY <1>0
<1>2. D \subseteq 0..MaxIndex /\ D \subseteq Array!Index /\ \A i \in D : m[i] \in Nat /\ m[i] # 0
  BY <1>0, <1>1 DEF Array!Index
<1>10. m = [i \in D |-> m[i]]
  BY <1>1
<1>3. f \in [Array!Index -> Nat]
  BY <1>2
<1>11. \E n \in 0..(MaxIndex + 1) : b = [at |-> f, size |-> n, fused |-> 0] /\ (n > 0 => n - 1 \in D) /\ \A i \in D : i < n
  <2>1. CASE D = {}
    <3>1. Array!Cardinality({}) = 0
      BY OneCardinality, FS_EmptySet
    <3>2. b = [at |-> f, size |-> 0, fused |-> 0]
      BY <2>1, <3>1 DEF Array!Copied, Array!NULL
    <3>3. 0 \in 0..(MaxIndex + 1)
      BY <1>0
    <3>. HIDE DEF b, f
    <3>. QED
      BY <2>1, <3>2, <3>3
  <2>2. CASE D # {}
    <3>. DEFINE max == CHOOSE i \in D : \A j \in D : j <= i
    <3>0. \E i \in D : \A j \in D : j <= i
      BY <1>0, <1>2, <2>2, Greatest
    <3>1. max \in D /\ \A j \in D : j <= max
      <4>. HIDE DEF D
      <4>. QED
        BY <3>0
    <3>. HIDE DEF max
    <3>2. max \in Nat /\ max <= MaxIndex
      BY <1>0, <1>2, <3>1
    <3>3. Cardinality(0..max) = max + 1
      <4>1. 0 \in Int /\ max \in Int /\ 0 <= max
        BY <3>2
      <4>2. Cardinality(0..max) = max - 0 + 1
        BY <4>1, FS_Interval
      <4>. QED
        BY <3>2, <4>2
    <3>4. b = [at |-> f, size |-> max + 1, fused |-> 0]
      BY <2>2, <3>3, OneCardinality DEF Array!Copied, Array!NULL, max
    <3>5. max + 1 \in 0..(MaxIndex + 1) /\ (max + 1) - 1 = max /\ \A i \in D : i < max + 1
      BY <1>0, <1>2, <3>1, <3>2
    <3>. HIDE DEF b, f, D
    <3>. QED
      BY <3>1, <3>4, <3>5
  <2>. QED
    BY <2>1, <2>2
<1>. HIDE DEF b, f
<1>4. PICK n \in 0..(MaxIndex + 1) : b = [at |-> f, size |-> n, fused |-> 0] /\ (n > 0 => n - 1 \in D) /\ \A i \in D : i < n
  BY <1>11
<1>5. b \in Arrays /\ b.at = f /\ b.size = n /\ b.fused = 0
  <2>1. b = [at |-> f, size |-> n, fused |-> 0]
    BY <1>4
  <2>2. n \in 0..(MaxIndex + 1)
    BY <1>4
  <2>3. b.at = f /\ b.size = n /\ b.fused = 0
    BY <2>1
  <2>. QED
    BY <1>3, <2>1, <2>2, <2>3 DEF Arrays
<1>6. \A i \in Array!Index : f[i] = IF i \in D THEN m[i] ELSE 0
  BY DEF f
<1>7. n > 0 => f[n - 1] # 0
  BY <1>2, <1>4, <1>6
<1>8. Below(f, n) = D
  <2>1. ASSUME NEW i \in Below(f, n) PROVE i \in D
    <3>1. i \in Array!Index /\ f[i] # 0
      BY <1>0, <1>4 DEF Below, Array!Index
    <3>. QED
      BY <1>6, <3>1
  <2>2. ASSUME NEW i \in D PROVE i \in Below(f, n)
    <3>1. i \in Nat /\ i < n /\ f[i] # 0
      BY <1>2, <1>4, <1>6
    <3>. QED
      BY <3>1 DEF Below
  <2>. QED
    BY <2>1, <2>2
<1>9. Shown(b) = m
  <2>1. Shown(b) = [i \in D |-> f[i]]
    BY <1>5, <1>8 DEF Shown
  <2>2. \A i \in D : f[i] = m[i]
    BY <1>2, <1>6
  <2>. QED
    BY <1>10, <2>1, <2>2
<1>. QED
  BY <1>2, <1>4, <1>5, <1>6, <1>7, <1>8, <1>9 DEF Sound, b

LEMMA Adds ==
    ASSUME Unready = {}, Sound(Array!Now), NEW m \in Others, Array!_copy_or_add(m)
    PROVE  Follows
<1>. DEFINE a == Array!Now
            src == Array!Copied(m)
            D == DOMAIN m
            used == Below(a.at, a.size)
            copy == [at |-> [i \in Array!Index |-> IF i < src.size THEN src.at[i] ELSE felements[i]],
                     size |-> src.size, fused |-> IF src.size = 0 THEN fused ELSE src.fused]
            sum == [at |-> [i \in Array!Index |-> IF i \in D THEN m[i] ELSE felements[i]],
                    size |-> IF src.size > fsize THEN src.size ELSE fsize, fused |-> fused]
            both == [i \in used \cup D |-> IF i \in D THEN m[i] ELSE Shown(a)[i]]
<1>0. /\ a \in Arrays /\ a.at = felements /\ a.size = fsize /\ a.fused = fused /\ felements \in [Array!Index -> Nat]
      /\ fsize \in Nat /\ fused \in Nat /\ (fsize > 0 => felements[fsize - 1] # 0) /\ (fused # 0 => fused = Count(felements, fsize))
      /\ fsize \in 0..(MaxIndex + 1) /\ MaxIndex \in Nat /\ \A j : j \in Array!Index <=> j \in Nat /\ j <= MaxIndex
      /\ Count(felements, fsize) <= fsize /\ used \subseteq Array!Index
  BY NowIs, ArrayFields DEF Sound
<1>1. /\ src \in Arrays /\ Shown(src) = m /\ D \subseteq Array!Index /\ src.fused = 0
      /\ Below(src.at, src.size) = D /\ \A i \in D : m[i] \in Nat /\ m[i] # 0
      /\ \A i \in Array!Index : src.at[i] = IF i \in D THEN m[i] ELSE 0
      /\ \A i \in D : i < src.size
      /\ (src.size > 0 => src.at[src.size - 1] # 0)
      /\ src.size \in Nat /\ src.size \in 0..(MaxIndex + 1) /\ src.at \in [Array!Index -> Nat]
  BY CopiedIs, ArrayFields DEF Sound
<1>2. /\ fsize = 0 => Array!Becomes(copy)
      /\ fsize # 0 => Array!Becomes(Array!invalidate(sum))
      /\ call' = Array!CallOf("add", m)
      /\ \A i \in D : \A j \in fsize..(i - 1) : felements[j] = 0
  BY DEF Array!_copy_or_add, Array!Calls, Array!Clean, Array!NULL
<1>3. Array!Map!After(call', Shown(a)) = both
  <2>1. Array!Map!After(call', Shown(a)) = Array!Map!With(Shown(a), m)
    BY <1>2, CallAdd
  <2>2. Array!Map!Used(Shown(a)) = used /\ Array!Map!Used(m) = D
    BY DEF Array!Map!Used, Shown
  <2>. QED
    BY <2>1, <2>2 DEF Array!Map!With
<1>4. CASE fsize = 0
  <2>. DEFINE f == [i \in Array!Index |-> IF i < src.size THEN src.at[i] ELSE felements[i]]
  <2>1. f \in [Array!Index -> Nat] /\ \A i \in Array!Index : i < src.size => f[i] = src.at[i]
    <3>. HIDE DEF src
    <3>. QED
      BY <1>0, <1>1
  <2>2. fused = 0
    BY <1>0, <1>4
  <2>3. copy = [at |-> f, size |-> src.size, fused |-> 0]
    BY <1>1, <2>2
  <2>. HIDE DEF f, copy, src
  <2>4. copy \in Arrays /\ copy.at = f /\ copy.size = src.size /\ copy.fused = 0
    BY <1>1, <2>1, <2>3 DEF Arrays
  <2>5. copy.size > 0 => copy.at[copy.size - 1] # 0
    <3>1. src.size > 0 => src.size - 1 \in Array!Index /\ src.size - 1 < src.size
      BY <1>0, <1>1
    <3>. QED
      BY <1>1, <2>1, <2>4, <3>1
  <2>6. Sound(copy)
    BY <2>4, <2>5 DEF Sound
  <2>7. Below(f, src.size) = D
    <3>1. \A i \in 0..(src.size - 1) : i \in Array!Index /\ i < src.size
      BY <1>0, <1>1
    <3>2. Below(f, src.size) = Below(src.at, src.size)
      BY <2>1, <3>1 DEF Below
    <3>. QED
      BY <1>1, <3>2
  <2>8. used = {}
    BY <1>0, <1>4 DEF Below
  <2>9. Shown(copy) = [i \in D |-> f[i]]
    BY <2>4, <2>7 DEF Shown
  <2>10. \A i \in D : f[i] = m[i]
    BY <1>1, <2>1
  <2>11. both = [i \in D |-> m[i]]
    <3>. HIDE DEF used, D
    <3>. QED
      BY <2>8
  <2>12. Shown(copy) = both
    BY <2>9, <2>10, <2>11
  <2>. QED
    BY <1>2, <1>3, <1>4, <2>6, <2>12, Done
<1>5. CASE fsize # 0
  <2>. DEFINE f == [i \in Array!Index |-> IF i \in D THEN m[i] ELSE felements[i]]
              n == IF src.size > fsize THEN src.size ELSE fsize
  <2>1. f \in [Array!Index -> Nat] /\ n \in Nat /\ n \in 0..(MaxIndex + 1) /\ n > 0
    <3>. HIDE DEF src
    <3>. QED
      BY <1>0, <1>1, <1>5
  <2>2. sum = [at |-> f, size |-> n, fused |-> fused]
    OBVIOUS
  <2>. HIDE DEF sum, src
  <2>3. sum \in Arrays /\ sum.at = f /\ sum.size = n
    <3>. HIDE DEF f, n
    <3>. QED
      BY <1>0, <2>1, <2>2 DEF Arrays
  <2>4. f[n - 1] # 0
    <3>1. n - 1 \in Array!Index
      BY <1>0, <2>1
    <3>2. CASE src.size > fsize
      <4>1. src.at[n - 1] # 0 /\ n = src.size
        BY <1>1, <2>1, <3>2
      <4>2. n - 1 \in D
        BY <1>1, <3>1, <4>1
      <4>. QED
        BY <1>1, <3>1, <4>2
    <3>3. CASE ~(src.size > fsize)
      <4>1. n = fsize /\ felements[n - 1] # 0
        BY <1>0, <1>5, <3>3
      <4>. QED
        BY <1>1, <3>1, <4>1
    <3>. QED
      BY <3>2, <3>3
  <2>5. Below(f, n) = used \cup D
    <3>1. ASSUME NEW i \in Below(f, n), i \notin D PROVE i \in used
      <4>1. i \in Nat /\ i < n /\ i \in Array!Index /\ f[i] # 0
        BY <1>0, <2>1 DEF Below
      <4>2. felements[i] # 0
        BY <3>1, <4>1
      <4>3. ASSUME i >= fsize PROVE FALSE
        <5>1. n = src.size /\ src.size > 0
          BY <1>0, <1>1, <4>1, <4>3
        <5>2. src.size - 1 \in D
          <6>1. src.size - 1 \in Array!Index
            BY <1>0, <1>1, <5>1
          <6>. QED
            BY <1>1, <5>1, <6>1
        <5>3. i # src.size - 1
          BY <3>1, <5>2
        <5>4. i \in fsize..((src.size - 1) - 1)
          BY <1>0, <1>1, <4>1, <4>3, <5>1, <5>3
        <5>. QED
          BY <1>2, <4>2, <5>2, <5>4
      <4>4. i \in 0..(a.size - 1)
        BY <1>0, <4>1, <4>3
      <4>. QED
        BY <1>0, <4>2, <4>4 DEF Below
    <3>2. ASSUME NEW i \in used PROVE i \in Below(f, n)
      <4>1. i \in Array!Index /\ i \in 0..(fsize - 1) /\ felements[i] # 0
        BY <1>0 DEF Below
      <4>2. f[i] # 0
        BY <1>1, <4>1
      <4>3. i \in 0..(n - 1)
        BY <1>0, <1>1, <4>1
      <4>. HIDE DEF f, n
      <4>. QED
        BY <4>2, <4>3 DEF Below
    <3>3. ASSUME NEW i \in D PROVE i \in Below(f, n)
      <4>1. i \in Array!Index /\ i < src.size /\ i \in Nat /\ m[i] # 0
        BY <1>0, <1>1
      <4>2. f[i] # 0
        BY <4>1
      <4>3. i \in 0..(n - 1)
        BY <1>0, <1>1, <4>1
      <4>. HIDE DEF f, n
      <4>. QED
        BY <4>2, <4>3 DEF Below
    <3>. HIDE DEF f, n, used, D
    <3>. QED
      BY <3>1, <3>2, <3>3
  <2>6. \A i \in used \cup D : f[i] = IF i \in D THEN m[i] ELSE Shown(a)[i]
    <3>1. \A i \in used : Shown(a)[i] = felements[i]
      BY <1>0 DEF Shown
    <3>. QED
      BY <1>0, <1>1, <3>1
  <2>. HIDE DEF f, n, used
  <2>7. Shown(sum) = both
    BY <2>3, <2>5, <2>6 DEF Shown
  <2>8. Sound(Array!invalidate(sum)) /\ Shown(Array!invalidate(sum)) = Shown(sum)
    BY <2>3, <2>4, Invalid
  <2>. QED
    BY <1>2, <1>3, <1>5, <2>7, <2>8, Done DEF sum
<1>. QED
  BY <1>4, <1>5

LEMMA ArrayJoins ==
    ASSUME Sound(Array!Now), NEW m \in Others, Array!_join(m)
    PROVE  Follows
<1>. DEFINE a == Array!Now
            src == Array!Copied(m)
            n == Count(src.at, src.size)
            s == [k \in 0..(Array!actual(src) - 1) |-> src.at[Array!nth(src, k)]]
            b == Array!appended(a, fsize, Array!actual(src), s)
            used == Below(a.at, a.size)
            more == Array!Map!Compact(m)
            put == {fsize + k : k \in 0..(n - 1)}
            both == [j \in used \cup put |-> IF j \in used THEN Shown(a)[j] ELSE more[j - fsize]]
<1>0. /\ a \in Arrays /\ a.at = felements /\ a.size = fsize /\ fsize \in Nat /\ (fsize > 0 => felements[fsize - 1] # 0)
      /\ MaxIndex \in Nat /\ used \subseteq Array!Index /\ used \subseteq 0..(fsize - 1)
      /\ \A j : j \in Array!Index <=> j \in Nat /\ j <= MaxIndex
  BY NowIs, ArrayFields DEF Sound
<1>1. src \in Arrays /\ Shown(src) = m /\ n \in Nat /\ Array!actual(src) = n
  BY CopiedIs, ArrayFields DEF Sound
<1>2. Array!Becomes(Array!invalidate(b)) /\ call' = Array!CallOf("join", m) /\ fsize + n <= MaxIndex + 1
  BY <1>1 DEF Array!_join, Array!Calls
<1>3. /\ more = [k \in 0..(n - 1) |-> src.at[Array!nth(src, k)]]
      /\ \A k \in 0..(n - 1) : s[k] \in Nat /\ s[k] # 0 /\ s[k] = more[k]
  <2>1. /\ Array!Map!Compact(Shown(src)) = [k \in 0..(n - 1) |-> src.at[Array!nth(src, k)]]
        /\ \A k \in 0..(n - 1) : src.at[Array!nth(src, k)] \in Nat /\ src.at[Array!nth(src, k)] # 0
    BY <1>1, CompactIs
  <2>2. s = [k \in 0..(n - 1) |-> src.at[Array!nth(src, k)]]
    BY <1>1
  <2>. HIDE DEF src, n, s
  <2>. QED
    BY <1>1, <2>1, <2>2
<1>4. /\ b \in Arrays /\ b.size = fsize + n
      /\ \A j \in Array!Index : j < fsize => b.at[j] = a.at[j]
      /\ \A k \in 0..(n - 1) : b.at[fsize + k] = s[k]
  <2>. HIDE DEF a, s, n, src
  <2>1. b = Array!appended(a, fsize, n, s)
    BY <1>1
  <2>2. \A k \in 0..(n - 1) : s[k] \in Nat
    BY <1>3
  <2>. HIDE DEF b
  <2>. QED
    BY <1>0, <1>1, <1>2, <2>1, <2>2, AppendedIs
<1>5. Array!Map!After(call', Shown(a)) = both
  <2>1. Array!Map!After(call', Shown(a)) = Together(Shown(a), more)
    BY <1>2, CallJoin
  <2>2. Array!Map!Used(Shown(a)) = used /\ Array!Map!End(Shown(a)) = fsize
    BY <1>0, Ends
  <2>3. Array!Map!Used(more) = 0..(n - 1)
    BY <1>3 DEF Array!Map!Used
  <2>. HIDE DEF more, n, used, a
  <2>. QED
    BY <2>1, <2>2, <2>3 DEF Together
<1>. HIDE DEF src, n, s, b, more
<1>6. b.size > 0 => b.at[b.size - 1] # 0
  <2>1. CASE n = 0
    <3>1. fsize > 0 => fsize - 1 \in Array!Index /\ fsize - 1 < fsize
      BY <1>0, <1>1, <1>2, <2>1
    <3>. QED
      BY <1>0, <1>4, <2>1, <3>1
  <2>2. CASE n > 0
    <3>1. n - 1 \in 0..(n - 1) /\ fsize + (n - 1) = b.size - 1
      BY <1>0, <1>1, <1>4, <2>2
    <3>. QED
      BY <1>3, <1>4, <3>1
  <2>. QED
    BY <1>1, <2>1, <2>2
<1>7. Below(b.at, b.size) = used \cup put
  <2>1. ASSUME NEW i \in Below(b.at, b.size) PROVE i \in used \cup put
    <3>1. i \in Nat /\ i < fsize + n /\ b.at[i] # 0
      BY <1>0, <1>1, <1>4 DEF Below
    <3>2. CASE i < fsize
      <4>1. i \in Array!Index /\ i \in 0..(fsize - 1)
        BY <1>0, <1>1, <1>2, <3>1, <3>2
      <4>. QED
        BY <1>0, <1>4, <3>1, <3>2, <4>1 DEF Below
    <3>3. CASE ~(i < fsize)
      <4>1. i - fsize \in 0..(n - 1) /\ i = fsize + (i - fsize)
        BY <1>0, <1>1, <3>1, <3>3
      <4>. HIDE DEF a
      <4>. QED
        BY <4>1
    <3>. QED
      BY <3>2, <3>3
  <2>2. ASSUME NEW i \in used PROVE i \in Below(b.at, b.size)
    <3>1. i \in Array!Index /\ i \in 0..(fsize - 1) /\ felements[i] # 0 /\ i < fsize
      BY <1>0 DEF Below
    <3>2. i \in 0..(b.size - 1) /\ b.at[i] # 0
      BY <1>0, <1>1, <1>4, <3>1
    <3>. QED
      BY <3>2 DEF Below
  <2>3. ASSUME NEW k \in 0..(n - 1) PROVE fsize + k \in Below(b.at, b.size)
    <3>1. fsize + k \in 0..(b.size - 1)
      BY <1>0, <1>1, <1>4
    <3>2. b.at[fsize + k] # 0
      BY <1>3, <1>4
    <3>. QED
      BY <3>1, <3>2 DEF Below
  <2>. HIDE DEF used
  <2>. QED
    BY <2>1, <2>2, <2>3
<1>8. \A j \in used \cup put : b.at[j] = IF j \in used THEN Shown(a)[j] ELSE more[j - fsize]
  <2>1. \A j \in used : Shown(a)[j] = felements[j] /\ j \in Array!Index /\ j < fsize
    BY <1>0 DEF Shown
  <2>2. ASSUME NEW k \in 0..(n - 1) PROVE fsize + k \notin used /\ (fsize + k) - fsize = k
    <3>1. fsize + k \notin 0..(fsize - 1) /\ (fsize + k) - fsize = k
      BY <1>0, <1>1
    <3>. QED
      BY <1>0, <3>1
  <2>. HIDE DEF used, a
  <2>3. ASSUME NEW k \in 0..(n - 1) PROVE b.at[fsize + k] = more[(fsize + k) - fsize]
    BY <1>3, <1>4, <2>2
  <2>. QED
    BY <1>0, <1>4, <2>1, <2>2, <2>3
<1>. HIDE DEF used, put, a
<1>9. Shown(b) = both
  BY <1>7, <1>8 DEF Shown
<1>10. Sound(Array!invalidate(b)) /\ Shown(Array!invalidate(b)) = Shown(b)
  BY <1>4, <1>6, Invalid
<1>. QED
  BY <1>2, <1>5, <1>9, <1>10, Done DEF a

LEMMA Queries ==
    ASSUME Unready = {}, Sound(Array!Now), NEW m \in Others, NEW sparse, Array!_sql(m, sparse)
    PROVE  Follows
<1>. DEFINE a == Array!Now
            src == Array!Copied(m)
            D == DOMAIN m
            empty == IF fsize > 0 THEN Array!invalidate(Array!clear_all(a)) ELSE a
            f == [i \in Array!Index |-> IF i \in D THEN m[i] ELSE empty.at[i]]
            c == [empty EXCEPT !.at = f, !.size = src.size]
            b == Array!confirm_all_used(c)
<1>0. a \in Arrays
  BY NowIs
<1>1. /\ src \in Arrays /\ D \subseteq Array!Index /\ Below(src.at, src.size) = D /\ Shown(src) = m
      /\ \A i \in D : m[i] \in Nat /\ m[i] # 0
      /\ \A i \in Array!Index : src.at[i] = IF i \in D THEN m[i] ELSE 0
      /\ src.size \in 0..(MaxIndex + 1) /\ src.size \in Nat /\ Array!actual(src) = Count(src.at, src.size)
  BY CopiedIs, ArrayFields DEF Sound
<1>2. Array!Becomes(b) /\ call' = Array!CallOf("query", m) /\ Array!actual(src) = src.size
  BY DEF Array!_sql, Array!Calls
<1>3. empty \in Arrays
  <2>1. Array!clear_all(a) \in Arrays /\ 0 \in Nat
    BY <1>0, Cleared
  <2>. QED
    BY <1>0, <2>1, FusedIs DEF Array!invalidate
<1>4. f \in [Array!Index -> Nat]
  <2>1. empty.at \in [Array!Index -> Nat]
    BY <1>3, ArrayFields
  <2>. HIDE DEF empty
  <2>. QED
    BY <1>1, <2>1
<1>5. c \in Arrays /\ c.at = f /\ c.size = src.size
  <2>1. c = ArrayMade(empty, f, src.size)
    BY DEF ArrayMade
  <2>. HIDE DEF c, empty, f, src
  <2>. QED
    BY <1>1, <1>3, <1>4, <2>1, Remade
<1>6. D = 0..(src.size - 1)
  <2>1. \A i \in 0..(src.size - 1) : src.at[i] # 0
    <3>1. src.size \in Nat /\ src.size <= src.size /\ Count(src.at, src.size) = src.size
      BY <1>1, <1>2
    <3>. QED
      BY <3>1, Counted
  <2>2. Below(src.at, src.size) = 0..(src.size - 1)
    BY <2>1 DEF Below
  <2>. HIDE DEF src, D
  <2>. QED
    BY <1>1, <2>2
<1>7. \A i \in D : f[i] = m[i]
  BY <1>1
<1>. HIDE DEF empty, f, c, a
<1>8. \A i \in 0..(c.size - 1) : c.at[i] # 0
  BY <1>1, <1>5, <1>6, <1>7
<1>9. Sound(b) /\ Shown(b) = Shown(c) /\ Shown(c) = [i \in 0..(c.size - 1) |-> c.at[i]]
  BY <1>5, <1>8, Confirmed
<1>10. Shown(src) = [i \in 0..(src.size - 1) |-> m[i]]
  <2>1. Shown(src) = [i \in D |-> src.at[i]]
    BY <1>1 DEF Shown
  <2>2. \A i \in D : src.at[i] = m[i]
    BY <1>1
  <2>. QED
    BY <1>6, <2>1, <2>2
<1>11. Shown(c) = m
  <2>1. Shown(c) = [i \in 0..(src.size - 1) |-> m[i]]
    BY <1>5, <1>6, <1>7, <1>9
  <2>. QED
    BY <1>1, <1>10, <2>1
<1>12. Array!Map!After(call', Shown(a)) = m
  BY <1>2, CallQuery
<1>. HIDE DEF b, src
<1>. QED
  BY <1>2, <1>9, <1>11, <1>12, Done DEF a

\* at() and set()
LEMMA Finds ==
    ASSUME Sound(Array!Now)
    PROVE  Array!AtFinds
<1>. DEFINE a == Array!Now
            c == Count(felements, fsize)
<1>0. /\ a \in Arrays /\ a.at = felements /\ a.size = fsize /\ Array!actual(a) = c /\ Array!used(a) = c
      /\ fsize \in Nat /\ c \in Nat /\ c <= fsize /\ (fsize > 0 => felements[fsize - 1] # 0)
  BY NowIs DEF Sound
<1>1. ASSUME NEW pos \in 0..(c - 1) PROVE Array!at(pos) = Array!nth(a, pos)
  <2>0. /\ \A i \in Below(felements, fsize) : Count(felements, i) = pos => i = Array!nth(a, pos)
        /\ pos \in Nat /\ pos < fsize
    BY <1>0, NthIs
  <2>1. CASE c = fsize
    <3>1. \A j \in 0..(fsize - 1) : felements[j] # 0
      BY <1>0, <2>1, Counted
    <3>2. Count(felements, pos) = pos
      <4>1. \A j \in 0..(pos - 1) : felements[j] # 0
        BY <1>0, <2>0, <3>1
      <4>. QED
        BY <2>0, <4>1, Counted
    <3>3. pos \in Below(felements, fsize)
      BY <1>0, <2>0, <3>1 DEF Below
    <3>4. Array!at(pos) = pos
      BY <1>0, <2>1 DEF Array!at
    <3>. QED
      BY <2>0, <3>2, <3>3, <3>4
  <2>2. CASE c # fsize /\ pos = c - 1
    <3>1. Array!at(pos) = fsize - 1
      BY <1>0, <2>2 DEF Array!at
    <3>2. fsize - 1 \in Nat /\ (fsize - 1) + 1 = fsize /\ felements[fsize - 1] # 0
      BY <1>0, <2>0
    <3>3. Count(felements, fsize) = Count(felements, fsize - 1) + 1 /\ Count(felements, fsize - 1) \in Nat
      BY <3>2, Counts
    <3>4. fsize - 1 \in Below(felements, fsize)
      BY <1>0, <3>2 DEF Below
    <3>5. Count(felements, fsize - 1) = pos
      BY <2>2, <3>3
    <3>. QED
      BY <2>0, <3>1, <3>4, <3>5
  <2>3. CASE c # fsize /\ pos # c - 1
    BY <1>0, <2>3 DEF Array!at
  <2>. QED
    BY <2>1, <2>2, <2>3
<1>. HIDE DEF c
<1>. QED
  BY <1>0, <1>1 DEF Array!AtFinds

LEMMA Sets ==
    ASSUME Sound(Array!Now), NEW pos \in Array!Index, NEW e \in Element, Array!_set(pos, e)
    PROVE  Follows
<1>. DEFINE a == Array!Now
            c == Count(felements, fsize)
            p == Array!nth(a, pos)
            put == Array!put(a, p, e)
            b == [put EXCEPT !.fused = c]
            m == Shown(a)
<1>0. /\ a \in Arrays /\ a.at = felements /\ a.size = fsize /\ Array!used(a) = c
      /\ fsize \in Nat /\ c \in Nat /\ c <= fsize
  BY NowIs
<1>1. pos \in 0..(c - 1) /\ call' = Array!CallWith("set", pos, e) /\ fused' = c /\ fsize' = fsize
  BY <1>0 DEF Array!_set, Array!Calls, Array!Index
<1>2. /\ p \in Below(felements, fsize) /\ Count(felements, p) = pos
      /\ \A i \in Below(felements, fsize) : Count(felements, i) = pos => i = p
  BY <1>0, <1>1, NthIs
<1>3. p \in Array!Index /\ p \in Nat /\ p < fsize /\ felements[p] # 0
  BY <1>0, <1>2, ArrayFields DEF Below
<1>4. felements' = [felements EXCEPT ![p] = e]
  <2>1. Array!at(pos) = p
    BY <1>0, <1>1, Finds DEF Array!AtFinds
  <2>. QED
    BY <2>1 DEF Array!_set, Array!at
<1>5. /\ put \in Arrays /\ put.at[put.size - 1] # 0 /\ put.size > 0
      /\ Shown(put) = Array!Map!Put(m, p, e)
  <2>1. \A j \in a.size..(p - 1) : a.at[j] = 0
    BY <1>0, <1>3
  <2>. HIDE DEF p, a, put
  <2>. QED
    BY <1>3, <2>1, PutIs DEF a, put
<1>6. put.at = [felements EXCEPT ![p] = e] /\ put.size = fsize
  <2>. HIDE DEF p
  <2>. QED
    BY <1>0, <1>3 DEF Array!put, Arrays
<1>7. Below(put.at, put.size) = Below(felements, fsize)
  <2>1. a.at \in [Array!Index -> Nat] /\ e # 0 /\ Below(a.at, a.size) \subseteq Array!Index /\ Element \subseteq Nat
        /\ \A i \in 0..(fsize - 1) : i \in Array!Index
    BY <1>0, ArrayFields, ArrayConstants DEF Array!ConstantsOK
  <2>. HIDE DEF p, put, a
  <2>2. \A i \in 0..(fsize - 1) : put.at[i] # 0 <=> felements[i] # 0
    BY <1>0, <1>3, <1>6, <2>1
  <2>. QED
    BY <1>0, <1>6, <2>2 DEF Below
<1>8. b \in Arrays /\ b.at = put.at /\ b.size = put.size /\ b.fused = c /\ Shown(b) = Shown(put)
  <2>. HIDE DEF put, c
  <2>. QED
    BY <1>0, <1>5, FusedIs
<1>. HIDE DEF put, p, b
<1>9. Array!Becomes(b)
  BY <1>1, <1>4, <1>6, <1>8 DEF Array!Becomes
<1>10. Sound(b)
  BY <1>5, <1>7, <1>8 DEF Sound, Count
<1>11. Array!Map!After(call', m) = Array!Map!Put(m, p, e)
  <2>1. Array!Map!After(call', m) = Array!Map!Put(m, CHOOSE j \in Array!Map!Used(m) : Array!Map!Rank(m, j) = pos, e)
    <3>. HIDE DEF m
    <3>. QED
      BY <1>1, CallSet
  <2>2. /\ Array!Map!Used(m) = Below(felements, fsize)
        /\ \A i \in Below(felements, fsize) : Array!Map!Rank(m, i) = Count(felements, i)
    BY <1>0, Ends
  <2>. HIDE DEF m
  <2>3. (CHOOSE j \in Array!Map!Used(m) : Array!Map!Rank(m, j) = pos) = p
    BY <1>2, <2>2
  <2>. QED
    BY <2>1, <2>3
<1>. QED
  BY <1>5, <1>8, <1>9, <1>10, <1>11, Done

\* In a total order no two have the same place
LEMMA OneEach ==
    ASSUME NEW S, IsFiniteSet(S), NEW R, IsOrder(R, S), NEW i \in S, NEW j \in S,
           Cardinality(Before(R, S, i)) = Cardinality(Before(R, S, j))
    PROVE  i = j
<1>1. ASSUME NEW x \in S, NEW y \in S, <<x, y>> \in R, Cardinality(Before(R, S, x)) = Cardinality(Before(R, S, y))
      PROVE  FALSE
  <2>1. Before(R, S, x) \subseteq Before(R, S, y) /\ x \in Before(R, S, y) /\ x \notin Before(R, S, x)
    BY <1>1 DEF Before, IsOrder
  <2>2. IsFiniteSet(Before(R, S, y))
    BY FS_Subset DEF Before
  <2>. QED
    BY <1>1, <2>1, <2>2, FS_Subset
<1>. QED
  BY <1>1 DEF IsOrder

\* Elements are sorted by their orders as they are by their indices
ByOrder(a, x, y) ==
    LET of(n) == a.at[Array!nth(a, n)] IN of(x) < of(y) \/ (of(x) = of(y) /\ x < y)
ByIndex(m, i, j) == m[i] < m[j] \/ (m[i] = m[j] /\ i < j)

LEMMA Ranked ==
    ASSUME NEW a \in Arrays, NEW x \in 0..(Count(a.at, a.size) - 1)
    PROVE  LET c == Count(a.at, a.size)
               used == Below(a.at, a.size)
               D == {l \in 0..(c - 1) : ByOrder(a, l, x)}
               U == {i \in used : ByIndex(Shown(a), i, Array!nth(a, x))}
           IN  Cardinality(D) = Cardinality(U) /\ Cardinality(D) \in Nat
<1>. DEFINE c == Count(a.at, a.size)
            used == Below(a.at, a.size)
            g(n) == Array!nth(a, n)
            D == {l \in 0..(c - 1) : ByOrder(a, l, x)}
            U == {i \in used : ByIndex(Shown(a), i, g(x))}
            f == [l \in D |-> g(l)]
<1>0. c \in Nat /\ used \subseteq Nat /\ \A i \in used : a.at[i] # 0 /\ Count(a.at, i) \in 0..(c - 1)
  <2>1. c \in Nat /\ a.size \in Nat
    BY ArrayFields
  <2>2. ASSUME NEW i \in used PROVE i \in Nat /\ a.at[i] # 0 /\ Count(a.at, i) \in 0..(c - 1)
    <3>1. i \in Nat /\ i < a.size /\ a.at[i] # 0
      BY <2>1 DEF Below
    <3>. QED
      BY <2>1, <3>1, Counts, Counted
  <2>. QED
    BY <2>1, <2>2
<1>1. \A n \in 0..(c - 1) : g(n) \in used /\ Count(a.at, g(n)) = n /\ \A i \in used : Count(a.at, i) = n => i = g(n)
  BY NthIs
<1>. HIDE DEF g
<1>2. \A n \in 0..(c - 1), k \in 0..(c - 1) : n < k => g(n) < g(k)
  <2>1. ASSUME NEW n \in 0..(c - 1), NEW k \in 0..(c - 1), n < k, g(k) <= g(n) PROVE FALSE
    <3>1. g(n) \in Nat /\ g(k) \in Nat
      BY <1>0, <1>1
    <3>2. Count(a.at, g(k)) <= Count(a.at, g(n))
      BY <2>1, <3>1, Counted
    <3>. QED
      BY <1>1, <2>1, <3>2
  <2>2. ASSUME NEW n \in 0..(c - 1), NEW k \in 0..(c - 1), n < k PROVE g(n) < g(k)
    <3>1. g(n) \in Nat /\ g(k) \in Nat
      BY <1>0, <1>1
    <3>. QED
      BY <2>1, <2>2, <3>1
  <2>. QED
    BY <2>2
<1>3. \A n \in 0..(c - 1), k \in 0..(c - 1) : ByOrder(a, n, k) <=> ByIndex(Shown(a), g(n), g(k))
  <2>1. ASSUME NEW n \in 0..(c - 1), NEW k \in 0..(c - 1) PROVE n < k <=> g(n) < g(k)
    <3>1. g(n) \in Nat /\ g(k) \in Nat
      BY <1>0, <1>1
    <3>. HIDE DEF c
    <3>2. n < k \/ n = k \/ k < n
      BY <1>0
    <3>. QED
      BY <1>0, <1>2, <3>1, <3>2
  <2>2. \A n \in 0..(c - 1) : Shown(a)[g(n)] = a.at[g(n)]
    BY <1>1 DEF Shown
  <2>3. ASSUME NEW n \in 0..(c - 1), NEW k \in 0..(c - 1)
        PROVE  ByOrder(a, n, k) <=> ByIndex(Shown(a), g(n), g(k))
    <3>1. ByOrder(a, n, k) <=> a.at[g(n)] < a.at[g(k)] \/ (a.at[g(n)] = a.at[g(k)] /\ n < k)
      BY DEF ByOrder, g
    <3>2. ByIndex(Shown(a), g(n), g(k)) <=> a.at[g(n)] < a.at[g(k)] \/ (a.at[g(n)] = a.at[g(k)] /\ g(n) < g(k))
      BY <2>2 DEF ByIndex
    <3>. QED
      BY <2>1, <3>1, <3>2
  <2>. QED
    BY <2>3
<1>4. f \in [D -> U]
  BY <1>1, <1>3
<1>5. \A l, k \in D : f[l] = f[k] => l = k
  BY <1>1
<1>6. \A i \in U : \E l \in D : f[l] = i
  <2>1. ASSUME NEW i \in U PROVE \E l \in D : f[l] = i
    <3>1. Count(a.at, i) \in 0..(c - 1) /\ i \in used
      BY <1>0
    <3>2. i = g(Count(a.at, i))
      BY <1>1, <3>1
    <3>3. Count(a.at, i) \in D
      BY <1>3, <3>1, <3>2
    <3>. QED
      BY <3>2, <3>3
  <2>. QED
    BY <2>1
<1>7. f \in Bijection(D, U)
  <2>. HIDE DEF f, D, U
  <2>. QED
    BY <1>4, <1>5, <1>6 DEF Bijection, Injection, Surjection, IsInjective
<1>8. IsFiniteSet(D)
  <2>1. 0 \in Int /\ c - 1 \in Int
    BY <1>0
  <2>2. IsFiniteSet(0..(c - 1))
    BY <2>1, FS_Interval
  <2>. QED
    BY <2>2, FS_Subset
<1>. HIDE DEF D, U, f
<1>9. Cardinality(D) = Cardinality(U) /\ Cardinality(D) \in Nat
  BY <1>7, <1>8, FS_Bijection, FS_CardinalityType DEF ExistsBijection
<1>. QED
  BY <1>9 DEF D, U, g
-----------------------------------------------------------------------------
\* The order of an element among those before it in the sorted order
ByOrders(a) == LET D == 0..(Count(a.at, a.size) - 1) IN {p \in D \X D : ByOrder(a, p[1], p[2])}
OrdersBefore(a, x) == {l \in 0..(Count(a.at, a.size) - 1) : ByOrder(a, l, x)}
ByRank(a, n) == CHOOSE x \in 0..(Count(a.at, a.size) - 1) : Cardinality(OrdersBefore(a, x)) = n

LEMMA SortedOnce ==
    ASSUME NEW a \in Arrays, NEW n \in 0..(Count(a.at, a.size) - 1)
    PROVE  /\ ByRank(a, n) \in 0..(Count(a.at, a.size) - 1)
           /\ Cardinality(OrdersBefore(a, ByRank(a, n))) = n
           /\ \A x \in 0..(Count(a.at, a.size) - 1) : Cardinality(OrdersBefore(a, x)) = n => x = ByRank(a, n)
<1>. DEFINE c == Count(a.at, a.size)
            D == 0..(c - 1)
            R == ByOrders(a)
            of(k) == a.at[Array!nth(a, k)]
<1>0. c \in Nat /\ \A k \in D : of(k) \in Nat
  BY CompactIs, ArrayFields
<1>1. IsFiniteSet(D) /\ Cardinality(D) = c
  <2>1. 0 \in Int /\ c - 1 \in Int
    BY <1>0
  <2>2. IsFiniteSet(D) /\ Cardinality(D) = IF 0 > c - 1 THEN 0 ELSE (c - 1) - 0 + 1
    BY <2>1, FS_Interval
  <2>. QED
    BY <1>0, <2>2
<1>2. \A x, y \in D : <<x, y>> \in R <=> of(x) < of(y) \/ (of(x) = of(y) /\ x < y)
  BY DEF ByOrders, ByOrder
<1>3. \A x \in D : Before(R, D, x) = OrdersBefore(a, x)
  BY DEF ByOrders, Before, OrdersBefore
<1>. HIDE DEF R, of
<1>4. IsOrder(R, D)
  <2>. HIDE DEF c
  <2>. QED
    BY <1>0, <1>2 DEF IsOrder
<1>5. n + 1 \in 1..Cardinality(D) /\ (n + 1) - 1 = n
  BY <1>0, <1>1
<1>. HIDE DEF D
<1>6. \E x \in D : Cardinality(Before(R, D, x)) = n
  BY <1>1, <1>4, <1>5, Places
<1>7. PICK x \in D : Cardinality(OrdersBefore(a, x)) = n
  BY <1>3, <1>6
<1>8. ByRank(a, n) \in D /\ Cardinality(OrdersBefore(a, ByRank(a, n))) = n
  BY <1>7 DEF ByRank, D
<1>9. ASSUME NEW y \in D, Cardinality(OrdersBefore(a, y)) = n PROVE y = ByRank(a, n)
  BY <1>1, <1>3, <1>4, <1>8, <1>9, OneEach
<1>. QED
  BY <1>8, <1>9 DEF D

LEMMA SortedIs ==
    ASSUME NEW a \in Arrays, NEW desc \in BOOLEAN
    PROVE  LET c == Count(a.at, a.size)
           IN  Array!Map!Sorted(Shown(a), desc)
                 = [n \in 0..(c - 1) |-> a.at[Array!nth(a, ByRank(a, IF desc THEN c - 1 - n ELSE n))]]
<1>. DEFINE c == Count(a.at, a.size)
            used == Below(a.at, a.size)
            m == Shown(a)
            U(j) == {i \in used : ByIndex(m, i, j)}
            place(j) == IF desc THEN c - 1 - Cardinality(U(j)) ELSE Cardinality(U(j))
            spot(j) == LET n == Array!Map!Cardinality({i \in Array!Map!Used(m) : m[i] < m[j] \/ (m[i] = m[j] /\ i < j)})
                       IN  IF desc THEN Array!Map!Cardinality(Array!Map!Used(m)) - 1 - n ELSE n
            k(n) == IF desc THEN c - 1 - n ELSE n
            g(n) == Array!nth(a, n)
<1>0. c \in Nat /\ \A j \in used : Count(a.at, j) \in 0..(c - 1)
  <2>1. c \in Nat /\ a.size \in Nat
    BY ArrayFields
  <2>2. ASSUME NEW i \in used PROVE Count(a.at, i) \in 0..(c - 1)
    <3>1. i \in Nat /\ i < a.size /\ a.at[i] # 0
      BY <2>1 DEF Below
    <3>. QED
      BY <2>1, <3>1, Counts, Counted
  <2>. QED
    BY <2>1, <2>2
<1>1. Array!Map!Used(m) = used /\ Array!Map!Cardinality(used) = c /\ \A i \in used : m[i] = a.at[i]
  BY OneCardinality DEF Array!Map!Used, Shown, Count
<1>2. Array!Map!Sorted(m, desc) = [n \in 0..(Array!Map!Cardinality(Array!Map!Used(m)) - 1) |-> m[CHOOSE j \in Array!Map!Used(m) : spot(j) = n]]
  <2>. HIDE DEF m
  <2>. QED
    BY DEF Array!Map!Sorted
<1>7. \A j : spot(j) = place(j)
  <2>1. \A j : {i \in Array!Map!Used(m) : m[i] < m[j] \/ (m[i] = m[j] /\ i < j)} = U(j)
    <3>. HIDE DEF m, used
    <3>. QED
      BY <1>1 DEF ByIndex
  <2>. HIDE DEF m, used, c, U
  <2>. QED
    BY <1>1, <2>1, OneCardinality
<1>3. \A x \in 0..(c - 1) : g(x) \in used /\ \A i \in used : Count(a.at, i) = x => i = g(x)
  BY NthIs
<1>4. \A x \in 0..(c - 1) : Cardinality(U(g(x))) = Cardinality(OrdersBefore(a, x)) /\ Cardinality(U(g(x))) \in Nat
  BY Ranked DEF OrdersBefore
<1>5. \A n \in 0..(c - 1) : k(n) \in 0..(c - 1)
  BY <1>0
<1>6. ASSUME NEW n \in 0..(c - 1) PROVE m[CHOOSE j \in used : spot(j) = n] = a.at[g(ByRank(a, k(n)))]
  <2>1. /\ ByRank(a, k(n)) \in 0..(c - 1) /\ Cardinality(OrdersBefore(a, ByRank(a, k(n)))) = k(n)
        /\ \A x \in 0..(c - 1) : Cardinality(OrdersBefore(a, x)) = k(n) => x = ByRank(a, k(n))
    <3>1. k(n) \in 0..(c - 1)
      BY <1>5
    <3>. HIDE DEF k
    <3>. QED
      BY <3>1, SortedOnce
  <2>2. g(ByRank(a, k(n))) \in used /\ Cardinality(U(g(ByRank(a, k(n))))) = k(n)
    <3>. HIDE DEF g, U, k, used
    <3>. QED
      BY <1>3, <1>4, <2>1
  <2>3. place(g(ByRank(a, k(n)))) = n
    <3>. HIDE DEF g, U
    <3>. QED
      BY <1>0, <2>2
  <2>4. ASSUME NEW j \in used, place(j) = n PROVE j = g(ByRank(a, k(n)))
    <3>1. Count(a.at, j) \in 0..(c - 1) /\ j = g(Count(a.at, j))
      BY <1>0, <1>3
    <3>. DEFINE x == Count(a.at, j)
    <3>. HIDE DEF g, U, used, x
    <3>2. Cardinality(U(j)) = Cardinality(OrdersBefore(a, x)) /\ Cardinality(U(j)) \in Nat
      BY <1>4, <3>1 DEF x
    <3>3. Cardinality(U(j)) = k(n)
      BY <1>0, <2>4, <3>2
    <3>. QED
      BY <2>1, <3>1, <3>2, <3>3 DEF x
  <2>. HIDE DEF g, U, place, used, k, m, spot
  <2>5. (CHOOSE j \in used : spot(j) = n) = g(ByRank(a, k(n)))
    BY <1>7, <2>2, <2>3, <2>4
  <2>. QED
    BY <1>1, <2>2, <2>5
<1>. HIDE DEF m, used, spot
<1>. QED
  BY <1>1, <1>2, <1>6 DEF m

LEMMA ArraySorts ==
    ASSUME Sound(Array!Now), NEW desc \in BOOLEAN, Array!sort(desc)
    PROVE  Follows
<1>. DEFINE a == Array!Now
            c == Count(a.at, a.size)
            e == Array!clear_all(a)
            k(n) == IF desc THEN c - 1 - n ELSE n
            r == [n \in 0..(c - 1) |-> a.at[Array!nth(a, ByRank(a, n))]]
            s == [n \in 0..(c - 1) |-> IF desc THEN r[c - 1 - n] ELSE r[n]]
            b == Array!confirm_all_used(Array!appended(e, 0, c, s))
            i == IF desc THEN 1 ELSE 0
<1>0. a \in Arrays /\ a.at = felements /\ Array!used(a) = c /\ c \in Nat /\ c <= MaxIndex + 1
  BY NowIs
<1>1. call' = Array!CallWith("sort", i, 0)
  BY DEF Array!sort, Array!Calls
<1>2. Array!Becomes(b)
  <2>. DEFINE of(y) == felements[Array!nth(a, y)]
              P(n, x) == Array!Cardinality({l \in 0..(c - 1) : of(l) < of(x) \/ (of(l) = of(x) /\ l < x)}) = n
              chosen(n) == CHOOSE x \in 0..(c - 1) : P(n, x)
              seq == [n \in 0..(c - 1) |-> of(chosen(n))]
  <2>1. \A n, x : P(n, x) <=> Cardinality(OrdersBefore(a, x)) = n
    BY <1>0, OneCardinality DEF OrdersBefore, ByOrder
  <2>2. ASSUME NEW n \in 0..(c - 1) PROVE chosen(n) = ByRank(a, n)
    <3>1. /\ ByRank(a, n) \in 0..(c - 1) /\ Cardinality(OrdersBefore(a, ByRank(a, n))) = n
          /\ \A x \in 0..(c - 1) : Cardinality(OrdersBefore(a, x)) = n => x = ByRank(a, n)
      BY <1>0, SortedOnce
    <3>. HIDE DEF P, c, a
    <3>. QED
      BY <2>1, <3>1
  <2>3. seq = r
    <3>1. \A y : of(y) = a.at[Array!nth(a, y)]
      BY <1>0
    <3>. HIDE DEF P, c, of, a, chosen
    <3>. QED
      BY <2>2, <3>1
  <2>4. Array!Becomes(Array!confirm_all_used(Array!appended(e, 0, Array!used(a),
            [n \in 0..(Array!used(a) - 1) |-> IF desc THEN [x \in 0..(Array!used(a) - 1) |-> of(CHOOSE y \in 0..(Array!used(a) - 1) : Array!Cardinality({l \in 0..(Array!used(a) - 1) : of(l) < of(y) \/ (of(l) = of(y) /\ l < y)}) = x)][Array!used(a) - 1 - n] ELSE [x \in 0..(Array!used(a) - 1) |-> of(CHOOSE y \in 0..(Array!used(a) - 1) : Array!Cardinality({l \in 0..(Array!used(a) - 1) : of(l) < of(y) \/ (of(l) = of(y) /\ l < y)}) = x)][n]])))
    BY DEF Array!sort
  <2>5. Array!Becomes(Array!confirm_all_used(Array!appended(e, 0, c, [n \in 0..(c - 1) |-> IF desc THEN seq[c - 1 - n] ELSE seq[n]])))
    BY <1>0, <2>4
  <2>. HIDE DEF seq, r, e, c
  <2>. QED
    BY <2>3, <2>5
<1>3. \A n \in 0..(c - 1) : k(n) \in 0..(c - 1) /\ s[n] = a.at[Array!nth(a, ByRank(a, k(n)))]
  BY <1>0
<1>4. \A n \in 0..(c - 1) : s[n] \in Nat /\ s[n] # 0
  <2>1. ASSUME NEW n \in 0..(c - 1) PROVE s[n] \in Nat /\ s[n] # 0
    <3>1. k(n) \in 0..(c - 1) /\ s[n] = a.at[Array!nth(a, ByRank(a, k(n)))]
      BY <1>3
    <3>. HIDE DEF s, k, a
    <3>2. ByRank(a, k(n)) \in 0..(c - 1)
      BY <1>0, <3>1, SortedOnce
    <3>. QED
      BY <1>0, <3>1, <3>2, CompactIs
  <2>. HIDE DEF s
  <2>. QED
    BY <2>1
<1>5. e \in Arrays
  BY <1>0, Cleared
<1>6. Array!Map!Sorted(Shown(a), desc) = [n \in 0..(c - 1) |-> s[n]]
  <2>1. Array!Map!Sorted(Shown(a), desc) = [n \in 0..(c - 1) |-> a.at[Array!nth(a, ByRank(a, k(n)))]]
    <3>. HIDE DEF a
    <3>. QED
      BY <1>0, SortedIs
  <2>. HIDE DEF s, k, a
  <2>. QED
    BY <1>3, <2>1
<1>. HIDE DEF a, b, c, s, r, e, k
<1>7. Array!Map!After(call', Shown(a)) = Array!Map!Sorted(Shown(a), desc)
  <2>1. Array!Map!After(call', Shown(a)) = Array!Map!Sorted(Shown(a), i = 1)
    <3>. HIDE DEF i
    <3>. QED
      BY <1>1, CallSort
  <2>2. (i = 1) = desc
    OBVIOUS
  <2>. QED
    BY <2>1, <2>2
<1>8. Sound(b) /\ Shown(b) = [n \in 0..(c - 1) |-> s[n]]
  BY <1>0, <1>4, <1>5, FromStart DEF b
<1>. QED
  BY <1>2, <1>6, <1>7, <1>8, Done DEF a
-----------------------------------------------------------------------------
\* What a cycle has yet to visit is there, and ahead of it
WalksOn == [way : {"none", "on", "back"}, findex : Nat, due : SUBSET Nat]
Walked ==
    /\ walk \in WalksOn
    /\ walk.way = "on" => walk.due \subseteq DOMAIN Array!Elements /\ \A i \in walk.due : i > walk.findex
ArrayInv == Sound(Array!Now) /\ Walked

\* Steps that leave the elements and the call alone
Still == /\ Sound(Array!Now)' /\ Array!Elements' = Array!Elements /\ call' = call

LEMMA Stays ==
    ASSUME Sound(Array!Now), UNCHANGED <<felements, fsize, fused, call>>
    PROVE  Still
  BY DEF Still, Sound, Arrays, Count, Below, Array!Index, Array!Now, Array!Elements, Array!NULL

LEMMA CountsOnce ==
    ASSUME Sound(Array!Now), Array!_count
    PROVE  Still
<1>. DEFINE c == Count(felements, fsize)
            b == [Array!Now EXCEPT !.fused = c]
<1>1. /\ Array!Now \in Arrays /\ Array!Now.at = felements /\ Array!Now.size = fsize
      /\ Array!used(Array!Now) = c /\ c \in Nat
  BY NowIs
<1>2. /\ b \in Arrays /\ b.at = felements /\ b.size = fsize /\ b.fused = c /\ Shown(b) = Shown(Array!Now)
  <2>. HIDE DEF c
  <2>. QED
    BY <1>1, FusedIs
<1>3. Array!Becomes(b) /\ call' = call
  <2>. HIDE DEF b, c
  <2>. QED
    BY <1>1, <1>2 DEF Array!_count, Array!Becomes
<1>4. Sound(b)
  <2>. HIDE DEF b
  <2>. QED
    BY <1>1, <1>2 DEF Sound
<1>. HIDE DEF b
<1>5. Array!Now' = b /\ Array!Elements' = Shown(b)
  BY <1>2, <1>3, Became
<1>6. Sound(Array!Now)' <=> Sound(Array!Now')
  BY DEF Sound, Arrays, Count, Below, Array!Index
<1>. QED
  BY <1>2, <1>3, <1>4, <1>5, <1>6, ShownNow DEF Still

\* A call, by itself
Called ==
    \/ \E i \in Array!Index : \E e \in Element : Array!put_element(i, e) \/ Array!insert_(i, e) \/ Array!_set(i, e)
    \/ \E e \in Element : Array!append(e)
    \/ \E i \in Array!Index : Array!delete(i) \/ Array!remove_(i)
    \/ Array!delete_all \/ Array!pop_ \/ Array!compact_ \/ Array!reverse
    \/ \E desc \in BOOLEAN : Array!sort(desc)
    \/ \E o, l \in 0..2 : Array!mid(o, l)
    \/ \E m \in Others : Array!_copy_or_add(m) \/ Array!_join(m) \/ \E sparse \in BOOLEAN : Array!_sql(m, sparse)
CycleStep == (\E way \in {"on", "back"} : Array!foreach(way)) \/ Array!step \/ \E break \in BOOLEAN : Array!over(break)

LEMMA ArraySteps == Array!Next <=> Called \/ Array!_count \/ CycleStep
  BY DEF Array!Next, Called, CycleStep

LEMMA CallsFollow ==
    ASSUME Unready = {}, Sound(Array!Now), Called
    PROVE  Follows
<1>1. ASSUME NEW i \in Array!Index, NEW e \in Element, Array!put_element(i, e) PROVE Follows
  BY <1>1, ArrayPuts
<1>2. ASSUME NEW i \in Array!Index, NEW e \in Element, Array!insert_(i, e) PROVE Follows
  BY <1>2, InsertsOne
<1>3. ASSUME NEW i \in Array!Index, NEW e \in Element, Array!_set(i, e) PROVE Follows
  BY <1>3, Sets
<1>4. ASSUME NEW e \in Element, Array!append(e) PROVE Follows
  BY <1>4, AppendsOne
<1>5. ASSUME NEW i \in Array!Index, Array!delete(i) PROVE Follows
  BY <1>5, DeletesOne
<1>6. ASSUME NEW i \in Array!Index, Array!remove_(i) PROVE Follows
  BY <1>6, RemovesOne
<1>7. ASSUME NEW desc \in BOOLEAN, Array!sort(desc) PROVE Follows
  BY <1>7, ArraySorts
<1>8. ASSUME NEW o \in 0..2, NEW l \in 0..2, Array!mid(o, l) PROVE Follows
  BY <1>8, Middles
<1>9. ASSUME NEW m \in Others, Array!_copy_or_add(m) PROVE Follows
  BY <1>9, Adds
<1>10. ASSUME NEW m \in Others, Array!_join(m) PROVE Follows
  BY <1>10, ArrayJoins
<1>11. ASSUME NEW m \in Others, NEW sparse \in BOOLEAN, Array!_sql(m, sparse) PROVE Follows
  BY <1>11, Queries
<1>12. ASSUME Array!delete_all \/ Array!pop_ \/ Array!compact_ \/ Array!reverse PROVE Follows
  BY <1>12, DeletesAll, Pops, Compacts, Reverses
<1>. QED
  BY <1>1, <1>2, <1>3, <1>4, <1>5, <1>6, <1>7, <1>8, <1>9, <1>10, <1>11, <1>12 DEF Called

\* The array is in order again, and its elements are what the call says
LEMMA ArrayFollows ==
    ASSUME Unready = {}, Sound(Array!Now), Array!Next
    PROVE  Sound(Array!Now)' /\ Array!MapStep
<1>1. CASE Called
  BY <1>1, CallsFollow DEF Follows, Array!MapStep, Array!Map!Next
<1>2. CASE Array!_count
  BY <1>2, CountsOnce DEF Still, Array!MapStep
<1>3. CASE CycleStep
  <2>1. UNCHANGED <<felements, fsize, fused, call>>
    BY <1>3 DEF CycleStep, Array!foreach, Array!step, Array!over, Array!array
  <2>. QED
    BY <2>1, Stays DEF Still, Array!MapStep
<1>. QED
  BY <1>1, <1>2, <1>3, ArraySteps

LEMMA WalkedStep ==
    ASSUME Unready = {}, Sound(Array!Now), Walked, Array!Next
    PROVE  Walked'
<1>. DEFINE m == Array!Elements
<1>0. fsize \in Nat /\ DOMAIN m = Below(felements, fsize) /\ Array!Map!Used(m) = DOMAIN m /\ Array!Map!End(m) = fsize
      /\ DOMAIN m \subseteq 0..(fsize - 1)
  <2>1. /\ Array!Map!Used(Shown(Array!Now)) = Below(Array!Now.at, Array!Now.size)
        /\ Array!Map!End(Shown(Array!Now)) = Array!Now.size
    BY Ends
  <2>. QED
    BY <2>1, NowIs, ShownNow DEF Array!Map!Used, Below
<1>a. ASSUME walk' \in WalksOn, walk'.due \subseteq DOMAIN m', walk'.findex = walk.findex, walk'.way = walk.way, walk'.due \subseteq walk.due
      PROVE  Walked'
  BY <1>a DEF Walked
<1>b. ASSUME walk' \in WalksOn, walk'.way # "on" PROVE Walked'
  BY <1>b DEF Walked
<1>c. \A S : LET w == [walk EXCEPT !.due = @ \ S]
             IN w \in WalksOn /\ w.way = walk.way /\ w.findex = walk.findex /\ w.due = walk.due \ S
  BY DEF Walked, WalksOn
<1>d. walk \in WalksOn /\ (walk.way = "on" => walk.due \subseteq DOMAIN m)
  BY DEF Walked
<1>1. CASE Called
  <2>0. m' = Array!Map!After(call', m)
    BY <1>1, CallsFollow DEF Follows
  <2>e. ASSUME Array!Idle PROVE Walked'
    BY <1>b, <1>d, <2>e DEF Array!Idle
  <2>f. ASSUME walk' = walk, DOMAIN m \subseteq DOMAIN m' PROVE Walked'
    BY <1>a, <1>b, <1>d, <2>f
  <2>1. ASSUME NEW i \in Array!Index, NEW e \in Element, Array!put_element(i, e) PROVE Walked'
    <3>1. walk' = walk /\ call' = Array!CallWith("put", i, e)
      BY <2>1 DEF Array!put_element, Array!Calls
    <3>. HIDE DEF m
    <3>2. Array!Map!After(call', m) = Array!Map!Put(m, i, e)
      BY <3>1, CallPut
    <3>3. DOMAIN m \subseteq DOMAIN Array!Map!Put(m, i, e)
      BY <1>0 DEF Array!Map!Put, Array!Map!With
    <3>. QED
      BY <2>0, <2>f, <3>1, <3>2, <3>3 DEF m
  <2>2. ASSUME NEW i \in Array!Index, NEW e \in Element, Array!insert_(i, e) PROVE Walked'
    BY <2>2, <2>e DEF Array!insert_
  <2>3. ASSUME NEW i \in Array!Index, NEW e \in Element, Array!_set(i, e) PROVE Walked'
    <3>1. walk' = walk /\ call' = Array!CallWith("set", i, e)
      BY <2>3 DEF Array!_set, Array!Calls
    <3>. HIDE DEF m
    <3>. DEFINE j == CHOOSE k \in Array!Map!Used(m) : Array!Map!Rank(m, k) = i
    <3>2. Array!Map!After(call', m) = Array!Map!Put(m, j, e)
      BY <3>1, CallSet
    <3>. HIDE DEF j
    <3>3. DOMAIN m \subseteq DOMAIN Array!Map!Put(m, j, e)
      BY <1>0 DEF Array!Map!Put, Array!Map!With
    <3>. QED
      BY <2>0, <2>f, <3>1, <3>2, <3>3 DEF m
  <2>4. ASSUME NEW e \in Element, Array!append(e) PROVE Walked'
    <3>1. walk' = walk /\ call' = Array!CallWith("append", 0, e)
      BY <2>4 DEF Array!append, Array!Calls
    <3>. HIDE DEF m
    <3>2. Array!Map!After(call', m) = Array!Map!Put(m, Array!Map!End(m), e)
      BY <3>1, CallAppend
    <3>3. DOMAIN m \subseteq DOMAIN Array!Map!Put(m, Array!Map!End(m), e)
      BY <1>0 DEF Array!Map!Put, Array!Map!With
    <3>. QED
      BY <2>0, <2>f, <3>1, <3>2, <3>3 DEF m
  <2>5. ASSUME NEW i \in Array!Index, Array!delete(i) PROVE Walked'
    <3>1. walk' = [walk EXCEPT !.due = @ \ {i}] /\ call' = Array!CallWith("delete", i, 0)
      BY <2>5 DEF Array!delete, Array!Calls, Array!Leave
    <3>2. walk' \in WalksOn /\ walk'.way = walk.way /\ walk'.findex = walk.findex /\ walk'.due = walk.due \ {i}
      BY <1>c, <3>1
    <3>. HIDE DEF m
    <3>3. Array!Map!After(call', m) = Array!Map!Without(m, i)
      BY <3>1, CallDelete
    <3>4. DOMAIN Array!Map!Without(m, i) = DOMAIN m \ {i}
      BY <1>0 DEF Array!Map!Without
    <3>. QED
      BY <1>a, <1>b, <1>d, <2>0, <3>2, <3>3, <3>4 DEF m
  <2>6. ASSUME NEW i \in Array!Index, Array!remove_(i) PROVE Walked'
    BY <1>b, <1>d, <2>6 DEF Array!remove_
  <2>7. ASSUME Array!delete_all PROVE Walked'
    <3>1. walk' = [walk EXCEPT !.due = @ \ Array!Index]
      BY <2>7 DEF Array!delete_all, Array!Leave
    <3>2. /\ walk' \in WalksOn /\ walk'.way = walk.way /\ walk'.findex = walk.findex
          /\ walk'.due = walk.due \ Array!Index
      BY <1>c, <3>1
    <3>3. DOMAIN m \subseteq Array!Index
      BY <1>0, NowIs DEF Array!Index
    <3>. QED
      BY <1>a, <1>b, <1>d, <3>2, <3>3
  <2>8. ASSUME Array!pop_ PROVE Walked'
    <3>1. walk' = [walk EXCEPT !.due = @ \ {fsize - 1}] /\ call' = Array!CallWith("pop", 0, 0)
      BY <2>8 DEF Array!pop_, Array!Calls, Array!Leave
    <3>2. /\ walk' \in WalksOn /\ walk'.way = walk.way /\ walk'.findex = walk.findex
          /\ walk'.due = walk.due \ {fsize - 1}
      BY <1>c, <3>1
    <3>. HIDE DEF m
    <3>3. Array!Map!After(call', m) = Array!Map!Without(m, fsize - 1)
      BY <1>0, <3>1, CallPop
    <3>4. DOMAIN Array!Map!Without(m, fsize - 1) = DOMAIN m \ {fsize - 1}
      BY <1>0 DEF Array!Map!Without
    <3>. QED
      BY <1>a, <1>b, <1>d, <2>0, <3>2, <3>3, <3>4 DEF m
  <2>9. ASSUME Array!compact_ \/ Array!reverse PROVE Walked'
    BY <2>9, <2>e DEF Array!compact_, Array!reverse
  <2>10. ASSUME NEW desc \in BOOLEAN, Array!sort(desc) PROVE Walked'
    BY <2>10, <2>e DEF Array!sort
  <2>11. ASSUME NEW o \in 0..2, NEW l \in 0..2, Array!mid(o, l) PROVE Walked'
    BY <2>11, <2>e DEF Array!mid
  <2>12. ASSUME NEW o \in Others, Array!_copy_or_add(o) PROVE Walked'
    <3>1. walk' = walk /\ call' = Array!CallOf("add", o)
      BY <2>12 DEF Array!_copy_or_add, Array!Calls
    <3>. HIDE DEF m
    <3>2. Array!Map!After(call', m) = Array!Map!With(m, o)
      BY <3>1, CallAdd
    <3>3. DOMAIN m \subseteq DOMAIN Array!Map!With(m, o)
      BY <1>0 DEF Array!Map!With
    <3>. QED
      BY <2>0, <2>f, <3>1, <3>2, <3>3 DEF m
  <2>13. ASSUME NEW o \in Others, Array!_join(o) PROVE Walked'
    <3>1. walk' = walk /\ call' = Array!CallOf("join", o)
      BY <2>13 DEF Array!_join, Array!Calls
    <3>. HIDE DEF m
    <3>2. Array!Map!After(call', m) = Together(m, Array!Map!Compact(o))
      BY <3>1, CallJoin
    <3>3. DOMAIN m \subseteq DOMAIN Together(m, Array!Map!Compact(o))
      BY <1>0 DEF Together
    <3>. QED
      BY <2>0, <2>f, <3>1, <3>2, <3>3 DEF m
  <2>14. ASSUME NEW o \in Others, NEW sparse \in BOOLEAN, Array!_sql(o, sparse) PROVE Walked'
    BY <2>14, <2>e DEF Array!_sql
  <2>. QED
    BY <1>1, <2>1, <2>2, <2>3, <2>4, <2>5, <2>6, <2>7, <2>8, <2>9, <2>10, <2>11, <2>12, <2>13, <2>14 DEF Called
<1>2. CASE Array!_count
  <2>1. walk' = walk /\ m' = m
    BY <1>2, CountsOnce DEF Still, Array!_count
  <2>. HIDE DEF m
  <2>. QED
    BY <1>a, <1>b, <1>d, <2>1 DEF m
<1>3. CASE CycleStep
  <2>0. m' = m
    <3>1. UNCHANGED <<felements, fsize, fused, call>>
      BY <1>3 DEF CycleStep, Array!foreach, Array!step, Array!over, Array!array
    <3>. QED
      BY <3>1, Stays DEF Still
  <2>1. ASSUME NEW way \in {"on", "back"}, Array!foreach(way) PROVE Walked'
    <3>. DEFINE i == IF way = "on" THEN 0 ELSE fsize - 1
    <3>1. fsize > 0 /\ walk' = [way |-> way, findex |-> i, due |-> DOMAIN m \ {i}]
      BY <1>0, <2>1 DEF Array!foreach, Below, Array!NULL
    <3>2. walk' \in WalksOn /\ walk'.way = way /\ walk'.findex = i /\ walk'.due = DOMAIN m \ {i}
      BY <1>0, <3>1 DEF WalksOn
    <3>. QED
      BY <1>0, <2>0, <3>2 DEF Walked
  <2>2. ASSUME Array!step PROVE Walked'
    <3>. DEFINE i == IF walk.way = "on" THEN walk.findex + 1 ELSE walk.findex - 1
    <3>1. /\ walk.way # "none" /\ walk' = [walk EXCEPT !.findex = i, !.due = @ \ {i}]
          /\ walk.way # "on" => walk.findex > 0
      BY <2>2 DEF Array!step, Array!more
    <3>2. walk.findex \in Nat /\ i \in Nat
      BY <1>d, <3>1 DEF WalksOn
    <3>3. walk' \in WalksOn /\ walk'.way = walk.way /\ walk'.findex = i /\ walk'.due = walk.due \ {i}
      BY <1>d, <3>1, <3>2 DEF WalksOn
    <3>4. ASSUME walk.way = "on", NEW j \in walk.due, j # i PROVE j > i
      <4>1. j \in Nat /\ j > walk.findex
        BY <1>d, <3>4 DEF WalksOn, Walked
      <4>. QED
        BY <3>2, <3>4, <4>1
    <3>. HIDE DEF i
    <3>. QED
      BY <1>d, <2>0, <3>3, <3>4 DEF Walked
  <2>3. ASSUME NEW break \in BOOLEAN, Array!over(break) PROVE Walked'
    <3>1. walk' = Array!NoCycle /\ Array!NoCycle \in WalksOn /\ Array!NoCycle.way = "none"
      BY <2>3 DEF Array!over, Array!NoCycle, WalksOn
    <3>. QED
      BY <1>b, <3>1
  <2>. QED
    BY <1>3, <2>1, <2>2, <2>3 DEF CycleStep
<1>. QED
  BY <1>1, <1>2, <1>3, ArraySteps
-----------------------------------------------------------------------------
LEMMA ArrayStarts ==
    ASSUME ContainersInit
    PROVE  ArrayInv /\ Array!Map!Init
<1>1. felements = Array!New.at /\ fsize = 0 /\ fused = 0 /\ walk = Array!NoCycle /\ call = [name |-> "new"]
  BY DEF ContainersInit, Array!Init
<1>2. Sound(Array!Now)
  <2>1. Array!Now = Array!New
    BY <1>1 DEF Array!Now, Array!New
  <2>. QED
    BY <2>1, NewIs
<1>3. Array!Elements = [i \in {} |-> 0]
  <2>1. {j \in 0..(fsize - 1) : felements[j] # Array!NULL} = {}
    BY <1>1
  <2>. QED
    BY <2>1 DEF Array!Elements
<1>4. Walked
  BY <1>1 DEF Walked, WalksOn, Array!NoCycle
<1>. QED
  BY <1>1, <1>2, <1>3, <1>4 DEF ArrayInv, Array!Map!Init

LEMMA ArrayKeeps ==
    ASSUME Unready = {}, ArrayInv, [ContainersNext]_<<kind, hash, array>>
    PROVE  ArrayInv' /\ (kind = "array" => Array!MapStep)
<1>1. CASE kind = "array" /\ Array!Next /\ UNCHANGED <<kind, hash>>
  BY <1>1, ArrayFollows, WalkedStep DEF ArrayInv
<1>2. CASE (kind = "hash" /\ Hash!Next /\ UNCHANGED <<kind, array>>) \/ UNCHANGED <<kind, hash, array>>
  <2>1. UNCHANGED <<felements, fsize, fused, walk, call>>
    BY <1>2 DEF array
  <2>2. Still
    BY <2>1, Stays DEF ArrayInv
  <2>3. Walked'
    <3>1. Array!Elements' = Array!Elements
      BY <2>2 DEF Still
    <3>. QED
      BY <2>1, <3>1 DEF Walked, ArrayInv
  <2>. QED
    BY <2>2, <2>3 DEF Still, ArrayInv, Array!MapStep
<1>. QED
  BY <1>1, <1>2 DEF ContainersNext

LEMMA ArrayVisits ==
    ASSUME ArrayInv
    PROVE  Array!StayersVisited
<1>1. fsize \in Nat /\ DOMAIN Array!Elements \subseteq 0..(fsize - 1)
  BY NowIs DEF ArrayInv, Array!Elements
<1>2. walk.findex \in Nat
  BY DEF ArrayInv, Walked, WalksOn
<1>. QED
  BY <1>1, <1>2 DEF ArrayInv, Walked, Array!StayersVisited, Array!more

\* at() and set() find the element with this order, whether the cached number of
\* elements is known or not: locate() and used() of pa_varray.h, if programs keep off
\* what the array is not ready for (Unready)
THEOREM ElementsAreFound == Unready = {} => (ContainersSpec => []AtFinds)
<1>. SUFFICES ASSUME Unready = {} PROVE ContainersSpec => []AtFinds
  OBVIOUS
<1>1. ContainersInit => ArrayInv
  BY ArrayStarts
<1>2. ArrayInv /\ [ContainersNext]_<<kind, hash, array>> => ArrayInv'
  BY ArrayKeeps
<1>3. ArrayInv => AtFinds
  BY Finds DEF ArrayInv, AtFinds
<1>. QED
  BY <1>1, <1>2, <1>3, PTL DEF ContainersSpec
-----------------------------------------------------------------------------
\* Pairs linked through a pointer, in the order of numbers: each leads to the next smaller one
Numbered(T, num) ==
    /\ \A p \in T : num[p] \in Int
    /\ \A p, q \in T : num[p] = num[q] => p = q
IsLatest(x, T, num) == IF T = {} THEN x = NoPair ELSE x \in T /\ \A q \in T : num[q] <= num[x]
Lower(T, num, n) == {q \in T : num[q] < n}
Linked(start, pointer, T, num) ==
    /\ IsLatest(start, T, num)
    /\ \A p \in T : IsLatest(pointer[p], Lower(T, num, num[p]), num)

LEMMA Memories ==
    /\ NoPair \notin Pairs /\ IsFiniteSet(Pairs) /\ Cardinality(Pairs) \in Nat /\ Hash!Cardinality(Pairs) = Cardinality(Pairs)
    /\ \A S : Hash!Cardinality(S) = Cardinality(S)
<1>1. NoPair \notin Pairs /\ IsFiniteSet(Pairs)
  BY HashConstants DEF Hash!ConstantsOK, Hash!IsFiniteSet, IsFiniteSet
<1>2. \A S : Hash!Cardinality(S) = Cardinality(S)
  BY DEF Hash!Cardinality, Cardinality
<1>. QED
  BY <1>1, <1>2, FS_CardinalityType

LEMMA OneLatest ==
    ASSUME NEW T, T \subseteq Pairs, NEW num, Numbered(T, num), NEW x, NEW y, IsLatest(x, T, num), IsLatest(y, T, num)
    PROVE  x = y
<1>1. CASE T = {}
  BY <1>1 DEF IsLatest
<1>2. CASE T # {}
  <2>1. x \in T /\ y \in T /\ num[x] <= num[y] /\ num[y] <= num[x] /\ num[x] \in Int /\ num[y] \in Int
    BY <1>2 DEF IsLatest, Numbered
  <2>2. num[x] = num[y]
    BY <2>1
  <2>. QED
    BY <2>1, <2>2 DEF Numbered
<1>. QED
  BY <1>1, <1>2

\* Some pair has each place, counted from the latest one
LEMMA Listing ==
    ASSUME NEW T, T \subseteq Pairs, NEW num, Numbered(T, num)
    PROVE  \E s \in Seq(T) : /\ Len(s) = Cardinality(T) /\ \A p \in T : \E i \in 1..Len(s) : s[i] = p
                             /\ \A i, j \in 1..Len(s) : i < j => num[s[i]] > num[s[j]]
<1>. DEFINE R == {e \in T \X T : num[e[1]] > num[e[2]]}
            c == Cardinality(T)
            rank(p) == Cardinality(Before(R, T, p))
            s == [n \in 1..c |-> CHOOSE p \in T : rank(p) = n - 1]
<1>1. IsFiniteSet(T) /\ c \in Nat
  BY Memories, FS_Subset, FS_CardinalityType
<1>2. \A p, q \in T : <<p, q>> \in R <=> num[p] > num[q]
  OBVIOUS
<1>3. \A p \in T : num[p] \in Int
  BY DEF Numbered
<1>. HIDE DEF R
<1>4. IsOrder(R, T)
  <2>1. \A p, q \in T : p # q => num[p] # num[q]
    BY DEF Numbered
  <2>. QED
    BY <1>2, <1>3, <2>1 DEF IsOrder
<1>5. \A n \in 1..c : \E p \in T : rank(p) = n - 1
  BY <1>1, <1>4, Places
<1>6. \A p, q \in T : rank(p) = rank(q) => p = q
  BY <1>1, <1>4, OneEach
<1>7. ASSUME NEW p \in T PROVE rank(p) + 1 \in 1..c /\ rank(p) \in Nat
  <2>1. Before(R, T, p) \subseteq T /\ p \notin Before(R, T, p)
    BY <1>4 DEF Before, IsOrder
  <2>2. IsFiniteSet(Before(R, T, p)) /\ rank(p) \in Nat /\ rank(p) <= c /\ (rank(p) = c => Before(R, T, p) = T)
    BY <1>1, <2>1, FS_Subset, FS_CardinalityType
  <2>. QED
    BY <1>1, <2>1, <2>2
<1>8. ASSUME NEW p \in T, NEW q \in T, num[p] > num[q] PROVE rank(p) < rank(q)
  <2>1. Before(R, T, p) \subseteq Before(R, T, q) /\ p \in Before(R, T, q) /\ p \notin Before(R, T, p)
    BY <1>2, <1>4, <1>8 DEF Before, IsOrder
  <2>2. IsFiniteSet(Before(R, T, q)) /\ IsFiniteSet(Before(R, T, p))
    BY <1>1, FS_Subset DEF Before
  <2>3. rank(p) \in Nat /\ rank(q) \in Nat /\ rank(p) <= rank(q) /\ rank(p) # rank(q)
    BY <2>1, <2>2, FS_Subset, FS_CardinalityType
  <2>. QED
    BY <2>3
<1>. HIDE DEF rank
<1>9. \A n \in 1..c : s[n] \in T /\ rank(s[n]) = n - 1
  BY <1>5
<1>10. s \in Seq(T) /\ Len(s) = c
  <2>1. s \in [1..c -> T]
    BY <1>9
  <2>. HIDE DEF s
  <2>. QED
    BY <1>1, <2>1
<1>. HIDE DEF s
<1>11. ASSUME NEW p \in T PROVE \E i \in 1..Len(s) : s[i] = p
  <2>1. rank(p) + 1 \in 1..c /\ rank(p) \in Int
    BY <1>7
  <2>2. rank(s[rank(p) + 1]) = rank(p)
    BY <1>9, <2>1
  <2>. QED
    BY <1>6, <1>9, <1>10, <2>1, <2>2
<1>12. ASSUME NEW i \in 1..Len(s), NEW j \in 1..Len(s), i < j PROVE num[s[i]] > num[s[j]]
  <2>1. s[i] \in T /\ s[j] \in T /\ rank(s[i]) = i - 1 /\ rank(s[j]) = j - 1
    BY <1>9, <1>10
  <2>2. num[s[i]] # num[s[j]]
    BY <1>12, <2>1 DEF Numbered
  <2>3. ~(num[s[j]] > num[s[i]])
    <3>1. ~(rank(s[j]) < rank(s[i]))
      BY <1>12, <2>1
    <3>. QED
      BY <1>8, <2>1, <3>1
  <2>. QED
    BY <1>3, <2>1, <2>2, <2>3
<1>. QED
  BY <1>10, <1>11, <1>12

\* A sequence of the pairs, the latest one first
Enlists(s, T, num) ==
    /\ s \in Seq(T) /\ \A p \in T : \E i \in 1..Len(s) : s[i] = p
    /\ \A i, j \in 1..Len(s) : i < j => num[s[i]] > num[s[j]]
At(s, i) == IF i \in 1..Len(s) THEN s[i] ELSE NoPair

LEMMA Enlisted ==
    ASSUME NEW T, T \subseteq Pairs, NEW num, Numbered(T, num), NEW s, Enlists(s, T, num)
    PROVE  /\ Len(s) \in Nat /\ Len(s) = Cardinality(T) /\ Len(s) <= Cardinality(Pairs)
           /\ \A i \in 1..Len(s) : s[i] \in T
           /\ \A i, j \in 1..Len(s) : s[i] = s[j] => i = j
           /\ Hash!In(s) = T
<1>1. Len(s) \in Nat /\ s \in [1..Len(s) -> T] /\ \A i \in 1..Len(s) : s[i] \in T
  BY DEF Enlists
<1>2. \A i, j \in 1..Len(s) : s[i] = s[j] => i = j
  <2>1. \A i, j \in 1..Len(s) : i # j => num[s[i]] # num[s[j]]
    BY <1>1 DEF Enlists, Numbered
  <2>. QED
    BY <2>1
<1>3. s \in Bijection(1..Len(s), T)
  BY <1>1, <1>2 DEF Enlists, Bijection, Injection, Surjection, IsInjective
<1>4. IsFiniteSet(1..Len(s)) /\ Cardinality(1..Len(s)) = Len(s)
  <2>1. 1 \in Int /\ Len(s) \in Int
    BY <1>1
  <2>2. IsFiniteSet(1..Len(s)) /\ Cardinality(1..Len(s)) = IF 1 > Len(s) THEN 0 ELSE Len(s) - 1 + 1
    BY <2>1, FS_Interval
  <2>. QED
    BY <1>1, <2>2
<1>5. Len(s) = Cardinality(T)
  BY <1>3, <1>4, FS_Bijection DEF ExistsBijection
<1>6. Cardinality(T) <= Cardinality(Pairs)
  BY Memories, FS_Subset
<1>7. Hash!In(s) = T
  BY <1>1 DEF Hash!In, Enlists
<1>. QED
  BY <1>1, <1>2, <1>5, <1>6, <1>7

\* The pointers lead through the sequence
LeadsOn(s, start, pointer) == start = At(s, 1) /\ \A i \in 1..Len(s) : pointer[s[i]] = At(s, i + 1)
LEMMA Leads ==
    ASSUME NEW T, T \subseteq Pairs, NEW num, Numbered(T, num), NEW s, Enlists(s, T, num),
           NEW start, NEW pointer, Linked(start, pointer, T, num)
    PROVE  LeadsOn(s, start, pointer)
<1>0. /\ Len(s) \in Nat /\ \A i \in 1..Len(s) : s[i] \in T
      /\ \A p \in T : \E i \in 1..Len(s) : s[i] = p
      /\ \A i, j \in 1..Len(s) : i < j => num[s[i]] > num[s[j]]
      /\ \A p \in T : num[p] \in Int
  BY DEF Enlists, Numbered
<1>1. ASSUME NEW k \in 1..(Len(s) + 1), NEW U, \A p \in T : p \in U <=> \E i \in k..Len(s) : s[i] = p, U \subseteq T
      PROVE  IsLatest(At(s, k), U, num)
  <2>1. CASE k = Len(s) + 1
    <3>1. U = {} /\ At(s, k) = NoPair
      BY <1>0, <1>1, <2>1 DEF At
    <3>. QED
      BY <3>1 DEF IsLatest
  <2>2. CASE k # Len(s) + 1
    <3>1. k \in 1..Len(s) /\ k \in k..Len(s) /\ At(s, k) = s[k]
      BY <1>0, <2>2 DEF At
    <3>2. s[k] \in U
      BY <1>0, <1>1, <3>1
    <3>3. ASSUME NEW q \in U PROVE num[q] <= num[s[k]]
      <4>1. PICK i \in k..Len(s) : s[i] = q
        BY <1>1, <3>3
      <4>2. i \in 1..Len(s) /\ (i = k \/ k < i)
        BY <1>0, <3>1
      <4>. QED
        BY <1>0, <3>1, <4>1, <4>2
    <3>. QED
      BY <3>1, <3>2, <3>3 DEF IsLatest
  <2>. QED
    BY <2>1, <2>2
<1>2. start = At(s, 1)
  <2>1. IsLatest(At(s, 1), T, num)
    BY <1>0, <1>1
  <2>. QED
    BY <2>1, OneLatest DEF Linked
<1>3. ASSUME NEW i \in 1..Len(s) PROVE pointer[s[i]] = At(s, i + 1)
  <2>. DEFINE U == Lower(T, num, num[s[i]])
  <2>1. U \subseteq T /\ U \subseteq Pairs /\ Numbered(U, num)
    BY DEF Lower, Numbered
  <2>2. ASSUME NEW p \in T PROVE p \in U <=> \E j \in (i + 1)..Len(s) : s[j] = p
    <3>1. PICK j \in 1..Len(s) : s[j] = p
      BY <1>0
    <3>2. \A l \in 1..Len(s) : s[l] = p => l = j
      BY <3>1, Enlisted
    <3>3. p \in U <=> num[s[j]] < num[s[i]]
      BY <3>1 DEF Lower
    <3>4. num[s[j]] < num[s[i]] <=> i < j
      <4>1. i < j \/ i = j \/ j < i
        BY <1>0
      <4>2. num[s[j]] \in Int /\ num[s[i]] \in Int
        BY <1>0
      <4>. QED
        BY <1>0, <4>1, <4>2
    <3>5. i < j => j \in (i + 1)..Len(s)
      BY <1>0
    <3>6. \A l \in (i + 1)..Len(s) : l \in 1..Len(s) /\ i < l
      BY <1>0
    <3>. QED
      BY <3>1, <3>2, <3>3, <3>4, <3>5, <3>6
  <2>3. i + 1 \in 1..(Len(s) + 1)
    BY <1>0
  <2>4. IsLatest(At(s, i + 1), U, num)
    <3>. HIDE DEF U
    <3>. QED
      BY <1>1, <2>1, <2>2, <2>3
  <2>5. IsLatest(pointer[s[i]], U, num)
    BY <1>0 DEF Linked
  <2>. HIDE DEF U
  <2>. QED
    BY <2>1, <2>4, <2>5, OneLatest
<1>. QED
  BY <1>2, <1>3 DEF LeadsOn

\* Met() follows the pointers, as many times as there are pairs
LEMMA MetIs ==
    ASSUME NEW start, NEW pointer, NEW w, NEW N \in Nat, N = Cardinality(Pairs),
           w = [n \in 0..N |-> IF n = 0 THEN start ELSE IF w[n - 1] = NoPair THEN NoPair ELSE pointer[w[n - 1]]]
    PROVE  Hash!Met(start, pointer) = w
<1>. DEFINE P(f) == f = [n \in 0..N |-> IF n = 0 THEN start ELSE IF f[n - 1] = NoPair THEN NoPair ELSE pointer[f[n - 1]]]
<1>1. Hash!Met(start, pointer) = CHOOSE f : P(f)
  BY Memories DEF Hash!Met
<1>2. ASSUME NEW f, P(f) PROVE f = w
  <2>. DEFINE D == {n \in 0..N : f[n] # w[n]}
  <2>1. ASSUME D # {} PROVE FALSE
    <3>1. PICK n \in D : \A k \in D : n <= k
      <4>1. D \subseteq Nat
        OBVIOUS
      <4>. HIDE DEF D
      <4>. QED
        BY <2>1, <4>1, Least
    <3>2. n \in 0..N /\ f[n] # w[n]
      OBVIOUS
    <3>3. f[n] = IF n = 0 THEN start ELSE IF f[n - 1] = NoPair THEN NoPair ELSE pointer[f[n - 1]]
      BY <1>2, <3>2
    <3>4. w[n] = IF n = 0 THEN start ELSE IF w[n - 1] = NoPair THEN NoPair ELSE pointer[w[n - 1]]
      BY <3>2
    <3>5. n # 0
      BY <3>2, <3>3, <3>4
    <3>6. n - 1 \in 0..N /\ ~(n <= n - 1)
      BY <3>2, <3>5
    <3>7. f[n - 1] = w[n - 1]
      BY <3>1, <3>6
    <3>. QED
      BY <3>2, <3>3, <3>4, <3>5, <3>7
  <2>2. \A n \in 0..N : f[n] = w[n]
    BY <2>1
  <2>3. DOMAIN f = 0..N /\ f = [n \in DOMAIN f |-> f[n]]
    BY <1>2
  <2>4. DOMAIN w = 0..N /\ w = [n \in DOMAIN w |-> w[n]]
    OBVIOUS
  <2>. QED
    BY <2>2, <2>3, <2>4
<1>3. P(w)
  OBVIOUS
<1>. HIDE DEF P
<1>. QED
  BY <1>1, <1>2, <1>3

LEMMA FollowIs ==
    ASSUME NEW T, T \subseteq Pairs, NEW num, Numbered(T, num), NEW s, Enlists(s, T, num),
           NEW start, NEW pointer, Linked(start, pointer, T, num)
    PROVE  Hash!Follow(start, pointer) = s
<1>. DEFINE N == Cardinality(Pairs)
            n == Len(s)
            w == [k \in 0..N |-> At(s, k + 1)]
<1>0. /\ N \in Nat /\ n \in Nat /\ n <= N /\ \A i \in 1..n : s[i] \in Pairs
      /\ \A i \in 1..n : s[i] # NoPair
  BY Memories, Enlisted
<1>1. start = At(s, 1) /\ \A i \in 1..n : pointer[s[i]] = At(s, i + 1)
  BY Leads DEF LeadsOn
<1>2. w = [k \in 0..N |-> IF k = 0 THEN start ELSE IF w[k - 1] = NoPair THEN NoPair ELSE pointer[w[k - 1]]]
  <2>1. ASSUME NEW k \in 0..N PROVE w[k] = IF k = 0 THEN start ELSE IF w[k - 1] = NoPair THEN NoPair ELSE pointer[w[k - 1]]
    <3>1. CASE k = 0
      BY <1>1, <3>1
    <3>2. CASE k # 0
      <4>1. k - 1 \in 0..N /\ w[k - 1] = At(s, k) /\ w[k] = At(s, k + 1) /\ k \in Nat \ {0}
        BY <1>0, <3>2
      <4>2. CASE k \in 1..n
        <5>1. At(s, k) = s[k] /\ s[k] # NoPair
          BY <1>0, <4>2 DEF At
        <5>. QED
          BY <1>1, <3>2, <4>1, <4>2, <5>1
      <4>3. CASE k \notin 1..n
        <5>1. k + 1 \notin 1..n
          BY <1>0, <4>1, <4>3
        <5>2. At(s, k) = NoPair /\ At(s, k + 1) = NoPair
          BY <4>3, <5>1 DEF At
        <5>. QED
          BY <3>2, <4>1, <5>2
      <4>. QED
        BY <4>2, <4>3
    <3>. QED
      BY <3>1, <3>2
  <2>. QED
    BY <2>1
<1>. HIDE DEF w
<1>3. Hash!Met(start, pointer) = w
  BY <1>0, <1>2, MetIs
<1>4. {i \in 0..(N - 1) : w[i] # NoPair} = 0..(n - 1)
  <2>1. ASSUME NEW i \in 0..(N - 1) PROVE w[i] # NoPair <=> i \in 0..(n - 1)
    <3>1. w[i] = At(s, i + 1) /\ i \in Nat
      BY <1>0 DEF w
    <3>2. i + 1 \in 1..n <=> i \in 0..(n - 1)
      BY <1>0, <3>1
    <3>. QED
      BY <1>0, <3>1, <3>2 DEF At
  <2>2. \A i \in 0..(n - 1) : i \in 0..(N - 1)
    BY <1>0
  <2>. QED
    BY <2>1, <2>2
<1>5. Cardinality(0..(n - 1)) = n
  <2>1. 0 \in Int /\ n - 1 \in Int
    BY <1>0
  <2>2. Cardinality(0..(n - 1)) = IF 0 > n - 1 THEN 0 ELSE (n - 1) - 0 + 1
    BY <2>1, FS_Interval
  <2>. QED
    BY <1>0, <2>2
<1>6. Hash!Follow(start, pointer) = [k \in 1..n |-> w[k - 1]]
  <2>1. Hash!Follow(start, pointer) = [k \in 1..Cardinality({i \in 0..(N - 1) : w[i] # NoPair}) |-> w[k - 1]]
    BY <1>3, Memories DEF Hash!Follow
  <2>. QED
    BY <1>4, <1>5, <2>1
<1>7. ASSUME NEW k \in 1..n PROVE w[k - 1] = s[k]
  <2>1. k - 1 \in 0..N /\ (k - 1) + 1 = k
    BY <1>0
  <2>. QED
    BY <2>1 DEF w, At
<1>8. s = [k \in 1..n |-> s[k]]
  BY DEF Enlists
<1>. HIDE DEF n
<1>. QED
  BY <1>6, <1>7, <1>8

\* A pair is taken out: what has led to it leads to what it leads to
Skips(T, p, start, pointer, start2, pointer2) ==
    /\ start2 = (IF start = p THEN pointer[p] ELSE start)
    /\ \A q \in T : q # p => pointer2[q] = IF pointer[q] = p THEN pointer[p] ELSE pointer[q]
LEMMA TakenOut ==
    ASSUME NEW T, T \subseteq Pairs, NEW num, Numbered(T, num), NEW start, NEW pointer, Linked(start, pointer, T, num),
           NEW p \in T, NEW start2, NEW pointer2, Skips(T, p, start, pointer, start2, pointer2), NEW N, N = T \ {p}
    PROVE  Linked(start2, pointer2, N, num)
<1>0. /\ \A q \in T : num[q] \in Int /\ NoPair \notin T
      /\ \A q, r \in T : num[q] = num[r] => q = r
  BY Memories DEF Numbered
<1>1. ASSUME NEW U, U \subseteq T, \A q \in U : Lower(T, num, num[q]) \subseteq U, NEW x, IsLatest(x, U, num)
      PROVE  IsLatest(IF x = p THEN pointer[p] ELSE x, U \ {p}, num)
  <2>1. CASE x = p
    <3>1. p \in U
      BY <1>0, <1>1, <2>1 DEF IsLatest
    <3>2. U \ {p} = Lower(T, num, num[p])
      <4>1. ASSUME NEW q \in U \ {p} PROVE num[q] < num[p]
        BY <1>0, <1>1, <2>1, <3>1, <4>1 DEF IsLatest
      <4>2. \A q \in Lower(T, num, num[p]) : q \in U /\ q # p
        BY <1>0, <1>1, <3>1 DEF Lower
      <4>. QED
        BY <1>1, <4>1, <4>2 DEF Lower
    <3>. QED
      BY <2>1, <3>2 DEF Linked
  <2>2. CASE x # p
    BY <1>0, <1>1, <2>2 DEF IsLatest
  <2>. QED
    BY <2>1, <2>2
<1>a. /\ start2 = (IF start = p THEN pointer[p] ELSE start)
      /\ \A q \in T : q # p => pointer2[q] = IF pointer[q] = p THEN pointer[p] ELSE pointer[q]
  BY DEF Skips
<1>2. IsLatest(start2, T \ {p}, num)
  <2>1. \A q \in T : Lower(T, num, num[q]) \subseteq T
    BY DEF Lower
  <2>. QED
    BY <1>1, <1>a, <2>1 DEF Linked
<1>3. ASSUME NEW q \in T \ {p} PROVE IsLatest(pointer2[q], Lower(T \ {p}, num, num[q]), num)
  <2>. DEFINE U == Lower(T, num, num[q])
  <2>1. Lower(T \ {p}, num, num[q]) = U \ {p}
    BY DEF Lower
  <2>2. U \subseteq T /\ \A r \in U : Lower(T, num, num[r]) \subseteq U
    BY <1>0 DEF Lower
  <2>3. IsLatest(pointer[q], U, num)
    BY DEF Linked
  <2>. HIDE DEF U
  <2>4. IsLatest(IF pointer[q] = p THEN pointer[p] ELSE pointer[q], U \ {p}, num)
    BY <1>1, <2>2, <2>3
  <2>. QED
    BY <1>a, <2>1, <2>4
<1>. QED
  BY <1>2, <1>3 DEF Linked

\* A pair is put before the latest one
Numbers(T, num, num2, p) ==
    /\ p \in Pairs /\ p \notin T /\ num2[p] \in Int /\ \A q \in T : num2[q] = num[q]
LEMMA PutAhead ==
    ASSUME NEW T, T \subseteq Pairs, NEW num, Numbered(T, num), NEW start, NEW pointer, Linked(start, pointer, T, num),
           NEW p, NEW num2, Numbers(T, num, num2, p), \A q \in T : num[q] < num2[p],
           NEW pointer2, pointer2[p] = start, \A q \in T : pointer2[q] = pointer[q], NEW N, N = T \cup {p}
    PROVE  Numbered(N, num2) /\ Linked(p, pointer2, N, num2)
<1>0. /\ \A q \in T : num[q] \in Int
      /\ \A q, r \in T : num[q] = num[r] => q = r
      /\ p \in Pairs /\ p \notin T /\ num2[p] \in Int /\ \A q \in T : num2[q] = num[q] /\ num[q] < num2[p]
  BY DEF Numbered, Numbers
<1>1. Numbered(T \cup {p}, num2)
  BY <1>0 DEF Numbered
<1>2. IsLatest(p, T \cup {p}, num2)
  BY <1>0 DEF IsLatest
<1>3. Lower(T \cup {p}, num2, num2[p]) = T
  BY <1>0 DEF Lower
<1>4. IsLatest(pointer2[p], Lower(T \cup {p}, num2, num2[p]), num2)
  BY <1>0, <1>3 DEF Linked, IsLatest
<1>5. ASSUME NEW q \in T PROVE IsLatest(pointer2[q], Lower(T \cup {p}, num2, num2[q]), num2)
  <2>1. Lower(T \cup {p}, num2, num2[q]) = Lower(T, num, num[q])
    BY <1>0 DEF Lower
  <2>2. \A r \in Lower(T, num, num[q]) : num2[r] = num[r]
    BY <1>0 DEF Lower
  <2>3. IsLatest(pointer2[q], Lower(T, num, num[q]), num)
    BY DEF Linked
  <2>. QED
    BY <1>0, <2>1, <2>2, <2>3 DEF IsLatest
<1>. QED
  BY <1>1, <1>2, <1>4, <1>5 DEF Linked

\* A pair is put after all others
Reaches(T, p, start, pointer, start2, pointer2) ==
    /\ start2 = (IF start = NoPair THEN p ELSE start) /\ pointer2[p] = NoPair
    /\ \A q \in T : pointer2[q] = IF pointer[q] = NoPair THEN p ELSE pointer[q]
LEMMA PutBehind ==
    ASSUME NEW T, T \subseteq Pairs, NEW num, Numbered(T, num), NEW start, NEW pointer, Linked(start, pointer, T, num),
           NEW p, NEW num2, Numbers(T, num, num2, p), \A q \in T : num2[p] < num[q],
           NEW start2, NEW pointer2, Reaches(T, p, start, pointer, start2, pointer2), NEW N, N = T \cup {p}
    PROVE  Numbered(N, num2) /\ Linked(start2, pointer2, N, num2)
<1>0. /\ \A q \in T : num[q] \in Int
      /\ \A q, r \in T : num[q] = num[r] => q = r
      /\ NoPair \notin T
      /\ p \in Pairs /\ p \notin T /\ num2[p] \in Int /\ \A q \in T : num2[q] = num[q] /\ num2[p] < num[q]
      /\ start2 = (IF start = NoPair THEN p ELSE start) /\ pointer2[p] = NoPair
      /\ \A q \in T : pointer2[q] = IF pointer[q] = NoPair THEN p ELSE pointer[q]
  BY Memories DEF Numbered, Numbers, Reaches
<1>1. Numbered(T \cup {p}, num2)
  BY <1>0 DEF Numbered
<1>2. ASSUME NEW U, U \subseteq T, NEW x, IsLatest(x, U, num)
      PROVE  IsLatest(IF x = NoPair THEN p ELSE x, U \cup {p}, num2)
  <2>1. CASE U = {}
    BY <1>0, <1>2, <2>1 DEF IsLatest
  <2>2. CASE U # {}
    <3>1. x \in U /\ x # NoPair /\ \A q \in U : num[q] <= num[x]
      BY <1>0, <1>2, <2>2 DEF IsLatest
    <3>2. \A q \in U : num2[q] <= num2[x]
      BY <1>0, <1>2, <3>1
    <3>3. num2[p] <= num2[x]
      BY <1>0, <1>2, <3>1
    <3>. QED
      BY <3>1, <3>2, <3>3 DEF IsLatest
  <2>. QED
    BY <2>1, <2>2
<1>3. IsLatest(start2, T \cup {p}, num2)
  BY <1>0, <1>2 DEF Linked
<1>4. IsLatest(pointer2[p], Lower(T \cup {p}, num2, num2[p]), num2)
  <2>1. Lower(T \cup {p}, num2, num2[p]) = {}
    BY <1>0 DEF Lower
  <2>. QED
    BY <1>0, <2>1 DEF IsLatest
<1>5. ASSUME NEW q \in T PROVE IsLatest(pointer2[q], Lower(T \cup {p}, num2, num2[q]), num2)
  <2>1. Lower(T \cup {p}, num2, num2[q]) = Lower(T, num, num[q]) \cup {p} /\ Lower(T, num, num[q]) \subseteq T
    BY <1>0 DEF Lower
  <2>2. IsLatest(pointer[q], Lower(T, num, num[q]), num)
    BY DEF Linked
  <2>. QED
    BY <1>0, <1>2, <2>1, <2>2
<1>. QED
  BY <1>1, <1>3, <1>4, <1>5 DEF Linked

\* There is always a greater number, and a smaller one
LEMMA Extremes ==
    ASSUME NEW T, T \subseteq Pairs, NEW num, Numbered(T, num)
    PROVE  /\ \E n \in Int : \A q \in T : num[q] < n
           /\ \E n \in Int : \A q \in T : n < num[q]
<1>1. PICK s \in Seq(T) : /\ \A p \in T : \E i \in 1..Len(s) : s[i] = p
                          /\ \A i, j \in 1..Len(s) : i < j => num[s[i]] > num[s[j]]
  BY Listing
<1>2. Len(s) \in Nat /\ (\A i \in 1..Len(s) : s[i] \in T) /\ \A q \in T : num[q] \in Int
  BY DEF Numbered
<1>3. CASE Len(s) = 0
  BY <1>1, <1>2, <1>3
<1>4. CASE Len(s) # 0
  <2>1. 1 \in 1..Len(s) /\ Len(s) \in 1..Len(s)
    BY <1>2, <1>4
  <2>2. ASSUME NEW q \in T PROVE num[q] <= num[s[1]] /\ num[s[Len(s)]] <= num[q]
    <3>1. PICK i \in 1..Len(s) : s[i] = q
      BY <1>1
    <3>2. (i = 1 \/ 1 < i) /\ (i = Len(s) \/ i < Len(s))
      BY <1>2
    <3>3. num[q] \in Int /\ num[s[1]] \in Int /\ num[s[Len(s)]] \in Int
      BY <1>2, <2>1
    <3>4. num[q] <= num[s[1]]
      <4>1. 1 < i => num[s[1]] > num[s[i]]
        BY <1>1, <2>1
      <4>. QED
        BY <3>1, <3>2, <3>3, <4>1
    <3>5. num[s[Len(s)]] <= num[q]
      <4>1. i < Len(s) => num[s[i]] > num[s[Len(s)]]
        BY <1>1, <2>1
      <4>. QED
        BY <3>1, <3>2, <3>3, <4>1
    <3>. QED
      BY <3>4, <3>5
  <2>3. num[s[1]] \in Int /\ num[s[Len(s)]] \in Int
    BY <1>2, <2>1
  <2>4. num[s[1]] + 1 \in Int /\ \A q \in T : num[q] < num[s[1]] + 1
    BY <1>2, <2>2, <2>3
  <2>5. num[s[Len(s)]] - 1 \in Int /\ \A q \in T : num[s[Len(s)]] - 1 < num[q]
    BY <1>2, <2>2, <2>3
  <2>. QED
    BY <2>4, <2>5
<1>. QED
  BY <1>3, <1>4
-----------------------------------------------------------------------------
\* A hash of any numbers and pointers
Pointer == Pairs \cup {NoPair}
PairFields == [key : Key, value : Value, link : Pointer, next : Pointer, prev : Pointer]
Records == [pair : [Pairs -> PairFields], refs : UNION {[1..n -> Pointer] : n \in Nat}, index : 1..Len(Allocates),
            fused : Nat, count : Nat, first : Pointer, last : Pointer]
Hashes == {h \in Records : h.refs \in [1..Allocates[h.index] -> Pointer]}
Slots(h) == 1..Hash!allocated(h)
SlotOf(h, p) == Hash!Slot(h, h.pair[p].key)

Links(h) == [p \in Pairs |-> h.pair[p].link]
Nexts(h) == [p \in Pairs |-> h.pair[p].next]
Prevs(h) == [p \in Pairs |-> h.pair[p].prev]

\* The chains, whose latest pairs come first, and the list, there and back
Chained(h, M, num) ==
    /\ Numbered(M, num)
    /\ \A i \in Slots(h) : Linked(h.refs[i], Links(h), {p \in M : SlotOf(h, p) = i}, num)
Ordered(h, M, ord) ==
    /\ Numbered(M, ord)
    /\ Linked(h.last, Prevs(h), M, ord)
    /\ Linked(h.first, Nexts(h), M, [p \in M |-> -ord[p]])
Distinct(h, M) == \A p, q \in M : h.pair[p].key = h.pair[q].key => p = q

LEMMA HashFields ==
    ASSUME NEW h \in Hashes
    PROVE  /\ h.pair \in [Pairs -> PairFields] /\ h.index \in 1..Len(Allocates) /\ h.fused \in Nat /\ h.count \in Nat
           /\ h.first \in Pointer /\ h.last \in Pointer /\ h.refs \in [Slots(h) -> Pointer]
           /\ \A p \in Pairs : /\ h.pair[p] \in PairFields /\ h.pair[p].key \in Key /\ h.pair[p].value \in Value
                               /\ h.pair[p].link \in Pointer /\ h.pair[p].next \in Pointer /\ h.pair[p].prev \in Pointer
                               /\ Links(h)[p] = h.pair[p].link /\ Nexts(h)[p] = h.pair[p].next /\ Prevs(h)[p] = h.pair[p].prev
           /\ Hash!allocated(h) \in Nat \ {0} /\ Slots(h) = 1..Hash!allocated(h)
           /\ \A k \in Key : Hash!Slot(h, k) \in Slots(h)
           /\ \A p \in Pairs : SlotOf(h, p) \in Slots(h)
<1>1. /\ h.pair \in [Pairs -> PairFields] /\ h.index \in 1..Len(Allocates) /\ h.fused \in Nat /\ h.count \in Nat
      /\ h.first \in Pointer /\ h.last \in Pointer
  BY DEF Hashes, Records
<1>2. ASSUME NEW p \in Pairs
      PROVE  /\ h.pair[p] \in PairFields /\ h.pair[p].key \in Key /\ h.pair[p].value \in Value
             /\ h.pair[p].link \in Pointer /\ h.pair[p].next \in Pointer /\ h.pair[p].prev \in Pointer
             /\ Links(h)[p] = h.pair[p].link /\ Nexts(h)[p] = h.pair[p].next /\ Prevs(h)[p] = h.pair[p].prev
  <2>1. h.pair[p] \in PairFields
    BY <1>1
  <2>. QED
    BY <2>1 DEF PairFields, Links, Nexts, Prevs
<1>3. Hash!allocated(h) \in Nat \ {0}
  BY <1>1, HashConstants DEF Hash!ConstantsOK, Hash!allocated
<1>5. h.refs \in [Slots(h) -> Pointer]
  BY DEF Hashes, Slots, Hash!allocated
<1>4. ASSUME NEW k \in Key PROVE Hash!Slot(h, k) \in Slots(h)
  <2>1. Code[k] \in Nat
    BY HashConstants DEF Hash!ConstantsOK
  <2>. QED
    BY <1>3, <2>1 DEF Hash!Slot, Slots
<1>. QED
  BY <1>1, <1>2, <1>3, <1>4, <1>5 DEF Slots, SlotOf

\* Chains and the list depend on no other fields and pairs
LEMMA SameChains ==
    ASSUME NEW h \in Hashes, NEW g \in Hashes, NEW M, M \subseteq Pairs, NEW num, Chained(h, M, num),
           g.index = h.index, g.refs = h.refs,
           \A p \in M : g.pair[p].key = h.pair[p].key /\ g.pair[p].link = h.pair[p].link
    PROVE  Chained(g, M, num)
<1>1. Slots(g) = Slots(h) /\ \A p \in M : SlotOf(g, p) = SlotOf(h, p) /\ Links(g)[p] = Links(h)[p]
  BY DEF Slots, SlotOf, Hash!Slot, Hash!allocated, Links
<1>2. ASSUME NEW i \in Slots(g) PROVE Linked(g.refs[i], Links(g), {p \in M : SlotOf(g, p) = i}, num)
  <2>1. {p \in M : SlotOf(g, p) = i} = {p \in M : SlotOf(h, p) = i}
    BY <1>1
  <2>2. Linked(h.refs[i], Links(h), {p \in M : SlotOf(h, p) = i}, num)
    BY <1>1 DEF Chained
  <2>. QED
    BY <1>1, <2>1, <2>2 DEF Linked
<1>. QED
  BY <1>2 DEF Chained

LEMMA SameOrder ==
    ASSUME NEW h \in Hashes, NEW g \in Hashes, NEW M, M \subseteq Pairs, NEW ord, Ordered(h, M, ord),
           g.first = h.first, g.last = h.last,
           \A p \in M : g.pair[p].next = h.pair[p].next /\ g.pair[p].prev = h.pair[p].prev
    PROVE  Ordered(g, M, ord)
<1>1. \A p \in M : Nexts(g)[p] = Nexts(h)[p] /\ Prevs(g)[p] = Prevs(h)[p]
  BY DEF Nexts, Prevs
<1>. QED
  BY <1>1 DEF Ordered, Linked

Negative(M, ord) == [p \in M |-> -ord[p]]

\* The places of pairs are where the pointers to them are
Neighbours(h, M) ==
    /\ \A p, q \in M : h.pair[p].next = q <=> h.pair[q].prev = p
    /\ \A p \in M : h.pair[p].next = NoPair <=> h.last = p
    /\ \A p \in M : h.pair[p].prev = NoPair <=> h.first = p
    /\ \A p \in M : h.pair[p].next \in M \/ h.pair[p].next = NoPair
    /\ \A p \in M : h.pair[p].prev \in M \/ h.pair[p].prev = NoPair
    /\ M = {} => h.first = NoPair /\ h.last = NoPair
    /\ M # {} => h.first \in M /\ h.last \in M
Ranks(h, M, ord) ==
    /\ \A p \in M : h.pair[p].next \in M => ord[p] < ord[h.pair[p].next]
    /\ \A p \in M : h.pair[p].prev \in M => ord[h.pair[p].prev] < ord[p]
    /\ \A p \in M : ord[h.first] <= ord[p] /\ ord[p] <= ord[h.last]

LEMMA Mutual ==
    ASSUME NEW M, M \subseteq Pairs, NEW ord, NEW h, Ordered(h, M, ord)
    PROVE  Neighbours(h, M) /\ Ranks(h, M, ord)
<1>. DEFINE neg == Negative(M, ord)
            next(p) == h.pair[p].next
            prev(p) == h.pair[p].prev
<1>0. /\ \A p \in M : ord[p] \in Int /\ p \in Pairs /\ p # NoPair
      /\ \A p, q \in M : ord[p] = ord[q] => p = q
  BY Memories DEF Ordered, Numbered
<1>1. ASSUME NEW p \in M
      PROVE  IF \A q \in M : ~(ord[q] < ord[p]) THEN prev(p) = NoPair
             ELSE prev(p) \in M /\ ord[prev(p)] < ord[p] /\ \A q \in M : ord[q] < ord[p] => ord[q] <= ord[prev(p)]
  <2>1. IsLatest(prev(p), Lower(M, ord, ord[p]), ord)
    BY <1>0 DEF Ordered, Linked, Prevs
  <2>. QED
    BY <1>0, <2>1 DEF IsLatest, Lower
<1>2. ASSUME NEW p \in M
      PROVE  IF \A q \in M : ~(ord[p] < ord[q]) THEN next(p) = NoPair
             ELSE next(p) \in M /\ ord[p] < ord[next(p)] /\ \A q \in M : ord[p] < ord[q] => ord[next(p)] <= ord[q]
  <2>1. IsLatest(next(p), Lower(M, neg, neg[p]), neg)
    BY <1>0 DEF Ordered, Linked, Nexts, Negative
  <2>2. \A q \in M : neg[q] = -ord[q] /\ neg[p] = -ord[p]
    BY DEF Negative
  <2>3. \A q : q \in Lower(M, neg, neg[p]) <=> q \in M /\ ord[p] < ord[q]
    BY <1>0, <2>2 DEF Lower
  <2>. HIDE DEF neg, next
  <2>4. CASE \A q \in M : ~(ord[p] < ord[q])
    BY <2>1, <2>3, <2>4 DEF IsLatest
  <2>5. CASE ~(\A q \in M : ~(ord[p] < ord[q]))
    <3>1. Lower(M, neg, neg[p]) # {}
      BY <2>3, <2>5
    <3>2. next(p) \in Lower(M, neg, neg[p]) /\ \A q \in Lower(M, neg, neg[p]) : neg[q] <= neg[next(p)]
      BY <2>1, <3>1 DEF IsLatest
    <3>3. next(p) \in M /\ ord[p] < ord[next(p)]
      BY <2>3, <3>2
    <3>4. ASSUME NEW q \in M, ord[p] < ord[q] PROVE ord[next(p)] <= ord[q]
      <4>1. neg[q] <= neg[next(p)]
        BY <2>3, <3>2, <3>4
      <4>2. neg[q] = -ord[q] /\ neg[next(p)] = -ord[next(p)] /\ ord[q] \in Int /\ ord[next(p)] \in Int
        BY <1>0, <2>2, <3>3
      <4>. QED
        BY <4>1, <4>2
    <3>. QED
      BY <2>5, <3>3, <3>4
  <2>. QED
    BY <2>4, <2>5
<1>3. IF M = {} THEN h.first = NoPair /\ h.last = NoPair
      ELSE h.first \in M /\ h.last \in M /\ \A p \in M : ord[h.first] <= ord[p] /\ ord[p] <= ord[h.last]
  <2>1. IsLatest(h.last, M, ord) /\ IsLatest(h.first, M, neg)
    BY DEF Ordered, Linked, Negative
  <2>2. CASE M = {}
    BY <2>1, <2>2 DEF IsLatest
  <2>3. CASE M # {}
    <3>1. h.first \in M /\ h.last \in M /\ \A p \in M : neg[p] <= neg[h.first] /\ ord[p] <= ord[h.last]
      BY <2>1, <2>3 DEF IsLatest
    <3>2. ASSUME NEW p \in M PROVE ord[h.first] <= ord[p]
      <4>1. neg[p] = -ord[p] /\ neg[h.first] = -ord[h.first] /\ ord[p] \in Int /\ ord[h.first] \in Int
        BY <1>0, <3>1 DEF Negative
      <4>. QED
        BY <3>1, <4>1
    <3>. QED
      BY <2>3, <3>1, <3>2
  <2>. QED
    BY <2>2, <2>3
<1>4. \A p \in M : (next(p) \in M \/ next(p) = NoPair) /\ (prev(p) \in M \/ prev(p) = NoPair)
  BY <1>1, <1>2
<1>5. \A p \in M : (next(p) \in M => ord[p] < ord[next(p)]) /\ (prev(p) \in M => ord[prev(p)] < ord[p])
  <2>1. ASSUME NEW p \in M, next(p) \in M PROVE ord[p] < ord[next(p)]
    BY <1>0, <1>2, <2>1
  <2>2. ASSUME NEW p \in M, prev(p) \in M PROVE ord[prev(p)] < ord[p]
    BY <1>0, <1>1, <2>2
  <2>. QED
    BY <2>1, <2>2
<1>. HIDE DEF next, prev, neg
<1>6. ASSUME NEW p \in M, NEW q \in M, next(p) = q PROVE prev(q) = p
  <2>1. ord[p] < ord[q] /\ \A r \in M : ord[p] < ord[r] => ord[q] <= ord[r]
    BY <1>0, <1>2, <1>6
  <2>2. prev(q) \in M /\ ord[prev(q)] < ord[q] /\ ord[p] <= ord[prev(q)]
    BY <1>1, <2>1
  <2>3. ~(ord[p] < ord[prev(q)])
    BY <1>0, <2>1, <2>2
  <2>4. ord[p] = ord[prev(q)]
    BY <1>0, <2>2, <2>3
  <2>. QED
    BY <1>0, <2>2, <2>4
<1>7. ASSUME NEW p \in M, NEW q \in M, prev(q) = p PROVE next(p) = q
  <2>1. ord[p] < ord[q] /\ \A r \in M : ord[r] < ord[q] => ord[r] <= ord[p]
    BY <1>0, <1>1, <1>7
  <2>2. next(p) \in M /\ ord[p] < ord[next(p)] /\ ord[next(p)] <= ord[q]
    BY <1>2, <2>1
  <2>3. ~(ord[next(p)] < ord[q])
    BY <1>0, <2>1, <2>2
  <2>4. ord[q] = ord[next(p)]
    BY <1>0, <2>2, <2>3
  <2>. QED
    BY <1>0, <2>2, <2>4
<1>8. ASSUME NEW p \in M PROVE next(p) = NoPair <=> h.last = p
  <2>1. h.last \in M /\ ord[p] <= ord[h.last]
    BY <1>3
  <2>2. h.last = p => \A q \in M : ~(ord[p] < ord[q])
    BY <1>0, <1>3
  <2>3. next(p) = NoPair => ~(ord[p] < ord[h.last])
    BY <1>0, <1>2, <2>1
  <2>4. ~(ord[p] < ord[h.last]) => ord[p] = ord[h.last]
    BY <1>0, <2>1
  <2>. QED
    BY <1>0, <1>2, <2>1, <2>2, <2>3, <2>4
<1>9. ASSUME NEW p \in M PROVE prev(p) = NoPair <=> h.first = p
  <2>1. h.first \in M /\ ord[h.first] <= ord[p]
    BY <1>3
  <2>2. h.first = p => \A q \in M : ~(ord[q] < ord[p])
    BY <1>0, <1>3
  <2>3. prev(p) = NoPair => ~(ord[h.first] < ord[p])
    BY <1>0, <1>1, <2>1
  <2>4. ~(ord[h.first] < ord[p]) => ord[p] = ord[h.first]
    BY <1>0, <2>1
  <2>. QED
    BY <1>0, <1>1, <2>1, <2>2, <2>3, <2>4
<1>10. /\ M = {} => h.first = NoPair /\ h.last = NoPair
       /\ M # {} => h.first \in M /\ h.last \in M
       /\ \A p \in M : ord[h.first] <= ord[p] /\ ord[p] <= ord[h.last]
  BY <1>3
<1>. QED
  BY <1>4, <1>5, <1>6, <1>7, <1>8, <1>9, <1>10 DEF next, prev, Neighbours, Ranks

\* One field of one pair
WithNext(h, p, x) == [h EXCEPT !.pair[p].next = x]
WithPrev(h, p, x) == [h EXCEPT !.pair[p].prev = x]
WithLink(h, p, x) == [h EXCEPT !.pair[p].link = x]

NextIs(g, h, p, x) ==
    /\ g \in Hashes /\ g.refs = h.refs /\ g.index = h.index /\ g.fused = h.fused /\ g.count = h.count
    /\ g.first = h.first /\ g.last = h.last
    /\ \A q \in Pairs : /\ g.pair[q].key = h.pair[q].key /\ g.pair[q].value = h.pair[q].value
                        /\ g.pair[q].link = h.pair[q].link /\ g.pair[q].prev = h.pair[q].prev
                        /\ g.pair[q].next = IF q = p THEN x ELSE h.pair[q].next
PrevIs(g, h, p, x) ==
    /\ g \in Hashes /\ g.refs = h.refs /\ g.index = h.index /\ g.fused = h.fused /\ g.count = h.count
    /\ g.first = h.first /\ g.last = h.last
    /\ \A q \in Pairs : /\ g.pair[q].key = h.pair[q].key /\ g.pair[q].value = h.pair[q].value
                        /\ g.pair[q].link = h.pair[q].link /\ g.pair[q].next = h.pair[q].next
                        /\ g.pair[q].prev = IF q = p THEN x ELSE h.pair[q].prev
LinkIs(g, h, p, x) ==
    /\ g \in Hashes /\ g.refs = h.refs /\ g.index = h.index /\ g.fused = h.fused /\ g.count = h.count
    /\ g.first = h.first /\ g.last = h.last
    /\ \A q \in Pairs : /\ g.pair[q].key = h.pair[q].key /\ g.pair[q].value = h.pair[q].value
                        /\ g.pair[q].prev = h.pair[q].prev /\ g.pair[q].next = h.pair[q].next
                        /\ g.pair[q].link = IF q = p THEN x ELSE h.pair[q].link

LEMMA NextSet ==
    ASSUME NEW h \in Hashes, NEW p \in Pairs, NEW x \in Pointer, NEW g, g = WithNext(h, p, x)
    PROVE  NextIs(g, h, p, x)
<1>1. h.pair \in [Pairs -> PairFields] /\ h.pair[p] \in PairFields
  BY HashFields
<1>. DEFINE c == [h.pair[p] EXCEPT !.next = x]
            f == [h.pair EXCEPT ![p] = c]
<1>2. /\ c \in PairFields /\ c.key = h.pair[p].key /\ c.value = h.pair[p].value
      /\ c.link = h.pair[p].link /\ c.prev = h.pair[p].prev /\ c.next = x
  BY <1>1 DEF PairFields
<1>3. g = [h EXCEPT !.pair = f]
  BY DEF WithNext
<1>. HIDE DEF c
<1>4. f \in [Pairs -> PairFields] /\ f[p] = c /\ \A q \in Pairs : q # p => f[q] = h.pair[q]
  BY <1>1, <1>2
<1>. HIDE DEF f
<1>5. /\ g \in Hashes /\ g.refs = h.refs /\ g.index = h.index /\ g.fused = h.fused /\ g.count = h.count
      /\ g.first = h.first /\ g.last = h.last /\ g.pair = f
  BY <1>3, <1>4 DEF Hashes, Records
<1>. QED
  BY <1>2, <1>4, <1>5 DEF NextIs

LEMMA PrevSet ==
    ASSUME NEW h \in Hashes, NEW p \in Pairs, NEW x \in Pointer, NEW g, g = WithPrev(h, p, x)
    PROVE  PrevIs(g, h, p, x)
<1>1. h.pair \in [Pairs -> PairFields] /\ h.pair[p] \in PairFields
  BY HashFields
<1>. DEFINE c == [h.pair[p] EXCEPT !.prev = x]
            f == [h.pair EXCEPT ![p] = c]
<1>2. /\ c \in PairFields /\ c.key = h.pair[p].key /\ c.value = h.pair[p].value
      /\ c.link = h.pair[p].link /\ c.next = h.pair[p].next /\ c.prev = x
  BY <1>1 DEF PairFields
<1>3. g = [h EXCEPT !.pair = f]
  BY DEF WithPrev
<1>. HIDE DEF c
<1>4. f \in [Pairs -> PairFields] /\ f[p] = c /\ \A q \in Pairs : q # p => f[q] = h.pair[q]
  BY <1>1, <1>2
<1>. HIDE DEF f
<1>5. /\ g \in Hashes /\ g.refs = h.refs /\ g.index = h.index /\ g.fused = h.fused /\ g.count = h.count
      /\ g.first = h.first /\ g.last = h.last /\ g.pair = f
  BY <1>3, <1>4 DEF Hashes, Records
<1>. QED
  BY <1>2, <1>4, <1>5 DEF PrevIs

LEMMA LinkSet ==
    ASSUME NEW h \in Hashes, NEW p \in Pairs, NEW x \in Pointer, NEW g, g = WithLink(h, p, x)
    PROVE  LinkIs(g, h, p, x)
<1>1. h.pair \in [Pairs -> PairFields] /\ h.pair[p] \in PairFields
  BY HashFields
<1>. DEFINE c == [h.pair[p] EXCEPT !.link = x]
            f == [h.pair EXCEPT ![p] = c]
<1>2. /\ c \in PairFields /\ c.key = h.pair[p].key /\ c.value = h.pair[p].value
      /\ c.prev = h.pair[p].prev /\ c.next = h.pair[p].next /\ c.link = x
  BY <1>1 DEF PairFields
<1>3. g = [h EXCEPT !.pair = f]
  BY DEF WithLink
<1>. HIDE DEF c
<1>4. f \in [Pairs -> PairFields] /\ f[p] = c /\ \A q \in Pairs : q # p => f[q] = h.pair[q]
  BY <1>1, <1>2
<1>. HIDE DEF f
<1>5. /\ g \in Hashes /\ g.refs = h.refs /\ g.index = h.index /\ g.fused = h.fused /\ g.count = h.count
      /\ g.first = h.first /\ g.last = h.last /\ g.pair = f
  BY <1>3, <1>4 DEF Hashes, Records
<1>. QED
  BY <1>2, <1>4, <1>5 DEF LinkIs

LEMMA CountSet ==
    ASSUME NEW h \in Hashes, NEW n \in Nat, NEW g, g = [h EXCEPT !.count = n]
    PROVE  /\ g \in Hashes /\ g.refs = h.refs /\ g.index = h.index /\ g.fused = h.fused /\ g.count = n
           /\ g.first = h.first /\ g.last = h.last /\ g.pair = h.pair
  BY DEF Hashes, Records

LEMMA FusedSet ==
    ASSUME NEW h \in Hashes, NEW n \in Nat, NEW g, g = [h EXCEPT !.fused = n]
    PROVE  /\ g \in Hashes /\ g.refs = h.refs /\ g.index = h.index /\ g.fused = n /\ g.count = h.count
           /\ g.first = h.first /\ g.last = h.last /\ g.pair = h.pair
  BY DEF Hashes, Records

\* unorder() takes a pair out of the list
PlaceIs(g, h, place, x) ==
    /\ g \in Hashes /\ g.refs = h.refs /\ g.index = h.index /\ g.fused = h.fused /\ g.count = h.count
    /\ g.first = (IF place = NoPair THEN x ELSE h.first) /\ g.last = h.last
    /\ \A q \in Pairs : /\ g.pair[q].key = h.pair[q].key /\ g.pair[q].value = h.pair[q].value
                        /\ g.pair[q].link = h.pair[q].link /\ g.pair[q].prev = h.pair[q].prev
                        /\ g.pair[q].next = IF q = place THEN x ELSE h.pair[q].next
LEMMA PlaceSet ==
    ASSUME NEW h \in Hashes, NEW place \in Pointer, NEW x \in Pointer, NEW g, g = Hash!put_next(h, place, x)
    PROVE  PlaceIs(g, h, place, x)
<1>0. NoPair \notin Pairs
  BY Memories
<1>1. CASE place = NoPair
  <2>1. g = [h EXCEPT !.first = x]
    BY <1>1 DEF Hash!put_next
  <2>2. /\ g \in Hashes /\ g.refs = h.refs /\ g.index = h.index /\ g.fused = h.fused /\ g.count = h.count
        /\ g.first = x /\ g.last = h.last /\ g.pair = h.pair
    BY <2>1 DEF Hashes, Records
  <2>. QED
    BY <1>0, <1>1, <2>2 DEF PlaceIs
<1>2. CASE place # NoPair
  <2>1. g = WithNext(h, place, x) /\ place \in Pairs
    BY <1>2 DEF Hash!put_next, Pointer, WithNext
  <2>. QED
    BY <1>2, <2>1, NextSet DEF NextIs, PlaceIs
<1>. QED
  BY <1>1, <1>2

Unordered(g, h, p) ==
    /\ g \in Hashes /\ g.refs = h.refs /\ g.index = h.index /\ g.fused = h.fused /\ g.count = h.count
    /\ g.first = (IF h.pair[p].prev = NoPair THEN h.pair[p].next ELSE h.first)
    /\ g.last = (IF h.pair[p].next = NoPair THEN h.pair[p].prev ELSE h.last)
    /\ \A q \in Pairs : /\ g.pair[q].key = h.pair[q].key /\ g.pair[q].value = h.pair[q].value
                        /\ g.pair[q].link = h.pair[q].link
                        /\ g.pair[q].next = IF q = h.pair[p].prev THEN h.pair[p].next ELSE h.pair[q].next
                        /\ g.pair[q].prev = IF q = h.pair[p].next THEN h.pair[p].prev ELSE h.pair[q].prev

LEMMA UnorderIs ==
    ASSUME NEW h \in Hashes, NEW p \in Pairs, NEW g, g = Hash!unorder(h, p)
    PROVE  Unordered(g, h, p)
<1>. DEFINE next == h.pair[p].next
            prev == h.pair[p].prev
            out == Hash!put_next(h, prev, next)
<1>0. next \in Pointer /\ prev \in Pointer /\ NoPair \notin Pairs
  BY HashFields, Memories
<1>1. g = IF next # NoPair THEN [out EXCEPT !.pair[next].prev = prev] ELSE [out EXCEPT !.last = prev]
  BY DEF Hash!unorder
<1>. HIDE DEF next, prev
<1>2. /\ out \in Hashes /\ out.refs = h.refs /\ out.index = h.index /\ out.fused = h.fused /\ out.count = h.count
      /\ out.first = (IF prev = NoPair THEN next ELSE h.first) /\ out.last = h.last
      /\ \A q \in Pairs : /\ out.pair[q].key = h.pair[q].key /\ out.pair[q].value = h.pair[q].value
                          /\ out.pair[q].link = h.pair[q].link /\ out.pair[q].prev = h.pair[q].prev
                          /\ out.pair[q].next = IF q = prev THEN next ELSE h.pair[q].next
  BY <1>0, PlaceSet DEF PlaceIs
<1>. HIDE DEF out
<1>3. CASE next # NoPair
  <2>1. next \in Pairs /\ g = WithPrev(out, next, prev)
    BY <1>0, <1>1, <1>3 DEF Pointer, WithPrev
  <2>2. /\ g \in Hashes /\ g.refs = out.refs /\ g.index = out.index /\ g.fused = out.fused /\ g.count = out.count
        /\ g.first = out.first /\ g.last = out.last
        /\ \A q \in Pairs : /\ g.pair[q].key = out.pair[q].key /\ g.pair[q].value = out.pair[q].value
                            /\ g.pair[q].link = out.pair[q].link /\ g.pair[q].next = out.pair[q].next
                            /\ g.pair[q].prev = IF q = next THEN prev ELSE out.pair[q].prev
    <3>1. PrevIs(g, out, next, prev)
      BY <1>0, <1>2, <2>1, PrevSet
    <3>. QED
      BY <3>1 DEF PrevIs
  <2>. QED
    BY <1>2, <1>3, <2>2 DEF next, prev, Unordered
<1>4. CASE next = NoPair
  <2>1. /\ g \in Hashes /\ g.refs = out.refs /\ g.index = out.index /\ g.fused = out.fused /\ g.count = out.count
        /\ g.first = out.first /\ g.last = prev /\ g.pair = out.pair
    BY <1>0, <1>1, <1>2, <1>4 DEF Hashes, Records
  <2>. QED
    BY <1>0, <1>2, <1>4, <2>1 DEF next, prev, Unordered
<1>. QED
  BY <1>3, <1>4

LEMMA UnorderKeeps ==
    ASSUME NEW h \in Hashes, NEW M, M \subseteq Pairs, NEW ord, Ordered(h, M, ord), NEW p \in M,
           NEW g, g = Hash!unorder(h, p)
    PROVE  Ordered(g, M \ {p}, ord)
<1>. DEFINE next(q) == h.pair[q].next
            prev(q) == h.pair[q].prev
            N == M \ {p}
<1>0. /\ p \in Pairs /\ NoPair \notin M /\ N \subseteq M /\ N \subseteq Pairs
      /\ \A q \in M : q \in Pairs
  BY Memories
<1>1. /\ \A q, r \in M : next(q) = r <=> prev(r) = q
      /\ \A q \in M : next(q) = NoPair <=> h.last = q
      /\ \A q \in M : prev(q) = NoPair <=> h.first = q
      /\ \A q \in M : (next(q) \in M \/ next(q) = NoPair) /\ (prev(q) \in M \/ prev(q) = NoPair)
      /\ h.first \in M /\ h.last \in M
  <2>1. Neighbours(h, M)
    BY Mutual
  <2>. QED
    BY <2>1 DEF Neighbours
<1>2. /\ g.first = (IF prev(p) = NoPair THEN next(p) ELSE h.first)
      /\ g.last = (IF next(p) = NoPair THEN prev(p) ELSE h.last)
      /\ \A q \in Pairs : /\ g.pair[q].next = IF q = prev(p) THEN next(p) ELSE next(q)
                          /\ g.pair[q].prev = IF q = next(p) THEN prev(p) ELSE prev(q)
  BY <1>0, UnorderIs DEF Unordered
<1>3. \A q \in M : Nexts(h)[q] = next(q) /\ Prevs(h)[q] = prev(q) /\ Nexts(g)[q] = g.pair[q].next /\ Prevs(g)[q] = g.pair[q].prev
  BY <1>0 DEF Nexts, Prevs
<1>4. Numbered(M, ord) /\ Linked(h.last, Prevs(h), M, ord) /\ Linked(h.first, Nexts(h), M, Negative(M, ord))
  BY DEF Ordered, Negative
<1>5. Numbered(M, Negative(M, ord))
  BY <1>4 DEF Numbered, Negative
<1>. HIDE DEF next, prev
<1>6. Linked(g.last, Prevs(g), N, ord)
  <2>1. g.last = IF h.last = p THEN Prevs(h)[p] ELSE h.last
    BY <1>1, <1>2, <1>3
  <2>2. \A q \in M \ {p} : Prevs(g)[q] = IF Prevs(h)[q] = p THEN Prevs(h)[p] ELSE Prevs(h)[q]
    BY <1>0, <1>1, <1>2, <1>3
  <2>3. Skips(M, p, h.last, Prevs(h), g.last, Prevs(g))
    BY <2>1, <2>2 DEF Skips
  <2>. HIDE DEF N
  <2>. QED
    BY <1>4, <2>3, TakenOut DEF N
<1>7. Linked(g.first, Nexts(g), N, Negative(M, ord))
  <2>1. g.first = IF h.first = p THEN Nexts(h)[p] ELSE h.first
    BY <1>1, <1>2, <1>3
  <2>2. \A q \in M \ {p} : Nexts(g)[q] = IF Nexts(h)[q] = p THEN Nexts(h)[p] ELSE Nexts(h)[q]
    BY <1>0, <1>1, <1>2, <1>3
  <2>3. Skips(M, p, h.first, Nexts(h), g.first, Nexts(g))
    BY <2>1, <2>2 DEF Skips
  <2>. HIDE DEF N
  <2>. QED
    BY <1>4, <1>5, <2>3, TakenOut DEF N
<1>8. Linked(g.first, Nexts(g), N, Negative(N, ord))
  <2>1. \A q \in N : Negative(N, ord)[q] = Negative(M, ord)[q]
    BY DEF Negative
  <2>2. \A q \in N : Lower(N, Negative(N, ord), Negative(N, ord)[q]) = Lower(N, Negative(M, ord), Negative(M, ord)[q])
    BY <2>1 DEF Lower
  <2>3. \A q : Lower(N, Negative(N, ord), q) \subseteq N
    BY DEF Lower
  <2>. HIDE DEF N
  <2>4. ASSUME NEW x, NEW U, U \subseteq N, IsLatest(x, U, Negative(M, ord)) PROVE IsLatest(x, U, Negative(N, ord))
    BY <2>1, <2>4 DEF IsLatest
  <2>. QED
    BY <1>7, <2>2, <2>3, <2>4 DEF Linked
<1>9. Numbered(N, ord)
  BY <1>4 DEF Numbered
<1>. QED
  BY <1>6, <1>8, <1>9 DEF Ordered, Negative
-----------------------------------------------------------------------------
\* The chain of a slot
LEMMA ChainIs ==
    ASSUME NEW h \in Hashes, NEW M, M \subseteq Pairs, NEW num, Chained(h, M, num), NEW i \in Slots(h)
    PROVE  /\ Enlists(Hash!Chain(h, i), {p \in M : SlotOf(h, p) = i}, num)
           /\ Hash!In(Hash!Chain(h, i)) = {p \in M : SlotOf(h, p) = i}
<1>. DEFINE T == {p \in M : SlotOf(h, p) = i}
<1>1. T \subseteq Pairs /\ Numbered(T, num) /\ Linked(h.refs[i], Links(h), T, num)
  BY DEF Chained, Numbered
<1>. HIDE DEF T
<1>2. PICK s : Enlists(s, T, num)
  BY <1>1, Listing DEF Enlists
<1>3. Hash!Chain(h, i) = s
  BY <1>1, <1>2, FollowIs DEF Hash!Chain, Links
<1>. QED
  BY <1>1, <1>2, <1>3, Enlisted DEF T

LEMMA FindIs ==
    ASSUME NEW h \in Hashes, NEW M, M \subseteq Pairs, NEW num, Chained(h, M, num), Distinct(h, M), NEW k \in Key
    PROVE  /\ Hash!Find(h, k) \in M \cup {NoPair}
           /\ Hash!Find(h, k) # NoPair => h.pair[Hash!Find(h, k)].key = k
           /\ \A p \in M : h.pair[p].key = k => Hash!Find(h, k) = p
<1>. DEFINE i == Hash!Slot(h, k)
            s == Hash!Chain(h, i)
            T == {p \in M : SlotOf(h, p) = i}
            found == {j \in DOMAIN s : h.pair[s[j]].key = k}
            least == CHOOSE j \in found : \A l \in found : j <= l
<1>0. NoPair \notin M
  BY Memories
<1>1. i \in Slots(h)
  BY HashFields
<1>2. Enlists(s, T, num) /\ T \subseteq M
  <2>. HIDE DEF i
  <2>. QED
    BY <1>1, ChainIs
<1>3. Hash!Find(h, k) = IF found = {} THEN NoPair ELSE s[least]
  BY DEF Hash!Find
<1>4. /\ DOMAIN s = 1..Len(s) /\ Len(s) \in Nat /\ \A j \in DOMAIN s : s[j] \in T
      /\ \A p \in T : \E j \in DOMAIN s : s[j] = p
  <2>. HIDE DEF s, T
  <2>. QED
    BY <1>2 DEF Enlists
<1>. HIDE DEF s
<1>5. ASSUME found # {} PROVE least \in found
  <2>1. found \subseteq Nat
    BY <1>4
  <2>. HIDE DEF found
  <2>2. \E j \in found : \A l \in found : j <= l
    BY <1>5, <2>1, Least
  <2>. QED
    BY <2>2
<1>. HIDE DEF least
<1>6. ASSUME NEW p \in M, h.pair[p].key = k PROVE Hash!Find(h, k) = p
  <2>1. p \in T
    BY <1>6 DEF SlotOf
  <2>2. PICK j \in DOMAIN s : s[j] = p
    BY <1>4, <2>1
  <2>3. least \in found
    BY <1>5, <1>6, <2>2
  <2>4. s[least] \in M /\ h.pair[s[least]].key = k
    BY <1>2, <1>4, <2>3
  <2>5. s[least] = p
    BY <1>6, <2>4 DEF Distinct
  <2>. QED
    BY <1>3, <2>3, <2>5
<1>7. CASE found = {}
  BY <1>3, <1>6, <1>7
<1>8. CASE found # {}
  <2>1. s[least] \in M /\ h.pair[s[least]].key = k
    BY <1>2, <1>4, <1>5, <1>8
  <2>. QED
    BY <1>3, <1>6, <1>8, <2>1
<1>. QED
  BY <1>7, <1>8

WithRef(h, i, x) == [h EXCEPT !.refs[i] = x]
RefIs(g, h, i, x) ==
    /\ g \in Hashes /\ g.pair = h.pair /\ g.index = h.index /\ g.fused = h.fused /\ g.count = h.count
    /\ g.first = h.first /\ g.last = h.last /\ g.refs[i] = x
    /\ \A j \in Slots(h) : j # i => g.refs[j] = h.refs[j]
LEMMA RefSet ==
    ASSUME NEW h \in Hashes, NEW i \in Slots(h), NEW x \in Pointer, NEW g, g = WithRef(h, i, x)
    PROVE  RefIs(g, h, i, x)
<1>. DEFINE f == [h.refs EXCEPT ![i] = x]
<1>0. h.refs \in [Slots(h) -> Pointer] /\ Slots(h) = 1..Hash!allocated(h) /\ Hash!allocated(h) \in Nat
      /\ Hash!allocated(h) = Allocates[h.index]
  BY HashFields DEF Hash!allocated
<1>1. f \in [Slots(h) -> Pointer] /\ f[i] = x /\ \A j \in Slots(h) : j # i => f[j] = h.refs[j]
  BY <1>0
<1>2. g = [h EXCEPT !.refs = f]
  BY DEF WithRef
<1>. HIDE DEF f
<1>3. f \in UNION {[1..n -> Pointer] : n \in Nat}
  BY <1>0, <1>1
<1>4. /\ g \in Records /\ g.pair = h.pair /\ g.index = h.index /\ g.fused = h.fused /\ g.count = h.count
      /\ g.first = h.first /\ g.last = h.last /\ g.refs = f
  <2>. HIDE <1>0, <1>1
  <2>. QED
    BY <1>2, <1>3 DEF Records, Hashes
<1>5. g \in Hashes
  BY <1>0, <1>1, <1>4 DEF Hashes
<1>. QED
  BY <1>1, <1>4, <1>5 DEF RefIs

\* unlink() takes a pair out of its chain
Unlinked(g, h) ==
    /\ g \in Hashes /\ g.index = h.index /\ g.fused = h.fused /\ g.count = h.count
    /\ g.first = h.first /\ g.last = h.last
    /\ \A q \in Pairs : /\ g.pair[q].key = h.pair[q].key /\ g.pair[q].value = h.pair[q].value
                        /\ g.pair[q].next = h.pair[q].next /\ g.pair[q].prev = h.pair[q].prev
LEMMA UnlinkKeeps ==
    ASSUME NEW h \in Hashes, NEW M, M \subseteq Pairs, NEW num, Chained(h, M, num), NEW p \in M,
           NEW k \in Key, h.pair[p].key = k, NEW g, g = Hash!unlink(h, k, p), NEW N, N = M \ {p}
    PROVE  Unlinked(g, h) /\ Chained(g, N, num)
<1>. DEFINE i == Hash!Slot(h, k)
            T(j) == {q \in M : SlotOf(h, q) = j}
            s == Hash!Chain(h, i)
            x == h.pair[p].link
            before == CHOOSE q \in Hash!In(s) : h.pair[q].link = p
<1>0. /\ i \in Slots(h) /\ p \in Pairs /\ NoPair \notin Pairs /\ x \in Pointer /\ p \in T(i)
      /\ \A q \in M : q \in Pairs /\ SlotOf(h, q) \in Slots(h)
      /\ h.refs \in [Slots(h) -> Pointer] /\ Numbered(M, num)
  BY HashFields, Memories DEF SlotOf, Chained
<1>1. g = IF h.refs[i] = p THEN WithRef(h, i, x) ELSE WithLink(h, before, x)
  BY DEF Hash!unlink, WithRef, WithLink
<1>2. /\ Enlists(s, T(i), num) /\ Hash!In(s) = T(i) /\ T(i) \subseteq Pairs /\ Numbered(T(i), num)
      /\ Linked(h.refs[i], Links(h), T(i), num)
  <2>. HIDE DEF i
  <2>1. T(i) \subseteq Pairs /\ Numbered(T(i), num)
    BY <1>0 DEF Numbered
  <2>2. Enlists(s, T(i), num) /\ Hash!In(s) = T(i)
    BY <1>0, ChainIs
  <2>3. Linked(h.refs[i], Links(h), T(i), num)
    BY <1>0 DEF Chained
  <2>. QED
    BY <2>1, <2>2, <2>3
<1>. HIDE DEF i, s
<1>3. \A j \in Slots(h) : Linked(h.refs[j], Links(h), T(j), num)
  BY DEF Chained
<1>. HIDE DEF T
<1>4. /\ h.refs[i] = At(s, 1) /\ \A l \in 1..Len(s) : h.pair[s[l]].link = At(s, l + 1)
      /\ Len(s) \in Nat /\ (\A l \in 1..Len(s) : s[l] \in T(i))
      /\ \A l, m \in 1..Len(s) : s[l] = s[m] => l = m
  <2>1. h.refs[i] = At(s, 1) /\ \A l \in 1..Len(s) : Links(h)[s[l]] = At(s, l + 1)
    <3>1. LeadsOn(s, h.refs[i], Links(h))
      BY <1>2, Leads
    <3>. QED
      BY <3>1 DEF LeadsOn
  <2>2. Len(s) \in Nat /\ (\A l \in 1..Len(s) : s[l] \in T(i)) /\ \A l, m \in 1..Len(s) : s[l] = s[m] => l = m
    BY <1>2, Enlisted
  <2>. QED
    BY <1>2, <2>1, <2>2 DEF Links
<1>5. PICK n \in 1..Len(s) : s[n] = p
  BY <1>0, <1>2 DEF Enlists
<1>6. h.refs[i] = p <=> n = 1
  BY <1>0, <1>4, <1>5 DEF At
<1>7. \A q \in T(i) : h.pair[q].link = p <=> n # 1 /\ q = s[n - 1]
  <2>1. ASSUME NEW q \in T(i) PROVE h.pair[q].link = p <=> n # 1 /\ q = s[n - 1]
    <3>1. PICK l \in 1..Len(s) : s[l] = q
      BY <1>2 DEF Enlists
    <3>2. h.pair[q].link = At(s, l + 1)
      BY <1>4, <3>1
    <3>3. CASE l + 1 \in 1..Len(s)
      <4>1. h.pair[q].link = p <=> l + 1 = n
        BY <1>4, <1>5, <3>2, <3>3 DEF At
      <4>2. l + 1 = n <=> n # 1 /\ l = n - 1
        BY <1>4, <1>5
      <4>3. n # 1 => n - 1 \in 1..Len(s)
        BY <1>4, <1>5
      <4>4. n # 1 /\ q = s[n - 1] <=> n # 1 /\ l = n - 1
        BY <1>4, <3>1, <4>3
      <4>. QED
        BY <4>1, <4>2, <4>4
    <3>4. CASE l + 1 \notin 1..Len(s)
      <4>1. h.pair[q].link = NoPair /\ l = Len(s)
        BY <1>4, <3>2, <3>4 DEF At
      <4>2. n # 1 => n - 1 \in 1..Len(s) /\ n - 1 # Len(s)
        BY <1>4, <1>5
      <4>3. ~(n # 1 /\ q = s[n - 1])
        BY <1>4, <3>1, <4>1, <4>2
      <4>. QED
        BY <1>0, <4>1, <4>3
    <3>. QED
      BY <3>3, <3>4
  <2>. QED
    BY <2>1
<1>8. \A q \in M : SlotOf(h, q) # i => h.pair[q].link # p
  <2>1. ASSUME NEW q \in M, SlotOf(h, q) # i PROVE h.pair[q].link # p
    <3>1. IsLatest(h.pair[q].link, Lower(T(SlotOf(h, q)), num, num[q]), num)
      BY <1>0, <1>3 DEF Linked, Links, T
    <3>2. h.pair[q].link \in T(SlotOf(h, q)) \/ h.pair[q].link = NoPair
      BY <3>1 DEF IsLatest, Lower
    <3>. QED
      BY <1>0, <2>1, <3>2 DEF T
  <2>. QED
    BY <2>1
<1>9. n # 1 => s[n - 1] \in T(i) /\ before = s[n - 1]
  <2>1. ASSUME n # 1 PROVE s[n - 1] \in T(i)
    <3>1. n - 1 \in 1..Len(s)
      BY <1>4, <1>5, <2>1
    <3>. QED
      BY <1>4, <3>1
  <2>2. ASSUME n # 1 PROVE before = s[n - 1]
    BY <1>2, <1>7, <2>1, <2>2
  <2>. QED
    BY <2>1, <2>2
<1>. HIDE DEF before, x
<1>10. /\ Unlinked(g, h)
       /\ g.refs[i] = (IF h.refs[i] = p THEN x ELSE h.refs[i]) /\ \A j \in Slots(h) : j # i => g.refs[j] = h.refs[j]
       /\ \A q \in M : g.pair[q].link = IF h.pair[q].link = p THEN x ELSE h.pair[q].link
  <2>1. CASE n = 1
    <3>1. RefIs(g, h, i, x)
      BY <1>0, <1>1, <1>6, <2>1, RefSet
    <3>2. \A q \in M : h.pair[q].link # p
      BY <1>7, <1>8, <2>1 DEF T
    <3>. QED
      BY <1>6, <2>1, <3>1, <3>2 DEF RefIs, Unlinked
  <2>2. CASE n # 1
    <3>1. before \in Pairs /\ g = WithLink(h, before, x)
      BY <1>1, <1>2, <1>6, <1>9, <2>2
    <3>2. LinkIs(g, h, before, x)
      BY <1>0, <3>1, LinkSet
    <3>3. \A q \in M : h.pair[q].link = p <=> q = before
      BY <1>7, <1>8, <1>9, <2>2 DEF T
    <3>. QED
      BY <1>0, <1>6, <2>2, <3>2, <3>3 DEF LinkIs, Unlinked
  <2>. QED
    BY <2>1, <2>2
<1>11. Slots(g) = Slots(h) /\ \A q \in Pairs : SlotOf(g, q) = SlotOf(h, q)
  BY <1>10 DEF Unlinked, Slots, SlotOf, Hash!Slot, Hash!allocated
<1>12. ASSUME NEW j \in Slots(g) PROVE Linked(g.refs[j], Links(g), {q \in N : SlotOf(g, q) = j}, num)
  <2>0. {q \in N : SlotOf(g, q) = j} = T(j) \ {p} /\ T(j) \subseteq M /\ j \in Slots(h)
    BY <1>0, <1>11 DEF T
  <2>1. /\ \A q \in M : Links(g)[q] = g.pair[q].link /\ Links(h)[q] = h.pair[q].link
        /\ Links(h)[p] = x
    BY <1>0 DEF Links, x
  <2>2. CASE j = i
    <3>1. Skips(T(i), p, h.refs[i], Links(h), g.refs[i], Links(g))
      BY <1>10, <2>0, <2>1, <2>2 DEF Skips
    <3>. QED
      BY <1>0, <1>2, <2>0, <2>2, <3>1, TakenOut
  <2>3. CASE j # i
    <3>1. p \notin T(j) /\ g.refs[j] = h.refs[j]
      BY <1>0, <1>10, <2>0, <2>3 DEF T
    <3>2. \A q \in T(j) : Links(g)[q] = Links(h)[q]
      BY <1>8, <1>10, <2>1, <2>3 DEF T
    <3>3. Linked(h.refs[j], Links(h), T(j), num) /\ T(j) \ {p} = T(j)
      BY <1>3, <2>0, <3>1
    <3>. QED
      BY <2>0, <3>1, <3>2, <3>3 DEF Linked
  <2>. QED
    BY <2>2, <2>3
<1>13. Numbered(N, num)
  BY <1>0 DEF Numbered
<1>. QED
  BY <1>10, <1>12, <1>13 DEF Chained

\* A hash in order: its pairs M, the numbers of their chains, and of the list
Whole(h, M, num, ord) ==
    /\ h \in Hashes /\ M \subseteq Pairs
    /\ Chained(h, M, num) /\ Ordered(h, M, ord) /\ Distinct(h, M)

\* removed() takes the pair of a key away
Removed(g, h, p) ==
    /\ g \in Hashes /\ g.index = h.index /\ g.fused = h.fused /\ g.count = h.count - 1
    /\ \A q \in Pairs : /\ g.pair[q].key = h.pair[q].key /\ g.pair[q].value = h.pair[q].value
                        /\ g.pair[q].next = IF q = h.pair[p].prev THEN h.pair[p].next ELSE h.pair[q].next
                        /\ g.pair[q].prev = IF q = h.pair[p].next THEN h.pair[p].prev ELSE h.pair[q].prev
\* or of a hash of which some pairs are in no chain.
Partly(h, C, M, num, ord) ==
    /\ h \in Hashes /\ M \subseteq Pairs /\ C \subseteq M
    /\ Chained(h, C, num) /\ Ordered(h, M, ord) /\ Distinct(h, M)
LEMMA RemovedFrom ==
    ASSUME NEW h, NEW C, NEW M, NEW num, NEW ord, Partly(h, C, M, num, ord), NEW k \in Key,
           NEW p, p = Hash!Find(h, k), p # NoPair, h.count > 0, NEW g, g = Hash!removed(h, k),
           NEW D, D = C \ {p}, NEW N, N = M \ {p}
    PROVE  Removed(g, h, p) /\ Partly(g, D, N, num, ord) /\ p \in C
<1>. DEFINE g1 == Hash!unorder(h, p)
            g2 == Hash!unlink(g1, k, p)
<1>0. /\ h \in Hashes /\ M \subseteq Pairs /\ C \subseteq M /\ Chained(h, C, num) /\ Ordered(h, M, ord) /\ Distinct(h, M)
      /\ h.count \in Nat /\ C \subseteq Pairs /\ Distinct(h, C)
  BY HashFields DEF Partly, Distinct
<1>1. p \in C /\ p \in M /\ p \in Pairs /\ h.pair[p].key = k
  BY <1>0, FindIs
<1>2. g = [g2 EXCEPT !.count = g2.count - 1]
  BY DEF Hash!removed
<1>. HIDE DEF g2
<1>3. Unordered(g1, h, p)
  BY <1>0, <1>1, UnorderIs
<1>4. Ordered(g1, N, ord)
  BY <1>0, <1>1, UnorderKeeps
<1>. HIDE DEF g1
<1>5. /\ g1 \in Hashes /\ g1.refs = h.refs /\ g1.index = h.index /\ g1.fused = h.fused /\ g1.count = h.count
      /\ \A q \in Pairs : /\ g1.pair[q].key = h.pair[q].key /\ g1.pair[q].value = h.pair[q].value
                          /\ g1.pair[q].link = h.pair[q].link
                          /\ g1.pair[q].next = IF q = h.pair[p].prev THEN h.pair[p].next ELSE h.pair[q].next
                          /\ g1.pair[q].prev = IF q = h.pair[p].next THEN h.pair[p].prev ELSE h.pair[q].prev
  BY <1>3 DEF Unordered
<1>6. Chained(g1, C, num)
  <2>1. \A q \in C : g1.pair[q].key = h.pair[q].key /\ g1.pair[q].link = h.pair[q].link
    BY <1>0, <1>5
  <2>. QED
    BY <1>0, <1>5, <2>1, SameChains
<1>7. Unlinked(g2, g1) /\ Chained(g2, D, num)
  <2>1. g1.pair[p].key = k
    BY <1>1, <1>5
  <2>2. g1 \in Hashes /\ C \subseteq Pairs /\ D = C \ {p} /\ p \in C
    BY <1>0, <1>1, <1>5
  <2>3. g2 = Hash!unlink(g1, k, p)
    BY DEF g2
  <2>. QED
    BY <1>6, <2>1, <2>2, <2>3, UnlinkKeeps
<1>8. /\ g2 \in Hashes /\ g2.index = g1.index /\ g2.fused = g1.fused /\ g2.count = g1.count
      /\ g2.first = g1.first /\ g2.last = g1.last
      /\ \A q \in Pairs : /\ g2.pair[q].key = g1.pair[q].key /\ g2.pair[q].value = g1.pair[q].value
                          /\ g2.pair[q].next = g1.pair[q].next /\ g2.pair[q].prev = g1.pair[q].prev
  BY <1>7 DEF Unlinked
<1>9. N \subseteq Pairs /\ N \subseteq M /\ D \subseteq N /\ D \subseteq Pairs
  BY <1>0
<1>10. Ordered(g2, N, ord)
  <2>1. \A q \in N : g2.pair[q].next = g1.pair[q].next /\ g2.pair[q].prev = g1.pair[q].prev
    BY <1>8, <1>9
  <2>. QED
    BY <1>4, <1>5, <1>8, <1>9, <2>1, SameOrder
<1>11. /\ g \in Hashes /\ g.refs = g2.refs /\ g.index = g2.index /\ g.fused = g2.fused /\ g.count = h.count - 1
       /\ g.first = g2.first /\ g.last = g2.last /\ g.pair = g2.pair
  <2>1. g2.count - 1 \in Nat
    BY <1>0, <1>5, <1>8
  <2>. QED
    BY <1>2, <1>5, <1>8, <2>1, CountSet
<1>12. Removed(g, h, p)
  BY <1>5, <1>8, <1>11 DEF Removed
<1>13. Chained(g, D, num)
  BY <1>7, <1>8, <1>9, <1>11, SameChains
<1>14. Ordered(g, N, ord)
  BY <1>8, <1>9, <1>10, <1>11, SameOrder
<1>15. Distinct(g, N)
  <2>1. \A q \in N : g.pair[q].key = h.pair[q].key /\ q \in M
    BY <1>5, <1>8, <1>9, <1>11
  <2>. QED
    BY <1>0, <2>1 DEF Distinct
<1>. QED
  BY <1>1, <1>9, <1>11, <1>12, <1>13, <1>14, <1>15 DEF Partly

LEMMA RemovedIs ==
    ASSUME NEW h, NEW M, NEW num, NEW ord, Whole(h, M, num, ord), NEW k \in Key,
           NEW p, p = Hash!Find(h, k), p # NoPair, h.count > 0, NEW g, g = Hash!removed(h, k), NEW N, N = M \ {p}
    PROVE  Removed(g, h, p) /\ Whole(g, N, num, ord) /\ p \in M
<1>1. Partly(h, M, M, num, ord)
  BY DEF Whole, Partly
<1>2. Removed(g, h, p) /\ Partly(g, N, N, num, ord) /\ p \in M
  BY <1>1, RemovedFrom
<1>. QED
  BY <1>2 DEF Whole, Partly

\* order_next() puts a pair at the end of the list
Appended(g, h, p) ==
    /\ g \in Hashes /\ g.refs = h.refs /\ g.index = h.index /\ g.fused = h.fused /\ g.count = h.count
    /\ g.first = (IF h.last = NoPair THEN p ELSE h.first) /\ g.last = p
    /\ \A q \in Pairs : /\ g.pair[q].key = h.pair[q].key /\ g.pair[q].value = h.pair[q].value
                        /\ g.pair[q].link = h.pair[q].link
                        /\ g.pair[q].next = IF q = h.last THEN p ELSE IF q = p THEN NoPair ELSE h.pair[q].next
                        /\ g.pair[q].prev = IF q = p THEN h.last ELSE h.pair[q].prev
LEMMA OrderNextIs ==
    ASSUME NEW h \in Hashes, NEW p \in Pairs, NEW g, g = Hash!order_next(h, p)
    PROVE  Appended(g, h, p)
<1>. DEFINE g1 == WithPrev(h, p, h.last)
            g2 == WithNext(g1, p, NoPair)
            g3 == Hash!put_next(g2, h.last, p)
<1>0. h.last \in Pointer /\ p \in Pointer /\ NoPair \in Pointer
  BY HashFields DEF Pointer
<1>1. g = [g3 EXCEPT !.last = p]
  BY DEF Hash!order_next, WithPrev, WithNext
<1>. HIDE DEF g3
<1>2. PrevIs(g1, h, p, h.last)
  BY <1>0, PrevSet
<1>. HIDE DEF g1
<1>3. NextIs(g2, g1, p, NoPair)
  BY <1>0, <1>2, NextSet DEF PrevIs
<1>. HIDE DEF g2
<1>4. /\ g2 \in Hashes /\ g2.refs = h.refs /\ g2.index = h.index /\ g2.fused = h.fused /\ g2.count = h.count
      /\ g2.first = h.first /\ g2.last = h.last
      /\ \A q \in Pairs : /\ g2.pair[q].key = h.pair[q].key /\ g2.pair[q].value = h.pair[q].value
                          /\ g2.pair[q].link = h.pair[q].link
                          /\ g2.pair[q].next = IF q = p THEN NoPair ELSE h.pair[q].next
                          /\ g2.pair[q].prev = IF q = p THEN h.last ELSE h.pair[q].prev
  BY <1>2, <1>3 DEF NextIs, PrevIs
<1>5. /\ g3 \in Hashes /\ g3.refs = g2.refs /\ g3.index = g2.index /\ g3.fused = g2.fused /\ g3.count = g2.count
      /\ g3.first = (IF h.last = NoPair THEN p ELSE g2.first) /\ g3.last = g2.last
      /\ \A q \in Pairs : /\ g3.pair[q].key = g2.pair[q].key /\ g3.pair[q].value = g2.pair[q].value
                          /\ g3.pair[q].link = g2.pair[q].link /\ g3.pair[q].prev = g2.pair[q].prev
                          /\ g3.pair[q].next = IF q = h.last THEN p ELSE g2.pair[q].next
  <2>1. PlaceIs(g3, g2, h.last, p)
    BY <1>0, <1>4, PlaceSet DEF g3
  <2>. QED
    BY <2>1 DEF PlaceIs
<1>6. /\ g \in Hashes /\ g.refs = g3.refs /\ g.index = g3.index /\ g.fused = g3.fused /\ g.count = g3.count
      /\ g.first = g3.first /\ g.last = p /\ g.pair = g3.pair
  BY <1>0, <1>1, <1>5 DEF Hashes, Records
<1>. QED
  BY <1>4, <1>5, <1>6 DEF Appended

LEMMA OrderNextKeeps ==
    ASSUME NEW h \in Hashes, NEW M, M \subseteq Pairs, NEW ord, Ordered(h, M, ord), NEW p,
           NEW ord2, Numbers(M, ord, ord2, p), \A q \in M : ord[q] < ord2[p],
           NEW g, g = Hash!order_next(h, p), NEW N, N = M \cup {p}
    PROVE  Ordered(g, N, ord2)
<1>. DEFINE neg == Negative(M, ord)
            neg2 == Negative(N, ord2)
<1>0. /\ p \in Pairs /\ p \notin M /\ ord2[p] \in Int /\ (\A q \in M : ord2[q] = ord[q] /\ q \in Pairs /\ ord[q] \in Int)
      /\ NoPair \notin M /\ NoPair \notin Pairs
  BY Memories DEF Numbers, Ordered, Numbered
<1>1. Appended(g, h, p)
  BY <1>0, OrderNextIs
<1>2. Neighbours(h, M)
  BY Mutual
<1>3. Numbered(M, ord) /\ Linked(h.last, Prevs(h), M, ord) /\ Linked(h.first, Nexts(h), M, neg)
  BY DEF Ordered, Negative
<1>4. \A q \in Pairs : /\ Nexts(h)[q] = h.pair[q].next /\ Prevs(h)[q] = h.pair[q].prev
                       /\ Nexts(g)[q] = g.pair[q].next /\ Prevs(g)[q] = g.pair[q].prev
  BY DEF Nexts, Prevs
<1>5. Numbered(N, ord2) /\ Linked(g.last, Prevs(g), N, ord2)
  <2>1. Prevs(g)[p] = h.last /\ g.last = p /\ \A q \in M : Prevs(g)[q] = Prevs(h)[q]
    BY <1>0, <1>1, <1>4 DEF Appended
  <2>. QED
    BY <1>3, <2>1, PutAhead
<1>6. Linked(g.first, Nexts(g), N, neg2)
  <2>1. Numbered(M, neg)
    BY <1>3 DEF Numbered, Negative
  <2>2. Numbers(M, neg, neg2, p) /\ \A q \in M : neg2[p] < neg[q]
    BY <1>0 DEF Numbers, Negative
  <2>3. Reaches(M, p, h.first, Nexts(h), g.first, Nexts(g))
    <3>1. h.first = NoPair <=> h.last = NoPair
      BY <1>0, <1>2 DEF Neighbours
    <3>2. \A q \in M : h.pair[q].next = NoPair <=> h.last = q
      BY <1>2 DEF Neighbours
    <3>3. h.last # p
      BY <1>0, <1>2 DEF Neighbours
    <3>. QED
      BY <1>0, <1>1, <1>4, <3>1, <3>2, <3>3 DEF Reaches, Appended
  <2>. HIDE DEF neg, neg2
  <2>. QED
    BY <1>3, <2>1, <2>2, <2>3, PutBehind
<1>. QED
  BY <1>5, <1>6 DEF Ordered, Negative

\* A pair gets all its fields
WithPair(h, p, c) == [h EXCEPT !.pair[p] = c]
PairIs(g, h, p, c) ==
    /\ g \in Hashes /\ g.refs = h.refs /\ g.index = h.index /\ g.fused = h.fused /\ g.count = h.count
    /\ g.first = h.first /\ g.last = h.last /\ g.pair[p] = c
    /\ \A q \in Pairs : q # p => g.pair[q] = h.pair[q]
LEMMA PairSet ==
    ASSUME NEW h \in Hashes, NEW p \in Pairs, NEW c \in PairFields, NEW g, g = WithPair(h, p, c)
    PROVE  PairIs(g, h, p, c)
<1>. DEFINE f == [h.pair EXCEPT ![p] = c]
<1>1. f \in [Pairs -> PairFields] /\ f[p] = c /\ \A q \in Pairs : q # p => f[q] = h.pair[q]
  BY HashFields
<1>2. g = [h EXCEPT !.pair = f]
  BY DEF WithPair
<1>. HIDE DEF f
<1>3. /\ g \in Hashes /\ g.refs = h.refs /\ g.index = h.index /\ g.fused = h.fused /\ g.count = h.count
      /\ g.first = h.first /\ g.last = h.last /\ g.pair = f
  BY <1>1, <1>2 DEF Hashes, Records
<1>. QED
  BY <1>1, <1>3 DEF PairIs

\* added() without order_next()
Started(h, k, v, p) ==
    [h EXCEPT !.pair[p] = [Hash!None EXCEPT !.key = k, !.value = v, !.link = h.refs[Hash!Slot(h, k)]],
              !.refs[Hash!Slot(h, k)] = p, !.count = @ + 1,
              !.fused = IF h.refs[Hash!Slot(h, k)] = NoPair THEN @ + 1 ELSE @]
NewPair(k, v, x) == [key |-> k, value |-> v, link |-> x, next |-> NoPair, prev |-> NoPair]

LEMMA NoneIs ==
    ASSUME NEW k, NEW v, NEW x
    PROVE  /\ [Hash!None EXCEPT !.key = k, !.value = v, !.link = x] = NewPair(k, v, x)
           /\ Hash!None.key \in Key /\ Hash!None.value \in Value /\ Hash!None.link = NoPair /\ Hash!None.next = NoPair
           /\ Hash!None.prev = NoPair /\ Hash!None \in PairFields
<1>1. Key # {} /\ Value # {}
  BY HashConstants DEF Hash!ConstantsOK
<1>. DEFINE key == CHOOSE a \in Key : TRUE
            value == CHOOSE a \in Value : TRUE
<1>2. key \in Key /\ value \in Value
  BY <1>1
<1>3. Hash!None = [key |-> key, value |-> value, link |-> NoPair, next |-> NoPair, prev |-> NoPair]
  BY DEF Hash!None
<1>. HIDE DEF key, value
<1>4. [Hash!None EXCEPT !.key = k, !.value = v, !.link = x] = [key |-> k, value |-> v, link |-> x, next |-> NoPair, prev |-> NoPair]
  <2>. DEFINE r1 == [Hash!None EXCEPT !.key = k]
              r2 == [r1 EXCEPT !.value = v]
              r3 == [r2 EXCEPT !.link = x]
  <2>1. r1 = [key |-> k, value |-> value, link |-> NoPair, next |-> NoPair, prev |-> NoPair]
    BY <1>3
  <2>. HIDE DEF r1
  <2>2. r2 = [key |-> k, value |-> v, link |-> NoPair, next |-> NoPair, prev |-> NoPair]
    BY <2>1
  <2>. HIDE DEF r2
  <2>3. r3 = [key |-> k, value |-> v, link |-> x, next |-> NoPair, prev |-> NoPair]
    BY <2>2
  <2>4. [Hash!None EXCEPT !.key = k, !.value = v, !.link = x] = r3
    BY DEF r2, r1
  <2>. QED
    BY <2>3, <2>4
<1>5. NoPair \in Pointer
  BY DEF Pointer
<1>6. Hash!None \in PairFields
  BY <1>2, <1>3, <1>5 DEF PairFields
<1>7. /\ Hash!None.key = key /\ Hash!None.value = value /\ Hash!None.link = NoPair /\ Hash!None.next = NoPair
      /\ Hash!None.prev = NoPair
  BY <1>3
<1>. QED
  BY <1>2, <1>4, <1>6, <1>7 DEF NewPair

StartedIs(g, h, i, p, c) ==
    /\ g \in Hashes /\ g.index = h.index /\ g.count = h.count + 1 /\ g.first = h.first /\ g.last = h.last
    /\ g.pair[p] = c /\ \A q \in Pairs : q # p => g.pair[q] = h.pair[q]
    /\ g.refs[i] = p /\ \A j \in Slots(h) : j # i => g.refs[j] = h.refs[j]
LEMMA StartsAs ==
    ASSUME NEW h \in Hashes, NEW k \in Key, NEW v \in Value, NEW p \in Pairs, NEW g, g = Started(h, k, v, p),
           NEW i, i = Hash!Slot(h, k)
    PROVE  StartedIs(g, h, i, p, NewPair(k, v, h.refs[i]))
<1>. DEFINE c == NewPair(k, v, h.refs[i])
            g1 == WithPair(h, p, c)
            g2 == WithRef(g1, i, p)
            g3 == [g2 EXCEPT !.count = g2.count + 1]
            n == IF h.refs[i] = NoPair THEN g3.fused + 1 ELSE g3.fused
<1>0. /\ i \in Slots(h) /\ h.refs[i] \in Pointer /\ p \in Pointer /\ h.count \in Nat /\ h.fused \in Nat
  BY HashFields DEF Pointer
<1>1. c \in PairFields
  BY <1>0 DEF NewPair, PairFields, Pointer
<1>2. g = [g3 EXCEPT !.fused = n]
  <2>1. g = [h EXCEPT !.pair[p] = c, !.refs[i] = p, !.count = @ + 1, !.fused = IF h.refs[i] = NoPair THEN @ + 1 ELSE @]
    <3>0. \A x : [Hash!None EXCEPT !.key = k, !.value = v, !.link = x] = NewPair(k, v, x)
      BY NoneIs
    <3>1. [Hash!None EXCEPT !.key = k, !.value = v, !.link = h.refs[i]] = c
      BY <3>0
    <3>. HIDE DEF c
    <3>. QED
      BY <3>1 DEF Started
  <2>. HIDE DEF c
  <2>2. DEFINE a == [h.pair EXCEPT ![p] = c]
               b == [h.refs EXCEPT ![i] = p]
  <2>. HIDE DEF a, b
  <2>3. g = [h EXCEPT !.pair = a, !.refs = b, !.count = @ + 1, !.fused = IF h.refs[i] = NoPair THEN @ + 1 ELSE @]
    BY <2>1 DEF a, b
  <2>4. g2 = [h EXCEPT !.pair = a, !.refs = b]
    BY DEF a, b, WithPair, WithRef
  <2>. QED
    BY <2>3, <2>4 DEF Hashes, Records
<1>3. PairIs(g1, h, p, c)
  <2>. HIDE DEF c
  <2>. QED
    BY <1>1, PairSet
<1>. HIDE DEF g1, c
<1>4. RefIs(g2, g1, i, p) /\ Slots(g1) = Slots(h)
  <2>1. g1 \in Hashes /\ g1.index = h.index
    BY <1>3 DEF PairIs
  <2>2. Slots(g1) = Slots(h)
    BY <2>1 DEF Slots, Hash!allocated
  <2>. QED
    BY <1>0, <2>1, <2>2, RefSet
<1>. HIDE DEF g2
<1>5. g2 \in Hashes /\ g2.count = h.count /\ g2.fused = h.fused
  BY <1>3, <1>4 DEF PairIs, RefIs
<1>6. /\ g3 \in Hashes /\ g3.refs = g2.refs /\ g3.index = g2.index /\ g3.fused = g2.fused /\ g3.count = g2.count + 1
      /\ g3.first = g2.first /\ g3.last = g2.last /\ g3.pair = g2.pair
  <2>1. g2.count + 1 \in Nat
    BY <1>0, <1>5
  <2>. HIDE DEF g3
  <2>. QED
    BY <1>5, <2>1, CountSet DEF g3
<1>. HIDE DEF g3
<1>7. /\ g \in Hashes /\ g.refs = g3.refs /\ g.index = g3.index /\ g.count = g3.count
      /\ g.first = g3.first /\ g.last = g3.last /\ g.pair = g3.pair
  <2>1. n \in Nat
    BY <1>0, <1>5, <1>6
  <2>. HIDE DEF n
  <2>. QED
    BY <1>2, <1>6, <2>1, FusedSet
<1>. QED
  BY <1>3, <1>4, <1>5, <1>6, <1>7 DEF PairIs, RefIs, StartedIs, c

\* A pair is put at the head of its chain
Ahead(g, h, C, p, i) ==
    /\ g \in Hashes /\ h \in Hashes /\ C \subseteq Pairs /\ g.index = h.index
    /\ i \in Slots(h) /\ SlotOf(g, p) = i /\ g.pair[p].link = h.refs[i] /\ g.refs[i] = p
    /\ \A j \in Slots(h) : j # i => g.refs[j] = h.refs[j]
    /\ \A q \in C : g.pair[q].key = h.pair[q].key /\ g.pair[q].link = h.pair[q].link
LEMMA AtHead ==
    ASSUME NEW g, NEW h, NEW C, NEW p, NEW i, Ahead(g, h, C, p, i), NEW num, Chained(h, C, num), NEW num2,
           Numbers(C, num, num2, p), \A q \in C : num[q] < num2[p], NEW N, N = C \cup {p}
    PROVE  Chained(g, N, num2)
<1>. DEFINE T(j) == {q \in C : SlotOf(h, q) = j}
<1>0. C \subseteq Pairs /\ p \in Pairs /\ p \notin C
  BY DEF Ahead, Numbers
<1>1. /\ Slots(g) = Slots(h) /\ SlotOf(g, p) = i /\ \A q \in C : SlotOf(g, q) = SlotOf(h, q)
      /\ Links(g)[p] = h.refs[i] /\ \A q \in C : Links(g)[q] = Links(h)[q]
  BY <1>0 DEF Ahead, Slots, SlotOf, Hash!Slot, Hash!allocated, Links
<1>2. Numbered(N, num2)
  BY <1>0 DEF Numbered, Numbers, Chained
<1>3. ASSUME NEW j \in Slots(g)
      PROVE  Linked(g.refs[j], Links(g), {q \in N : SlotOf(g, q) = j}, num2)
  <2>0. /\ T(j) \subseteq Pairs /\ Numbered(T(j), num) /\ Linked(h.refs[j], Links(h), T(j), num)
        /\ \A q \in T(j) : Links(g)[q] = Links(h)[q] /\ num[q] < num2[p] /\ num2[q] = num[q]
    BY <1>0, <1>1, <1>3 DEF Chained, Numbered, Numbers
  <2>1. CASE j = i
    <3>1. {q \in N : SlotOf(g, q) = j} = T(j) \cup {p}
      BY <1>0, <1>1, <2>1
    <3>2. Numbers(T(j), num, num2, p)
      BY <1>0 DEF Numbers
    <3>3. Links(g)[p] = h.refs[j] /\ g.refs[j] = p
      BY <1>1, <2>1 DEF Ahead
    <3>. HIDE DEF T
    <3>4. Linked(p, Links(g), {q \in N : SlotOf(g, q) = j}, num2)
      BY <2>0, <3>1, <3>2, <3>3, PutAhead
    <3>. QED
      BY <3>3, <3>4
  <2>2. CASE j # i
    <3>1. {q \in N : SlotOf(g, q) = j} = T(j)
      BY <1>0, <1>1, <2>2
    <3>2. g.refs[j] = h.refs[j]
      BY <1>1, <1>3, <2>2 DEF Ahead
    <3>. HIDE DEF T
    <3>3. \A q \in T(j) : Lower(T(j), num2, num2[q]) = Lower(T(j), num, num[q])
      BY <2>0 DEF Lower
    <3>4. ASSUME NEW x, NEW U, U \subseteq T(j), IsLatest(x, U, num) PROVE IsLatest(x, U, num2)
      BY <2>0, <3>4 DEF IsLatest
    <3>5. \A q : Lower(T(j), num, q) \subseteq T(j)
      BY DEF Lower
    <3>6. IsLatest(g.refs[j], T(j), num2)
      BY <2>0, <3>2, <3>4 DEF Linked
    <3>7. ASSUME NEW q \in T(j) PROVE IsLatest(Links(g)[q], Lower(T(j), num2, num2[q]), num2)
      <4>1. IsLatest(Links(h)[q], Lower(T(j), num, num[q]), num)
        BY <2>0 DEF Linked
      <4>2. Links(g)[q] = Links(h)[q] /\ Lower(T(j), num2, num2[q]) = Lower(T(j), num, num[q])
        BY <2>0, <3>3
      <4>3. IsLatest(Links(h)[q], Lower(T(j), num, num[q]), num2)
        BY <3>4, <3>5, <4>1
      <4>. QED
        BY <4>2, <4>3
    <3>. QED
      BY <3>1, <3>6, <3>7 DEF Linked
  <2>. QED
    BY <2>1, <2>2
<1>. QED
  BY <1>2, <1>3 DEF Chained

\* added() puts a new pair at the head of its chain and at the end of the list
AddedTo(g, h, k, v, p) ==
    /\ g \in Hashes /\ g.index = h.index /\ g.count = h.count + 1
    /\ g.pair[p].key = k /\ g.pair[p].value = v
    /\ \A q \in Pairs : q # p => /\ g.pair[q].key = h.pair[q].key /\ g.pair[q].value = h.pair[q].value
                                 /\ g.pair[q].next = (IF q = h.last THEN p ELSE h.pair[q].next)
                                 /\ g.pair[q].prev = h.pair[q].prev
LEMMA AddedIs ==
    ASSUME NEW h, NEW M, NEW num, NEW ord, Whole(h, M, num, ord), NEW k \in Key, \A q \in M : h.pair[q].key # k,
           NEW v \in Value, NEW p, NEW num2, Numbers(M, num, num2, p), \A q \in M : num[q] < num2[p],
           NEW ord2, Numbers(M, ord, ord2, p), \A q \in M : ord[q] < ord2[p],
           NEW g, g = Hash!added(h, k, v, p), NEW N, N = M \cup {p}
    PROVE  AddedTo(g, h, k, v, p) /\ Whole(g, N, num2, ord2)
<1>. DEFINE g1 == Started(h, k, v, p)
            i == Hash!Slot(h, k)
            c == NewPair(k, v, h.refs[i])
<1>0. /\ h \in Hashes /\ M \subseteq Pairs /\ Chained(h, M, num) /\ Ordered(h, M, ord) /\ Distinct(h, M)
      /\ p \in Pairs /\ p \notin M /\ \A q \in M : q \in Pairs
  BY DEF Whole, Numbers
<1>1. g = Hash!order_next(g1, p)
  BY DEF Hash!added, Started
<1>2. StartedIs(g1, h, i, p, c)
  BY <1>0, StartsAs
<1>. HIDE DEF g1, i
<1>3. /\ g1 \in Hashes /\ g1.index = h.index /\ g1.count = h.count + 1 /\ g1.first = h.first /\ g1.last = h.last
      /\ g1.pair[p] = c /\ \A q \in Pairs : q # p => g1.pair[q] = h.pair[q]
      /\ g1.refs[i] = p /\ \A j \in Slots(h) : j # i => g1.refs[j] = h.refs[j]
  BY <1>2 DEF StartedIs
<1>4. c.key = k /\ c.value = v /\ c.link = h.refs[i]
  BY DEF NewPair
<1>. HIDE DEF c
<1>5. Appended(g, g1, p)
  BY <1>0, <1>1, <1>3, OrderNextIs
<1>6. AddedTo(g, h, k, v, p)
  <2>1. /\ g \in Hashes /\ g.refs = g1.refs /\ g.index = g1.index /\ g.count = g1.count
        /\ \A q \in Pairs : /\ g.pair[q].key = g1.pair[q].key /\ g.pair[q].value = g1.pair[q].value
                            /\ g.pair[q].next = IF q = g1.last THEN p ELSE IF q = p THEN NoPair ELSE g1.pair[q].next
                            /\ g.pair[q].prev = IF q = p THEN g1.last ELSE g1.pair[q].prev
    BY <1>5 DEF Appended
  <2>. QED
    BY <1>0, <1>3, <1>4, <2>1 DEF AddedTo
<1>7. Ordered(g, N, ord2)
  <2>1. Ordered(g1, M, ord)
    <3>1. \A q \in M : g1.pair[q].next = h.pair[q].next /\ g1.pair[q].prev = h.pair[q].prev
      BY <1>0, <1>3
    <3>. QED
      BY <1>0, <1>3, <3>1, SameOrder
  <2>. QED
    BY <1>0, <1>1, <1>3, <2>1, OrderNextKeeps
<1>8. Chained(g1, N, num2)
  <2>1. Ahead(g1, h, M, p, i)
    BY <1>0, <1>3, <1>4, HashFields DEF Ahead, Slots, SlotOf, Hash!Slot, Hash!allocated, i
  <2>. QED
    BY <1>0, <2>1, AtHead
<1>9. Chained(g, N, num2)
  <2>1. N \subseteq Pairs /\ \A q \in N : g.pair[q].key = g1.pair[q].key /\ g.pair[q].link = g1.pair[q].link
    BY <1>0, <1>5 DEF Appended
  <2>2. g \in Hashes /\ g.refs = g1.refs /\ g.index = g1.index
    BY <1>5 DEF Appended
  <2>. QED
    BY <1>3, <1>8, <2>1, <2>2, SameChains
<1>10. Distinct(g, N)
  <2>1. \A q \in M : g.pair[q].key = h.pair[q].key /\ g.pair[p].key = k
    BY <1>0, <1>6 DEF AddedTo
  <2>. QED
    BY <1>0, <2>1 DEF Distinct
<1>11. g \in Hashes /\ N \subseteq Pairs
  BY <1>0, <1>6 DEF AddedTo
<1>. QED
  BY <1>6, <1>7, <1>9, <1>10, <1>11 DEF Whole

WithKey(h, p, k) == [h EXCEPT !.pair[p].key = k]
KeyIs(g, h, p, k) ==
    /\ g \in Hashes /\ g.refs = h.refs /\ g.index = h.index /\ g.fused = h.fused /\ g.count = h.count
    /\ g.first = h.first /\ g.last = h.last
    /\ \A q \in Pairs : /\ g.pair[q].value = h.pair[q].value
                        /\ g.pair[q].prev = h.pair[q].prev /\ g.pair[q].next = h.pair[q].next
                        /\ g.pair[q].link = h.pair[q].link /\ g.pair[q].key = IF q = p THEN k ELSE h.pair[q].key
LEMMA KeySet ==
    ASSUME NEW h \in Hashes, NEW p \in Pairs, NEW k \in Key, NEW g, g = WithKey(h, p, k)
    PROVE  KeyIs(g, h, p, k)
<1>1. h.pair \in [Pairs -> PairFields] /\ h.pair[p] \in PairFields
  BY HashFields
<1>. DEFINE c == [h.pair[p] EXCEPT !.key = k]
            f == [h.pair EXCEPT ![p] = c]
<1>2. /\ c \in PairFields /\ c.key = k /\ c.value = h.pair[p].value
      /\ c.prev = h.pair[p].prev /\ c.next = h.pair[p].next /\ c.link = h.pair[p].link
  BY <1>1 DEF PairFields
<1>3. g = [h EXCEPT !.pair = f]
  BY DEF WithKey
<1>. HIDE DEF c
<1>4. f \in [Pairs -> PairFields] /\ f[p] = c /\ \A q \in Pairs : q # p => f[q] = h.pair[q]
  BY <1>1, <1>2
<1>. HIDE DEF f
<1>5. /\ g \in Hashes /\ g.refs = h.refs /\ g.index = h.index /\ g.fused = h.fused /\ g.count = h.count
      /\ g.first = h.first /\ g.last = h.last /\ g.pair = f
  BY <1>3, <1>4 DEF Hashes, Records
<1>. QED
  BY <1>2, <1>4, <1>5 DEF KeyIs

SamePair(g, h, q) ==
    /\ g.pair[q].key = h.pair[q].key /\ g.pair[q].value = h.pair[q].value /\ g.pair[q].link = h.pair[q].link
    /\ g.pair[q].next = h.pair[q].next /\ g.pair[q].prev = h.pair[q].prev

\* rename() without taking away the pair that has the new key: it gets that key, and another chain
Rekeyed(h, p, k) ==
    [h EXCEPT !.pair[p].key = k, !.pair[p].link = h.refs[Hash!Slot(h, k)], !.refs[Hash!Slot(h, k)] = p,
              !.fused = IF h.refs[Hash!Slot(h, k)] = NoPair THEN @ + 1 ELSE @]
RekeyedIs(g, h, p, k, i) ==
    /\ g \in Hashes /\ g.index = h.index /\ g.count = h.count /\ g.first = h.first /\ g.last = h.last
    /\ g.pair[p].key = k /\ g.pair[p].value = h.pair[p].value /\ g.pair[p].link = h.refs[i]
    /\ g.pair[p].next = h.pair[p].next /\ g.pair[p].prev = h.pair[p].prev
    /\ \A q \in Pairs : q # p => SamePair(g, h, q)
    /\ g.refs[i] = p /\ \A j \in Slots(h) : j # i => g.refs[j] = h.refs[j]
LEMMA Rekeys ==
    ASSUME NEW h \in Hashes, NEW p \in Pairs, NEW k \in Key, NEW g, g = Rekeyed(h, p, k), NEW i, i = Hash!Slot(h, k)
    PROVE  RekeyedIs(g, h, p, k, i)
<1>. DEFINE x == h.refs[i]
            g1 == WithKey(h, p, k)
            g2 == WithLink(g1, p, x)
            g3 == WithRef(g2, i, p)
            n == IF x = NoPair THEN g3.fused + 1 ELSE g3.fused
<1>0. i \in Slots(h) /\ x \in Pointer /\ p \in Pointer /\ h.fused \in Nat
  BY HashFields DEF Pointer
<1>1. g = [g3 EXCEPT !.fused = n]
  BY DEF Rekeyed, WithKey, WithLink, WithRef
<1>2. KeyIs(g1, h, p, k)
  BY KeySet
<1>. HIDE DEF g1
<1>3. LinkIs(g2, g1, p, x)
  BY <1>0, <1>2, LinkSet DEF KeyIs
<1>. HIDE DEF g2
<1>4. RefIs(g3, g2, i, p) /\ Slots(g2) = Slots(h)
  <2>1. g2 \in Hashes /\ g2.index = h.index
    BY <1>2, <1>3 DEF KeyIs, LinkIs
  <2>2. Slots(g2) = Slots(h)
    BY <2>1 DEF Slots, Hash!allocated
  <2>. QED
    BY <1>0, <2>1, <2>2, RefSet
<1>. HIDE DEF g3
<1>5. g3 \in Hashes /\ g3.fused = h.fused
  BY <1>2, <1>3, <1>4 DEF KeyIs, LinkIs, RefIs
<1>6. /\ g \in Hashes /\ g.refs = g3.refs /\ g.index = g3.index /\ g.count = g3.count
      /\ g.first = g3.first /\ g.last = g3.last /\ g.pair = g3.pair
  <2>1. n \in Nat
    BY <1>0, <1>5
  <2>. HIDE DEF n
  <2>. QED
    BY <1>1, <1>5, <2>1, FusedSet
<1>. QED
  BY <1>2, <1>3, <1>4, <1>5, <1>6 DEF KeyIs, LinkIs, RefIs, RekeyedIs, SamePair

\* rename() takes the pair of the new key away, if there is one
Renamed(g, h, p, x, to) ==
    /\ g \in Hashes /\ g.index = h.index /\ g.count = (IF x = NoPair THEN h.count ELSE h.count - 1)
    /\ g.pair[p].key = to
    /\ \A q \in Pairs : /\ q # p => g.pair[q].key = h.pair[q].key
                        /\ g.pair[q].value = h.pair[q].value
                        /\ g.pair[q].next = IF x # NoPair /\ q = h.pair[x].prev THEN h.pair[x].next ELSE h.pair[q].next
                        /\ g.pair[q].prev = IF x # NoPair /\ q = h.pair[x].next THEN h.pair[x].prev ELSE h.pair[q].prev
LEMMA RenamedIs ==
    ASSUME NEW h, NEW M, NEW num, NEW ord, Whole(h, M, num, ord), NEW from \in Key, NEW to \in Key, from # to,
           NEW p, p = Hash!Find(h, from), p # NoPair, h.count > 0, NEW x, x = Hash!Find(h, to),
           NEW g, g = Hash!renamed(h, from, to), NEW C, C = (M \ {x}) \ {p},
           NEW num2, Numbers(C, num, num2, p), \A q \in C : num[q] < num2[p], NEW N, N = M \ {x}
    PROVE  Renamed(g, h, p, x, to) /\ Whole(g, N, num2, ord) /\ p \in M /\ (x = NoPair \/ x \in M)
<1>. DEFINE u == Hash!unlink(h, from, p)
            r == Hash!removed(u, to)
            i == Hash!Slot(r, to)
            D == M \ {p}
<1>0. /\ h \in Hashes /\ M \subseteq Pairs /\ Chained(h, M, num) /\ Ordered(h, M, ord) /\ Distinct(h, M)
      /\ NoPair \notin Pairs
  BY Memories DEF Whole
<1>1. p \in M /\ p \in Pairs /\ h.pair[p].key = from /\ x \in M \cup {NoPair} /\ (x # NoPair => h.pair[x].key = to)
  BY <1>0, FindIs
<1>2. \A q \in M : h.pair[q].key = to => x = q
  BY <1>0, FindIs
<1>4. Unlinked(u, h) /\ Chained(u, D, num)
  BY <1>0, <1>1, UnlinkKeeps
<1>. HIDE DEF u
<1>5. /\ u \in Hashes /\ u.index = h.index /\ u.fused = h.fused /\ u.count = h.count
      /\ u.first = h.first /\ u.last = h.last
      /\ \A q \in Pairs : /\ u.pair[q].key = h.pair[q].key /\ u.pair[q].value = h.pair[q].value
                          /\ u.pair[q].next = h.pair[q].next /\ u.pair[q].prev = h.pair[q].prev
  BY <1>4 DEF Unlinked
<1>6. Partly(u, D, M, num, ord)
  <2>1. \A q \in M : q \in Pairs /\ u.pair[q].next = h.pair[q].next /\ u.pair[q].prev = h.pair[q].prev
    BY <1>0, <1>5
  <2>2. Ordered(u, M, ord)
    BY <1>0, <1>5, <2>1, SameOrder
  <2>3. Distinct(u, M)
    BY <1>0, <1>5 DEF Distinct
  <2>. QED
    BY <1>0, <1>4, <1>5, <2>2, <2>3 DEF Partly
<1>7. Hash!Find(u, to) = x
  <2>1. D \subseteq Pairs /\ Distinct(u, D) /\ u \in Hashes /\ Chained(u, D, num)
    BY <1>0, <1>4, <1>6 DEF Partly, Distinct
  <2>2. /\ Hash!Find(u, to) \in D \cup {NoPair}
        /\ Hash!Find(u, to) # NoPair => u.pair[Hash!Find(u, to)].key = to
        /\ \A q \in D : u.pair[q].key = to => Hash!Find(u, to) = q
    BY <2>1, FindIs
  <2>3. CASE x = NoPair
    BY <1>0, <1>2, <1>5, <2>2, <2>3
  <2>4. CASE x # NoPair
    <3>1. x \in D /\ x \in Pairs
      BY <1>0, <1>1, <2>4
    <3>. QED
      BY <1>1, <1>5, <2>2, <2>4, <3>1
  <2>. QED
    BY <2>3, <2>4
<1>8. /\ Partly(r, C, N, num, ord) /\ r.index = h.index /\ r.count = (IF x = NoPair THEN h.count ELSE h.count - 1)
      /\ \A q \in Pairs :
            /\ r.pair[q].key = h.pair[q].key /\ r.pair[q].value = h.pair[q].value
            /\ r.pair[q].next = IF x # NoPair /\ q = h.pair[x].prev THEN h.pair[x].next ELSE h.pair[q].next
            /\ r.pair[q].prev = IF x # NoPair /\ q = h.pair[x].next THEN h.pair[x].prev ELSE h.pair[q].prev
  <2>1. CASE x = NoPair
    <3>1. r = u
      BY <1>7, <2>1 DEF Hash!removed
    <3>2. C = D /\ N = M
      BY <1>0, <2>1
    <3>. QED
      BY <1>5, <1>6, <2>1, <3>1, <3>2
  <2>2. CASE x # NoPair
    <3>1. C = D \ {x} /\ u.count > 0 /\ x \in Pairs
      BY <1>0, <1>1, <1>5, <2>2
    <3>2. Removed(r, u, x) /\ Partly(r, C, N, num, ord)
      BY <1>6, <1>7, <2>2, <3>1, RemovedFrom
    <3>. QED
      BY <1>5, <2>2, <3>1, <3>2 DEF Removed
  <2>. QED
    BY <2>1, <2>2
<1>3. g = Rekeyed(r, p, to)
  <2>1. Hash!Slot(h, to) = Hash!Slot(r, to)
    BY <1>8 DEF Hash!Slot, Hash!allocated
  <2>2. g = [r EXCEPT !.pair[p].key = to, !.pair[p].link = r.refs[Hash!Slot(h, to)], !.refs[Hash!Slot(h, to)] = p,
                      !.fused = IF r.refs[Hash!Slot(h, to)] = NoPair THEN @ + 1 ELSE @]
    BY DEF Hash!renamed, u
  <2>. HIDE DEF r
  <2>. QED
    BY <2>1, <2>2 DEF Rekeyed
<1>. HIDE DEF r
<1>9. r \in Hashes /\ N \subseteq Pairs /\ C \subseteq N /\ Chained(r, C, num) /\ Ordered(r, N, ord) /\ Distinct(r, N)
  BY <1>8 DEF Partly
<1>10. RekeyedIs(g, r, p, to, i)
  BY <1>1, <1>3, <1>9, Rekeys
<1>. HIDE DEF i
<1>11. /\ g \in Hashes /\ g.index = r.index /\ g.count = r.count /\ g.first = r.first /\ g.last = r.last
       /\ g.pair[p].key = to /\ g.pair[p].value = r.pair[p].value /\ g.pair[p].link = r.refs[i]
       /\ g.pair[p].next = r.pair[p].next /\ g.pair[p].prev = r.pair[p].prev
       /\ \A q \in Pairs : q # p => SamePair(g, r, q)
       /\ g.refs[i] = p /\ \A j \in Slots(r) : j # i => g.refs[j] = r.refs[j]
  BY <1>10 DEF RekeyedIs
<1>12. Renamed(g, h, p, x, to)
  BY <1>1, <1>8, <1>11 DEF Renamed, SamePair
<1>13. Chained(g, N, num2)
  <2>1. Ahead(g, r, C, p, i)
    <3>1. i \in Slots(r) /\ SlotOf(g, p) = i
      BY <1>9, <1>11, HashFields DEF SlotOf, Hash!Slot, Hash!allocated, i
    <3>2. \A q \in C : q # p /\ q \in Pairs
      BY <1>9
    <3>. QED
      BY <1>9, <1>11, <3>1, <3>2 DEF Ahead, SamePair
  <2>2. p \in N
    BY <1>0, <1>1
  <2>3. N = C \cup {p}
    BY <2>2
  <2>. QED
    BY <1>9, <2>1, <2>3, AtHead
<1>14. Ordered(g, N, ord)
  <2>1. \A q \in N : g.pair[q].next = r.pair[q].next /\ g.pair[q].prev = r.pair[q].prev
    BY <1>9, <1>11 DEF SamePair
  <2>. QED
    BY <1>9, <1>11, <2>1, SameOrder
<1>15. Distinct(g, N)
  <2>1. \A q \in N : q # x /\ q \in M /\ (q # p => g.pair[q].key = h.pair[q].key /\ h.pair[q].key # to)
    BY <1>2, <1>9, <1>12 DEF Renamed
  <2>. QED
    BY <1>0, <1>11, <2>1 DEF Distinct
<1>. QED
  BY <1>1, <1>9, <1>11, <1>12, <1>13, <1>14, <1>15 DEF Whole

\* Chains of pairs with numbers
Latest(T, num) == IF T = {} THEN NoPair ELSE CHOOSE p \in T : \A q \in T : num[q] <= num[p]
LEMMA LatestIs ==
    ASSUME NEW T, T \subseteq Pairs, NEW num, Numbered(T, num), NEW x, x = Latest(T, num)
    PROVE  IsLatest(x, T, num)
<1>1. CASE T = {}
  BY <1>1 DEF Latest, IsLatest
<1>2. CASE T # {}
  <2>1. PICK s \in Seq(T) : /\ Len(s) = Cardinality(T) /\ \A p \in T : \E i \in 1..Len(s) : s[i] = p
                            /\ \A i, j \in 1..Len(s) : i < j => num[s[i]] > num[s[j]]
    BY Listing
  <2>2. Len(s) \in Nat /\ 1 \in 1..Len(s) /\ (\A i \in 1..Len(s) : s[i] \in T /\ (i = 1 \/ 1 < i))
    BY <1>2, <2>1, LenProperties, ElementOfSeq
  <2>3. \A q \in T : num[q] \in Int
    BY DEF Numbered
  <2>4. s[1] \in T /\ \A q \in T : num[q] <= num[s[1]]
    BY <2>1, <2>2, <2>3
  <2>5. \E p \in T : \A q \in T : num[q] <= num[p]
    BY <2>4
  <2>6. x \in T /\ \A q \in T : num[q] <= num[x]
    BY <1>2, <2>5 DEF Latest
  <2>. QED
    BY <1>2, <2>6 DEF IsLatest
<1>. QED
  BY <1>1, <1>2

ChainedIs(g, h) ==
    /\ g \in Hashes /\ g.index = h.index /\ g.fused = h.fused /\ g.count = h.count
    /\ g.first = h.first /\ g.last = h.last
    /\ \A q \in Pairs : /\ g.pair[q].key = h.pair[q].key /\ g.pair[q].value = h.pair[q].value
                        /\ g.pair[q].next = h.pair[q].next /\ g.pair[q].prev = h.pair[q].prev
\* What growing, a clone and a step leave alone
Kept(g, h) ==
    /\ g \in Hashes /\ g.count = h.count /\ g.first = h.first /\ g.last = h.last
    /\ \A q \in Pairs : /\ g.pair[q].key = h.pair[q].key /\ g.pair[q].value = h.pair[q].value
                        /\ g.pair[q].next = h.pair[q].next /\ g.pair[q].prev = h.pair[q].prev
LEMMA Chains ==
    ASSUME NEW h \in Records, NEW D, D \subseteq Pairs, NEW number, DOMAIN number = D, Numbered(D, number),
           NEW g, g = Hash!chained(h, number)
    PROVE  ChainedIs(g, h) /\ Chained(g, D, number)
<1>. DEFINE slot(p) == Hash!Slot(h, h.pair[p].key)
            n == Hash!allocated(h)
            T(s) == {p \in D : slot(p) = s}
            before(p) == {q \in D : slot(q) = slot(p) /\ number[q] < number[p]}
            r == [s \in 1..n |-> Latest(T(s), number)]
            c(p) == [h.pair[p] EXCEPT !.link = Latest(before(p), number)]
            f == [p \in Pairs |-> IF p \in D THEN c(p) ELSE h.pair[p]]
<1>1. n \in Nat \ {0} /\ n = Allocates[h.index] /\ h.pair \in [Pairs -> PairFields] /\ \A p \in Pairs : h.pair[p] \in PairFields
  BY HashConstants DEF Records, Hash!allocated, Hash!ConstantsOK
<1>2. g = [h EXCEPT !.refs = r, !.pair = f]
  BY DEF Hash!chained, Latest
<1>3. \A s : IsLatest(Latest(T(s), number), T(s), number)
  <2>1. \A s : T(s) \subseteq Pairs /\ Numbered(T(s), number)
    BY DEF Numbered
  <2>. HIDE DEF T
  <2>. QED
    BY <2>1, LatestIs
<1>4. \A p \in D : before(p) = Lower(T(slot(p)), number, number[p])
  BY DEF Lower
<1>5. \A p \in D : IsLatest(Latest(before(p), number), before(p), number) /\ before(p) \subseteq Pairs
  <2>1. \A p : before(p) \subseteq Pairs /\ Numbered(before(p), number)
    BY DEF Numbered
  <2>. HIDE DEF before
  <2>. QED
    BY <2>1, LatestIs
<1>6. r \in [1..n -> Pointer]
  <2>1. \A s : Latest(T(s), number) \in Pointer
    BY <1>3 DEF IsLatest, Pointer
  <2>. HIDE DEF T
  <2>. QED
    BY <2>1
<1>7. \A p \in D : /\ c(p) \in PairFields /\ c(p).key = h.pair[p].key /\ c(p).value = h.pair[p].value
                   /\ c(p).next = h.pair[p].next /\ c(p).prev = h.pair[p].prev
                   /\ c(p).link = Latest(before(p), number)
  <2>1. \A p \in D : Latest(before(p), number) \in Pointer
    <3>. HIDE DEF before
    <3>. QED
      BY <1>5 DEF IsLatest, Pointer
  <2>. HIDE DEF before
  <2>. QED
    BY <1>1, <2>1 DEF PairFields
<1>. HIDE DEF c, r, before
<1>8. f \in [Pairs -> PairFields] /\ (\A p \in D : f[p] = c(p)) /\ \A p \in Pairs : p \notin D => f[p] = h.pair[p]
  BY <1>1, <1>7
<1>. HIDE DEF f, T, slot, n
<1>9. /\ g \in Records /\ g.refs = r /\ g.pair = f /\ g.index = h.index /\ g.fused = h.fused /\ g.count = h.count
      /\ g.first = h.first /\ g.last = h.last
  <2>1. r \in UNION {[1..m -> Pointer] : m \in Nat}
    BY <1>1, <1>6
  <2>. QED
    BY <1>2, <1>8, <2>1 DEF Records
<1>10. g \in Hashes
  BY <1>1, <1>6, <1>9 DEF Hashes
<1>11. ChainedIs(g, h)
  BY <1>7, <1>8, <1>9, <1>10 DEF ChainedIs
<1>12. Slots(g) = 1..n /\ \A p \in D : SlotOf(g, p) = slot(p) /\ Links(g)[p] = Latest(before(p), number)
  BY <1>7, <1>8, <1>9 DEF Slots, SlotOf, Hash!Slot, Hash!allocated, Links, n, slot
<1>13. ASSUME NEW s \in Slots(g) PROVE Linked(g.refs[s], Links(g), {p \in D : SlotOf(g, p) = s}, number)
  <2>1. {p \in D : SlotOf(g, p) = s} = T(s) /\ (\A p \in T(s) : p \in D /\ slot(p) = s)
    BY <1>12 DEF T
  <2>2. g.refs[s] = Latest(T(s), number)
    BY <1>9, <1>12 DEF r
  <2>3. \A p \in T(s) : IsLatest(Links(g)[p], Lower(T(s), number, number[p]), number)
    BY <1>4, <1>5, <1>12, <2>1
  <2>. QED
    BY <1>3, <2>1, <2>2, <2>3 DEF Linked
<1>. QED
  BY <1>11, <1>13 DEF Chained

\* The list of a hash, in the order of ord
LEMMA ListIs ==
    ASSUME NEW h \in Hashes, NEW M, M \subseteq Pairs, NEW ord, Ordered(h, M, ord)
    PROVE  /\ Enlists(Hash!List(h), M, Negative(M, ord)) /\ Hash!In(Hash!List(h)) = M
           /\ Numbered(M, Negative(M, ord)) /\ LeadsOn(Hash!List(h), h.first, Nexts(h))
<1>. DEFINE neg == Negative(M, ord)
<1>1. Numbered(M, neg)
  <2>1. \A p \in M : neg[p] = -ord[p] /\ ord[p] \in Int
    BY DEF Negative, Ordered, Numbered
  <2>2. \A p, q \in M : ord[p] = ord[q] => p = q
    BY DEF Ordered, Numbered
  <2>. HIDE DEF neg
  <2>. QED
    BY <2>1, <2>2 DEF Numbered
<1>2. Linked(h.first, Nexts(h), M, neg)
  BY DEF Ordered, Negative
<1>. HIDE DEF neg
<1>3. PICK s : Enlists(s, M, neg)
  <2>1. PICK s \in Seq(M) : /\ Len(s) = Cardinality(M) /\ \A p \in M : \E i \in 1..Len(s) : s[i] = p
                            /\ \A i, j \in 1..Len(s) : i < j => neg[s[i]] > neg[s[j]]
    BY <1>1, Listing
  <2>. QED
    BY <2>1 DEF Enlists
<1>4. Hash!Follow(h.first, Nexts(h)) = s
  BY <1>1, <1>2, <1>3, FollowIs
<1>5. Hash!List(h) = s
  BY <1>4 DEF Hash!List, Nexts
<1>6. Hash!In(s) = M
  BY <1>1, <1>3, Enlisted
<1>7. LeadsOn(s, h.first, Nexts(h))
  BY <1>1, <1>2, <1>3, Leads
<1>. QED
  BY <1>1, <1>3, <1>5, <1>6, <1>7 DEF neg

\* The place of a pair in a list
LEMMA Placed ==
    ASSUME NEW T, T \subseteq Pairs, NEW num, Numbered(T, num), NEW s, Enlists(s, T, num)
    PROVE  /\ \A p \in T : Hash!Place(s, p) \in 1..Len(s) /\ s[Hash!Place(s, p)] = p
           /\ \A p, q \in T : Hash!Place(s, p) = Hash!Place(s, q) => p = q
           /\ \A i \in 1..Len(s) : Hash!Place(s, s[i]) = i
           /\ Len(s) \in Nat /\ Len(s) <= Cardinality(Pairs)
<1>1. Len(s) \in Nat /\ DOMAIN s = 1..Len(s) /\ (\A p \in T : \E i \in 1..Len(s) : s[i] = p)
  BY LenProperties DEF Enlists
<1>2. \A p \in T : Hash!Place(s, p) \in 1..Len(s) /\ s[Hash!Place(s, p)] = p
  BY <1>1 DEF Hash!Place
<1>3. /\ Len(s) <= Cardinality(Pairs) /\ (\A i \in 1..Len(s) : s[i] \in T)
      /\ \A i, j \in 1..Len(s) : s[i] = s[j] => i = j
  BY Enlisted
<1>4. \A i \in 1..Len(s) : Hash!Place(s, s[i]) = i
  BY <1>2, <1>3
<1>5. \A p, q \in T : Hash!Place(s, p) = Hash!Place(s, q) => p = q
  BY <1>2
<1>. QED
  BY <1>1, <1>2, <1>3, <1>4, <1>5

\* Chains of the clone come from the list
LEMMA CloneKeeps ==
    ASSUME NEW h, NEW M, NEW num, NEW ord, Whole(h, M, num, ord),
           NEW g, g = Hash!chained(h, [p \in Hash!In(Hash!List(h)) |-> Hash!Place(Hash!List(h), p)])
    PROVE  Kept(g, h) /\ \E num2 : Whole(g, M, num2, ord)
<1>. DEFINE s == Hash!List(h)
            neg == Negative(M, ord)
            place == [p \in M |-> Hash!Place(s, p)]
<1>0. h \in Hashes /\ h \in Records /\ M \subseteq Pairs /\ Ordered(h, M, ord) /\ Distinct(h, M)
  BY DEF Whole, Hashes
<1>1. Enlists(s, M, neg) /\ Hash!In(s) = M /\ Numbered(M, neg)
  BY <1>0, ListIs
<1>2. g = Hash!chained(h, place)
  BY <1>1
<1>. HIDE DEF s, neg
<1>3. /\ \A p \in M : Hash!Place(s, p) \in 1..Len(s)
      /\ \A p, q \in M : Hash!Place(s, p) = Hash!Place(s, q) => p = q
  BY <1>0, <1>1, Placed
<1>4. DOMAIN place = M /\ Numbered(M, place)
  BY <1>3 DEF Numbered
<1>. HIDE DEF place
<1>5. ChainedIs(g, h) /\ Chained(g, M, place)
  BY <1>0, <1>2, <1>4, Chains
<1>6. Whole(g, M, place, ord)
  <2>1. \A q \in M : g.pair[q].key = h.pair[q].key /\ g.pair[q].next = h.pair[q].next /\ g.pair[q].prev = h.pair[q].prev
    BY <1>0, <1>5 DEF ChainedIs
  <2>2. g \in Hashes /\ g.first = h.first /\ g.last = h.last
    BY <1>5 DEF ChainedIs
  <2>3. Ordered(g, M, ord)
    BY <1>0, <2>1, <2>2, SameOrder
  <2>. QED
    BY <1>0, <1>5, <2>1, <2>2, <2>3 DEF Whole, Distinct
<1>7. Kept(g, h)
  BY <1>5 DEF ChainedIs, Kept
<1>. QED
  BY <1>6, <1>7

\* Growing: the numbers are those of the chains, and in a chain those of the pairs
LEMMA Products ==
    ASSUME NEW a \in Nat, NEW b \in Nat, a < b, NEW n \in Nat
    PROVE  a * n + n <= b * n
<1>1. PICK d \in Nat : b = a + 1 + d
  <2>1. b - a - 1 \in Nat /\ b = a + 1 + (b - a - 1)
    OBVIOUS
  <2>. QED
    BY <2>1
<1>2. b * n = a * n + n + d * n
  BY <1>1
<1>3. d * n >= 0 /\ a * n \in Int /\ d * n \in Int
  OBVIOUS
<1>. QED
  BY <1>2, <1>3

LEMMA GrowKeeps ==
    ASSUME NEW h, NEW M, NEW num, NEW ord, Whole(h, M, num, ord), NEW g, g = Hash!expand(h)
    PROVE  Kept(g, h) /\ \E num2 : Whole(g, M, num2, ord)
<1>. DEFINE slot(p) == Hash!Slot(h, h.pair[p].key)
            n == Cardinality(Pairs)
            chain(i) == Hash!Chain(h, i)
            number == [p \in M |-> slot(p) * n + Hash!Place(chain(slot(p)), p)]
            x == IF h.index < Len(Allocates) THEN h.index + 1 ELSE h.index
            e == [h EXCEPT !.index = x]
            T(i) == {p \in M : SlotOf(h, p) = i}
<1>0. h \in Hashes /\ h \in Records /\ M \subseteq Pairs /\ Chained(h, M, num) /\ Ordered(h, M, ord) /\ Distinct(h, M)
  BY DEF Whole, Hashes
<1>1. /\ \A i \in Slots(h) : Enlists(chain(i), T(i), num) /\ Hash!In(chain(i)) = T(i)
      /\ \A i \in Slots(h) : T(i) \subseteq Pairs /\ Numbered(T(i), num)
  <2>1. \A i \in Slots(h) : Enlists(chain(i), T(i), num) /\ Hash!In(chain(i)) = T(i)
    BY <1>0, ChainIs
  <2>2. ASSUME NEW i \in Slots(h) PROVE T(i) \subseteq Pairs /\ Numbered(T(i), num)
    BY <1>0 DEF Chained, Numbered
  <2>. HIDE DEF T, chain
  <2>. QED
    BY <2>1, <2>2
<1>2. n \in Nat /\ \A p \in M : slot(p) \in Slots(h) /\ slot(p) \in Nat /\ p \in T(slot(p))
  BY <1>0, HashFields, Memories DEF SlotOf
<1>3. UNION {Hash!In(chain(i)) : i \in 1..Hash!allocated(h)} = M
  <2>1. Slots(h) = 1..Hash!allocated(h)
    BY DEF Slots
  <2>2. \A i \in Slots(h) : T(i) \subseteq M
    OBVIOUS
  <2>. HIDE DEF chain, T, slot
  <2>3. UNION {Hash!In(chain(i)) : i \in Slots(h)} \subseteq M
    BY <1>1, <2>2
  <2>4. M \subseteq UNION {Hash!In(chain(i)) : i \in Slots(h)}
    BY <1>1, <1>2
  <2>. QED
    BY <2>1, <2>3, <2>4
<1>4. g = Hash!chained(e, number)
  <2>1. Hash!Cardinality(Pairs) = n
    BY Memories
  <2>2. e = [h EXCEPT !.index = IF @ < Len(Allocates) THEN @ + 1 ELSE @]
    OBVIOUS
  <2>3. g = Hash!chained(e, [p \in UNION {Hash!In(chain(i)) : i \in 1..Hash!allocated(h)} |->
                                slot(p) * n + Hash!Place(chain(slot(p)), p)])
    BY <2>1, <2>2 DEF Hash!expand
  <2>. HIDE DEF slot, chain, n, e
  <2>. QED
    BY <1>3, <2>3
<1>5. e \in Records /\ e.index = x /\ e.pair = h.pair /\ e.refs = h.refs /\ e.fused = h.fused /\ e.count = h.count
      /\ e.first = h.first /\ e.last = h.last
  <2>1. Len(Allocates) \in Nat /\ h.index \in 1..Len(Allocates)
    BY <1>0, HashFields, HashConstants, LenProperties DEF Hash!ConstantsOK
  <2>2. x \in 1..Len(Allocates)
    BY <2>1
  <2>. HIDE DEF x
  <2>. QED
    BY <1>0, <2>2 DEF Records
<1>. HIDE DEF x, T, chain, n, slot
<1>6. /\ \A p \in M : Hash!Place(chain(slot(p)), p) \in 1..n
      /\ \A p, q \in M : slot(p) = slot(q) /\ Hash!Place(chain(slot(p)), p) = Hash!Place(chain(slot(q)), q) => p = q
  <2>1. ASSUME NEW p \in M
        PROVE  /\ Hash!Place(chain(slot(p)), p) \in 1..n
               /\ \A q \in M : slot(p) = slot(q) /\ Hash!Place(chain(slot(p)), p) = Hash!Place(chain(slot(q)), q) => p = q
    <3>. DEFINE s == chain(slot(p))
                U == T(slot(p))
    <3>1. Enlists(s, U, num) /\ U \subseteq Pairs /\ Numbered(U, num) /\ p \in U /\ \A q \in M : slot(p) = slot(q) => q \in U
      BY <1>1, <1>2
    <3>. HIDE DEF U, s
    <3>2. /\ \A q \in U : Hash!Place(s, q) \in 1..Len(s)
          /\ \A a, b \in U : Hash!Place(s, a) = Hash!Place(s, b) => a = b
          /\ Len(s) \in Nat /\ Len(s) <= Cardinality(Pairs)
      BY <3>1, Placed
    <3>3. Hash!Place(s, p) \in 1..n
      BY <1>2, <3>1, <3>2 DEF n
    <3>. QED
      BY <3>1, <3>2, <3>3 DEF s
  <2>. QED
    BY <2>1
<1>7. Numbered(M, number)
  <2>1. \A p \in M : number[p] \in Int /\ number[p] = slot(p) * n + Hash!Place(chain(slot(p)), p)
    BY <1>2, <1>6
  <2>2. ASSUME NEW p \in M, NEW q \in M, slot(p) < slot(q) PROVE number[p] < number[q]
    <3>1. slot(p) * n + n <= slot(q) * n
      BY <1>2, <2>2, Products
    <3>2. slot(p) * n \in Int /\ slot(q) * n \in Int
      BY <1>2
    <3>. QED
      BY <1>2, <1>6, <2>1, <3>1, <3>2
  <2>3. ASSUME NEW p \in M, NEW q \in M, number[p] = number[q] PROVE p = q
    <3>1. slot(p) = slot(q)
      BY <1>2, <2>1, <2>2, <2>3
    <3>2. slot(p) * n \in Int
      BY <1>2
    <3>3. Hash!Place(chain(slot(p)), p) = Hash!Place(chain(slot(q)), q)
      BY <1>6, <2>1, <2>3, <3>1, <3>2
    <3>. QED
      BY <1>6, <3>1, <3>3
  <2>. HIDE DEF number
  <2>. QED
    BY <2>1, <2>3 DEF Numbered
<1>8. DOMAIN number = M
  OBVIOUS
<1>. HIDE DEF number, e
<1>9. ChainedIs(g, e) /\ Chained(g, M, number)
  BY <1>0, <1>4, <1>5, <1>7, <1>8, Chains
<1>10. Whole(g, M, number, ord)
  <2>1. \A q \in M : g.pair[q].key = h.pair[q].key /\ g.pair[q].next = h.pair[q].next /\ g.pair[q].prev = h.pair[q].prev
    BY <1>0, <1>5, <1>9 DEF ChainedIs
  <2>2. g \in Hashes /\ g.first = h.first /\ g.last = h.last
    BY <1>5, <1>9 DEF ChainedIs
  <2>3. Ordered(g, M, ord)
    BY <1>0, <2>1, <2>2, SameOrder
  <2>. QED
    BY <1>0, <1>9, <2>1, <2>2, <2>3 DEF Whole, Distinct
<1>11. Kept(g, h)
  BY <1>5, <1>9 DEF ChainedIs, Kept
<1>. QED
  BY <1>10, <1>11

\* sort: a list in any order
Lineup(t, M) ==
    /\ t \in Seq(M) /\ (\A p \in M : \E i \in 1..Len(t) : t[i] = p)
    /\ \A i, j \in 1..Len(t) : t[i] = t[j] => i = j
OrderedIs(g, h, M, t) ==
    /\ g \in Hashes /\ g.refs = h.refs /\ g.index = h.index /\ g.fused = h.fused /\ g.count = h.count
    /\ g.first = At(t, 1) /\ g.last = At(t, Len(t))
    /\ \A q \in M : /\ g.pair[q].prev = At(t, Hash!Place(t, q) - 1) /\ g.pair[q].next = At(t, Hash!Place(t, q) + 1)
    /\ \A q \in Pairs : /\ g.pair[q].key = h.pair[q].key /\ g.pair[q].value = h.pair[q].value
                        /\ g.pair[q].link = h.pair[q].link
                        /\ q \notin M => g.pair[q].prev = h.pair[q].prev /\ g.pair[q].next = h.pair[q].next
LEMMA Orders ==
    ASSUME NEW h \in Hashes, NEW M, M \subseteq Pairs, NEW t, Lineup(t, M), NEW g, g = Hash!ordered(h, t)
    PROVE  OrderedIs(g, h, M, t)
<1>. DEFINE place(p) == Hash!Place(t, p)
            c(p) == [h.pair[p] EXCEPT !.prev = At(t, place(p) - 1), !.next = At(t, place(p) + 1)]
            f == [p \in Pairs |-> IF p \in M THEN c(p) ELSE h.pair[p]]
            x == At(t, 1)
            y == At(t, Len(t))
<1>1. Len(t) \in Nat /\ DOMAIN t = 1..Len(t) /\ (\A i \in 1..Len(t) : t[i] \in M)
  BY LenProperties, ElementOfSeq DEF Lineup
<1>2. \A i : At(t, i) \in Pointer
  BY <1>1 DEF At, Pointer
<1>3. Hash!In(t) = M
  BY <1>1 DEF Lineup, Hash!In
<1>4. g = [h EXCEPT !.first = x, !.last = y, !.pair = f]
  <2>. DEFINE at(i) == IF i \in DOMAIN t THEN t[i] ELSE NoPair
              f2 == [p \in Pairs |-> IF p \in Hash!In(t)
                                     THEN [h.pair[p] EXCEPT !.prev = at(Hash!Place(t, p) - 1), !.next = at(Hash!Place(t, p) + 1)]
                                     ELSE h.pair[p]]
  <2>1. g = [h EXCEPT !.first = at(1), !.last = at(Len(t)), !.pair = f2]
    BY DEF Hash!ordered
  <2>2. \A i : At(t, i) = at(i)
    BY <1>1 DEF At
  <2>. HIDE DEF at
  <2>3. ASSUME NEW p \in Pairs PROVE f2[p] = f[p]
    <3>1. CASE p \in M
      <4>1. f2[p] = [h.pair[p] EXCEPT !.prev = at(Hash!Place(t, p) - 1), !.next = at(Hash!Place(t, p) + 1)]
        BY <1>3, <3>1
      <4>2. f[p] = c(p)
        BY <3>1
      <4>3. at(Hash!Place(t, p) - 1) = At(t, place(p) - 1) /\ at(Hash!Place(t, p) + 1) = At(t, place(p) + 1)
        BY <2>2
      <4>. QED
        BY <4>1, <4>2, <4>3
    <3>2. CASE p \notin M
      BY <1>3, <3>2
    <3>. QED
      BY <3>1, <3>2
  <2>4. f2 = f
    BY <2>3
  <2>. HIDE DEF f, f2
  <2>. QED
    BY <2>1, <2>2, <2>4
<1>5. \A p \in Pairs : h.pair[p] \in PairFields
  BY HashFields
<1>. HIDE DEF place
<1>6. \A p \in Pairs : /\ c(p) \in PairFields /\ c(p).key = h.pair[p].key /\ c(p).value = h.pair[p].value
                       /\ c(p).link = h.pair[p].link
                       /\ c(p).prev = At(t, place(p) - 1) /\ c(p).next = At(t, place(p) + 1)
  BY <1>2, <1>5 DEF PairFields
<1>. HIDE DEF c
<1>7. f \in [Pairs -> PairFields] /\ \A p \in Pairs : f[p] = IF p \in M THEN c(p) ELSE h.pair[p]
  BY <1>5, <1>6
<1>8. x \in Pointer /\ y \in Pointer
  BY <1>2
<1>. HIDE DEF f, x, y
<1>9. /\ g \in Hashes /\ g.refs = h.refs /\ g.index = h.index /\ g.fused = h.fused /\ g.count = h.count
      /\ g.first = x /\ g.last = y /\ g.pair = f
  BY <1>4, <1>7, <1>8 DEF Hashes, Records
<1>. QED
  BY <1>6, <1>7, <1>9 DEF OrderedIs, place, x, y

LEMMA OrderKeeps ==
    ASSUME NEW h, NEW M, NEW num, NEW ord, Whole(h, M, num, ord), NEW t, Lineup(t, M), NEW g, g = Hash!ordered(h, t),
           NEW place, place = [p \in M |-> Hash!Place(t, p)]
    PROVE  OrderedIs(g, h, M, t) /\ Whole(g, M, num, place)
<1>. DEFINE neg == [p \in M |-> -place[p]]
            n == Len(t)
<1>0. h \in Hashes /\ M \subseteq Pairs /\ Chained(h, M, num) /\ Distinct(h, M)
  BY DEF Whole
<1>1. OrderedIs(g, h, M, t)
  BY <1>0, Orders
<1>2. n \in Nat /\ (\A i \in 1..n : t[i] \in M) /\ DOMAIN t = 1..n
  BY LenProperties, ElementOfSeq DEF Lineup
<1>3. \A p \in M : place[p] \in 1..n /\ t[place[p]] = p /\ neg[p] = -place[p]
  BY <1>2 DEF Lineup, Hash!Place
<1>4. \A i \in 1..n : place[t[i]] = i
  BY <1>2, <1>3 DEF Lineup
<1>. HIDE DEF n, neg
<1>5. /\ g \in Hashes /\ g.first = At(t, 1) /\ g.last = At(t, n)
      /\ \A q \in M : Prevs(g)[q] = At(t, place[q] - 1) /\ Nexts(g)[q] = At(t, place[q] + 1)
  BY <1>0, <1>1 DEF OrderedIs, Prevs, Nexts, n
<1>6. Linked(g.last, Prevs(g), M, place)
  <2>1. IsLatest(g.last, M, place)
    <3>1. CASE M = {}
      BY <1>2, <1>5, <3>1 DEF IsLatest, At, n
    <3>2. CASE M # {}
      <4>0. n \in 1..n
        BY <1>2, <1>3, <3>2
      <4>1. g.last = t[n] /\ t[n] \in M /\ place[t[n]] = n
        BY <1>2, <1>4, <1>5, <4>0 DEF At, n
      <4>. QED
        BY <1>2, <1>3, <3>2, <4>1 DEF IsLatest
    <3>. QED
      BY <3>1, <3>2
  <2>2. ASSUME NEW p \in M PROVE IsLatest(Prevs(g)[p], Lower(M, place, place[p]), place)
    <3>. DEFINE i == place[p]
                U == Lower(M, place, i)
    <3>0. i \in 1..n /\ Prevs(g)[p] = At(t, i - 1)
      BY <1>3, <1>5
    <3>1. CASE i = 1
      <4>1. U = {}
        BY <1>3, <3>1 DEF Lower
      <4>2. At(t, i - 1) = NoPair
        BY <3>1 DEF At
      <4>. QED
        BY <3>0, <4>1, <4>2 DEF IsLatest
    <3>2. CASE i # 1
      <4>1. i - 1 \in 1..n /\ i - 1 < i
        BY <1>2, <3>0, <3>2
      <4>2. At(t, i - 1) = t[i - 1] /\ t[i - 1] \in M /\ place[t[i - 1]] = i - 1
        BY <1>2, <1>4, <4>1 DEF At, n
      <4>3. t[i - 1] \in U
        BY <4>1, <4>2 DEF Lower
      <4>4. \A q \in U : place[q] <= place[t[i - 1]]
        BY <1>2, <1>3, <3>0, <4>2 DEF Lower
      <4>. HIDE DEF U
      <4>. QED
        BY <3>0, <4>2, <4>3, <4>4 DEF IsLatest, U
    <3>. QED
      BY <3>1, <3>2
  <2>. QED
    BY <2>1, <2>2 DEF Linked
<1>7. Linked(g.first, Nexts(g), M, neg)
  <2>1. IsLatest(g.first, M, neg)
    <3>1. CASE M = {}
      BY <1>2, <1>5, <3>1 DEF IsLatest, At, n
    <3>2. CASE M # {}
      <4>0. 1 \in 1..n
        BY <1>2, <1>3, <3>2
      <4>1. g.first = t[1] /\ t[1] \in M /\ place[t[1]] = 1
        BY <1>2, <1>4, <1>5, <4>0 DEF At, n
      <4>. QED
        BY <1>2, <1>3, <3>2, <4>1 DEF IsLatest
    <3>. QED
      BY <3>1, <3>2
  <2>2. ASSUME NEW p \in M PROVE IsLatest(Nexts(g)[p], Lower(M, neg, neg[p]), neg)
    <3>. DEFINE i == place[p]
                U == Lower(M, neg, neg[p])
    <3>0. i \in 1..n /\ Nexts(g)[p] = At(t, i + 1) /\ neg[p] = -i
      BY <1>3, <1>5
    <3>1. CASE i = n
      <4>1. U = {}
        BY <1>2, <1>3, <3>0, <3>1 DEF Lower
      <4>2. At(t, i + 1) = NoPair
        BY <1>2, <3>1 DEF At, n
      <4>. QED
        BY <3>0, <4>1, <4>2 DEF IsLatest
    <3>2. CASE i # n
      <4>1. i + 1 \in 1..n /\ i < i + 1
        BY <1>2, <3>0, <3>2
      <4>2. At(t, i + 1) = t[i + 1] /\ t[i + 1] \in M /\ place[t[i + 1]] = i + 1
        BY <1>2, <1>4, <4>1 DEF At, n
      <4>5. neg[t[i + 1]] = -(i + 1)
        BY <1>3, <4>2
      <4>3. t[i + 1] \in U
        BY <3>0, <4>1, <4>2, <4>5 DEF Lower
      <4>4. \A q \in U : neg[q] <= neg[t[i + 1]]
        BY <1>2, <1>3, <3>0, <4>5 DEF Lower
      <4>. HIDE DEF U
      <4>. QED
        BY <3>0, <4>2, <4>3, <4>4 DEF IsLatest, U
    <3>. QED
      BY <3>1, <3>2
  <2>. QED
    BY <2>1, <2>2 DEF Linked
<1>8. Numbered(M, place)
  BY <1>2, <1>3 DEF Numbered
<1>9. Ordered(g, M, place)
  BY <1>6, <1>7, <1>8 DEF Ordered, neg
<1>10. Chained(g, M, num)
  <2>1. g.index = h.index /\ g.refs = h.refs /\ \A p \in M : g.pair[p].key = h.pair[p].key /\ g.pair[p].link = h.pair[p].link
    BY <1>0, <1>1 DEF OrderedIs
  <2>. QED
    BY <1>0, <1>5, <2>1, SameChains
<1>11. Distinct(g, M)
  BY <1>0, <1>1 DEF Distinct, OrderedIs
<1>. QED
  BY <1>0, <1>1, <1>5, <1>9, <1>10, <1>11 DEF Whole

\* A pair gets a value, and clear()
ValueIs(g, h, p, v) ==
    /\ g \in Hashes /\ g.refs = h.refs /\ g.index = h.index /\ g.fused = h.fused /\ g.count = h.count
    /\ g.first = h.first /\ g.last = h.last
    /\ \A q \in Pairs : /\ g.pair[q].key = h.pair[q].key /\ g.pair[q].link = h.pair[q].link
                        /\ g.pair[q].prev = h.pair[q].prev /\ g.pair[q].next = h.pair[q].next
                        /\ g.pair[q].value = IF q = p THEN v ELSE h.pair[q].value
LEMMA ValueSet ==
    ASSUME NEW h \in Hashes, NEW p \in Pairs, NEW v \in Value, NEW g, g = [h EXCEPT !.pair[p].value = v]
    PROVE  ValueIs(g, h, p, v)
<1>1. h.pair \in [Pairs -> PairFields] /\ h.pair[p] \in PairFields
  BY HashFields
<1>. DEFINE c == [h.pair[p] EXCEPT !.value = v]
            f == [h.pair EXCEPT ![p] = c]
<1>2. /\ c \in PairFields /\ c.key = h.pair[p].key /\ c.value = v
      /\ c.prev = h.pair[p].prev /\ c.next = h.pair[p].next /\ c.link = h.pair[p].link
  BY <1>1 DEF PairFields
<1>3. g = [h EXCEPT !.pair = f]
  OBVIOUS
<1>. HIDE DEF c
<1>4. f \in [Pairs -> PairFields] /\ f[p] = c /\ \A q \in Pairs : q # p => f[q] = h.pair[q]
  BY <1>1, <1>2
<1>. HIDE DEF f
<1>5. /\ g \in Hashes /\ g.refs = h.refs /\ g.index = h.index /\ g.fused = h.fused /\ g.count = h.count
      /\ g.first = h.first /\ g.last = h.last /\ g.pair = f
  BY <1>3, <1>4 DEF Hashes, Records
<1>. QED
  BY <1>2, <1>4, <1>5 DEF ValueIs

LEMMA ValueKeeps ==
    ASSUME NEW h, NEW M, NEW num, NEW ord, Whole(h, M, num, ord), NEW p \in Pairs, NEW v \in Value,
           NEW g, g = [h EXCEPT !.pair[p].value = v]
    PROVE  ValueIs(g, h, p, v) /\ Whole(g, M, num, ord)
<1>0. /\ h \in Hashes /\ M \subseteq Pairs /\ Chained(h, M, num) /\ Ordered(h, M, ord) /\ Distinct(h, M)
  BY DEF Whole
<1>1. ValueIs(g, h, p, v)
  BY <1>0, ValueSet
<1>2. /\ g \in Hashes /\ g.refs = h.refs /\ g.index = h.index /\ g.first = h.first /\ g.last = h.last
      /\ \A q \in M : g.pair[q].key = h.pair[q].key /\ g.pair[q].link = h.pair[q].link
      /\ \A q \in M : g.pair[q].next = h.pair[q].next /\ g.pair[q].prev = h.pair[q].prev
  BY <1>0, <1>1 DEF ValueIs
<1>3. Chained(g, M, num)
  BY <1>0, <1>2, SameChains
<1>4. Ordered(g, M, ord)
  BY <1>0, <1>2, SameOrder
<1>5. Distinct(g, M)
  BY <1>0, <1>2 DEF Distinct
<1>. QED
  BY <1>0, <1>1, <1>2, <1>3, <1>4, <1>5 DEF Whole

LEMMA ClearKeeps ==
    ASSUME NEW h, NEW M, NEW num, NEW ord, Whole(h, M, num, ord),
           NEW g, g = [h EXCEPT !.refs = [i \in DOMAIN h.refs |-> NoPair], !.fused = 0, !.count = 0,
                                !.first = NoPair, !.last = NoPair]
    PROVE  Whole(g, {}, num, ord) /\ g.count = 0
<1>0. h \in Hashes /\ h.refs \in [Slots(h) -> Pointer] /\ NoPair \in Pointer
  BY HashFields DEF Whole, Pointer
<1>. DEFINE r == [i \in DOMAIN h.refs |-> NoPair]
<1>1. r \in [Slots(h) -> Pointer] /\ \A i \in Slots(h) : r[i] = NoPair
  BY <1>0
<1>. HIDE DEF r
<1>2. g = [h EXCEPT !.refs = r, !.fused = 0, !.count = 0, !.first = NoPair, !.last = NoPair]
  BY DEF r
<1>3. /\ g.refs = r /\ g.index = h.index /\ g.fused = 0 /\ g.count = 0 /\ g.first = NoPair /\ g.last = NoPair /\ g.pair = h.pair
  BY <1>0, <1>2 DEF Hashes, Records
<1>4. r \in [1..Allocates[h.index] -> Pointer] /\ r \in UNION {[1..n -> Pointer] : n \in Nat}
  <2>1. Allocates[h.index] \in Nat /\ Slots(h) = 1..Allocates[h.index]
    BY <1>0, HashFields DEF Slots, Hash!allocated
  <2>. QED
    BY <1>1, <2>1
<1>5. g \in Hashes
  <2>1. g \in Records
    <3>1. h \in Records
      BY <1>0 DEF Hashes
    <3>2. g = [pair |-> h.pair, refs |-> r, index |-> h.index, fused |-> 0, count |-> 0, first |-> NoPair, last |-> NoPair]
      BY <1>2, <3>1 DEF Records
    <3>3. h.pair \in [Pairs -> PairFields] /\ h.index \in 1..Len(Allocates)
      BY <3>1 DEF Records
    <3>. QED
      BY <1>0, <1>4, <3>2, <3>3 DEF Records
  <2>. QED
    BY <1>3, <1>4, <2>1 DEF Hashes
<1>6. Slots(g) = Slots(h)
  BY <1>3 DEF Slots, Hash!allocated
<1>7. Chained(g, {}, num) /\ Ordered(g, {}, ord) /\ Distinct(g, {})
  BY <1>1, <1>3, <1>6 DEF Chained, Ordered, Distinct, Numbered, Linked, IsLatest
<1>. QED
  BY <1>3, <1>5, <1>7 DEF Whole

\* sort: the list in any other order
LEMMA SortedList ==
    ASSUME NEW M, M \subseteq Pairs, NEW num, Numbered(M, num), NEW list, Enlists(list, M, num),
           NEW s \in [1..Len(list) -> 1..Len(list)], \A i, j \in DOMAIN s : i # j => s[i] # s[j],
           NEW t, t = [i \in 1..Len(list) |-> list[s[i]]]
    PROVE  Lineup(t, M)
<1>. DEFINE n == Len(list)
<1>0. /\ Len(list) \in Nat /\ (\A i \in 1..Len(list) : list[i] \in M)
      /\ (\A i, j \in 1..Len(list) : list[i] = list[j] => i = j)
  <2>1. Len(list) \in Nat
    BY Enlisted
  <2>2. \A i \in 1..Len(list) : list[i] \in M
    BY Enlisted
  <2>3. \A i, j \in 1..Len(list) : list[i] = list[j] => i = j
    <3>1. \A i, j \in 1..Len(list) : i < j => num[list[i]] > num[list[j]]
      BY DEF Enlists
    <3>2. \A i \in 1..Len(list) : num[list[i]] \in Int
      BY <2>2 DEF Numbered
    <3>. QED
      BY <2>1, <3>1, <3>2
  <2>. QED
    BY <2>1, <2>2, <2>3
<1>1. n \in Nat /\ (\A i \in 1..n : list[i] \in M) /\ (\A i, j \in 1..n : list[i] = list[j] => i = j)
  BY <1>0
<1>2. \A p \in M : \E i \in 1..n : list[i] = p
  BY DEF Enlists
<1>. HIDE DEF n
<1>3. s \in [1..n -> 1..n] /\ \A i, j \in 1..n : i # j => s[i] # s[j]
  BY DEF n
<1>4. \A i \in 1..n : \E j \in 1..n : s[j] = i
  <2>1. IsFiniteSet(1..n)
    BY <1>1, FS_Interval
  <2>2. s \in Injection(1..n, 1..n)
    BY <1>3 DEF Injection, IsInjective
  <2>3. s \in Surjection(1..n, 1..n)
    BY <2>1, <2>2, FS_Injection
  <2>. QED
    BY <2>3 DEF Surjection
<1>5. t = [i \in 1..n |-> list[s[i]]] /\ \A i \in 1..n : s[i] \in 1..n /\ t[i] = list[s[i]]
  BY <1>3 DEF n
<1>6. t \in Seq(M) /\ Len(t) = n
  <2>1. t \in [1..n -> M]
    BY <1>1, <1>5
  <2>. QED
    BY <1>1, <2>1, SeqDef, LenProperties
<1>7. \A p \in M : \E i \in 1..n : t[i] = p
  <2>1. ASSUME NEW p \in M PROVE \E i \in 1..n : t[i] = p
    <3>1. PICK i \in 1..n : list[i] = p
      BY <1>2
    <3>2. PICK j \in 1..n : s[j] = i
      BY <1>4
    <3>. QED
      BY <1>5, <3>1, <3>2
  <2>. QED
    BY <2>1
<1>8. \A i, j \in 1..n : t[i] = t[j] => i = j
  <2>1. ASSUME NEW i \in 1..n, NEW j \in 1..n, t[i] = t[j] PROVE i = j
    <3>1. s[i] \in 1..n /\ s[j] \in 1..n /\ list[s[i]] = list[s[j]]
      BY <1>5, <2>1
    <3>2. s[i] = s[j]
      BY <1>1, <3>1
    <3>. QED
      BY <1>3, <3>2
  <2>. QED
    BY <2>1
<1>. QED
  BY <1>6, <1>7, <1>8 DEF Lineup
-----------------------------------------------------------------------------
\* What the collector keeps
Closed(K, h, at) ==
    /\ K \subseteq Pairs /\ at \in K \cup {NoPair} /\ h.first \in K \cup {NoPair}
    /\ \A p \in K : h.pair[p].next \in K \cup {NoPair} /\ h.pair[p].prev \in K \cup {NoPair}
LEMMA Reached ==
    ASSUME NEW h \in Hashes, NEW at \in Pointer, NEW K, K = Hash!Reachable(h, at)
    PROVE  Closed(K, h, at)
<1>. DEFINE roots == (Hash!In(h.refs) \cup {h.first, h.last, at}) \ {NoPair}
            to(p) == {h.pair[p].link, h.pair[p].next, h.pair[p].prev} \ {NoPair}
            closed == {s \in SUBSET Pairs : roots \subseteq s /\ \A p \in s : to(p) \subseteq s}
<1>1. K = {p \in Pairs : \A s \in closed : p \in s}
  BY DEF Hash!Reachable
<1>2. K \subseteq Pairs
  BY <1>1
<1>3. h.first \in Pointer /\ \A p \in Pairs : h.pair[p].next \in Pointer /\ h.pair[p].prev \in Pointer
  BY HashFields
<1>4. ASSUME NEW x \in Pointer, \A s \in closed : x = NoPair \/ x \in s PROVE x \in K \cup {NoPair}
  BY <1>1, <1>4 DEF Pointer
<1>5. \A s \in closed : (at = NoPair \/ at \in s) /\ (h.first = NoPair \/ h.first \in s)
  OBVIOUS
<1>6. at \in K \cup {NoPair} /\ h.first \in K \cup {NoPair}
  <2>. HIDE DEF closed
  <2>. QED
    BY <1>3, <1>4, <1>5
<1>7. ASSUME NEW p \in K PROVE h.pair[p].next \in K \cup {NoPair} /\ h.pair[p].prev \in K \cup {NoPair}
  <2>1. \A s \in closed : p \in s
    BY <1>1
  <2>2. \A s \in closed : to(p) \subseteq s
    BY <2>1
  <2>3. \A s \in closed : /\ h.pair[p].next = NoPair \/ h.pair[p].next \in s
                          /\ h.pair[p].prev = NoPair \/ h.pair[p].prev \in s
    <3>. HIDE DEF closed
    <3>. QED
      BY <2>2
  <2>4. h.pair[p].next \in Pointer /\ h.pair[p].prev \in Pointer
    BY <1>2, <1>3
  <2>. HIDE DEF closed
  <2>. QED
    BY <1>4, <2>3, <2>4
<1>. QED
  BY <1>2, <1>6, <1>7 DEF Closed

\* leads to each pair of the list.
LEMMA MembersKept ==
    ASSUME NEW h, NEW M, NEW num, NEW ord, Whole(h, M, num, ord), NEW K, NEW at, Closed(K, h, at)
    PROVE  M \subseteq K
<1>. DEFINE T == M \ K
            neg == [p \in M |-> -ord[p]]
<1>0. h \in Hashes /\ M \subseteq Pairs /\ Ordered(h, M, ord) /\ NoPair \notin Pairs
  BY Memories DEF Whole
<1>1. Neighbours(h, M) /\ Ranks(h, M, ord)
  BY <1>0, Mutual
<1>2. \A p \in M : ord[p] \in Int /\ neg[p] = -ord[p]
  BY <1>0 DEF Ordered, Numbered
<1>3. T \subseteq Pairs /\ T \subseteq M /\ Numbered(T, neg)
  BY <1>0, <1>2 DEF Ordered, Numbered
<1>4. ASSUME T # {} PROVE FALSE
  <2>. DEFINE p == Latest(T, neg)
  <2>. HIDE DEF neg, T
  <2>1. IsLatest(p, T, neg)
    BY <1>3, LatestIs
  <2>. HIDE DEF p
  <2>2. p \in T /\ \A q \in T : ord[p] <= ord[q]
    BY <1>2, <1>3, <1>4, <2>1 DEF IsLatest
  <2>3. p \in M /\ p \notin K
    BY <2>2 DEF T
  <2>4. CASE h.pair[p].prev = NoPair
    <3>1. h.first = p
      BY <1>1, <2>3, <2>4 DEF Neighbours
    <3>. QED
      BY <1>0, <2>3, <3>1 DEF Closed
  <2>5. CASE h.pair[p].prev # NoPair
    <3>. DEFINE q == h.pair[p].prev
    <3>1. q \in M /\ h.pair[q].next = p
      BY <1>1, <2>3, <2>5 DEF Neighbours
    <3>2. ord[q] < ord[p]
      BY <1>1, <2>3, <3>1 DEF Ranks
    <3>3. q \notin T
      BY <1>2, <2>2, <2>3, <3>1, <3>2
    <3>4. q \in K
      BY <3>1, <3>3 DEF T
    <3>. QED
      BY <1>0, <2>3, <3>1, <3>4 DEF Closed
  <2>. QED
    BY <2>4, <2>5
<1>. QED
  BY <1>4

\* So what it leaves is in order,
Remain(h, K) == K \subseteq Pairs /\ \A p \in K : pair'[p] = h.pair[p]
LEMMA BecomesIs ==
    ASSUME NEW h, NEW M, NEW num, NEW ord, Whole(h, M, num, ord), visit'.at \in Pointer, Hash!Becomes(h)
    PROVE  /\ Whole(Hash!State', M, num, ord) /\ fpairs_count' = h.count /\ first' = h.first /\ last' = h.last
           /\ \E K : Closed(K, h, visit'.at) /\ Remain(h, K) /\ M \subseteq K
<1>. DEFINE K == Hash!Reachable(h, visit'.at)
            f == [p \in Pairs |-> IF p \in K THEN h.pair[p] ELSE Hash!None]
            g == [pair |-> f, refs |-> h.refs, index |-> h.index, fused |-> h.fused, count |-> h.count,
                  first |-> h.first, last |-> h.last]
<1>0. /\ h \in Hashes /\ M \subseteq Pairs /\ Chained(h, M, num) /\ Ordered(h, M, ord) /\ Distinct(h, M)
  BY DEF Whole
<1>1. Closed(K, h, visit'.at)
  BY <1>0, Reached
<1>2. /\ pair' = f /\ refs' = h.refs /\ index' = h.index /\ fused_refs' = h.fused /\ fpairs_count' = h.count
      /\ first' = h.first /\ last' = h.last
  BY DEF Hash!Becomes
<1>. HIDE DEF K
<1>3. f \in [Pairs -> PairFields]
  <2>1. \A p \in Pairs : h.pair[p] \in PairFields
    BY <1>0, HashFields
  <2>2. Hash!None \in PairFields
    BY NoneIs
  <2>. QED
    BY <2>1, <2>2
<1>4. Hash!State' = g
  BY <1>2 DEF Hash!State
<1>5. M \subseteq K
  BY <1>1, MembersKept
<1>6. Remain(h, K)
  BY <1>1, <1>2 DEF Remain, Closed
<1>7. g \in Hashes
  <2>. HIDE DEF f
  <2>. QED
    BY <1>0, <1>3 DEF Hashes, Records
<1>8. \A p \in M : g.pair[p] = h.pair[p]
  BY <1>0, <1>5
<1>9. g.index = h.index /\ g.refs = h.refs /\ g.first = h.first /\ g.last = h.last
  OBVIOUS
<1>. HIDE DEF g
<1>10. Chained(g, M, num)
  BY <1>0, <1>7, <1>8, <1>9, SameChains
<1>11. Ordered(g, M, ord)
  BY <1>0, <1>7, <1>8, <1>9, SameOrder
<1>12. Distinct(g, M)
  BY <1>0, <1>8 DEF Distinct
<1>13. Whole(g, M, num, ord)
  BY <1>0, <1>7, <1>10, <1>11, <1>12 DEF Whole
<1>14. Whole(Hash!State', M, num, ord)
  BY <1>4, <1>13
<1>. QED
  BY <1>1, <1>2, <1>5, <1>6, <1>14
-----------------------------------------------------------------------------
VisitStates == {c \in [way : {"none", "next", "prev"}, at : Pointer, due : SUBSET Pairs] : c.way # "none" => c.at \in Pairs}
LEMMA VisitFields ==
    ASSUME visit \in VisitStates
    PROVE  visit.at \in Pointer /\ visit.due \subseteq Pairs /\ visit.way \in {"none", "next", "prev"}
  BY DEF VisitStates

\* The hash between two calls, and after one that has made g of it
Orderly(M, num, ord) ==
    /\ Whole(Hash!State, M, num, ord) /\ fpairs_count = Cardinality(M) /\ visit \in VisitStates
Result(g, N, num, ord) ==
    /\ Whole(g, N, num, ord) /\ Whole(Hash!State', N, num, ord) /\ fpairs_count' = Cardinality(N) /\ visit' \in VisitStates
    /\ \E K : Closed(K, g, visit'.at) /\ Remain(g, K) /\ N \subseteq K

LEMMA Results ==
    ASSUME NEW g, NEW N, NEW num, NEW ord, Whole(g, N, num, ord), g.count = Cardinality(N), visit' \in VisitStates,
           Hash!Becomes(g)
    PROVE  Result(g, N, num, ord)
<1>1. visit'.at \in Pointer
  BY DEF VisitStates
<1>. QED
  BY <1>1, BecomesIs DEF Result

\* The table has grown, or has not
LEMMA GrownIs ==
    ASSUME NEW M, NEW num, NEW ord, Orderly(M, num, ord),
           NEW h, h = (IF Hash!is_full(Hash!State) THEN Hash!expand(Hash!State) ELSE Hash!State)
    PROVE  Kept(h, Hash!State) /\ h.count = Cardinality(M) /\ \E num2 : Whole(h, M, num2, ord)
<1>1. Whole(Hash!State, M, num, ord) /\ Hash!State.count = Cardinality(M)
  BY DEF Orderly, Hash!State
<1>. DEFINE s == Hash!State
<1>. HIDE DEF s
<1>2. CASE h = s
  <2>1. Kept(h, s)
    BY <1>1, <1>2 DEF Kept, Whole, s
  <2>. QED
    BY <1>1, <1>2, <2>1 DEF s
<1>3. CASE h = Hash!expand(s)
  <2>1. Kept(h, s) /\ \E num2 : Whole(h, M, num2, ord)
    BY <1>1, <1>3, GrowKeeps DEF s
  <2>. QED
    BY <1>1, <2>1 DEF Kept, s
<1>. QED
  BY <1>2, <1>3 DEF s

Countable(M) == IsFiniteSet(M) /\ Cardinality(M) \in Nat /\ (\A p \in M : Cardinality(M) > 0 /\ Cardinality(M \ {p}) = Cardinality(M) - 1)
             /\ (\A p : p \notin M => Cardinality(M \cup {p}) = Cardinality(M) + 1)
LEMMA SubsetsCountable ==
    ASSUME NEW M, M \subseteq Pairs
    PROVE  Countable(M)
<1>1. IsFiniteSet(M) /\ Cardinality(M) \in Nat
  BY Memories, FS_Subset, FS_CardinalityType
<1>2. ASSUME NEW p \in M PROVE Cardinality(M) > 0 /\ Cardinality(M \ {p}) = Cardinality(M) - 1
  <2>1. Cardinality(M) # 0
    BY <1>1, FS_EmptySet
  <2>2. Cardinality(M \ {p}) = Cardinality(M) - 1
    BY <1>1, FS_RemoveElement
  <2>. QED
    BY <1>1, <2>1, <2>2
<1>3. ASSUME NEW p, p \notin M PROVE Cardinality(M \cup {p}) = Cardinality(M) + 1
  BY <1>1, <1>3, FS_AddElement
<1>. QED
  BY <1>1, <1>2, <1>3 DEF Countable

\* What put() does: a pair of the list gets the value,
Valued(g, h, p, v) ==
    /\ g.first = h.first /\ g.last = h.last
    /\ \A q \in Pairs : /\ g.pair[q].key = h.pair[q].key
                        /\ g.pair[q].prev = h.pair[q].prev /\ g.pair[q].next = h.pair[q].next
                        /\ g.pair[q].value = IF q = p THEN v ELSE h.pair[q].value
\* or a new one comes after the last,
Appending(g, h, k, v, p) ==
    /\ g.pair[p].key = k /\ g.pair[p].value = v
    /\ \A q \in Pairs : q # p => /\ g.pair[q].key = h.pair[q].key /\ g.pair[q].value = h.pair[q].value
                                 /\ g.pair[q].next = (IF q = h.last THEN p ELSE h.pair[q].next)
                                 /\ g.pair[q].prev = h.pair[q].prev
PutsValue(g, N, ord2, M, ord, k, v) ==
    \E p \in M : Hash!State.pair[p].key = k /\ N = M /\ ord2 = ord /\ Valued(g, Hash!State, p, v)
PutsNew(g, N, ord2, M, ord, k, v) ==
    \E p \in Pairs : /\ p \notin M /\ (\A q \in M : Hash!State.pair[q].key # k) /\ N = M \cup {p}
                     /\ Numbers(M, ord, ord2, p) /\ (\A q \in M : ord[q] < ord2[p])
                     /\ Appending(g, Hash!State, k, v, p)
                     /\ \E K : Closed(K, Hash!State, visit.at) /\ p \notin K
LeavesAll(g, N, ord2, M, ord) == N = M /\ ord2 = ord /\ Kept(g, Hash!State)

LEMMA PutValues ==
    ASSUME NEW M, NEW num, NEW ord, Orderly(M, num, ord), NEW k \in Key, NEW v \in Value, UNCHANGED visit,
           NEW h, h = (IF Hash!is_full(Hash!State) THEN Hash!expand(Hash!State) ELSE Hash!State),
           NEW p, p = Hash!Find(h, k), p # NoPair, Hash!Becomes([h EXCEPT !.pair[p].value = v])
    PROVE  \E g, N, num2, ord2 : Result(g, N, num2, ord2) /\ PutsValue(g, N, ord2, M, ord, k, v)
<1>. DEFINE g == [h EXCEPT !.pair[p].value = v]
<1>1. Kept(h, Hash!State) /\ h.count = Cardinality(M)
  BY GrownIs
<1>2. PICK num2 : Whole(h, M, num2, ord)
  BY GrownIs
<1>3. p \in M /\ p \in Pairs /\ h.pair[p].key = k
  BY <1>2, FindIs DEF Whole
<1>4. ValueIs(g, h, p, v) /\ Whole(g, M, num2, ord)
  BY <1>2, <1>3, ValueKeeps
<1>5. Hash!Becomes(g) /\ visit' \in VisitStates
  BY DEF Orderly
<1>. HIDE DEF g
<1>6. g.count = Cardinality(M)
  BY <1>1, <1>4 DEF ValueIs
<1>7. Result(g, M, num2, ord)
  BY <1>4, <1>5, <1>6, Results
<1>8. Valued(g, Hash!State, p, v) /\ Hash!State.pair[p].key = k
  BY <1>1, <1>3, <1>4 DEF ValueIs, Kept, Valued
<1>9. PutsValue(g, M, ord, M, ord, k, v)
  BY <1>3, <1>8 DEF PutsValue
<1>. QED
  BY <1>7, <1>9

LEMMA PutAppends ==
    ASSUME NEW M, NEW num, NEW ord, Orderly(M, num, ord), NEW k \in Key, NEW v \in Value, UNCHANGED visit,
           NEW h, h = (IF Hash!is_full(Hash!State) THEN Hash!expand(Hash!State) ELSE Hash!State),
           Hash!Find(h, k) = NoPair, NEW p \in Hash!Free(h), Hash!Becomes(Hash!added(h, k, v, p))
    PROVE  \E g, N, num2, ord2 : Result(g, N, num2, ord2) /\ PutsNew(g, N, ord2, M, ord, k, v)
<1>. DEFINE g == Hash!added(h, k, v, p)
            N == M \cup {p}
            K == Hash!Reachable(h, visit.at)
<1>1. Kept(h, Hash!State) /\ h.count = Cardinality(M)
  BY GrownIs
<1>2. PICK num2 : Whole(h, M, num2, ord)
  BY GrownIs
<1>3. h \in Hashes /\ M \subseteq Pairs /\ Chained(h, M, num2) /\ Ordered(h, M, ord) /\ Distinct(h, M) /\ NoPair \notin Pairs
  BY <1>2, Memories DEF Whole
<1>4. \A q \in M : h.pair[q].key # k
  <2>1. \A q \in M : h.pair[q].key = k => Hash!Find(h, k) = q
    BY <1>3, FindIs
  <2>. QED
    BY <1>3, <2>1
<1>5. visit.at \in Pointer /\ visit' \in VisitStates
  BY VisitFields DEF Orderly
<1>6. Closed(K, h, visit.at)
  BY <1>3, <1>5, Reached
<1>7. p \in Pairs /\ p \notin K
  BY DEF Hash!Free
<1>. HIDE DEF K
<1>8. M \subseteq K
  BY <1>2, <1>6, MembersKept
<1>9. p \notin M
  BY <1>7, <1>8
<1>10. PICK num3 : Numbers(M, num2, num3, p) /\ \A q \in M : num2[q] < num3[p]
  <2>1. Numbered(M, num2)
    BY <1>3 DEF Chained
  <2>2. PICK n \in Int : \A q \in M : num2[q] < n
    BY <1>3, <2>1, Extremes
  <2>3. Numbers(M, num2, [q \in M \cup {p} |-> IF q = p THEN n ELSE num2[q]], p)
    BY <1>7, <1>9 DEF Numbers
  <2>. QED
    BY <1>9, <2>2, <2>3
<1>11. PICK ord2 : Numbers(M, ord, ord2, p) /\ \A q \in M : ord[q] < ord2[p]
  <2>1. Numbered(M, ord)
    BY <1>3 DEF Ordered
  <2>2. PICK n \in Int : \A q \in M : ord[q] < n
    BY <1>3, <2>1, Extremes
  <2>3. Numbers(M, ord, [q \in M \cup {p} |-> IF q = p THEN n ELSE ord[q]], p)
    BY <1>7, <1>9 DEF Numbers
  <2>. QED
    BY <1>9, <2>2, <2>3
<1>12. AddedTo(g, h, k, v, p) /\ Whole(g, N, num3, ord2)
  BY <1>2, <1>4, <1>10, <1>11, AddedIs
<1>13. Hash!Becomes(g)
  OBVIOUS
<1>. HIDE DEF g
<1>14. g.count = Cardinality(N)
  BY <1>1, <1>3, <1>9, <1>12, SubsetsCountable DEF AddedTo, Countable
<1>15. Result(g, N, num3, ord2)
  BY <1>5, <1>12, <1>13, <1>14, Results
<1>16. Appending(g, Hash!State, k, v, p) /\ \A q \in M : Hash!State.pair[q].key # k
  BY <1>1, <1>3, <1>4, <1>12 DEF AddedTo, Appending, Kept
<1>17. Closed(K, Hash!State, visit.at)
  BY <1>1, <1>6 DEF Closed, Kept
<1>18. PutsNew(g, N, ord2, M, ord, k, v)
  BY <1>7, <1>9, <1>11, <1>16, <1>17 DEF PutsNew
<1>. QED
  BY <1>15, <1>18

LEMMA PutsNothing ==
    ASSUME NEW M, NEW num, NEW ord, Orderly(M, num, ord), visit' \in VisitStates,
           NEW h, h = (IF Hash!is_full(Hash!State) THEN Hash!expand(Hash!State) ELSE Hash!State), Hash!Becomes(h)
    PROVE  \E g, N, num2, ord2 : Result(g, N, num2, ord2) /\ LeavesAll(g, N, ord2, M, ord)
<1>1. Kept(h, Hash!State) /\ h.count = Cardinality(M)
  BY GrownIs
<1>2. PICK num2 : Whole(h, M, num2, ord)
  BY GrownIs
<1>3. Result(h, M, num2, ord)
  BY <1>1, <1>2, Results
<1>. QED
  BY <1>1, <1>3 DEF LeavesAll

\* A step and the end of a cycle: the pairs stay
LEMMA StaysSame ==
    ASSUME NEW M, NEW num, NEW ord, Orderly(M, num, ord), visit' \in VisitStates, Hash!Becomes(Hash!State)
    PROVE  \E g, N, num2, ord2 : Result(g, N, num2, ord2) /\ LeavesAll(g, N, ord2, M, ord)
<1>1. Whole(Hash!State, M, num, ord) /\ Hash!State.count = Cardinality(M)
  BY DEF Orderly, Hash!State
<1>2. Result(Hash!State, M, num, ord)
  BY <1>1, Results
<1>3. Kept(Hash!State, Hash!State)
  BY <1>1 DEF Kept, Whole
<1>. QED
  BY <1>2, <1>3 DEF LeavesAll

\* LeavesAll at all is freed
LEMMA AllKept ==
    ASSUME NEW g, NEW N, NEW num, NEW ord, Whole(g, N, num, ord), g.count = Cardinality(N), visit' \in VisitStates,
           Hash!State' = g
    PROVE  Result(g, N, num, ord)
<1>1. g \in Hashes /\ N \subseteq Pairs
  BY DEF Whole
<1>2. fpairs_count' = g.count /\ pair' = g.pair
  BY DEF Hash!State
<1>3. visit'.at \in Pointer
  BY DEF VisitStates
<1>4. Closed(Pairs, g, visit'.at) /\ Remain(g, Pairs)
  BY <1>1, <1>2, <1>3, HashFields DEF Closed, Remain, Pointer
<1>. QED
  BY <1>1, <1>2, <1>4 DEF Result

LEMMA UnchangedHash ==
    ASSUME NEW M, NEW num, NEW ord, Orderly(M, num, ord), visit' \in VisitStates, UNCHANGED <<pair, Hash!hash>>
    PROVE  \E g, N, num2, ord2 : Result(g, N, num2, ord2) /\ LeavesAll(g, N, ord2, M, ord)
<1>1. Whole(Hash!State, M, num, ord) /\ Hash!State.count = Cardinality(M)
  BY DEF Orderly, Hash!State
<1>2. Hash!State' = Hash!State
  BY DEF Hash!State, Hash!hash
<1>3. Result(Hash!State, M, num, ord)
  BY <1>1, <1>2, AllKept
<1>4. Kept(Hash!State, Hash!State)
  BY <1>1 DEF Kept, Whole
<1>. QED
  BY <1>3, <1>4 DEF LeavesAll

LEMMA PutsReplaced ==
    ASSUME NEW M, NEW num, NEW ord, Orderly(M, num, ord), NEW k \in Key, NEW v \in Value, Hash!put_replaced(k, v)
    PROVE  \E g, N, num2, ord2 : Result(g, N, num2, ord2) /\ PutsValue(g, N, ord2, M, ord, k, v)
<1>. DEFINE h == Hash!State
            p == Hash!Find(h, k)
            g == [h EXCEPT !.pair[p].value = v]
<1>1. Whole(h, M, num, ord) /\ h.count = Cardinality(M) /\ visit' \in VisitStates
  BY DEF Orderly, Hash!State, Hash!put_replaced
<1>2. h \in Hashes /\ M \subseteq Pairs /\ Chained(h, M, num) /\ Distinct(h, M)
  BY <1>1 DEF Whole
<1>3. p \in M /\ p \in Pairs /\ h.pair[p].key = k
  <2>1. p # NoPair
    BY DEF Hash!put_replaced
  <2>. HIDE DEF h
  <2>. QED
    BY <1>2, <2>1, FindIs
<1>4. pair' = [pair EXCEPT ![p].value = v] /\ UNCHANGED Hash!hash
  BY DEF Hash!put_replaced
<1>5. Hash!State' = g
  BY <1>4 DEF Hash!State, Hash!hash
<1>. HIDE DEF h, p
<1>6. ValueIs(g, h, p, v) /\ Whole(g, M, num, ord)
  BY <1>1, <1>3, ValueKeeps
<1>. HIDE DEF g
<1>7. Result(g, M, num, ord)
  BY <1>1, <1>5, <1>6, AllKept DEF ValueIs
<1>8. Valued(g, h, p, v)
  BY <1>6 DEF ValueIs, Valued
<1>9. PutsValue(g, M, ord, M, ord, k, v)
  BY <1>3, <1>8 DEF PutsValue, h
<1>. QED
  BY <1>7, <1>9

\* remove() takes a pair out,
Taken(g, h, x) ==
    \A q \in Pairs : /\ g.pair[q].key = h.pair[q].key /\ g.pair[q].value = h.pair[q].value
                     /\ g.pair[q].next = IF q = h.pair[x].prev THEN h.pair[x].next ELSE h.pair[q].next
                     /\ g.pair[q].prev = IF q = h.pair[x].next THEN h.pair[x].prev ELSE h.pair[q].prev
Removes(g, N, ord2, M, ord, k) ==
    \E x \in M : /\ Hash!State.pair[x].key = k /\ N = M \ {x} /\ ord2 = ord /\ Taken(g, Hash!State, x)
                 /\ visit' = [visit EXCEPT !.due = visit.due \ {x}]
LEMMA LeavesIs ==
    ASSUME visit \in VisitStates, NEW S, Hash!Leaves(S)
    PROVE  visit' \in VisitStates /\ visit' = [visit EXCEPT !.due = visit.due \ S]
  BY DEF VisitStates, Hash!Leaves

LEMMA RemoveDoes ==
    ASSUME NEW M, NEW num, NEW ord, Orderly(M, num, ord), NEW k \in Key, Hash!remove(k)
    PROVE  \E g, N, num2, ord2 : Result(g, N, num2, ord2) /\ Removes(g, N, ord2, M, ord, k)
<1>. DEFINE h == Hash!State
            x == Hash!Find(h, k)
            g == Hash!removed(h, k)
            N == M \ {x}
<1>1. Whole(h, M, num, ord) /\ h.count = Cardinality(M) /\ visit \in VisitStates
  BY DEF Orderly, Hash!State
<1>2. h \in Hashes /\ M \subseteq Pairs /\ Chained(h, M, num) /\ Distinct(h, M)
  BY <1>1 DEF Whole
<1>3. x # NoPair /\ Hash!Leaves({x}) /\ Hash!Becomes(g)
  BY DEF Hash!remove
<1>4. visit' \in VisitStates /\ visit' = [visit EXCEPT !.due = visit.due \ {x}]
  BY <1>1, <1>3, LeavesIs
<1>. HIDE DEF h
<1>5. x \in M /\ h.pair[x].key = k
  BY <1>2, <1>3, FindIs
<1>6. h.count > 0 /\ Cardinality(N) = Cardinality(M) - 1
  BY <1>1, <1>2, <1>5, SubsetsCountable DEF Countable
<1>7. Removed(g, h, x) /\ Whole(g, N, num, ord)
  BY <1>1, <1>3, <1>6, RemovedIs
<1>. HIDE DEF g
<1>8. g.count = Cardinality(N)
  BY <1>1, <1>6, <1>7 DEF Removed
<1>9. Result(g, N, num, ord)
  BY <1>3, <1>4, <1>7, <1>8, Results
<1>10. Taken(g, h, x)
  BY <1>7 DEF Removed, Taken
<1>11. Removes(g, N, ord, M, ord, k)
  BY <1>4, <1>5, <1>10 DEF Removes, h
<1>. QED
  BY <1>9, <1>11

\* rename() another one, and its own pair gets the key,
GivesKey(g, N, ord2, M, ord, from, to) ==
    \E p \in M : \E x \in M \cup {NoPair} :
        /\ Hash!State.pair[p].key = from /\ (x # NoPair => Hash!State.pair[x].key = to)
        /\ (\A q \in M : Hash!State.pair[q].key = to => x = q)
        /\ N = M \ {x} /\ ord2 = ord /\ Renamed(g, Hash!State, p, x, to)
        /\ visit' = [visit EXCEPT !.due = visit.due \ {x}]
LEMMA RenameDoes ==
    ASSUME NEW M, NEW num, NEW ord, Orderly(M, num, ord), NEW from \in Key, NEW to \in Key, Hash!rename(from, to)
    PROVE  \E g, N, num2, ord2 : Result(g, N, num2, ord2) /\ GivesKey(g, N, ord2, M, ord, from, to)
<1>. DEFINE h == Hash!State
            p == Hash!Find(h, from)
            x == Hash!Find(h, to)
            g == Hash!renamed(h, from, to)
            N == M \ {x}
            C == N \ {p}
<1>1. Whole(h, M, num, ord) /\ h.count = Cardinality(M) /\ visit \in VisitStates
  BY DEF Orderly, Hash!State
<1>2. h \in Hashes /\ M \subseteq Pairs /\ Chained(h, M, num) /\ Distinct(h, M) /\ NoPair \notin Pairs
  BY <1>1, Memories DEF Whole
<1>3. from # to /\ p # NoPair /\ Hash!Leaves({x}) /\ Hash!Becomes(g)
  BY DEF Hash!rename
<1>4. visit' \in VisitStates /\ visit' = [visit EXCEPT !.due = visit.due \ {x}]
  BY <1>1, <1>3, LeavesIs
<1>. HIDE DEF h
<1>5. p \in M /\ h.pair[p].key = from
  BY <1>2, <1>3, FindIs
<1>6. x \in M \cup {NoPair} /\ (x # NoPair => h.pair[x].key = to) /\ \A q \in M : h.pair[q].key = to => x = q
  BY <1>2, FindIs
<1>7. h.count > 0 /\ Cardinality(N) = IF x = NoPair THEN Cardinality(M) ELSE Cardinality(M) - 1
  <2>1. x = NoPair => N = M
    BY <1>2
  <2>. HIDE DEF N, x
  <2>2. x # NoPair => N = M \ {x} /\ x \in M
    BY <1>6 DEF N
  <2>. QED
    BY <1>1, <1>2, <1>5, <2>1, <2>2, SubsetsCountable DEF Countable
<1>. HIDE DEF p, x
<1>8. PICK num2 : Numbers(C, num, num2, p) /\ \A q \in C : num[q] < num2[p]
  <2>1. Numbered(C, num) /\ C \subseteq Pairs
    BY <1>2 DEF Chained, Numbered
  <2>. HIDE DEF C
  <2>2. PICK n \in Int : \A q \in C : num[q] < n
    BY <2>1, Extremes
  <2>3. p \notin C /\ p \in Pairs
    BY <1>2, <1>5 DEF C
  <2>4. Numbers(C, num, [q \in C \cup {p} |-> IF q = p THEN n ELSE num[q]], p)
    BY <2>3 DEF Numbers
  <2>. QED
    BY <2>2, <2>3, <2>4
<1>9. Renamed(g, h, p, x, to) /\ Whole(g, N, num2, ord)
  BY <1>1, <1>3, <1>7, <1>8, RenamedIs DEF p, x
<1>. HIDE DEF g
<1>10. g.count = Cardinality(N)
  BY <1>1, <1>7, <1>9 DEF Renamed
<1>11. Result(g, N, num2, ord)
  BY <1>3, <1>4, <1>9, <1>10, Results
<1>12. GivesKey(g, N, ord, M, ord, from, to)
  BY <1>4, <1>5, <1>6, <1>9 DEF GivesKey, h
<1>. QED
  BY <1>11, <1>12

Clears(g, N) == N = {} /\ visit' = [visit EXCEPT !.due = visit.due \ Pairs]
LEMMA ClearDoes ==
    ASSUME NEW M, NEW num, NEW ord, Orderly(M, num, ord), Hash!clear
    PROVE  \E g, N, num2, ord2 : Result(g, N, num2, ord2) /\ Clears(g, N)
<1>. DEFINE h == Hash!State
            g == [h EXCEPT !.refs = [i \in DOMAIN h.refs |-> NoPair], !.fused = 0, !.count = 0,
                           !.first = NoPair, !.last = NoPair]
<1>1. Whole(h, M, num, ord) /\ visit \in VisitStates
  BY DEF Orderly
<1>2. Hash!Leaves(Pairs) /\ Hash!Becomes(g)
  BY DEF Hash!clear, Hash!State
<1>3. visit' \in VisitStates /\ visit' = [visit EXCEPT !.due = visit.due \ Pairs]
  BY <1>1, <1>2, LeavesIs
<1>. HIDE DEF h
<1>4. Whole(g, {}, num, ord) /\ g.count = 0
  BY <1>1, ClearKeeps
<1>. HIDE DEF g
<1>5. Cardinality({}) = 0
  BY FS_EmptySet
<1>6. Result(g, {}, num, ord)
  BY <1>2, <1>3, <1>4, <1>5, Results
<1>. QED
  BY <1>3, <1>6 DEF Clears

\* sort puts the list in another order,
Reorders(g, N, ord2, M, ord) ==
    /\ N = M /\ visit.way = "none" /\ visit' = visit
    /\ \E s \in [1..Len(Hash!List(Hash!State)) -> 1..Len(Hash!List(Hash!State))] :
          /\ \A i, j \in DOMAIN s : i # j => s[i] # s[j]
          /\ LET t == [i \in 1..Len(Hash!List(Hash!State)) |-> Hash!List(Hash!State)[s[i]]]
             IN  Lineup(t, M) /\ OrderedIs(g, Hash!State, M, t) /\ ord2 = [p \in M |-> Hash!Place(t, p)]
LEMMA SortDoes ==
    ASSUME NEW M, NEW num, NEW ord, Orderly(M, num, ord), Hash!sort
    PROVE  \E g, N, num2, ord2 : Result(g, N, num2, ord2) /\ Reorders(g, N, ord2, M, ord)
<1>. DEFINE h == Hash!State
            list == Hash!List(h)
            n == Len(list)
<1>1. Whole(h, M, num, ord) /\ h.count = Cardinality(M) /\ visit \in VisitStates
  BY DEF Orderly, Hash!State
<1>2. visit.way = "none" /\ visit' = visit
  BY DEF Hash!sort
<1>3. PICK s \in [1..n -> 1..n] : /\ \A i, j \in DOMAIN s : i # j => s[i] # s[j]
                                  /\ Hash!Becomes(Hash!ordered(h, [i \in 1..n |-> list[s[i]]]))
  BY DEF Hash!sort
<1>. DEFINE t == [i \in 1..n |-> list[s[i]]]
            g == Hash!ordered(h, t)
            place == [p \in M |-> Hash!Place(t, p)]
<1>4. h \in Hashes /\ M \subseteq Pairs /\ Ordered(h, M, ord)
  BY <1>1 DEF Whole
<1>. HIDE DEF h
<1>5. Enlists(list, M, Negative(M, ord)) /\ Numbered(M, Negative(M, ord))
  BY <1>4, ListIs
<1>6. Lineup(t, M)
  <2>1. s \in [1..Len(list) -> 1..Len(list)] /\ t = [i \in 1..Len(list) |-> list[s[i]]]
    OBVIOUS
  <2>. HIDE DEF t, list, n
  <2>. QED
    BY <1>3, <1>4, <1>5, <2>1, SortedList
<1>7. Hash!Becomes(g)
  BY <1>3
<1>. HIDE DEF t
<1>8. OrderedIs(g, h, M, t) /\ Whole(g, M, num, place)
  BY <1>1, <1>6, OrderKeeps
<1>. HIDE DEF g, place
<1>9. Result(g, M, num, place)
  <2>1. visit' \in VisitStates /\ g.count = Cardinality(M)
    BY <1>1, <1>2, <1>8 DEF OrderedIs
  <2>. QED
    BY <1>7, <1>8, <2>1, Results
<1>10. Reorders(g, M, place, M, ord)
  BY <1>2, <1>3, <1>6, <1>8 DEF Reorders, t, place, h
<1>. QED
  BY <1>9, <1>10

\* a clone changes chains and memory.
LEMMA CloneDoes ==
    ASSUME NEW M, NEW num, NEW ord, Orderly(M, num, ord), Hash!clone
    PROVE  \E g, N, num2, ord2 : Result(g, N, num2, ord2) /\ LeavesAll(g, N, ord2, M, ord)
<1>. DEFINE h == Hash!State
            g == Hash!chained(h, [p \in Hash!In(Hash!List(h)) |-> Hash!Place(Hash!List(h), p)])
<1>1. Whole(h, M, num, ord) /\ h.count = Cardinality(M) /\ visit' \in VisitStates
  BY DEF Orderly, Hash!State, Hash!clone
<1>2. Hash!Becomes(g)
  BY DEF Hash!clone
<1>. HIDE DEF h
<1>3. Kept(g, h)
  BY <1>1, CloneKeeps
<1>4. PICK num2 : Whole(g, M, num2, ord)
  BY <1>1, CloneKeeps
<1>. HIDE DEF g
<1>5. Result(g, M, num2, ord)
  BY <1>1, <1>2, <1>3, <1>4, Results DEF Kept
<1>. QED
  BY <1>3, <1>5 DEF LeavesAll, h

\* A cycle begins, goes on and ends
CycleBegins(M) ==
    /\ visit.way = "none" /\ first # NoPair
    /\ \E way \in {"next", "prev"} :
          visit' = [way |-> way, at |-> IF way = "next" THEN first ELSE last,
                    due |-> M \ {IF way = "next" THEN first ELSE last}]
CycleGoes ==
    /\ visit.way # "none" /\ Hash!following # NoPair
    /\ visit' = [visit EXCEPT !.at = Hash!following, !.due = visit.due \ {Hash!following}]
CycleEnds == visit.way # "none" /\ visit' = Hash!NoCycle

LEMMA ForeachDoes ==
    ASSUME NEW M, NEW num, NEW ord, Orderly(M, num, ord), NEW way \in {"next", "prev"}, Hash!foreach(way)
    PROVE  \E g, N, num2, ord2 : Result(g, N, num2, ord2) /\ LeavesAll(g, N, ord2, M, ord) /\ CycleBegins(M)
<1>. DEFINE h == Hash!State
            x == IF way = "next" THEN first ELSE last
<1>1. Whole(h, M, num, ord) /\ visit \in VisitStates /\ first = h.first /\ last = h.last
  BY DEF Orderly, Hash!State
<1>2. h \in Hashes /\ M \subseteq Pairs /\ Ordered(h, M, ord)
  BY <1>1 DEF Whole
<1>3. visit.way = "none" /\ first # NoPair /\ UNCHANGED <<pair, Hash!hash>>
  BY DEF Hash!foreach
<1>4. Hash!In(Hash!List(h)) = M /\ x \in Pairs
  <2>. HIDE DEF h
  <2>1. Hash!In(Hash!List(h)) = M
    BY <1>2, ListIs
  <2>2. Neighbours(h, M)
    BY <1>2, Mutual
  <2>. QED
    BY <1>1, <1>2, <1>3, <2>1, <2>2 DEF Neighbours
<1>5. visit' = [way |-> way, at |-> x, due |-> M \ {x}]
  <2>1. visit' = [Hash!NoCycle EXCEPT !.way = way, !.due = Hash!In(Hash!List(h)) \ {x}, !.at = x]
    BY DEF Hash!foreach
  <2>. HIDE DEF h, x
  <2>. QED
    BY <1>4, <2>1 DEF Hash!NoCycle
<1>6. visit' \in VisitStates
  <2>. HIDE DEF x
  <2>. QED
    BY <1>2, <1>4, <1>5 DEF VisitStates, Pointer
<1>7. CycleBegins(M)
  BY <1>3, <1>5 DEF CycleBegins
<1>. QED
  BY <1>3, <1>6, <1>7, UnchangedHash

LEMMA StepDoes ==
    ASSUME NEW M, NEW num, NEW ord, Orderly(M, num, ord), Hash!step
    PROVE  \E g, N, num2, ord2 : Result(g, N, num2, ord2) /\ LeavesAll(g, N, ord2, M, ord) /\ CycleGoes
<1>1. visit \in VisitStates /\ Hash!State \in Hashes
  BY DEF Orderly, Whole
<1>2. CycleGoes /\ Hash!Becomes(Hash!State)
  BY DEF Hash!step, CycleGoes
<1>3. visit' \in VisitStates
  <2>1. visit.at \in Pairs
    BY <1>1, <1>2 DEF CycleGoes, VisitStates
  <2>2. Hash!State.pair[visit.at].next \in Pointer /\ Hash!State.pair[visit.at].prev \in Pointer
    BY <1>1, <2>1, HashFields
  <2>3. Hash!following \in Pairs
    BY <1>2, <2>2 DEF CycleGoes, Hash!following, Hash!State, Pointer
  <2>. QED
    BY <1>1, <1>2, <2>3 DEF CycleGoes, VisitStates, Pointer
<1>. QED
  BY <1>2, <1>3, StaysSame

LEMMA OverDoes ==
    ASSUME NEW M, NEW num, NEW ord, Orderly(M, num, ord), NEW break \in BOOLEAN, Hash!over(break)
    PROVE  \E g, N, num2, ord2 : Result(g, N, num2, ord2) /\ LeavesAll(g, N, ord2, M, ord) /\ CycleEnds
<1>1. CycleEnds /\ Hash!Becomes(Hash!State)
  BY DEF Hash!over, CycleEnds
<1>2. visit' \in VisitStates
  BY <1>1 DEF CycleEnds, Hash!NoCycle, VisitStates, Pointer
<1>. QED
  BY <1>1, <1>2, StaysSame
-----------------------------------------------------------------------------
\* What a call makes of the pairs M of the list, and of the cycle
Outcome(g, N, ord2, M, ord) ==
    \/ LeavesAll(g, N, ord2, M, ord) /\ (visit' = visit \/ CycleBegins(M) \/ CycleGoes \/ CycleEnds)
    \/ \E k \in Key, v \in Value : visit' = visit /\ (PutsValue(g, N, ord2, M, ord, k, v) \/ PutsNew(g, N, ord2, M, ord, k, v))
    \/ \E k \in Key : Removes(g, N, ord2, M, ord, k)
    \/ \E from, to \in Key : from # to /\ GivesKey(g, N, ord2, M, ord, from, to)
    \/ Clears(g, N)
    \/ Reorders(g, N, ord2, M, ord)

LEMMA HashDoes ==
    ASSUME NEW M, NEW num, NEW ord, Orderly(M, num, ord), Hash!Next
    PROVE  \E g, N, num2, ord2 : Result(g, N, num2, ord2) /\ Outcome(g, N, ord2, M, ord)
<1>. DEFINE Comes == \E g, N, num2, ord2 : Result(g, N, num2, ord2) /\ Outcome(g, N, ord2, M, ord)
            h == IF Hash!is_full(Hash!State) THEN Hash!expand(Hash!State) ELSE Hash!State
<1>0. visit \in VisitStates
  BY DEF Orderly
<1>1. ASSUME NEW k \in Key, NEW v \in Value, Hash!put(k, v) PROVE Comes
  <2>1. visit' = visit /\ visit' \in VisitStates
    BY <1>0, <1>1 DEF Hash!put
  <2>2. \/ Hash!Find(h, k) # NoPair /\ Hash!Becomes([h EXCEPT !.pair[Hash!Find(h, k)].value = v])
        \/ Hash!Find(h, k) = NoPair /\ \E p \in Hash!Free(h) : Hash!Becomes(Hash!added(h, k, v, p))
    BY <1>1 DEF Hash!put
  <2>. HIDE DEF h
  <2>3. CASE Hash!Find(h, k) # NoPair /\ Hash!Becomes([h EXCEPT !.pair[Hash!Find(h, k)].value = v])
    <3>1. \E g, N, num2, ord2 : Result(g, N, num2, ord2) /\ PutsValue(g, N, ord2, M, ord, k, v)
      BY <2>1, <2>3, PutValues DEF h
    <3>. QED
      BY <2>1, <3>1 DEF Outcome
  <2>4. ASSUME Hash!Find(h, k) = NoPair, NEW p \in Hash!Free(h), Hash!Becomes(Hash!added(h, k, v, p)) PROVE Comes
    <3>1. \E g, N, num2, ord2 : Result(g, N, num2, ord2) /\ PutsNew(g, N, ord2, M, ord, k, v)
      BY <2>1, <2>4, PutAppends DEF h
    <3>. QED
      BY <2>1, <3>1 DEF Outcome
  <2>. QED
    BY <2>2, <2>3, <2>4
<1>2. ASSUME NEW k \in Key, NEW v \in Value, Hash!put_dont_replace(k, v) PROVE Comes
  <2>1. visit' = visit /\ visit' \in VisitStates
    BY <1>0, <1>2 DEF Hash!put_dont_replace
  <2>2. \/ Hash!Find(h, k) # NoPair /\ Hash!Becomes(h)
        \/ Hash!Find(h, k) = NoPair /\ \E p \in Hash!Free(h) : Hash!Becomes(Hash!added(h, k, v, p))
    BY <1>2 DEF Hash!put_dont_replace
  <2>. HIDE DEF h
  <2>3. CASE Hash!Becomes(h)
    <3>1. \E g, N, num2, ord2 : Result(g, N, num2, ord2) /\ LeavesAll(g, N, ord2, M, ord)
      BY <2>1, <2>3, PutsNothing DEF h
    <3>. QED
      BY <2>1, <3>1 DEF Outcome
  <2>4. ASSUME Hash!Find(h, k) = NoPair, NEW p \in Hash!Free(h), Hash!Becomes(Hash!added(h, k, v, p)) PROVE Comes
    <3>1. \E g, N, num2, ord2 : Result(g, N, num2, ord2) /\ PutsNew(g, N, ord2, M, ord, k, v)
      BY <2>1, <2>4, PutAppends DEF h
    <3>. QED
      BY <2>1, <3>1 DEF Outcome
  <2>. QED
    BY <2>2, <2>3, <2>4
<1>3. ASSUME NEW k \in Key, NEW v \in Value, Hash!put_replaced(k, v) PROVE Comes
  <2>1. visit' = visit
    BY <1>3 DEF Hash!put_replaced
  <2>2. \E g, N, num2, ord2 : Result(g, N, num2, ord2) /\ PutsValue(g, N, ord2, M, ord, k, v)
    BY <1>3, PutsReplaced
  <2>. QED
    BY <2>1, <2>2 DEF Outcome
<1>4. ASSUME NEW k \in Key, Hash!remove(k) PROVE Comes
  BY <1>4, RemoveDoes DEF Outcome
<1>5. ASSUME NEW from \in Key, NEW to \in Key, Hash!rename(from, to) PROVE Comes
  <2>1. from # to
    BY <1>5 DEF Hash!rename
  <2>. QED
    BY <1>5, <2>1, RenameDoes DEF Outcome
<1>6. ASSUME Hash!clear PROVE Comes
  BY <1>6, ClearDoes DEF Outcome
<1>7. ASSUME Hash!sort PROVE Comes
  BY <1>7, SortDoes DEF Outcome
<1>8. ASSUME Hash!clone PROVE Comes
  <2>1. visit' = visit
    BY <1>8 DEF Hash!clone
  <2>. QED
    BY <1>8, <2>1, CloneDoes DEF Outcome
<1>9. ASSUME NEW way \in {"next", "prev"}, Hash!foreach(way) PROVE Comes
  BY <1>9, ForeachDoes DEF Outcome
<1>10. ASSUME Hash!step PROVE Comes
  BY <1>10, StepDoes DEF Outcome
<1>11. ASSUME NEW break \in BOOLEAN, Hash!over(break) PROVE Comes
  BY <1>11, OverDoes DEF Outcome
<1>. HIDE DEF Comes
<1>12. Comes
  <2>1. CASE \E k \in Key : \E v \in Value : Hash!put(k, v) \/ Hash!put_dont_replace(k, v) \/ Hash!put_replaced(k, v)
    BY <1>1, <1>2, <1>3, <2>1
  <2>2. CASE \E k \in Key : Hash!remove(k)
    BY <1>4, <2>2
  <2>3. CASE \E from, to \in Key : Hash!rename(from, to)
    BY <1>5, <2>3
  <2>4. CASE (\E way \in {"next", "prev"} : Hash!foreach(way)) \/ \E break \in BOOLEAN : Hash!over(break)
    BY <1>9, <1>11, <2>4
  <2>5. \/ \E k \in Key : \E v \in Value : Hash!put(k, v) \/ Hash!put_dont_replace(k, v) \/ Hash!put_replaced(k, v)
        \/ \E k \in Key : Hash!remove(k)
        \/ \E from, to \in Key : Hash!rename(from, to)
        \/ Hash!clear \/ Hash!sort \/ Hash!clone \/ Hash!step
        \/ (\E way \in {"next", "prev"} : Hash!foreach(way)) \/ \E break \in BOOLEAN : Hash!over(break)
    BY DEF Hash!Next
  <2>. HIDE DEF h
  <2>. QED
    BY <1>6, <1>7, <1>8, <1>10, <2>1, <2>2, <2>3, <2>4, <2>5
<1>. QED
  BY <1>12 DEF Comes

\* The invariant: some pairs are in order
HashInv == \E M, num, ord : Orderly(M, num, ord)
LEMMA ResultOrderly ==
    ASSUME NEW g, NEW N, NEW num, NEW ord, Result(g, N, num, ord)
    PROVE  Orderly(N, num, ord)'
  BY DEF Result, Orderly

LEMMA HashStarts ==
    ASSUME Hash!Init
    PROVE  HashInv
<1>. DEFINE h == Hash!State
            num == [p \in {} |-> 0]
<1>1. /\ Allocates \in Seq(Nat \ {0}) /\ Len(Allocates) \in Nat /\ 1 \in 1..Len(Allocates) /\ Allocates[1] \in Nat
  <2>1. Allocates \in Seq(Nat \ {0}) /\ Allocates # <<>>
    BY HashConstants DEF Hash!ConstantsOK
  <2>. QED
    BY <2>1, EmptySeq, LenProperties, ElementOfSeq
<1>2. NoPair \in Pointer /\ Hash!None \in PairFields
  BY NoneIs DEF Pointer
<1>3. h \in Hashes
  <2>1. pair \in [Pairs -> PairFields] /\ refs \in [1..Allocates[1] -> Pointer]
    BY <1>2 DEF Hash!Init
  <2>2. refs \in UNION {[1..n -> Pointer] : n \in Nat}
    BY <1>1, <2>1
  <2>3. h = [pair |-> pair, refs |-> refs, index |-> 1, fused |-> 0, count |-> 0, first |-> NoPair, last |-> NoPair]
    BY DEF Hash!State, Hash!Init
  <2>4. h \in Records
    BY <1>1, <1>2, <2>1, <2>2, <2>3 DEF Records
  <2>. QED
    BY <2>1, <2>3, <2>4 DEF Hashes
<1>4. h.first = NoPair /\ h.last = NoPair /\ \A i \in Slots(h) : h.refs[i] = NoPair
  <2>1. refs = [i \in 1..Allocates[1] |-> NoPair] /\ index = 1 /\ first = NoPair /\ last = NoPair
    BY DEF Hash!Init
  <2>. QED
    BY <2>1 DEF Hash!State, Slots, Hash!allocated
<1>. HIDE DEF h
<1>5. Chained(h, {}, num) /\ Ordered(h, {}, num) /\ Distinct(h, {})
  BY <1>4 DEF Chained, Ordered, Distinct, Numbered, Linked, IsLatest
<1>6. Whole(h, {}, num, num)
  BY <1>3, <1>5 DEF Whole
<1>7. fpairs_count = Cardinality({})
  BY FS_EmptySet DEF Hash!Init
<1>8. visit \in VisitStates
  BY <1>2 DEF Hash!Init, Hash!NoCycle, VisitStates
<1>9. Orderly({}, num, num)
  BY <1>6, <1>7, <1>8 DEF Orderly, h
<1>. QED
  BY <1>9 DEF HashInv

LEMMA HashKeeps ==
    ASSUME HashInv, [ContainersNext]_<<kind, hash, array>>
    PROVE  HashInv'
<1>1. PICK M, num, ord : Orderly(M, num, ord)
  BY DEF HashInv
<1>2. ASSUME UNCHANGED hash PROVE HashInv'
  <2>1. Orderly(M, num, ord)'
    BY <1>1, <1>2 DEF Orderly, hash, Hash!State
  <2>. QED
    BY <2>1 DEF HashInv
<1>3. CASE Hash!Next
  <2>1. PICK g, N, num2, ord2 : Result(g, N, num2, ord2) /\ Outcome(g, N, ord2, M, ord)
    BY <1>1, <1>3, HashDoes
  <2>2. Orderly(N, num2, ord2)'
    BY <2>1, ResultOrderly
  <2>. QED
    BY <2>2 DEF HashInv
<1>. QED
  BY <1>2, <1>3 DEF ContainersNext

\* So the chains and the list agree.
LEMMA OrderlyAgrees ==
    ASSUME HashInv
    PROVE  Hash!ListAgrees
<1>. DEFINE h == Hash!State
            list == Hash!List(h)
<1>1. PICK M, num, ord : Orderly(M, num, ord)
  BY DEF HashInv
<1>. DEFINE neg == Negative(M, ord)
<1>2. Whole(h, M, num, ord) /\ fpairs_count = Cardinality(M) /\ last = h.last
  BY <1>1 DEF Orderly, Hash!State
<1>3. h \in Hashes /\ M \subseteq Pairs /\ Chained(h, M, num) /\ Ordered(h, M, ord) /\ Distinct(h, M) /\ NoPair \notin Pairs
  BY <1>2, Memories DEF Whole
<1>. HIDE DEF h
<1>4. Enlists(list, M, neg) /\ Hash!In(list) = M /\ Numbered(M, neg)
  BY <1>3, ListIs
<1>5. /\ Len(list) \in Nat /\ Len(list) = Cardinality(M) /\ DOMAIN list = 1..Len(list)
      /\ \A i \in 1..Len(list) : list[i] \in M
  BY <1>3, <1>4, Enlisted, LenProperties DEF Enlists
<1>6. \A i, j \in 1..Len(list) : list[i] = list[j] => i = j
  <2>1. \A i, j \in 1..Len(list) : i < j => neg[list[i]] > neg[list[j]]
    BY <1>4 DEF Enlists
  <2>2. \A i \in 1..Len(list) : neg[list[i]] \in Int
    BY <1>4, <1>5 DEF Numbered
  <2>. HIDE DEF neg, list
  <2>. QED
    BY <1>5, <2>1, <2>2
<1>7. last = (IF list = <<>> THEN NoPair ELSE list[Len(list)])
  <2>1. IsLatest(last, M, ord) /\ Numbered(M, ord) /\ \A p \in M : ord[p] \in Int /\ neg[p] = -ord[p]
    BY <1>2, <1>3 DEF Ordered, Linked, Numbered, Negative
  <2>2. CASE list = <<>>
    <3>1. M = {}
      BY <1>4, <2>2 DEF Hash!In
    <3>. QED
      BY <2>1, <2>2, <3>1 DEF IsLatest
  <2>3. CASE list # <<>>
    <3>1. Len(list) \in 1..Len(list)
      BY <1>4, <1>5, <2>3, EmptySeq DEF Enlists
    <3>. DEFINE x == list[Len(list)]
    <3>2. x \in M
      BY <1>5, <3>1
    <3>3. ASSUME NEW q \in M PROVE ord[q] <= ord[x]
      <4>1. PICK i \in 1..Len(list) : list[i] = q
        BY <1>4 DEF Enlists
      <4>2. CASE i = Len(list)
        BY <2>1, <3>2, <4>1, <4>2
      <4>3. CASE i < Len(list)
        <5>1. neg[q] > neg[x]
          BY <1>4, <3>1, <4>1, <4>3 DEF Enlists
        <5>2. neg[q] = -ord[q] /\ neg[x] = -ord[x] /\ ord[q] \in Int /\ ord[x] \in Int
          BY <2>1, <3>2
        <5>. QED
          BY <5>1, <5>2
      <4>. QED
        BY <1>5, <4>1, <4>2, <4>3
    <3>4. IsLatest(x, M, ord)
      <4>. HIDE DEF x
      <4>. QED
        BY <3>2, <3>3 DEF IsLatest
    <3>5. last = x
      <4>. HIDE DEF x
      <4>. QED
        BY <1>3, <2>1, <3>4, OneLatest
    <3>. QED
      BY <2>3, <3>5
  <2>. QED
    BY <2>2, <2>3
<1>8. {Hash!Find(h, k) : k \in Key} \ {NoPair} = M
  <2>1. \A k \in Key : Hash!Find(h, k) \in M \cup {NoPair}
    BY <1>3, FindIs
  <2>2. ASSUME NEW p \in M PROVE \E k \in Key : p = Hash!Find(h, k)
    <3>1. h.pair[p].key \in Key
      BY <1>3, HashFields
    <3>2. Hash!Find(h, h.pair[p].key) = p
      BY <1>3, <3>1, FindIs
    <3>. QED
      BY <3>1, <3>2
  <2>. QED
    BY <1>3, <2>1, <2>2
<1>9. \A i \in 1..Hash!allocated(h) : Hash!In(Hash!Chain(h, i)) \subseteq M
  <2>1. \A i \in Slots(h) : Hash!In(Hash!Chain(h, i)) = {p \in M : SlotOf(h, p) = i}
    BY <1>3, ChainIs
  <2>. QED
    BY <2>1 DEF Slots
<1>. QED
  BY <1>2, <1>4, <1>5, <1>6, <1>7, <1>8, <1>9 DEF Hash!ListAgrees, h

\* What is found by a key, what a cycle goes along and the counter agree: HASH_STRING of
\* pa_hash.h, put, remove, rename, clear and the growing of the table, in any order
THEOREM ListAgreesWithChains == ContainersSpec => []ListAgrees
<1>1. ContainersInit => HashInv
  BY HashStarts DEF ContainersInit
<1>2. HashInv /\ [ContainersNext]_<<kind, hash, array>> => HashInv'
  BY HashKeeps
<1>3. HashInv => ListAgrees
  BY OrderlyAgrees DEF ListAgrees
<1>. QED
  BY <1>1, <1>2, <1>3, PTL DEF ContainersSpec
-----------------------------------------------------------------------------
\* All pairs that a cycle has to visit are on its way: in each set that holds the next one
\* and is left by no pointer
Due(f, at, due) ==
    \A S \in SUBSET Pairs : f[at] \in S \cup {NoPair} /\ (\A q \in S : f[q] \in S \cup {NoPair}) => due \subseteq S
Path(way, h) == IF way = "next" THEN Nexts(h) ELSE Prevs(h)
Visiting == visit.way # "none" => Due(Path(visit.way, Hash!State), visit.at, visit.due)

\* Pointers that the cycle does not meet may change, and the last one may
LEMMA DueStays ==
    ASSUME NEW f, NEW at, NEW due, Due(f, at, due), NEW K \in SUBSET Pairs, at \in K,
           \A q \in K : f[q] \in K \cup {NoPair}, NEW f2, \A q \in K : f2[q] = f[q] \/ f[q] = NoPair
    PROVE  Due(f2, at, due)
<1>1. ASSUME NEW S \in SUBSET Pairs, f2[at] \in S \cup {NoPair}, \A q \in S : f2[q] \in S \cup {NoPair}
      PROVE  due \subseteq S
  <2>. DEFINE U == S \cap K
  <2>1. U \in SUBSET Pairs
    OBVIOUS
  <2>2. f[at] \in U \cup {NoPair}
    BY <1>1
  <2>3. \A q \in U : f[q] \in U \cup {NoPair}
    BY <1>1
  <2>4. due \subseteq U
    BY <2>1, <2>2, <2>3 DEF Due
  <2>. QED
    BY <2>4
<1>. QED
  BY <1>1 DEF Due

\* a pair that is taken out of the way need not be visited,
LEMMA DueSkips ==
    ASSUME NEW f, NEW at \in Pairs, NEW due, Due(f, at, due), NEW x \in Pairs, NEW y, y \in Pairs => f[y] = x, f[x] # x,
           NEW f2, \A q \in Pairs : f2[q] = (IF q = y THEN f[x] ELSE f[q]), f[x] \in Pairs \cup {NoPair}
    PROVE  Due(f2, at, due \ {x})
<1>1. ASSUME NEW S \in SUBSET Pairs, f2[at] \in S \cup {NoPair}, \A q \in S : f2[q] \in S \cup {NoPair}
      PROVE  due \ {x} \subseteq S
  <2>1. CASE y \in S \/ at = y
    <3>. DEFINE U == S \cup {x}
    <3>0. y \in Pairs /\ f[y] = x
      BY <2>1
    <3>1. U \in SUBSET Pairs
      OBVIOUS
    <3>2. f[at] \in U \cup {NoPair}
      BY <1>1, <3>0
    <3>3. f[x] \in S \cup {NoPair}
      BY <1>1, <2>1, <3>0
    <3>4. \A q \in U : f[q] \in U \cup {NoPair}
      BY <1>1, <3>0, <3>3
    <3>5. due \subseteq U
      BY <3>1, <3>2, <3>4 DEF Due
    <3>. QED
      BY <3>5
  <2>2. CASE y \notin S /\ at # y
    <3>1. f[at] \in S \cup {NoPair} /\ \A q \in S : f[q] \in S \cup {NoPair}
      BY <1>1, <2>2
    <3>. QED
      BY <3>1 DEF Due
  <2>. QED
    BY <2>1, <2>2
<1>. QED
  BY <1>1 DEF Due

\* nor one the cycle has come to.
LEMMA DueGoes ==
    ASSUME NEW f, NEW at \in Pairs, NEW due, Due(f, at, due), NEW x \in Pairs, f[at] = x
    PROVE  Due(f, x, due \ {x})
<1>1. ASSUME NEW S \in SUBSET Pairs, f[x] \in S \cup {NoPair}, \A q \in S : f[q] \in S \cup {NoPair}
      PROVE  due \ {x} \subseteq S
  <2>. DEFINE U == S \cup {x}
  <2>1. U \in SUBSET Pairs /\ f[at] \in U \cup {NoPair} /\ \A q \in U : f[q] \in U \cup {NoPair}
    BY <1>1
  <2>2. due \subseteq U
    BY <2>1 DEF Due
  <2>. QED
    BY <2>2
<1>. QED
  BY <1>1 DEF Due

\* A cycle that begins has all pairs but its own before it
LEMMA DueBegins ==
    ASSUME NEW h, NEW M, NEW num, NEW ord, Whole(h, M, num, ord), h.first # NoPair, NEW way \in {"next", "prev"},
           NEW at, at = IF way = "next" THEN h.first ELSE h.last
    PROVE  Due(Path(way, h), at, M \ {at})
<1>0. h \in Hashes /\ M \subseteq Pairs /\ Ordered(h, M, ord) /\ NoPair \notin Pairs
  BY Memories DEF Whole
<1>1. Neighbours(h, M) /\ Ranks(h, M, ord)
  BY <1>0, Mutual
<1>. DEFINE f == Path(way, h)
            neg == [p \in M |-> -ord[p]]
            o == IF way = "next" THEN neg ELSE ord
<1>2. \A p \in M : ord[p] \in Int /\ neg[p] = -ord[p]
  BY <1>0 DEF Ordered, Numbered
<1>3. ASSUME NEW S \in SUBSET Pairs, f[at] \in S \cup {NoPair}, \A q \in S : f[q] \in S \cup {NoPair}
      PROVE  M \ {at} \subseteq S
  <2>. DEFINE T == (M \ {at}) \ S
  <2>1. T \subseteq Pairs /\ T \subseteq M /\ Numbered(T, o)
    BY <1>0, <1>2 DEF Ordered, Numbered
  <2>2. ASSUME T # {} PROVE FALSE
    <3>. DEFINE p == Latest(T, o)
    <3>. HIDE DEF T, o
    <3>1. IsLatest(p, T, o)
      BY <2>1, LatestIs
    <3>. HIDE DEF p
    <3>2. p \in T /\ \A q \in T : o[q] <= o[p]
      BY <2>2, <3>1 DEF IsLatest
    <3>3. p \in M /\ p # at /\ p \notin S
      BY <3>2 DEF T
    <3>. DEFINE q == IF way = "next" THEN h.pair[p].prev ELSE h.pair[p].next
    <3>4. q # NoPair
      BY <1>1, <3>3 DEF Neighbours
    <3>5. q \in M /\ q \in Pairs /\ f[q] = p
      BY <1>0, <1>1, <3>3, <3>4 DEF Neighbours, Path, Nexts, Prevs
    <3>6. o[p] < o[q]
      BY <1>1, <1>2, <3>3, <3>5 DEF Ranks, o
    <3>7. \A r \in M : o[r] \in Int
      BY <1>2 DEF o
    <3>8. q \notin T
      BY <3>2, <3>3, <3>5, <3>6, <3>7
    <3>9. q = at \/ q \in S
      BY <3>5, <3>8 DEF T
    <3>. HIDE DEF f, q
    <3>10. p = NoPair
      BY <1>3, <3>3, <3>5, <3>9
    <3>. QED
      BY <1>0, <3>3, <3>10
  <2>. QED
    BY <2>2
<1>. HIDE DEF f
<1>4. Due(f, at, M \ {at})
  BY <1>3 DEF Due
<1>. QED
  BY <1>4 DEF f

\* What the collector leaves is all that the cycle can meet
LEMMA DueKept ==
    ASSUME NEW g, NEW N, NEW num, NEW ord, Result(g, N, num, ord), visit'.way # "none",
           Due(Path(visit'.way, g), visit'.at, visit'.due)
    PROVE  Visiting'
<1>. DEFINE f == Path(visit'.way, g)
            f2 == Path(visit'.way, Hash!State')
<1>1. PICK K : Closed(K, g, visit'.at) /\ Remain(g, K)
  BY DEF Result
<1>2. K \in SUBSET Pairs /\ NoPair \notin Pairs /\ visit'.at \in Pairs
  BY <1>1, Memories DEF Closed, Result, VisitStates
<1>3. visit'.at \in K
  BY <1>1, <1>2 DEF Closed
<1>4. \A q \in K : f[q] = (IF visit'.way = "next" THEN g.pair[q].next ELSE g.pair[q].prev)
  BY <1>2 DEF Path, Nexts, Prevs
<1>5. \A q \in K : f2[q] = (IF visit'.way = "next" THEN pair'[q].next ELSE pair'[q].prev)
  BY <1>2 DEF Path, Nexts, Prevs, Hash!State
<1>. HIDE DEF f, f2
<1>6. \A q \in K : f[q] \in K \cup {NoPair} /\ f2[q] = f[q]
  BY <1>1, <1>4, <1>5 DEF Closed, Remain
<1>7. Due(f, visit'.at, visit'.due)
  BY DEF f
<1>8. Due(f2, visit'.at, visit'.due)
  BY <1>2, <1>3, <1>6, <1>7, DueStays
<1>. QED
  BY <1>8 DEF Visiting, f2

\* Calls that leave next and prev alone
LEMMA PathSame ==
    ASSUME NEW g, NEW h, \A q \in Pairs : g.pair[q].next = h.pair[q].next /\ g.pair[q].prev = h.pair[q].prev, NEW way
    PROVE  Path(way, g) = Path(way, h)
  BY DEF Path, Nexts, Prevs

\* and a removal
LEMMA PathSkips ==
    ASSUME NEW h, NEW M, NEW num, NEW ord, Whole(h, M, num, ord), NEW x \in M, NEW g,
           \A q \in Pairs : /\ g.pair[q].next = IF q = h.pair[x].prev THEN h.pair[x].next ELSE h.pair[q].next
                            /\ g.pair[q].prev = IF q = h.pair[x].next THEN h.pair[x].prev ELSE h.pair[q].prev,
           NEW way \in {"next", "prev"}, NEW at \in Pairs, NEW due, Due(Path(way, h), at, due)
    PROVE  Due(Path(way, g), at, due \ {x})
<1>0. h \in Hashes /\ M \subseteq Pairs /\ Ordered(h, M, ord) /\ NoPair \notin Pairs
  BY Memories DEF Whole
<1>1. Neighbours(h, M) /\ Ranks(h, M, ord)
  BY <1>0, Mutual
<1>2. x \in Pairs /\ ord[x] \in Int
  BY <1>0 DEF Ordered, Numbered
<1>3. h.pair[x].next # x /\ h.pair[x].prev # x
  BY <1>1, <1>2 DEF Ranks
<1>. DEFINE f == Path(way, h)
            f2 == Path(way, g)
            y == IF way = "next" THEN h.pair[x].prev ELSE h.pair[x].next
<1>4. y \in Pairs => f[y] = x
  BY <1>0, <1>1, <1>2 DEF Neighbours, Path, Nexts, Prevs
<1>5. f[x] # x /\ f[x] \in Pairs \cup {NoPair}
  BY <1>0, <1>1, <1>2, <1>3 DEF Neighbours, Path, Nexts, Prevs
<1>6. \A q \in Pairs : f2[q] = IF q = y THEN f[x] ELSE f[q]
  BY <1>2 DEF Path, Nexts, Prevs
<1>7. Due(f, at, due)
  OBVIOUS
<1>. HIDE DEF f, f2, y
<1>8. Due(f2, at, due \ {x})
  BY <1>2, <1>4, <1>5, <1>6, <1>7, DueSkips
<1>. QED
  BY <1>8 DEF f2

LEMMA CycleKeeps ==
    ASSUME NEW M, NEW num, NEW ord, Orderly(M, num, ord), Visiting,
           NEW g, NEW N, NEW num2, NEW ord2, Result(g, N, num2, ord2), Outcome(g, N, ord2, M, ord)
    PROVE  Visiting'
<1>. DEFINE h == Hash!State
            StillDue == Due(Path(visit'.way, g), visit'.at, visit'.due)
<1>0. /\ Whole(h, M, num, ord) /\ visit \in VisitStates /\ visit' \in VisitStates /\ h \in Hashes /\ M \subseteq Pairs
      /\ first = h.first /\ last = h.last /\ NoPair \notin Pairs /\ pair = h.pair
  BY Memories DEF Orderly, Result, Whole, Hash!State
<1>. HIDE DEF h
<1>1. visit.way # "none" => Due(Path(visit.way, h), visit.at, visit.due)
  BY DEF Visiting, h
<1>2. SUFFICES ASSUME visit'.way # "none" PROVE StillDue
  <2>1. CASE visit'.way = "none"
    BY <2>1 DEF Visiting
  <2>. QED
    BY <2>1, <1>2, DueKept
<1>3. visit'.way \in {"next", "prev"} /\ visit'.at \in Pairs
  BY <1>0, <1>2 DEF VisitStates
<1>4. ASSUME \A q \in Pairs : g.pair[q].next = h.pair[q].next /\ g.pair[q].prev = h.pair[q].prev
      PROVE  \A way : Path(way, g) = Path(way, h)
  BY <1>4, PathSame
<1>5. CASE LeavesAll(g, N, ord2, M, ord) /\ (visit' = visit \/ CycleBegins(M) \/ CycleGoes \/ CycleEnds)
  <2>1. \A way : Path(way, g) = Path(way, h)
    BY <1>4, <1>5 DEF LeavesAll, Kept, h
  <2>2. CASE visit' = visit
    BY <1>1, <1>2, <2>1, <2>2
  <2>3. CASE CycleBegins(M)
    <3>1. PICK way \in {"next", "prev"} :
              visit' = [way |-> way, at |-> IF way = "next" THEN first ELSE last,
                        due |-> M \ {IF way = "next" THEN first ELSE last}]
      BY <2>3 DEF CycleBegins
    <3>. DEFINE at == IF way = "next" THEN h.first ELSE h.last
    <3>2. visit'.way = way /\ visit'.at = at /\ visit'.due = M \ {at}
      BY <1>0, <3>1
    <3>3. h.first # NoPair
      BY <1>0, <2>3 DEF CycleBegins
    <3>4. Due(Path(way, h), at, M \ {at})
      BY <1>0, <3>3, DueBegins
    <3>. QED
      BY <2>1, <3>2, <3>4
  <2>4. CASE CycleGoes
    <3>. DEFINE x == Hash!following
    <3>1. visit.way \in {"next", "prev"} /\ visit.at \in Pairs /\ x # NoPair
      BY <1>0, <2>4 DEF CycleGoes, VisitStates
    <3>2. visit'.way = visit.way /\ visit'.at = x /\ visit'.due = visit.due \ {x}
      <4>. HIDE DEF x
      <4>. QED
        BY <1>0, <2>4 DEF CycleGoes, VisitStates, x
    <3>3. Path(visit.way, h)[visit.at] = x
      BY <1>0, <3>1 DEF Path, Nexts, Prevs, Hash!following
    <3>4. x \in Pairs
      BY <1>3, <3>2
    <3>. HIDE DEF x
    <3>5. Due(Path(visit.way, h), x, visit.due \ {x})
      BY <1>1, <3>1, <3>3, <3>4, DueGoes
    <3>. QED
      BY <2>1, <3>2, <3>5
  <2>5. CASE CycleEnds
    BY <1>2, <2>5 DEF CycleEnds, Hash!NoCycle
  <2>. QED
    BY <1>5, <2>2, <2>3, <2>4, <2>5
<1>6. ASSUME NEW k \in Key, NEW v \in Value, visit' = visit, PutsValue(g, N, ord2, M, ord, k, v) PROVE StillDue
  <2>1. \A way : Path(way, g) = Path(way, h)
    BY <1>4, <1>6 DEF PutsValue, Valued, h
  <2>. QED
    BY <1>1, <1>2, <1>6, <2>1
<1>7. ASSUME NEW k \in Key, NEW v \in Value, visit' = visit, PutsNew(g, N, ord2, M, ord, k, v) PROVE StillDue
  <2>1. PICK p \in Pairs : Appending(g, h, k, v, p) /\ \E K : Closed(K, h, visit.at) /\ p \notin K
    BY <1>7 DEF PutsNew, h
  <2>2. PICK K : Closed(K, h, visit.at) /\ p \notin K
    BY <2>1
  <2>. DEFINE f == Path(visit.way, h)
              f2 == Path(visit.way, g)
  <2>3. K \in SUBSET Pairs /\ visit.at \in K
    BY <1>0, <1>3, <1>7, <2>2 DEF Closed
  <2>4. \A q \in K : f[q] \in K \cup {NoPair}
    BY <2>2, <2>3 DEF Closed, Path, Nexts, Prevs
  <2>5. h.last # NoPair => M # {} /\ h.pair[h.last].next = NoPair
    <3>1. Neighbours(h, M)
      BY <1>0, Mutual DEF Whole
    <3>. QED
      BY <3>1 DEF Neighbours
  <2>6. \A q \in K : q # p /\ q \in Pairs /\ q # NoPair
    BY <1>0, <2>2, <2>3
  <2>7. \A q \in K : f2[q] = f[q] \/ f[q] = NoPair
    BY <2>1, <2>5, <2>6 DEF Appending, Path, Nexts, Prevs
  <2>8. Due(f, visit.at, visit.due)
    BY <1>1, <1>2, <1>7
  <2>. HIDE DEF f, f2
  <2>9. Due(f2, visit.at, visit.due)
    BY <2>3, <2>4, <2>7, <2>8, DueStays
  <2>. QED
    BY <1>7, <2>9 DEF f2
<1>8. ASSUME NEW k \in Key, Removes(g, N, ord2, M, ord, k) PROVE StillDue
  <2>1. PICK x \in M : Taken(g, h, x) /\ visit' = [visit EXCEPT !.due = visit.due \ {x}]
    BY <1>8 DEF Removes, h
  <2>2. visit'.way = visit.way /\ visit'.at = visit.at /\ visit'.due = visit.due \ {x}
    BY <1>0, <2>1 DEF VisitStates
  <2>3. \A q \in Pairs : /\ g.pair[q].next = IF q = h.pair[x].prev THEN h.pair[x].next ELSE h.pair[q].next
                         /\ g.pair[q].prev = IF q = h.pair[x].next THEN h.pair[x].prev ELSE h.pair[q].prev
    BY <2>1 DEF Taken
  <2>4. Due(Path(visit.way, g), visit.at, visit.due \ {x})
    BY <1>0, <1>1, <1>2, <1>3, <2>2, <2>3, PathSkips
  <2>. QED
    BY <2>2, <2>4
<1>9. ASSUME NEW from \in Key, NEW to \in Key, GivesKey(g, N, ord2, M, ord, from, to) PROVE StillDue
  <2>1. PICK p \in M, x \in M \cup {NoPair} : Renamed(g, h, p, x, to) /\ visit' = [visit EXCEPT !.due = visit.due \ {x}]
    BY <1>9 DEF GivesKey, h
  <2>2. visit'.way = visit.way /\ visit'.at = visit.at /\ visit'.due = visit.due \ {x}
    BY <1>0, <2>1 DEF VisitStates
  <2>3. CASE x = NoPair
    <3>1. \A way : Path(way, g) = Path(way, h)
      BY <1>4, <2>1, <2>3 DEF Renamed
    <3>2. visit.due \ {x} = visit.due
      BY <1>0, <2>3 DEF VisitStates
    <3>. QED
      BY <1>1, <1>2, <2>2, <3>1, <3>2
  <2>4. CASE x # NoPair
    <3>1. \A q \in Pairs : /\ g.pair[q].next = IF q = h.pair[x].prev THEN h.pair[x].next ELSE h.pair[q].next
                           /\ g.pair[q].prev = IF q = h.pair[x].next THEN h.pair[x].prev ELSE h.pair[q].prev
      BY <2>1, <2>4 DEF Renamed
    <3>2. x \in M
      BY <2>4
    <3>3. Due(Path(visit.way, g), visit.at, visit.due \ {x})
      BY <1>0, <1>1, <1>2, <1>3, <2>2, <3>1, <3>2, PathSkips
    <3>. QED
      BY <2>2, <3>3
  <2>. QED
    BY <2>3, <2>4
<1>10. ASSUME Clears(g, N) PROVE StillDue
  <2>1. visit'.due = {}
    BY <1>0, <1>10 DEF Clears, VisitStates
  <2>. QED
    BY <2>1 DEF Due
<1>11. ASSUME Reorders(g, N, ord2, M, ord) PROVE FALSE
  BY <1>2, <1>11 DEF Reorders
<1>. HIDE DEF StillDue
<1>. QED
  BY <1>5, <1>6, <1>7, <1>8, <1>9, <1>10, <1>11 DEF Outcome

\* The invariant for cycles, and its steps
CyclesInv == \E M, num, ord : Orderly(M, num, ord) /\ Visiting

LEMMA CyclesStart ==
    ASSUME Hash!Init
    PROVE  CyclesInv
<1>1. Visiting
  BY DEF Hash!Init, Hash!NoCycle, Visiting
<1>2. HashInv
  BY HashStarts
<1>. QED
  BY <1>1, <1>2 DEF HashInv, CyclesInv

LEMMA CyclesKeep ==
    ASSUME CyclesInv, [ContainersNext]_<<kind, hash, array>>
    PROVE  CyclesInv'
<1>1. PICK M, num, ord : Orderly(M, num, ord) /\ Visiting
  BY DEF CyclesInv
<1>2. ASSUME UNCHANGED hash PROVE CyclesInv'
  <2>1. Orderly(M, num, ord)' /\ Visiting'
    BY <1>1, <1>2 DEF Orderly, Visiting, hash, Hash!State
  <2>. QED
    BY <2>1 DEF CyclesInv
<1>3. CASE Hash!Next
  <2>1. PICK g, N, num2, ord2 : Result(g, N, num2, ord2) /\ Outcome(g, N, ord2, M, ord)
    BY <1>1, <1>3, HashDoes
  <2>2. Orderly(N, num2, ord2)'
    BY <2>1, ResultOrderly
  <2>3. Visiting'
    BY <1>1, <2>1, CycleKeeps
  <2>. QED
    BY <2>2, <2>3 DEF CyclesInv
<1>. QED
  BY <1>2, <1>3 DEF ContainersNext

\* At the end of the way nothing is due
LEMMA CyclesDone ==
    ASSUME CyclesInv
    PROVE  Hash!StayersVisited
<1>. SUFFICES ASSUME visit.way # "none", Hash!following = NoPair PROVE visit.due = {}
  BY DEF Hash!StayersVisited
<1>1. visit \in VisitStates /\ Visiting
  BY DEF CyclesInv, Orderly
<1>2. visit.at \in Pairs /\ visit.way \in {"next", "prev"} /\ visit.due \subseteq Pairs
  BY <1>1 DEF VisitStates
<1>. DEFINE f == Path(visit.way, Hash!State)
<1>3. f[visit.at] = NoPair
  BY <1>2 DEF Path, Nexts, Prevs, Hash!following, Hash!State
<1>4. Due(f, visit.at, visit.due)
  BY <1>1 DEF Visiting
<1>. HIDE DEF f
<1>5. visit.due \subseteq {}
  <2>1. \A S \in SUBSET Pairs : f[visit.at] \in S \cup {NoPair} /\ (\A q \in S : f[q] \in S \cup {NoPair}) => visit.due \subseteq S
    BY <1>4 DEF Due
  <2>2. {} \in SUBSET Pairs /\ f[visit.at] \in {} \cup {NoPair} /\ \A q \in {} : f[q] \in {} \cup {NoPair}
    BY <1>3
  <2>. QED
    BY <2>1, <2>2
<1>. QED
  BY <1>5
-----------------------------------------------------------------------------
\* Keys and values along pairs
Pairing(s, h) == [i \in 1..Len(s) |-> [key |-> h.pair[s[i]].key, value |-> h.pair[s[i]].value]]
Drop(s, n) == [i \in 1..(Len(s) - 1) |-> s[IF i < n THEN i ELSE i + 1]]

\* Any listing of the pairs in their order is the list
LEMMA ListFound ==
    ASSUME NEW h \in Hashes, NEW M, M \subseteq Pairs, NEW ord, Ordered(h, M, ord), NEW s, Enlists(s, M, Negative(M, ord))
    PROVE  Hash!List(h) = s
<1>. DEFINE neg == Negative(M, ord)
<1>1. Numbered(M, neg)
  BY ListIs
<1>2. Linked(h.first, Nexts(h), M, neg)
  BY DEF Ordered, Negative
<1>3. Enlists(s, M, neg)
  OBVIOUS
<1>. HIDE DEF neg
<1>4. Hash!Follow(h.first, Nexts(h)) = s
  BY <1>1, <1>2, <1>3, FollowIs
<1>. QED
  BY <1>4 DEF Hash!List, Nexts

\* The map before a call
LEMMA OrderIs ==
    ASSUME NEW M, NEW num, NEW ord, Orderly(M, num, ord), NEW s, s = Hash!List(Hash!State)
    PROVE  /\ Enlists(s, M, Negative(M, ord)) /\ Hash!Order = Pairing(s, Hash!State)
           /\ Len(s) \in Nat /\ (\A i \in 1..Len(s) : s[i] \in M)
           /\ (\A i, j \in 1..Len(s) : s[i] = s[j] => i = j) /\ (\A p \in M : \E i \in 1..Len(s) : s[i] = p)
<1>. DEFINE h == Hash!State
            neg == Negative(M, ord)
<1>1. h \in Hashes /\ M \subseteq Pairs /\ Ordered(h, M, ord)
  BY DEF Orderly, Whole
<1>. HIDE DEF h
<1>2. Enlists(s, M, neg) /\ Numbered(M, neg)
  BY <1>1, ListIs DEF h
<1>. HIDE DEF neg
<1>3. Len(s) \in Nat /\ DOMAIN s = 1..Len(s) /\ (\A i \in 1..Len(s) : s[i] \in M) /\ (\A p \in M : \E i \in 1..Len(s) : s[i] = p)
  BY <1>2 DEF Enlists
<1>4. \A i, j \in 1..Len(s) : s[i] = s[j] => i = j
  BY <1>1, <1>2, Enlisted
<1>5. Hash!Order = Pairing(s, h)
  BY <1>3 DEF Hash!Order, Pairing, h, Hash!State
<1>. QED
  BY <1>2, <1>3, <1>4, <1>5 DEF neg, h

\* and after it
LEMMA OrderBecomes ==
    ASSUME NEW g, NEW N, NEW num, NEW ord, Result(g, N, num, ord), NEW s, Enlists(s, N, Negative(N, ord))
    PROVE  Hash!Order' = Pairing(s, g)
<1>. DEFINE h == Hash!State'
<1>1. h \in Hashes /\ N \subseteq Pairs /\ Ordered(h, N, ord) /\ h.pair = pair'
  BY DEF Result, Whole, Hash!State
<1>2. \A q \in N : pair'[q] = g.pair[q]
  BY DEF Result, Remain
<1>. HIDE DEF h
<1>3. Hash!List(h) = s
  BY <1>1, ListFound
<1>4. Hash!List(Hash!State)' = s
  BY <1>3 DEF h
<1>5. Len(s) \in Nat /\ DOMAIN s = 1..Len(s) /\ \A i \in 1..Len(s) : s[i] \in N
  BY DEF Enlists
<1>6. Hash!Order' = [i \in 1..Len(s) |-> [key |-> pair'[s[i]].key, value |-> pair'[s[i]].value]]
  BY <1>4, <1>5 DEF Hash!Order
<1>. QED
  BY <1>2, <1>5, <1>6 DEF Pairing

\* Without one pair the others keep their order
LEMMA DropIs ==
    ASSUME NEW M, NEW ord, NEW s, Enlists(s, M, Negative(M, ord)), NEW n \in 1..Len(s),
           \A i, j \in 1..Len(s) : s[i] = s[j] => i = j, NEW N, N = M \ {s[n]}
    PROVE  Enlists(Drop(s, n), N, Negative(N, ord)) /\ Len(Drop(s, n)) = Len(s) - 1
<1>. DEFINE t == Drop(s, n)
            neg == Negative(M, ord)
            at(i) == IF i < n THEN i ELSE i + 1
<1>1. /\ Len(s) \in Nat /\ n \in Nat /\ n <= Len(s) /\ 1 <= n /\ (\A i \in 1..Len(s) : s[i] \in M)
      /\ (\A p \in M : \E i \in 1..Len(s) : s[i] = p)
      /\ \A i, j \in 1..Len(s) : i < j => neg[s[i]] > neg[s[j]]
  <2>1. s \in Seq(M) /\ (\A p \in M : \E i \in 1..Len(s) : s[i] = p)
        /\ \A i, j \in 1..Len(s) : i < j => neg[s[i]] > neg[s[j]]
    BY DEF Enlists
  <2>2. Len(s) \in Nat /\ \A i \in 1..Len(s) : s[i] \in M
    BY <2>1
  <2>3. n \in Nat /\ n <= Len(s) /\ 1 <= n
    BY <2>2
  <2>. QED
    BY <2>1, <2>2, <2>3
<1>2. \A i \in 1..(Len(s) - 1) : at(i) \in 1..Len(s) /\ at(i) # n
  BY <1>1
<1>3. \A i, j \in 1..(Len(s) - 1) : i < j => at(i) < at(j)
  BY <1>1
<1>4. t = [i \in 1..(Len(s) - 1) |-> s[at(i)]]
  BY DEF Drop
<1>5. \A j \in 1..Len(s) : j # n => \E i \in 1..(Len(s) - 1) : at(i) = j
  <2>1. ASSUME NEW j \in 1..Len(s), j # n PROVE \E i \in 1..(Len(s) - 1) : at(i) = j
    <3>1. CASE j < n
      <4>1. j \in 1..(Len(s) - 1) /\ at(j) = j
        BY <1>1, <3>1
      <4>. HIDE DEF at
      <4>. QED
        BY <4>1
    <3>2. CASE j > n
      <4>1. j - 1 \in 1..(Len(s) - 1) /\ at(j - 1) = j
        BY <1>1, <3>2
      <4>. HIDE DEF at
      <4>. QED
        BY <4>1
    <3>. QED
      BY <1>1, <2>1, <3>1, <3>2
  <2>. HIDE DEF at
  <2>. QED
    BY <2>1
<1>. HIDE DEF at, t
<1>6. \A i \in 1..(Len(s) - 1) : t[i] = s[at(i)] /\ t[i] \in N
  BY <1>1, <1>2, <1>4
<1>7. t \in Seq(N) /\ Len(t) = Len(s) - 1
  <2>1. t \in [1..(Len(s) - 1) -> N] /\ Len(s) - 1 \in Nat
    BY <1>1, <1>4, <1>6
  <2>. QED
    BY <2>1
<1>8. \A p \in N : \E i \in 1..Len(t) : t[i] = p
  <2>1. ASSUME NEW p \in N PROVE \E i \in 1..Len(t) : t[i] = p
    <3>1. PICK j \in 1..Len(s) : s[j] = p
      BY <1>1
    <3>2. PICK i \in 1..(Len(s) - 1) : at(i) = j
      BY <1>5, <3>1
    <3>. QED
      BY <1>6, <1>7, <3>1, <3>2
  <2>. QED
    BY <2>1
<1>9. \A p \in N : Negative(N, ord)[p] = neg[p]
  BY DEF Negative
<1>10. \A i, j \in 1..Len(t) : i < j => Negative(N, ord)[t[i]] > Negative(N, ord)[t[j]]
  <2>. HIDE DEF neg
  <2>1. ASSUME NEW i \in 1..Len(t), NEW j \in 1..Len(t), i < j
        PROVE  Negative(N, ord)[t[i]] > Negative(N, ord)[t[j]]
    <3>1. at(i) \in 1..Len(s) /\ at(j) \in 1..Len(s) /\ at(i) < at(j)
      BY <1>2, <1>3, <1>7, <2>1
    <3>2. neg[s[at(i)]] > neg[s[at(j)]]
      BY <1>1, <3>1
    <3>3. t[i] = s[at(i)] /\ t[i] \in N /\ t[j] = s[at(j)] /\ t[j] \in N
      BY <1>6, <1>7
    <3>. QED
      BY <1>9, <3>2, <3>3
  <2>. QED
    BY <2>1
<1>. QED
  BY <1>7, <1>8, <1>10 DEF Enlists, t

LEMMA WithoutIs ==
    ASSUME NEW h, NEW s, Len(s) \in Nat, NEW n \in 1..Len(s), NEW k, h.pair[s[n]].key = k,
           \A i \in 1..Len(s) : h.pair[s[i]].key = k => i = n
    PROVE  Hash!Map!Without(Pairing(s, h), k) = Pairing(Drop(s, n), h)
<1>. DEFINE o == Pairing(s, h)
            u == Drop(s, n)
<1>1. DOMAIN o = 1..Len(s) /\ Len(o) = Len(s) /\ \A i \in 1..Len(s) : o[i] = [key |-> h.pair[s[i]].key, value |-> h.pair[s[i]].value]
  BY DEF Pairing
<1>2. Len(u) = Len(s) - 1 /\ \A i \in 1..(Len(s) - 1) : u[i] = s[IF i < n THEN i ELSE i + 1]
  BY DEF Drop
<1>. HIDE DEF o, u
<1>3. \A i \in 1..Len(s) : o[i].key = k <=> i = n
  BY <1>1
<1>4. k \in Hash!Map!Keys(o)
  BY <1>1, <1>3 DEF Hash!Map!Keys
<1>5. (CHOOSE i \in DOMAIN o : o[i].key = k) = n
  BY <1>1, <1>3
<1>6. Hash!Map!Without(o, k) = [i \in 1..(Len(s) - 1) |-> o[IF i < n THEN i ELSE i + 1]]
  BY <1>1, <1>4, <1>5 DEF Hash!Map!Without
<1>7. \A i \in 1..(Len(s) - 1) : (IF i < n THEN i ELSE i + 1) \in 1..Len(s)
  OBVIOUS
<1>8. \A i \in 1..(Len(s) - 1) : o[IF i < n THEN i ELSE i + 1] = [key |-> h.pair[u[i]].key, value |-> h.pair[u[i]].value]
  BY <1>1, <1>2, <1>7
<1>9. Pairing(u, h) = [i \in 1..(Len(s) - 1) |-> [key |-> h.pair[u[i]].key, value |-> h.pair[u[i]].value]]
  BY <1>2 DEF Pairing
<1>. QED
  BY <1>6, <1>8, <1>9 DEF o, u

\* Each outcome of a call is a step of the map
LEMMA NothingMaps ==
    ASSUME NEW M, NEW num, NEW ord, Orderly(M, num, ord), NEW g, NEW N, NEW num2, NEW ord2, Result(g, N, num2, ord2),
           LeavesAll(g, N, ord2, M, ord)
    PROVE  Hash!Order' = Hash!Order
<1>. DEFINE h == Hash!State
            s == Hash!List(h)
<1>1. /\ Enlists(s, M, Negative(M, ord)) /\ Hash!Order = Pairing(s, h) /\ \A i \in 1..Len(s) : s[i] \in M
  BY OrderIs
<1>. HIDE DEF s
<1>2. Hash!Order' = Pairing(s, g)
  BY <1>1, OrderBecomes DEF LeavesAll
<1>3. M \subseteq Pairs
  BY DEF Orderly, Whole
<1>4. \A q \in M : g.pair[q].key = h.pair[q].key /\ g.pair[q].value = h.pair[q].value
  BY <1>3 DEF LeavesAll, Kept
<1>. HIDE DEF h
<1>5. Pairing(s, g) = Pairing(s, h)
  BY <1>1, <1>4 DEF Pairing
<1>. QED
  BY <1>1, <1>2, <1>5

LEMMA ValuesMap ==
    ASSUME NEW M, NEW num, NEW ord, Orderly(M, num, ord), NEW g, NEW N, NEW num2, NEW ord2, Result(g, N, num2, ord2),
           NEW k \in Key, NEW v \in Value, PutsValue(g, N, ord2, M, ord, k, v)
    PROVE  Hash!Map!Put(k, v)
<1>. DEFINE h == Hash!State
            s == Hash!List(h)
            o == Hash!Order
<1>1. /\ Enlists(s, M, Negative(M, ord)) /\ o = Pairing(s, h) /\ (\A i \in 1..Len(s) : s[i] \in M)
      /\ Len(s) \in Nat /\ (\A i, j \in 1..Len(s) : s[i] = s[j] => i = j) /\ (\A p \in M : \E i \in 1..Len(s) : s[i] = p)
  BY OrderIs
<1>. HIDE DEF s
<1>2. PICK p \in M : h.pair[p].key = k /\ N = M /\ ord2 = ord /\ Valued(g, h, p, v)
  BY DEF PutsValue
<1>3. Hash!Order' = Pairing(s, g)
  BY <1>1, <1>2, OrderBecomes
<1>4. M \subseteq Pairs /\ Distinct(h, M)
  BY DEF Orderly, Whole
<1>. HIDE DEF h, o
<1>5. \A q \in M : /\ g.pair[q].key = h.pair[q].key
                   /\ g.pair[q].value = IF h.pair[q].key = k THEN v ELSE h.pair[q].value
  BY <1>2, <1>4 DEF Valued, Distinct
<1>6. DOMAIN o = 1..Len(s) /\ \A i \in 1..Len(s) : o[i] = [key |-> h.pair[s[i]].key, value |-> h.pair[s[i]].value]
  BY <1>1 DEF Pairing
<1>7. k \in Hash!Map!Keys(o)
  <2>1. PICK i \in 1..Len(s) : s[i] = p
    BY <1>1
  <2>2. o[i].key = k
    BY <1>2, <1>6, <2>1
  <2>. QED
    BY <1>6, <2>2 DEF Hash!Map!Keys
<1>8. Pairing(s, g) = [i \in DOMAIN o |-> IF o[i].key = k THEN [key |-> k, value |-> v] ELSE o[i]]
  BY <1>1, <1>5, <1>6 DEF Pairing
<1>. QED
  BY <1>3, <1>7, <1>8 DEF Hash!Map!Put, o

LEMMA AppendedMaps ==
    ASSUME NEW M, NEW num, NEW ord, Orderly(M, num, ord), NEW g, NEW N, NEW num2, NEW ord2, Result(g, N, num2, ord2),
           NEW k \in Key, NEW v \in Value, PutsNew(g, N, ord2, M, ord, k, v)
    PROVE  Hash!Map!Put(k, v)
<1>. DEFINE h == Hash!State
            s == Hash!List(h)
            o == Hash!Order
<1>1. /\ Enlists(s, M, Negative(M, ord)) /\ o = Pairing(s, h) /\ (\A i \in 1..Len(s) : s[i] \in M)
      /\ Len(s) \in Nat /\ (\A i, j \in 1..Len(s) : s[i] = s[j] => i = j) /\ (\A p \in M : \E i \in 1..Len(s) : s[i] = p)
  BY OrderIs
<1>. HIDE DEF s
<1>2. PICK p \in Pairs : /\ p \notin M /\ (\A q \in M : h.pair[q].key # k) /\ N = M \cup {p}
                         /\ Numbers(M, ord, ord2, p) /\ (\A q \in M : ord[q] < ord2[p]) /\ Appending(g, h, k, v, p)
  BY DEF PutsNew
<1>3. M \subseteq Pairs /\ \A q \in M : ord[q] \in Int
  BY DEF Orderly, Whole, Ordered, Numbered
<1>. HIDE DEF h, o
<1>. DEFINE t == Append(s, p)
            neg == Negative(M, ord)
            neg2 == Negative(N, ord2)
<1>4. s \in Seq(M) /\ \A i, j \in 1..Len(s) : i < j => neg[s[i]] > neg[s[j]]
  BY <1>1 DEF Enlists
<1>5. t \in Seq(N) /\ Len(t) = Len(s) + 1 /\ t[Len(s) + 1] = p /\ \A i \in 1..Len(s) : t[i] = s[i]
  <2>1. s \in Seq(N) /\ p \in N
    BY <1>2, <1>4
  <2>. HIDE DEF neg
  <2>. QED
    BY <2>1, AppendProperties
<1>6. (\A q \in M : neg2[q] = neg[q] /\ neg[q] > neg2[p]) /\ neg2[p] \in Int
  BY <1>2, <1>3 DEF Negative, Numbers
<1>. HIDE DEF t, neg, neg2
<1>7. \A q \in N : \E i \in 1..Len(t) : t[i] = q
  <2>1. ASSUME NEW q \in N PROVE \E i \in 1..Len(t) : t[i] = q
    <3>1. CASE q = p
      BY <1>1, <1>5, <3>1
    <3>2. CASE q \in M
      <4>1. PICK i \in 1..Len(s) : s[i] = q
        BY <1>1, <3>2
      <4>. QED
        BY <1>1, <1>5, <4>1
    <3>. QED
      BY <1>2, <3>1, <3>2
  <2>. QED
    BY <2>1
<1>8. \A i, j \in 1..Len(t) : i < j => neg2[t[i]] > neg2[t[j]]
  <2>1. ASSUME NEW i \in 1..Len(t), NEW j \in 1..Len(t), i < j PROVE neg2[t[i]] > neg2[t[j]]
    <3>1. i \in 1..Len(s) /\ t[i] = s[i] /\ s[i] \in M
      BY <1>1, <1>5, <2>1
    <3>2. CASE j \in 1..Len(s)
      <4>1. t[j] = s[j] /\ s[j] \in M /\ neg[s[i]] > neg[s[j]]
        BY <1>1, <1>4, <1>5, <2>1, <3>1, <3>2
      <4>2. neg2[s[i]] = neg[s[i]] /\ neg2[s[j]] = neg[s[j]]
        BY <1>6, <3>1, <4>1
      <4>. QED
        BY <3>1, <4>1, <4>2
    <3>3. CASE j = Len(s) + 1
      BY <1>5, <1>6, <3>1, <3>3
    <3>. QED
      BY <1>1, <1>5, <3>2, <3>3
  <2>. QED
    BY <2>1
<1>9. Hash!Order' = Pairing(t, g)
  <2>1. Enlists(t, N, Negative(N, ord2))
    BY <1>5, <1>7, <1>8 DEF Enlists, neg2
  <2>. QED
    BY <2>1, OrderBecomes
<1>10. DOMAIN o = 1..Len(s) /\ Len(o) = Len(s) /\ \A i \in 1..Len(s) : o[i] = [key |-> h.pair[s[i]].key, value |-> h.pair[s[i]].value]
  BY <1>1 DEF Pairing
<1>11. k \notin Hash!Map!Keys(o)
  BY <1>1, <1>2, <1>10 DEF Hash!Map!Keys
<1>12. g.pair[p].key = k /\ g.pair[p].value = v /\ \A q \in M : g.pair[q].key = h.pair[q].key /\ g.pair[q].value = h.pair[q].value
  BY <1>2, <1>3 DEF Appending
<1>13. Pairing(t, g) = Append(o, [key |-> k, value |-> v])
  <2>. DEFINE a == Append(o, [key |-> k, value |-> v])
              b == Pairing(t, g)
              S == {[key |-> h.pair[s[i]].key, value |-> h.pair[s[i]].value] : i \in 1..Len(s)} \cup {[key |-> k, value |-> v]}
  <2>1. a \in [1..(Len(s) + 1) -> S] /\ a[Len(s) + 1] = [key |-> k, value |-> v] /\ \A i \in 1..Len(s) : a[i] = o[i]
    <3>1. o \in [1..Len(s) -> S]
      <4>1. \A i \in 1..Len(s) : o[i] \in S
        <5>1. \A i \in 1..Len(s) : [key |-> h.pair[s[i]].key, value |-> h.pair[s[i]].value] \in S
          OBVIOUS
        <5>. HIDE DEF S
        <5>. QED
          BY <1>10, <5>1
      <4>. HIDE DEF S
      <4>2. o = [i \in 1..Len(s) |-> o[i]]
        BY <1>1 DEF Pairing
      <4>. QED
        BY <4>1, <4>2
    <3>2. o \in Seq(S) /\ [key |-> k, value |-> v] \in S
      <4>1. [key |-> k, value |-> v] \in S
        OBVIOUS
      <4>. HIDE DEF S
      <4>. QED
        BY <1>1, <3>1, <4>1
    <3>. HIDE DEF S
    <3>3. a \in Seq(S) /\ Len(a) = Len(s) + 1 /\ a[Len(s) + 1] = [key |-> k, value |-> v] /\ \A i \in 1..Len(s) : a[i] = o[i]
      BY <1>10, <3>2, AppendProperties
    <3>. HIDE DEF a
    <3>. QED
      BY <3>3
  <2>2. b = [i \in 1..(Len(s) + 1) |-> [key |-> g.pair[t[i]].key, value |-> g.pair[t[i]].value]]
    BY <1>5 DEF Pairing
  <2>3. ASSUME NEW i \in 1..(Len(s) + 1)
        PROVE  a[i] = [key |-> g.pair[t[i]].key, value |-> g.pair[t[i]].value]
    <3>. HIDE DEF a
    <3>1. CASE i \in 1..Len(s)
      <4>1. a[i] = o[i] /\ t[i] = s[i] /\ s[i] \in M
        BY <1>1, <1>5, <2>1, <3>1
      <4>2. o[i] = [key |-> h.pair[s[i]].key, value |-> h.pair[s[i]].value]
        BY <1>10, <3>1
      <4>. QED
        BY <1>12, <4>1, <4>2
    <3>2. CASE i = Len(s) + 1
      BY <1>1, <1>5, <1>10, <1>12, <2>1, <3>2
    <3>. QED
      BY <1>1, <3>1, <3>2
  <2>. HIDE DEF a, b, S
  <2>4. a = b
    BY <2>1, <2>2, <2>3
  <2>. QED
    BY <2>4 DEF a, b
<1>. QED
  BY <1>9, <1>11, <1>13 DEF Hash!Map!Put, o

LEMMA RemovesMap ==
    ASSUME NEW M, NEW num, NEW ord, Orderly(M, num, ord), NEW g, NEW N, NEW num2, NEW ord2, Result(g, N, num2, ord2),
           NEW k \in Key, Removes(g, N, ord2, M, ord, k)
    PROVE  Hash!Map!Remove(k)
<1>. DEFINE h == Hash!State
            s == Hash!List(h)
<1>1. /\ Enlists(s, M, Negative(M, ord)) /\ Hash!Order = Pairing(s, h) /\ (\A i \in 1..Len(s) : s[i] \in M)
      /\ Len(s) \in Nat /\ (\A i, j \in 1..Len(s) : s[i] = s[j] => i = j) /\ (\A p \in M : \E i \in 1..Len(s) : s[i] = p)
  BY OrderIs
<1>. HIDE DEF s
<1>2. PICK x \in M : h.pair[x].key = k /\ N = M \ {x} /\ ord2 = ord /\ Taken(g, h, x)
  BY DEF Removes
<1>3. M \subseteq Pairs /\ Distinct(h, M)
  BY DEF Orderly, Whole
<1>. HIDE DEF h
<1>4. PICK n \in 1..Len(s) : s[n] = x
  BY <1>1
<1>. DEFINE t == Drop(s, n)
<1>5. Enlists(t, N, Negative(N, ord2))
  BY <1>1, <1>2, <1>4, DropIs
<1>. HIDE DEF t
<1>6. Hash!Order' = Pairing(t, g)
  BY <1>5, OrderBecomes
<1>7. \A i \in 1..Len(t) : t[i] \in Pairs
  BY <1>2, <1>3, <1>5 DEF Enlists
<1>8. Pairing(t, g) = Pairing(t, h)
  BY <1>2, <1>7 DEF Pairing, Taken
<1>9. Hash!Map!Without(Pairing(s, h), k) = Pairing(t, h)
  <2>1. \A i \in 1..Len(s) : h.pair[s[i]].key = k => i = n
    BY <1>1, <1>2, <1>3, <1>4 DEF Distinct
  <2>. QED
    BY <1>1, <1>2, <1>4, <2>1, WithoutIs DEF t
<1>. QED
  BY <1>1, <1>6, <1>8, <1>9 DEF Hash!Map!Remove

LEMMA RekeyedMaps ==
    ASSUME NEW M, NEW num, NEW ord, Orderly(M, num, ord), NEW g, NEW N, NEW num2, NEW ord2, Result(g, N, num2, ord2),
           NEW from \in Key, NEW to \in Key, from # to, GivesKey(g, N, ord2, M, ord, from, to)
    PROVE  Hash!Map!Rename(from, to)
<1>. DEFINE h == Hash!State
            s == Hash!List(h)
            o == Hash!Order
<1>1. /\ Enlists(s, M, Negative(M, ord)) /\ o = Pairing(s, h) /\ (\A i \in 1..Len(s) : s[i] \in M)
      /\ Len(s) \in Nat /\ (\A i, j \in 1..Len(s) : s[i] = s[j] => i = j) /\ (\A p \in M : \E i \in 1..Len(s) : s[i] = p)
  BY OrderIs
<1>. HIDE DEF s
<1>2. PICK p \in M, x \in M \cup {NoPair} :
          /\ h.pair[p].key = from /\ (x # NoPair => h.pair[x].key = to) /\ (\A q \in M : h.pair[q].key = to => x = q)
          /\ N = M \ {x} /\ ord2 = ord /\ Renamed(g, h, p, x, to)
  BY DEF GivesKey
<1>3. M \subseteq Pairs /\ Distinct(h, M) /\ NoPair \notin M
  BY Memories DEF Orderly, Whole
<1>. HIDE DEF h, o
<1>4. DOMAIN o = 1..Len(s) /\ Len(o) = Len(s) /\ \A i \in 1..Len(s) : o[i] = [key |-> h.pair[s[i]].key, value |-> h.pair[s[i]].value]
  BY <1>1 DEF Pairing
<1>5. from \in Hash!Map!Keys(o)
  <2>1. PICK i \in 1..Len(s) : s[i] = p
    BY <1>1
  <2>2. o[i].key = from
    BY <1>2, <1>4, <2>1
  <2>. QED
    BY <1>4, <2>2 DEF Hash!Map!Keys
<1>6. \E t : Enlists(t, N, Negative(N, ord)) /\ Hash!Map!Without(o, to) = Pairing(t, h)
  <2>1. CASE x = NoPair
    <3>1. \A i \in 1..Len(s) : h.pair[s[i]].key # to
      BY <1>1, <1>2, <1>3, <2>1
    <3>2. to \notin Hash!Map!Keys(o)
      BY <1>4, <3>1 DEF Hash!Map!Keys
    <3>3. Hash!Map!Without(o, to) = o
      BY <3>2 DEF Hash!Map!Without
    <3>4. N = M
      BY <1>2, <1>3, <2>1
    <3>. QED
      BY <1>1, <3>3, <3>4
  <2>2. CASE x # NoPair
    <3>0. x \in M
      BY <1>2, <2>2
    <3>1. PICK n \in 1..Len(s) : s[n] = x
      BY <1>1, <3>0
    <3>2. Enlists(Drop(s, n), N, Negative(N, ord))
      BY <1>1, <1>2, <3>1, DropIs
    <3>3. \A i \in 1..Len(s) : h.pair[s[i]].key = to => i = n
      BY <1>1, <1>2, <3>1
    <3>4. h.pair[s[n]].key = to
      BY <1>2, <2>2, <3>1
    <3>5. Hash!Map!Without(Pairing(s, h), to) = Pairing(Drop(s, n), h)
      BY <1>1, <3>3, <3>4, WithoutIs
    <3>. QED
      BY <1>1, <3>2, <3>5
  <2>. QED
    BY <2>1, <2>2
<1>7. PICK t : Enlists(t, N, Negative(N, ord)) /\ Hash!Map!Without(o, to) = Pairing(t, h)
  BY <1>6
<1>8. Hash!Order' = Pairing(t, g)
  BY <1>2, <1>7, OrderBecomes
<1>. DEFINE rest == Pairing(t, h)
<1>9. DOMAIN rest = 1..Len(t) /\ \A i \in 1..Len(t) : rest[i] = [key |-> h.pair[t[i]].key, value |-> h.pair[t[i]].value]
  BY DEF Pairing
<1>10. \A i \in 1..Len(t) : t[i] \in N
  BY <1>7 DEF Enlists
<1>11. \A q \in N : /\ g.pair[q].key = (IF h.pair[q].key = from THEN to ELSE h.pair[q].key)
                    /\ g.pair[q].value = h.pair[q].value
  BY <1>2, <1>3 DEF Renamed, Distinct
<1>. HIDE DEF rest
<1>12. Pairing(t, g) = [i \in DOMAIN rest |-> IF rest[i].key = from THEN [rest[i] EXCEPT !.key = to] ELSE rest[i]]
  <2>1. ASSUME NEW i \in 1..Len(t)
        PROVE  [key |-> g.pair[t[i]].key, value |-> g.pair[t[i]].value]
                 = IF rest[i].key = from THEN [rest[i] EXCEPT !.key = to] ELSE rest[i]
    BY <1>9, <1>10, <1>11
  <2>. QED
    BY <1>9, <2>1 DEF Pairing
<1>. QED
  BY <1>5, <1>7, <1>8, <1>12 DEF Hash!Map!Rename, o, rest

LEMMA ClearsMap ==
    ASSUME NEW g, NEW N, NEW num2, NEW ord2, Result(g, N, num2, ord2), Clears(g, N)
    PROVE  Hash!Map!Clear
<1>1. N = {}
  BY DEF Clears
<1>2. << >> \in Seq(N) /\ Len(<< >>) = 0
  BY EmptySeq
<1>3. Enlists(<< >>, N, Negative(N, ord2))
  BY <1>1, <1>2 DEF Enlists
<1>4. Hash!Order' = Pairing(<< >>, g)
  BY <1>3, OrderBecomes
<1>5. Pairing(<< >>, g) = << >>
  BY <1>2 DEF Pairing
<1>. QED
  BY <1>4, <1>5 DEF Hash!Map!Clear

LEMMA ReordersMap ==
    ASSUME NEW M, NEW num, NEW ord, Orderly(M, num, ord), NEW g, NEW N, NEW num2, NEW ord2, Result(g, N, num2, ord2),
           Reorders(g, N, ord2, M, ord)
    PROVE  Hash!Map!Sort
<1>. DEFINE h == Hash!State
            s == Hash!List(h)
            o == Hash!Order
<1>1. /\ o = Pairing(s, h) /\ Len(s) \in Nat /\ (\A i \in 1..Len(s) : s[i] \in M)
  BY OrderIs
<1>2. N = M /\ \E f \in [1..Len(s) -> 1..Len(s)] :
          /\ \A i, j \in DOMAIN f : i # j => f[i] # f[j]
          /\ LET t == [i \in 1..Len(s) |-> s[f[i]]]
             IN  Lineup(t, M) /\ OrderedIs(g, h, M, t) /\ ord2 = [p \in M |-> Hash!Place(t, p)]
  BY DEF Reorders
<1>3. PICK f \in [1..Len(s) -> 1..Len(s)] :
          /\ \A i, j \in DOMAIN f : i # j => f[i] # f[j]
          /\ LET t == [i \in 1..Len(s) |-> s[f[i]]]
             IN  Lineup(t, M) /\ OrderedIs(g, h, M, t) /\ ord2 = [p \in M |-> Hash!Place(t, p)]
  BY <1>2
<1>. DEFINE t == [i \in 1..Len(s) |-> s[f[i]]]
<1>4. Lineup(t, M) /\ OrderedIs(g, h, M, t) /\ ord2 = [p \in M |-> Hash!Place(t, p)]
  BY <1>3
<1>5. M \subseteq Pairs
  BY DEF Orderly, Whole
<1>. HIDE DEF s, h, o
<1>6. Len(t) = Len(s) /\ DOMAIN t = 1..Len(s) /\ \A i \in 1..Len(s) : t[i] = s[f[i]]
  BY <1>1
<1>. HIDE DEF t
<1>7. t \in Seq(M) /\ (\A p \in M : \E i \in 1..Len(t) : t[i] = p) /\ \A i, j \in 1..Len(t) : t[i] = t[j] => i = j
  BY <1>4 DEF Lineup
<1>8. \A i \in 1..Len(t) : Hash!Place(t, t[i]) = i /\ t[i] \in M
  BY <1>1, <1>6, <1>7 DEF Hash!Place
<1>9. \A i \in 1..Len(t) : Negative(M, ord2)[t[i]] = -i
  BY <1>4, <1>8 DEF Negative
<1>10. Enlists(t, M, Negative(M, ord2))
  <2>1. \A i, j \in 1..Len(t) : i < j => Negative(M, ord2)[t[i]] > Negative(M, ord2)[t[j]]
    BY <1>9
  <2>. QED
    BY <1>7, <2>1 DEF Enlists
<1>11. Hash!Order' = Pairing(t, g)
  BY <1>2, <1>10, OrderBecomes
<1>12. DOMAIN o = 1..Len(s) /\ \A i \in 1..Len(s) : o[i] = [key |-> h.pair[s[i]].key, value |-> h.pair[s[i]].value]
  BY <1>1 DEF Pairing
<1>13. \A q \in M : g.pair[q].key = h.pair[q].key /\ g.pair[q].value = h.pair[q].value
  BY <1>4, <1>5 DEF OrderedIs
<1>14. Pairing(t, g) = [i \in DOMAIN o |-> o[f[i]]]
  <2>1. ASSUME NEW i \in 1..Len(s)
        PROVE  [key |-> g.pair[t[i]].key, value |-> g.pair[t[i]].value] = o[f[i]]
    <3>1. f[i] \in 1..Len(s) /\ t[i] = s[f[i]] /\ t[i] \in M
      BY <1>1, <1>6
    <3>. QED
      BY <1>12, <1>13, <3>1
  <2>. QED
    BY <1>6, <1>12, <2>1 DEF Pairing
<1>15. f \in [DOMAIN o -> DOMAIN o] /\ \A i, j \in DOMAIN o : i # j => f[i] # f[j]
  BY <1>3, <1>12
<1>. QED
  BY <1>11, <1>14, <1>15 DEF Hash!Map!Sort, o

LEMMA OutcomeMaps ==
    ASSUME NEW M, NEW num, NEW ord, Orderly(M, num, ord), NEW g, NEW N, NEW num2, NEW ord2, Result(g, N, num2, ord2),
           Outcome(g, N, ord2, M, ord)
    PROVE  Hash!MapStep
<1>1. CASE LeavesAll(g, N, ord2, M, ord)
  BY <1>1, NothingMaps DEF Hash!MapStep
<1>2. ASSUME NEW k \in Key, NEW v \in Value, PutsValue(g, N, ord2, M, ord, k, v) \/ PutsNew(g, N, ord2, M, ord, k, v)
      PROVE  Hash!MapStep
  <2>1. Hash!Map!Put(k, v)
    BY <1>2, ValuesMap, AppendedMaps
  <2>. QED
    BY <2>1 DEF Hash!MapStep, Hash!Map!Next
<1>3. ASSUME NEW k \in Key, Removes(g, N, ord2, M, ord, k) PROVE Hash!MapStep
  BY <1>3, RemovesMap DEF Hash!MapStep, Hash!Map!Next
<1>4. ASSUME NEW from \in Key, NEW to \in Key, from # to, GivesKey(g, N, ord2, M, ord, from, to) PROVE Hash!MapStep
  BY <1>4, RekeyedMaps DEF Hash!MapStep, Hash!Map!Next
<1>5. CASE Clears(g, N)
  BY <1>5, ClearsMap DEF Hash!MapStep, Hash!Map!Next
<1>6. CASE Reorders(g, N, ord2, M, ord)
  BY <1>6, ReordersMap DEF Hash!MapStep, Hash!Map!Next
<1>. QED
  BY <1>1, <1>2, <1>3, <1>4, <1>5, <1>6 DEF Outcome

\* The hash is a map from the first state on
LEMMA MapStarts ==
    ASSUME Hash!Init
    PROVE  Hash!Map!Init
<1>1. PICK M, num, ord : Orderly(M, num, ord)
  BY HashStarts DEF HashInv
<1>. DEFINE h == Hash!State
            s == Hash!List(h)
<1>2. h.first = NoPair
  BY DEF Hash!Init, Hash!State
<1>3. /\ Hash!Order = Pairing(s, h) /\ Len(s) \in Nat /\ (\A i \in 1..Len(s) : s[i] \in M)
  BY <1>1, OrderIs
<1>4. M \subseteq Pairs /\ Ordered(h, M, ord) /\ NoPair \notin M
  BY <1>1, Memories DEF Orderly, Whole
<1>. HIDE DEF h, s
<1>5. M = {}
  BY <1>2, <1>4, Mutual DEF Neighbours
<1>6. Len(s) = 0
  BY <1>3, <1>5
<1>7. Pairing(s, h) = << >>
  BY <1>6 DEF Pairing
<1>. QED
  BY <1>3, <1>7 DEF Hash!Map!Init

LEMMA HashMaps ==
    ASSUME HashInv, [ContainersNext]_<<kind, hash, array>>, kind = "hash"
    PROVE  Hash!MapStep
<1>1. PICK M, num, ord : Orderly(M, num, ord)
  BY DEF HashInv
<1>2. CASE UNCHANGED hash
  <2>1. Hash!State' = Hash!State /\ pair' = pair
    BY <1>2 DEF hash, Hash!State
  <2>2. Hash!Order' = Hash!Order
    BY <2>1 DEF Hash!Order
  <2>. QED
    BY <2>2 DEF Hash!MapStep
<1>3. CASE Hash!Next
  <2>1. PICK g, N, num2, ord2 : Result(g, N, num2, ord2) /\ Outcome(g, N, ord2, M, ord)
    BY <1>1, <1>3, HashDoes
  <2>. QED
    BY <1>1, <2>1, OutcomeMaps
<1>. QED
  BY <1>2, <1>3 DEF ContainersNext
-----------------------------------------------------------------------------
\* A cycle over a hash or an array comes to all that stays in it while the cycle
\* lasts: step() follows next and prev, which a pair keeps when it is removed
THEOREM StayersAreVisited == Unready = {} => (ContainersSpec => []CyclesVisit)
<1>. SUFFICES ASSUME Unready = {} PROVE ContainersSpec => []CyclesVisit
  OBVIOUS
<1>1. ContainersInit => CyclesInv /\ ArrayInv
  BY CyclesStart, ArrayStarts DEF ContainersInit
<1>2. CyclesInv /\ ArrayInv /\ [ContainersNext]_<<kind, hash, array>> => CyclesInv' /\ ArrayInv'
  BY CyclesKeep, ArrayKeeps
<1>3. CyclesInv /\ ArrayInv => CyclesVisit
  BY CyclesDone, ArrayVisits DEF CyclesVisit
<1>. QED
  BY <1>1, <1>2, <1>3, PTL DEF ContainersSpec

\* Each call of a hash is a step of an ordered map, each one of an array a step of a
\* map of indices: pointers, places, chains and cached numbers cannot be told from outside
THEOREM MapsAreImplemented == Unready = {} => (ContainersSpec => ImplementMaps)
<1>. SUFFICES ASSUME Unready = {} PROVE ContainersSpec => ImplementMaps
  OBVIOUS
<1>1. ContainersInit => /\ HashInv /\ ArrayInv
                        /\ Hash!Map!Init /\ Array!Map!Init
  BY HashStarts, MapStarts, ArrayStarts DEF ContainersInit
<1>2. HashInv /\ ArrayInv /\ [ContainersNext]_<<kind, hash, array>> =>
        /\ HashInv' /\ ArrayInv'
        /\ [(kind = "hash" => Hash!MapStep) /\ (kind = "array" => Array!MapStep)]_<<Hash!Order, Array!Elements, call>>
  BY HashKeeps, ArrayKeeps, HashMaps
<1>. QED
  BY <1>1, <1>2, PTL DEF ContainersSpec, ImplementMaps
=============================================================================
