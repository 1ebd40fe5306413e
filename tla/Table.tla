------------------------------- MODULE Table --------------------------------
(***************************************************************************)
(* Tables of the language: rows in an array, of which one is current, and  *)
(* names of columns with an index from the names to their numbers.         *)
(*                                                                         *)
(* A row and the array of names are objects: tables that are made of other *)
(* tables share them or have copies, by the operation.  The index is made  *)
(* anew when it changes, and taken over by a clone.                        *)
(***************************************************************************)
EXTENDS Integers, Sequences, FiniteSets

CONSTANTS Tables, Null,
          Rows, Lists, \* objects: rows, and arrays of names (numbers)
          Cell, Name,  \* numbers; 0 stands for the empty string
          MaxRows, MaxCells,
          Word,    \* a size_t counts modulo Word
          Careless \* what the program does that tables are not ready for, see the guards

ConstantsOK ==
    /\ Null \notin Tables /\ {0, 1} \subseteq Cell /\ Cell \cup Name \subseteq Nat /\ 0 \notin Lists
    /\ Word \in Nat \ {0} /\ MaxRows \in Nat

VARIABLES row,   \* cells of a row
          names, \* names of a list
          table, \* rows, fcurrent, columns: a list or 0, name2number
          cycle, \* the cycle over a table: table, row, saved current row
          kin    \* pairs of tables, one of which may have rows of the other

vars == <<row, names, table, cycle, kin>>
-----------------------------------------------------------------------------
NoCycle == [of |-> Null, row |-> 0, saved |-> 0]
Min2(a, b) == IF a < b THEN a ELSE b
In(s) == {s[i] : i \in DOMAIN s}
count(t) == Len(t.rows)
UsedRows == UNION {In(table[t].rows) : t \in Tables}
UsedLists == {table[t].columns : t \in Tables} \ {0}

\* column_names_init()
Index(list) == [n \in In(list) |-> CHOOSE i \in DOMAIN list : list[i] = n /\ \A j \in DOMAIN list : list[j] = n => j <= i]

\* Number of a column, 0 if there is none.  Names of a nameless table are numbers
column_name2index(t, n) ==
    IF t.columns # 0 THEN (IF n \in DOMAIN t.name2number THEN t.name2number[n] ELSE 0)
    ELSE n + 1

item(t, column) == IF column > 0 /\ t.fcurrent < count(t) /\ column <= Len(row[t.rows[t.fcurrent + 1]])
                   THEN row[t.rows[t.fcurrent + 1]][column] ELSE -1

\* Mutant: a reverse walk leaves its last row out
adjust_wrong(o, n) ==
    LET m == IF o.reverse THEN o.offset ELSE n - o.offset
    IN  IF n = 0 \/ o.limit = 0 \/ o.offset >= n THEN 0 ELSE IF o.limit > m THEN m ELSE o.limit

\* Action_options: how many rows there are to walk
adjust(o, n) ==
    LET m == IF o.reverse THEN o.offset + 1 ELSE n - o.offset
    IN  IF n = 0 \/ o.limit = 0 \/ o.offset >= n THEN 0 ELSE IF o.limit > m THEN m ELSE o.limit

\* The walk of table_for_each() and table_first_that(): indices of the rows from 0
Walk(t, o) == [i \in 1..adjust(o, count(t)) |-> IF o.reverse THEN o.offset - (i - 1) ELSE o.offset + (i - 1)]

set_current(t, n) == [t EXCEPT !.fcurrent = IF n < count(t) THEN n ELSE IF count(t) > 0 THEN count(t) - 1 ELSE 0]

Options == [offset : 0..(MaxRows - 1), limit : 0..MaxRows, reverse : BOOLEAN]
New(rows, columns, index) == [rows |-> rows, fcurrent |-> 0, columns |-> columns, name2number |-> index]
-----------------------------------------------------------------------------
Init ==
    /\ row = [r \in Rows |-> <<>>] /\ names = [l \in Lists |-> <<>>]
    /\ table = [t \in Tables |-> New(<<>>, 0, <<>>)] /\ cycle = NoCycle /\ kin = {}

\* What no table has is free
Becomes(tables, cells) ==
    /\ table' = tables
    /\ row' = [r \in Rows |-> IF \E t \in Tables : r \in In(tables[t].rows) THEN cells[r] ELSE <<>>]
List(lists, tables) == names' = [l \in Lists |-> IF \E t \in Tables : tables[t].columns = l THEN lists[l] ELSE <<>>]
Becoming(t, new, cells) == LET all == [table EXCEPT ![t] = new] IN Becomes(all, cells) /\ List(names, all)

\* Which tables may have common rows: t is made anew, and takes rows of u
Apart(t) == {p \in kin : t \notin p}
Akin(k, t, u) == LET group == {t} \cup UNION {p \in k : t \in p}
                     with == {u} \cup UNION {p \in k : u \in p}
                 IN  k \cup {{a, b} : a \in group, b \in with}
NotCycled(t) == cycle.of # t /\ UNCHANGED cycle

\* Rows that no table has
Fresh(n) == {s \in [1..n -> Rows \ UsedRows] : \A i, j \in 1..n : i # j => s[i] # s[j]}

\* Mutant: the rows of the clone are those of its source
append_rows_wrong(of, fresh) == of

\* append_row(): copies
append_rows(of, fresh) == fresh
Cells(of, fresh) == [r \in Rows |-> IF \E i \in DOMAIN fresh : fresh[i] = r
                                    THEN row[of[CHOOSE i \in DOMAIN fresh : fresh[i] = r]] ELSE row[r]]

\* ^table::create[table]: clone, of which the names are those of the source
_create_clone(t, u, o) ==
    /\ NotCycled(t) /\ t # u
    /\ LET of == [i \in DOMAIN Walk(table[u], o) |-> table[u].rows[Walk(table[u], o)[i] + 1]]
       IN  \E fresh \in Fresh(Len(of)) :
               Becoming(t, New(append_rows(of, fresh), table[u].columns, table[u].name2number), Cells(of, fresh))
    /\ kin' = Apart(t)

\* ^table::create{data}, ^table::load[], ^table::sql{}: names, or nameless, and no rows yet
_create(t, nameless) ==
    /\ NotCycled(t) /\ kin' = Apart(t)
    /\ \/ nameless /\ Becoming(t, New(<<>>, 0, <<>>), row)
       \/ ~nameless /\ \E l \in Lists \ UsedLists :
             LET all == [table EXCEPT ![t] = New(<<>>, l, Index(<<0, 1>>))]
             IN  /\ Becomes(all, row) /\ List([names EXCEPT ![l] = <<0, 1>>], all)
                 /\ \A other \in Lists \ UsedLists : l <= other

\* $t[^u.select(condition)]: the rows themselves
Nth(set, n) == CHOOSE i \in set : Cardinality({j \in set : j < i}) = n - 1
Selected(chosen, o) ==
    LET all == Cardinality(chosen)
        walk == [i \in 1..all |-> Nth(chosen, IF o.reverse THEN all + 1 - i ELSE i)]
    IN  SubSeq(walk, o.offset + 1, Min2(all, o.offset + o.limit))
_select(t, u, chosen, o) ==
    /\ NotCycled(t) /\ t # u /\ chosen \subseteq 1..count(table[u])
    /\ LET some == Selected(chosen, o)
       IN  Becoming(t, New([i \in DOMAIN some |-> table[u].rows[some[i]]], table[u].columns,
                           IF table[u].columns = 0 THEN <<>> ELSE Index(names[table[u].columns])), row)
    /\ kin' = Akin(Apart(t), t, u)

\* The table in order of a key, replaced by a new one.  qsort leaves rows of equal keys in
\* any order
Sorted(rs, key, desc) ==
    LET inOrder(p) == \A i, j \in DOMAIN rs : i < j => IF desc THEN key[p[i]] >= key[p[j]] ELSE key[p[i]] <= key[p[j]]
    IN  {[n \in DOMAIN rs |-> rs[p[n]]] : p \in {q \in [DOMAIN rs -> DOMAIN rs] : In(q) = DOMAIN rs /\ inOrder(q)}}
_sort(t, column, desc) ==
    /\ NotCycled(t) /\ UNCHANGED kin
    /\ LET rs == table[t].rows
           key == [i \in DOMAIN rs |-> IF column <= Len(row[rs[i]]) THEN row[rs[i]][column] ELSE 0]
       IN  \E sorted \in Sorted(rs, key, desc) :
               Becoming(t, New(sorted, table[t].columns,
                               IF table[t].columns = 0 THEN <<>> ELSE Index(names[table[t].columns])), row)

\* ^t.join[u]: a named table gets its columns of each row, a nameless one the rows themselves
_join(t, u, o) ==
    /\ t # u /\ cycle.of # t /\ UNCHANGED cycle
    /\ LET walk == Walk(table[u], o)
           list == names[table[t].columns]
           got(i) == [c \in DOMAIN list |->
                         LET found == item([table[u] EXCEPT !.fcurrent = walk[i]], column_name2index(table[u], list[c]))
                         IN  IF found = -1 THEN 0 ELSE found]
       IN  /\ count(table[t]) + Len(walk) <= MaxRows
           /\ \/ /\ table[t].columns = 0
                 /\ Becoming(t, [table[t] EXCEPT !.rows = @ \o [i \in DOMAIN walk |-> table[u].rows[walk[i] + 1]]], row)
                 /\ kin' = IF walk = <<>> THEN kin ELSE Akin(kin, t, u)
              \/ /\ table[t].columns # 0
                 /\ \E fresh \in Fresh(Len(walk)) :
                        Becoming(t, [table[t] EXCEPT !.rows = @ \o fresh],
                                 [r \in Rows |-> IF r \in In(fresh) THEN got(CHOOSE i \in DOMAIN fresh : fresh[i] = r)
                                                 ELSE row[r]])
                 /\ UNCHANGED kin

\* append, and insert before the current row
_append(t, cells) ==
    /\ count(table[t]) < MaxRows /\ UNCHANGED <<cycle, kin>>
    /\ \E s \in Fresh(1) :
           Becoming(t, [table[t] EXCEPT !.rows = @ \o s], [row EXCEPT ![s[1]] = cells])

_insert(t, cells) ==
    /\ count(table[t]) < MaxRows /\ UNCHANGED <<cycle, kin>>
    /\ \E s \in Fresh(1) :
           Becoming(t, [table[t] EXCEPT !.rows = SubSeq(@, 1, table[t].fcurrent) \o s
                                                 \o SubSeq(@, table[t].fcurrent + 1, Len(@))],
                    [row EXCEPT ![s[1]] = cells])

remove_current(t) ==
    LET rest == [t EXCEPT !.rows = SubSeq(@, 1, t.fcurrent) \o SubSeq(@, t.fcurrent + 2, Len(@))]
    IN  IF rest.fcurrent >= count(rest) /\ count(rest) > 0 THEN [rest EXCEPT !.fcurrent = @ - 1] ELSE rest

_delete(t) ==
    /\ table[t].fcurrent < count(table[t]) /\ UNCHANGED <<cycle, kin>>
    /\ Becoming(t, remove_current(table[t]), row)

\* $table.name[value]: put_item() fills the row up to the column, in all tables that have it
put_element(t, n, value) ==
    /\ table[t].fcurrent < count(table[t]) /\ UNCHANGED <<names, table, cycle, kin>>
    /\ LET column == column_name2index(table[t], n)
           r == table[t].rows[table[t].fcurrent + 1]
       IN  /\ column \in 1..MaxCells
           /\ row' = [row EXCEPT ![r] = [c \in 1..(IF column > Len(@) THEN column ELSE Len(@)) |->
                                            IF c = column THEN value ELSE IF c <= Len(@) THEN @[c] ELSE 0]]

\* A list of names is changed in place, the index is made for this table
Shared(t) == \E u \in Tables \ {t} : table[u].columns = table[t].columns
_rename(t, from, to) ==
    /\ table[t].columns # 0 /\ UNCHANGED <<row, cycle, kin>>
    /\ "rename" \in Careless \/ ~Shared(t)
    /\ LET list == [i \in DOMAIN names[table[t].columns] |->
                       IF names[table[t].columns][i] = from THEN to ELSE names[table[t].columns][i]]
       IN  /\ names' = [names EXCEPT ![table[t].columns] = list]
           /\ table' = [table EXCEPT ![t].name2number = Index(list)]

\* fcurrent is unsigned: what is below 0 comes from the top of the word
Offset(t, absolute, n) == (((IF absolute THEN 0 ELSE t.fcurrent) + n + count(t)) % Word) % count(t)
offset(t, absolute, n) ==
    /\ count(table[t]) > 0 /\ UNCHANGED <<row, names, cycle, kin>>
    /\ table' = [table EXCEPT ![t].fcurrent = Offset(table[t], absolute, n)]

\* The first row of the walk that fits becomes current
Located(t, fit, o) ==
    LET found == {i \in 1..adjust(o, count(t)) : Walk(t, o)[i] \in fit}
    IN  IF found = {} THEN t ELSE set_current(t, Walk(t, o)[CHOOSE i \in found : \A j \in found : i <= j])
_locate(t, n, value, o) ==
    /\ UNCHANGED <<row, names, cycle, kin>>
    /\ LET u == table[t]
           fit == {i \in 0..(count(u) - 1) : item(set_current(u, i), column_name2index(u, n)) = value}
       IN  table' = [table EXCEPT ![t] = Located(u, fit, o)]
-----------------------------------------------------------------------------
\* menu, foreach: the row of the cycle becomes current before the body
begin(t) ==
    /\ cycle.of = Null /\ count(table[t]) > 0
    /\ cycle' = [of |-> t, row |-> 0, saved |-> table[t].fcurrent]
    /\ table' = [table EXCEPT ![t] = set_current(@, 0)]
    /\ UNCHANGED <<row, names, kin>>

step ==
    /\ cycle.of # Null /\ cycle.row + 1 < count(table[cycle.of])
    /\ cycle' = [cycle EXCEPT !.row = @ + 1]
    /\ table' = [table EXCEPT ![cycle.of] = set_current(@, cycle.row + 1)]
    /\ UNCHANGED <<row, names, kin>>

\* Temp_current
over(break) ==
    /\ cycle.of # Null /\ (break \/ cycle.row + 1 >= count(table[cycle.of]))
    /\ cycle' = NoCycle
    /\ table' = [table EXCEPT ![cycle.of] = set_current(@, cycle.saved)]
    /\ UNCHANGED <<row, names, kin>>

Near(t) == IF "far" \in Careless THEN -(2 * MaxRows + 1)..(2 * MaxRows) ELSE -count(t)..(2 * MaxRows)
Walks == {o \in Options : o.limit = MaxRows /\ o.offset = IF o.reverse THEN MaxRows - 1 ELSE 0}

Next ==
    \/ \E t \in Tables, u \in Tables, o \in Walks :
          \/ _create_clone(t, u, o) \/ _join(t, u, o)
          \/ \E chosen \in SUBSET (1..MaxRows) : _select(t, u, chosen, o)
    \/ \E t \in Tables :
          \/ (\E nameless \in BOOLEAN : _create(t, nameless)) \/ (\E desc \in BOOLEAN : _sort(t, 1, desc))
          \/ _append(t, <<1>>) \/ _insert(t, <<1>>) \/ _delete(t)
          \/ (\E n \in Name, value \in Cell : put_element(t, n, value) \/ \E o \in Walks : _locate(t, n, value, o))
          \/ _rename(t, 0, 2)
          \/ (\E absolute \in BOOLEAN, n \in {-1, 1} : offset(t, absolute, n))
          \/ begin(t)
    \/ step \/ \E break \in BOOLEAN : over(break)

Spec == Init /\ [][Next]_vars
-----------------------------------------------------------------------------
\* A clone has rows of its own, whatever is made of its source and of it: a common row
\* is one that select, join or sort have handed over
RowsApart == \A t, u \in Tables : t # u /\ In(table[t].rows) \cap In(table[u].rows) # {} => {t, u} \in kin

\* In a table with rows one of them is current, through cycles whose bodies delete and
\* insert rows or replace the table
CurrentStands == \A t \in Tables : table[t].fcurrent < count(table[t]) \/ (count(table[t]) = 0 /\ table[t].fcurrent = 0)

\* locate finds the first row that fits, forwards or backwards, among the rows that
\* offset and limit leave, and no other
LocateFinds ==
    \A t \in Tables, o \in Options, value \in Cell :
        LET n == count(table[t])
            fit == {i \in 0..(n - 1) : item([table[t] EXCEPT !.fcurrent = i], 1) = value}
            range == {i \in 0..(n - 1) : IF o.reverse THEN i <= o.offset /\ i > o.offset - o.limit
                                                      ELSE i >= o.offset /\ i < o.offset + o.limit}
            found == (IF o.offset < n THEN range ELSE {}) \cap fit
        IN  Located(table[t], fit, o).fcurrent
              = IF found = {} THEN table[t].fcurrent
                ELSE CHOOSE i \in found : \A j \in found : IF o.reverse THEN j <= i ELSE i <= j

\* offset moves by so many rows round the table
OffsetWraps ==
    \A t \in Tables : count(table[t]) > 0 => \A absolute \in BOOLEAN, n \in Near(table[t]) :
        Offset(table[t], absolute, n) = ((IF absolute THEN 0 ELSE table[t].fcurrent) + n) % count(table[t])

\* A column is found by the name it is listed with
ColumnsFound ==
    \A t \in Tables : table[t].columns # 0 =>
        LET list == names[table[t].columns]
        IN  \A i \in DOMAIN list : list[i] \in DOMAIN table[t].name2number /\ list[table[t].name2number[list[i]]] = list[i]
=============================================================================
