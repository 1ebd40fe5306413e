----------------------------- MODULE TableText ------------------------------
(***************************************************************************)
(* Tables as text: ^table.save[] and csv-string write columns and rows,    *)
(* ^table::load[] and ^table::create{} read them.                          *)
(*                                                                         *)
(* Letters are "a", the separator "s", the encloser "e", the end of a line *)
(* "n", and "h" for #; "A", "S", "E", "N" are the same ones in a tainted   *)
(* piece of the body of ^table::create{}, where they are data.             *)
(* Two readers go side by side, a piece a step.                            *)
(***************************************************************************)
EXTENDS Naturals, Sequences

CONSTANTS Saved, \* tables that are written: columns (<<>> if nameless), rows
          Bodies \* other texts

VARIABLES one, two, \* the readers, see Reader
          source    \* the table that has been written, or None

vars == <<one, two, source>>
-----------------------------------------------------------------------------
None == [columns |-> <<>>, rows |-> <<>>]

\* Mutant: an encloser in a cell is written once
Doubled_wrong(cell) == cell

Doubled(cell) ==
    LET f[i \in 0..Len(cell)] == IF i = 0 THEN <<>> ELSE f[i - 1] \o (IF cell[i] = "e" THEN <<"e", "e">> ELSE <<cell[i]>>)
    IN  f[Len(cell)]

\* enclose(), or the cell as it is
written(cell, encloser) == IF encloser THEN <<"e">> \o Doubled(cell) \o <<"e">> ELSE cell

Line(cells, encloser) ==
    LET f[i \in 0..Len(cells)] == IF i = 0 THEN <<>>
                                  ELSE f[i - 1] \o (IF i = 1 THEN <<>> ELSE <<"s">>) \o written(cells[i], encloser)
    IN  f[Len(cells)] \o <<"n">>

table_to_csv(t, encloser) ==
    LET f[i \in 0..Len(t.rows)] == IF i = 0 THEN (IF t.columns = <<>> THEN <<>> ELSE Line(t.columns, encloser))
                                   ELSE f[i - 1] \o Line(t.rows[i], encloser)
    IN  f[Len(t.rows)]
-----------------------------------------------------------------------------
\* A reader: its text, where it is (0 for NULL), what it has read.  `at` is columns, cells or done
Reader(load, text, encloser, nameless) ==
    [load |-> load, text |-> text, encloser |-> encloser, at |-> IF nameless THEN "cells" ELSE "columns",
     pos |-> 1, columns |-> <<>>, rows |-> <<>>, row |-> <<>>]

\* First place from i on with one of these letters, or after the text
First(text, i, letters) ==
    LET f[j \in 1..(Len(text) + 1)] == IF j > Len(text) THEN j ELSE IF text[j] \in letters THEN j ELSE f[j + 1]
    IN  f[i]
Piece(text, cell, delim) == [piece |-> cell, delim |-> IF delim > Len(text) THEN "none" ELSE text[delim],
                             next |-> IF delim > Len(text) THEN 0 ELSE delim + 1]

\* Place of the encloser that ends a cell, of which j is a letter, and the cell
Closing(text, j) ==
    LET f[i \in 1..(Len(text) + 2)] ==
            IF i > Len(text) THEN i
            ELSE IF text[i] = "e" THEN (IF i < Len(text) /\ text[i + 1] = "e" THEN f[i + 2] ELSE i) ELSE f[i + 1]
    IN  f[j]
Enclosed(text, j) ==
    LET f[i \in 1..(Len(text) + 2)] ==
            IF i > Len(text) THEN <<>>
            ELSE IF text[i] # "e" THEN <<text[i]>> \o f[i + 1]
            ELSE IF i < Len(text) /\ text[i + 1] = "e" THEN <<"e">> \o f[i + 2] ELSE <<>>
    IN  f[j]

\* Mutant: a tainted letter delimits like a clean one
Delims_wrong == {"s", "n", "S", "N"}

\* The delimiters: lower letters are clean
Delims == {"s", "n"}

\* lsplit(): the next cell, with what comes between its closing encloser and the delimiter
lsplit(r) ==
    LET i == r.pos
        close == Closing(r.text, i + 1)
        from == IF close < Len(r.text) THEN close + 1 ELSE Len(r.text) + 1
        delim == First(r.text, from, Delims)
    IN  IF r.encloser /\ i <= Len(r.text) /\ r.text[i] = "e"
        THEN Piece(r.text, Enclosed(r.text, i + 1) \o SubSeq(r.text, from, delim - 1), delim)
        ELSE Piece(r.text, SubSeq(r.text, i, First(r.text, i, Delims) - 1), First(r.text, i, Delims))

\* skip_clean_empty_lines(), and for files skip_empty_and_comment_lines()
skipped(r) ==
    LET end(i) == First(r.text, i, {"n"})
        f[i \in 0..(Len(r.text) + 1)] ==
            IF i = 0 \/ i > Len(r.text) THEN i
            ELSE IF r.text[i] = "n" THEN f[i + 1]
            ELSE IF r.load /\ r.text[i] = "h" THEN (IF end(i) > Len(r.text) THEN 0 ELSE f[end(i) + 1])
            ELSE i
    IN  [r EXCEPT !.pos = f[@]]

\* A row that has begun is the last one
ended(r) == [r EXCEPT !.at = "done", !.rows = IF r.row = <<>> THEN @ ELSE Append(@, r.row), !.row = <<>>]

\* One turn of the loop over columns, or over cells
piece(r) ==
    LET sr == lsplit(r)
        more == [r EXCEPT !.pos = sr.next]
    IN  IF r.at = "done" THEN r
        ELSE IF r.at = "columns"
        THEN IF r.pos = 0 THEN skipped([r EXCEPT !.at = "cells"])
             ELSE LET named == [more EXCEPT !.columns = Append(@, sr.piece)]
                  IN  IF sr.delim = "n" THEN skipped([named EXCEPT !.at = "cells"]) ELSE named
        ELSE IF r.pos = 0 \/ (sr.piece = <<>> /\ sr.delim = "none" /\ r.row = <<>>) THEN ended(r)
        ELSE IF sr.delim = "n" THEN skipped([more EXCEPT !.rows = Append(@, Append(r.row, sr.piece)), !.row = <<>>])
        ELSE [more EXCEPT !.row = Append(@, sr.piece)]

\* Before the first line, only a file skips what is not a row
Begun(r) == IF r.load \/ r.at = "cells" THEN skipped(r) ELSE r
-----------------------------------------------------------------------------
\* The body with letters where tainted ones are
Neutral(text) == [i \in DOMAIN text |-> IF text[i] \in {"A", "S", "E", "N"} THEN "a" ELSE text[i]]
Clean(text) == Neutral(text) = text

\* Every enclosed cell is closed: the loader is not ready for another text
Terminated(text) ==
    LET end(i) == LET close == Closing(text, i + 1)
                  IN  First(text, IF text[i] # "e" THEN i ELSE IF close < Len(text) THEN close + 1 ELSE Len(text) + 1, Delims)
        f[i \in 1..(Len(text) + 1)] == CASE i > Len(text) -> TRUE
                                         [] i <= Len(text) /\ text[i] = "e" /\ Closing(text, i + 1) > Len(text) -> FALSE
                                         [] OTHER -> IF end(i) > Len(text) THEN TRUE ELSE f[end(i) + 1]
    IN  f[1]

\* Written by save or csv-string, and read by load or create
Written ==
    \E t \in Saved : \E load \in BOOLEAN :
        LET r == Begun(Reader(load, table_to_csv(t, TRUE), TRUE, t.columns = <<>>))
        IN  source = t /\ one = r /\ two = r

\* A body with tainted letters next to one without; a clean one that both read
Read ==
    \E text \in Bodies : \E encloser, nameless \in BOOLEAN :
        /\ source = None /\ one = Begun(Reader(FALSE, text, encloser, nameless))
        /\ IF Clean(text)
           THEN (encloser => Terminated(text)) /\ (nameless \/ Head(text) # "n")
                /\ two = Begun(Reader(TRUE, text, encloser, nameless))
           ELSE two = Begun(Reader(FALSE, Neutral(text), encloser, nameless))

Init == Written \/ Read

Next ==
    /\ one.at # "done" \/ two.at # "done"
    /\ one' = piece(one) /\ two' = piece(two) /\ UNCHANGED source

Spec == Init /\ [][Next]_vars
-----------------------------------------------------------------------------
Done == one.at = "done" /\ two.at = "done"

\* What is written with an encloser is read back, whatever enclosers, separators, ends
\* of lines and comment signs its cells and names hold, by load and by create
RoundTrip == Done /\ source # None => one.columns = source.columns /\ one.rows = source.rows

\* Tainted separators, enclosers and ends of lines in the body of create are letters of
\* cells: the table has the shape it has without them, and load makes the same table
\* of a clean text
TaintedIsData ==
    Done => /\ Len(one.rows) = Len(two.rows) /\ Len(one.columns) = Len(two.columns)
            /\ \A i \in DOMAIN one.rows : [j \in DOMAIN one.rows[i] |-> Neutral(one.rows[i][j])] = two.rows[i]
            /\ \A i \in DOMAIN one.columns : Neutral(one.columns[i]) = two.columns[i]
=============================================================================
