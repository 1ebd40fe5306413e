------------------------------ MODULE ByteRange ------------------------------
(***************************************************************************)
(* The Range header of a request: parse_range() and the choices            *)
(* output_pieces() makes of what it returns (main/pa_request.C).           *)
(*                                                                         *)
(* The header is a sequence of tokens: runs of digits with the number they *)
(* stand for, runs of blanks, '-', ',' and anything else.  The prefix      *)
(* "bytes=" may be there or not: the code skips it.                        *)
(***************************************************************************)
EXTENDS Naturals, Sequences

CONSTANT UNSET   \* (uint64_t)-1: the largest number, and no number at all
ASSUME UnsetAssumption == UNSET \in Nat

Token == [kind : {"digits", "blank", "dash", "comma", "other"}, n : 0..UNSET]
digits(n) == [kind |-> "digits", n |-> n]
sign(k)   == [kind |-> k, n |-> 0]

kindAt(s, i) == IF i <= Len(s) THEN s[i].kind ELSE "end"
skipBlanks(s, i) == CHOOSE j \in i..Len(s) + 1 :
    kindAt(s, j) # "blank" /\ \A k \in i..j - 1 : kindAt(s, k) = "blank"
numberAt(s, i) == IF kindAt(s, i) = "digits" THEN s[i].n ELSE UNSET
afterNumber(s, i) == skipBlanks(s, IF kindAt(s, i) = "digits" THEN i + 1 ELSE i)

\* One turn of the loop from position i; it is "taken" when neither break is
rangeAt(s, i) ==
    LET first == skipBlanks(s, i)
        dash  == afterNumber(s, first)
        last  == skipBlanks(s, IF dash > Len(s) THEN dash ELSE dash + 1)
        comma == afterNumber(s, last)
    IN [taken |-> kindAt(s, dash) = "dash" /\ kindAt(s, comma) \in {"comma", "end"},
        range |-> [start |-> numberAt(s, first), end |-> numberAt(s, last)],
        next  |-> IF comma > Len(s) THEN comma ELSE comma + 1]

\* output_pieces() asks whether there is no range, one or more: of more two will do
parse_range(s) ==
    LET one == rangeAt(s, 1)
        two == rangeAt(s, one.next)
    IN  IF s = <<>> \/ ~one.taken THEN <<>>
        ELSE IF one.next > Len(s) \/ ~two.taken THEN <<one.range>>
        ELSE <<one.range, two.range>>

\* output_pieces(): the status and the part of a file of size bytes
whole(size)  == [status |-> "200", offset |-> 0, length |-> size]
refused(status) == [status |-> status, offset |-> 0, length |-> 0]
atMost(a, b) == IF a > b THEN b ELSE a
part(rg, size) ==
    LET from(start, end) == [status |-> "206", offset |-> start, length |-> end - start + 1]
    IN  CASE rg.start = UNSET /\ rg.end \in {UNSET, 0} -> refused("416")
          [] rg.start = UNSET /\ rg.end \notin {UNSET, 0} ->
                from(size - atMost(rg.end, size), size - 1)
          [] rg.start # UNSET /\ (rg.start >= size \/ rg.start > rg.end) -> refused("416")
          [] OTHER -> from(rg.start, IF rg.end >= size THEN size - 1 ELSE rg.end)
\* Mutant: of several ranges the first is served
ranged_wrong(s, size) ==
    LET ar == parse_range(s)
    IN  IF ar # <<>> THEN part(ar[1], size) ELSE refused("400")
ranged(s, size) ==
    LET ar == parse_range(s)
    IN  IF Len(ar) = 1 THEN part(ar[1], size)
        ELSE refused(IF ar = <<>> THEN "400" ELSE "501")
-----------------------------------------------------------------------------
\* RFC 7233, 2.1, the reference: a byte-range-spec "first-last", "first-" or
\* "-suffix", here of the tokens from i to j, blanks among them, and the bytes of a
\* representation of size bytes it asks for

isSpec(s, i, j) ==
    LET used == {k \in i..j : s[k].kind # "blank"}
    IN  \E dash \in used :
            /\ s[dash].kind = "dash" /\ used # {dash}
            /\ \A k \in used \ {dash} : s[k].kind = "digits"
            /\ \A k, l \in used \ {dash} : (k < dash <=> l < dash) => k = l
bytesOf(s, size) ==
    LET dash  == CHOOSE k \in DOMAIN s : s[k].kind = "dash"
        first == {k \in 1..dash - 1 : s[k].kind = "digits"}
        last  == {k \in dash + 1..Len(s) : s[k].kind = "digits"}
    IN  {b \in 0..size - 1 :
            /\ \A k \in first : b >= s[k].n
            /\ \A k \in last : IF first = {} THEN b + s[k].n >= size ELSE b <= s[k].n}
=============================================================================
