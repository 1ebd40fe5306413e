------------------------------- MODULE Tables --------------------------------
(***************************************************************************)
(* Tables at work and tables as text, side by side.  They share no state,  *)
(* so a behaviour is one of one of them.                                   *)
(***************************************************************************)
EXTENDS Table

CONSTANTS Saved, Bodies

VARIABLES which, \* "tables" or "text"
          one, two, source

Text == INSTANCE TableText

ASSUME TableConstants == ConstantsOK
-----------------------------------------------------------------------------
TablesInit ==
    \/ which = "tables" /\ Init /\ one = 0 /\ two = 0 /\ source = 0
    \/ which = "text" /\ Text!Init /\ Init

TablesNext ==
    \/ which = "tables" /\ Next /\ UNCHANGED <<which, one, two, source>>
    \/ which = "text" /\ Text!Next /\ UNCHANGED <<which, vars>>

TablesSpec == TablesInit /\ [][TablesNext]_<<which, vars, one, two, source>>
-----------------------------------------------------------------------------
\* A clone has rows of its own, and one row of a table with rows is current, see Table.tla
RowsKept == RowsApart /\ CurrentStands

\* What is written with an encloser is read back, and tainted delimiters in a body of
\* create are data, see TableText.tla
TextKept == which = "text" => Text!RoundTrip /\ Text!TaintedIsData
=============================================================================
