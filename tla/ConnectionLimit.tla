-------------------------- MODULE ConnectionLimit --------------------------
(***************************************************************************)
(* What $HTTPD.max-connections promises, without sockets, processes and    *)
(* counters: no more than Max connections are being served at a time, and  *)
(* one is refused only when that many are.                                 *)
(***************************************************************************)
EXTENDS Integers, FiniteSets

CONSTANTS Conn, Max

VARIABLES serving,   \* the connections being served
          refused    \* the ones that got 503

lvars == <<serving, refused>>

Init == serving = {} /\ refused = {}

Admit(c) == /\ c \notin serving \cup refused /\ Cardinality(serving) < Max
            /\ serving' = serving \cup {c} /\ UNCHANGED refused

Refuse(c) == /\ c \notin serving \cup refused /\ Cardinality(serving) >= Max
             /\ refused' = refused \cup {c} /\ UNCHANGED serving

Finish(c) == c \in serving /\ serving' = serving \ {c} /\ UNCHANGED refused

Next == \E c \in Conn : Admit(c) \/ Refuse(c) \/ Finish(c)

Spec == Init /\ [][Next]_lvars
=============================================================================
