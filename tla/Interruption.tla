---------------------------- MODULE Interruption ----------------------------
(***************************************************************************)
(* What $response:timeout promises about a request, without the skips, the *)
(* frames and the races SkipFlow has: an interruption that was asked for   *)
(* may be taken once; when it is taken the request's own code is over, and *)
(* the only code left to run is @unhandled_exception, which runs once.     *)
(***************************************************************************)
VARIABLES pending,   \* an interruption was asked for and not taken yet
          stage,     \* "running", "aborting" (unwinding) or "over"
          reported   \* @unhandled_exception is the code that runs

ivars == <<pending, stage, reported>>

TypeInv == /\ pending \in BOOLEAN /\ reported \in BOOLEAN
           /\ stage \in {"running", "aborting", "over"}

Init == pending = FALSE /\ stage = "running" /\ reported = FALSE

\* The timer asks, any number of times, whatever the request is doing
Ask == /\ stage # "over" /\ pending' = TRUE /\ UNCHANGED <<stage, reported>>

\* The request takes the interruption: from here no code of @main runs
Take == /\ pending /\ stage = "running"
        /\ pending' = FALSE /\ stage' = "aborting" /\ UNCHANGED reported

\* @unhandled_exception, for this or for any other error, once
Report == /\ stage # "over" /\ ~reported
          /\ stage' = "running" /\ reported' = TRUE /\ UNCHANGED pending

\* The request ends in time, without a report, or is killed
End == stage # "over" /\ stage' = "over" /\ UNCHANGED <<pending, reported>>

Next == Ask \/ Take \/ Report \/ End

Spec == Init /\ [][Next]_ivars
=============================================================================
