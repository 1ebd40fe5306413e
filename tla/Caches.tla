------------------------------- MODULE Caches -------------------------------
(***************************************************************************)
(* What a process makes and keeps from request to request, side by side:   *)
(* connections to databases, stylesheets (once with edits and one          *)
(* transformation at a time, once with transformations that methods nest)  *)
(* and the code of classes.  They share no state, so a behaviour is of one *)
(* of them.                                                                *)
(***************************************************************************)
EXTENDS SqlDriverManager

CONSTANTS Main, Part, External, Method,                                  \* stylesheets
          ClassName, MethodName, File, Text, Plan, MaxEdits, MaxRequests \* code

\* The parts of a stylesheet are different, and no stylesheet is None
ASSUME PartsDiffer ==
    /\ Main # Part /\ {Main, Part} \cap {External, Method} = {} /\ External # Method
    /\ None \notin [of : [{Main, Part} -> Nat], ext : BOOLEAN, at : Nat]

VARIABLES which, \* "sql", "sheets", "nested" or "code"
          clock, file, refs, compiled, prev_pass, sheet, deps, disk_time, time_used,
          xml_dependencies, call,
          disk, code_cache, cache_files, recording, cached, r, first, plan, edits, requests

sheets == <<clock, file, refs, compiled, prev_pass, sheet, deps, disk_time, time_used,
            xml_dependencies, call>>
code == <<disk, code_cache, cache_files, recording, cached, r, first, plan, edits, requests>>

Sheets == INSTANCE StylesheetManager
              WITH now <- clock, cache <- compiled, used <- time_used,
                   Ref <- {Part, External}, Conn <- {1},
                   MaxTime <- 4, MaxEdits <- 2, MaxDepth <- 1
Nested == INSTANCE StylesheetManager
              WITH now <- clock, cache <- compiled, used <- time_used,
                   Ref <- {Part, External, Method}, Conn <- {1, 2},
                   MaxTime <- 1, MaxEdits <- 1, MaxDepth <- 2
Code == INSTANCE CodeCache WITH cache <- code_cache

\* Files and pages are what CodeCache says, and every class has a place for @auto
ASSUME CodeAssumption == Code!Parameters
-----------------------------------------------------------------------------
\* What does not run
NoSql == Init
NoSheets ==
    /\ clock = 0 /\ file = 0 /\ refs = 0 /\ compiled = 0 /\ prev_pass = 0 /\ sheet = 0 /\ deps = 0
    /\ disk_time = 0 /\ time_used = 0 /\ xml_dependencies = 0 /\ call = 0
NoCode ==
    /\ disk = 0 /\ code_cache = 0 /\ cache_files = 0 /\ recording = 0 /\ cached = 0
    /\ r = 0 /\ first = 0 /\ plan = 0 /\ edits = 0 /\ requests = 0

CachesInit ==
    \/ which = "sql" /\ Init /\ NoSheets /\ NoCode
    \/ which = "sheets" /\ Sheets!Init /\ NoSql /\ NoCode
    \/ which = "nested" /\ Nested!Init /\ NoSql /\ NoCode
    \/ which = "code" /\ Code!Init /\ NoSql /\ NoSheets

CachesNext ==
    \/ which = "sql" /\ Next /\ UNCHANGED <<which, sheets, code>>
    \/ which = "sheets" /\ Sheets!Next /\ UNCHANGED <<which, vars, code>>
    \/ which = "nested" /\ Nested!Next /\ UNCHANGED <<which, vars, code>>
    \/ which = "code" /\ Code!Next /\ UNCHANGED <<which, vars, sheets>>

CachesSpec == CachesInit /\ [][CachesNext]_<<which, vars, sheets, code>>
-----------------------------------------------------------------------------
\* A transformation gets the stylesheet as the files are, see StylesheetManager.tla
FreshStylesheet == which = "sheets" => Sheets!FreshStylesheet

\* A compiled stylesheet has one user and knows its parts, also when a method called
\* from a transformation transforms, see StylesheetManager.tla
WholeWhenNested == which = "nested" => Nested!ExclusiveUse /\ Nested!DependenciesComplete

\* A request that replays records ends as one that compiles, see CodeCache.tla
ReplayMirrors == which = "code" => Code!ReplayMirrors

\* A class has the methods of its base, its @auto runs once, see CodeCache.tla
ClassesWhole == which = "code" => Code!MethodsInherited /\ Code!AutoOnce
=============================================================================
