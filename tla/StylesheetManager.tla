------------------------- MODULE StylesheetManager -------------------------
(***************************************************************************)
(* The cache of compiled stylesheets, for one stylesheet Main.  Main may   *)
(* include the file Part, refer to an External address, or to a Method of  *)
(* the page (parser://), and is edited while requests transform with it.   *)
(*                                                                         *)
(* A Stylesheet_connection keeps what it compiled, the files it was        *)
(* compiled from (dependencies) and the latest of their modification times *)
(* (prev_disk_time).  The list of files is collected in a variable of the  *)
(* thread while the XSLT library loads, and a Method that transforms too   *)
(* works in that very thread: call is the stack of such transformations.   *)
(***************************************************************************)
EXTENDS Integers, Sequences, SequencesExt

CONSTANTS Main, Part, External, Method, None,
          Ref,      \* what Main may refer to
          Conn,     \* the Stylesheet_connection objects, enough for MaxDepth
          Expire,   \* EXPIRE_UNUSED_CONNECTION_SECONDS; the check is at twice that
          MaxTime, MaxEdits, MaxDepth \* bounds: the clock, edits, nested transformations

XslFile == {Main, Part}

VARIABLES now,
          file, refs,  \* the disk: each file, and what Main refers to
          cache,       \* the stack of connections of this stylesheet
          prev_pass,   \* prev_expiration_pass_time
          sheet, deps, disk_time, used, \* of each connection: fstylesheet,
                       \* dependencies, prev_disk_time, time_used
          xml_dependencies, \* of the thread: the files a load has opened, or None
          call         \* the transformations in progress, the innermost last

vars == <<now, file, refs, cache, prev_pass, sheet, deps, disk_time, used, xml_dependencies, call>>
disk == <<file, refs>>
conns == <<sheet, deps, disk_time, used>>
-----------------------------------------------------------------------------
top == call[Len(call)]
c == top.conn
at(P) == call # <<>> /\ top.pc \in P
update(r) == call' = [call EXCEPT ![Len(call)] = r]
edits == file[Main].ver + file[Part].ver
Latest(S) == Max({0} \cup {file[f].mtime : f \in S})
Busy == {call[i].conn : i \in DOMAIN call}

\* What load() works with: its argument, files to read, versions read, whether
\* there was an error or an external part, and when it began
NoLoad == [disk_time |-> 0, todo |-> {}, of |-> [f \in XslFile |-> 0], bad |-> FALSE, ext |-> FALSE, at |-> 0]

Init ==
    /\ now = 1
    /\ file = [f \in XslFile |-> [ver |-> 1, mtime |-> 1, is |-> "good"]]
    /\ refs \in SUBSET Ref
    /\ cache = <<>> /\ prev_pass = 0
    /\ sheet = [k \in Conn |-> None] /\ deps = [k \in Conn |-> None]
    /\ disk_time = [k \in Conn |-> 0] /\ used = [k \in Conn |-> 0]
    /\ xml_dependencies = None /\ call = <<>>

tick == /\ now < MaxTime /\ now' = now + 1
        /\ UNCHANGED <<disk, cache, prev_pass, conns, xml_dependencies, call>>

\* The authors of the site: a file is edited, removed or put back
edit(f) ==
    /\ edits < MaxEdits + 2
    /\ \E is \in {"good", "bad", "missing"} :
          file' = [file EXCEPT ![f] = [ver |-> @.ver + 1, mtime |-> now, is |-> is]]
    /\ refs' \in IF f = Main /\ file'[f].is = "good" THEN SUBSET Ref ELSE {refs}
    /\ UNCHANGED <<now, cache, prev_pass, conns, xml_dependencies, call>>
-----------------------------------------------------------------------------
\* maybe_expire_cache(), at the start of a request
maybe_expire_cache ==
    /\ call = <<>> /\ prev_pass < now - 2 * Expire
    /\ sheet' = [k \in Conn |-> IF k \in Range(cache) /\ (deps[k] = None \/ used[k] < now - Expire)
                                THEN None ELSE sheet[k]]
    /\ prev_pass' = now
    /\ UNCHANGED <<now, disk, cache, deps, disk_time, used, xml_dependencies, call>>

\* Mutant: a connection stays in the cache while it is used
get_connection_wrong ==
    /\ Len(call) < MaxDepth
    /\ call = <<>> \/ at({"method", "transform"})
    /\ LET live == {i \in DOMAIN cache : sheet[cache[i]] # None}
           frame(k) == [conn |-> k, pc |-> "stylesheet", loaded |-> FALSE, load |-> NoLoad,
                        since |-> [f \in XslFile |-> file[f].ver]]
           k == IF live = {} THEN CHOOSE x \in Conn : x \notin Busy
                ELSE CHOOSE x \in {cache[i] : i \in live} : TRUE
       IN  call' = Append(call, frame(k)) /\ used' = [used EXCEPT ![k] = now]
    /\ UNCHANGED <<now, disk, prev_pass, xml_dependencies, cache, sheet, deps, disk_time>>

\* get_connection() and use(): the last connection that still has a stylesheet,
\* or a new one
get_connection ==
    /\ Len(call) < MaxDepth
    /\ call = <<>> \/ at({"method", "transform"})
    /\ LET live == {i \in DOMAIN cache : sheet[cache[i]] # None}
           frame(k) == [conn |-> k, pc |-> "stylesheet", loaded |-> FALSE, load |-> NoLoad,
                        since |-> [f \in XslFile |-> file[f].ver]]
           get(k) == call' = Append(call, frame(k)) /\ used' = [used EXCEPT ![k] = now]
       IN  \/ /\ live = {} /\ cache' = <<>>
              /\ LET k == CHOOSE k \in Conn : k \notin Busy
                 IN  /\ get(k)
                     /\ sheet' = [sheet EXCEPT ![k] = None] /\ deps' = [deps EXCEPT ![k] = None]
                     /\ disk_time' = [disk_time EXCEPT ![k] = 0]
           \/ \E i \in live :
                  /\ \A j \in live : j <= i
                  /\ cache' = SubSeq(cache, 1, i - 1) /\ get(cache[i])
                  /\ UNCHANGED <<sheet, deps, disk_time>>
    /\ UNCHANGED <<now, disk, prev_pass, xml_dependencies>>

\* stylesheet(): the latest time of the dependencies, an exception when one is
\* missing
get_disk_time_fails == deps[c] # None /\ \E f \in deps[c] : file[f].is = "missing"
get_disk_time == IF deps[c] = None THEN 0 ELSE Latest(deps[c])
Reload == deps[c] = None \/ get_disk_time > disk_time[c]

stylesheet ==
    /\ at({"stylesheet"})
    /\ \/ /\ get_disk_time_fails /\ update([top EXCEPT !.pc = "no dependency"])
          /\ UNCHANGED <<xml_dependencies, deps>>
       \/ /\ ~get_disk_time_fails /\ Reload
          /\ update([top EXCEPT !.pc = "load", !.load.disk_time = get_disk_time,
                                 !.load.todo = {Main}, !.load.at = now])
          /\ xml_dependencies' = {} /\ deps' = [deps EXCEPT ![c] = {}]
       \/ /\ ~get_disk_time_fails /\ ~Reload /\ update([top EXCEPT !.pc = "transform"])
          /\ UNCHANGED <<xml_dependencies, deps>>
    /\ UNCHANGED <<now, disk, cache, prev_pass, sheet, disk_time, used>>

add_dependency(f) ==
    xml_dependencies' = IF xml_dependencies = None THEN None ELSE xml_dependencies \cup {f}

\* The library opens r: the rest of what is to load, and whether it is an error
reads(r, more, bad) == [top.load EXCEPT !.todo = (@ \ {r}) \cup more, !.bad = @ \/ bad]

\* xmlFileOpenMonitor for a file
open(f) ==
    /\ at({"load"}) /\ f \in top.load.todo /\ add_dependency(f)
    /\ LET more == IF f = Main /\ file[f].is = "good" THEN refs ELSE {}
       IN  update([top EXCEPT !.load = [reads(f, more, file[f].is # "good") EXCEPT !.of[f] = file[f].ver]])
    /\ UNCHANGED <<now, disk, cache, prev_pass, conns>>

\* xmlFileOpenMonitor for another address: monitoring stops; the library gets
\* it, or not
openExternal ==
    /\ at({"load"}) /\ External \in top.load.todo
    /\ xml_dependencies' = None
    /\ \E bad \in BOOLEAN :
          update([top EXCEPT !.load = [reads(External, {}, bad) EXCEPT !.ext = TRUE]])
    /\ UNCHANGED <<now, disk, cache, prev_pass, conns>>

\* xmlFileOpenMethod: the page's method runs, and may transform, too
openMethod ==
    /\ at({"load"}) /\ Method \in top.load.todo
    /\ \E bad \in BOOLEAN : update([top EXCEPT !.pc = "method", !.load = reads(Method, {}, bad)])
    /\ UNCHANGED <<now, disk, cache, prev_pass, conns, xml_dependencies>>

methodReturns ==
    /\ at({"method"}) /\ update([top EXCEPT !.pc = "load"])
    /\ UNCHANGED <<now, disk, cache, prev_pass, conns, xml_dependencies>>

\* Mutant: the time of the load is remembered instead of the times of the files
load_wrong ==
    /\ at({"load"}) /\ (top.load.todo = {} \/ top.load.bad)
    /\ deps' = [deps EXCEPT ![c] = xml_dependencies] /\ xml_dependencies' = None
    /\ update([top EXCEPT !.pc = IF top.load.bad THEN "failed" ELSE "transform",
                           !.loaded = TRUE, !.load = NoLoad])
    /\ IF top.load.bad THEN UNCHANGED <<sheet, disk_time>>
       ELSE /\ sheet' = [sheet EXCEPT ![c] = [of |-> top.load.of, ext |-> top.load.ext, at |-> top.load.at]]
            /\ disk_time' = [disk_time EXCEPT ![c] = now]
    /\ UNCHANGED <<now, disk, cache, prev_pass, used>>

\* The end of load(); the library gives up at an error, at once or later
load ==
    /\ at({"load"}) /\ (top.load.todo = {} \/ top.load.bad)
    /\ deps' = [deps EXCEPT ![c] = xml_dependencies] /\ xml_dependencies' = None
    /\ update([top EXCEPT !.pc = IF top.load.bad THEN "failed" ELSE "transform",
                           !.loaded = TRUE, !.load = NoLoad])
    /\ IF top.load.bad THEN UNCHANGED <<sheet, disk_time>>
       ELSE /\ sheet' = [sheet EXCEPT ![c] = [of |-> top.load.of, ext |-> top.load.ext, at |-> top.load.at]]
            /\ disk_time' = [disk_time EXCEPT ![c] = top.load.disk_time]
    /\ UNCHANGED <<now, disk, cache, prev_pass, used>>

\* The transformation or the exception ends: unuse() puts the connection back
unuse ==
    /\ at({"transform", "failed", "no dependency"})
    /\ cache' = Append(cache, c) /\ call' = SubSeq(call, 1, Len(call) - 1)
    /\ UNCHANGED <<now, disk, prev_pass, conns, xml_dependencies>>

Next ==
    \/ tick
    \/ \E f \in XslFile : edit(f) \/ open(f)
    \/ maybe_expire_cache
    \/ get_connection
    \/ stylesheet
    \/ openExternal
    \/ openMethod
    \/ methodReturns
    \/ load
    \/ unuse

Spec == Init /\ [][Next]_vars
-----------------------------------------------------------------------------
Sheet == [of : [XslFile -> 0 .. MaxEdits + 2], ext : BOOLEAN, at : 0 .. now]
TypeOK ==
    /\ now \in 1 .. MaxTime /\ prev_pass \in 0 .. now /\ refs \subseteq Ref
    /\ file \in [XslFile -> [ver : 1 .. MaxEdits + 1, mtime : 0 .. now, is : {"good", "bad", "missing"}]]
    /\ cache \in Seq(Conn)
    /\ sheet \in [Conn -> Sheet \cup {None}]
    /\ deps \in [Conn -> (SUBSET XslFile) \cup {None}]
    /\ disk_time \in [Conn -> 0 .. now] /\ used \in [Conn -> 0 .. now]
    /\ xml_dependencies \in (SUBSET XslFile) \cup {None}
    /\ \A i \in DOMAIN call : call[i].conn \in Conn

Touched(f) == file[f].ver # top.since[f]
\* A file was edited again within the second in which load() began: the times of
\* files have that grain
EditedAtOnce ==
    \E f \in XslFile : sheet[c].of[f] \notin {0, file[f].ver} /\ file[f].mtime = sheet[c].at

\* The stylesheet a transformation gets.  One compiled for it is of the files as
\* they are, but for edits during this very call.  One that was kept is of the
\* files as they were when the call began and has no external part, whose
\* changes cannot be seen, or a file was edited at once.
FreshStylesheet ==
    at({"transform"}) =>
        IF top.loaded
        THEN \A f \in XslFile : sheet[c].of[f] \in {0, file[f].ver} \/ Touched(f)
        ELSE \/ EditedAtOnce \/ \E f \in XslFile : Touched(f)
             \/ ~sheet[c].ext /\ \A f \in XslFile : sheet[c].of[f] \in {0, file[f].ver}

\* After a load the list of dependencies is complete, or there is none and the
\* next use loads again; so, too, when a nested load has used the thread's list.
DependenciesComplete ==
    at({"transform"}) /\ top.loaded /\ deps[c] # None =>
        /\ {f \in XslFile : sheet[c].of[f] # 0} \subseteq deps[c]
        /\ ~sheet[c].ext

\* A connection belongs to one transformation: a nested one does not compile
\* into the stylesheet an outer one is using.
ExclusiveUse ==
    /\ \A i, j \in DOMAIN call : call[i].conn = call[j].conn => i = j
    /\ \A i \in DOMAIN call : call[i].conn \notin Range(cache)
    /\ IsInjective(cache)

\* A transformation fails for a dependency only when Main does include it, or was
\* edited meanwhile: a file that is not needed any more may be removed.
FailsForReason ==
    at({"no dependency"}) =>
        \E f \in {Main} \cup (refs \cap XslFile) : file[f].is # "good" \/ Touched(f)
=============================================================================
