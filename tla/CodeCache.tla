----------------------------- MODULE CodeCache ------------------------------
(***************************************************************************)
(* Loading of files with classes, and the cache of compiled code of the    *)
(* built-in web server.  While the server's config runs, what compiling a  *)
(* file does to the classes is recorded; a later request that uses the     *)
(* file, if it has not changed, replays the record instead.                *)
(*                                                                         *)
(* A file is a sequence of directives: <<"CLASS", class>>, <<"USE", file>>,*)
(* <<"BASE", class>>, <<"PARTIAL">>, <<"LOCALS">> and the definition of a  *)
(* method <<"METHOD", name, number of parameters>>.  A record is the same  *)
(* with the compiled methods.  After the config every request runs twice,  *)
(* first with the cache and then, from the same start, without it.         *)
(***************************************************************************)
EXTENDS ClassTable

CONSTANTS File,
          Text,       \* of each file: what it may contain
          Plan,       \* what a page may use: sequences of [file, replace]
          MaxEdits, MaxRequests \* bounds

VARIABLES disk,       \* of each file: its text and its size and time
          cache,      \* code_cache: of each file the record or None
          cache_files,\* code_cache_files
          recording,  \* code_cache_recording: the config runs
          cached,     \* whether this run may use the cache
          r,          \* the request
          first,      \* what the run with the cache has ended with, or None
          plan, edits, requests

vars == <<disk, cache, cache_files, recording, cached, r, first, plan, edits, requests>>
\* What a file is made of, and what a page is
Directives == ({"CLASS", "BASE"} \X ClassName) \cup ({"USE"} \X File) \cup {<<"PARTIAL">>, <<"LOCALS">>}
              \cup ({"METHOD"} \X MethodName \X Nat)
Parameters == /\ "auto" \in MethodName /\ \A f \in File : Text[f] \subseteq Seq(Directives)
              /\ Plan \subseteq Seq([file : File, replace : BOOLEAN])
-----------------------------------------------------------------------------
\* A file being loaded: Parse_control, and the methods saved by Temp_method
Frame(file, classes) ==
    [file |-> file, no |-> 0, todo |-> <<>>, state |-> "stat", cclass |-> 1, new |-> 0, cclasses |-> <<1>>,
     append |-> FALSE, stamp |-> 0, actions |-> <<>>, saved |-> classes[1].methods["auto"]]

\* A request: class 1 is MAIN.  ran are the classes whose @auto was to be executed,
\* the method or None, and the file.  differs: a record was replayed over other classes
\* than those it was made over; late: a class got its base after others had been
\* derived from it
NewRequest(uses, files) ==
    [classes |-> <<NewClass("MAIN")>>, names |-> [n \in Names |-> IF n = "MAIN" THEN 1 ELSE 0],
     used |-> {}, files |-> files, stack |-> <<>>, uses |-> uses, replace |-> FALSE,
     ran |-> <<>>, errors |-> 0, differs |-> FALSE, late |-> FALSE]

Init ==
    /\ disk \in {[f \in File |-> [text |-> t[f], stamp |-> 0]] : t \in [File -> UNION {Text[f] : f \in File}]}
    /\ \A f \in File : disk[f].text \in Text[f]
    /\ plan \in Plan
    /\ cache = [f \in File |-> None] /\ cache_files = <<>> /\ recording = TRUE /\ cached = FALSE
    /\ r = NewRequest(plan, <<>>) /\ first = None /\ edits = 0 /\ requests = 0
-----------------------------------------------------------------------------
Top == Head(r.stack)
Directive == Head(Top.todo)
Is(kind) == r.stack # <<>> /\ Top.todo # <<>> /\ Directive[1] = kind
Replaying == Top.state = "replay"

\* Request q with its innermost file changed
InFile(q, frame) == [q EXCEPT !.stack = <<frame>> \o Tail(@)]
\* The directive is done: what is recorded of it is d
Done(q, d) == InFile(q, [Head(q.stack) EXCEPT !.todo = Tail(@),
                                              !.actions = IF Replaying THEN @ ELSE Append(@, d)])

\* An exception leaves all the files: each gives back @auto of MAIN it has saved,
\* and ^try of the page catches it
fail(q) == [q EXCEPT !.classes = set_method(@, 1, "auto", q.stack[Len(q.stack)].saved),
                     !.stack = <<>>, !.errors = @ + 1, !.replace = FALSE]

\* The class announced by @CLASS gets into the classes with what comes after its options
class_add(q) ==
    LET f == Head(q.stack)
    IN  IF f.new = 0 THEN q
        ELSE InFile([q EXCEPT !.names[q.classes[f.new].name] = f.new],
                    [f EXCEPT !.cclass = f.new, !.cclasses = Append(@, f.new), !.new = 0, !.append = FALSE])
AlreadyDefined == Top.new # 0 /\ r.names[r.classes[Top.new].name] # 0 /\ ~r.replace
-----------------------------------------------------------------------------
\* use_file_directly(): a file is loaded once.  Temp_method zeroes @auto of MAIN,
\* Temp_class_replace leaves the classes protected when the file is done
Loading(q, file, replace) ==
    IF file \in q.used THEN [q EXCEPT !.replace = FALSE]
    ELSE [q EXCEPT !.used = @ \cup {file}, !.replace = replace,
                   !.stack = <<Frame(file, q.classes)>> \o @,
                   !.classes = set_method(@, 1, "auto", None)]

unchanged(f) == cache[f] # None /\ cache[f].stamp = disk[f].stamp

get(f) == ~recording /\ cached /\ unchanged(f)

Kept == UNCHANGED <<disk, cache, cache_files, recording, cached, first, plan, edits, requests>>

pageUses ==
    /\ r.stack = <<>> /\ r.uses # <<>>
    /\ r' = Loading([r EXCEPT !.uses = Tail(@)], Head(r.uses).file, Head(r.uses).replace)
    /\ Kept

\* The record, or, before reading, the size and the time of the file
stat ==
    /\ r.stack # <<>> /\ Top.state = "stat"
    /\ r' = InFile(r, IF get(Top.file)
                      THEN [Top EXCEPT !.state = "replay", !.no = cache[Top.file].no,
                                       !.todo = cache[Top.file].actions]
                      ELSE [Top EXCEPT !.state = "read", !.stamp = disk[Top.file].stamp])
    /\ Kept

register_file(q) == [q EXCEPT !.files = Append(@, Head(q.stack).file)]

read ==
    /\ r.stack # <<>> /\ Top.state = "read"
    /\ r' = InFile(register_file(r),
                   [Top EXCEPT !.state = "compile", !.no = Len(r.files) + 1,
                               !.todo = disk[Top.file].text])
    /\ Kept
-----------------------------------------------------------------------------
directive_CLASS ==
    /\ Is("CLASS")
    /\ r' = IF AlreadyDefined THEN fail(r)
            ELSE LET q == [class_add(r) EXCEPT !.classes = Append(@, NewClass(Directive[2]))]
                 IN  Done(InFile(q, [Head(q.stack) EXCEPT !.new = Len(q.classes), !.append = FALSE]), Directive)
    /\ Kept

directive_USE ==
    /\ Is("USE")
    /\ r' = IF AlreadyDefined THEN fail(r) ELSE Loading(Done(class_add(r), Directive), Directive[2], FALSE)
    /\ Kept

\* replay() asks for nothing but the base: a class that compiling would refuse to
\* base anew gets it
directive_BASE ==
    /\ Is("BASE")
    /\ LET q == class_add(r)
           c == Head(q.stack).cclass
           base == q.names[Directive[2]]
           unfit == Top.append \/ q.classes[c].base # 0 \/ c = base
           refused == ~Replaying /\ unfit
           based == [q EXCEPT !.classes = set_base(@, c, base), !.late = @ \/ q.classes[c].derived # {},
                              !.differs = @ \/ unfit]
       IN  r' = IF AlreadyDefined \/ refused \/ base = 0 THEN fail(IF Top.append THEN r ELSE q)
                ELSE IF Circular(q.classes, base, c) THEN fail(based)
                ELSE Done(based, Directive)
    /\ Kept

\* The methods that follow are added to the class of this name, if it is partial.
\* The record keeps the class it was made over, for the properties only
directive_PARTIAL ==
    /\ Is("PARTIAL")
    /\ LET old == IF Top.new = 0 THEN 0 ELSE r.names[r.classes[Top.new].name]
           over == <<"PARTIAL", IF old = 0 THEN "new" ELSE IF r.classes[old].locals THEN "locals" ELSE "old">>
           q == [r EXCEPT !.differs = @ \/ (Replaying /\ Directive # over)]
       IN  r' = IF Top.new = 0 THEN fail(q)
                ELSE IF old = 0 THEN Done([q EXCEPT !.classes[Top.new].partial = TRUE], over)
                ELSE IF ~r.classes[old].partial THEN fail(q)
                ELSE Done(InFile(q, [Top EXCEPT !.cclass = old, !.new = 0, !.append = TRUE]), over)
    /\ Kept

directive_LOCALS ==
    /\ Is("LOCALS")
    /\ r' = Done([r EXCEPT !.classes[IF Top.new # 0 THEN Top.new ELSE Top.cclass].locals = TRUE], Directive)
    /\ Kept

\* What is compiled depends on the class it is compiled into
compiled(q) == [file |-> Top.file, at |-> Len(Top.todo), stamp |-> disk[Top.file].stamp,
                params |-> Directive[3], locals |-> q.classes[Head(q.stack).cclass].locals]

directive_METHOD ==
    /\ Is("METHOD")
    /\ LET q == class_add(r)
           method == IF Replaying THEN Directive[3] ELSE compiled(q)
       IN  r' = IF AlreadyDefined THEN fail(r)
                ELSE Done([q EXCEPT !.classes = set_method(@, Head(q.stack).cclass, Directive[2], method)],
                          <<"METHOD", Directive[2], method>>)
    /\ Kept

\* Mutant: the time of the file is taken after it is compiled
put_wrong(frame) == cache' = [cache EXCEPT ![frame.file] =
                                 [actions |-> frame.actions, stamp |-> disk[frame.file].stamp, no |-> frame.no]]

put(frame) == cache' = [cache EXCEPT ![frame.file] =
                           [actions |-> frame.actions, stamp |-> frame.stamp, no |-> frame.no]]

\* ~Temp_method and ~Temp_class_replace
leave(q) == [q EXCEPT !.stack = Tail(@), !.replace = FALSE,
                      !.classes = set_method(@, 1, "auto", Head(q.stack).saved)]

\* The file is compiled or replayed: the @auto methods of its classes are executed
compiledFile ==
    /\ r.stack # <<>> /\ Top.state \in {"compile", "replay"} /\ Top.todo = <<>>
    /\ r' = leave([r EXCEPT !.ran = @ \o [i \in DOMAIN Top.cclasses |->
                        <<Top.cclasses[i], r.classes[Top.cclasses[i]].methods["auto"], r.files[Top.no]>>]])
    /\ IF recording THEN put(Top) ELSE UNCHANGED cache
    /\ UNCHANGED <<disk, cache_files, recording, cached, first, plan, edits, requests>>
-----------------------------------------------------------------------------
Ended == r.stack = <<>> /\ r.uses = <<>>

add_files == cache_files

\* Code_cache_manager::finish(), or the cache is off in the config
finish(enabled) ==
    /\ recording /\ Ended /\ recording' = FALSE
    /\ IF enabled THEN cache_files' = r.files /\ UNCHANGED cache
                  ELSE cache_files' = <<>> /\ cache' = [f \in File |-> None]
    /\ plan' = <<>> /\ r' = NewRequest(<<>>, <<>>)
    /\ UNCHANGED <<disk, cached, first, edits, requests>>

request ==
    /\ ~recording /\ Ended /\ ~cached /\ requests < MaxRequests
    /\ plan' \in Plan /\ r' = NewRequest(plan', add_files)
    /\ cached' = TRUE /\ first' = None /\ requests' = requests + 1
    /\ UNCHANGED <<disk, cache, cache_files, recording, edits>>

\* The same without the cache
again ==
    /\ ~recording /\ Ended /\ cached
    /\ first' = r /\ r' = NewRequest(plan, add_files) /\ cached' = FALSE
    /\ UNCHANGED <<disk, cache, cache_files, recording, plan, edits, requests>>

\* Files are changed at any time while the config runs, and between requests later
edit(f, text) ==
    /\ edits < MaxEdits /\ edits' = edits + 1
    /\ recording \/ (Ended /\ ~cached)
    /\ disk' = [disk EXCEPT ![f] = [text |-> text, stamp |-> edits + 1]]
    /\ first' = None
    /\ UNCHANGED <<cache, cache_files, recording, cached, r, plan, requests>>

Next ==
    \/ pageUses \/ stat \/ read
    \/ directive_CLASS \/ directive_USE \/ directive_BASE
    \/ directive_PARTIAL \/ directive_LOCALS \/ directive_METHOD
    \/ compiledFile \/ (\E enabled \in BOOLEAN : finish(enabled)) \/ request \/ again
    \/ \E f \in File : \E text \in Text[f] : edit(f, text)

Spec == Init /\ [][Next]_vars
-----------------------------------------------------------------------------
Same == /\ first.classes = r.classes /\ first.names = r.names
        /\ first.ran = r.ran /\ first.errors = r.errors
Compared == first # None /\ ~cached /\ Ended

\* What pa_code_cache.C promises and tests/httpd/code-cache checks by running the
\* server with the cache and without it: a request that replays ends with the same
\* classes, errors and executed @auto methods as one that compiles
ReplayIsCompile == Compared => Same

\* The code keeps it for the requests in which every class that is extended as
\* partial is as it was when the record was made, and none gets a base that has one
ReplayMirrors == Compared /\ ~first.differs => Same

\* A class answers with its own method or with that of its base, although methods
\* are copied down and never looked for in the base: whatever the order in which the
\* classes and their methods come
MethodsInherited ==
    r.late \/ r.differs \/ \A c \in DOMAIN r.classes : \A n \in MethodName \ (r.classes[c].own \cup {"auto"}) :
        r.classes[c].base # 0 => r.classes[c].methods[n] = r.classes[r.classes[c].base].methods[n]

\* "we assume there is no derivatives at this point" (pa_vstateless_class.C:140)
BaseBeforeDerived == ~r.late

\* The @auto of a class is executed once, that of MAIN once for a file, and it is the
\* one in the file unless MAIN has got it from a base: the files used by this one,
\* before or after its definition, neither run it again nor take it away
AutoOnce ==
    /\ \A i, j \in DOMAIN r.ran :
          i < j /\ r.ran[i][1] = r.ran[j][1] => r.ran[i][1] = 1 /\ r.ran[i][3] # r.ran[j][3]
    /\ \A i \in DOMAIN r.ran :
          r.ran[i][1] = 1 /\ r.ran[i][2] # None /\ r.classes[1].base = 0 => r.ran[i][2].file = r.ran[i][3]
=============================================================================
