------------------------------ MODULE SkipFlow ------------------------------
(***************************************************************************)
(* How ^break, ^continue, ^return, errors and the response timeout steer   *)
(* the bytecode interpreter.                                               *)
(*                                                                         *)
(* The interpreter has no jump instruction for these: an operator stores a *)
(* Skip in Request::fskip, execute() returns at its next check, and every  *)
(* native operator on the way out decides whether the skip is its own.     *)
(* The same word is stored by the handler of the response timer, a signal  *)
(* delivered to the request's own thread between any two of its memory     *)
(* accesses.  Request::set_skip() reads finterrupted and then stores fskip *)
(* without a lock, so the handler can run in between.                      *)
(*                                                                         *)
(* One action is one access of the thread to the two shared words.  Where  *)
(* the code reads fskip twice in a row and the outcome equals that of one  *)
(* read (check_skip, check_skip_break, check_break: the handler only ever  *)
(* stores SKIP_INTERRUPTED), the two reads are one action.                 *)
(*                                                                         *)
(* The program being interpreted is arbitrary: at each opcode it may do    *)
(* anything the operators allow, down to MaxDepth nested frames.           *)
(***************************************************************************)
EXTENDS Integers, Sequences

CONSTANTS MaxDepth,     \* bound: nested code frames
          MaxArms,      \* bound: assignments to $response:timeout
          KillProcess   \* Response_timeout::kill_process: PARALLEL httpd or CGI

ASSUME DepthAssumption == MaxDepth \in Nat \ {0}
ASSUME ArmsAssumption == MaxArms \in Nat
ASSUME KillAssumption == KillProcess \in BOOLEAN

VARIABLES frames,        \* the native operators on the C++ stack, last on top
          pc,            \* what the thread does next
          arg, ret,      \* a set_skip() in progress: its argument, what follows
          reg,           \* what it has read from finterrupted
          result,        \* check_skip_break()'s result
          exc,           \* the exception that unwinds the stack
          fskip, finterrupted, freturn,  \* the fields of Request
          phase,         \* which method Request::core has called
          armed, expired, arms,          \* Response_timeout
          raised, thrown, \* history: interrupt() calls, Interrupted exceptions
          leak,          \* history: an exception has unwound over a pending skip
          retargeted     \* history: ^return ran while a Temp_skip held a return

vars == <<frames, pc, arg, ret, reg, result, exc, fskip, finterrupted, freturn,
          phase, armed, expired, arms, raised, thrown, leak, retargeted>>

shared == <<fskip, finterrupted>>
timer  == <<armed, expired, arms, raised>>
setter == <<arg, ret, reg>>
-----------------------------------------------------------------------------
\* enum Skip, in its order: the code compares with <= and >=
NOTHING == 0
CONTINUE == 1
BREAK == 2
RETURN == 3
INTERRUPTED == 4
Skip == NOTHING .. INTERRUPTED

Kinds == {"method",   \* the code of a user method
          "code",     \* a code parameter, run in the frame it was written in
          "cycle",    \* the body of a cycle without a delimiter
          "dcycle",   \* the body of a cycle with one
          "delim",    \* the delimiter code, under TempSkip4Delimiter
          "param",    \* an expression that a native method evaluates
          "value",    \* the code of the value ^return assigns to $result
          "try", "catch", "finally"}   \* the three codes of ^try

\* mf: the method frame ^return means; saved: the skip a Temp_skip holds;
\* fin: this ^try has finally code; exc: what finally code must rethrow
Frame == [kind : Kinds, mf : 1 .. MaxDepth, saved : Skip,
          fin : BOOLEAN, exc : {"none", "error"}]

Pcs == {"run", "check", "leave", "read", "write", "again", "delim", "pop",
        "caught", "recatch", "after", "throw", "throw2", "unwind", "drop", "badparam",
        "block", "done", "killed"}

top == frames[Len(frames)]
below == SubSeq(frames, 1, Len(frames) - 1)
push(f) == Append(frames, f)
swap(f) == Append(below, f)
InCycle == \E i \in DOMAIN frames : frames[i].kind \in {"cycle", "dcycle", "delim"}

newFrame(k, mf, fin) == [kind |-> k, mf |-> mf, saved |-> NOTHING, fin |-> fin,
                         exc |-> "none"]

\* Request::core calls @main, @postprocess and @unhandled_exception this way
call == <<newFrame("method", 1, FALSE)>>

\* The first half of set_skip(a): its argument is known, nothing is read yet
set_skip(a, r) == pc' = "read" /\ arg' = a /\ ret' = r /\ reg' = FALSE
goto(p) == pc' = p /\ arg' = NOTHING /\ ret' = "run" /\ reg' = FALSE

\* Wrong forms of some definitions, for the mutation runs, each next to its own
\* (suffix _wrong).  Here: an interruption is put back like any other skip.
Temp_skip_dtor_wrong(next) ==
    IF fskip = NOTHING THEN set_skip(top.saved, next) ELSE goto(next)

\* ~Temp_skip: the pending skip is put back unless the code left one of its own
Temp_skip_dtor(next) ==
    IF fskip = NOTHING /\ top.saved # INTERRUPTED
    THEN set_skip(top.saved, next) ELSE goto(next)

Init ==
    /\ frames = call /\ phase = "main"
    /\ pc = "run" /\ arg = NOTHING /\ ret = "run" /\ reg = FALSE
    /\ result = FALSE /\ exc = "none"
    /\ fskip = NOTHING /\ finterrupted = FALSE /\ freturn = 1
    /\ armed = FALSE /\ expired = FALSE /\ arms = 0
    /\ raised = 0 /\ thrown = 0
    /\ leak = FALSE /\ retargeted = FALSE
-----------------------------------------------------------------------------
\* The signal handler of the response timer

handler ==
    /\ armed /\ pc \notin {"done", "killed"}
    /\ IF expired /\ KillProcess
       THEN /\ pc' = "killed"
            /\ UNCHANGED <<shared, armed, expired, raised>>
       ELSE /\ expired' = TRUE
            /\ armed' = KillProcess            \* the timer repeats in this mode only
            /\ finterrupted' = TRUE /\ fskip' = INTERRUPTED
            /\ raised' = raised + 1
            /\ pc' = IF pc = "block" THEN "check" ELSE pc
    /\ UNCHANGED <<frames, setter, result, exc, freturn, phase, arms, thrown>>
-----------------------------------------------------------------------------
\* Opcodes: what execute() may do with the next one

opcode ==
    /\ pc = "run" /\ goto("check")
    /\ UNCHANGED <<frames, result, exc, shared, freturn, phase, timer, thrown>>

endOfCode(depth) ==
    /\ pc = "run" /\ Len(frames) = depth /\ goto("leave")
    /\ UNCHANGED <<frames, result, exc, shared, freturn, phase, timer, thrown>>

\* No InCycle test
breakOrContinue_wrong(s) ==
    /\ pc = "run" /\ set_skip(s, "check")
    /\ UNCHANGED <<frames, result, exc, shared, freturn, phase, timer, thrown>>

\* ^break[] and ^continue[] outside a cycle are errors
breakOrContinue(s) ==
    /\ pc = "run"
    /\ IF InCycle
       THEN set_skip(s, "check") /\ UNCHANGED exc
       ELSE goto("unwind") /\ exc' = "error"
    /\ UNCHANGED <<frames, result, shared, freturn, phase, timer, thrown>>

return ==
    /\ pc = "run"
    /\ freturn' = top.mf
    /\ set_skip(RETURN, "check")
    /\ UNCHANGED <<frames, result, exc, shared, phase, timer, thrown>>

throwError ==
    /\ pc = "run" /\ goto("unwind") /\ exc' = "error"
    /\ UNCHANGED <<frames, result, shared, freturn, phase, timer, thrown>>

enter(k) ==
    /\ pc = "run" /\ Len(frames) < MaxDepth
    /\ \/ /\ k \in {"cycle", "dcycle", "param", "value"}
          /\ frames' = push(newFrame(k, top.mf, FALSE))
       \/ /\ k = "method" /\ frames' = push(newFrame(k, Len(frames) + 1, FALSE))
       \/ /\ k = "code"
          /\ \E i \in DOMAIN frames : frames' = push(newFrame(k, frames[i].mf, FALSE))
       \/ /\ k = "try"
          /\ \E fin \in BOOLEAN : frames' = push(newFrame(k, top.mf, fin))
    /\ UNCHANGED <<pc, setter, result, exc, shared, freturn, phase, timer, thrown>>

\* ^sleep and the socket calls: the signal ends the wait, a lost one does not
blockingCall ==
    /\ pc = "run" /\ goto("block")
    /\ UNCHANGED <<frames, result, exc, shared, freturn, phase, timer, thrown>>

blockingReturn ==
    /\ pc = "block" /\ goto("check")
    /\ UNCHANGED <<frames, result, exc, shared, freturn, phase, timer, thrown>>

\* $response:timeout(seconds), 0 cancels the timer but not what it has stored
set(on) ==
    /\ pc = "run" /\ arms < MaxArms
    /\ armed' = on /\ arms' = arms + 1
    /\ expired' = IF on THEN FALSE ELSE expired
    /\ goto("check")
    /\ UNCHANGED <<frames, result, exc, shared, freturn, phase, raised, thrown>>
-----------------------------------------------------------------------------
\* Request::set_skip and the checks

set_skip_read ==
    /\ pc = "read" /\ reg' = finterrupted /\ pc' = "write"
    /\ UNCHANGED <<frames, arg, ret, result, exc, shared, freturn, phase, timer, thrown>>

\* An interruption that came during the call is overwritten for good
set_skip_write_wrong ==
    /\ pc = "write" /\ fskip' = arg /\ goto(ret)
    /\ UNCHANGED <<frames, result, exc, finterrupted, freturn, phase, timer, thrown>>

set_skip_write ==
    /\ pc = "write" /\ fskip' = (IF reg THEN INTERRUPTED ELSE arg) /\ goto(ret)
    /\ UNCHANGED <<frames, result, exc, finterrupted, freturn, phase, timer, thrown>>

check_skip ==
    /\ pc = "check"
    /\ goto(CASE fskip = NOTHING -> "run"
              [] fskip = INTERRUPTED -> "throw"
              [] OTHER -> "leave")
    /\ UNCHANGED <<frames, result, exc, shared, freturn, phase, timer, thrown>>

throw_interrupted ==
    /\ \/ /\ pc = "throw" /\ finterrupted' = FALSE
          /\ set_skip(NOTHING, "throw2") /\ UNCHANGED <<exc, thrown>>
       \/ /\ pc = "throw2" /\ exc' = "interrupted" /\ thrown' = thrown + 1
          /\ goto("unwind") /\ UNCHANGED finterrupted
    /\ UNCHANGED <<frames, result, fskip, freturn, phase, timer>>
-----------------------------------------------------------------------------
\* The operators when the code they run has returned

leaveMethod ==
    /\ pc = "leave" /\ top.kind = "method"
    /\ IF fskip = RETURN /\ freturn = Len(frames)      \* check_skip_return
       THEN set_skip(NOTHING, "pop") ELSE goto("pop")
    /\ UNCHANGED <<frames, result, exc, shared, freturn, phase, timer, thrown>>

leaveCode ==
    /\ pc = "leave" /\ top.kind = "code" /\ goto("pop")
    /\ UNCHANGED <<frames, result, exc, shared, freturn, phase, timer, thrown>>

\* ^return goes on to its set_skip_return() whatever skip the value code left
leaveValue ==
    /\ pc = "leave" /\ top.kind = "value"
    /\ freturn' = top.mf /\ set_skip(RETURN, "pop")
    /\ UNCHANGED <<frames, result, exc, shared, phase, timer, thrown>>

check_skip_break ==
    /\ pc = "leave" /\ top.kind = "cycle"
    /\ result' = (fskip >= BREAK)
    /\ IF fskip <= BREAK THEN set_skip(NOTHING, "again") ELSE goto("again")
    /\ UNCHANGED <<frames, exc, shared, freturn, phase, timer, thrown>>

\* the next iteration, or the end of the cycle: broken or exhausted
cycleAgain ==
    /\ pc = "again"
    /\ \/ /\ ~result /\ goto("run")
          /\ frames' = swap([top EXCEPT !.kind = IF @ = "delim" THEN "dcycle" ELSE @])
       \/ goto("pop") /\ UNCHANGED frames
    /\ result' = FALSE
    /\ UNCHANGED <<exc, shared, freturn, phase, timer, thrown>>

\* TempSkip4Delimiter's constructor
leaveBody ==
    /\ pc = "leave" /\ top.kind = "dcycle"
    /\ frames' = swap([top EXCEPT !.kind = "delim", !.saved = fskip])
    /\ set_skip(NOTHING, "delim")
    /\ UNCHANGED <<result, exc, shared, freturn, phase, timer, thrown>>

\* the delimiter is written only between two non-empty iterations
delimiter ==
    /\ pc = "delim" /\ (goto("run") \/ goto("leave"))
    /\ UNCHANGED <<frames, result, exc, shared, freturn, phase, timer, thrown>>

check_break ==
    /\ pc = "leave" /\ top.kind = "delim"
    /\ LET s == IF fskip # NOTHING THEN fskip ELSE top.saved
       IN  /\ frames' = swap([top EXCEPT !.saved = NOTHING])
           /\ result' = (s >= BREAK)
           /\ set_skip(IF s <= BREAK THEN NOTHING ELSE s, "again")
    /\ UNCHANGED <<exc, shared, freturn, phase, timer, thrown>>

\* MethodParams::get_processed: a skip is an error in a native parameter
get_processed ==
    /\ pc = "leave" /\ top.kind = "param"
    /\ CASE fskip = NOTHING -> goto("pop")
         [] fskip = INTERRUPTED -> goto("throw")
         [] OTHER -> set_skip(NOTHING, "badparam")
    /\ UNCHANGED <<frames, result, exc, shared, freturn, phase, timer, thrown>>

skipInParam ==
    /\ pc = "badparam" /\ goto("unwind") /\ exc' = "error"
    /\ UNCHANGED <<frames, result, shared, freturn, phase, timer, thrown>>

\* Finally code runs without a Temp_skip (ChangeLog: bug #1062)
runFinally_wrong(e) ==
    frames' = swap([top EXCEPT !.kind = "finally", !.exc = e]) /\ goto("run")

\* Temp_skip's constructor before the finally code
runFinally(e) ==
    /\ frames' = swap([top EXCEPT !.kind = "finally", !.saved = fskip, !.exc = e])
    /\ set_skip(NOTHING, "run")

leaveTry ==
    /\ pc = "leave" /\ top.kind = "try"
    /\ IF top.fin THEN runFinally("none") ELSE goto("pop") /\ UNCHANGED frames
    /\ UNCHANGED <<result, exc, shared, freturn, phase, timer, thrown>>

leaveCatchOrFinally ==
    /\ pc = "leave" /\ top.kind \in {"catch", "finally"}
    /\ Temp_skip_dtor(IF top.kind = "catch" THEN "caught" ELSE "after")
    /\ UNCHANGED <<frames, result, exc, shared, freturn, phase, timer, thrown>>

\* $exception.handled decides; the original error goes on when it is not set
caught ==
    /\ pc = "caught"
    /\ \/ /\ IF top.fin THEN runFinally("none") ELSE goto("pop") /\ UNCHANGED frames
          /\ UNCHANGED exc
       \/ /\ IF top.fin THEN runFinally("error") /\ UNCHANGED exc
             ELSE goto("drop") /\ exc' = "error" /\ UNCHANGED frames
    /\ UNCHANGED <<result, shared, freturn, phase, timer, thrown>>

afterFinally ==
    /\ pc = "after"
    /\ IF top.exc = "error" THEN goto("drop") /\ exc' = "error"
       ELSE goto("pop") /\ UNCHANGED exc
    /\ UNCHANGED <<frames, result, shared, freturn, phase, timer, thrown>>

\* The last frame is popped as well
\* an operator returns to execute(), whose check follows; core has no check
pop ==
    /\ pc = "pop" /\ Len(frames) > 1
    /\ frames' = below /\ goto("check")
    /\ UNCHANGED <<result, exc, shared, freturn, phase, timer, thrown>>

\* Request::core: @postprocess after @main, output after either
coreReturn ==
    /\ pc = "pop" /\ Len(frames) = 1
    /\ \/ phase = "main" /\ phase' = "postprocess" /\ frames' = call /\ goto("run")
       \/ goto("done") /\ UNCHANGED <<phase, frames>>
    /\ UNCHANGED <<result, exc, shared, freturn, timer, thrown>>
-----------------------------------------------------------------------------
\* Exceptions: one action per frame unwound

\* operators that catch nothing, and ^try for an Uncatchable_exception
unwindFrame ==
    /\ \/ pc = "unwind" /\ top.kind \notin {"catch", "finally"}
          /\ (top.kind = "try" => exc = "interrupted")
       \/ pc = "drop"
    /\ Len(frames) > 1
    /\ frames' = below /\ goto("unwind")
    /\ UNCHANGED <<result, exc, shared, freturn, phase, timer, thrown>>

\* ^try catches an Interrupted like any exception
unwindToCatch_wrong ==
    /\ pc = "unwind" /\ top.kind = "try"
    /\ frames' = swap([top EXCEPT !.kind = "catch", !.saved = fskip])
    /\ exc' = "none" /\ set_skip(NOTHING, "run")
    /\ UNCHANGED <<result, shared, freturn, phase, timer, thrown>>

unwindToCatch ==
    /\ pc = "unwind" /\ top.kind = "try" /\ exc = "error"
    /\ frames' = swap([top EXCEPT !.kind = "catch", !.saved = fskip])
    /\ exc' = "none" /\ set_skip(NOTHING, "run")
    /\ UNCHANGED <<result, shared, freturn, phase, timer, thrown>>

\* ~Temp_skip of catch or finally code that throws; then the finally code, for
\* an error in the catch code
unwindTempSkip ==
    /\ \/ /\ pc = "unwind" /\ top.kind \in {"catch", "finally"}
          /\ Temp_skip_dtor(IF top.kind = "catch" /\ top.fin /\ exc = "error"
                            THEN "recatch" ELSE "drop")
          /\ UNCHANGED <<frames, exc>>
       \/ /\ pc = "recatch" /\ runFinally("error") /\ exc' = "none"
    /\ UNCHANGED <<result, shared, freturn, phase, timer, thrown>>

\* Request::core's catch: @unhandled_exception if there is one, once
coreCatch ==
    /\ pc = "unwind" /\ Len(frames) = 1
    /\ \/ phase # "handler" /\ phase' = "handler" /\ frames' = call /\ goto("run")
       \/ goto("done") /\ UNCHANGED <<phase, frames>>
    /\ exc' = "none"
    /\ UNCHANGED <<result, shared, freturn, timer, thrown>>

\* The request is over: its thread goes on to the next one, or the process ends
finished == pc \in {"done", "killed"} /\ UNCHANGED vars
-----------------------------------------------------------------------------
\* The two history variables, in every step
history ==
    /\ leak' = (leak \/ (exc' # "none" /\ fskip' \notin {NOTHING, INTERRUPTED}))
    /\ retargeted' = (retargeted \/ (/\ freturn' # freturn
                                     /\ \E i \in DOMAIN frames : frames[i].saved = RETURN))

\* What the interpreted program may choose to do
userCode ==
    /\ \/ opcode
       \/ \E s \in {BREAK, CONTINUE} : breakOrContinue(s)
       \/ return
       \/ throwError
       \/ \E k \in Kinds : enter(k)
       \/ blockingCall
       \/ \E on \in BOOLEAN : set(on)
    /\ history

codeEnds(depth) == endOfCode(depth) /\ history

\* What the interpreter does about it
interpreter ==
    /\ \/ blockingReturn
       \/ set_skip_read
       \/ set_skip_write
       \/ check_skip
       \/ throw_interrupted
       \/ leaveMethod
       \/ leaveCode
       \/ leaveValue
       \/ check_skip_break
       \/ cycleAgain
       \/ leaveBody
       \/ delimiter
       \/ check_break
       \/ get_processed
       \/ skipInParam
       \/ leaveTry
       \/ leaveCatchOrFinally
       \/ caught
       \/ afterFinally
       \/ pop
       \/ coreReturn
       \/ unwindFrame
       \/ unwindToCatch
       \/ unwindTempSkip
       \/ coreCatch
    /\ history

Next == \/ handler /\ history
        \/ userCode
        \/ \E d \in 1 .. MaxDepth : codeEnds(d)
        \/ interpreter
        \/ finished

Spec == Init /\ [][Next]_vars

\* The thread is scheduled, blocking calls time out, and every piece of code
\* ends however often the cycle around it repeats it.
FairSpec == /\ Spec
            /\ WF_vars(interpreter)
            /\ WF_vars(userCode \/ \E d \in 1 .. MaxDepth : codeEnds(d))
            /\ \A d \in 1 .. MaxDepth : SF_vars(codeEnds(d))
-----------------------------------------------------------------------------
TypeOK ==
    /\ frames \in Seq(Frame) /\ Len(frames) \in 1 .. MaxDepth
    /\ pc \in Pcs /\ arg \in Skip /\ ret \in Pcs /\ reg \in BOOLEAN
    /\ result \in BOOLEAN /\ exc \in {"none", "error", "interrupted"}
    /\ fskip \in Skip /\ finterrupted \in BOOLEAN /\ freturn \in 1 .. MaxDepth
    /\ phase \in {"main", "postprocess", "handler"}
    /\ armed \in BOOLEAN /\ expired \in BOOLEAN /\ arms \in 0 .. MaxArms
    /\ raised \in Nat /\ thrown \in Nat /\ leak \in BOOLEAN /\ retargeted \in BOOLEAN

\* An expired timer interrupts the request once: however the handler races
\* with the saving, restoring and clearing of fskip, no more Interrupted
\* exceptions are thrown than interrupt() calls were made.  (A second one would
\* end @unhandled_exception, which reports the first.)
ThrownOncePerInterrupt ==
    thrown + (IF pc = "throw2" \/ ret = "throw2" THEN 1 ELSE 0)
           + (IF finterrupted THEN 1 ELSE 0) <= raised

\* While a skip is pending no opcode runs: the code between a ^break and the
\* end of its cycle, or a ^return and the end of its method, is left without
\* side effects, finally code excepted.
Tidy == ~leak /\ ~retargeted
RunsClean == pc = "run" /\ Tidy => fskip \in {NOTHING, INTERRUPTED}

\* A skip ends where it was written to: ^break and ^continue inside their cycle
\* (none is pending where no cycle is left to take it), ^return at the method
\* that contains it, which is still on the stack.
TargetLive == fskip = RETURN => /\ freturn <= Len(frames)
                               /\ frames[freturn].kind = "method"
SkipHasTarget ==
    /\ fskip \in {CONTINUE, BREAK} /\ ~leak => InCycle
    /\ Tidy => TargetLive

\* What the code means to ensure in every case and does not: set_skip() of op.C
\* refuses ^break[] and ^continue[] "without cycle" ...
SkipNeverOutsideCycle == fskip \in {CONTINUE, BREAK} => InCycle

\* ... and finally code does not replace a ^return[] (test 378.17).
FinallyKeepsReturn == ~leak => TargetLive

\* The request stops on an interruption: it is thrown only when one was asked
\* for, and then neither catch nor finally code runs but @unhandled_exception.
Aborting == exc = "interrupted" \/ ret = "throw2" \/ pc = "throw2"
I == INSTANCE Interruption
         WITH pending <- finterrupted,
              stage <- IF pc \in {"done", "killed"} THEN "over"
                       ELSE IF Aborting THEN "aborting" ELSE "running",
              reported <- phase = "handler"
ImplementsInterruption == I!Spec

\* An interruption is noticed: even when set_skip() has overwritten it, the
\* request does not run on, in a cycle that never ends for instance.
InterruptNoticed == finterrupted ~> (~finterrupted \/ pc \in {"done", "killed"})

\* Whatever the request does after its time is over (the report included), the
\* process that serves it ends: the timer fires again after the grace period,
\* unless the program has set or cancelled it meanwhile.
\* Only the timer is fair, the request itself may hang.
TimerSpec == Spec /\ WF_vars(handler /\ history)
KilledAfterGrace ==
    \A n \in 0 .. MaxArms :
        KillProcess /\ armed /\ arms = n ~> (pc \in {"done", "killed"} \/ arms > n)
=============================================================================
