------------------------------ MODULE Serving -------------------------------
(***************************************************************************)
(* The web server and the places where its requests can wait, side by      *)
(* side: the accept loop, the interpreter with a response timer that       *)
(* interrupts (in a thread) or at last kills (in a process of its own),    *)
(* and programs that requests start.  Each is checked under its own        *)
(* fairness; they share no state here, so in a behaviour one goes on and   *)
(* the others do not start.                                                *)
(***************************************************************************)
EXTENDS HttpdServer

CONSTANTS MaxDepth, MaxArms,               \* the interpreter
          Thread, Script, Input, Capacity  \* programs

VARIABLES part, \* "httpd", "thread", "process", "exec" (of threads) or "forked" (exec of processes)
          frames, skip_pc, arg, ret, reg, result, exc, fskip, finterrupted, freturn, phase,
          armed, expired, arms, raised, thrown, leak, retargeted,
          exec_pc, left, got, fds, pipe, program, exec_timer, active

request == <<frames, skip_pc, arg, ret, reg, result, exc, fskip, finterrupted, freturn, phase,
             armed, expired, arms, raised, thrown, leak, retargeted>>
programs == <<exec_pc, left, got, fds, pipe, program, exec_timer, active>>

InThread == INSTANCE SkipFlow WITH pc <- skip_pc, KillProcess <- FALSE
InProcess == INSTANCE SkipFlow WITH pc <- skip_pc, KillProcess <- TRUE
Exec == INSTANCE Exec WITH pc <- exec_pc, timer <- exec_timer, Threaded <- TRUE
Forked == INSTANCE Exec WITH pc <- exec_pc, timer <- exec_timer, Threaded <- FALSE

ASSUME ExecConstants == Exec!ConstantsOK
-----------------------------------------------------------------------------
\* What does not start
NoHttpd == Init /\ mode = CHOOSE m \in Modes : TRUE
NoRequest ==
    /\ frames = 0 /\ skip_pc = 0 /\ arg = 0 /\ ret = 0 /\ reg = 0 /\ result = 0 /\ exc = 0
    /\ fskip = 0 /\ finterrupted = FALSE /\ freturn = 0 /\ phase = 0 /\ armed = FALSE
    /\ expired = 0 /\ arms = 0 /\ raised = 0 /\ thrown = 0 /\ leak = 0 /\ retargeted = 0
NoExec ==
    /\ exec_pc = 0 /\ left = 0 /\ got = 0 /\ fds = 0 /\ pipe = 0 /\ program = 0
    /\ exec_timer = 0 /\ active = 0

Execs == {"exec", "forked"}
ServingInit ==
    \/ part = "httpd" /\ Init /\ NoRequest /\ NoExec
    \/ part \in {"thread", "process"} /\ NoHttpd /\ InThread!Init /\ NoExec
    \/ part \in Execs /\ NoHttpd /\ NoRequest /\ Exec!Init

ServingNext ==
    \/ part = "httpd" /\ Next /\ UNCHANGED <<part, request, programs>>
    \/ part = "thread" /\ InThread!Next /\ UNCHANGED <<part, vars, programs>>
    \/ part = "process" /\ InProcess!Next /\ UNCHANGED <<part, vars, programs>>
    \/ part = "exec" /\ Exec!Next /\ UNCHANGED <<part, vars, request>>
    \/ part = "forked" /\ Forked!Next /\ UNCHANGED <<part, vars, request>>

\* The accept loop, threads and processes are scheduled and every request ends, see
\* HttpdServer.tla; the interpreter in a thread as in SkipFlow.tla.  In a process the
\* timer alone is fair, the request may hang.  For programs, the steps of the request,
\* of the program and of the timer.
ServingFairness ==
    /\ WF_vars(part = "httpd" /\ httpd_mode)
    /\ \A c \in Conn : /\ WF_vars(part = "httpd" /\ connection_thread(c))
                       /\ WF_vars(part = "httpd" /\ childExit(c))
    /\ WF_request(part = "thread" /\ InThread!interpreter)
    /\ WF_request(part = "thread" /\ (InThread!userCode \/ \E d \in 1 .. MaxDepth : InThread!codeEnds(d)))
    /\ \A d \in 1 .. MaxDepth : SF_request(part = "thread" /\ InThread!codeEnds(d))
    /\ WF_request(part = "process" /\ InProcess!handler /\ InProcess!history)
    /\ \A t \in Thread :
           /\ WF_programs(part \in Execs /\ Exec!parent_step(t))
           /\ WF_programs(part \in Execs /\ (Exec!does(t) \/ Exec!exits(t)))
           /\ WF_programs((part = "exec" /\ Exec!expires(t)) \/ (part = "forked" /\ Forked!expires(t)))
ServingSpec == ServingInit /\ [][ServingNext]_<<part, vars, request, programs>> /\ ServingFairness
-----------------------------------------------------------------------------
\* A program that was not interrupted is heard to the end, and no failure of starting a
\* program leaves ends of pipes open, see Exec.tla
ProgramsHeard == part \in Execs => Exec!OutputWhole /\ Exec!NothingLeft

\* An interruption is noticed: even when set_skip() has overwritten it, the request does
\* not run on, in a cycle that never ends for instance, see SkipFlow.tla
Over(p) == part = p => skip_pc \in {"done", "killed"}
InterruptNoticed == part = "thread" /\ finterrupted = TRUE ~> finterrupted = FALSE \/ Over("thread")

\* Two waits end whatever is waited for: a process that serves a request is gone after the
\* grace, even if its report hangs, unless the program has set the timer anew; the timeout
\* ends the wait for a program that it knows
Gone(t) ==
    part \in Execs => exec_pc[t] \in Exec!Over \/ (part = "exec" /\ \E u \in Thread : Exec!Missed(u))
WaitsEnd ==
    /\ \A n \in 0 .. MaxArms :
           part = "process" /\ armed = TRUE /\ arms = n ~> Over("process") \/ arms > n
    /\ \A t \in Thread : <>Gone(t)
=============================================================================
