-------------------------------- MODULE Exec --------------------------------
(***************************************************************************)
(* ^file::exec and ^file::cgi: a request starts a program with three       *)
(* pipes, writes its input, reads what it prints, then its errors, and     *)
(* waits for its end.  In the threaded server a program inherits whatever  *)
(* ends of pipes other requests have open when it is forked, so it can     *)
(* keep the program of another request from the end of its input.          *)
(*                                                                         *)
(* The signal of $response:timeout comes at any moment: it kills the       *)
(* program whose number the request has stored, and ends a call that       *)
(* blocks.                                                                 *)
(***************************************************************************)
EXTENDS Naturals, Sequences, FiniteSets

CONSTANTS Thread,   \* requests
          Threaded, \* in one process; otherwise each has a process of its own
          Script,   \* programs: sequences of "read" (to the end), "out", "err", "stay" (for ever)
          Input,    \* how much is written to a program
          Capacity  \* of a pipe

ConstantsOK ==
    /\ Threaded \in BOOLEAN /\ Input \in Nat /\ Capacity \in Nat \ {0}
    /\ "parent" \notin Thread /\ Script \subseteq Seq({"read", "out", "err", "stay"})

VARIABLES pc,      \* where each request is
          left,    \* what it has still to write
          got,     \* what it has read: out, err
          fds,     \* who has the ends of its pipes: "parent", and programs
          pipe,    \* what is in its pipes: in, out, err
          program, \* its program: what it does next, alive, reaped
          timer,   \* of $response:timeout: "set", "again" (grace), "over"
          active   \* pa_exec_active_pid is set

vars == <<pc, left, got, fds, pipe, program, timer, active>>
-----------------------------------------------------------------------------
Ends == {"in read", "in write", "out write", "err write"}
Over == {"done", "failed", "killed"}
NoEnds == [e \in Ends |-> {}]

Init ==
    /\ pc = [t \in Thread |-> "start"] /\ left = [t \in Thread |-> Input]
    /\ got = [t \in Thread |-> [out |-> 0, err |-> 0]]
    /\ fds = [t \in Thread |-> NoEnds]
    /\ pipe = [t \in Thread |-> [in |-> 0, out |-> 0, err |-> 0]]
    /\ program \in [Thread -> {[next |-> s, all |-> s, alive |-> FALSE, reaped |-> FALSE] : s \in Script}]
    /\ timer = [t \in Thread |-> "set"] /\ active = [t \in Thread |-> FALSE]

Goes(t, to) == pc' = [pc EXCEPT ![t] = to]

\* Process p has no ends any more, of these
Closed(p, t, ends) == [fds EXCEPT ![t] = [e \in Ends |-> IF e \in ends THEN @[e] \ {p} ELSE @[e]]]
Exited(all, t) == [u \in Thread |-> [e \in Ends |-> all[u][e] \ {t}]]
-----------------------------------------------------------------------------
\* execve_piped(): three times pipe(), each of which may fail
open_pipes(t) ==
    /\ pc[t] = "start" /\ Goes(t, "fork")
    /\ fds' = [fds EXCEPT ![t] = [e \in Ends |-> {"parent"}]]
    /\ UNCHANGED <<left, got, pipe, program, timer, active>>

\* Mutant: the pipe for the input stays open when the next one is not to be had
left_open_wrong(made) == made

\* What is left of the pipes that have been made when the next one fails: they are closed
left_open(made) == {}

pipe_fails(t) ==
    /\ pc[t] = "start" /\ Goes(t, "failed")
    /\ \E made \in {{}, {"in read", "in write"}, {"in read", "in write", "out write"}} :
           fds' = [fds EXCEPT ![t] = [e \in Ends |-> IF e \in left_open(made) THEN {"parent"} ELSE {}]]
    /\ UNCHANGED <<left, got, pipe, program, timer, active>>

\* The program has its own three ends, and those of other requests that are open
fork(t) ==
    /\ pc[t] = "fork" /\ Goes(t, "forked")
    /\ fds' = [u \in Thread |->
                  IF u = t THEN [fds[t] EXCEPT !["in read"] = @ \cup {t}, !["out write"] = @ \cup {t}, !["err write"] = @ \cup {t}]
                  ELSE IF Threaded THEN [e \in Ends |-> IF "parent" \in fds[u][e] THEN fds[u][e] \cup {t} ELSE fds[u][e]]
                  ELSE fds[u]]
    /\ program' = [program EXCEPT ![t].alive = TRUE]
    /\ UNCHANGED <<left, got, pipe, timer, active>>

fork_fails(t) ==
    /\ pc[t] = "fork" /\ Goes(t, "failed") /\ fds' = Closed("parent", t, Ends)
    /\ UNCHANGED <<left, got, pipe, program, timer, active>>

\* The parent closes the ends of the program, then the number is stored: Temp_exec_pid
parent(t) ==
    /\ pc[t] = "forked" /\ Goes(t, "write")
    /\ fds' = Closed("parent", t, {"in read", "out write", "err write"})
    /\ active' = [active EXCEPT ![t] = TRUE]
    /\ UNCHANGED <<left, got, pipe, program, timer>>

\* write() blocks while the pipe is full, and fails when nobody can read it
write(t) ==
    /\ pc[t] = "write" /\ left[t] > 0 /\ fds[t]["in read"] # {} /\ pipe[t].in < Capacity
    /\ left' = [left EXCEPT ![t] = @ - 1] /\ pipe' = [pipe EXCEPT ![t].in = @ + 1]
    /\ UNCHANGED <<pc, got, fds, program, timer, active>>

written(t) ==
    /\ pc[t] = "write" /\ (left[t] = 0 \/ fds[t]["in read"] = {})
    /\ Goes(t, "out") /\ fds' = Closed("parent", t, {"in write"})
    /\ UNCHANGED <<left, got, pipe, program, timer, active>>

\* Mutant: the first piece is taken for all
ended_wrong(t, end) == pipe[t].out = 0 \/ fds[t][end] = {}

\* read() gives nothing when nobody can write to the pipe any more
ended(t, end) == fds[t][end] = {}

\* read_pipe(): of what is printed, then of the errors
read_out(t) ==
    /\ pc[t] = "out"
    /\ \/ /\ pipe[t].out > 0
          /\ got' = [got EXCEPT ![t].out = @ + 1] /\ pipe' = [pipe EXCEPT ![t].out = @ - 1] /\ UNCHANGED pc
       \/ pipe[t].out = 0 /\ ended(t, "out write") /\ Goes(t, "err") /\ UNCHANGED <<got, pipe>>
    /\ UNCHANGED <<left, fds, program, timer, active>>

read_err(t) ==
    /\ pc[t] = "err"
    /\ \/ /\ pipe[t].err > 0
          /\ got' = [got EXCEPT ![t].err = @ + 1] /\ pipe' = [pipe EXCEPT ![t].err = @ - 1] /\ UNCHANGED pc
       \/ pipe[t].err = 0 /\ ended(t, "err write") /\ Goes(t, "wait") /\ UNCHANGED <<got, pipe>>
    /\ UNCHANGED <<left, fds, program, timer, active>>

\* get_exit_status(): a signal does not end it
get_exit_status(t) ==
    /\ pc[t] = "wait" /\ ~program[t].alive /\ Goes(t, "done")
    /\ program' = [program EXCEPT ![t].reaped = TRUE]
    /\ active' = [active EXCEPT ![t] = FALSE]
    /\ UNCHANGED <<left, got, fds, pipe, timer>>
-----------------------------------------------------------------------------
\* The program does what it is to do, and exits
does(t) ==
    /\ program[t].alive /\ program[t].next # <<>> /\ UNCHANGED <<pc, left, got, fds, timer, active>>
    /\ LET step == Head(program[t].next)
           rest == [program EXCEPT ![t].next = Tail(@)]
       IN  \/ step = "out" /\ pipe[t].out < Capacity /\ pipe' = [pipe EXCEPT ![t].out = @ + 1] /\ program' = rest
           \/ step = "err" /\ pipe[t].err < Capacity /\ pipe' = [pipe EXCEPT ![t].err = @ + 1] /\ program' = rest
           \/ step = "read" /\ pipe[t].in > 0 /\ pipe' = [pipe EXCEPT ![t].in = @ - 1] /\ UNCHANGED program
           \/ step = "read" /\ pipe[t].in = 0 /\ fds[t]["in write"] = {} /\ program' = rest /\ UNCHANGED pipe

exits(t) ==
    /\ program[t].alive /\ program[t].next = <<>>
    /\ program' = [program EXCEPT ![t].alive = FALSE] /\ fds' = Exited(fds, t)
    /\ UNCHANGED <<pc, left, got, pipe, timer, active>>

\* The call that a signal ends when it blocks, or when it comes in time
Interrupted(t) == CASE pc[t] = "write" -> "out" [] pc[t] = "out" -> "err" [] pc[t] = "err" -> "wait" [] OTHER -> pc[t]

\* Mutant: the number is known only while the input is written
kills_wrong(t) == active[t] /\ pc[t] = "write"

\* Response_timeout::handler: pa_exec_active_pid, if it is set, is killed
kills(t) == active[t]

\* The handler: a program that is known is killed; in a process of its own the
\* request is given a grace, then it is killed as well
expires(t) ==
    /\ timer[t] # "over" /\ pc[t] \notin Over
    /\ LET dies == kills(t) /\ program[t].alive
           dead == IF dies THEN Exited(fds, t) ELSE fds
       IN  /\ program' = [program EXCEPT ![t].alive = @ /\ ~dies]
           /\ timer' = [timer EXCEPT ![t] = IF Threaded \/ @ = "again" THEN "over" ELSE "again"]
           /\ IF timer[t] = "again" THEN Goes(t, "killed") /\ fds' = [dead EXCEPT ![t] = [e \in Ends |-> @[e] \ {"parent"}]]
              ELSE \/ UNCHANGED pc /\ fds' = dead
                   \/ /\ pc[t] \in {"write", "out", "err"} /\ Goes(t, Interrupted(t))
                      /\ fds' = IF pc[t] = "write" THEN [dead EXCEPT ![t]["in write"] = @ \ {"parent"}] ELSE dead
    /\ UNCHANGED <<left, got, pipe, active>>

parent_step(t) == open_pipes(t) \/ fork(t) \/ parent(t) \/ write(t) \/ written(t) \/ read_out(t) \/ read_err(t)
                  \/ get_exit_status(t)
Next == \E t \in Thread : parent_step(t) \/ pipe_fails(t) \/ fork_fails(t) \/ does(t) \/ exits(t) \/ expires(t)

Fairness == \A t \in Thread : WF_vars(parent_step(t)) /\ WF_vars(does(t) \/ exits(t)) /\ WF_vars(expires(t))
Spec == Init /\ [][Next]_vars
FairSpec == Spec /\ Fairness
-----------------------------------------------------------------------------
\* How much of this the program prints
Prints(t, what) == Cardinality({i \in DOMAIN program[t].all : program[t].all[i] = what})

\* A request that no timeout has touched has all that its program has printed, its
\* exit status, and a program that is gone
OutputWhole ==
    \A t \in Thread : pc[t] = "done" /\ timer[t] = "set" =>
        got[t] = [out |-> Prints(t, "out"), err |-> Prints(t, "err")] /\ program[t].reaped

\* No way out of pa_exec(), of which three fail, leaves the server with an end for
\* writing or reading the program's input, or a program's number to be killed later
NothingLeft ==
    \A t \in Thread : pc[t] \in {"done", "failed"} => ~active[t] /\ \A e \in Ends : "parent" \notin fds[t][e]

\* The signal has come before the number of the program was stored, and comes no more
Missed(t) == timer[t] = "over" /\ ~active[t] /\ pc[t] \notin Over

\* Whatever the program does - prints more than a pipe takes while it is written to, stays
\* for ever, holds the pipes of others - the timeout ends the request's wait for it, if its
\* signal finds the program
ExecEnds == \A t \in Thread : <>(pc[t] \in Over \/ \E u \in Thread : Missed(u))

\* No program outlives the timeout of its request
KilledOnTimeout == \A t \in Thread : timer[t] = "over" ~> ~program[t].alive
=============================================================================
