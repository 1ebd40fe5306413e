---------------------------- MODULE HttpdServer ----------------------------
(***************************************************************************)
(* The built-in web server: httpd_mode() of the console target, its accept *)
(* loop in the three values of $HTTPD.mode, and the ownership of a         *)
(* connection.  An HTTPD_Connection owns a socket and a place in the       *)
(* counter HTTPD_Server::connections; its destructor gives both back.  The *)
(* accept loop hands the connection over by copying the object (threads)   *)
(* or the process (fork) and then making its own copy ownerless, one step  *)
(* after the other has started.                                            *)
(*                                                                         *)
(* Descriptors are numbers the kernel gives out again once they are        *)
(* closed: a socket closed twice, or used after it was closed, is another  *)
(* connection's socket.                                                    *)
(***************************************************************************)
EXTENDS Integers, FiniteSets

CONSTANTS Conn,       \* the connections clients make
          Fd,         \* the descriptors a process may have for them
          Max,        \* $HTTPD.max-connections, positive
          Modes,      \* the modes to consider
          MaxFaults,  \* bound: failed accept, thread creation and fork calls
          INVALID, None

ASSUME ConnAssumption == IsFiniteSet(Conn) /\ None \notin Conn
ASSUME MaxAssumption == Max \in Nat \ {0}
ASSUME ModesAssumption == Modes \subseteq {"sequental", "threaded", "parallel"}
ASSUME FaultsAssumption == MaxFaults \in Nat
ASSUME FdAssumption == INVALID \notin Fd

VARIABLES mode,        \* HTTPD_Server::mode
          backlog,     \* connections the kernel has for accept()
          fdtab,       \* the server process's descriptors
          connections, \* HTTPD_Server::connections
          pc, sock,    \* the accept loop and its local HTTPD_Connection
          thread, tsock,  \* connection_thread() and its own HTTPD_Connection
          child,       \* forked processes
          answer,      \* what the server has decided for each client
          faults,
          busy         \* history: requests not over when accept() returned

vars == <<mode, backlog, fdtab, connections, pc, sock, thread, tsock, child,
          answer, faults, busy>>

workers == <<thread, tsock, child>>
-----------------------------------------------------------------------------
cur == fdtab[sock]                  \* the connection the accept loop holds
Holding == pc \in {"reap", "reject", "start", "handle", "close"} /\ sock # INVALID

Threads == {c \in Conn : thread[c] \in {"run", "close", "untrack"}}
Children == {c \in Conn : child[c] \in {"run", "zombie"}}
Running  == {c \in Conn : thread[c] = "run" \/ child[c] = "run"}

close(fd) == fdtab' = [fdtab EXCEPT ![fd] = None]
track_connection(delta) == connections' = connections + delta
\* Wrong forms of some definitions, for the mutation runs, each next to its own
\* (suffix _wrong).  Here: the limit compared before and after the increment.
too_many_connections_wrong == connections > Max + 1
too_many_connections_wrong2 == connections >= Max
too_many_connections == connections > Max

Init ==
    /\ mode \in Modes
    /\ backlog = {} /\ fdtab = [fd \in Fd |-> None] /\ connections = 0
    /\ pc = "accept" /\ sock = INVALID
    /\ thread = [c \in Conn |-> "none"] /\ tsock = [c \in Conn |-> INVALID]
    /\ child = [c \in Conn |-> "none"]
    /\ answer = [c \in Conn |-> "none"]
    /\ faults = 0 /\ busy = 0

connect(c) ==
    /\ answer[c] = "none" /\ backlog' = backlog \cup {c}
    /\ answer' = [answer EXCEPT ![c] = "waiting"]
    /\ UNCHANGED <<mode, fdtab, connections, pc, sock, workers, faults, busy>>
-----------------------------------------------------------------------------
\* HTTPD_Connection::accept, with its 500 ms poll

accept(c, fd) ==
    /\ pc = "accept" /\ c \in backlog /\ fdtab[fd] = None
    /\ backlog' = backlog \ {c} /\ fdtab' = [fdtab EXCEPT ![fd] = c]
    /\ sock' = fd /\ track_connection(1)
    /\ pc' = "reap" /\ busy' = Cardinality(Threads \cup Running)
    /\ UNCHANGED <<mode, workers, answer, faults>>

acceptTimeout ==
    /\ pc = "accept" /\ backlog = {} /\ pc' = "reap"
    /\ UNCHANGED <<mode, backlog, fdtab, connections, sock, workers, answer, faults, busy>>

\* The client has gone, or there is no descriptor left: an exception, logged
acceptError(c) ==
    /\ pc = "accept" /\ faults < MaxFaults /\ faults' = faults + 1
    /\ c \in backlog /\ backlog' \in {backlog, backlog \ {c}}
    /\ answer' = IF c \in backlog' THEN answer ELSE [answer EXCEPT ![c] = "lost"]
    /\ UNCHANGED <<mode, fdtab, connections, pc, sock, workers, busy>>
-----------------------------------------------------------------------------
\* The rest of the loop's body

\* waitpid(WNOHANG), again and again while there is an exited child
reap(c) ==
    /\ pc = "reap" /\ mode = "parallel" /\ child[c] = "zombie"
    /\ child' = [child EXCEPT ![c] = "reaped"] /\ track_connection(-1)
    /\ UNCHANGED <<mode, backlog, fdtab, pc, sock, thread, tsock, answer, faults, busy>>

\* One waitpid() per connection
reaped_wrong == TRUE
reaped == mode = "parallel" => \A c \in Conn : child[c] # "zombie"

\* What the accept loop does when there is no more to reap
check ==
    /\ pc = "reap" /\ reaped
    /\ IF sock = INVALID THEN pc' = "accept" /\ UNCHANGED answer
       ELSE IF too_many_connections
       THEN pc' = "reject" /\ answer' = [answer EXCEPT ![cur] = "refused"]
       ELSE pc' = "start" /\ UNCHANGED answer
    /\ UNCHANGED <<mode, backlog, fdtab, connections, sock, workers, faults, busy>>

\* 503, whether the client takes it or not
reject_connection ==
    /\ pc = "reject" /\ pc' = "close"
    /\ UNCHANGED <<mode, backlog, fdtab, connections, sock, workers, answer, faults, busy>>

\* The thread gets a copy of the HTTPD_Connection, sock included
createThread ==
    /\ pc = "start" /\ mode = "threaded"
    /\ thread' = [thread EXCEPT ![cur] = "run"] /\ tsock' = [tsock EXCEPT ![cur] = sock]
    /\ answer' = [answer EXCEPT ![cur] = "served"] /\ pc' = "disown"
    /\ UNCHANGED <<mode, backlog, fdtab, connections, sock, child, faults, busy>>

\* The child gets a copy of everything; the socket stays open until both close it
fork ==
    /\ pc = "start" /\ mode = "parallel"
    /\ child' = [child EXCEPT ![cur] = "run"]
    /\ answer' = [answer EXCEPT ![cur] = "served"] /\ pc' = "disown"
    /\ UNCHANGED <<mode, backlog, fdtab, connections, sock, thread, tsock, faults, busy>>

\* The socket is given up before the thread or process exists
startError_wrong ==
    /\ pc = "start" /\ mode # "sequental"
    /\ faults < MaxFaults /\ faults' = faults + 1
    /\ answer' = [answer EXCEPT ![cur] = "lost"] /\ sock' = INVALID /\ pc' = "accept"
    /\ UNCHANGED <<mode, backlog, fdtab, connections, workers, busy>>

startError ==
    /\ pc = "start" /\ mode # "sequental"
    /\ faults < MaxFaults /\ faults' = faults + 1
    /\ answer' = [answer EXCEPT ![cur] = "lost"] /\ pc' = "close"
    /\ UNCHANGED <<mode, backlog, fdtab, connections, sock, workers, busy>>

\* The loop's own object still owns the socket
disown_wrong ==
    /\ pc = "disown" /\ pc' = "close"
    /\ UNCHANGED <<mode, backlog, fdtab, connections, sock, workers, answer, faults, busy>>

\* The parent keeps the socket it has handed over to the child
disown_wrong2 ==
    /\ pc = "disown" /\ sock' = INVALID /\ pc' = "accept"
    /\ UNCHANGED <<mode, backlog, fdtab, connections, workers, answer, faults, busy>>

\* After the start: connection.sock=INVALID_SOCKET, after a closesocket() in the
\* parent of a fork
disown ==
    /\ pc = "disown" /\ sock' = INVALID /\ pc' = "accept"
    /\ IF mode = "parallel" THEN close(sock) ELSE UNCHANGED fdtab
    /\ UNCHANGED <<mode, backlog, connections, workers, answer, faults, busy>>

startSequential ==
    /\ pc = "start" /\ mode = "sequental" /\ pc' = "handle"
    /\ answer' = [answer EXCEPT ![cur] = "served"]
    /\ UNCHANGED <<mode, backlog, fdtab, connections, sock, workers, faults, busy>>

\* connection_handler() returns or throws
connection_handler ==
    /\ pc = "handle" /\ pc' = "close"
    /\ UNCHANGED <<mode, backlog, fdtab, connections, sock, workers, answer, faults, busy>>

\* ~HTTPD_Connection of the loop's own object
destroy ==
    \/ /\ pc = "close" /\ close(sock) /\ pc' = "untrack"
       /\ UNCHANGED <<mode, backlog, connections, sock, workers, answer, faults, busy>>
    \/ /\ pc = "untrack" /\ track_connection(-1) /\ sock' = INVALID /\ pc' = "accept"
       /\ UNCHANGED <<mode, backlog, fdtab, workers, answer, faults, busy>>
-----------------------------------------------------------------------------
\* The thread of a connection: the handler, then delete(&connection)
connection_thread(c) ==
    /\ \/ /\ thread[c] = "run" /\ thread' = [thread EXCEPT ![c] = "close"]
          /\ UNCHANGED <<fdtab, connections>>
       \/ /\ thread[c] = "close" /\ thread' = [thread EXCEPT ![c] = "untrack"]
          /\ close(tsock[c]) /\ UNCHANGED connections
       \/ /\ thread[c] = "untrack" /\ thread' = [thread EXCEPT ![c] = "end"]
          /\ track_connection(-1) /\ UNCHANGED fdtab
    /\ UNCHANGED <<mode, backlog, pc, sock, tsock, child, answer, faults, busy>>

\* The child exits: it has served the request, or the response timeout killed it
childExit(c) ==
    /\ child[c] = "run" /\ child' = [child EXCEPT ![c] = "zombie"]
    /\ UNCHANGED <<mode, backlog, fdtab, connections, pc, sock, thread, tsock, answer,
                   faults, busy>>

httpd_mode ==
    \/ \E c \in Conn : \/ \E fd \in Fd : accept(c, fd)
                       \/ acceptError(c)
                       \/ reap(c)
    \/ acceptTimeout
    \/ check
    \/ reject_connection
    \/ createThread
    \/ fork
    \/ startError
    \/ disown
    \/ startSequential
    \/ connection_handler
    \/ destroy

Next == \/ httpd_mode
        \/ \E c \in Conn : connect(c) \/ connection_thread(c) \/ childExit(c)

Spec == Init /\ [][Next]_vars

\* Threads and processes are scheduled and every request ends, by itself or by
\* its timeouts.
FairSpec == /\ Spec /\ WF_vars(httpd_mode)
            /\ \A c \in Conn : WF_vars(connection_thread(c)) /\ WF_vars(childExit(c))
-----------------------------------------------------------------------------
TypeOK ==
    /\ mode \in Modes /\ backlog \subseteq Conn /\ fdtab \in [Fd -> Conn \cup {None}]
    /\ connections \in Nat
    /\ pc \in {"accept", "reap", "reject", "start", "disown", "handle", "close", "untrack"}
    /\ sock \in Fd \cup {INVALID}
    /\ thread \in [Conn -> {"none", "run", "close", "untrack", "end"}]
    /\ tsock \in [Conn -> Fd \cup {INVALID}]
    /\ child \in [Conn -> {"none", "run", "zombie", "reaped"}]
    /\ answer \in [Conn -> {"none", "waiting", "served", "refused", "lost"}]
    /\ faults \in 0 .. MaxFaults /\ busy \in Nat

\* The counter is what its comment says, "accepted and not finished yet": one
\* for each thread that has not given its place back, one for each child that
\* is not reaped, one for the connection the loop itself has to give back.
CounterExact ==
    connections = Cardinality(Threads) + Cardinality(Children)
                  + (IF sock # INVALID /\ pc # "disown" THEN 1 ELSE 0)

\* No more requests than $HTTPD.max-connections run at a time.
LimitHeld == Cardinality(Running) <= Max

\* A client gets 503 only if the limit was reached when it was accepted: the
\* children that had exited by then do not count against it.
RefusedOnlyWhenBusy == pc = "reject" => busy >= Max

\* A thread works on the socket of its own connection, and the loop on one that
\* is no thread's: the accept loop and a finished thread never close a
\* descriptor that already is another connection's.
OwnSocket ==
    /\ \A c \in Conn : thread[c] \in {"run", "close"} => fdtab[tsock[c]] = c
    /\ Holding => cur # None /\ thread[cur] = "none"

\* The server implements ConnectionLimit, in each mode.
Limit == INSTANCE ConnectionLimit
             WITH serving <- Threads \cup Children \cup (IF pc = "handle" THEN {cur} ELSE {}),
                  refused <- {c \in Conn : answer[c] = "refused"}
ImplementsLimit == Limit!Spec

\* Every client the server has accepted is answered, or its connection is closed
\* after an error; and when the clients are gone, so are their sockets (none is
\* left in the process that forked), processes and places.
Drained == /\ \A c \in Conn : answer[c] # "waiting"
           /\ connections = 0 /\ \A fd \in Fd : fdtab[fd] = None
           /\ Threads \cup Children = {}
Drains == <>[]Drained
=============================================================================
