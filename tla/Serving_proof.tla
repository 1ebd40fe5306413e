--------------------------- MODULE Serving_proof ---------------------------
(***************************************************************************)
(* The web server and the programs its requests start, for any number of   *)
(* connections, descriptors, requests and programs and any limit.          *)
(*                                                                         *)
(* The accept loop: the counter is exact, the limit is held, no socket is  *)
(* closed by one that does not own it, a client is refused only when the   *)
(* limit is reached, and the server implements ConnectionLimit.            *)
(*                                                                         *)
(* The argument: a connection is in one place at a time (the backlog, the  *)
(* accept loop, a thread, a child), which Places says; the owner's         *)
(* descriptor is then its own, and each place given or taken changes the   *)
(* size of one set and the counter alike.  What busy counts can only       *)
(* shrink until the loop compares the counter with the limit, because new  *)
(* requests come through the loop alone (Counted).                         *)
(*                                                                         *)
(* Programs, in the second half: what a program prints is heard, and       *)
(* nothing of it stays open.                                               *)
(***************************************************************************)
EXTENDS Serving, FiniteSetTheorems, SequenceTheorems, TLAPS

\* The types, the counter's apart: that it is no less than 0 follows from Counter
Types ==
    /\ mode \in Modes /\ backlog \subseteq Conn /\ fdtab \in [Fd -> Conn \cup {None}]
    /\ connections \in Int
    /\ pc \in {"accept", "reap", "reject", "start", "disown", "handle", "close", "untrack"}
    /\ sock \in Fd \cup {INVALID}
    /\ thread \in [Conn -> {"none", "run", "close", "untrack", "end"}]
    /\ tsock \in [Conn -> Fd \cup {INVALID}]
    /\ child \in [Conn -> {"none", "run", "zombie", "reaped"}]
    /\ answer \in [Conn -> {"none", "waiting", "served", "refused", "lost"}]
    /\ faults \in 0 .. MaxFaults /\ busy \in Nat

Places ==
    /\ pc = "accept" => sock = INVALID
    /\ pc \notin {"accept", "reap"} => sock # INVALID
    /\ \A c \in backlog : answer[c] # "none"
    /\ \A c \in Conn : c \in backlog \/ answer[c] = "none" =>
                           thread[c] = "none" /\ child[c] = "none"
    /\ Holding => /\ cur \in Conn /\ cur \notin backlog /\ answer[cur] # "none"
                  /\ thread[cur] = "none" /\ child[cur] = "none"
    /\ \A c \in Conn : thread[c] \in {"run", "close"} =>
                           tsock[c] \in Fd /\ fdtab[tsock[c]] = c
    /\ mode # "threaded" => \A c \in Conn : thread[c] = "none"
    /\ mode # "parallel" => \A c \in Conn : child[c] = "none"

\* The place the accept loop has to give back, if any
Own == IF sock # INVALID /\ pc # "disown" THEN 1 ELSE 0

Counter ==
    /\ connections = Cardinality(Threads) + Cardinality(Children) + Own
    /\ Cardinality(Threads) + Cardinality(Children) <= Max
    /\ pc = "start" => connections <= Max

IInv == Types /\ Places /\ Counter
-----------------------------------------------------------------------------
\* A set of connections has a size.
LEMMA SizeNat ==
    ASSUME NEW S, S \subseteq Conn PROVE IsFiniteSet(S) /\ Cardinality(S) \in Nat
  BY ConnAssumption, FS_Subset, FS_CardinalityType

LEMMA BusyNat == Cardinality(Threads \cup Running) \in Nat
<1>1. Threads \cup Running \subseteq Conn
  BY DEF Threads, Running
<1>. QED
  BY <1>1, SizeNat

\* Every step keeps the types.
LEMMA TypesStep == Types /\ Places /\ [Next]_vars => Types'
<1>. SUFFICES ASSUME Types, Places, [Next]_vars PROVE Types'
  OBVIOUS
<1>. USE DEF Types, workers
<1>1. ASSUME NEW c \in Conn, NEW fd \in Fd, accept(c, fd) PROVE Types'
  BY <1>1, BusyNat, ConnAssumption DEF accept, track_connection
<1>2. ASSUME NEW c \in Conn, acceptError(c) PROVE Types'
  BY <1>2, FaultsAssumption DEF acceptError
<1>3. ASSUME NEW c \in Conn, reap(c) PROVE Types'
  BY <1>3 DEF reap, track_connection
<1>4. ASSUME NEW c \in Conn, connect(c) PROVE Types'
  BY <1>4 DEF connect
<1>5. ASSUME NEW c \in Conn, connection_thread(c) PROVE Types'
  BY <1>5 DEF connection_thread, track_connection, close
<1>6. ASSUME NEW c \in Conn, childExit(c) PROVE Types'
  BY <1>6 DEF childExit
<1>7. CASE acceptTimeout
  BY <1>7 DEF acceptTimeout
<1>8. CASE check
  BY <1>8 DEF check, cur, Holding, Places
<1>9. CASE reject_connection
  BY <1>9 DEF reject_connection
<1>10. CASE createThread
  BY <1>10 DEF createThread, cur, Holding, Places
<1>11. CASE fork
  BY <1>11 DEF fork, cur, Holding, Places
<1>12. CASE startError
  BY <1>12, FaultsAssumption DEF startError, cur, Holding, Places
<1>13. CASE disown
  BY <1>13 DEF disown, close
<1>14. CASE startSequential
  BY <1>14 DEF startSequential, cur, Holding, Places
<1>15. CASE connection_handler
  BY <1>15 DEF connection_handler
<1>16. CASE destroy
  BY <1>16 DEF destroy, track_connection, close
<1>17. CASE UNCHANGED vars
  BY <1>17 DEF vars
<1>. QED
  BY <1>1, <1>2, <1>3, <1>4, <1>5, <1>6, <1>7, <1>8, <1>9, <1>10, <1>11, <1>12, <1>13, <1>14, <1>15, <1>16, <1>17 DEF Next, httpd_mode

\* Every step keeps each connection in one place.
LEMMA PlacesStep == Types /\ Places /\ [Next]_vars => Places'
<1>. SUFFICES ASSUME Types, Places, [Next]_vars PROVE Places'
  OBVIOUS
<1>. USE ConnAssumption, FdAssumption DEF Types, Places, workers, cur, Holding
<1>1. ASSUME NEW c \in Conn, NEW fd \in Fd, accept(c, fd) PROVE Places'
  BY <1>1 DEF accept
<1>2. ASSUME NEW c \in Conn, acceptError(c) PROVE Places'
  BY <1>2 DEF acceptError
<1>3. ASSUME NEW c \in Conn, reap(c) PROVE Places'
  BY <1>3 DEF reap
<1>4. ASSUME NEW c \in Conn, connect(c) PROVE Places'
  BY <1>4 DEF connect
<1>5. ASSUME NEW c \in Conn, connection_thread(c) PROVE Places'
  BY <1>5 DEF connection_thread, close
<1>6. ASSUME NEW c \in Conn, childExit(c) PROVE Places'
  BY <1>6 DEF childExit
<1>7. CASE acceptTimeout
  BY <1>7 DEF acceptTimeout
<1>8. CASE check
  BY <1>8 DEF check
<1>9. CASE reject_connection
  BY <1>9 DEF reject_connection
<1>10. CASE createThread
  BY <1>10 DEF createThread
<1>11. CASE fork
  BY <1>11 DEF fork
<1>12. CASE startError
  BY <1>12 DEF startError
<1>13. CASE disown
  BY <1>13 DEF disown, close
<1>14. CASE startSequential
  BY <1>14 DEF startSequential
<1>15. CASE connection_handler
  BY <1>15 DEF connection_handler
<1>16. CASE destroy
  BY <1>16 DEF destroy, close
<1>17. CASE UNCHANGED vars
  BY <1>17 DEF vars
<1>. QED
  BY <1>1, <1>2, <1>3, <1>4, <1>5, <1>6, <1>7, <1>8, <1>9, <1>10, <1>11, <1>12, <1>13, <1>14, <1>15, <1>16, <1>17 DEF Next, httpd_mode

\* The two sets of workers change by at most the connection that moves.
Same == Threads' = Threads /\ Children' = Children

\* What the counter says of sets that keep, gain or lose one member.
LEMMA CounterSame ==
    ASSUME Types, Counter, Same,
           \/ connections' = connections /\ Own' = Own
           \/ connections' = connections + 1 /\ Own = 0 /\ Own' = 1
           \/ connections' = connections - 1 /\ Own = 1 /\ Own' = 0,
           pc' = "start" => connections' <= Max
    PROVE  Counter'
<1>. DEFINE m == Cardinality(Threads)
            n == Cardinality(Children)
<1>1. m \in Nat /\ n \in Nat
  BY SizeNat DEF Threads, Children
<1>2. m' = m /\ n' = n
  BY DEF Same
<1>3. connections = m + n + Own /\ m + n <= Max /\ connections \in Int /\ Own \in {0, 1}
  BY DEF Counter, Types, Own
<1>. HIDE DEF m, n
<1>4. connections' = m + n + Own'
  BY <1>1, <1>3
<1>. QED
  BY <1>2, <1>3, <1>4 DEF Counter, m, n

LEMMA CounterGain ==
    ASSUME Types, Counter, connections' = connections, connections <= Max, Own = 1, Own' = 0,
           NEW c \in Conn, pc' # "start",
           \/ Threads' = Threads \cup {c} /\ c \notin Threads /\ Children' = Children
           \/ Children' = Children \cup {c} /\ c \notin Children /\ Threads' = Threads
    PROVE  Counter'
<1>. DEFINE m == Cardinality(Threads)
            n == Cardinality(Children)
<1>1. IsFiniteSet(Threads) /\ IsFiniteSet(Children) /\ m \in Nat /\ n \in Nat
  BY SizeNat DEF Threads, Children
<1>2. \/ m' = m + 1 /\ n' = n
      \/ m' = m /\ n' = n + 1
  BY <1>1, FS_AddElement
<1>3. connections = m + n + Own /\ connections \in Int
  BY DEF Counter, Types
<1>. HIDE DEF m, n
<1>4. m' + n' = m + n + 1
  BY <1>1, <1>2
<1>5. connections' = m' + n' + Own' /\ m' + n' <= Max
  BY <1>1, <1>3, <1>4, MaxAssumption
<1>. QED
  BY <1>5 DEF Counter, m, n

LEMMA CounterLoss ==
    ASSUME Types, Counter, connections' = connections - 1, Own' = Own,
           NEW c \in Conn, pc' = pc,
           \/ Threads' = Threads \ {c} /\ c \in Threads /\ Children' = Children
           \/ Children' = Children \ {c} /\ c \in Children /\ Threads' = Threads
    PROVE  Counter'
<1>. DEFINE m == Cardinality(Threads)
            n == Cardinality(Children)
<1>1. IsFiniteSet(Threads) /\ IsFiniteSet(Children) /\ m \in Nat /\ n \in Nat
  BY SizeNat DEF Threads, Children
<1>2. \/ m' = m - 1 /\ n' = n
      \/ m' = m /\ n' = n - 1
  BY <1>1, FS_RemoveElement
<1>3. connections = m + n + Own /\ m + n <= Max /\ connections \in Int /\ Own \in {0, 1}
      /\ (pc = "start" => connections <= Max)
  BY DEF Counter, Types, Own
<1>. HIDE DEF m, n
<1>4. m' + n' = m + n - 1
  BY <1>1, <1>2
<1>5. connections' = m' + n' + Own' /\ m' + n' <= Max /\ (pc' = "start" => connections' <= Max)
  BY <1>1, <1>3, <1>4, MaxAssumption
<1>. QED
  BY <1>5 DEF Counter, m, n

\* Every step keeps the counter exact and the limit.
LEMMA CounterStep == IInv /\ [Next]_vars => Counter'
<1>. SUFFICES ASSUME Types, Places, Counter, [Next]_vars PROVE Counter'
  BY DEF IInv
<1>. USE DEF workers
<1>0. ASSUME UNCHANGED <<connections, pc, sock>>, Same PROVE Counter'
  BY <1>0, CounterSame DEF Own, Counter
<1>1. ASSUME NEW c \in Conn, NEW fd \in Fd, accept(c, fd) PROVE Counter'
  <2>1. Same
    BY <1>1 DEF accept, Same, Threads, Children
  <2>2. connections' = connections + 1 /\ Own = 0 /\ Own' = 1 /\ pc' # "start"
    BY <1>1, FdAssumption DEF accept, track_connection, Own, Places
  <2>. QED
    BY <2>1, <2>2, CounterSame
<1>2. ASSUME NEW c \in Conn, acceptError(c) PROVE Counter'
  BY <1>0, <1>2 DEF acceptError, Same, Threads, Children
<1>3. ASSUME NEW c \in Conn, reap(c) PROVE Counter'
  <2>1. Threads' = Threads /\ Children' = Children \ {c} /\ c \in Children
    BY <1>3 DEF reap, Threads, Children, Types
  <2>2. connections' = connections - 1 /\ Own' = Own /\ pc' = pc
    BY <1>3 DEF reap, track_connection, Own, Types
  <2>. QED
    BY <2>1, <2>2, CounterLoss
<1>4. ASSUME NEW c \in Conn, connect(c) PROVE Counter'
  BY <1>0, <1>4 DEF connect, Same, Threads, Children
<1>5. ASSUME NEW c \in Conn, connection_thread(c) PROVE Counter'
  <2>1. CASE thread[c] = "untrack"
    <3>1. Threads' = Threads \ {c} /\ c \in Threads /\ Children' = Children
      BY <1>5, <2>1 DEF connection_thread, Threads, Children, Types
    <3>2. connections' = connections - 1 /\ Own' = Own /\ pc' = pc
      BY <1>5, <2>1 DEF connection_thread, track_connection, Own, Types
    <3>. QED
      BY <3>1, <3>2, CounterLoss
  <2>2. CASE thread[c] # "untrack"
    <3>1. Same
      BY <1>5, <2>2 DEF connection_thread, Same, Threads, Children, Types
    <3>. QED
      BY <1>0, <1>5, <2>2, <3>1 DEF connection_thread
  <2>. QED
    BY <2>1, <2>2
<1>6. ASSUME NEW c \in Conn, childExit(c) PROVE Counter'
  <2>1. Same
    BY <1>6 DEF childExit, Same, Threads, Children, Types
  <2>. QED
    BY <1>0, <1>6, <2>1 DEF childExit
<1>7. CASE acceptTimeout
  <2>1. Same
    BY <1>7 DEF acceptTimeout, Same, Threads, Children
  <2>2. /\ connections' = connections /\ Own' = Own
        /\ pc' # "start"
    BY <1>7 DEF acceptTimeout, Own
  <2>. QED
    BY <2>1, <2>2, CounterSame
<1>8. CASE check
  <2>1. Same
    BY <1>8 DEF check, Same, Threads, Children
  <2>2. connections' = connections /\ Own' = Own
    BY <1>8 DEF check, Own
  <2>3. pc' = "start" => connections' <= Max
    BY <1>8, MaxAssumption DEF check, too_many_connections, Types
  <2>. QED
    BY <2>1, <2>2, <2>3, CounterSame
<1>9. CASE reject_connection
  <2>1. Same
    BY <1>9 DEF reject_connection, Same, Threads, Children
  <2>2. /\ connections' = connections /\ Own' = Own
        /\ pc' # "start"
    BY <1>9 DEF reject_connection, Own
  <2>. QED
    BY <2>1, <2>2, CounterSame
<1>10. CASE createThread
  <2>1. cur \in Conn /\ thread[cur] = "none"
    BY <1>10 DEF createThread, Places, Holding
  <2>2. Threads' = Threads \cup {cur} /\ cur \notin Threads /\ Children' = Children
    BY <1>10, <2>1 DEF createThread, Threads, Children, Types
  <2>3. connections' = connections /\ connections <= Max /\ Own = 1 /\ Own' = 0 /\ pc' # "start"
    BY <1>10 DEF createThread, Own, Counter, Places
  <2>. QED
    BY <2>1, <2>2, <2>3, CounterGain
<1>11. CASE fork
  <2>1. cur \in Conn /\ child[cur] = "none"
    BY <1>11 DEF fork, Places, Holding
  <2>2. Children' = Children \cup {cur} /\ cur \notin Children /\ Threads' = Threads
    BY <1>11, <2>1 DEF fork, Threads, Children, Types
  <2>3. connections' = connections /\ connections <= Max /\ Own = 1 /\ Own' = 0 /\ pc' # "start"
    BY <1>11 DEF fork, Own, Counter, Places
  <2>. QED
    BY <2>1, <2>2, <2>3, CounterGain
<1>12. CASE startError
  <2>1. Same
    BY <1>12 DEF startError, Same, Threads, Children
  <2>2. /\ connections' = connections /\ Own' = Own
        /\ pc' # "start"
    BY <1>12 DEF startError, Own
  <2>. QED
    BY <2>1, <2>2, CounterSame
<1>13. CASE disown
  <2>1. Same
    BY <1>13 DEF disown, Same, Threads, Children
  <2>2. /\ connections' = connections /\ Own' = Own
        /\ pc' # "start"
    BY <1>13 DEF disown, Own
  <2>. QED
    BY <2>1, <2>2, CounterSame
<1>14. CASE startSequential
  <2>1. Same
    BY <1>14 DEF startSequential, Same, Threads, Children
  <2>2. /\ connections' = connections /\ Own' = Own
        /\ pc' # "start"
    BY <1>14 DEF startSequential, Own
  <2>. QED
    BY <2>1, <2>2, CounterSame
<1>15. CASE connection_handler
  <2>1. Same
    BY <1>15 DEF connection_handler, Same, Threads, Children
  <2>2. /\ connections' = connections /\ Own' = Own
        /\ pc' # "start"
    BY <1>15 DEF connection_handler, Own
  <2>. QED
    BY <2>1, <2>2, CounterSame
<1>16. CASE destroy
  <2>1. Same
    BY <1>16 DEF destroy, Same, Threads, Children
  <2>2. /\ \/ connections' = connections /\ Own' = Own
           \/ connections' = connections - 1 /\ Own = 1 /\ Own' = 0
        /\ pc' # "start"
    BY <1>16 DEF destroy, track_connection, Own, Places, Types
  <2>. QED
    BY <2>1, <2>2, CounterSame
<1>17. CASE UNCHANGED vars
  BY <1>0, <1>17 DEF vars, Same, Threads, Children
<1>. QED
  BY <1>1, <1>2, <1>3, <1>4, <1>5, <1>6, <1>7, <1>8, <1>9, <1>10, <1>11, <1>12, <1>13, <1>14, <1>15, <1>16, <1>17 DEF Next, httpd_mode
-----------------------------------------------------------------------------
(***************************************************************************)
(* The theorems.                                                           *)
(***************************************************************************)
\* The server starts with every connection in its place.
LEMMA Initially == Init => IInv
<1>. SUFFICES ASSUME Init PROVE IInv
  OBVIOUS
<1>1. Types
  BY FaultsAssumption DEF Init, Types
<1>2. Places
  BY DEF Init, Places, Holding
<1>3. Counter
  <2>1. Threads = {} /\ Children = {}
    BY DEF Init, Threads, Children
  <2>2. Cardinality(Threads) = 0 /\ Cardinality(Children) = 0
    BY <2>1, FS_EmptySet
  <2>3. Own = 0 /\ connections = 0 /\ pc # "start"
    BY DEF Init, Own
  <2>. QED
    BY <2>2, <2>3, MaxAssumption DEF Counter
<1>. QED
  BY <1>1, <1>2, <1>3 DEF IInv

\* The invariant holds of the specification, whatever the constants.
LEMMA Invariance == Spec => []IInv
<1>1. IInv /\ [Next]_vars => IInv'
  BY TypesStep, PlacesStep, CounterStep DEF IInv
<1>. QED
  BY <1>1, Initially, PTL DEF Spec

\* HTTPD_Server::connections is the number of connections accepted and not
\* finished, in every mode and however handing over, ending and failing interleave.
THEOREM CounterIsExact == Spec => []CounterExact
<1>1. IInv => CounterExact
  BY DEF IInv, Counter, CounterExact, Own
<1>. QED
  BY <1>1, Invariance, PTL

\* Variables keep their types, and the counter never goes below 0.
THEOREM TypeCorrect == Spec => []TypeOK
<1>1. IInv => TypeOK
  <2>1. ASSUME IInv PROVE connections \in Nat
    <3>1. Cardinality(Threads) \in Nat /\ Cardinality(Children) \in Nat /\ Own \in {0, 1}
      BY SizeNat DEF Threads, Children, Own
    <3>2. connections = Cardinality(Threads) + Cardinality(Children) + Own
      BY <2>1 DEF IInv, Counter
    <3>. QED
      BY <3>1, <3>2
  <2>. QED
    BY <2>1 DEF IInv, Types, TypeOK
<1>. QED
  BY <1>1, Invariance, PTL

\* No more than $HTTPD.max-connections requests run at a time: the unlocked read
\* in too_many_connections() cannot let one more in.
THEOREM LimitIsHeld == Spec => []LimitHeld
<1>1. IInv => LimitHeld
  <2>. SUFFICES ASSUME IInv PROVE LimitHeld
    OBVIOUS
  <2>1. /\ IsFiniteSet(Threads) /\ Cardinality(Threads) \in Nat
        /\ IsFiniteSet(Children) /\ Cardinality(Children) \in Nat
    BY SizeNat DEF Threads, Children
  <2>2. Running \subseteq Threads \cup Children
    BY DEF Running, Threads, Children
  <2>3. Threads \cap Children = {}
    BY DEF Threads, Children, IInv, Places
  <2>4. IsFiniteSet(Threads \cup Children)
        /\ Cardinality(Threads \cup Children) = Cardinality(Threads) + Cardinality(Children)
    BY <2>1, <2>3, FS_Union, FS_EmptySet
  <2>5. Cardinality(Running) <= Cardinality(Threads \cup Children)
    BY <2>2, <2>4, FS_Subset
  <2>6. Cardinality(Threads) + Cardinality(Children) <= Max
    BY DEF IInv, Counter
  <2>7. Cardinality(Running) \in Nat
    BY SizeNat DEF Running
  <2>. QED
    BY <2>1, <2>4, <2>5, <2>6, <2>7, MaxAssumption DEF LimitHeld
<1>. QED
  BY <1>1, Invariance, PTL

\* ~HTTPD_Connection closes the object's own socket, never a descriptor that the
\* kernel has given to another connection.
THEOREM SocketsAreOwn == Spec => []OwnSocket
<1>1. IInv => OwnSocket
  BY ConnAssumption DEF IInv, Places, OwnSocket
<1>. QED
  BY <1>1, Invariance, PTL

(***************************************************************************)
(* Who is refused, and why.                                                *)
(***************************************************************************)
\* A client waits until the loop has decided; who works for it has been served
Answers ==
    /\ \A c \in backlog : answer[c] = "waiting"
    /\ pc \in {"reap", "start"} /\ sock # INVALID => answer[cur] = "waiting"
    /\ \A c \in Threads \cup Children : answer[c] = "served"
    /\ pc = "handle" => mode = "sequental" /\ answer[cur] = "served"

\* After accept() no request starts until the loop has looked at the counter
Counted ==
    /\ pc = "reap" /\ sock # INVALID => Cardinality(Threads \cup Running) <= busy
    /\ pc = "reject" => busy >= Max

\* Every step keeps the answers.
LEMMA AnswersStep == Types /\ Places /\ Answers /\ [Next]_vars => Answers'
<1>. SUFFICES ASSUME Types, Places, Answers, [Next]_vars PROVE Answers'
  OBVIOUS
<1>. USE ConnAssumption, FdAssumption
     DEF Types, Places, Answers, workers, cur, Holding, Threads, Children
<1>1. ASSUME NEW c \in Conn, NEW fd \in Fd, accept(c, fd) PROVE Answers'
  BY <1>1 DEF accept
<1>2. ASSUME NEW c \in Conn, acceptError(c) PROVE Answers'
  BY <1>2 DEF acceptError
<1>3. ASSUME NEW c \in Conn, reap(c) PROVE Answers'
  BY <1>3 DEF reap
<1>4. ASSUME NEW c \in Conn, connect(c) PROVE Answers'
  BY <1>4 DEF connect
<1>5. ASSUME NEW c \in Conn, connection_thread(c) PROVE Answers'
  BY <1>5 DEF connection_thread, close
<1>6. ASSUME NEW c \in Conn, childExit(c) PROVE Answers'
  BY <1>6 DEF childExit
<1>7. CASE acceptTimeout
  BY <1>7 DEF acceptTimeout
<1>8. CASE check
  BY <1>8 DEF check
<1>9. CASE reject_connection
  BY <1>9 DEF reject_connection
<1>10. CASE createThread
  BY <1>10 DEF createThread
<1>11. CASE fork
  BY <1>11 DEF fork
<1>12. CASE startError
  BY <1>12 DEF startError
<1>13. CASE disown
  BY <1>13 DEF disown, close
<1>14. CASE startSequential
  BY <1>14 DEF startSequential
<1>15. CASE connection_handler
  BY <1>15 DEF connection_handler
<1>16. CASE destroy
  BY <1>16 DEF destroy, close
<1>17. CASE UNCHANGED vars
  BY <1>17 DEF vars
<1>. QED
  BY <1>1, <1>2, <1>3, <1>4, <1>5, <1>6, <1>7, <1>8, <1>9, <1>10, <1>11, <1>12, <1>13, <1>14, <1>15, <1>16, <1>17
     DEF Next, httpd_mode

\* The workers are finitely many, and a connection has one of them.
LEMMA WorkerSets ==
    ASSUME Places
    PROVE  /\ Threads \cap Children = {}
           /\ IsFiniteSet(Threads \cup Children)
           /\ Cardinality(Threads \cup Children) = Cardinality(Threads) + Cardinality(Children)
<1>1. /\ IsFiniteSet(Threads) /\ Cardinality(Threads) \in Nat
      /\ IsFiniteSet(Children) /\ Cardinality(Children) \in Nat
  BY SizeNat DEF Threads, Children
<1>2. Threads \cap Children = {}
  BY DEF Threads, Children, Places
<1>3. /\ IsFiniteSet(Threads \cup Children)
      /\ Cardinality(Threads \cup Children) = Cardinality(Threads) + Cardinality(Children) - Cardinality({})
  BY <1>1, <1>2, FS_Union
<1>4. Cardinality({}) = 0
  BY FS_EmptySet
<1>. QED
  BY <1>1, <1>2, <1>3, <1>4

\* A smaller set of workers is counted no higher.
LEMMA CountedShrinks ==
    ASSUME Counted, Types, pc' = pc, sock' = sock, busy' = busy,
           Threads' \cup Running' \subseteq Threads \cup Running
    PROVE  Counted'
<1>1. Threads \cup Running \subseteq Conn /\ (Threads \cup Running)' = Threads' \cup Running'
  BY DEF Threads, Running
<1>2. IsFiniteSet(Threads \cup Running) /\ Cardinality(Threads \cup Running) \in Nat
  BY <1>1, SizeNat
<1>3. Cardinality((Threads \cup Running)') <= Cardinality(Threads \cup Running)
      /\ Cardinality((Threads \cup Running)') \in Nat
  BY <1>1, <1>2, FS_Subset, FS_CardinalityType
<1>4. busy \in Nat
  BY DEF Types
<1>. QED
  BY <1>2, <1>3, <1>4 DEF Counted

\* Every step keeps Counted: what the loop compares is at most what accept() saw.
LEMMA CountedStep == IInv /\ Counted /\ [Next]_vars => Counted'
<1>. SUFFICES ASSUME Types, Places, Counter, Counted, [Next]_vars PROVE Counted'
  BY DEF IInv
<1>. USE DEF workers
<1>1. ASSUME NEW c \in Conn, NEW fd \in Fd, accept(c, fd) PROVE Counted'
  <2>1. busy' = Cardinality(Threads \cup Running) /\ pc' = "reap"
        /\ (Threads \cup Running)' = Threads \cup Running
    BY <1>1 DEF accept, Threads, Running
  <2>. QED
    BY <2>1, BusyNat DEF Counted
<1>2. ASSUME NEW c \in Conn, acceptError(c) \/ connect(c) PROVE Counted'
  BY <1>2, CountedShrinks DEF acceptError, connect, Threads, Running
<1>3. ASSUME NEW c \in Conn, reap(c) PROVE Counted'
  BY <1>3, CountedShrinks DEF reap, Threads, Running, Types
<1>4. ASSUME NEW c \in Conn, connection_thread(c) PROVE Counted'
  BY <1>4, CountedShrinks DEF connection_thread, Threads, Running, Types
<1>5. ASSUME NEW c \in Conn, childExit(c) PROVE Counted'
  BY <1>5, CountedShrinks DEF childExit, Threads, Running, Types
<1>6. CASE acceptTimeout
  BY <1>6 DEF acceptTimeout, Counted, Places
<1>7. CASE check
  <2>1. CASE pc' = "reject"
    <3>1. sock # INVALID /\ pc = "reap" /\ connections > Max /\ busy' = busy /\ reaped
      BY <1>7, <2>1 DEF check, too_many_connections
    <3>2. Children \subseteq Running
      BY <3>1 DEF Children, Running, reaped, Places, Types
    <3>3. Threads \cup Running = Threads \cup Children
      BY <3>2 DEF Running, Threads, Children
    <3>4. Cardinality(Threads \cup Running) = Cardinality(Threads) + Cardinality(Children)
      BY <3>3, WorkerSets
    <3>5. connections = Cardinality(Threads) + Cardinality(Children) + 1
      BY <3>1 DEF Counter, Own
    <3>6. Cardinality(Threads) \in Nat /\ Cardinality(Children) \in Nat
      BY SizeNat DEF Threads, Children
    <3>7. Cardinality(Threads) + Cardinality(Children) <= busy
      BY <3>1, <3>4 DEF Counted
    <3>. QED
      BY <2>1, <3>1, <3>5, <3>6, <3>7, MaxAssumption DEF Counted, Types
  <2>2. CASE pc' # "reject"
    BY <1>7, <2>2 DEF check, Counted
  <2>. QED
    BY <2>1, <2>2
<1>8. CASE \/ reject_connection \/ createThread \/ fork \/ startError \/ disown
           \/ startSequential \/ connection_handler \/ destroy
  <2>1. pc' \notin {"reap", "reject"}
    BY <1>8 DEF reject_connection, createThread, fork, startError, disown, startSequential,
                connection_handler, destroy
  <2>. QED
    BY <2>1 DEF Counted
<1>9. CASE UNCHANGED vars
  BY <1>9, CountedShrinks DEF vars, Threads, Running
<1>. QED
  BY <1>1, <1>2, <1>3, <1>4, <1>5, <1>6, <1>7, <1>8, <1>9 DEF Next, httpd_mode

RInv == IInv /\ Answers /\ Counted

LEMMA RInvariance == Spec => []RInv
<1>1. Init => RInv
  <2>1. Init => Answers /\ Counted
    BY DEF Init, Answers, Counted, Threads, Children
  <2>. QED
    BY <2>1, Initially DEF RInv
<1>2. IInv /\ [Next]_vars => IInv'
  BY TypesStep, PlacesStep, CounterStep DEF IInv
<1>3. RInv /\ [Next]_vars => RInv'
  BY <1>2, AnswersStep, CountedStep DEF RInv, IInv
<1>. QED
  BY <1>1, <1>3, PTL DEF Spec

\* 503 is answered only if max-connections requests were being served when the
\* connection was accepted: exited children are reaped before the comparison.
THEOREM RefusalsAreJustified == Spec => []RefusedOnlyWhenBusy
<1>1. RInv => RefusedOnlyWhenBusy
  BY DEF RInv, Counted, RefusedOnlyWhenBusy
<1>. QED
  BY <1>1, RInvariance, PTL

\* The loop's own request, in the sequential mode
Serving == Threads \cup Children \cup (IF pc = "handle" THEN {cur} ELSE {})
Refused == {c \in Conn : answer[c] = "refused"}

\* ConnectionLimit counts with the same Cardinality.
LEMMA SameCardinality == \A S : Limit!Cardinality(S) = Cardinality(S)
  BY DEF Limit!Cardinality, Cardinality

\* Steps that admit, refuse and finish no one.
LEMMA LimitStutter ==
    ASSUME Types, Threads' = Threads, Children' = Children, Refused' = Refused,
           pc = "handle" <=> pc' = "handle", pc = "handle" => cur' = cur
    PROVE  UNCHANGED Limit!lvars
  BY DEF Limit!lvars, Serving, Refused

\* How many are served at a time, as the counter has it outside the sequential mode.
LEMMA ServingSize ==
    ASSUME RInv, pc # "handle"
    PROVE  /\ Serving = Threads \cup Children
           /\ Cardinality(Serving) = connections - Own
           /\ Cardinality(Serving) \in Nat
<1>1. Serving = Threads \cup Children
  BY DEF Serving
<1>2. Cardinality(Serving) = Cardinality(Threads) + Cardinality(Children)
  BY <1>1, WorkerSets DEF RInv, IInv
<1>3. Cardinality(Threads) \in Nat /\ Cardinality(Children) \in Nat /\ Own \in {0, 1}
  BY SizeNat DEF Threads, Children, Own
<1>4. connections = Cardinality(Threads) + Cardinality(Children) + Own
  BY DEF RInv, IInv, Counter
<1>. QED
  BY <1>1, <1>2, <1>3, <1>4

\* Each step of the server is one of ConnectionLimit's or changes nothing it sees.
LEMMA LimitStep == RInv /\ [Next]_vars => [Limit!Next]_(Limit!lvars)
<1>. SUFFICES ASSUME RInv, [Next]_vars PROVE Limit!Next \/ UNCHANGED Limit!lvars
  OBVIOUS
<1>0. Types /\ Places /\ Answers /\ Counter
  BY DEF RInv, IInv
<1>. USE DEF workers, Refused
<1>1. ASSUME NEW c \in Conn, NEW fd \in Fd, accept(c, fd) PROVE UNCHANGED Limit!lvars
  BY <1>1, <1>0, LimitStutter DEF accept, Threads, Children
<1>2. ASSUME NEW c \in Conn, acceptError(c) PROVE UNCHANGED Limit!lvars
  <2>1. Refused' = Refused
    BY <1>2, <1>0 DEF acceptError, Answers, Types
  <2>. QED
    BY <1>2, <1>0, <2>1, LimitStutter DEF acceptError, Threads, Children
<1>3. ASSUME NEW c \in Conn, connect(c) PROVE UNCHANGED Limit!lvars
  <2>1. Refused' = Refused
    BY <1>3, <1>0 DEF connect, Types
  <2>. QED
    BY <1>3, <1>0, <2>1, LimitStutter DEF connect, Threads, Children, cur
\* A place given back
<1>4. ASSUME NEW c \in Conn, Refused' = Refused, pc' = pc, pc # "handle", Threads \cap Children = {},
             \/ Threads' = Threads \ {c} /\ c \in Threads /\ Children' = Children
             \/ Children' = Children \ {c} /\ c \in Children /\ Threads' = Threads
      PROVE  Limit!Next
  <2>1. c \in Serving /\ Serving' = Serving \ {c}
    BY <1>4 DEF Serving
  <2>2. Limit!Finish(c)
    BY <2>1, <1>4 DEF Limit!Finish, Serving
  <2>. QED
    BY <2>2 DEF Limit!Next
<1>5. ASSUME NEW c \in Conn, reap(c) PROVE Limit!Next
  <2>1. Children' = Children \ {c} /\ c \in Children /\ Threads' = Threads
    BY <1>5, <1>0 DEF reap, Children, Threads, Types
  <2>. QED
    BY <1>5, <1>0, <2>1, <1>4, WorkerSets DEF reap
<1>6. ASSUME NEW c \in Conn, connection_thread(c) PROVE Limit!Next \/ UNCHANGED Limit!lvars
  <2>1. mode = "threaded" /\ pc # "handle" /\ pc' = pc /\ Refused' = Refused /\ Children' = Children
    BY <1>6, <1>0 DEF connection_thread, Places, Answers, Children
  <2>2. CASE thread[c] # "untrack"
    <3>1. Threads' = Threads
      BY <1>6, <1>0, <2>2 DEF connection_thread, Threads, Types
    <3>. QED
      BY <2>1, <3>1, <1>0, LimitStutter
  <2>3. CASE thread[c] = "untrack"
    <3>1. Threads' = Threads \ {c} /\ c \in Threads
      BY <1>6, <1>0, <2>3 DEF connection_thread, Threads, Types
    <3>. QED
      BY <2>1, <3>1, <1>0, <1>4, WorkerSets
  <2>. QED
    BY <2>2, <2>3
<1>7. ASSUME NEW c \in Conn, childExit(c) PROVE UNCHANGED Limit!lvars
  <2>1. Children' = Children /\ Threads' = Threads
    BY <1>7, <1>0 DEF childExit, Children, Threads, Types
  <2>. QED
    BY <1>7, <1>0, <2>1, LimitStutter DEF childExit, cur
<1>8. CASE acceptTimeout \/ reject_connection \/ disown \/ destroy
  <2>1. /\ Threads' = Threads /\ Children' = Children /\ Refused' = Refused
        /\ pc # "handle" /\ pc' # "handle"
    BY <1>8 DEF acceptTimeout, reject_connection, disown, destroy, Threads, Children
  <2>. QED
    BY <2>1, <1>0, LimitStutter
<1>9. CASE check
  <2>1. Threads' = Threads /\ Children' = Children /\ pc = "reap" /\ pc' # "handle"
        /\ connections' = connections /\ sock' = sock /\ fdtab' = fdtab
    BY <1>9 DEF check, Threads, Children
  <2>2. CASE sock # INVALID /\ too_many_connections
    <3>1. cur \in Conn /\ answer[cur] = "waiting" /\ cur \notin Threads \cup Children
      BY <1>0, <2>1, <2>2 DEF Places, Holding, Answers, Threads, Children
    <3>2. Serving' = Serving
      BY <2>1 DEF Serving
    <3>3. answer' = [answer EXCEPT ![cur] = "refused"]
      BY <1>9, <2>2 DEF check
    <3>4. Refused' = Refused \cup {cur} /\ cur \notin Refused
      BY <1>0, <3>1, <3>3 DEF Types
    <3>5. Cardinality(Serving) >= Max /\ cur \notin Serving
      <4>1. Own = 1 /\ connections > Max /\ connections \in Int
        BY <1>0, <2>1, <2>2 DEF Own, too_many_connections, Types
      <4>2. Cardinality(Serving) = connections - 1 /\ Serving = Threads \cup Children
        BY <2>1, <4>1, ServingSize
      <4>. QED
        BY <3>1, <4>1, <4>2, MaxAssumption
    <3>6. PICK c \in Conn : c = cur
      BY <3>1
    <3>7. Limit!Refuse(c)
      BY <3>2, <3>4, <3>5, <3>6, SameCardinality DEF Limit!Refuse, Serving
    <3>. QED
      BY <3>7 DEF Limit!Next
  <2>3. CASE ~(sock # INVALID /\ too_many_connections)
    <3>1. Refused' = Refused
      BY <1>9, <2>3 DEF check
    <3>. QED
      BY <2>1, <3>1, <1>0, LimitStutter
  <2>. QED
    BY <2>2, <2>3
\* A place taken
<1>10. ASSUME pc = "start", answer' = [answer EXCEPT ![cur] = "served"], Serving' = Serving \cup {cur}
       PROVE  Limit!Next
  <2>1. cur \in Conn /\ answer[cur] = "waiting" /\ cur \notin Threads \cup Children /\ sock # INVALID
    BY <1>0, <1>10 DEF Places, Holding, Answers, Threads, Children
  <2>2. Refused' = Refused /\ cur \notin Refused
    BY <1>0, <1>10, <2>1 DEF Types
  <2>3. Cardinality(Serving) < Max /\ cur \notin Serving
    <3>1. Own = 1 /\ connections <= Max /\ connections \in Int
      BY <1>0, <1>10, <2>1 DEF Own, Types, Counter
    <3>2. Cardinality(Serving) = connections - 1 /\ Serving = Threads \cup Children
      BY <1>10, <3>1, ServingSize
    <3>. QED
      BY <2>1, <3>1, <3>2, MaxAssumption
  <2>4. Limit!Admit(cur)
    BY <1>10, <2>2, <2>3, SameCardinality DEF Limit!Admit, Serving
  <2>. QED
    BY <2>1, <2>4 DEF Limit!Next
<1>11. CASE createThread
  <2>0. cur \in Conn
    BY <1>0, <1>11 DEF createThread, Places, Holding
  <2>1. Threads' = Threads \cup {cur} /\ Children' = Children
    BY <1>11, <1>0, <2>0 DEF createThread, Threads, Children, Types
  <2>2. Serving' = Serving \cup {cur}
    BY <1>11, <2>1 DEF createThread, Serving
  <2>. QED
    BY <1>11, <2>2, <1>10 DEF createThread
<1>12. CASE fork
  <2>0. cur \in Conn
    BY <1>0, <1>12 DEF fork, Places, Holding
  <2>1. Children' = Children \cup {cur} /\ Threads' = Threads
    BY <1>12, <1>0, <2>0 DEF fork, Threads, Children, Types
  <2>2. Serving' = Serving \cup {cur}
    BY <1>12, <2>1 DEF fork, Serving
  <2>. QED
    BY <1>12, <2>2, <1>10 DEF fork
<1>13. CASE startSequential
  <2>1. Serving' = Serving \cup {cur}
    BY <1>13 DEF startSequential, Serving, Threads, Children, cur
  <2>. QED
    BY <1>13, <2>1, <1>10 DEF startSequential
<1>14. CASE startError
  <2>1. cur \in Conn /\ answer[cur] = "waiting"
    BY <1>0, <1>14 DEF startError, Places, Holding, Answers
  <2>2. Refused' = Refused
    BY <1>0, <1>14, <2>1 DEF startError, Types
  <2>. QED
    BY <1>14, <1>0, <2>2, LimitStutter DEF startError, Threads, Children
<1>15. CASE connection_handler
  <2>1. cur \in Conn /\ cur \notin Threads \cup Children
    BY <1>0, <1>15 DEF connection_handler, Places, Holding, Threads, Children
  <2>2. /\ Threads' = Threads /\ Children' = Children /\ Refused' = Refused
        /\ pc = "handle" /\ pc' # "handle"
    BY <1>15 DEF connection_handler, Threads, Children
  <2>3. cur \in Serving /\ Serving' = Serving \ {cur}
    BY <2>1, <2>2 DEF Serving
  <2>4. Limit!Finish(cur)
    BY <2>2, <2>3 DEF Limit!Finish, Serving
  <2>. QED
    BY <2>1, <2>4 DEF Limit!Next
<1>16. CASE UNCHANGED vars
  BY <1>16, <1>0, LimitStutter DEF vars, Threads, Children, cur
<1>. QED
  BY <1>1, <1>2, <1>3, <1>5, <1>6, <1>7, <1>8, <1>9, <1>11, <1>12, <1>13, <1>14, <1>15, <1>16
     DEF Next, httpd_mode

\* The server does what $HTTPD.max-connections promises, in each of its modes: at
\* most that many connections are served, and one is refused only when they are.
THEOREM ImplementsConnectionLimit == Spec => ImplementsLimit
<1>1. Init => Limit!Init
  BY DEF Init, Limit!Init, Threads, Children
<1>. QED
  BY <1>1, RInvariance, LimitStep, PTL DEF Spec, ImplementsLimit, Limit!Spec

(***************************************************************************)
(* Programs that requests start.  Until the timer of its request expires a *)
(* program that has not exited can write (Living), so when reading comes   *)
(* to an end all it prints has been read (Heard, Emptied); and each way    *)
(* out of pa_exec() closes what it has opened (Clean).                     *)
(***************************************************************************)
ExecPlaces == {"start", "fork", "forked", "write", "out", "err", "wait", "done", "failed", "killed"}
Step == {"read", "out", "err", "stay"}

ExecTypes ==
    /\ exec_pc \in [Thread -> ExecPlaces]
    /\ got \in [Thread -> [out : Nat, err : Nat]]
    /\ fds \in [Thread -> [Exec!Ends -> SUBSET (Thread \cup {"parent"})]]
    /\ pipe \in [Thread -> [in : Nat, out : Nat, err : Nat]]
    /\ program \in [Thread -> [next : Seq(Step), all : Seq(Step), alive : BOOLEAN, reaped : BOOLEAN]]
    /\ exec_timer \in [Thread -> {"set", "again", "over"}]
    /\ active \in [Thread -> BOOLEAN]

\* How many of the first n steps of a program are of this kind
Printed(all, n, what) == Cardinality({i \in 1 .. n : all[i] = what})

\* What a program has printed has been read, or is in a pipe
Heard(t) ==
    LET p == program[t]
        n == Len(p.all) - Len(p.next)
    IN  /\ Len(p.next) <= Len(p.all)
        /\ \A i \in 1 .. Len(p.next) : p.next[i] = p.all[n + i]
        /\ got[t].out + pipe[t].out = Printed(p.all, n, "out")
        /\ got[t].err + pipe[t].err = Printed(p.all, n, "err")

Living(t) ==
    exec_timer[t] = "set" =>
        /\ exec_pc[t] \in {"start", "fork", "failed"} => ~program[t].alive
        /\ exec_pc[t] \notin {"start", "fork", "failed"} =>
              \/ program[t].alive /\ t \in fds[t]["out write"] /\ t \in fds[t]["err write"]
              \/ ~program[t].alive /\ program[t].next = <<>>

Emptied(t) ==
    exec_timer[t] = "set" =>
        /\ exec_pc[t] \in {"err", "wait", "done"} => ~program[t].alive /\ pipe[t].out = 0
        /\ exec_pc[t] \in {"wait", "done"} => pipe[t].err = 0
        /\ exec_pc[t] = "done" => program[t].reaped

Clean(t) ==
    /\ active[t] => exec_pc[t] \in {"write", "out", "err", "wait", "killed"}
    /\ exec_pc[t] \in {"failed", "out", "err", "wait", "done"} =>
          \A e \in Exec!Ends : "parent" \notin fds[t][e]
    /\ exec_pc[t] = "write" => \A e \in Exec!Ends \ {"in write"} : "parent" \notin fds[t][e]

EachOK(t) == Heard(t) /\ Living(t) /\ Emptied(t) /\ Clean(t)
EInv == ExecTypes /\ \A t \in Thread : EachOK(t)
-----------------------------------------------------------------------------
\* One step more.
LEMMA PrintedMore ==
    ASSUME NEW all \in Seq(Step), NEW n \in Nat, n < Len(all), NEW what
    PROVE  /\ Printed(all, n, what) \in Nat
           /\ Printed(all, n + 1, what) = Printed(all, n, what) + (IF all[n + 1] = what THEN 1 ELSE 0)
<1>. DEFINE S == {i \in 1 .. n : all[i] = what}
            T == {i \in 1 .. n + 1 : all[i] = what}
<1>1. IsFiniteSet(1 .. n)
  BY FS_Interval
<1>2. IsFiniteSet(S) /\ Cardinality(S) \in Nat
  BY <1>1, FS_Subset, FS_CardinalityType
<1>3. n + 1 \notin S
  OBVIOUS
<1>4. CASE all[n + 1] = what
  <2>1. T = S \cup {n + 1}
    BY <1>4
  <2>2. Cardinality(T) = Cardinality(S) + 1
    BY <2>1, <1>2, <1>3, FS_AddElement
  <2>. QED
    BY <1>2, <1>4, <2>2 DEF Printed
<1>5. CASE all[n + 1] # what
  <2>1. T = S
    BY <1>5
  <2>2. Cardinality(T) = Cardinality(S)
    BY <2>1
  <2>3. Cardinality(S) = Cardinality(S) + 0
    BY <1>2
  <2>. QED
    BY <1>2, <1>5, <2>2, <2>3 DEF Printed
<1>. QED
  BY <1>4, <1>5

\* What the step of one request leaves to the others.
LEMMA OthersKeep ==
    ASSUME EInv, NEW u \in Thread,
           exec_pc'[u] = exec_pc[u], got'[u] = got[u], pipe'[u] = pipe[u],
           program'[u] = program[u], exec_timer'[u] = exec_timer[u], active'[u] = active[u],
           \A e \in Exec!Ends : \A p \in {u, "parent"} : p \in fds'[u][e] <=> p \in fds[u][e]
    PROVE  EachOK(u)'
<1>1. {"out write", "err write"} \subseteq Exec!Ends
  BY DEF Exec!Ends
<1>2. Heard(u)'
  BY DEF EInv, EachOK, Heard
<1>3. Living(u)'
  BY <1>1 DEF EInv, EachOK, Living
<1>4. Emptied(u)'
  BY DEF EInv, EachOK, Emptied
<1>5. Clean(u)'
  BY DEF EInv, EachOK, Clean
<1>. QED
  BY <1>2, <1>3, <1>4, <1>5 DEF EachOK

\* The step of a request t that leaves the ends of the others, or changes in them only
\* what t has
Others(t) ==
    \A u \in Thread \ {t} :
        /\ exec_pc'[u] = exec_pc[u] /\ got'[u] = got[u] /\ pipe'[u] = pipe[u]
        /\ program'[u] = program[u] /\ exec_timer'[u] = exec_timer[u] /\ active'[u] = active[u]
        /\ \A e \in Exec!Ends : \A p \in {u, "parent"} : p \in fds'[u][e] <=> p \in fds[u][e]

LEMMA OneSteps ==
    ASSUME EInv, ExecTypes', NEW t \in Thread, Others(t), EachOK(t)'
    PROVE  EInv'
  BY OthersKeep DEF EInv, Others

LEMMA ParentApart == "parent" \notin Thread
  BY ExecConstants DEF Exec!ConstantsOK

\* The steps that do not depend on the mode.
Common(t) ==
    \/ Exec!open_pipes(t) \/ Exec!parent(t) \/ Exec!write(t) \/ Exec!written(t)
    \/ Exec!read_out(t) \/ Exec!read_err(t) \/ Exec!get_exit_status(t)
    \/ Exec!pipe_fails(t) \/ Exec!fork_fails(t) \/ Exec!does(t) \/ Exec!exits(t)

LEMMA ForkedSteps ==
    ASSUME Forked!Next
    PROVE  \E t \in Thread : Common(t) \/ Forked!fork(t) \/ Forked!expires(t)
<1>1. PICK t \in Thread :
            \/ Forked!parent_step(t) \/ Forked!pipe_fails(t) \/ Forked!fork_fails(t)
            \/ Forked!does(t) \/ Forked!exits(t) \/ Forked!expires(t)
  BY DEF Forked!Next
<1>2. Forked!open_pipes(t) => Exec!open_pipes(t)
  BY DEF Exec!open_pipes, Forked!open_pipes, Exec!Goes, Forked!Goes, Exec!Ends, Forked!Ends
<1>3. Forked!parent(t) => Exec!parent(t)
  BY DEF Exec!parent, Forked!parent, Exec!Goes, Forked!Goes, Exec!Closed, Forked!Closed,
         Exec!Ends, Forked!Ends
<1>4. Forked!write(t) => Exec!write(t)
  BY DEF Exec!write, Forked!write
<1>5. Forked!written(t) => Exec!written(t)
  BY DEF Exec!written, Forked!written, Exec!Goes, Forked!Goes, Exec!Closed, Forked!Closed,
         Exec!Ends, Forked!Ends
<1>6. Forked!read_out(t) => Exec!read_out(t)
  BY DEF Exec!read_out, Forked!read_out, Exec!Goes, Forked!Goes, Exec!ended, Forked!ended
<1>7. Forked!read_err(t) => Exec!read_err(t)
  BY DEF Exec!read_err, Forked!read_err, Exec!Goes, Forked!Goes, Exec!ended, Forked!ended
<1>8. Forked!get_exit_status(t) => Exec!get_exit_status(t)
  BY DEF Exec!get_exit_status, Forked!get_exit_status, Exec!Goes, Forked!Goes
<1>9. Forked!pipe_fails(t) => Exec!pipe_fails(t)
  BY DEF Exec!pipe_fails, Forked!pipe_fails, Exec!Goes, Forked!Goes, Exec!Ends, Forked!Ends,
         Exec!left_open, Forked!left_open
<1>10. Forked!fork_fails(t) => Exec!fork_fails(t)
  BY DEF Exec!fork_fails, Forked!fork_fails, Exec!Goes, Forked!Goes, Exec!Closed, Forked!Closed,
         Exec!Ends, Forked!Ends
<1>11. Forked!does(t) => Exec!does(t)
  BY DEF Exec!does, Forked!does
<1>12. Forked!exits(t) => Exec!exits(t)
  BY DEF Exec!exits, Forked!exits, Exec!Exited, Forked!Exited, Exec!Ends, Forked!Ends
<1>. QED
  BY <1>1, <1>2, <1>3, <1>4, <1>5, <1>6, <1>7, <1>8, <1>9, <1>10, <1>11, <1>12 DEF Forked!parent_step, Common
-----------------------------------------------------------------------------
LEMMA Has ==
    ASSUME ExecTypes, NEW t \in Thread
    PROVE  /\ exec_pc[t] \in ExecPlaces /\ got[t] \in [out : Nat, err : Nat]
           /\ fds[t] \in [Exec!Ends -> SUBSET (Thread \cup {"parent"})]
           /\ pipe[t] \in [in : Nat, out : Nat, err : Nat]
           /\ got[t].out \in Nat /\ got[t].err \in Nat /\ pipe[t].in \in Nat
           /\ pipe[t].out \in Nat /\ pipe[t].err \in Nat
           /\ program[t].all \in Seq(Step) /\ program[t].next \in Seq(Step)
           /\ program[t].alive \in BOOLEAN /\ active[t] \in BOOLEAN
           /\ exec_timer[t] \in {"set", "again", "over"}
           /\ Len(program[t].all) \in Nat /\ Len(program[t].next) \in Nat
  BY DEF ExecTypes

\* Steps in which the program does nothing and no pipe is read.
LEMMA HeardStays ==
    ASSUME ExecTypes, NEW t \in Thread, Heard(t), UNCHANGED <<got, pipe>>,
           program'[t].all = program[t].all, program'[t].next = program[t].next
    PROVE  Heard(t)'
  BY DEF Heard

\* Reading moves it from the pipe.
LEMMA HeardMoves ==
    ASSUME NEW t \in Thread, Heard(t), program'[t] = program[t],
           got'[t].out + pipe'[t].out = got[t].out + pipe[t].out,
           got'[t].err + pipe'[t].err = got[t].err + pipe[t].err
    PROVE  Heard(t)'
<1>. DEFINE out == got[t].out + pipe[t].out
            err == got[t].err + pipe[t].err
<1>1. out' = out /\ err' = err
  OBVIOUS
<1>. HIDE DEF out, err
<1>2. Heard(t) <=>
        LET p == program[t]
            n == Len(p.all) - Len(p.next)
        IN  /\ Len(p.next) <= Len(p.all)
            /\ \A i \in 1 .. Len(p.next) : p.next[i] = p.all[n + i]
            /\ out = Printed(p.all, n, "out") /\ err = Printed(p.all, n, "err")
  BY DEF Heard, out, err
<1>. QED
  BY <1>1, <1>2 DEF Heard, out, err

LEMMA OpenPipes == ASSUME EInv, NEW t \in Thread, Exec!open_pipes(t) PROVE EInv'
<1>. USE DEF Exec!open_pipes, Exec!Goes
<1>1. ExecTypes'
  BY DEF EInv, ExecTypes, ExecPlaces, Exec!Ends
<1>2. Others(t)
  BY DEF EInv, ExecTypes, Others
<1>3. Heard(t)'
  BY HeardStays DEF EInv, EachOK
<1>4. exec_pc'[t] = "fork"
  BY DEF EInv, ExecTypes
<1>5. EachOK(t)'
  BY <1>3, <1>4 DEF EInv, EachOK, Living, Emptied, Clean
<1>. QED
  BY <1>1, <1>2, <1>5, OneSteps

LEMMA PipeFails == ASSUME EInv, NEW t \in Thread, Exec!pipe_fails(t) PROVE EInv'
<1>. USE DEF Exec!pipe_fails, Exec!Goes, Exec!left_open
<1>1. /\ exec_pc'[t] = "failed" /\ fds' = [fds EXCEPT ![t] = [e \in Exec!Ends |-> {}]]
      /\ UNCHANGED <<left, got, pipe, program, exec_timer, active>>
  BY DEF EInv, ExecTypes
<1>2. ExecTypes'
  BY <1>1 DEF EInv, ExecTypes, ExecPlaces
<1>3. Others(t)
  BY <1>1 DEF EInv, ExecTypes, Others
<1>4. Heard(t)'
  BY <1>1, HeardStays DEF EInv, EachOK
<1>5. \A e \in Exec!Ends : fds'[t][e] = {}
  BY <1>1 DEF EInv, ExecTypes
<1>6. EachOK(t)'
  BY <1>1, <1>4, <1>5 DEF EInv, EachOK, Living, Emptied, Clean
<1>. QED
  BY <1>2, <1>3, <1>6, OneSteps

\* The ends that the parent closes.
LEMMA ClosedIs ==
    ASSUME ExecTypes, NEW t \in Thread, NEW ends \in SUBSET Exec!Ends,
           fds' = Exec!Closed("parent", t, ends)
    PROVE  /\ fds' \in [Thread -> [Exec!Ends -> SUBSET (Thread \cup {"parent"})]]
           /\ \A u \in Thread \ {t} : fds'[u] = fds[u]
           /\ \A e \in ends : fds'[t][e] = fds[t][e] \ {"parent"}
           /\ \A e \in Exec!Ends \ ends : fds'[t][e] = fds[t][e]
           /\ \A e \in Exec!Ends : t \in fds'[t][e] <=> t \in fds[t][e]
<1>1. t # "parent"
  BY ParentApart
<1>2. \A e \in Exec!Ends : fds'[t][e] = IF e \in ends THEN fds[t][e] \ {"parent"} ELSE fds[t][e]
  BY DEF ExecTypes, Exec!Closed
<1>3. fds' \in [Thread -> [Exec!Ends -> SUBSET (Thread \cup {"parent"})]]
  BY DEF ExecTypes, Exec!Closed
<1>4. \A u \in Thread \ {t} : fds'[u] = fds[u]
  BY DEF ExecTypes, Exec!Closed
<1>. QED
  BY <1>1, <1>2, <1>3, <1>4

LEMMA ForkFails == ASSUME EInv, NEW t \in Thread, Exec!fork_fails(t) PROVE EInv'
<1>. USE DEF Exec!fork_fails, Exec!Goes
<1>1. ExecTypes /\ Exec!Ends \in SUBSET Exec!Ends
  BY DEF EInv
<1>2. ExecTypes' /\ exec_pc'[t] = "failed" /\ \A u \in Thread \ {t} : exec_pc'[u] = exec_pc[u]
  BY <1>1, ClosedIs DEF ExecTypes, ExecPlaces
<1>3. Others(t)
  BY <1>1, <1>2, ClosedIs DEF Others
<1>4. Heard(t)'
  BY HeardStays DEF EInv, EachOK
<1>5. \A e \in Exec!Ends : "parent" \notin fds'[t][e]
  BY <1>1, ClosedIs
<1>6. EachOK(t)'
  BY <1>2, <1>4, <1>5 DEF EInv, EachOK, Living, Emptied, Clean
<1>. QED
  BY <1>2, <1>3, <1>6, OneSteps

LEMMA Parent == ASSUME EInv, NEW t \in Thread, Exec!parent(t) PROVE EInv'
<1>. USE DEF Exec!parent, Exec!Goes
<1>. PICK ends \in SUBSET Exec!Ends : ends = {"in read", "out write", "err write"}
  BY DEF Exec!Ends
<1>1. /\ fds' \in [Thread -> [Exec!Ends -> SUBSET (Thread \cup {"parent"})]]
      /\ \A u \in Thread \ {t} : fds'[u] = fds[u]
      /\ \A e \in ends : fds'[t][e] = fds[t][e] \ {"parent"}
      /\ \A e \in Exec!Ends : t \in fds'[t][e] <=> t \in fds[t][e]
  BY ClosedIs DEF EInv
<1>2. /\ ExecTypes' /\ exec_pc'[t] = "write"
      /\ \A u \in Thread \ {t} : exec_pc'[u] = exec_pc[u] /\ active'[u] = active[u]
  BY <1>1 DEF EInv, ExecTypes, ExecPlaces
<1>3. Others(t)
  BY <1>1, <1>2 DEF Others
<1>4. Heard(t)'
  BY HeardStays DEF EInv, EachOK
<1>5. \A e \in Exec!Ends \ {"in write"} : e \in ends /\ "parent" \notin fds'[t][e]
  BY <1>1 DEF Exec!Ends
<1>6. EachOK(t)'
  BY <1>1, <1>2, <1>4, <1>5 DEF EInv, EachOK, Living, Emptied, Clean, Exec!Ends
<1>. QED
  BY <1>2, <1>3, <1>6, OneSteps

LEMMA Write == ASSUME EInv, NEW t \in Thread, Exec!write(t) PROVE EInv'
<1>1. /\ ExecTypes /\ EachOK(t) /\ UNCHANGED <<exec_pc, got, fds, program, exec_timer, active>>
  BY DEF EInv, Exec!write
<1>. DEFINE q == [pipe[t] EXCEPT !.in = @ + 1]
<1>2. q \in [in : Nat, out : Nat, err : Nat] /\ q.out = pipe[t].out /\ q.err = pipe[t].err
  BY <1>1, Has
<1>3. pipe' = [pipe EXCEPT ![t] = q]
  BY DEF Exec!write
<1>. HIDE DEF q
<1>4. ExecTypes' /\ Others(t) /\ pipe'[t] = q
  BY <1>1, <1>2, <1>3 DEF ExecTypes, Others
<1>5. Heard(t)'
  BY <1>1, <1>2, <1>4, HeardMoves DEF EachOK
<1>6. EachOK(t)'
  BY <1>1, <1>2, <1>4, <1>5 DEF EachOK, Living, Emptied, Clean
<1>. QED
  BY <1>4, <1>6, OneSteps

LEMMA Written == ASSUME EInv, NEW t \in Thread, Exec!written(t) PROVE EInv'
<1>. USE DEF Exec!written, Exec!Goes
<1>. PICK ends \in SUBSET Exec!Ends : ends = {"in write"}
  BY DEF Exec!Ends
<1>1. /\ fds' \in [Thread -> [Exec!Ends -> SUBSET (Thread \cup {"parent"})]]
      /\ \A u \in Thread \ {t} : fds'[u] = fds[u]
      /\ \A e \in ends : fds'[t][e] = fds[t][e] \ {"parent"}
      /\ \A e \in Exec!Ends \ ends : fds'[t][e] = fds[t][e]
      /\ \A e \in Exec!Ends : t \in fds'[t][e] <=> t \in fds[t][e]
  BY ClosedIs DEF EInv
<1>2. ExecTypes' /\ exec_pc'[t] = "out" /\ \A u \in Thread \ {t} : exec_pc'[u] = exec_pc[u]
  BY <1>1 DEF EInv, ExecTypes, ExecPlaces
<1>3. Others(t)
  BY <1>1, <1>2 DEF Others
<1>4. Heard(t)'
  BY HeardStays DEF EInv, EachOK
<1>5. \A e \in Exec!Ends : "parent" \notin fds[t][e] \/ e \in ends
  BY DEF EInv, EachOK, Clean
<1>6. \A e \in Exec!Ends : "parent" \notin fds'[t][e]
  BY <1>1, <1>5
<1>7. EachOK(t)'
  BY <1>1, <1>2, <1>4, <1>6 DEF EInv, EachOK, Living, Emptied, Clean, Exec!Ends
<1>. QED
  BY <1>2, <1>3, <1>7, OneSteps

\* What read() does to one of the pipes.
LEMMA ReadOut == ASSUME EInv, NEW t \in Thread, Exec!read_out(t) PROVE EInv'
<1>1. ExecTypes /\ EachOK(t) /\ exec_pc[t] = "out" /\ UNCHANGED <<left, fds, program, exec_timer, active>>
  BY DEF EInv, Exec!read_out
<1>2. CASE pipe[t].out > 0 /\ UNCHANGED exec_pc
  <2>. DEFINE q == [pipe[t] EXCEPT !.out = @ - 1]
              g == [got[t] EXCEPT !.out = @ + 1]
  <2>1. /\ q \in [in : Nat, out : Nat, err : Nat] /\ q.out = pipe[t].out - 1 /\ q.err = pipe[t].err
        /\ g \in [out : Nat, err : Nat] /\ g.out = got[t].out + 1 /\ g.err = got[t].err
    BY <1>1, <1>2, Has
  <2>2. pipe' = [pipe EXCEPT ![t] = q] /\ got' = [got EXCEPT ![t] = g]
    BY <1>1, <1>2 DEF Exec!read_out, Exec!Goes, ExecTypes, ExecPlaces
  <2>. HIDE DEF q, g
  <2>3. ExecTypes' /\ Others(t) /\ pipe'[t] = q /\ got'[t] = g
    BY <1>1, <1>2, <2>1, <2>2 DEF ExecTypes, Others
  <2>4. /\ got'[t].out + pipe'[t].out = got[t].out + pipe[t].out
        /\ got'[t].err + pipe'[t].err = got[t].err + pipe[t].err
    <3>1. /\ pipe[t].out \in Nat /\ got[t].out \in Nat /\ pipe[t].err \in Nat /\ got[t].err \in Nat
      BY <1>1, Has
    <3>. QED
      BY <2>1, <2>3, <3>1
  <2>5. Heard(t)'
    BY <1>1, <2>4, HeardMoves DEF EachOK
  <2>6. EachOK(t)'
    BY <1>1, <1>2, <2>1, <2>3, <2>5 DEF EachOK, Living, Emptied, Clean
  <2>. QED
    BY <2>3, <2>6, OneSteps
<1>3. CASE /\ pipe[t].out = 0 /\ fds[t]["out write"] = {} /\ UNCHANGED <<got, pipe>>
           /\ exec_pc' = [exec_pc EXCEPT ![t] = "err"]
  <2>1. ExecTypes' /\ Others(t) /\ exec_pc'[t] = "err"
    BY <1>1, <1>3 DEF ExecTypes, ExecPlaces, Others
  <2>2. Heard(t)'
    BY <1>1, <1>3, HeardStays DEF EachOK
  <2>3. EachOK(t)'
    BY <1>1, <1>3, <2>1, <2>2 DEF EachOK, Living, Emptied, Clean
  <2>. QED
    BY <2>1, <2>3, OneSteps
<1>. QED
  BY <1>2, <1>3 DEF Exec!read_out, Exec!Goes, Exec!ended

LEMMA ReadErr == ASSUME EInv, NEW t \in Thread, Exec!read_err(t) PROVE EInv'
<1>1. ExecTypes /\ EachOK(t) /\ exec_pc[t] = "err" /\ UNCHANGED <<left, fds, program, exec_timer, active>>
  BY DEF EInv, Exec!read_err
<1>2. CASE pipe[t].err > 0 /\ UNCHANGED exec_pc
  <2>. DEFINE q == [pipe[t] EXCEPT !.err = @ - 1]
              g == [got[t] EXCEPT !.err = @ + 1]
  <2>1. /\ q \in [in : Nat, out : Nat, err : Nat] /\ q.err = pipe[t].err - 1 /\ q.out = pipe[t].out
        /\ g \in [out : Nat, err : Nat] /\ g.err = got[t].err + 1 /\ g.out = got[t].out
    BY <1>1, <1>2, Has
  <2>2. pipe' = [pipe EXCEPT ![t] = q] /\ got' = [got EXCEPT ![t] = g]
    BY <1>1, <1>2 DEF Exec!read_err, Exec!Goes, ExecTypes, ExecPlaces
  <2>. HIDE DEF q, g
  <2>3. ExecTypes' /\ Others(t) /\ pipe'[t] = q /\ got'[t] = g
    BY <1>1, <1>2, <2>1, <2>2 DEF ExecTypes, Others
  <2>4. /\ got'[t].out + pipe'[t].out = got[t].out + pipe[t].out
        /\ got'[t].err + pipe'[t].err = got[t].err + pipe[t].err
    <3>1. /\ pipe[t].out \in Nat /\ got[t].out \in Nat /\ pipe[t].err \in Nat /\ got[t].err \in Nat
      BY <1>1, Has
    <3>. QED
      BY <2>1, <2>3, <3>1
  <2>5. Heard(t)'
    BY <1>1, <2>4, HeardMoves DEF EachOK
  <2>6. EachOK(t)'
    BY <1>1, <1>2, <2>1, <2>3, <2>5 DEF EachOK, Living, Emptied, Clean
  <2>. QED
    BY <2>3, <2>6, OneSteps
<1>3. CASE /\ pipe[t].err = 0 /\ fds[t]["err write"] = {} /\ UNCHANGED <<got, pipe>>
           /\ exec_pc' = [exec_pc EXCEPT ![t] = "wait"]
  <2>1. ExecTypes' /\ Others(t) /\ exec_pc'[t] = "wait"
    BY <1>1, <1>3 DEF ExecTypes, ExecPlaces, Others
  <2>2. Heard(t)'
    BY <1>1, <1>3, HeardStays DEF EachOK
  <2>3. EachOK(t)'
    BY <1>1, <1>3, <2>1, <2>2 DEF EachOK, Living, Emptied, Clean
  <2>. QED
    BY <2>1, <2>3, OneSteps
<1>. QED
  BY <1>2, <1>3 DEF Exec!read_err, Exec!Goes, Exec!ended

LEMMA GetExitStatus == ASSUME EInv, NEW t \in Thread, Exec!get_exit_status(t) PROVE EInv'
<1>1. /\ ExecTypes /\ EachOK(t) /\ exec_pc[t] = "wait" /\ ~program[t].alive
      /\ exec_pc' = [exec_pc EXCEPT ![t] = "done"] /\ active' = [active EXCEPT ![t] = FALSE]
      /\ UNCHANGED <<left, got, fds, pipe, exec_timer>>
  BY DEF EInv, Exec!get_exit_status, Exec!Goes
<1>. DEFINE p == [program[t] EXCEPT !.reaped = TRUE]
<1>2. /\ p \in [next : Seq(Step), all : Seq(Step), alive : BOOLEAN, reaped : BOOLEAN]
      /\ p.all = program[t].all /\ p.next = program[t].next /\ p.reaped
  BY <1>1 DEF ExecTypes
<1>3. p.alive = program[t].alive
  BY <1>1 DEF ExecTypes
<1>4. program' = [program EXCEPT ![t] = p]
  BY DEF Exec!get_exit_status
<1>. HIDE DEF p
<1>5. ExecTypes' /\ Others(t) /\ exec_pc'[t] = "done" /\ program'[t] = p
  BY <1>1, <1>2, <1>4 DEF ExecTypes, ExecPlaces, Others
<1>6. active'[t] = FALSE
  BY <1>1 DEF ExecTypes
<1>7. Heard(t)'
  BY <1>1, <1>2, <1>5, HeardStays DEF EachOK
<1>8. EachOK(t)'
  BY <1>1, <1>2, <1>3, <1>5, <1>6, <1>7 DEF EachOK, Living, Emptied, Clean
<1>. QED
  BY <1>5, <1>8, OneSteps

\* What is left of a program after n steps, and after one more.
Rest(all, next, n) ==
    /\ n = Len(all) - Len(next) /\ Len(next) <= Len(all)
    /\ \A i \in 1 .. Len(next) : next[i] = all[n + i]

LEMMA Further ==
    ASSUME NEW all \in Seq(Step), NEW next \in Seq(Step), NEW n, Rest(all, next, n), next # <<>>
    PROVE  /\ n \in Nat /\ n < Len(all) /\ Head(next) = all[n + 1]
           /\ Rest(all, Tail(next), n + 1)
<1>. USE DEF Rest
<1>1. Len(next) \in Nat /\ Len(all) \in Nat /\ Len(next) # 0
  BY EmptySeq
<1>2. /\ Len(Tail(next)) = Len(next) - 1 /\ Head(next) = next[1]
      /\ \A i \in 1 .. Len(next) - 1 : Tail(next)[i] = next[i + 1]
  BY HeadTailProperties
<1>3. n \in Nat /\ n < Len(all) /\ n + 1 = Len(all) - Len(Tail(next)) /\ Len(Tail(next)) <= Len(all)
  BY <1>1, <1>2
<1>4. 1 \in 1 .. Len(next)
  BY <1>1
<1>5. \A i \in 1 .. Len(Tail(next)) : Tail(next)[i] = all[(n + 1) + i]
  <2>. SUFFICES ASSUME NEW i \in 1 .. Len(Tail(next)) PROVE Tail(next)[i] = all[(n + 1) + i]
    OBVIOUS
  <2>1. i \in 1 .. Len(next) - 1 /\ i + 1 \in 1 .. Len(next) /\ n + (i + 1) = (n + 1) + i
    BY <1>1, <1>2, <1>3
  <2>. QED
    BY <1>2, <2>1
<1>. QED
  BY <1>2, <1>3, <1>4, <1>5

\* The program goes on by one step, and prints it or not.
LEMMA HeardMore ==
    ASSUME ExecTypes, NEW t \in Thread, Heard(t), program[t].next # <<>>,
           program'[t].all = program[t].all, program'[t].next = Tail(program[t].next),
           got'[t] = got[t],
           pipe'[t].out = pipe[t].out + (IF Head(program[t].next) = "out" THEN 1 ELSE 0),
           pipe'[t].err = pipe[t].err + (IF Head(program[t].next) = "err" THEN 1 ELSE 0)
    PROVE  Heard(t)'
<1>. DEFINE next == program[t].next
            all == program[t].all
            n == Len(all) - Len(next)
            out == IF Head(next) = "out" THEN 1 ELSE 0
            err == IF Head(next) = "err" THEN 1 ELSE 0
<1>1. /\ next \in Seq(Step) /\ all \in Seq(Step) /\ next # <<>>
      /\ got[t].out \in Nat /\ pipe[t].out \in Nat /\ got[t].err \in Nat /\ pipe[t].err \in Nat
  BY Has
<1>2. /\ Len(next) <= Len(all) /\ \A i \in 1 .. Len(next) : next[i] = all[n + i]
      /\ got[t].out + pipe[t].out = Printed(all, n, "out")
      /\ got[t].err + pipe[t].err = Printed(all, n, "err")
  BY DEF Heard
<1>3. /\ program'[t].all = all /\ program'[t].next = Tail(next) /\ got'[t] = got[t]
      /\ pipe'[t].out = pipe[t].out + out /\ pipe'[t].err = pipe[t].err + err
      /\ n = Len(all) - Len(next)
  OBVIOUS
<1>4. out \in Nat /\ err \in Nat
  OBVIOUS
<1>. HIDE DEF n, out, err
<1>5. n \in Nat /\ n < Len(all) /\ Head(next) = all[n + 1] /\ Rest(all, Tail(next), n + 1)
  <2>1. Rest(all, next, n)
    BY <1>2, <1>3 DEF Rest
  <2>. HIDE DEF next, all
  <2>. QED
    BY <1>1, <2>1, Further
<1>6. Printed(all, n + 1, "out") = Printed(all, n, "out") + out
  <2>1. Printed(all, n + 1, "out") = Printed(all, n, "out") + (IF all[n + 1] = "out" THEN 1 ELSE 0)
    <3>. HIDE DEF next, all
    <3>. QED
      BY <1>1, <1>5, PrintedMore
  <2>. QED
    BY <1>5, <2>1 DEF out
<1>7. Printed(all, n + 1, "err") = Printed(all, n, "err") + err
  <2>1. Printed(all, n + 1, "err") = Printed(all, n, "err") + (IF all[n + 1] = "err" THEN 1 ELSE 0)
    <3>. HIDE DEF next, all
    <3>. QED
      BY <1>1, <1>5, PrintedMore
  <2>. QED
    BY <1>5, <2>1 DEF err
<1>. HIDE DEF next, all
<1>8. /\ got'[t].out + pipe'[t].out = Printed(all, n + 1, "out")
      /\ got'[t].err + pipe'[t].err = Printed(all, n + 1, "err")
  <2>1. got'[t].out = got[t].out /\ got'[t].err = got[t].err
    BY <1>3
  <2>2. /\ got[t].out + (pipe[t].out + out) = (got[t].out + pipe[t].out) + out
        /\ got[t].err + (pipe[t].err + err) = (got[t].err + pipe[t].err) + err
    BY <1>1, <1>4
  <2>. QED
    BY <1>2, <1>3, <1>6, <1>7, <2>1, <2>2
<1>9. /\ Len(Tail(next)) <= Len(all)
      /\ \A i \in 1 .. Len(Tail(next)) : Tail(next)[i] = all[(Len(all) - Len(Tail(next))) + i]
      /\ got'[t].out + pipe'[t].out = Printed(all, Len(all) - Len(Tail(next)), "out")
      /\ got'[t].err + pipe'[t].err = Printed(all, Len(all) - Len(Tail(next)), "err")
  BY <1>5, <1>8 DEF Rest
<1>. QED
  BY <1>3, <1>9 DEF Heard

LEMMA Does == ASSUME EInv, NEW t \in Thread, Exec!does(t) PROVE EInv'
<1>1. /\ ExecTypes /\ EachOK(t) /\ program[t].alive /\ program[t].next # <<>>
      /\ UNCHANGED <<exec_pc, got, fds, exec_timer, active>>
  BY DEF EInv, Exec!does
<1>. DEFINE step == Head(program[t].next)
            p == [program[t] EXCEPT !.next = Tail(@)]
            o == [pipe[t] EXCEPT !.out = @ + 1]
            e == [pipe[t] EXCEPT !.err = @ + 1]
            in == [pipe[t] EXCEPT !.in = @ - 1]
<1>2. Tail(program[t].next) \in Seq(Step)
  BY <1>1, Has, HeadTailProperties
<1>3. /\ p \in [next : Seq(Step), all : Seq(Step), alive : BOOLEAN, reaped : BOOLEAN]
      /\ p.all = program[t].all /\ p.next = Tail(program[t].next)
  BY <1>1, <1>2 DEF ExecTypes
<1>4. p.alive = program[t].alive
  BY <1>1 DEF ExecTypes
<1>5. /\ o \in [in : Nat, out : Nat, err : Nat] /\ o.out = pipe[t].out + 1 /\ o.err = pipe[t].err
      /\ e \in [in : Nat, out : Nat, err : Nat] /\ e.out = pipe[t].out /\ e.err = pipe[t].err + 1
  BY <1>1, Has
<1>6. \/ step = "out" /\ pipe' = [pipe EXCEPT ![t] = o] /\ program' = [program EXCEPT ![t] = p]
      \/ step = "err" /\ pipe' = [pipe EXCEPT ![t] = e] /\ program' = [program EXCEPT ![t] = p]
      \/ pipe[t].in > 0 /\ pipe' = [pipe EXCEPT ![t] = in] /\ UNCHANGED program
      \/ step = "read" /\ UNCHANGED pipe /\ program' = [program EXCEPT ![t] = p]
  BY DEF Exec!does
<1>7. CASE pipe[t].in > 0 /\ pipe' = [pipe EXCEPT ![t] = in] /\ UNCHANGED program
  <2>1. in \in [in : Nat, out : Nat, err : Nat] /\ in.out = pipe[t].out /\ in.err = pipe[t].err
    BY <1>1, <1>7, Has
  <2>. HIDE DEF in, p, o, e, step
  <2>2. ExecTypes' /\ Others(t) /\ pipe'[t] = in
    BY <1>1, <1>7, <2>1 DEF ExecTypes, Others
  <2>3. Heard(t)'
    BY <1>1, <1>7, <2>1, <2>2, HeardMoves DEF EachOK
  <2>4. EachOK(t)'
    BY <1>1, <1>7, <2>1, <2>2, <2>3 DEF EachOK, Living, Emptied, Clean
  <2>. QED
    BY <2>2, <2>4, OneSteps
<1>8. CASE /\ program' = [program EXCEPT ![t] = p]
           /\ \/ step = "out" /\ pipe' = [pipe EXCEPT ![t] = o]
              \/ step = "err" /\ pipe' = [pipe EXCEPT ![t] = e]
              \/ step = "read" /\ UNCHANGED pipe
  <2>1. /\ step = "out" => pipe'[t] = o
        /\ step = "err" => pipe'[t] = e
        /\ step \notin {"out", "err"} => pipe'[t] = pipe[t]
        /\ pipe' \in [Thread -> [in : Nat, out : Nat, err : Nat]]
        /\ \A u \in Thread \ {t} : pipe'[u] = pipe[u]
    <3>. HIDE DEF o, e, step, p
    <3>1. pipe \in [Thread -> [in : Nat, out : Nat, err : Nat]]
      BY <1>1 DEF ExecTypes
    <3>2. CASE step = "out" /\ pipe' = [pipe EXCEPT ![t] = o]
      BY <1>5, <3>1, <3>2
    <3>3. CASE step = "err" /\ pipe' = [pipe EXCEPT ![t] = e]
      BY <1>5, <3>1, <3>3
    <3>4. CASE step = "read" /\ UNCHANGED pipe
      BY <3>1, <3>4
    <3>. QED
      BY <1>8, <3>2, <3>3, <3>4
  <2>2. /\ pipe'[t].out = pipe[t].out + (IF step = "out" THEN 1 ELSE 0)
        /\ pipe'[t].err = pipe[t].err + (IF step = "err" THEN 1 ELSE 0)
    <3>1. pipe[t].out \in Nat /\ pipe[t].err \in Nat
      BY <1>1, Has
    <3>. HIDE DEF o, e, step
    <3>. QED
      BY <1>5, <2>1, <3>1
  <2>3. ExecTypes' /\ Others(t) /\ program'[t] = p
    <3>. HIDE DEF o, e, step, p
    <3>. QED
      BY <1>1, <1>3, <1>8, <2>1 DEF ExecTypes, Others
  <2>4. Heard(t)'
    <3>. HIDE DEF p
    <3>. QED
      BY <1>1, <1>3, <2>2, <2>3, HeardMore DEF EachOK
  <2>. HIDE DEF p, o, e, in, step
  <2>5. EachOK(t)'
    BY <1>1, <1>3, <1>4, <2>3, <2>4 DEF EachOK, Living, Emptied, Clean
  <2>. QED
    BY <2>3, <2>5, OneSteps
<1>. QED
  BY <1>6, <1>7, <1>8

\* The ends a process has are closed when it ends.
LEMMA ExitedIs ==
    ASSUME ExecTypes, NEW t \in Thread, NEW all, all = Exec!Exited(fds, t)
    PROVE  /\ all \in [Thread -> [Exec!Ends -> SUBSET (Thread \cup {"parent"})]]
           /\ \A u \in Thread : \A e \in Exec!Ends : all[u][e] = fds[u][e] \ {t}
  BY DEF ExecTypes, Exec!Exited

LEMMA Exits == ASSUME EInv, NEW t \in Thread, Exec!exits(t) PROVE EInv'
<1>1. /\ ExecTypes /\ EachOK(t) /\ program[t].alive /\ program[t].next = <<>>
      /\ fds' = Exec!Exited(fds, t) /\ UNCHANGED <<exec_pc, left, got, pipe, exec_timer, active>>
  BY DEF EInv, Exec!exits
<1>. DEFINE p == [program[t] EXCEPT !.alive = FALSE]
<1>2. /\ p \in [next : Seq(Step), all : Seq(Step), alive : BOOLEAN, reaped : BOOLEAN]
      /\ p.all = program[t].all /\ p.next = program[t].next /\ ~p.alive
  BY <1>1 DEF ExecTypes
<1>3. program' = [program EXCEPT ![t] = p]
  BY DEF Exec!exits
<1>. HIDE DEF p
<1>4. /\ fds' \in [Thread -> [Exec!Ends -> SUBSET (Thread \cup {"parent"})]]
      /\ \A u \in Thread : \A e \in Exec!Ends : fds'[u][e] = fds[u][e] \ {t}
  BY <1>1, ExitedIs
<1>5. ExecTypes' /\ Others(t) /\ program'[t] = p
  <2>1. ExecTypes' /\ program'[t] = p /\ \A u \in Thread \ {t} : program'[u] = program[u]
    BY <1>1, <1>2, <1>3, <1>4 DEF ExecTypes
  <2>2. \A u \in Thread \ {t} : \A e \in Exec!Ends : \A q \in {u, "parent"} :
            q \in fds'[u][e] <=> q \in fds[u][e]
    BY <1>4, ParentApart
  <2>. QED
    BY <1>1, <2>1, <2>2 DEF Others
<1>6. Heard(t)'
  BY <1>1, <1>2, <1>5, HeardStays DEF EachOK
<1>7. \A e \in Exec!Ends : "parent" \in fds'[t][e] <=> "parent" \in fds[t][e]
  BY <1>4, ParentApart
<1>8. EachOK(t)'
  <2>1. Living(t)' /\ Emptied(t)'
    BY <1>1, <1>2, <1>5 DEF EachOK, Living, Emptied
  <2>2. Clean(t)'
    BY <1>1, <1>7 DEF EachOK, Clean
  <2>. QED
    BY <1>6, <2>1, <2>2 DEF EachOK
<1>. QED
  BY <1>5, <1>8, OneSteps
-----------------------------------------------------------------------------
\* What a process that has these ends gives or takes changes for no one else.
Touched(t) ==
    \A u \in Thread \ {t} : \A e \in Exec!Ends :
        \/ fds'[u][e] = fds[u][e]
        \/ fds'[u][e] = fds[u][e] \cup {t}
        \/ fds'[u][e] = fds[u][e] \ {t}

LEMMA OnlyOwn ==
    ASSUME NEW t \in Thread, Touched(t)
    PROVE  \A u \in Thread \ {t} : \A e \in Exec!Ends : \A q \in {u, "parent"} :
               q \in fds'[u][e] <=> q \in fds[u][e]
<1>. SUFFICES ASSUME NEW u \in Thread \ {t}, NEW e \in Exec!Ends, NEW q \in {u, "parent"}
              PROVE  q \in fds'[u][e] <=> q \in fds[u][e]
  OBVIOUS
<1>1. q # t
  BY ParentApart
<1>. QED
  BY <1>1 DEF Touched

\* In the threaded server the program gets the ends of other requests as well.
LEMMA ForkDoes ==
    ASSUME ExecTypes, NEW t \in Thread, Exec!fork(t) \/ Forked!fork(t)
    PROVE  /\ fds' \in [Thread -> [Exec!Ends -> SUBSET (Thread \cup {"parent"})]]
           /\ \A u \in Thread : \A e \in Exec!Ends :
                 fds'[u][e] = fds[u][e] \/ fds'[u][e] = fds[u][e] \cup {t}
           /\ t \in fds'[t]["out write"] /\ t \in fds'[t]["err write"]
           /\ exec_pc[t] = "fork" /\ exec_pc' = [exec_pc EXCEPT ![t] = "forked"]
           /\ program' = [program EXCEPT ![t].alive = TRUE]
           /\ UNCHANGED <<left, got, pipe, exec_timer, active>>
<1>1. /\ exec_pc[t] = "fork" /\ exec_pc' = [exec_pc EXCEPT ![t] = "forked"]
      /\ program' = [program EXCEPT ![t].alive = TRUE]
      /\ UNCHANGED <<left, got, pipe, exec_timer, active>>
  BY DEF Exec!fork, Exec!Goes, Forked!fork, Forked!Goes
<1>. DEFINE own == [fds[t] EXCEPT !["in read"] = @ \cup {t}, !["out write"] = @ \cup {t},
                                  !["err write"] = @ \cup {t}]
            inherited(u) == [e \in Exec!Ends |-> IF "parent" \in fds[u][e] THEN fds[u][e] \cup {t}
                                                 ELSE fds[u][e]]
<1>2. /\ own \in [Exec!Ends -> SUBSET (Thread \cup {"parent"})]
      /\ \A e \in Exec!Ends : own[e] = fds[t][e] \/ own[e] = fds[t][e] \cup {t}
      /\ t \in own["out write"] /\ t \in own["err write"]
  <2>. DEFINE f == fds[t]
              g == [e \in Exec!Ends |-> IF e \in {"in read", "out write", "err write"} THEN f[e] \cup {t} ELSE f[e]]
  <2>1. /\ f \in [Exec!Ends -> SUBSET (Thread \cup {"parent"})]
        /\ {"in read", "out write", "err write"} \subseteq Exec!Ends
    BY DEF ExecTypes, Exec!Ends
  <2>2. own = [f EXCEPT !["in read"] = @ \cup {t}, !["out write"] = @ \cup {t},
                        !["err write"] = @ \cup {t}]
    OBVIOUS
  <2>. HIDE DEF own, f
  <2>3. own = g
    BY <2>1, <2>2
  <2>4. /\ g \in [Exec!Ends -> SUBSET (Thread \cup {"parent"})]
        /\ \A e \in Exec!Ends : g[e] = f[e] \/ g[e] = f[e] \cup {t}
        /\ t \in g["out write"] /\ t \in g["err write"]
    BY <2>1
  <2>. QED
    BY <2>3, <2>4 DEF f
<1>3. \A u \in Thread : inherited(u) \in [Exec!Ends -> SUBSET (Thread \cup {"parent"})]
  BY DEF ExecTypes
<1>4. \/ fds' = [u \in Thread |-> IF u = t THEN own ELSE inherited(u)]
      \/ fds' = [u \in Thread |-> IF u = t THEN own ELSE fds[u]]
  BY DEF Exec!fork, Forked!fork, Exec!Ends, Forked!Ends
<1>5. \A u \in Thread : \A e \in Exec!Ends :
         inherited(u)[e] = fds[u][e] \/ inherited(u)[e] = fds[u][e] \cup {t}
  OBVIOUS
<1>6. fds \in [Thread -> [Exec!Ends -> SUBSET (Thread \cup {"parent"})]]
  BY DEF ExecTypes
<1>. HIDE DEF own, inherited
<1>7. CASE fds' = [u \in Thread |-> IF u = t THEN own ELSE inherited(u)]
  BY <1>1, <1>2, <1>3, <1>5, <1>7
<1>8. CASE fds' = [u \in Thread |-> IF u = t THEN own ELSE fds[u]]
  BY <1>1, <1>2, <1>6, <1>8
<1>. QED
  BY <1>4, <1>7, <1>8

LEMMA Fork == ASSUME EInv, NEW t \in Thread, Exec!fork(t) \/ Forked!fork(t) PROVE EInv'
<1>1. ExecTypes /\ EachOK(t)
  BY DEF EInv
<1>2. /\ fds' \in [Thread -> [Exec!Ends -> SUBSET (Thread \cup {"parent"})]]
      /\ \A u \in Thread : \A e \in Exec!Ends :
            fds'[u][e] = fds[u][e] \/ fds'[u][e] = fds[u][e] \cup {t}
      /\ t \in fds'[t]["out write"] /\ t \in fds'[t]["err write"]
      /\ exec_pc[t] = "fork" /\ exec_pc' = [exec_pc EXCEPT ![t] = "forked"]
      /\ program' = [program EXCEPT ![t].alive = TRUE]
      /\ UNCHANGED <<left, got, pipe, exec_timer, active>>
  BY <1>1, ForkDoes
<1>. DEFINE p == [program[t] EXCEPT !.alive = TRUE]
<1>3. /\ p \in [next : Seq(Step), all : Seq(Step), alive : BOOLEAN, reaped : BOOLEAN]
      /\ p.all = program[t].all /\ p.next = program[t].next /\ p.alive
  BY <1>1 DEF ExecTypes
<1>4. program' = [program EXCEPT ![t] = p]
  BY <1>2
<1>. HIDE DEF p
<1>5. ExecTypes' /\ program'[t] = p /\ exec_pc'[t] = "forked"
  <2>1. exec_pc' \in [Thread -> ExecPlaces] /\ exec_pc'[t] = "forked"
    BY <1>1, <1>2 DEF ExecTypes, ExecPlaces
  <2>2. /\ program' \in [Thread -> [next : Seq(Step), all : Seq(Step), alive : BOOLEAN, reaped : BOOLEAN]]
        /\ program'[t] = p
    BY <1>1, <1>3, <1>4 DEF ExecTypes
  <2>3. /\ got' = got /\ pipe' = pipe /\ exec_timer' = exec_timer /\ active' = active
        /\ fds' \in [Thread -> [Exec!Ends -> SUBSET (Thread \cup {"parent"})]]
    BY <1>2
  <2>. QED
    BY <1>1, <2>1, <2>2, <2>3 DEF ExecTypes
<1>6. Others(t)
  <2>1. \A u \in Thread \ {t} : program'[u] = program[u] /\ exec_pc'[u] = exec_pc[u]
    BY <1>1, <1>2, <1>4 DEF ExecTypes
  <2>2. \A u \in Thread \ {t} : \A e \in Exec!Ends : \A q \in {u, "parent"} :
            q \in fds'[u][e] <=> q \in fds[u][e]
    <3>1. Touched(t)
      BY <1>2 DEF Touched
    <3>. QED
      BY <3>1, OnlyOwn
  <2>. QED
    BY <1>2, <2>1, <2>2 DEF Others
<1>7. Heard(t)'
  BY <1>1, <1>2, <1>3, <1>5, HeardStays DEF EachOK
<1>8. EachOK(t)'
  BY <1>1, <1>2, <1>3, <1>5, <1>7 DEF EachOK, Living, Emptied, Clean
<1>. QED
  BY <1>5, <1>6, <1>8, OneSteps

\* What the signal can do to the ends: those of its request become d, after the program
\* has lost its own, or not.
LEMMA ShutOwn ==
    ASSUME NEW t \in Thread, NEW dead \in [Thread -> [Exec!Ends -> SUBSET (Thread \cup {"parent"})]],
           \A u \in Thread : \A e \in Exec!Ends : dead[u][e] = fds[u][e] \/ dead[u][e] = fds[u][e] \ {t},
           NEW d \in [Exec!Ends -> SUBSET (Thread \cup {"parent"})], fds' = [dead EXCEPT ![t] = d],
           \A e \in Exec!Ends : d[e] \subseteq dead[t][e]
    PROVE  /\ fds' \in [Thread -> [Exec!Ends -> SUBSET (Thread \cup {"parent"})]] /\ fds'[t] = d
           /\ \A u \in Thread \ {t} : \A e \in Exec!Ends :
                 fds'[u][e] = fds[u][e] \/ fds'[u][e] = fds[u][e] \ {t}
           /\ \A e \in Exec!Ends : "parent" \in fds'[t][e] => "parent" \in fds[t][e]
<1>1. fds' \in [Thread -> [Exec!Ends -> SUBSET (Thread \cup {"parent"})]] /\ fds'[t] = d /\ \A u \in Thread \ {t} : fds'[u] = dead[u]
  OBVIOUS
<1>2. \A e \in Exec!Ends : "parent" \in d[e] => "parent" \in fds[t][e]
  <2>. TAKE e \in Exec!Ends
  <2>1. d[e] \subseteq dead[t][e] /\ (dead[t][e] = fds[t][e] \/ dead[t][e] = fds[t][e] \ {t})
    OBVIOUS
  <2>. QED
    BY <2>1
<1>. QED
  BY <1>1, <1>2

LEMMA DeadIs ==
    ASSUME ExecTypes, NEW t \in Thread, NEW dead, dead = Exec!Exited(fds, t) \/ dead = fds
    PROVE  /\ dead \in [Thread -> [Exec!Ends -> SUBSET (Thread \cup {"parent"})]]
           /\ \A u \in Thread : \A e \in Exec!Ends : dead[u][e] = fds[u][e] \/ dead[u][e] = fds[u][e] \ {t}
<1>1. fds \in [Thread -> [Exec!Ends -> SUBSET (Thread \cup {"parent"})]]
  BY DEF ExecTypes
<1>2. CASE dead = fds
  BY <1>1, <1>2
<1>3. CASE dead = Exec!Exited(fds, t)
  BY <1>3, ExitedIs
<1>. QED
  BY <1>2, <1>3

LEMMA ShutIs ==
    ASSUME ExecTypes, NEW t \in Thread, NEW dead, dead = Exec!Exited(fds, t) \/ dead = fds,
           \/ fds' = dead
           \/ fds' = [dead EXCEPT ![t] = [e \in Exec!Ends |-> @[e] \ {"parent"}]]
           \/ fds' = [dead EXCEPT ![t]["in write"] = @ \ {"parent"}]
    PROVE  /\ fds' \in [Thread -> [Exec!Ends -> SUBSET (Thread \cup {"parent"})]]
           /\ \A u \in Thread \ {t} : \A e \in Exec!Ends :
                 fds'[u][e] = fds[u][e] \/ fds'[u][e] = fds[u][e] \ {t}
           /\ \A e \in Exec!Ends : "parent" \in fds'[t][e] => "parent" \in fds[t][e]
           /\ fds' = [dead EXCEPT ![t]["in write"] = @ \ {"parent"}] =>
                 "parent" \notin fds'[t]["in write"]
<1>1. /\ dead \in [Thread -> [Exec!Ends -> SUBSET (Thread \cup {"parent"})]]
      /\ \A u \in Thread : \A e \in Exec!Ends : dead[u][e] = fds[u][e] \/ dead[u][e] = fds[u][e] \ {t}
  BY DeadIs
<1>2. "in write" \in Exec!Ends
  BY DEF Exec!Ends
<1>. DEFINE all == dead[t]
<1>3. all \in [Exec!Ends -> SUBSET (Thread \cup {"parent"})] /\ [dead EXCEPT ![t] = all] = dead
  BY <1>1
<1>. DEFINE none == [e \in Exec!Ends |-> all[e] \ {"parent"}]
            open == [all EXCEPT !["in write"] = @ \ {"parent"}]
<1>. HIDE DEF all
<1>4. none \in [Exec!Ends -> SUBSET (Thread \cup {"parent"})] /\ \A e \in Exec!Ends : none[e] \subseteq all[e]
  BY <1>3
<1>5. /\ open \in [Exec!Ends -> SUBSET (Thread \cup {"parent"})] /\ "parent" \notin open["in write"]
      /\ \A e \in Exec!Ends : open[e] \subseteq all[e]
  BY <1>2, <1>3
<1>6. /\ [dead EXCEPT ![t] = [e \in Exec!Ends |-> @[e] \ {"parent"}]] = [dead EXCEPT ![t] = none]
      /\ [dead EXCEPT ![t]["in write"] = @ \ {"parent"}] = [dead EXCEPT ![t] = open]
  BY DEF all
<1>. HIDE DEF none, open
<1>7. PICK d \in {all, none, open} : fds' = [dead EXCEPT ![t] = d]
  BY <1>3, <1>6
<1>8. d \in [Exec!Ends -> SUBSET (Thread \cup {"parent"})] /\ \A e \in Exec!Ends : d[e] \subseteq all[e]
  BY <1>3, <1>4, <1>5
<1>9. \A e \in Exec!Ends : d[e] \subseteq dead[t][e]
  BY <1>8 DEF all
<1>10. /\ fds' \in [Thread -> [Exec!Ends -> SUBSET (Thread \cup {"parent"})]] /\ fds'[t] = d
       /\ \A u \in Thread \ {t} : \A e \in Exec!Ends :
             fds'[u][e] = fds[u][e] \/ fds'[u][e] = fds[u][e] \ {t}
       /\ \A e \in Exec!Ends : "parent" \in fds'[t][e] => "parent" \in fds[t][e]
  BY <1>1, <1>7, <1>8, <1>9, ShutOwn
<1>11. fds' = [dead EXCEPT ![t] = open] => fds'[t] = open
  BY <1>1
<1>. QED
  BY <1>5, <1>6, <1>10, <1>11

\* The signal closes nothing but ends of the program and of the request.
LEMMA ExpiresDoes ==
    ASSUME ExecTypes, NEW t \in Thread, Exec!expires(t) \/ Forked!expires(t)
    PROVE  /\ fds' \in [Thread -> [Exec!Ends -> SUBSET (Thread \cup {"parent"})]]
           /\ \A u \in Thread \ {t} : \A e \in Exec!Ends :
                 fds'[u][e] = fds[u][e] \/ fds'[u][e] = fds[u][e] \ {t}
           /\ \A e \in Exec!Ends : "parent" \in fds'[t][e] => "parent" \in fds[t][e]
           /\ exec_pc[t] \notin {"done", "failed", "killed"}
           /\ \/ UNCHANGED exec_pc
              \/ exec_pc' = [exec_pc EXCEPT ![t] = "killed"]
              \/ /\ exec_pc[t] = "write" /\ exec_pc' = [exec_pc EXCEPT ![t] = "out"]
                 /\ "parent" \notin fds'[t]["in write"]
              \/ exec_pc[t] = "out" /\ exec_pc' = [exec_pc EXCEPT ![t] = "err"]
              \/ exec_pc[t] = "err" /\ exec_pc' = [exec_pc EXCEPT ![t] = "wait"]
           /\ \E alive \in BOOLEAN : program' = [program EXCEPT ![t].alive = alive]
           /\ \E timer \in {"again", "over"} : exec_timer' = [exec_timer EXCEPT ![t] = timer]
           /\ UNCHANGED <<left, got, pipe, active>>
<1>. DEFINE alive == program[t].alive /\ ~(active[t] /\ program[t].alive)
            dead == IF active[t] /\ program[t].alive THEN Exec!Exited(fds, t) ELSE fds
            half == [dead EXCEPT ![t]["in write"] = @ \ {"parent"}]
            Moves ==
                \/ /\ exec_pc' = [exec_pc EXCEPT ![t] = "killed"]
                   /\ fds' = [dead EXCEPT ![t] = [e \in Exec!Ends |-> @[e] \ {"parent"}]]
                \/ UNCHANGED exec_pc /\ fds' = dead
                \/ exec_pc[t] = "write" /\ exec_pc' = [exec_pc EXCEPT ![t] = "out"] /\ fds' = half
                \/ exec_pc[t] = "out" /\ exec_pc' = [exec_pc EXCEPT ![t] = "err"] /\ fds' = dead
                \/ exec_pc[t] = "err" /\ exec_pc' = [exec_pc EXCEPT ![t] = "wait"] /\ fds' = dead
<1>1. alive \in BOOLEAN /\ (dead = Exec!Exited(fds, t) \/ dead = fds)
  OBVIOUS
<1>2. /\ exec_pc[t] \notin {"done", "failed", "killed"} /\ UNCHANGED <<left, got, pipe, active>>
      /\ program' = [program EXCEPT ![t].alive = alive]
      /\ \/ exec_timer' = [exec_timer EXCEPT ![t] = "over"]
         \/ exec_timer' = [exec_timer EXCEPT ![t] = IF @ = "again" THEN "over" ELSE "again"]
  <2>1. CASE Exec!expires(t)
    BY <2>1 DEF Exec!expires, Exec!Over, Exec!kills
  <2>2. CASE Forked!expires(t)
    BY <2>2 DEF Forked!expires, Forked!Over, Forked!kills
  <2>. QED
    BY <2>1, <2>2
<1>3. Moves
  <2>1. CASE Exec!expires(t)
    BY <2>1 DEF Exec!expires, Exec!kills, Exec!Goes, Exec!Interrupted
  <2>2. CASE Forked!expires(t)
    BY <2>2 DEF Forked!expires, Forked!kills, Forked!Goes, Forked!Interrupted, Forked!Exited,
                Exec!Exited, Forked!Ends, Exec!Ends
  <2>. QED
    BY <2>1, <2>2
<1>4. \E timer \in {"again", "over"} : exec_timer' = [exec_timer EXCEPT ![t] = timer]
  <2>1. (IF exec_timer[t] = "again" THEN "over" ELSE "again") \in {"again", "over"}
    OBVIOUS
  <2>. QED
    BY <1>2, <2>1
<1>5. \E b \in BOOLEAN : program' = [program EXCEPT ![t].alive = b]
  <2>. HIDE DEF alive
  <2>. QED
    BY <1>1, <1>2
<1>. HIDE DEF dead, alive
<1>6. /\ fds' \in [Thread -> [Exec!Ends -> SUBSET (Thread \cup {"parent"})]]
      /\ \A u \in Thread \ {t} : \A e \in Exec!Ends :
            fds'[u][e] = fds[u][e] \/ fds'[u][e] = fds[u][e] \ {t}
      /\ \A e \in Exec!Ends : "parent" \in fds'[t][e] => "parent" \in fds[t][e]
      /\ fds' = half => "parent" \notin fds'[t]["in write"]
  BY <1>1, <1>3, ShutIs
<1>. HIDE DEF half
<1>. QED
  BY <1>2, <1>3, <1>4, <1>5, <1>6

LEMMA Expires == ASSUME EInv, NEW t \in Thread, Exec!expires(t) \/ Forked!expires(t) PROVE EInv'
<1>1. ExecTypes /\ EachOK(t)
  BY DEF EInv
<1>2. /\ fds' \in [Thread -> [Exec!Ends -> SUBSET (Thread \cup {"parent"})]]
      /\ \A u \in Thread \ {t} : \A e \in Exec!Ends :
            fds'[u][e] = fds[u][e] \/ fds'[u][e] = fds[u][e] \ {t}
      /\ \A e \in Exec!Ends : "parent" \in fds'[t][e] => "parent" \in fds[t][e]
      /\ exec_pc[t] \notin {"done", "failed", "killed"}
      /\ \/ UNCHANGED exec_pc
         \/ exec_pc' = [exec_pc EXCEPT ![t] = "killed"]
         \/ /\ exec_pc[t] = "write" /\ exec_pc' = [exec_pc EXCEPT ![t] = "out"]
            /\ "parent" \notin fds'[t]["in write"]
         \/ exec_pc[t] = "out" /\ exec_pc' = [exec_pc EXCEPT ![t] = "err"]
         \/ exec_pc[t] = "err" /\ exec_pc' = [exec_pc EXCEPT ![t] = "wait"]
      /\ \E alive \in BOOLEAN : program' = [program EXCEPT ![t].alive = alive]
      /\ \E timer \in {"again", "over"} : exec_timer' = [exec_timer EXCEPT ![t] = timer]
      /\ UNCHANGED <<left, got, pipe, active>>
  BY <1>1, ExpiresDoes
<1>3. PICK timer \in {"again", "over"} : exec_timer' = [exec_timer EXCEPT ![t] = timer]
  BY <1>2
<1>4. PICK alive \in BOOLEAN : program' = [program EXCEPT ![t].alive = alive]
  BY <1>2
<1>. DEFINE p == [program[t] EXCEPT !.alive = alive]
<1>5. /\ p \in [next : Seq(Step), all : Seq(Step), alive : BOOLEAN, reaped : BOOLEAN]
      /\ p.all = program[t].all /\ p.next = program[t].next
  BY <1>1 DEF ExecTypes
<1>6. program' = [program EXCEPT ![t] = p]
  BY <1>4
<1>. HIDE DEF p
<1>7. /\ ExecTypes' /\ program'[t] = p /\ exec_timer'[t] # "set"
      /\ \A u \in Thread \ {t} : /\ program'[u] = program[u] /\ exec_pc'[u] = exec_pc[u]
                                 /\ exec_timer'[u] = exec_timer[u]
  <2>1. exec_pc' \in [Thread -> ExecPlaces] /\ \A u \in Thread \ {t} : exec_pc'[u] = exec_pc[u]
    BY <1>1, <1>2 DEF ExecTypes, ExecPlaces
  <2>2. /\ exec_timer' \in [Thread -> {"set", "again", "over"}] /\ exec_timer'[t] # "set"
        /\ \A u \in Thread \ {t} : exec_timer'[u] = exec_timer[u]
    BY <1>1, <1>3 DEF ExecTypes
  <2>. QED
    BY <1>1, <1>2, <1>5, <1>6, <2>1, <2>2 DEF ExecTypes
<1>8. Others(t)
  <2>1. \A u \in Thread \ {t} : \A e \in Exec!Ends : \A q \in {u, "parent"} :
            q \in fds'[u][e] <=> q \in fds[u][e]
    <3>1. Touched(t)
      BY <1>2 DEF Touched
    <3>. QED
      BY <3>1, OnlyOwn
  <2>. QED
    BY <1>2, <1>7, <2>1 DEF Others
<1>9. Heard(t)' /\ Living(t)' /\ Emptied(t)'
  BY <1>1, <1>2, <1>5, <1>7, HeardStays DEF EachOK, Living, Emptied
<1>10. Clean(t)'
  BY <1>1, <1>2 DEF EachOK, Clean, ExecTypes
<1>. QED
  BY <1>7, <1>8, <1>9, <1>10, OneSteps DEF EachOK
-----------------------------------------------------------------------------
\* At first no program runs and every pipe is closed.
LEMMA NothingPrinted ==
    ASSUME NEW all \in Seq(Step), NEW what
    PROVE  Printed(all, Len(all) - Len(all), what) = 0
<1>1. Len(all) - Len(all) = 0
  OBVIOUS
<1>2. {i \in 1 .. 0 : all[i] = what} = {}
  OBVIOUS
<1>3. Cardinality({}) = 0
  BY FS_EmptySet
<1>. QED
  BY <1>1, <1>2, <1>3 DEF Printed

LEMMA ExecInitially == Exec!Init => EInv
<1>. SUFFICES ASSUME Exec!Init PROVE EInv
  OBVIOUS
<1>1. Script \subseteq Seq(Step)
  BY ExecConstants DEF Exec!ConstantsOK, Step
<1>2. \A t \in Thread :
         /\ program[t] \in [next : Seq(Step), all : Seq(Step), alive : BOOLEAN, reaped : BOOLEAN]
         /\ program[t].next = program[t].all /\ ~program[t].alive
  <2>. TAKE t \in Thread
  <2>1. PICK s \in Script : program[t] = [next |-> s, all |-> s, alive |-> FALSE, reaped |-> FALSE]
    BY DEF Exec!Init
  <2>. QED
    BY <1>1, <2>1
<1>3. program \in [Thread -> [next : Seq(Step), all : Seq(Step), alive : BOOLEAN, reaped : BOOLEAN]]
  <2>1. program = [t \in Thread |-> program[t]]
    BY DEF Exec!Init
  <2>. QED
    BY <1>2, <2>1
<1>4. ExecTypes
  <2>1. exec_pc \in [Thread -> ExecPlaces] /\ exec_timer \in [Thread -> {"set", "again", "over"}]
    BY DEF Exec!Init, ExecPlaces
  <2>2. /\ got \in [Thread -> [out : Nat, err : Nat]]
        /\ pipe \in [Thread -> [in : Nat, out : Nat, err : Nat]]
    BY DEF Exec!Init
  <2>3. fds \in [Thread -> [Exec!Ends -> SUBSET (Thread \cup {"parent"})]]
    BY DEF Exec!Init, Exec!NoEnds
  <2>4. active \in [Thread -> BOOLEAN]
    BY DEF Exec!Init
  <2>. QED
    BY <1>3, <2>1, <2>2, <2>3, <2>4 DEF ExecTypes
<1>5. ASSUME NEW t \in Thread PROVE EachOK(t)
  <2>1. /\ exec_pc[t] = "start" /\ exec_timer[t] = "set" /\ ~active[t]
        /\ got[t] = [out |-> 0, err |-> 0] /\ pipe[t] = [in |-> 0, out |-> 0, err |-> 0]
    BY DEF Exec!Init
  <2>2. Heard(t)
    <3>. DEFINE all == program[t].all
    <3>1. all \in Seq(Step) /\ program[t].next = all
      BY <1>2
    <3>. HIDE DEF all
    <3>2. Printed(all, Len(all) - Len(all), "out") = 0 /\ Printed(all, Len(all) - Len(all), "err") = 0
      BY <3>1, NothingPrinted
    <3>3. Len(all) \in Nat
      BY <3>1
    <3>4. \A i \in 1 .. Len(all) : all[i] = all[(Len(all) - Len(all)) + i]
      BY <3>3
    <3>. QED
      BY <2>1, <3>1, <3>2, <3>3, <3>4 DEF Heard, all
  <2>. QED
    BY <1>2, <2>1, <2>2 DEF EachOK, Living, Emptied, Clean
<1>. QED
  BY <1>4, <1>5 DEF EInv

\* A step of the programs keeps EInv, in either mode.
LEMMA CommonKeeps == ASSUME EInv, NEW t \in Thread, Common(t) PROVE EInv'
  BY OpenPipes, Parent, Write, Written, ReadOut, ReadErr, GetExitStatus, PipeFails, ForkFails,
     Does, Exits DEF Common

LEMMA ExecStep == ASSUME EInv, Exec!Next \/ Forked!Next PROVE EInv'
<1>1. CASE Exec!Next
  <2>1. PICK t \in Thread : \/ Exec!parent_step(t) \/ Exec!pipe_fails(t) \/ Exec!fork_fails(t)
                            \/ Exec!does(t) \/ Exec!exits(t) \/ Exec!expires(t)
    BY <1>1 DEF Exec!Next
  <2>2. Common(t) \/ Exec!fork(t) \/ Exec!expires(t)
    BY <2>1 DEF Exec!parent_step, Common
  <2>. QED
    BY <2>2, CommonKeeps, Fork, Expires
<1>2. CASE Forked!Next
  BY <1>2, ForkedSteps, CommonKeeps, Fork, Expires
<1>. QED
  BY <1>1, <1>2

LEMMA ExecStutter == EInv /\ UNCHANGED programs => EInv'
<1>. SUFFICES ASSUME EInv, UNCHANGED programs PROVE EInv'
  OBVIOUS
<1>1. ExecTypes'
  BY DEF programs, EInv, ExecTypes
<1>2. ASSUME NEW u \in Thread PROVE EachOK(u)'
  BY OthersKeep DEF programs
<1>. QED
  BY <1>1, <1>2 DEF EInv

\* A program of a finished request that no timeout has touched has printed all that it
\* prints, and all of it has been read.
LEMMA WholeAtTheEnd == EInv => Exec!OutputWhole /\ Exec!NothingLeft
<1>. SUFFICES ASSUME EInv PROVE Exec!OutputWhole /\ Exec!NothingLeft
  OBVIOUS
<1>1. ASSUME NEW t \in Thread, exec_pc[t] = "done", exec_timer[t] = "set"
      PROVE  /\ got[t] = [out |-> Exec!Prints(t, "out"), err |-> Exec!Prints(t, "err")]
             /\ program[t].reaped
  <2>. DEFINE all == program[t].all
  <2>1. ExecTypes /\ Heard(t) /\ Living(t) /\ Emptied(t)
    BY DEF EInv, EachOK
  <2>2. ~program[t].alive /\ pipe[t].out = 0 /\ pipe[t].err = 0 /\ program[t].reaped
    BY <1>1, <2>1 DEF Emptied
  <2>3. program[t].next = <<>>
    BY <1>1, <2>1, <2>2 DEF Living
  <2>4. all \in Seq(Step) /\ Len(all) \in Nat /\ got[t].out \in Nat /\ got[t].err \in Nat
        /\ got[t] = [out |-> got[t].out, err |-> got[t].err]
    BY <2>1 DEF ExecTypes
  <2>5. /\ got[t].out + pipe[t].out = Printed(all, Len(all) - Len(program[t].next), "out")
        /\ got[t].err + pipe[t].err = Printed(all, Len(all) - Len(program[t].next), "err")
    BY <2>1 DEF Heard
  <2>. HIDE DEF all
  <2>6. Len(all) - Len(program[t].next) = Len(all)
    BY <2>3, <2>4
  <2>7. got[t].out = Printed(all, Len(all), "out") /\ got[t].err = Printed(all, Len(all), "err")
    <3>1. got[t].out + 0 = got[t].out /\ got[t].err + 0 = got[t].err
      BY <2>4
    <3>. QED
      BY <2>2, <2>5, <2>6, <3>1
  <2>8. DOMAIN all = 1 .. Len(all)
    BY <2>4
  <2>9. Exec!Prints(t, "out") = Printed(all, Len(all), "out") /\ Exec!Prints(t, "err") = Printed(all, Len(all), "err")
    BY <2>8 DEF Exec!Prints, Printed, all, Exec!Cardinality, Cardinality
  <2>. QED
    BY <2>2, <2>4, <2>7, <2>9
<1>2. ASSUME NEW t \in Thread, exec_pc[t] \in {"done", "failed"}
      PROVE  ~active[t] /\ \A e \in Exec!Ends : "parent" \notin fds[t][e]
  BY <1>2 DEF EInv, EachOK, Clean
<1>. QED
  BY <1>1, <1>2 DEF Exec!OutputWhole, Exec!NothingLeft
-----------------------------------------------------------------------------
PInv == part \in Execs => EInv

LEMMA ServingPrograms == ServingSpec => []PInv
<1>1. ServingInit => PInv
  BY ExecInitially DEF ServingInit, PInv, Execs
<1>2. PInv /\ [ServingNext]_<<part, vars, request, programs>> => PInv'
  <2>. SUFFICES ASSUME PInv, [ServingNext]_<<part, vars, request, programs>> PROVE PInv'
    OBVIOUS
  <2>1. CASE part \notin Execs /\ part' = part
    BY <2>1 DEF PInv
  <2>2. CASE part \in Execs /\ part' = part /\ (Exec!Next \/ Forked!Next)
    BY <2>2, ExecStep DEF PInv
  <2>3. CASE UNCHANGED <<part, vars, request, programs>>
    BY <2>3, ExecStutter DEF PInv
  <2>. QED
    BY <2>1, <2>2, <2>3 DEF ServingNext, Execs
<1>. QED
  BY <1>1, <1>2, PTL DEF ServingSpec

\* A request whose program ends before any timeout reads all that the program prints,
\* though programs of other requests may hold the ends of its pipes, and whatever way out
\* pa_exec() takes, the server keeps no end of a pipe and no number of a program.
THEOREM ProgramsAreHeard == ServingSpec => []ProgramsHeard
<1>1. PInv => ProgramsHeard
  BY WholeAtTheEnd DEF PInv, ProgramsHeard
<1>. QED
  BY <1>1, ServingPrograms, PTL

\* In each of the behaviours that are looked at side by side the accept loop makes steps
\* of its own or none, so what is proved of the server above holds there: httpd_mode()
\* and its threads and children do not depend on what a request does meanwhile.
THEOREM ServerUndisturbed == ServingSpec => Spec
<1>1. ServingInit => Init
  BY DEF ServingInit, NoHttpd
<1>2. [ServingNext]_<<part, vars, request, programs>> => [Next]_vars
  BY DEF ServingNext
<1>. QED
  BY <1>1, <1>2, PTL DEF ServingSpec, Spec
=============================================================================
