---------------------------- MODULE Caches_proof ----------------------------
(***************************************************************************)
(* What a process keeps from request to request.                           *)
(*                                                                         *)
(* A connection has one user, for any number of threads, urls and          *)
(* connections, however ^connect is nested and whatever the driver does;   *)
(* in a process with one thread the cache gives what can be used, and the  *)
(* driver gets an open handle of its own.                                  *)
(*                                                                         *)
(* The expiration pass, which does not lock the mutex, changes neither the *)
(* stacks nor what a request holds, so it can be anywhere.  What the other *)
(* actions need is that a request that is going to give a connection back  *)
(* holds one (Holds), and then each of them moves one connection from a    *)
(* place to another.  The other two facts are about one thread, OneThread: *)
(* the inductive invariant is OneInv, stated below with its reasons.       *)
(*                                                                         *)
(* Then the code of classes.  That a class answers with its own method or  *)
(* with that of its base needs to know what the code keeps of the whole    *)
(* family: no class is above itself, each is known to all those above it,  *)
(* and has their methods but for its own (Whole).  That @auto is run once  *)
(* needs what is being loaded (Request): the files do not share classes,   *)
(* what has been run is of files that are done, and each file gives back   *)
(* the @auto of MAIN of the one that uses it.  And what is in the cache    *)
(* is a record of its file, compiled earlier (System).                     *)
(*                                                                         *)
(* At the end, what is proved of the stylesheets, for the two instances of *)
(* StylesheetManager that Caches runs.  The invariants and their proofs    *)
(* are those of StylesheetManager_proof.                                   *)
(***************************************************************************)
EXTENDS Caches, SequenceTheorems, TLAPS

Types ==
    /\ cache \in [Url -> Seq(Conn)] /\ held \in [Thread -> Seq(Conn)]
    /\ pc \in [Thread -> {"idle", "expire", "disconnect", "disconnected", "ready", "ping",
                          "reconnect", "connect", "body", "commit", "close", "rollback",
                          "rolledback"}]
Holds ==
    \A t \in Thread :
        pc[t] \in {"ping", "body", "commit", "close", "rollback", "rolledback"} => held[t] # <<>>

IInv == Types /\ Holds /\ ExclusiveUse
-----------------------------------------------------------------------------
\* The beginning of a stack
LEMMA Beginning ==
    ASSUME NEW s \in Seq(Conn), NEW n \in 0 .. Len(s)
    PROVE  /\ SubSeq(s, 1, n) \in Seq(Conn) /\ Len(SubSeq(s, 1, n)) = n
           /\ \A i \in 1 .. n : SubSeq(s, 1, n)[i] = s[i]
  BY SubSeqProperties

\* A stack with one more
LEMMA Pushed ==
    ASSUME NEW s \in Seq(Conn), NEW c \in Conn
    PROVE  /\ Append(s, c) \in Seq(Conn) /\ Len(Append(s, c)) = Len(s) + 1
           /\ \A i \in 1 .. Len(s) : Append(s, c)[i] = s[i]
           /\ Append(s, c)[Len(s) + 1] = c
  BY AppendProperties

LEMMA Dropped ==
    ASSUME NEW s \in Seq(Conn), s # <<>>
    PROVE  /\ Len(s) - 1 \in 0 .. Len(s) /\ s[Len(s)] \in Conn
           /\ SubSeq(s, 1, Len(s) - 1) \in Seq(Conn)
           /\ Len(SubSeq(s, 1, Len(s) - 1)) = Len(s) - 1
           /\ \A i \in 1 .. Len(s) - 1 : SubSeq(s, 1, Len(s) - 1)[i] = s[i]
<1>1. Len(s) \in Nat /\ Len(s) # 0
  BY EmptySeq
<1>2. Len(s) - 1 \in 0 .. Len(s) /\ Len(s) \in 1 .. Len(s)
  BY <1>1
<1>3. s[Len(s)] \in Conn
  BY <1>2, ElementOfSeq
<1>. QED
  BY <1>2, <1>3, Beginning
-----------------------------------------------------------------------------
\* ExclusiveUse, of stacks ca and of what the threads hold he, place by place
Stacks(ca, he) == ca \in [Url -> Seq(Conn)] /\ he \in [Thread -> Seq(Conn)]
Once(ca, he) ==
    /\ \A u, v \in Url : \A i \in 1 .. Len(ca[u]), j \in 1 .. Len(ca[v]) :
           ca[u][i] = ca[v][j] => u = v /\ i = j
    /\ \A s, t \in Thread : \A i \in 1 .. Len(he[s]), j \in 1 .. Len(he[t]) :
           he[s][i] = he[t][j] => s = t /\ i = j
    /\ \A t \in Thread, u \in Url : \A i \in 1 .. Len(he[t]), j \in 1 .. Len(ca[u]) :
           he[t][i] # ca[u][j]

LEMMA OnceIs == Stacks(cache, held) => (ExclusiveUse <=> Once(cache, held))
<1>. SUFFICES ASSUME Stacks(cache, held) PROVE ExclusiveUse <=> Once(cache, held)
  OBVIOUS
<1>1. \A u \in Url : DOMAIN cache[u] = 1 .. Len(cache[u])
  BY LenProperties DEF Stacks
<1>2. \A t \in Thread : DOMAIN held[t] = 1 .. Len(held[t])
  BY LenProperties DEF Stacks
<1>3. \A c : c \in Held <=> \E t \in Thread : \E i \in 1 .. Len(held[t]) : c = held[t][i]
  BY <1>2 DEF Held, Members
<1>4. \A c : c \in Cached <=> \E u \in Url : \E j \in 1 .. Len(cache[u]) : c = cache[u][j]
  BY <1>1 DEF Cached, Members
<1>5. Held \cap Cached = {} <=>
          \A t \in Thread, u \in Url :
              \A i \in 1 .. Len(held[t]), j \in 1 .. Len(cache[u]) : held[t][i] # cache[u][j]
  <2>1. ASSUME Held \cap Cached = {}, NEW t \in Thread, NEW u \in Url,
               NEW i \in 1 .. Len(held[t]), NEW j \in 1 .. Len(cache[u])
        PROVE  held[t][i] # cache[u][j]
    <3>1. held[t][i] \in Held
      BY <1>3
    <3>2. cache[u][j] \in Cached
      BY <1>4
    <3>. QED
      BY <2>1, <3>1, <3>2
  <2>2. ASSUME \A t \in Thread, u \in Url :
                  \A i \in 1 .. Len(held[t]), j \in 1 .. Len(cache[u]) : held[t][i] # cache[u][j],
               NEW c, c \in Held, c \in Cached
        PROVE  FALSE
    <3>1. PICK t \in Thread : \E i \in 1 .. Len(held[t]) : c = held[t][i]
      BY <1>3, <2>2
    <3>2. PICK u \in Url : \E j \in 1 .. Len(cache[u]) : c = cache[u][j]
      BY <1>4, <2>2
    <3>. QED
      BY <2>2, <3>1, <3>2
  <2>. QED
    BY <2>1, <2>2
<1>6. ASSUME NEW u \in Url, NEW v \in Url
      PROVE  (\A i \in DOMAIN cache[u], j \in DOMAIN cache[v] : cache[u][i] = cache[v][j] => u = v /\ i = j)
             <=> \A i \in 1 .. Len(cache[u]), j \in 1 .. Len(cache[v]) :
                     cache[u][i] = cache[v][j] => u = v /\ i = j
  <2>1. DOMAIN cache[u] = 1 .. Len(cache[u]) /\ DOMAIN cache[v] = 1 .. Len(cache[v])
    BY <1>1
  <2>. QED
    BY <2>1
<1>7. ASSUME NEW s \in Thread, NEW t \in Thread
      PROVE  (\A i \in DOMAIN held[s], j \in DOMAIN held[t] : held[s][i] = held[t][j] => s = t /\ i = j)
             <=> \A i \in 1 .. Len(held[s]), j \in 1 .. Len(held[t]) :
                     held[s][i] = held[t][j] => s = t /\ i = j
  <2>1. DOMAIN held[s] = 1 .. Len(held[s]) /\ DOMAIN held[t] = 1 .. Len(held[t])
    BY <1>2
  <2>. QED
    BY <2>1
<1>. QED
  BY <1>5, <1>6, <1>7, Zenon DEF ExclusiveUse, Once

LEMMA OnceIsNext == Stacks(cache', held') => (ExclusiveUse' <=> Once(cache', held'))
<1>. SUFFICES ASSUME Stacks(cache', held') PROVE ExclusiveUse' <=> Once(cache', held')
  OBVIOUS
<1>1. \A u \in Url : DOMAIN cache'[u] = 1 .. Len(cache'[u])
  BY LenProperties DEF Stacks
<1>2. \A t \in Thread : DOMAIN held'[t] = 1 .. Len(held'[t])
  BY LenProperties DEF Stacks
<1>3. \A c : c \in Held' <=> \E t \in Thread : \E i \in 1 .. Len(held'[t]) : c = held'[t][i]
  BY <1>2 DEF Held, Members
<1>4. \A c : c \in Cached' <=> \E u \in Url : \E j \in 1 .. Len(cache'[u]) : c = cache'[u][j]
  BY <1>1 DEF Cached, Members
<1>5. Held' \cap Cached' = {} <=>
          \A t \in Thread, u \in Url :
              \A i \in 1 .. Len(held'[t]), j \in 1 .. Len(cache'[u]) : held'[t][i] # cache'[u][j]
  <2>1. ASSUME Held' \cap Cached' = {}, NEW t \in Thread, NEW u \in Url,
               NEW i \in 1 .. Len(held'[t]), NEW j \in 1 .. Len(cache'[u])
        PROVE  held'[t][i] # cache'[u][j]
    <3>1. held'[t][i] \in Held'
      BY <1>3
    <3>2. cache'[u][j] \in Cached'
      BY <1>4
    <3>. QED
      BY <2>1, <3>1, <3>2
  <2>2. ASSUME \A t \in Thread, u \in Url :
                  \A i \in 1 .. Len(held'[t]), j \in 1 .. Len(cache'[u]) : held'[t][i] # cache'[u][j],
               NEW c, c \in Held', c \in Cached'
        PROVE  FALSE
    <3>1. PICK t \in Thread : \E i \in 1 .. Len(held'[t]) : c = held'[t][i]
      BY <1>3, <2>2
    <3>2. PICK u \in Url : \E j \in 1 .. Len(cache'[u]) : c = cache'[u][j]
      BY <1>4, <2>2
    <3>. QED
      BY <2>2, <3>1, <3>2
  <2>. QED
    BY <2>1, <2>2
<1>6. ASSUME NEW u \in Url, NEW v \in Url
      PROVE  (\A i \in DOMAIN cache'[u], j \in DOMAIN cache'[v] : cache'[u][i] = cache'[v][j] => u = v /\ i = j)
             <=> \A i \in 1 .. Len(cache'[u]), j \in 1 .. Len(cache'[v]) :
                     cache'[u][i] = cache'[v][j] => u = v /\ i = j
  <2>1. DOMAIN cache'[u] = 1 .. Len(cache'[u]) /\ DOMAIN cache'[v] = 1 .. Len(cache'[v])
    BY <1>1
  <2>. QED
    BY <2>1
<1>7. ASSUME NEW s \in Thread, NEW t \in Thread
      PROVE  (\A i \in DOMAIN held'[s], j \in DOMAIN held'[t] : held'[s][i] = held'[t][j] => s = t /\ i = j)
             <=> \A i \in 1 .. Len(held'[s]), j \in 1 .. Len(held'[t]) :
                     held'[s][i] = held'[t][j] => s = t /\ i = j
  <2>1. DOMAIN held'[s] = 1 .. Len(held'[s]) /\ DOMAIN held'[t] = 1 .. Len(held'[t])
    BY <1>2
  <2>. QED
    BY <2>1
<1>. QED
  BY <1>5, <1>6, <1>7, Zenon DEF ExclusiveUse, Once

\* Taking the connection at place k of a stack off it, with all above it
LEMMA Popped ==
    ASSUME NEW ca, NEW he, Stacks(ca, he), Once(ca, he),
           NEW u \in Url, NEW t \in Thread, NEW k \in 1 .. Len(ca[u]),
           NEW ca2, ca2 = [ca EXCEPT ![u] = SubSeq(@, 1, k - 1)],
           NEW he2, he2 = [he EXCEPT ![t] = Append(@, ca[u][k])]
    PROVE  Stacks(ca2, he2) /\ Once(ca2, he2)
<1>1. ca[u] \in Seq(Conn) /\ he[t] \in Seq(Conn) /\ Len(ca[u]) \in Nat /\ Len(he[t]) \in Nat
  BY LenProperties DEF Stacks
<1>2. ca[u][k] \in Conn /\ k - 1 \in 0 .. Len(ca[u])
  BY <1>1, ElementOfSeq
<1>3. /\ SubSeq(ca[u], 1, k - 1) \in Seq(Conn) /\ Len(SubSeq(ca[u], 1, k - 1)) = k - 1
      /\ \A i \in 1 .. k - 1 : SubSeq(ca[u], 1, k - 1)[i] = ca[u][i]
  BY <1>1, <1>2, Beginning
<1>4. /\ Append(he[t], ca[u][k]) \in Seq(Conn) /\ Len(Append(he[t], ca[u][k])) = Len(he[t]) + 1
      /\ \A i \in 1 .. Len(he[t]) : Append(he[t], ca[u][k])[i] = he[t][i]
      /\ Append(he[t], ca[u][k])[Len(he[t]) + 1] = ca[u][k]
  BY <1>1, <1>2, Pushed
<1>5. Stacks(ca2, he2)
  BY <1>3, <1>4 DEF Stacks
<1>6. \A v \in Url : \A j \in 1 .. Len(ca2[v]) :
          j \in 1 .. Len(ca[v]) /\ ca2[v][j] = ca[v][j] /\ (v = u => j < k)
  BY <1>1, <1>3 DEF Stacks
<1>7. \A s \in Thread : \A i \in 1 .. Len(he2[s]) :
          \/ i \in 1 .. Len(he[s]) /\ he2[s][i] = he[s][i]
          \/ s = t /\ i = Len(he[t]) + 1 /\ he2[s][i] = ca[u][k]
  BY <1>1, <1>4 DEF Stacks
<1>8. \A v, w \in Url : \A i \in 1 .. Len(ca2[v]), j \in 1 .. Len(ca2[w]) :
          ca2[v][i] = ca2[w][j] => v = w /\ i = j
  <2>. TAKE v, w \in Url
  <2>. TAKE i \in 1 .. Len(ca2[v]), j \in 1 .. Len(ca2[w])
  <2>1. /\ i \in 1 .. Len(ca[v]) /\ ca2[v][i] = ca[v][i]
        /\ j \in 1 .. Len(ca[w]) /\ ca2[w][j] = ca[w][j]
    BY <1>6
  <2>. QED
    BY <2>1 DEF Once
<1>9. \A v, s \in Thread : \A i \in 1 .. Len(he2[v]), j \in 1 .. Len(he2[s]) :
          he2[v][i] = he2[s][j] => v = s /\ i = j
  BY <1>7 DEF Once
<1>10. \A s \in Thread, v \in Url : \A i \in 1 .. Len(he2[s]), j \in 1 .. Len(ca2[v]) :
          he2[s][i] # ca2[v][j]
  <2>. TAKE s \in Thread, v \in Url
  <2>. TAKE i \in 1 .. Len(he2[s]), j \in 1 .. Len(ca2[v])
  <2>1. j \in 1 .. Len(ca[v]) /\ ca2[v][j] = ca[v][j] /\ (v = u => j < k)
    BY <1>6
  <2>2. CASE i \in 1 .. Len(he[s]) /\ he2[s][i] = he[s][i]
    BY <2>1, <2>2 DEF Once
  <2>3. CASE he2[s][i] = ca[u][k]
    BY <2>1, <2>3 DEF Once
  <2>. QED
    BY <1>7, <2>2, <2>3
<1>. QED
  BY <1>5, <1>8, <1>9, <1>10 DEF Once

\* A new connection, that is nowhere
LEMMA Connected ==
    ASSUME NEW ca, NEW he, Stacks(ca, he), Once(ca, he), NEW t \in Thread, NEW c \in Conn,
           \A s \in Thread : \A i \in 1 .. Len(he[s]) : he[s][i] # c,
           \A u \in Url : \A i \in 1 .. Len(ca[u]) : ca[u][i] # c,
           NEW he2, he2 = [he EXCEPT ![t] = Append(@, c)]
    PROVE  Stacks(ca, he2) /\ Once(ca, he2)
<1>1. he[t] \in Seq(Conn) /\ Len(he[t]) \in Nat
  BY LenProperties DEF Stacks
<1>2. /\ Append(he[t], c) \in Seq(Conn) /\ Len(Append(he[t], c)) = Len(he[t]) + 1
      /\ \A i \in 1 .. Len(he[t]) : Append(he[t], c)[i] = he[t][i]
      /\ Append(he[t], c)[Len(he[t]) + 1] = c
  BY <1>1, Pushed
<1>3. \A s \in Thread : \A i \in 1 .. Len(he2[s]) :
          \/ i \in 1 .. Len(he[s]) /\ he2[s][i] = he[s][i]
          \/ s = t /\ i = Len(he[t]) + 1 /\ he2[s][i] = c
  BY <1>1, <1>2 DEF Stacks
<1>4. Stacks(ca, he2)
  BY <1>2 DEF Stacks
<1>5. \A v, s \in Thread : \A i \in 1 .. Len(he2[v]), j \in 1 .. Len(he2[s]) :
          he2[v][i] = he2[s][j] => v = s /\ i = j
  BY <1>3 DEF Once
<1>6. \A s \in Thread, u \in Url : \A i \in 1 .. Len(he2[s]), j \in 1 .. Len(ca[u]) :
          he2[s][i] # ca[u][j]
  BY <1>3 DEF Once
<1>. QED
  BY <1>4, <1>5, <1>6 DEF Once

\* No slot of the stacks of S holds c
Nowhere(stacks, S, c) == \A x \in S : \A i \in 1 .. Len(stacks[x]) : stacks[x][i] # c

\* A connection is given up
LEMMA GivenUp ==
    ASSUME NEW ca, NEW he, Stacks(ca, he), Once(ca, he), NEW t \in Thread, he[t] # <<>>,
           NEW he2, he2 = [he EXCEPT ![t] = SubSeq(@, 1, Len(@) - 1)]
    PROVE  /\ Stacks(ca, he2) /\ Once(ca, he2) /\ he[t][Len(he[t])] \in Conn
           /\ Nowhere(he2, Thread, he[t][Len(he[t])])
           /\ Nowhere(ca, Url, he[t][Len(he[t])])
<1>. DEFINE n == Len(he[t])
<1>1. he[t] \in Seq(Conn) /\ n \in Nat /\ n # 0 /\ n \in 1 .. n
  BY LenProperties, EmptySeq DEF Stacks
<1>2. /\ he[t][n] \in Conn /\ SubSeq(he[t], 1, n - 1) \in Seq(Conn)
      /\ Len(SubSeq(he[t], 1, n - 1)) = n - 1
      /\ \A i \in 1 .. n - 1 : SubSeq(he[t], 1, n - 1)[i] = he[t][i]
  BY <1>1, Dropped
<1>. HIDE DEF n
<1>3. he2 = [he EXCEPT ![t] = SubSeq(he[t], 1, n - 1)]
  BY DEF n
<1>4. \A s \in Thread : \A i \in 1 .. Len(he2[s]) :
          i \in 1 .. Len(he[s]) /\ he2[s][i] = he[s][i] /\ (s = t => i # n)
  BY <1>1, <1>2, <1>3 DEF Stacks, n
<1>5. Stacks(ca, he2)
  BY <1>2, <1>3 DEF Stacks
<1>6. Once(ca, he2)
  <2>1. \A v, s \in Thread : \A i \in 1 .. Len(he2[v]), j \in 1 .. Len(he2[s]) :
            he2[v][i] = he2[s][j] => v = s /\ i = j
    <3>. TAKE v, s \in Thread
    <3>. TAKE i \in 1 .. Len(he2[v]), j \in 1 .. Len(he2[s])
    <3>1. /\ i \in 1 .. Len(he[v]) /\ he2[v][i] = he[v][i]
          /\ j \in 1 .. Len(he[s]) /\ he2[s][j] = he[s][j]
      BY <1>4
    <3>. QED
      BY <3>1 DEF Once
  <2>2. \A s \in Thread, u \in Url : \A i \in 1 .. Len(he2[s]), j \in 1 .. Len(ca[u]) :
            he2[s][i] # ca[u][j]
    <3>. TAKE s \in Thread, u \in Url
    <3>. TAKE i \in 1 .. Len(he2[s]), j \in 1 .. Len(ca[u])
    <3>1. i \in 1 .. Len(he[s]) /\ he2[s][i] = he[s][i]
      BY <1>4
    <3>. QED
      BY <3>1 DEF Once
  <2>. QED
    BY <2>1, <2>2 DEF Once
<1>7. \A s \in Thread : \A i \in 1 .. Len(he2[s]) : he2[s][i] # he[t][n]
  <2>1. n \in 1 .. Len(he[t])
    BY <1>1 DEF n
  <2>. TAKE s \in Thread
  <2>. TAKE i \in 1 .. Len(he2[s])
  <2>2. i \in 1 .. Len(he[s]) /\ he2[s][i] = he[s][i] /\ (s = t => i # n)
    BY <1>4
  <2>. QED
    BY <2>1, <2>2 DEF Once
<1>8. \A u \in Url : \A i \in 1 .. Len(ca[u]) : ca[u][i] # he[t][n]
  BY <1>1 DEF Once, n
<1>. QED
  BY <1>2, <1>5, <1>6, <1>7, <1>8 DEF n, Nowhere

\* A connection that is nowhere goes on top of a stack
LEMMA PutBack ==
    ASSUME NEW ca, NEW he, Stacks(ca, he), Once(ca, he), NEW c \in Conn, NEW u,
           \A s \in Thread : \A i \in 1 .. Len(he[s]) : he[s][i] # c,
           \A v \in Url : \A i \in 1 .. Len(ca[v]) : ca[v][i] # c,
           NEW ca2, ca2 = [ca EXCEPT ![u] = Append(@, c)]
    PROVE  Stacks(ca2, he) /\ Once(ca2, he)
<1>1. CASE u \notin Url
  BY <1>1 DEF Stacks
<1>2. CASE u \in Url
  <2>1. ca[u] \in Seq(Conn) /\ Len(ca[u]) \in Nat
    BY <1>2, LenProperties DEF Stacks
  <2>2. /\ Append(ca[u], c) \in Seq(Conn) /\ Len(Append(ca[u], c)) = Len(ca[u]) + 1
        /\ \A i \in 1 .. Len(ca[u]) : Append(ca[u], c)[i] = ca[u][i]
        /\ Append(ca[u], c)[Len(ca[u]) + 1] = c
    BY <2>1, Pushed
  <2>3. \A v \in Url : \A i \in 1 .. Len(ca2[v]) :
            \/ i \in 1 .. Len(ca[v]) /\ ca2[v][i] = ca[v][i]
            \/ v = u /\ i = Len(ca[u]) + 1 /\ ca2[v][i] = c
    BY <1>2, <2>1, <2>2 DEF Stacks
  <2>4. Stacks(ca2, he)
    BY <1>2, <2>2 DEF Stacks
  <2>5. \A v, w \in Url : \A i \in 1 .. Len(ca2[v]), j \in 1 .. Len(ca2[w]) :
            ca2[v][i] = ca2[w][j] => v = w /\ i = j
    BY <2>3 DEF Once
  <2>6. \A s \in Thread, v \in Url : \A i \in 1 .. Len(he[s]), j \in 1 .. Len(ca2[v]) :
            he[s][i] # ca2[v][j]
    BY <2>3 DEF Once
  <2>. QED
    BY <2>4, <2>5, <2>6 DEF Once
<1>. QED
  BY <1>1, <1>2
-----------------------------------------------------------------------------
\* The steps that move no connection: what is left is that a thread that goes on
\* inside of ^connect still holds one.
LEMMA Unmoved ==
    ASSUME IInv, UNCHANGED <<cache, held>>, Types', Holds' PROVE IInv'
  BY DEF IInv, ExclusiveUse, Held, Cached, Members

LEMMA GetConnection ==
    ASSUME IInv, NEW t \in Thread, NEW u \in Url, get_connection_from_cache(t, u)
    PROVE  IInv'
<1>. DEFINE live == {i \in DOMAIN cache[u] : handle[cache[u][i]] # None}
<1>1. Stacks(cache, held) /\ Once(cache, held) /\ pc' \in [Thread -> {"idle", "expire",
          "disconnect", "disconnected", "ready", "ping", "reconnect", "connect", "body",
          "commit", "close", "rollback", "rolledback"}]
  BY OnceIs DEF IInv, Types, Stacks, get_connection_from_cache, goto
<1>2. CASE live = {}
  <2>1. cache' = [cache EXCEPT ![u] = <<>>] /\ held' = held /\ pc' = [pc EXCEPT ![t] = "connect"]
    BY <1>2 DEF get_connection_from_cache, goto
  <2>2. Stacks(cache', held') /\ Once(cache', held')
    <3>1. \A v \in Url : cache'[v] = IF v = u THEN <<>> ELSE cache[v]
      BY <1>1, <2>1 DEF Stacks
    <3>2. <<>> \in Seq(Conn) /\ Len(<<>>) = 0
      BY EmptySeq
    <3>3. Stacks(cache', held')
      BY <1>1, <2>1, <3>2 DEF Stacks
    <3>4. \A v \in Url : \A j \in 1 .. Len(cache'[v]) :
              j \in 1 .. Len(cache[v]) /\ cache'[v][j] = cache[v][j]
      BY <3>1, <3>2
    <3>. QED
      BY <1>1, <2>1, <3>3, <3>4 DEF Once
  <2>3. Holds'
    BY <2>1 DEF IInv, Types, Holds
  <2>. QED
    BY <1>1, <2>2, <2>3, OnceIsNext DEF IInv, Types, Stacks
<1>3. CASE live # {}
  <2>1. PICK k \in live :
            /\ cache' = [cache EXCEPT ![u] = SubSeq(@, 1, k - 1)]
            /\ held' = [held EXCEPT ![t] = Append(@, cache[u][k])]
            /\ pc' = [pc EXCEPT ![t] = "ping"]
    BY <1>3 DEF get_connection_from_cache, goto
  <2>2. k \in 1 .. Len(cache[u])
    BY <1>1, LenProperties DEF Stacks
  <2>3. Stacks(cache', held') /\ Once(cache', held')
    BY <1>1, <2>1, <2>2, Popped
  <2>4. held'[t] # <<>>
    <3>1. cache[u][k] \in Conn /\ held[t] \in Seq(Conn)
      BY <1>1, <2>2, ElementOfSeq DEF Stacks
    <3>2. Append(held[t], cache[u][k]) # <<>>
      BY <3>1, AppendProperties
    <3>. QED
      BY <1>1, <2>1, <3>2 DEF Stacks
  <2>5. Holds'
    BY <1>1, <2>1, <2>4 DEF IInv, Types, Holds, Stacks
  <2>. QED
    BY <1>1, <2>3, <2>5, OnceIsNext DEF IInv, Types, Stacks
<1>. QED
  BY <1>2, <1>3

\* What drop() leaves to those that go on
LEMMA Rest ==
    ASSUME NEW s \in Seq(Conn), Len(s) > 1 PROVE SubSeq(s, 1, Len(s) - 1) # <<>>
<1>. DEFINE rest == SubSeq(s, 1, Len(s) - 1)
<1>1. Len(s) \in Nat /\ s # <<>>
  BY LenProperties, EmptySeq
<1>2. Len(rest) = Len(s) - 1
  BY <1>1, Dropped
<1>3. Len(<<>>) = 0
  BY EmptySeq
<1>. HIDE DEF rest
<1>4. rest # <<>>
  BY <1>1, <1>2, <1>3
<1>. QED
  BY <1>4 DEF rest

\* drop() alone, with what propagate() makes of the thread or the place it goes to
LEMMA Drop ==
    ASSUME IInv, NEW t \in Thread, held[t] # <<>>, drop(t), UNCHANGED cache,
           NEW p, pc' = [pc EXCEPT ![t] = p],
           p \in {"ready", "connect"} \/ (p \in {"body", "rollback"} /\ Len(held[t]) > 1)
    PROVE  IInv'
<1>1. Stacks(cache, held) /\ Once(cache, held)
  BY OnceIs DEF IInv, Types, Stacks
<1>2. held' = [held EXCEPT ![t] = SubSeq(@, 1, Len(@) - 1)]
  BY DEF drop
<1>3. Stacks(cache', held') /\ Once(cache', held')
  BY <1>1, <1>2, GivenUp
<1>4. Holds'
  BY <1>1, <1>2, Rest DEF IInv, Types, Holds, Stacks
<1>. QED
  BY <1>3, <1>4, OnceIsNext DEF IInv, Types, Stacks

LEMMA Connect ==
    ASSUME IInv, NEW t \in Thread, connect(t) PROVE IInv'
<1>1. Stacks(cache, held) /\ Once(cache, held)
  BY OnceIs DEF IInv, Types, Stacks
<1>2. ASSUME NEW c \in Garbage, held' = [held EXCEPT ![t] = Append(@, c)], cache' = cache,
             pc' = [pc EXCEPT ![t] = "body"]
      PROVE  IInv'
  <2>1. c \in Conn /\ c \notin Held /\ c \notin Cached
    BY <1>2 DEF Garbage
  <2>2. /\ \A s \in Thread : \A i \in 1 .. Len(held[s]) : held[s][i] # c
        /\ \A u \in Url : \A i \in 1 .. Len(cache[u]) : cache[u][i] # c
    BY <1>1, <2>1, LenProperties DEF Stacks, Held, Cached, Members
  <2>3. Stacks(cache', held') /\ Once(cache', held')
    BY <1>1, <1>2, <2>1, <2>2, Connected
  <2>4. held'[t] # <<>>
    <3>1. Append(held[t], c) # <<>>
      BY <1>1, <2>1, AppendProperties DEF Stacks
    <3>. QED
      BY <1>1, <1>2, <3>1 DEF Stacks
  <2>5. Holds'
    BY <1>1, <1>2, <2>4 DEF IInv, Types, Holds, Stacks
  <2>. QED
    BY <1>2, <2>3, <2>5, OnceIsNext DEF IInv, Types, Stacks
<1>3. ASSUME NEW p \in IF held[t] = <<>> THEN {"ready"} ELSE {"body", "rollback"},
             pc' = [pc EXCEPT ![t] = p], UNCHANGED <<cache, held>>
      PROVE  IInv'
  <2>1. Types' /\ Holds'
    BY <1>3 DEF IInv, Types, Holds
  <2>. QED
    BY <1>3, <2>1, Unmoved
<1>. QED
  BY <1>2, <1>3 DEF connect, goto

LEMMA Close ==
    ASSUME IInv, NEW t \in Thread, close(t) PROVE IInv'
<1>1. Stacks(cache, held) /\ Once(cache, held) /\ held[t] # <<>>
  BY OnceIs DEF IInv, Types, Stacks, Holds, close
<1>2. held' = [held EXCEPT ![t] = SubSeq(@, 1, Len(@) - 1)]
  BY DEF close, drop
<1>3. \E fewer, c :
          /\ fewer = held' /\ c = held[t][Len(held[t])]
          /\ Stacks(cache, fewer) /\ Once(cache, fewer) /\ c \in Conn
          /\ Nowhere(fewer, Thread, c) /\ Nowhere(cache, Url, c)
  <2>. DEFINE fewer == held'
  <2>1. fewer = [held EXCEPT ![t] = SubSeq(@, 1, Len(@) - 1)]
    BY <1>2
  <2>. HIDE DEF fewer
  <2>. QED
    BY <1>1, <2>1, GivenUp DEF fewer
<1>. PICK fewer, c :
          /\ fewer = held' /\ c = held[t][Len(held[t])]
          /\ Stacks(cache, fewer) /\ Once(cache, fewer) /\ c \in Conn
          /\ Nowhere(fewer, Thread, c) /\ Nowhere(cache, Url, c)
  BY <1>3
<1>c. cache' = [cache EXCEPT ![furl[c]] = Append(@, c)]
  BY DEF close, top
<1>4. Stacks(cache', fewer) /\ Once(cache', fewer)
  BY <1>c, PutBack DEF Nowhere
<1>5. PICK p : /\ pc' = [pc EXCEPT ![t] = p]
               /\ p = "ready" \/ (p \in {"body", "rollback"} /\ Len(held[t]) > 1)
  BY DEF close, propagate, goto
<1>6. Holds'
  <2>1. held'[t] = SubSeq(held[t], 1, Len(held[t]) - 1) /\ held[t] \in Seq(Conn)
    BY <1>1, <1>2 DEF Stacks
  <2>2. Len(held[t]) > 1 => held'[t] # <<>>
    BY <2>1, Rest
  <2>. QED
    BY <1>2, <1>5, <2>2 DEF IInv, Types, Holds
<1>. QED
  BY <1>4, <1>5, <1>6, OnceIsNext DEF IInv, Types, Stacks
-----------------------------------------------------------------------------
LEMMA Step == IInv /\ [Next]_vars => IInv'
<1>. SUFFICES ASSUME IInv, [Next]_vars PROVE IInv'
  OBVIOUS
<1>1. CASE UNCHANGED vars \/ tick
  <2>1. UNCHANGED <<cache, held, pc>>
    BY <1>1 DEF vars, tick
  <2>. QED
    BY <2>1, Unmoved DEF IInv, Types, Holds
<1>2. ASSUME NEW t \in Thread, request(t) PROVE IInv'
  <2>1. CASE maybe_expire_cache(t)
    <3>1. PICK p \in {"expire", "ready"} : pc' = [pc EXCEPT ![t] = p]
      BY <2>1 DEF maybe_expire_cache, goto
    <3>. QED
      BY <2>1, <3>1, Unmoved DEF IInv, Types, Holds, maybe_expire_cache
  <2>2. ASSUME NEW u \in Url, expire_connections(t, u) PROVE IInv'
    BY <2>2, Unmoved DEF IInv, Types, Holds, expire_connections
  <2>3. ASSUME NEW u \in Url, get_connection_from_cache(t, u) PROVE IInv'
    BY <2>3, GetConnection
  <2>4. CASE expire_connection(t)
    <3>1. pc' = pc \/ pc' = [pc EXCEPT ![t] = "disconnect"]
      BY <2>4 DEF expire_connection, goto
    <3>2. UNCHANGED <<cache, held>>
      BY <2>4 DEF expire_connection
    <3>. QED
      BY <3>1, <3>2, Unmoved DEF IInv, Types, Holds
  <2>5. CASE disconnect(t)
    <3>1. PICK p \in {"disconnected", "expire"} : pc' = [pc EXCEPT ![t] = p]
      BY <2>5 DEF disconnect, goto
    <3>. QED
      BY <2>5, <3>1, Unmoved DEF IInv, Types, Holds, disconnect
  <2>6. CASE passDone(t)
    BY <2>6, Unmoved DEF IInv, Types, Holds, passDone, goto
  <2>7. CASE ping(t)
    <3>1. held[t] # <<>> /\ cache' = cache
      BY <2>7 DEF IInv, Holds, ping
    <3>2. ASSUME held' = held, NEW p \in {"body", "reconnect"}, pc' = [pc EXCEPT ![t] = p]
          PROVE  IInv'
      BY <3>1, <3>2, Unmoved DEF IInv, Types, Holds
    <3>3. ASSUME drop(t), NEW p, pc' = [pc EXCEPT ![t] = p],
                 p \in {"ready", "connect"} \/ (p \in {"body", "rollback"} /\ Len(held[t]) > 1)
          PROVE  IInv'
      BY <3>1, <3>3, Drop
    <3>. QED
      BY <2>7, <3>2, <3>3 DEF ping, propagate, goto
  <2>8. CASE connect(t)
    BY <2>8, Connect
  <2>9. CASE query(t)
    <3>1. PICK p \in {"body", "rollback"} : pc' = [pc EXCEPT ![t] = p]
      BY <2>9 DEF query, goto
    <3>. QED
      BY <2>9, <3>1, Unmoved DEF IInv, Types, Holds, query
  <2>10. CASE bodyEnds(t)
    <3>1. PICK p \in {"commit", "rollback"} : pc' = [pc EXCEPT ![t] = p]
      BY <2>10 DEF bodyEnds, goto
    <3>. QED
      BY <2>10, <3>1, Unmoved DEF IInv, Types, Holds, bodyEnds
  <2>11. CASE commit(t)
    <3>1. PICK p \in {"close", "rollback"} : pc' = [pc EXCEPT ![t] = p]
      BY <2>11 DEF commit, goto
    <3>. QED
      BY <2>11, <3>1, Unmoved DEF IInv, Types, Holds, commit
  <2>12. CASE rollback(t)
    <3>1. held[t] # <<>> /\ cache' = cache
      BY <2>12 DEF IInv, Holds, rollback
    <3>2. ASSUME held' = held, pc' = [pc EXCEPT ![t] = "rolledback"] PROVE IInv'
      BY <3>1, <3>2, Unmoved DEF IInv, Types, Holds
    <3>3. ASSUME drop(t), NEW p, pc' = [pc EXCEPT ![t] = p],
                 p \in {"ready", "connect"} \/ (p \in {"body", "rollback"} /\ Len(held[t]) > 1)
          PROVE  IInv'
      BY <3>1, <3>3, Drop
    <3>. QED
      BY <2>12, <3>2, <3>3 DEF rollback, propagate, goto
  <2>13. CASE close(t)
    BY <2>13, Close
  <2>14. CASE requestEnds(t)
    BY <2>14, Unmoved DEF IInv, Types, Holds, requestEnds, goto
  <2>. QED
    BY <1>2, <2>1, <2>2, <2>3, <2>4, <2>5, <2>6, <2>7, <2>8, <2>9, <2>10, <2>11, <2>12,
       <2>13, <2>14 DEF request
<1>. QED
  BY <1>1, <1>2 DEF Next

LEMMA Initially == Init => IInv
<1>. SUFFICES ASSUME Init PROVE IInv
  OBVIOUS
<1>1. Types /\ Holds
  BY EmptySeq DEF Init, Types, Holds
<1>2. Len(<<>>) = 0
  BY EmptySeq
<1>3. Once(cache, held)
  BY <1>2 DEF Init, Once
<1>. QED
  BY <1>1, <1>3, OnceIs DEF IInv, Types, Stacks

\* A connection of the cache is in one stack, once, or has one user: one ^connect
\* of one request (get_connection_from_cache() and put_connection_to_cache(), whose
\* mutex is all the protection there is).
THEOREM OneUser == Spec => []ExclusiveUse
<1>1. IInv => ExclusiveUse
  BY DEF IInv
<1>. QED
  BY <1>1, Initially, Step, PTL DEF Spec
-----------------------------------------------------------------------------
(***************************************************************************)
(* What one thread gets from the cache.  With more threads the expiration  *)
(* pass of one meets the requests of the others, and none of this holds.   *)
(***************************************************************************)
OneThread == \A s, t \in Thread : s = t

Fields ==
    /\ now \in Nat /\ prev \in Nat /\ prev <= now
    /\ used \in [Conn -> Nat] /\ handle \in [Conn -> Handle \cup {None}]
    /\ start \in [Thread -> Nat] /\ \A t \in Thread : start[t] <= now
    /\ pass \in [Thread -> [now : Nat, todo : SUBSET Url, url : Url \cup {None}, i : Nat \ {0}]]
    /\ at \in [Thread -> Conn \cup {None}]
    /\ open \subseteq Handle /\ dirty \subseteq Handle

Passing(t) == pc[t] \in {"expire", "disconnect", "disconnected"}
Closing(t) == pc[t] \in {"close", "rolledback"}

\* A handle is one connection's, and open until that is disconnected ...
Handles ==
    /\ \A c, d \in Conn : c # d /\ handle[c] # None => handle[c] # handle[d]
    /\ \A c \in Conn : handle[c] # None =>
           handle[c] \in open \/ \E t \in Thread : pc[t] = "disconnected" /\ c = at[t]

\* ... which happens to connections in the cache only
Attached ==
    /\ \A c \in Held : handle[c] # None
    /\ \A t \in Thread : pc[t] \in {"disconnect", "disconnected"} =>
           at[t] \in Cached /\ handle[at[t]] # None

Clean ==
    /\ CleanInCache
    /\ \A t \in Thread : Closing(t) => handle[top(t)] \notin dirty

Recent(c, time) == handle[c] # None => used[c] >= time - Expire

\* The last pass was at most two periods before the request, and what is in the
\* cache was in use one period before the pass or later
LastPass ==
    /\ \A c \in Cached : Recent(c, prev)
    /\ \A t \in Thread :
           /\ pc[t] # "idle" /\ ~Passing(t) => prev >= start[t] - CHECK_EXPIRED_CONNECTIONS_SECONDS
           /\ pc[t] = "ping" \/ Closing(t) => used[top(t)] >= prev - Expire

\* What the pass has been at is recent, or is being disconnected
Passed ==
    \A t \in Thread : Passing(t) =>
        /\ pass[t].now = start[t]
        /\ \A u \in Url : \A i \in DOMAIN cache[u] :
               \/ u \in pass[t].todo \/ (u = pass[t].url /\ i >= pass[t].i)
               \/ Recent(cache[u][i], pass[t].now)
               \/ pc[t] # "expire" /\ cache[u][i] = at[t]

OneInv == /\ IInv /\ Fields
          /\ Handles /\ Attached /\ Clean /\ LastPass /\ Passed
-----------------------------------------------------------------------------
\* Held and Cached, place by place
HeldIs == \A c : c \in Held <=> \E t \in Thread : \E i \in 1 .. Len(held[t]) : c = held[t][i]
CachedIs == \A c : c \in Cached <=> \E u \in Url : \E i \in 1 .. Len(cache[u]) : c = cache[u][i]
LEMMA InPlaces == Types => HeldIs /\ CachedIs
<1>. SUFFICES ASSUME Types PROVE HeldIs /\ CachedIs
  OBVIOUS
<1>1. \A u \in Url : DOMAIN cache[u] = 1 .. Len(cache[u])
  BY LenProperties DEF Types
<1>2. \A t \in Thread : DOMAIN held[t] = 1 .. Len(held[t])
  BY LenProperties DEF Types
<1>3. HeldIs
  BY <1>2 DEF HeldIs, Held, Members
<1>4. CachedIs
  BY <1>1 DEF CachedIs, Cached, Members
<1>. QED
  BY <1>3, <1>4

\* The one on top is held, and is a connection.
LEMMA TopHeld ==
    ASSUME Types, NEW t \in Thread, held[t] # <<>>
    PROVE  top(t) \in Held /\ top(t) \in Conn
<1>1. held[t] \in Seq(Conn) /\ Len(held[t]) \in 1 .. Len(held[t]) /\ held[t][Len(held[t])] \in Conn
  <2>1. held[t] \in Seq(Conn)
    BY DEF Types
  <2>2. Len(held[t]) \in Nat /\ Len(held[t]) # 0
    BY <2>1, EmptySeq
  <2>. QED
    BY <2>1, <2>2, ElementOfSeq
<1>2. HeldIs
  BY InPlaces
<1>. QED
  BY <1>1, <1>2 DEF HeldIs, top

LEMMA InConn == ASSUME Types PROVE Held \subseteq Conn /\ Cached \subseteq Conn
<1>1. \A t \in Thread : \A i \in 1 .. Len(held[t]) : held[t][i] \in Conn
  BY ElementOfSeq DEF Types
<1>2. \A u \in Url : \A i \in 1 .. Len(cache[u]) : cache[u][i] \in Conn
  BY ElementOfSeq DEF Types
<1>. QED
  BY <1>1, <1>2, InPlaces DEF HeldIs, CachedIs

\* A connection popped from the cache was there, connected, and is on top now.
LEMMA GetSets ==
    ASSUME Types, Types', NEW t \in Thread, NEW u \in Url, get_connection_from_cache(t, u)
    PROVE  /\ Cached' \subseteq Cached
           /\ \/ held' = held /\ pc' = [pc EXCEPT ![t] = "connect"]
              \/ \E c \in Cached : /\ handle[c] # None /\ Held' \subseteq Held \cup {c}
                                   /\ held'[t] # <<>> /\ top(t)' = c
                                   /\ pc' = [pc EXCEPT ![t] = "ping"]
<1>1. HeldIs /\ CachedIs
  BY InPlaces
<1>2. (HeldIs /\ CachedIs)'
  BY InPlaces, PTL
<1>. DEFINE live == {i \in DOMAIN cache[u] : handle[cache[u][i]] # None}
<1>3. cache[u] \in Seq(Conn) /\ DOMAIN cache[u] = 1 .. Len(cache[u]) /\ Len(cache[u]) \in Nat
  BY LenProperties DEF Types
<1>4. ASSUME NEW n \in 0 .. Len(cache[u]), cache' = [cache EXCEPT ![u] = SubSeq(cache[u], 1, n)]
      PROVE  Cached' \subseteq Cached
  <2>1. /\ Len(SubSeq(cache[u], 1, n)) = n
        /\ \A i \in 1 .. n : SubSeq(cache[u], 1, n)[i] = cache[u][i]
    BY <1>3, Beginning
  <2>2. \A v \in Url : \A i \in 1 .. Len(cache'[v]) : i \in 1 .. Len(cache[v]) /\ cache'[v][i] = cache[v][i]
    BY <1>3, <1>4, <2>1 DEF Types
  <2>. QED
    BY <1>1, <1>2, <2>2 DEF CachedIs
<1>5. CASE live = {}
  <2>1. cache' = [cache EXCEPT ![u] = <<>>] /\ held' = held /\ pc' = [pc EXCEPT ![t] = "connect"]
    BY <1>5 DEF get_connection_from_cache, goto
  <2>2. Len(<<>>) = 0
    BY EmptySeq
  <2>3. \A v \in Url : \A i \in 1 .. Len(cache'[v]) : i \in 1 .. Len(cache[v]) /\ cache'[v][i] = cache[v][i]
    BY <2>1, <2>2 DEF Types
  <2>4. Cached' \subseteq Cached
    BY <1>1, <1>2, <2>3 DEF CachedIs
  <2>. QED
    BY <2>1, <2>4
<1>6. CASE live # {}
  <2>1. PICK k \in live :
            /\ cache' = [cache EXCEPT ![u] = SubSeq(@, 1, k - 1)]
            /\ held' = [held EXCEPT ![t] = Append(@, cache[u][k])]
            /\ pc' = [pc EXCEPT ![t] = "ping"]
    BY <1>6 DEF get_connection_from_cache, goto
  <2>. DEFINE c == cache[u][k]
  <2>2. k \in 1 .. Len(cache[u]) /\ handle[c] # None /\ k - 1 \in 0 .. Len(cache[u])
    BY <1>3
  <2>3. c \in Cached /\ c \in Conn
    BY <1>1, <1>3, <2>2, ElementOfSeq DEF CachedIs
  <2>4. Cached' \subseteq Cached
    BY <1>4, <2>1, <2>2
  <2>. HIDE DEF c
  <2>5. held' = [held EXCEPT ![t] = Append(held[t], c)] /\ held[t] \in Seq(Conn)
    BY <2>1 DEF c, Types
  <2>6. /\ Len(Append(held[t], c)) = Len(held[t]) + 1
        /\ \A i \in 1 .. Len(held[t]) : Append(held[t], c)[i] = held[t][i]
        /\ Append(held[t], c)[Len(held[t]) + 1] = c
        /\ Append(held[t], c) # <<>> /\ Len(held[t]) \in Nat
    BY <2>3, <2>5, AppendProperties, LenProperties
  <2>7. \A s \in Thread : \A i \in 1 .. Len(held'[s]) :
            held'[s][i] = c \/ (i \in 1 .. Len(held[s]) /\ held'[s][i] = held[s][i])
    BY <2>5, <2>6 DEF Types
  <2>8. Held' \subseteq Held \cup {c}
    BY <1>1, <1>2, <2>7 DEF HeldIs
  <2>9. held'[t] = Append(held[t], c)
    BY <2>5 DEF Types
  <2>10. held'[t] # <<>> /\ top(t)' = c
    BY <2>6, <2>9 DEF top
  <2>. QED
    BY <2>1, <2>2, <2>3, <2>4, <2>8, <2>10 DEF c
<1>. QED
  BY <1>5, <1>6

\* A connection that is dropped is not held any more.
LEMMA DropSets ==
    ASSUME IInv, Types', NEW t \in Thread, held[t] # <<>>, drop(t)
    PROVE  Held' \subseteq Held \ {top(t)}
<1>1. Stacks(cache, held) /\ Once(cache, held)
  BY OnceIs DEF IInv, Types, Stacks
<1>2. \E fewer : /\ fewer = held' /\ Nowhere(fewer, Thread, held[t][Len(held[t])])
  <2>. DEFINE fewer == held'
  <2>1. fewer = [held EXCEPT ![t] = SubSeq(@, 1, Len(@) - 1)]
    BY DEF drop
  <2>. HIDE DEF fewer
  <2>. QED
    BY <1>1, <2>1, GivenUp DEF fewer
<1>3. \A s \in Thread : \A i \in 1 .. Len(held'[s]) : held'[s][i] # top(t)
  BY <1>2 DEF Nowhere, top
<1>4. \A s \in Thread : \A i \in 1 .. Len(held'[s]) : i \in 1 .. Len(held[s]) /\ held'[s][i] = held[s][i]
  <2>1. held[t] \in Seq(Conn) /\ held' = [held EXCEPT ![t] = SubSeq(held[t], 1, Len(held[t]) - 1)]
    BY DEF IInv, Types, drop
  <2>2. /\ Len(SubSeq(held[t], 1, Len(held[t]) - 1)) = Len(held[t]) - 1 /\ Len(held[t]) \in Nat
        /\ \A i \in 1 .. Len(held[t]) - 1 : SubSeq(held[t], 1, Len(held[t]) - 1)[i] = held[t][i]
    BY <2>1, Dropped, LenProperties
  <2>. QED
    BY <2>1, <2>2 DEF IInv, Types
<1>5. HeldIs /\ HeldIs'
  BY InPlaces, PTL DEF IInv
<1>. QED
  BY <1>3, <1>4, <1>5 DEF HeldIs

\* What close() puts into the cache is the one on top.
LEMMA CloseSets ==
    ASSUME IInv, Types', NEW t \in Thread, close(t)
    PROVE  Cached' \subseteq Cached \cup {top(t)} /\ Held' \subseteq Held \ {top(t)}
<1>1. held[t] # <<>> /\ drop(t)
  BY DEF IInv, Holds, close
<1>2. top(t) \in Conn
  BY <1>1, TopHeld DEF IInv
<1>. DEFINE c == top(t)
            u == furl[c]
<1>3. cache' = [cache EXCEPT ![u] = Append(@, c)]
  BY DEF close
<1>. HIDE DEF c, u
<1>4. \A v \in Url : \A i \in 1 .. Len(cache'[v]) :
          cache'[v][i] = c \/ (i \in 1 .. Len(cache[v]) /\ cache'[v][i] = cache[v][i])
  <2>1. CASE u \notin Url
    BY <1>3, <2>1 DEF IInv, Types
  <2>2. CASE u \in Url
    <3>1. cache[u] \in Seq(Conn) /\ Len(cache[u]) \in Nat
      BY <2>2, LenProperties DEF IInv, Types
    <3>2. /\ Len(Append(cache[u], c)) = Len(cache[u]) + 1
          /\ \A i \in 1 .. Len(cache[u]) : Append(cache[u], c)[i] = cache[u][i]
          /\ Append(cache[u], c)[Len(cache[u]) + 1] = c
      BY <1>2, <3>1, AppendProperties DEF c
    <3>. QED
      BY <1>3, <2>2, <3>1, <3>2 DEF IInv, Types
  <2>. QED
    BY <2>1, <2>2
<1>5. CachedIs /\ CachedIs'
  BY InPlaces, PTL DEF IInv
<1>6. Cached' \subseteq Cached \cup {c}
  BY <1>4, <1>5 DEF CachedIs
<1>. QED
  BY <1>1, <1>6, DropSets DEF c

\* A new connection goes on top.
LEMMA ConnectSets ==
    ASSUME Types, Types', NEW t \in Thread, NEW c \in Conn,
           held' = [held EXCEPT ![t] = Append(@, c)]
    PROVE  Held' \subseteq Held \cup {c}
<1>1. held[t] \in Seq(Conn) /\ held' = [held EXCEPT ![t] = Append(held[t], c)]
  BY DEF Types
<1>2. /\ Len(Append(held[t], c)) = Len(held[t]) + 1 /\ Len(held[t]) \in Nat
      /\ \A i \in 1 .. Len(held[t]) : Append(held[t], c)[i] = held[t][i]
      /\ Append(held[t], c)[Len(held[t]) + 1] = c
  BY <1>1, AppendProperties, LenProperties
<1>3. \A s \in Thread : \A i \in 1 .. Len(held'[s]) :
          held'[s][i] = c \/ (i \in 1 .. Len(held[s]) /\ held'[s][i] = held[s][i])
  BY <1>1, <1>2 DEF Types
<1>4. HeldIs /\ HeldIs'
  BY InPlaces, PTL
<1>. QED
  BY <1>3, <1>4 DEF HeldIs

\* Every step keeps the fields in their sets.
LEMMA FieldsStep == OneInv /\ [Next]_vars => Fields'
<1>. SUFFICES ASSUME IInv, Fields, Attached, Passed, [Next]_vars PROVE Fields'
  BY DEF OneInv
<1>. DEFINE Pass == [now : Nat, todo : SUBSET Url, url : Url \cup {None}, i : Nat \ {0}]
<1>. USE DEF Fields, use, goto, conns, db
<1>1. CASE tick
  BY <1>1, TimeAssumption DEF tick
<1>2. ASSUME NEW t \in Thread, request(t) PROVE Fields'
  <2>1. CASE maybe_expire_cache(t)
    <3>1. [now |-> now, todo |-> Url, url |-> None, i |-> 1]
              \in Pass
      OBVIOUS
    <3>. QED
      BY <2>1, <3>1 DEF maybe_expire_cache
  <2>2. ASSUME NEW u \in Url, expire_connections(t, u) PROVE Fields'
    <3>1. pass[t] \in Pass
      OBVIOUS
    <3>2. pass'[t] \in Pass /\ \A v \in Thread \ {t} : pass'[v] = pass[v]
      BY <2>2, <3>1 DEF expire_connections
    <3>3. pass' \in [Thread -> Pass]
      <4>1. DOMAIN pass' = Thread /\ pass' = [v \in Thread |-> pass'[v]]
        BY <2>2 DEF expire_connections
      <4>2. \A v \in Thread : pass'[v] \in Pass
        BY <3>2
      <4>. QED
        BY <4>1, <4>2
    <3>. QED
      BY <2>2, <3>3 DEF expire_connections
  <2>3. ASSUME NEW u \in Url, get_connection_from_cache(t, u) PROVE Fields'
    BY <2>3 DEF get_connection_from_cache
  <2>4. CASE expire_connection(t)
    <3>1. pass[t] \in Pass
      OBVIOUS
    <3>2. [pass[t] EXCEPT !.url = None] \in Pass /\ [pass[t] EXCEPT !.i = @ + 1] \in Pass
      BY <3>1
    <3>3. CASE pass' = [pass EXCEPT ![t].url = None] /\ at' = at
      BY <2>4, <3>2, <3>3 DEF expire_connection
    <3>4. CASE /\ pass[t].i <= Len(cache[pass[t].url]) /\ pass[t].url # None
               /\ pass' = [pass EXCEPT ![t].i = @ + 1]
               /\ at' = [at EXCEPT ![t] = cache[pass[t].url][pass[t].i]]
      <4>1. pass[t].url \in Url /\ pass[t].i \in Nat \ {0}
        BY <3>1, <3>4
      <4>6. cache[pass[t].url] \in Seq(Conn)
        BY <4>1 DEF IInv, Types
      <4>7. pass[t].i \in 1 .. Len(cache[pass[t].url])
        BY <3>4, <4>1, <4>6, LenProperties
      <4>8. cache[pass[t].url][pass[t].i] \in Conn
        BY <4>6, <4>7, ElementOfSeq
      <4>2. PICK c : c = cache[pass[t].url][pass[t].i]
        OBVIOUS
      <4>3. at' = [at EXCEPT ![t] = c]
        BY <3>4, <4>2
      <4>4. UNCHANGED <<now, prev, used, handle, start, open, dirty>>
        BY <2>4 DEF expire_connection
      <4>5. pass' = [pass EXCEPT ![t] = [pass[t] EXCEPT !.i = @ + 1]]
        BY <3>4
      <4>. QED
        BY <3>2, <4>2, <4>3, <4>4, <4>5, <4>8
    <3>. QED
      BY <2>4, <3>3, <3>4 DEF expire_connection
  <2>5. CASE disconnect(t)
    BY <2>5 DEF disconnect
  <2>6. CASE passDone(t)
    <3>1. pass[t].now = start[t]
      BY <2>6 DEF passDone, Passed, Passing
    <3>2. NoPass \in Pass
      BY DEF NoPass
    <3>. QED
      BY <2>6, <3>1, <3>2 DEF passDone
  <2>7. CASE ping(t)
    <3>1. top(t) \in Conn
      BY <2>7, TopHeld DEF IInv, Holds, ping
    <3>. QED
      BY <2>7, <3>1 DEF ping
  <2>8. CASE connect(t)
    <3>1. ASSUME NEW c \in Garbage, NEW h \in Handle \ open,
                 handle' = [handle EXCEPT ![c] = h], open' = open \cup {h}, use(c)
          PROVE  /\ used' \in [Conn -> Nat] /\ handle' \in [Conn -> Handle \cup {None}]
                 /\ open' \subseteq Handle
      BY <3>1 DEF Garbage
    <3>2. UNCHANGED <<now, prev, start, pass, at, dirty>>
      BY <2>8 DEF connect
    <3>3. /\ used' \in [Conn -> Nat] /\ handle' \in [Conn -> Handle \cup {None}]
          /\ open' \subseteq Handle
      BY <2>8, <3>1 DEF connect
    <3>. QED
      BY <3>2, <3>3
  <2>9. CASE query(t)
    <3>1. top(t) \in Held /\ top(t) \in Conn
      BY <2>9, TopHeld DEF IInv, Holds, query
    <3>2. handle[top(t)] \in Handle
      BY <3>1 DEF Attached
    <3>. QED
      BY <2>9, <3>2 DEF query
  <2>10. CASE bodyEnds(t)
    BY <2>10 DEF bodyEnds
  <2>11. CASE commit(t)
    BY <2>11 DEF commit
  <2>12. CASE rollback(t)
    BY <2>12 DEF rollback
  <2>13. CASE close(t)
    BY <2>13 DEF close
  <2>14. CASE requestEnds(t)
    BY <2>14 DEF requestEnds
  <2>. QED
    BY <1>2, <2>1, <2>2, <2>3, <2>4, <2>5, <2>6, <2>7, <2>8, <2>9, <2>10, <2>11, <2>12,
       <2>13, <2>14 DEF request
<1>3. CASE UNCHANGED vars
  BY <1>3 DEF vars
<1>. QED
  BY <1>1, <1>2, <1>3 DEF Next

\* A handle is opened by connect() for one connection, and closed by the driver's
\* call that disconnects it.
LEMMA HandlesStep == OneThread /\ OneInv /\ [Next]_vars => Handles'
<1>. SUFFICES ASSUME OneThread, OneInv, [Next]_vars PROVE Handles'
  OBVIOUS
<1>. USE DEF OneInv
<1>1. CASE UNCHANGED <<handle, open, pc, at>>
  BY <1>1 DEF Handles
<1>2. ASSUME NEW t \in Thread, request(t) PROVE Handles'
  <2>. \A s \in Thread : s = t
    BY DEF OneThread
  <2>. pc \in [Thread -> {"idle", "expire", "disconnect", "disconnected", "ready", "ping",
                          "reconnect", "connect", "body", "commit", "close", "rollback",
                          "rolledback"}]
    BY DEF IInv, Types
  <2>. handle \in [Conn -> Handle \cup {None}]
    BY DEF Fields
  <2>1. CASE UNCHANGED <<handle, open>> /\ pc[t] # "disconnected" /\ pc'[t] # "disconnected"
    BY <2>1 DEF Handles
  <2>2. CASE disconnect(t)
    <3>1. at[t] \in Conn /\ handle[at[t]] # None
      BY <2>2, InConn DEF disconnect, Attached, IInv
    <3>2. CASE pc[t] = "disconnect"
      <4>1. /\ pc'[t] = "disconnected" /\ at' = at
            /\ open' = open \ {handle[at[t]]} /\ handle' = handle
        BY <2>2, <3>2 DEF disconnect, goto
      <4>. QED
        BY <3>1, <3>2, <4>1 DEF Handles
    <3>3. CASE pc[t] = "disconnected"
      <4>1. handle' = [handle EXCEPT ![at[t]] = None] /\ open' = open
        BY <2>2, <3>3 DEF disconnect, db
      <4>. QED
        BY <3>1, <3>3, <4>1 DEF Handles
    <3>. QED
      BY <2>2, <3>2, <3>3 DEF disconnect
  <2>3. CASE ping(t)
    <3>1. top(t) \in Conn /\ pc[t] = "ping" /\ pc'[t] # "disconnected"
      BY <2>3, TopHeld DEF IInv, Holds, ping, goto, propagate
    <3>2. CASE UNCHANGED <<handle, open>>
      BY <2>1, <3>1, <3>2
    <3>3. CASE open' = open \ {handle[top(t)]} /\ handle' = [handle EXCEPT ![top(t)] = None]
      BY <3>1, <3>3 DEF Handles
    <3>. QED
      BY <2>3, <3>2, <3>3 DEF ping, db
  <2>4. CASE connect(t)
    <3>1. pc[t] = "connect" /\ pc'[t] # "disconnected"
      BY <2>4 DEF connect, goto
    <3>2. ASSUME NEW c \in Garbage, NEW h \in Handle \ open,
                 handle' = [handle EXCEPT ![c] = h], open' = open \cup {h}
          PROVE  Handles'
      <4>1. c \in Conn /\ \A d \in Conn : handle[d] # None => handle[d] \in open
        BY <3>1 DEF Handles, Garbage
      <4>2. h \in Handle /\ \A d \in Conn : handle[d] # h
        BY <4>1, NoneAssumption
      <4>. QED
        BY <3>2, <4>1, <4>2 DEF Handles
    <3>. QED
      BY <2>1, <2>4, <3>1, <3>2 DEF connect, conns
  <2>. USE DEF goto, conns, db, propagate
  <2>5. CASE maybe_expire_cache(t)
    BY <2>1, <2>5 DEF maybe_expire_cache
  <2>6. ASSUME NEW u \in Url, expire_connections(t, u) PROVE Handles'
    BY <2>1, <2>6 DEF expire_connections
  <2>7. ASSUME NEW u \in Url, get_connection_from_cache(t, u) PROVE Handles'
    BY <2>1, <2>7 DEF get_connection_from_cache
  <2>8. CASE expire_connection(t)
    BY <2>1, <2>8 DEF expire_connection
  <2>9. CASE passDone(t)
    BY <2>1, <2>9 DEF passDone
  <2>10. CASE query(t)
    BY <2>1, <2>10 DEF query
  <2>11. CASE bodyEnds(t)
    BY <2>1, <2>11 DEF bodyEnds
  <2>12. CASE commit(t)
    BY <2>1, <2>12 DEF commit
  <2>13. CASE rollback(t)
    BY <2>1, <2>13 DEF rollback
  <2>14. CASE close(t)
    BY <2>1, <2>14 DEF close
  <2>15. CASE requestEnds(t)
    BY <2>1, <2>15 DEF requestEnds
  <2>. QED
    BY <1>2, <2>2, <2>3, <2>4, <2>5, <2>6, <2>7, <2>8, <2>9, <2>10, <2>11, <2>12,
       <2>13, <2>14, <2>15 DEF request
<1>. QED
  BY <1>1, <1>2 DEF Next, tick, vars, conns, db

\* What is held stays connected: the pass and ping() disconnect what is in the
\* cache and what is given up.
LEMMA AttachedStep == OneThread /\ OneInv /\ [Next]_vars => Attached'
<1>. SUFFICES ASSUME OneThread, OneInv, [Next]_vars PROVE Attached'
  OBVIOUS
<1>. USE DEF OneInv
<1>0. IInv' /\ Types'
  BY Step DEF IInv
<1>00. CASE UNCHANGED vars
  BY <1>00 DEF vars, conns, Attached, Held, Cached, Members
<1>1. CASE tick
  BY <1>1 DEF tick, conns, Attached, Held, Cached, Members
<1>2. ASSUME NEW t \in Thread, request(t) PROVE Attached'
  <2>. \A s \in Thread : s = t
    BY DEF OneThread
  <2>. /\ pc \in [Thread -> {"idle", "expire", "disconnect", "disconnected", "ready", "ping",
                             "reconnect", "connect", "body", "commit", "close", "rollback",
                             "rolledback"}]
       /\ held \in [Thread -> Seq(Conn)]
    BY DEF IInv, Types
  <2>. handle \in [Conn -> Handle \cup {None}] /\ at \in [Thread -> Conn \cup {None}]
    BY DEF Fields
  <2>. DEFINE Moving(p) == p \in {"disconnect", "disconnected"}
  <2>1. CASE handle' = handle /\ Held' \subseteq Held /\ ~Moving(pc'[t])
    BY <2>1 DEF Attached
  <2>2. CASE disconnect(t)
    <3>1. UNCHANGED <<cache, held, at>> /\ Held' = Held /\ Cached' = Cached
      BY <2>2 DEF disconnect, Held, Cached, Members
    <3>2. at[t] \in Conn /\ handle[at[t]] # None /\ at[t] \in Cached
      BY <2>2, InConn DEF disconnect, Attached, IInv
    <3>3. CASE pc[t] = "disconnect"
      <4>1. handle' = handle
        BY <2>2, <3>3 DEF disconnect
      <4>. QED
        BY <3>1, <3>2, <4>1 DEF Attached
    <3>4. CASE pc[t] = "disconnected"
      <4>1. handle' = [handle EXCEPT ![at[t]] = None] /\ pc'[t] = "expire"
        BY <2>2, <3>4 DEF disconnect, goto
      <4>2. \A c \in Held : c # at[t] /\ c \in Conn
        BY <3>2, InConn DEF IInv, ExclusiveUse
      <4>. QED
        BY <3>1, <4>1, <4>2 DEF Attached
    <3>. QED
      BY <2>2, <3>3, <3>4 DEF disconnect
  <2>3. CASE ping(t)
    <3>1. held[t] # <<>> /\ top(t) \in Held /\ top(t) \in Conn
      BY <2>3, TopHeld DEF IInv, Holds, ping
    <3>2. ~Moving(pc'[t])
      BY <2>3 DEF ping, goto, propagate
    <3>3. drop(t) => Held' \subseteq Held \ {top(t)}
      BY <1>0, <3>1, DropSets
    <3>4. held' = held => Held' = Held
      BY DEF Held, Members
    <3>5. CASE drop(t) /\ handle' = [handle EXCEPT ![top(t)] = None]
      <4>1. \A c \in Held' : handle'[c] # None
        BY <3>3, <3>5, InConn DEF IInv, Attached
      <4>. QED
        BY <3>2, <4>1 DEF Attached
    <3>. QED
      BY <2>1, <2>3, <3>2, <3>3, <3>4, <3>5 DEF ping
  <2>4. CASE connect(t)
    <3>1. ~Moving(pc'[t])
      BY <2>4 DEF connect, goto
    <3>2. ASSUME NEW c \in Garbage, NEW h \in Handle \ open,
                 handle' = [handle EXCEPT ![c] = h], held' = [held EXCEPT ![t] = Append(@, c)]
          PROVE  Attached'
      <4>1. c \in Conn /\ Held' \subseteq Held \cup {c} /\ h # None
        BY <1>0, <3>2, ConnectSets, NoneAssumption DEF Garbage, IInv
      <4>2. \A d \in Held' : handle'[d] # None
        BY <3>2, <4>1, InConn DEF Attached, IInv
      <4>. QED
        BY <3>1, <4>2 DEF Attached
    <3>3. held' = held => Held' = Held
      BY DEF Held, Members
    <3>. QED
      BY <2>1, <2>4, <3>1, <3>2, <3>3 DEF connect, conns
  <2>5. ASSUME NEW u \in Url, get_connection_from_cache(t, u) PROVE Attached'
    <3>1. handle' = handle
      BY <2>5 DEF get_connection_from_cache, conns
    <3>2. ~Moving(pc'[t]) /\ \A c \in Held' : handle[c] # None
      <4>1. held' = held => Held' = Held
        BY DEF Held, Members
      <4>. QED
        BY <1>0, <2>5, <4>1, GetSets DEF IInv, Attached
    <3>. QED
      BY <3>1, <3>2 DEF Attached
  <2>6. CASE expire_connection(t)
    <3>1. UNCHANGED <<cache, held, handle>> /\ Held' = Held /\ Cached' = Cached
      BY <2>6 DEF expire_connection, Held, Cached, Members, conns
    <3>2. pc[t] = "expire" /\ pass[t].url # None
      BY <2>6 DEF expire_connection
    <3>3. CASE pc' = pc
      BY <3>1, <3>2, <3>3, <2>1
    <3>4. CASE /\ pass[t].i <= Len(cache[pass[t].url])
               /\ at' = [at EXCEPT ![t] = cache[pass[t].url][pass[t].i]]
               /\ handle[cache[pass[t].url][pass[t].i]] # None
      <4>1. pass[t].url \in Url /\ pass[t].i \in Nat \ {0}
        BY <3>2 DEF Fields
      <4>2. pass[t].i \in 1 .. Len(cache[pass[t].url])
        BY <3>4, <4>1, LenProperties DEF IInv, Types
      <4>3. cache[pass[t].url][pass[t].i] \in Cached
        BY <4>1, <4>2, InPlaces DEF CachedIs, IInv
      <4>4. at'[t] \in Cached /\ handle[at'[t]] # None
        BY <3>4, <4>3
      <4>. QED
        BY <3>1, <4>4 DEF Attached
    <3>. QED
      BY <2>6, <3>3, <3>4 DEF expire_connection
  <2>. USE DEF goto, conns, propagate
  <2>9. ASSUME held' = held PROVE Held' = Held
    BY <2>9 DEF Held, Members
  <2>10. CASE maybe_expire_cache(t)
    BY <2>1, <2>9, <2>10 DEF maybe_expire_cache
  <2>11. ASSUME NEW u \in Url, expire_connections(t, u) PROVE Attached'
    BY <2>1, <2>9, <2>11 DEF expire_connections
  <2>12. CASE passDone(t)
    BY <2>1, <2>9, <2>12 DEF passDone
  <2>13. CASE query(t)
    BY <2>1, <2>9, <2>13 DEF query
  <2>14. CASE bodyEnds(t)
    BY <2>1, <2>9, <2>14 DEF bodyEnds
  <2>15. CASE commit(t)
    BY <2>1, <2>9, <2>15 DEF commit
  <2>16. CASE rollback(t)
    <3>1. held[t] # <<>>
      BY <2>16 DEF IInv, Holds, rollback
    <3>2. Held' \subseteq Held
      BY <1>0, <2>9, <2>16, <3>1, DropSets DEF rollback
    <3>. QED
      BY <2>1, <2>16, <3>2 DEF rollback
  <2>17. CASE close(t)
    <3>1. Held' \subseteq Held
      BY <1>0, <2>17, CloseSets
    <3>. QED
      BY <2>1, <2>17, <3>1 DEF close
  <2>18. CASE requestEnds(t)
    BY <2>1, <2>9, <2>18 DEF requestEnds
  <2>. QED
    BY <1>2, <2>2, <2>3, <2>4, <2>5, <2>6, <2>10, <2>11, <2>12,
       <2>13, <2>14, <2>15, <2>16, <2>17, <2>18 DEF request
<1>. QED
  BY <1>00, <1>1, <1>2 DEF Next

\* Work is done on the handle of a held connection, that no cached one has, and
\* commit() or rollback() ends it before close().
LEMMA CleanStep == OneThread /\ OneInv /\ [Next]_vars => Clean'
<1>. SUFFICES ASSUME OneThread, OneInv, [Next]_vars PROVE Clean'
  OBVIOUS
<1>. USE DEF OneInv
<1>0. IInv' /\ Types'
  BY Step DEF IInv
<1>. DEFINE Same == UNCHANGED <<cache, held, pc, handle, dirty>>
<1>1. CASE Same
  <2>1. Cached' = Cached /\ \A t \in Thread : top(t)' = top(t) /\ Closing(t)' = Closing(t)
    BY <1>1 DEF Cached, Members, top, Closing
  <2>. QED
    BY <1>1, <2>1 DEF Clean, CleanInCache, Closing
<1>2. ASSUME NEW t \in Thread, request(t) PROVE Clean'
  <2>. \A s \in Thread : s = t
    BY DEF OneThread
  <2>. /\ pc \in [Thread -> {"idle", "expire", "disconnect", "disconnected", "ready", "ping",
                             "reconnect", "connect", "body", "commit", "close", "rollback",
                             "rolledback"}]
       /\ held \in [Thread -> Seq(Conn)] /\ Cached \subseteq Conn /\ Held \subseteq Conn
    BY InConn DEF IInv, Types
  <2>. handle \in [Conn -> Handle \cup {None}] /\ at \in [Thread -> Conn \cup {None}] /\ dirty \subseteq Handle
    BY DEF Fields
  <2>a. ASSUME cache' = cache PROVE Cached' = Cached
    BY <2>a DEF Cached, Members
  <2>b. ASSUME held' = held PROVE top(t)' = top(t)
    BY <2>b DEF top
  <2>1. CASE /\ handle' = handle /\ dirty' \subseteq dirty /\ Cached' \subseteq Cached
             /\ pc'[t] \notin {"close", "rolledback"}
    BY <2>1 DEF Clean, CleanInCache, Closing
  <2>2. CASE disconnect(t)
    <3>1. Cached' = Cached /\ dirty' \subseteq dirty /\ pc'[t] \notin {"close", "rolledback"}
      BY <2>2, <2>a DEF disconnect, goto, db
    <3>2. handle' = handle \/ handle' = [handle EXCEPT ![at[t]] = None]
      BY <2>2 DEF disconnect
    <3>. QED
      BY <2>1, <3>1, <3>2, NoneAssumption DEF Clean, CleanInCache, Closing
  <2>3. CASE ping(t)
    <3>1. Cached' = Cached /\ dirty' \subseteq dirty /\ pc'[t] \notin {"close", "rolledback"}
      BY <2>3, <2>a DEF ping, goto, propagate, db
    <3>2. handle' = handle \/ handle' = [handle EXCEPT ![top(t)] = None]
      BY <2>3 DEF ping
    <3>. QED
      BY <2>1, <3>1, <3>2, NoneAssumption DEF Clean, CleanInCache, Closing
  <2>4. CASE connect(t)
    <3>1. Cached' = Cached /\ dirty' = dirty /\ pc'[t] \notin {"close", "rolledback"}
      BY <2>4, <2>a DEF connect, goto
    <3>2. \A c \in Cached : handle'[c] = handle[c]
      BY <2>4 DEF connect, conns, Garbage
    <3>. QED
      BY <3>1, <3>2 DEF Clean, CleanInCache, Closing
  <2>5. CASE query(t)
    <3>1. /\ Cached' = Cached /\ handle' = handle /\ pc'[t] \notin {"close", "rolledback"}
          /\ dirty' = dirty \cup {handle[top(t)]}
      BY <2>5, <2>a DEF query, goto
    <3>2. top(t) \in Held /\ top(t) \in Conn /\ handle[top(t)] # None
      BY <2>5, TopHeld DEF IInv, Holds, query, Attached
    <3>3. \A c \in Cached : handle[c] # handle[top(t)]
      BY <3>2 DEF IInv, ExclusiveUse, Handles
    <3>. QED
      BY <3>1, <3>3 DEF Clean, CleanInCache, Closing
  <2>6. CASE commit(t)
    <3>1. /\ Cached' = Cached /\ handle' = handle /\ top(t)' = top(t) /\ dirty' \subseteq dirty
          /\ pc'[t] \in {"close", "rolledback"} => handle[top(t)] \notin dirty'
      BY <2>6, <2>a, <2>b DEF commit, goto
    <3>. QED
      BY <3>1 DEF Clean, CleanInCache, Closing
  <2>7. CASE rollback(t)
    <3>1. Cached' = Cached /\ handle' = handle /\ dirty' \subseteq dirty
      BY <2>7, <2>a DEF rollback
    <3>2. pc'[t] \in {"close", "rolledback"} => top(t)' = top(t) /\ handle[top(t)] \notin dirty'
      BY <2>7, <2>b DEF rollback, goto, propagate
    <3>. QED
      BY <3>1, <3>2 DEF Clean, CleanInCache, Closing
  <2>8. CASE close(t)
    <3>1. handle' = handle /\ dirty' = dirty /\ pc'[t] \notin {"close", "rolledback"}
      BY <2>8 DEF close, goto, propagate, conns, db
    <3>2. handle[top(t)] \notin dirty
      BY <2>8 DEF Clean, Closing, close
    <3>3. Cached' \subseteq Cached \cup {top(t)}
      BY <1>0, <2>8, CloseSets
    <3>. QED
      BY <3>1, <3>2, <3>3 DEF Clean, CleanInCache, Closing
  <2>. USE DEF goto, conns, db
  <2>9. ASSUME NEW u \in Url, get_connection_from_cache(t, u) PROVE Clean'
    <3>1. Cached' \subseteq Cached /\ pc'[t] \notin {"close", "rolledback"}
      BY <1>0, <2>9, GetSets DEF IInv
    <3>. QED
      BY <2>1, <2>9, <3>1 DEF get_connection_from_cache
  <2>10. CASE maybe_expire_cache(t)
    BY <2>1, <2>a, <2>10 DEF maybe_expire_cache
  <2>11. ASSUME NEW u \in Url, expire_connections(t, u) PROVE Clean'
    BY <1>1, <2>11 DEF expire_connections
  <2>12. CASE expire_connection(t)
    BY <2>1, <2>a, <2>12 DEF expire_connection
  <2>13. CASE passDone(t)
    BY <2>1, <2>a, <2>13 DEF passDone
  <2>14. CASE bodyEnds(t)
    BY <2>1, <2>a, <2>14 DEF bodyEnds
  <2>15. CASE requestEnds(t)
    BY <2>1, <2>a, <2>15 DEF requestEnds
  <2>. QED
    BY <1>2, <2>2, <2>3, <2>4, <2>5, <2>6, <2>7, <2>8, <2>9, <2>10, <2>11, <2>12,
       <2>13, <2>14, <2>15 DEF request
<1>. QED
  BY <1>1, <1>2 DEF Next, tick, vars, conns, db

\* A connection goes into the cache just after it was used, and one that was not
\* for a period is disconnected by the pass.
LEMMA LastPassStep == OneThread /\ OneInv /\ [Next]_vars => LastPass'
<1>. SUFFICES ASSUME OneThread, OneInv, [Next]_vars PROVE LastPass'
  OBVIOUS
<1>. USE DEF OneInv
<1>0. IInv' /\ Types'
  BY Step DEF IInv
<1>1. CASE UNCHANGED <<cache, held, pc, handle, used, prev, start>>
  <2>1. /\ Cached' = Cached /\ \A t \in Thread : top(t)' = top(t)
        /\ \A t \in Thread : Closing(t)' = Closing(t) /\ Passing(t)' = Passing(t)
    BY <1>1 DEF Cached, Members, top, Closing, Passing
  <2>. QED
    BY <1>1, <2>1 DEF LastPass, Recent
<1>2. ASSUME NEW t \in Thread, request(t) PROVE LastPass'
  <2>. \A s \in Thread : s = t
    BY DEF OneThread
  <2>. /\ pc \in [Thread -> {"idle", "expire", "disconnect", "disconnected", "ready", "ping",
                             "reconnect", "connect", "body", "commit", "close", "rollback",
                             "rolledback"}]
       /\ held \in [Thread -> Seq(Conn)] /\ Cached \subseteq Conn /\ Held \subseteq Conn
    BY InConn DEF IInv, Types
  <2>. /\ handle \in [Conn -> Handle \cup {None}] /\ used \in [Conn -> Nat] /\ start \in [Thread -> Nat]
       /\ now \in Nat /\ prev \in Nat /\ prev <= now /\ at \in [Thread -> Conn \cup {None}]
       /\ start[t] <= now
    BY DEF Fields
  <2>. Expire \in Nat \ {0}
    BY TimeAssumption
  <2>a. ASSUME cache' = cache PROVE Cached' = Cached
    BY <2>a DEF Cached, Members
  <2>b. ASSUME held' = held PROVE top(t)' = top(t)
    BY <2>b DEF top
  <2>. DEFINE Goes(p) == p \in {"ready", "reconnect", "connect", "body", "commit", "rollback"}
  \* The time of the pass and of the request stay, and the times of use grow
  <2>c. CASE /\ prev' = prev /\ start' = start /\ handle' = handle /\ Cached' \subseteq Cached
             /\ \A c \in Conn : used'[c] >= used[c] /\ used'[c] \in Nat
             /\ Goes(pc[t]) \/ pc[t] = "ping" \/ (Closing(t) /\ Goes(pc'[t]))
             /\ Goes(pc'[t])
    BY <2>c DEF LastPass, Recent, Passing, Closing
  <2>2. CASE disconnect(t)
    <3>1. /\ Cached' = Cached /\ prev' = prev /\ start' = start /\ used' = used
          /\ pc'[t] \in {"disconnected", "expire"}
      BY <2>2, <2>a DEF disconnect, goto
    <3>2. handle' = handle \/ handle' = [handle EXCEPT ![at[t]] = None]
      BY <2>2 DEF disconnect
    <3>. QED
      BY <3>1, <3>2 DEF LastPass, Recent, Passing, Closing
  <2>3. CASE ping(t)
    <3>1. /\ Cached' = Cached /\ prev' = prev /\ start' = start /\ pc[t] = "ping" /\ Goes(pc'[t])
      BY <2>3, <2>a DEF ping, goto, propagate
    <3>2. handle' = handle \/ handle' = [handle EXCEPT ![top(t)] = None]
      BY <2>3 DEF ping
    <3>3. used' = [used EXCEPT ![top(t)] = now]
      BY <2>3 DEF ping, use
    <3>4. \A c \in Cached : Recent(c, prev)'
      <4>. TAKE c \in Cached
      <4>1. handle'[c] # None => handle[c] # None
        BY <3>2
      <4>2. used'[c] = used[c] \/ used'[c] = now
        BY <3>3
      <4>. QED
        BY <3>1, <4>1, <4>2 DEF LastPass, Recent
    <3>5. prev >= start[t] - CHECK_EXPIRED_CONNECTIONS_SECONDS
      BY <3>1 DEF LastPass, Passing
    <3>. QED
      BY <3>1, <3>4, <3>5 DEF LastPass, Passing, Closing
  <2>4. CASE connect(t)
    <3>1. /\ Cached' = Cached /\ prev' = prev /\ start' = start /\ pc[t] = "connect" /\ Goes(pc'[t])
      BY <2>4, <2>a DEF connect, goto
    <3>2. \A c \in Cached : handle'[c] = handle[c] /\ used'[c] = used[c]
      BY <2>4 DEF connect, conns, use, Garbage
    <3>. QED
      BY <3>1, <3>2 DEF LastPass, Recent, Passing, Closing
  <2>d. ASSUME use(top(t)), prev' = prev, start' = start, handle' = handle, Cached' = Cached,
               held[t] # <<>>, Goes(pc[t]), ~Passing(t)', pc'[t] \notin {"idle", "ping"},
               Closing(t)' => held' = held
        PROVE  LastPass'
    <3>1. top(t) \in Conn
      BY <2>d, TopHeld DEF IInv
    <3>2. used' = [used EXCEPT ![top(t)] = now]
      BY <2>d DEF use
    <3>3. \A c \in Cached : Recent(c, prev)' 
      BY <2>d, <3>1, <3>2 DEF LastPass, Recent
    <3>4. Closing(t)' => used'[top(t)'] = now
      BY <2>b, <2>d, <3>1, <3>2
    <3>5. prev >= start[t] - CHECK_EXPIRED_CONNECTIONS_SECONDS
      BY <2>d DEF LastPass, Passing
    <3>. QED
      BY <2>d, <3>3, <3>4, <3>5 DEF LastPass
  <2>5. CASE query(t)
    BY <2>a, <2>d, <2>5 DEF query, goto, IInv, Holds, Passing, Closing
  <2>6. CASE commit(t)
    BY <2>a, <2>d, <2>6 DEF commit, goto, IInv, Holds, Passing, Closing
  <2>7. CASE rollback(t)
    <3>1. /\ use(top(t)) /\ prev' = prev /\ start' = start /\ handle' = handle /\ Cached' = Cached
          /\ held[t] # <<>> /\ Goes(pc[t])
      BY <2>a, <2>7 DEF rollback, IInv, Holds
    <3>2. ~Passing(t)' /\ pc'[t] \notin {"idle", "ping"} /\ (Closing(t)' => held' = held)
      BY <2>7 DEF rollback, goto, propagate, Passing, Closing
    <3>. QED
      BY <2>d, <3>1, <3>2
  <2>8. CASE close(t)
    <3>1. handle' = handle /\ used' = used /\ prev' = prev /\ start' = start /\ Goes(pc'[t])
      BY <2>8 DEF close, goto, propagate, conns
    <3>2. used[top(t)] >= prev - Expire /\ prev >= start[t] - CHECK_EXPIRED_CONNECTIONS_SECONDS
      BY <2>8 DEF LastPass, Closing, Passing, close
    <3>3. Cached' \subseteq Cached \cup {top(t)}
      BY <1>0, <2>8, CloseSets
    <3>. QED
      <4>1. \A c \in Cached' : Recent(c, prev)'
        BY <3>1, <3>2, <3>3 DEF LastPass, Recent
      <4>2. ~Closing(t)' /\ pc'[t] \notin {"idle", "ping"} /\ ~Passing(t)'
        BY <3>1 DEF Closing, Passing
      <4>3. prev >= start[t] - CHECK_EXPIRED_CONNECTIONS_SECONDS
        BY <3>2
      <4>. QED
        BY <3>1, <4>1, <4>2, <4>3 DEF LastPass
  <2>9. ASSUME NEW u \in Url, get_connection_from_cache(t, u) PROVE LastPass'
    <3>1. /\ UNCHANGED <<handle, used, prev, start>> /\ Cached' \subseteq Cached
          /\ pc'[t] \in {"connect", "ping"}
          /\ pc'[t] = "ping" => top(t)' \in Cached /\ handle[top(t)'] # None
      <4>1. UNCHANGED <<handle, used, prev, start>>
        BY <2>9 DEF get_connection_from_cache, conns
      <4>2. /\ Cached' \subseteq Cached
            /\ \/ pc' = [pc EXCEPT ![t] = "connect"]
               \/ pc' = [pc EXCEPT ![t] = "ping"] /\ \E c \in Cached : handle[c] # None /\ top(t)' = c
        BY <1>0, <2>9, GetSets DEF IInv
      <4>3. pc'[t] \in {"connect", "ping"} /\ (pc'[t] = "ping" => \E c \in Cached : handle[c] # None /\ top(t)' = c)
        BY <4>2
      <4>. QED
        BY <4>1, <4>2, <4>3
    <3>2. pc[t] \in {"ready", "body"}
      BY <2>9 DEF get_connection_from_cache
    <3>. QED
      BY <3>1, <3>2 DEF LastPass, Recent, Closing, Passing
  <2>10. CASE maybe_expire_cache(t)
    <3>1. /\ UNCHANGED <<handle, used, prev>> /\ Cached' = Cached /\ start'[t] = now
          /\ pc'[t] \in {"expire", "ready"}
          /\ pc'[t] = "ready" => prev >= now - CHECK_EXPIRED_CONNECTIONS_SECONDS
      BY <2>a, <2>10 DEF maybe_expire_cache, goto, conns, CHECK_EXPIRED_CONNECTIONS_SECONDS
    <3>. QED
      BY <3>1 DEF LastPass, Recent, Closing, Passing
  <2>11. ASSUME NEW u \in Url, expire_connections(t, u) PROVE LastPass'
    BY <1>1, <2>11 DEF expire_connections, conns
  <2>12. CASE expire_connection(t)
    <3>1. /\ UNCHANGED <<handle, used, prev, start>> /\ Cached' = Cached
          /\ pc'[t] \in {"expire", "disconnect"}
      BY <2>a, <2>12 DEF expire_connection, goto, conns
    <3>. QED
      BY <3>1 DEF LastPass, Recent, Closing, Passing
  <2>13. CASE passDone(t)
    <3>1. /\ UNCHANGED <<cache, handle, used, start>> /\ Cached' = Cached /\ pc'[t] = "ready"
          /\ prev' = pass[t].now /\ pc[t] = "expire" /\ pass[t].todo = {} /\ pass[t].url = None
      BY <2>a, <2>13 DEF passDone, goto, conns
    <3>2. prev' = start[t] /\ \A u \in Url : \A i \in DOMAIN cache[u] : Recent(cache[u][i], start[t])
      BY <3>1, NoneAssumption DEF Passed, Passing
    <3>3. \A c \in Cached : Recent(c, start[t])
      BY <3>2 DEF Cached, Members
    <3>. QED
      BY <3>1, <3>2, <3>3 DEF LastPass, Recent, Closing, Passing, CHECK_EXPIRED_CONNECTIONS_SECONDS
  <2>14. CASE bodyEnds(t)
    BY <2>a, <2>c, <2>14 DEF bodyEnds, goto, conns
  <2>15. CASE requestEnds(t)
    <3>1. UNCHANGED <<handle, used, prev>> /\ Cached' = Cached /\ pc'[t] = "idle"
      BY <2>a, <2>15 DEF requestEnds, goto, conns
    <3>. QED
      BY <3>1 DEF LastPass, Recent, Closing, Passing
  <2>. QED
    BY <1>2, <2>2, <2>3, <2>4, <2>5, <2>6, <2>7, <2>8, <2>9, <2>10, <2>11, <2>12,
       <2>13, <2>14, <2>15 DEF request
<1>. QED
  BY <1>1, <1>2 DEF Next, tick, vars, conns, db

\* The pass meets every connection of the cache, which nobody changes meanwhile.
LEMMA PassedStep == OneThread /\ OneInv /\ [Next]_vars => Passed'
<1>. SUFFICES ASSUME OneThread, OneInv, [Next]_vars PROVE Passed'
  OBVIOUS
<1>. USE DEF OneInv
<1>1. CASE UNCHANGED <<cache, pc, handle, used, start, pass, at>>
  <2>1. \A t \in Thread : Passing(t)' = Passing(t)
    BY <1>1 DEF Passing
  <2>. QED
    BY <1>1, <2>1 DEF Passed, Recent
<1>2. ASSUME NEW t \in Thread, request(t) PROVE Passed'
  <2>. \A s \in Thread : s = t
    BY DEF OneThread
  <2>. /\ pc \in [Thread -> {"idle", "expire", "disconnect", "disconnected", "ready", "ping",
                             "reconnect", "connect", "body", "commit", "close", "rollback",
                             "rolledback"}]
       /\ \A u \in Url : \A i \in DOMAIN cache[u] : cache[u][i] \in Conn /\ i \in Nat \ {0} /\ i <= Len(cache[u])
    <3>1. pc \in [Thread -> {"idle", "expire", "disconnect", "disconnected", "ready", "ping",
                             "reconnect", "connect", "body", "commit", "close", "rollback",
                             "rolledback"}]
      BY DEF IInv, Types
    <3>2. ASSUME NEW u \in Url, NEW i \in DOMAIN cache[u]
          PROVE  cache[u][i] \in Conn /\ i \in Nat \ {0} /\ i <= Len(cache[u])
      <4>1. cache[u] \in Seq(Conn)
        BY DEF IInv, Types
      <4>2. i \in 1 .. Len(cache[u]) /\ Len(cache[u]) \in Nat
        BY <4>1, LenProperties
      <4>. QED
        BY <4>1, <4>2, ElementOfSeq
    <3>. QED
      BY <3>1, <3>2
  <2>. /\ handle \in [Conn -> Handle \cup {None}] /\ used \in [Conn -> Nat] /\ start \in [Thread -> Nat]
       /\ now \in Nat /\ at \in [Thread -> Conn \cup {None}]
    BY DEF Fields
  <2>. pass \in [Thread -> [now : Nat, todo : SUBSET Url, url : Url \cup {None}, i : Nat \ {0}]]
    BY DEF Fields
  <2>. DEFINE p == pass[t]
              Done(u, i, q, pp) ==
                  \/ u \in q.todo \/ (u = q.url /\ i >= q.i)
                  \/ Recent(cache[u][i], q.now)
                  \/ pp # "expire" /\ cache[u][i] = at[t]
  <2>1. CASE ~Passing(t)'
    BY <2>1 DEF Passed
  <2>a. ASSUME Passing(t)
        PROVE  p.now = start[t] /\ \A u \in Url : \A i \in DOMAIN cache[u] : Done(u, i, p, pc[t])
    BY <2>a DEF Passed
  <2>2. CASE maybe_expire_cache(t)
    <3>1. CASE pass' = [pass EXCEPT ![t] = [now |-> now, todo |-> Url, url |-> None, i |-> 1]]
      <4>1. pass'[t].now = now /\ pass'[t].todo = Url /\ start'[t] = now /\ cache' = cache
        BY <2>2, <3>1 DEF maybe_expire_cache
      <4>. QED
        BY <4>1 DEF Passed
    <3>2. CASE pc'[t] = "ready"
      BY <2>1, <3>2 DEF Passing
    <3>. QED
      BY <2>2, <3>1, <3>2 DEF maybe_expire_cache, goto
  <2>3. ASSUME NEW u \in Url, expire_connections(t, u) PROVE Passed'
    <3>1. UNCHANGED <<cache, pc, handle, used, start, at>> /\ pc[t] = "expire" /\ p.url = None
      BY <2>3 DEF expire_connections, conns
    <3>2. pass'[t].now = p.now /\ pass'[t].todo = p.todo \ {u} /\ pass'[t].url = u /\ pass'[t].i = 1
      BY <2>3 DEF expire_connections
    <3>3. \A v \in Url : \A i \in DOMAIN cache[v] :
              \/ v \in pass'[t].todo \/ (v = u /\ i >= 1)
              \/ Recent(cache[v][i], p.now)
      <4>. TAKE v \in Url
      <4>. TAKE i \in DOMAIN cache[v]
      <4>1. Done(v, i, p, pc[t])
        BY <2>a, <3>1 DEF Passing
      <4>2. i >= 1
        OBVIOUS
      <4>. QED
        BY <3>1, <3>2, <4>1, <4>2, NoneAssumption
    <3>4. p.now = start[t]
      BY <2>a, <3>1 DEF Passing
    <3>. QED
      BY <3>1, <3>2, <3>3, <3>4 DEF Passed, Recent
  <2>4. CASE expire_connection(t)
    <3>1. /\ UNCHANGED <<cache, handle, used, start>> /\ pc[t] = "expire"
          /\ p.url \in Url /\ p.i \in Nat \ {0} /\ p.now \in Nat
      BY <2>4 DEF expire_connection, conns
    <3>2. p.now = start[t] /\ \A u \in Url : \A i \in DOMAIN cache[u] : Done(u, i, p, "expire")
      BY <2>a, <3>1 DEF Passing
    <3>. DEFINE c == cache[p.url][p.i]
    <3>3. CASE /\ p.i > Len(cache[p.url]) /\ UNCHANGED <<pc, at>>
               /\ pass' = [pass EXCEPT ![t].url = None]
      <4>1. pass'[t].now = p.now /\ pass'[t].todo = p.todo
        BY <3>3
      <4>2. \A u \in Url : \A i \in DOMAIN cache[u] : u \in p.todo \/ Recent(cache[u][i], p.now)
        <5>. TAKE u \in Url
        <5>. TAKE i \in DOMAIN cache[u]
        <5>1. Done(u, i, p, "expire")
          BY <3>2
        <5>2. u = p.url => ~(i >= p.i)
          <6>1. i <= Len(cache[u]) /\ i \in Nat /\ Len(cache[u]) \in Nat
            BY LenProperties DEF IInv, Types
          <6>. QED
            BY <3>1, <3>3, <6>1
        <5>. QED
          BY <5>1, <5>2
      <4>. QED
        BY <3>1, <3>2, <4>1, <4>2 DEF Passed, Recent
    <3>4. CASE /\ at' = [at EXCEPT ![t] = c] /\ pass' = [pass EXCEPT ![t].i = @ + 1]
               /\ IF handle[c] # None /\ used[c] < p.now - Expire
                  THEN goto(t, "disconnect") ELSE UNCHANGED pc
      <4>1. /\ pass'[t].now = p.now /\ pass'[t].todo = p.todo /\ pass'[t].url = p.url
            /\ pass'[t].i = p.i + 1 /\ at'[t] = c
        BY <3>4
      <4>2. \A u \in Url : \A i \in DOMAIN cache[u] :
                Done(u, i, p, "expire") =>
                    \/ u \in p.todo \/ (u = p.url /\ i >= p.i + 1)
                    \/ Recent(cache[u][i], p.now) \/ cache[u][i] = c
        BY <3>1
      <4>3. CASE handle[c] # None /\ used[c] < p.now - Expire
        <5>1. pc'[t] = "disconnect"
          BY <3>4, <4>3 DEF goto
        <5>. QED
          BY <3>1, <3>2, <4>1, <4>2, <5>1 DEF Passed, Recent
      <4>4. CASE ~(handle[c] # None /\ used[c] < p.now - Expire)
        <5>1. \A u \in Url : \A i \in DOMAIN cache[u] : cache[u][i] = c => Recent(c, p.now)
          <6>1. Expire \in Nat
            BY TimeAssumption
          <6>. QED
            BY <3>1, <4>4, <6>1 DEF Recent
        <5>. QED
          BY <3>1, <3>2, <4>1, <4>2, <5>1 DEF Passed, Recent
      <4>. QED
        BY <4>3, <4>4
    <3>. QED
      BY <2>4, <3>3, <3>4 DEF expire_connection
  <2>5. CASE disconnect(t)
    <3>1. /\ UNCHANGED <<cache, used, start, pass, at>> /\ Passing(t)
          /\ p.now = start[t]
      BY <2>5, <2>a DEF disconnect, Passing
    <3>2. CASE pc[t] = "disconnect"
      <4>1. pc'[t] = "disconnected" /\ handle' = handle
        BY <2>5, <3>2 DEF disconnect, goto
      <4>. QED
        BY <2>a, <3>1, <3>2, <4>1 DEF Passed, Recent
    <3>3. CASE pc[t] = "disconnected"
      <4>1. handle' = [handle EXCEPT ![at[t]] = None]
        BY <2>5, <3>3 DEF disconnect
      <4>2. \A u \in Url : \A i \in DOMAIN cache[u] :
                (Recent(cache[u][i], p.now) \/ cache[u][i] = at[t]) => Recent(cache[u][i], p.now)'
        BY <3>1, <4>1 DEF Recent
      <4>. QED
        BY <2>a, <3>1, <4>1, <4>2 DEF Passed
    <3>. QED
      BY <2>5, <3>2, <3>3 DEF disconnect
  <2>6. CASE \/ passDone(t) \/ ping(t) \/ connect(t) \/ query(t) \/ bodyEnds(t) \/ commit(t)
             \/ rollback(t) \/ close(t) \/ requestEnds(t)
             \/ \E u \in Url : get_connection_from_cache(t, u)
    BY <2>1, <2>6 DEF passDone, ping, connect, query, bodyEnds, commit, rollback, close,
                      requestEnds, get_connection_from_cache, goto, propagate, Passing
  <2>. QED
    BY <1>2, <2>2, <2>3, <2>4, <2>5, <2>6 DEF request
<1>. QED
  BY <1>1, <1>2 DEF Next, tick, vars, conns, db

LEMMA OneInitially == Init => OneInv
<1>. SUFFICES ASSUME Init PROVE OneInv
  OBVIOUS
<1>1. IInv
  BY Initially
<1>2. Fields
  BY DEF Init, Fields, NoPass
<1>3. Held = {} /\ Cached = {}
  <2>1. DOMAIN <<>> = {}
    OBVIOUS
  <2>. QED
    BY <2>1 DEF Init, Held, Cached, Members
<1>4. Handles
  BY DEF Init, Handles
<1>5. Attached
  BY <1>3 DEF Init, Attached
<1>6. Clean /\ LastPass /\ Passed
  BY <1>3 DEF Init, Clean, CleanInCache, LastPass, Passed, Closing, Passing
<1>. QED
  BY <1>1, <1>2, <1>4, <1>5, <1>6 DEF OneInv

LEMMA OneInvariance == ASSUME OneThread PROVE Spec => []OneInv
<1>1. OneInv /\ [Next]_vars => OneInv'
  <2>1. IInv /\ [Next]_vars => IInv'
    BY Step
  <2>. QED
    BY <2>1, FieldsStep, HandlesStep, AttachedStep, CleanStep, LastPassStep, PassedStep DEF OneInv
<1>. QED
  BY <1>1, OneInitially, PTL DEF Spec

\* What a process with one thread gets from the cache has no work of an earlier
\* request in it and was used at most three periods ago (close() is called after
\* commit() or rollback(), maybe_expire_cache() before the request).
THEOREM CacheIsUsable == ASSUME OneThread PROVE Spec => []CacheHoldsUsable
<1>1. OneInv => CacheHoldsUsable
  <2>. SUFFICES ASSUME OneInv PROVE CacheHoldsUsable
    OBVIOUS
  <2>1. CleanInCache
    BY DEF OneInv, Clean
  <2>2. ASSUME NEW t \in Thread, pc[t] = "ping"
        PROVE  used[top(t)] >= start[t] - CHECK_EXPIRED_CONNECTIONS_SECONDS - Expire
    <3>1. /\ used[top(t)] >= prev - Expire
          /\ prev >= start[t] - CHECK_EXPIRED_CONNECTIONS_SECONDS
      BY <2>2 DEF OneInv, LastPass, Passing
    <3>2. top(t) \in Conn
      BY <2>2, TopHeld DEF OneInv, IInv, Holds
    <3>3. used[top(t)] \in Nat /\ prev \in Nat /\ start[t] \in Nat /\ Expire \in Nat
      BY <3>2, TimeAssumption DEF OneInv, Fields
    <3>. QED
      BY <3>1, <3>3 DEF CHECK_EXPIRED_CONNECTIONS_SECONDS
  <2>. QED
    BY <2>1, <2>2 DEF CacheHoldsUsable, StaleNotReused
<1>. QED
  BY <1>1, OneInvariance, PTL

\* And the driver of a process with one thread is called with an open connection,
\* that no other SQL_Connection of the cache or of a ^connect has (a connection is
\* disconnected where it is cached, and popped ones are skipped then).
THEOREM DriverGetsOpen == ASSUME OneThread PROVE Spec => []UsedConnected
<1>1. ASSUME OneThread, OneInv PROVE UsedConnected
  <2>1. ASSUME NEW c \in Conn, handle[c] # None, \A t \in Thread : pc[t] # "disconnected"
        PROVE  OwnHandle(c)
    <3>1. Held \cup Cached \subseteq Conn
      BY <1>1, InConn DEF OneInv, IInv
    <3>. QED
      BY <1>1, <2>1, <3>1 DEF OneInv, Handles, OwnHandle
  <2>. SUFFICES ASSUME NEW t \in Thread
                PROVE  /\ pc[t] \in {"ping", "body", "commit", "rollback"} => OwnHandle(top(t))
                       /\ pc[t] = "disconnect" => OwnHandle(at[t])
    BY DEF UsedConnected
  <2>2. \A s \in Thread : s = t
    BY <1>1 DEF OneThread
  <2>3. CASE pc[t] \in {"ping", "body", "commit", "rollback"}
    <3>1. top(t) \in Held /\ top(t) \in Conn
      BY <1>1, <2>3, TopHeld DEF OneInv, IInv, Holds
    <3>. QED
      BY <1>1, <2>1, <2>2, <2>3, <3>1 DEF OneInv, Attached
  <2>4. CASE pc[t] = "disconnect"
    <3>1. at[t] \in Conn /\ handle[at[t]] # None
      BY <1>1, <2>4, InConn DEF OneInv, IInv, Attached
    <3>. QED
      BY <2>1, <2>2, <2>4, <3>1
  <2>. QED
    BY <2>3, <2>4
<1>. QED
  BY <1>1, OneInvariance, PTL
-----------------------------------------------------------------------------

\* The code of classes: a method that is compiled, a class,
Methods == [file : File, at : Nat, stamp : Nat, params : Nat, locals : BOOLEAN] \cup {None}
Class ==
    [name : Code!Names, base : Nat, derived : SUBSET Nat, methods : [MethodName -> Methods],
     partial : BOOLEAN, locals : BOOLEAN, own : SUBSET MethodName]
\* and the classes of a request, the first of them MAIN
Table(cs) ==
    /\ cs \in Seq(Class) /\ Len(cs) > 0
    /\ \A c \in 1 .. Len(cs) : cs[c].base \in 0 .. Len(cs) /\ cs[c].derived \subseteq 1 .. Len(cs)

\* The line of a class is the least set with it and with the bases of its classes.
LEMMA LineClosed ==
    ASSUME NEW cs, Table(cs), NEW c \in 1 .. Len(cs)
    PROVE  c \in Code!Line(cs, c) /\ Code!closed(cs, Code!Line(cs, c)) /\ Code!Line(cs, c) \subseteq 1 .. Len(cs)
<1>1. DOMAIN cs = 1 .. Len(cs) /\ \A i \in 1 .. Len(cs) : cs[i].base # 0 => cs[i].base \in 1 .. Len(cs)
  BY DEF Table
<1>. QED
  BY <1>1 DEF Code!Line, Code!closed

\* a set like that with the class has all of it.
LEMMA LineLeast ==
    ASSUME NEW cs, Table(cs), NEW c \in 1 .. Len(cs), NEW S \in SUBSET (1 .. Len(cs)), c \in S, Code!closed(cs, S)
    PROVE  Code!Line(cs, c) \subseteq S
<1>1. DOMAIN cs = 1 .. Len(cs)
  BY DEF Table
<1>. QED
  BY <1>1 DEF Code!Line

\* It is the class and the line of its base.
LEMMA LineIs ==
    ASSUME NEW cs, Table(cs), NEW c \in 1 .. Len(cs)
    PROVE  Code!Line(cs, c) = {c} \cup (IF cs[c].base = 0 THEN {} ELSE Code!Line(cs, cs[c].base))
<1>. DEFINE b == cs[c].base
<1>1. CASE b = 0
  <2>1. Code!closed(cs, {c}) /\ {c} \in SUBSET (1 .. Len(cs))
    BY <1>1 DEF Code!closed
  <2>2. Code!Line(cs, c) \subseteq {c}
    BY <2>1, LineLeast
  <2>. QED
    BY <1>1, <2>2, LineClosed
<1>2. CASE b # 0
  <2>1. b \in 1 .. Len(cs)
    BY <1>2 DEF Table
  <2>2. b \in Code!Line(cs, b) /\ Code!closed(cs, Code!Line(cs, b)) /\ Code!Line(cs, b) \subseteq 1 .. Len(cs)
    BY <2>1, LineClosed
  <2>3. Code!closed(cs, {c} \cup Code!Line(cs, b)) /\ {c} \cup Code!Line(cs, b) \in SUBSET (1 .. Len(cs))
    BY <2>2 DEF Code!closed
  <2>4. Code!Line(cs, c) \subseteq {c} \cup Code!Line(cs, b)
    BY <2>3, LineLeast
  <2>5. c \in Code!Line(cs, c) /\ Code!closed(cs, Code!Line(cs, c)) /\ Code!Line(cs, c) \subseteq 1 .. Len(cs)
    BY LineClosed
  <2>6. b \in Code!Line(cs, c)
    BY <1>2, <2>5 DEF Code!closed
  <2>7. Code!Line(cs, b) \subseteq Code!Line(cs, c)
    BY <2>1, <2>5, <2>6, LineLeast
  <2>. QED
    BY <1>2, <2>4, <2>5, <2>7
<1>. QED
  BY <1>1, <1>2

\* A class of the line has its own line within it.
LEMMA LineWithin ==
    ASSUME NEW cs, Table(cs), NEW c \in 1 .. Len(cs), NEW d \in Code!Line(cs, c)
    PROVE  Code!Line(cs, d) \subseteq Code!Line(cs, c)
<1>1. Code!Line(cs, c) \subseteq 1 .. Len(cs) /\ Code!closed(cs, Code!Line(cs, c))
  BY LineClosed
<1>. QED
  BY <1>1, LineLeast

\* Lines depend on the bases only,
LEMMA SameLines ==
    ASSUME NEW cs, NEW other, DOMAIN cs = DOMAIN other, \A i \in DOMAIN cs : cs[i].base = other[i].base
    PROVE  \A c : Code!Line(cs, c) = Code!Line(other, c)
<1>1. \A S \in SUBSET DOMAIN cs : Code!closed(cs, S) <=> Code!closed(other, S)
  BY DEF Code!closed
<1>. QED
  BY <1>1 DEF Code!Line

\* a class more changes none,
LEMMA LinesMore ==
    ASSUME NEW cs, Table(cs), NEW k, Table(Append(cs, k)), k.base = 0, NEW c \in 1 .. Len(cs)
    PROVE  Code!Line(Append(cs, k), c) = Code!Line(cs, c)
<1>. DEFINE more == Append(cs, k)
<1>1. /\ Len(cs) \in Nat /\ Len(more) = Len(cs) + 1 /\ \A i \in 1 .. Len(cs) : more[i] = cs[i] /\ i \in 1 .. Len(more)
      /\ c \in 1 .. Len(more)
  BY DEF Table
<1>2. Code!Line(more, c) \subseteq Code!Line(cs, c)
  <2>1. c \in Code!Line(cs, c) /\ Code!closed(cs, Code!Line(cs, c)) /\ Code!Line(cs, c) \subseteq 1 .. Len(cs)
    BY LineClosed
  <2>2. Code!closed(more, Code!Line(cs, c)) /\ Code!Line(cs, c) \in SUBSET (1 .. Len(more))
    BY <1>1, <2>1 DEF Code!closed
  <2>. QED
    BY <1>1, <2>1, <2>2, LineLeast
<1>3. Code!Line(cs, c) \subseteq Code!Line(more, c)
  <2>. DEFINE S == Code!Line(more, c) \cap 1 .. Len(cs)
  <2>1. c \in Code!Line(more, c) /\ Code!closed(more, Code!Line(more, c))
    BY <1>1, LineClosed
  <2>2. \A i \in S : cs[i].base # 0 => cs[i].base \in S
    BY <1>1, <2>1 DEF Code!closed, Table
  <2>3. Code!closed(cs, S)
    BY <2>2 DEF Code!closed
  <2>4. Code!Line(cs, c) \subseteq S
    BY <2>1, <2>3, LineLeast
  <2>. QED
    BY <2>4
<1>. QED
  BY <1>2, <1>3

\* Each class is known to those above it, none is above itself, and it has their
\* methods but for its own and @auto.
Acyclic(cs) == \A c \in 1 .. Len(cs) : cs[c].base # 0 => c \notin Code!Line(cs, cs[c].base)
Told(cs) == \A c, x \in 1 .. Len(cs) : c \in cs[x].derived <=> x \in Code!Line(cs, c) /\ x # c
Inherits(cs) ==
    \A c \in 1 .. Len(cs) : \A n \in MethodName \ (cs[c].own \cup {"auto"}) :
        cs[c].methods[n] = IF cs[c].base = 0 THEN None ELSE cs[cs[c].base].methods[n]
Whole(cs) == Acyclic(cs) /\ Told(cs) /\ Inherits(cs)

\* Those derived from a class are its direct heirs and those derived from them.
LEMMA DerivedIs ==
    ASSUME NEW cs, Table(cs), Acyclic(cs), Told(cs), NEW c \in 1 .. Len(cs), NEW x \in 1 .. Len(cs)
    PROVE  c \in cs[x].derived <=> cs[c].base # 0 /\ (cs[c].base = x \/ cs[c].base \in cs[x].derived)
<1>. DEFINE b == cs[c].base
<1>1. CASE b = 0
  <2>1. Code!Line(cs, c) = {c}
    BY <1>1, LineIs
  <2>. QED
    BY <1>1, <2>1 DEF Told
<1>2. CASE b # 0
  <2>1. b \in 1 .. Len(cs)
    BY <1>2 DEF Table
  <2>2. Code!Line(cs, c) = {c} \cup Code!Line(cs, b) /\ b \in Code!Line(cs, b)
    BY <1>2, <2>1, LineIs, LineClosed
  <2>3. c \notin Code!Line(cs, b)
    BY <1>2 DEF Acyclic
  <2>4. c \in cs[x].derived <=> x \in Code!Line(cs, b)
    BY <2>2, <2>3 DEF Told
  <2>5. b \in cs[x].derived <=> x \in Code!Line(cs, b) /\ x # b
    BY <2>1 DEF Told
  <2>. QED
    BY <1>2, <2>2, <2>4, <2>5
<1>. QED
  BY <1>1, <1>2

-----------------------------------------------------------------------------
\* The changes of the classes keep that: a new class,
LEMMA WholeAdd ==
    ASSUME NEW cs, Table(cs), NEW name \in Code!Names
    PROVE  /\ Table(Append(cs, Code!NewClass(name))) /\ Len(Append(cs, Code!NewClass(name))) = Len(cs) + 1
           /\ \A i \in 1 .. Len(cs) : Append(cs, Code!NewClass(name))[i] = cs[i]
           /\ Append(cs, Code!NewClass(name))[Len(cs) + 1] = Code!NewClass(name)
           /\ Whole(cs) => Whole(Append(cs, Code!NewClass(name)))
<1>. DEFINE k == Code!NewClass(name)
            more == Append(cs, k)
            n == Len(cs) + 1
<1>1. /\ k \in Class /\ k.base = 0 /\ k.derived = {} /\ k.own = {}
      /\ \A m \in MethodName : k.methods[m] = None
  BY DEF Code!NewClass, Class, Methods
<1>2. /\ Len(cs) \in Nat /\ more \in Seq(Class) /\ Len(more) = n /\ more[n] = k
      /\ \A i \in 1 .. Len(cs) : more[i] = cs[i]
  BY <1>1, AppendProperties DEF Table
<1>3. \A i \in 1 .. n : i \in 1 .. Len(cs) \/ i = n
  BY <1>2
<1>4. /\ \A i \in 1 .. Len(cs) : cs[i].base \in 0 .. Len(cs) /\ cs[i].derived \subseteq 1 .. Len(cs)
      /\ Len(cs) > 0
  BY DEF Table
<1>. HIDE DEF k, more
<1>5. \A i \in 1 .. n : more[i].base \in 0 .. n /\ more[i].derived \subseteq 1 .. n
  BY <1>1, <1>2, <1>3, <1>4
<1>6. Table(more)
  BY <1>2, <1>4, <1>5 DEF Table
<1>7. /\ \A c \in 1 .. Len(cs) : Code!Line(more, c) = Code!Line(cs, c)
      /\ \A c \in 1 .. Len(cs) : Code!Line(cs, c) \subseteq 1 .. Len(cs)
      /\ Code!Line(more, n) = {n}
  <2>1. \A c \in 1 .. Len(cs) : Code!Line(more, c) = Code!Line(cs, c)
    BY <1>1, <1>6, LinesMore DEF more
  <2>2. n \in 1 .. Len(more) /\ more[n].base = 0
    BY <1>1, <1>2
  <2>3. Code!Line(more, n) = {n}
    BY <1>6, <2>2, LineIs
  <2>. QED
    BY <2>1, <2>3, LineClosed
<1>8. ASSUME Whole(cs) PROVE Whole(more)
  <2>1. Acyclic(more)
    BY <1>1, <1>2, <1>3, <1>4, <1>7, <1>8 DEF Whole, Acyclic
  <2>2. Told(more)
    <3>1. SUFFICES ASSUME NEW c \in 1 .. n, NEW x \in 1 .. n
                   PROVE  c \in more[x].derived <=> x \in Code!Line(more, c) /\ x # c
      BY <1>2 DEF Told
    <3>2. CASE c = n
      BY <1>1, <1>2, <1>3, <1>4, <1>7, <3>2
    <3>3. CASE c \in 1 .. Len(cs) /\ x = n
      BY <1>1, <1>2, <1>7, <3>3
    <3>4. CASE c \in 1 .. Len(cs) /\ x \in 1 .. Len(cs)
      BY <1>2, <1>7, <1>8, <3>4 DEF Whole, Told
    <3>. QED
      BY <1>3, <3>2, <3>3, <3>4
  <2>3. Inherits(more)
    BY <1>1, <1>2, <1>3, <1>4, <1>8 DEF Whole, Inherits
  <2>. QED
    BY <2>1, <2>2, <2>3 DEF Whole
<1>. QED
  BY <1>2, <1>6, <1>8 DEF k, more

\* classes that differ only in what is asked for elsewhere,
LEMMA WholeSame ==
    ASSUME NEW cs, Table(cs), NEW ds, ds \in Seq(Class), Len(ds) = Len(cs),
           \A i \in 1 .. Len(cs) : /\ ds[i].base = cs[i].base /\ ds[i].derived = cs[i].derived
                                   /\ ds[i].methods = cs[i].methods /\ ds[i].own = cs[i].own
    PROVE  Table(ds) /\ (Whole(cs) => Whole(ds))
<1>1. DOMAIN cs = 1 .. Len(cs) /\ DOMAIN ds = 1 .. Len(cs)
  BY DEF Table
<1>2. \A c : Code!Line(cs, c) = Code!Line(ds, c)
  BY <1>1, SameLines
<1>3. Table(ds)
  BY DEF Table
<1>4. ASSUME Whole(cs) PROVE Acyclic(ds) /\ Told(ds) /\ Inherits(ds)
  <2>1. Acyclic(ds)
    BY <1>2, <1>4 DEF Whole, Acyclic
  <2>2. Told(ds)
    BY <1>2, <1>4 DEF Whole, Told
  <2>3. Inherits(ds)
    <3>1. \A c \in 1 .. Len(cs) : cs[c].base \in 0 .. Len(cs) /\ (cs[c].base # 0 => cs[c].base \in 1 .. Len(cs))
      BY DEF Table
    <3>. QED
      BY <1>4, <3>1 DEF Whole, Inherits
  <2>. QED
    BY <2>1, <2>2, <2>3
<1>. QED
  BY <1>3, <1>4 DEF Whole

\* a method set in a class,
Hit(cs, c, name, i) ==
    i = c \/ (i \in cs[c].derived /\ name # "auto" /\ cs[i].methods[name] = cs[c].methods[name])
SetIn(cs, ds, c, name, method) ==
    /\ ds \in Seq(Class) /\ Len(ds) = Len(cs)
    /\ \A i \in 1 .. Len(cs) :
          /\ ds[i].name = cs[i].name /\ ds[i].base = cs[i].base /\ ds[i].derived = cs[i].derived
          /\ ds[i].own = IF i = c THEN cs[i].own \cup {name} ELSE cs[i].own
          /\ \A n \in MethodName :
                ds[i].methods[n] = IF n = name /\ Hit(cs, c, name, i) THEN method ELSE cs[i].methods[n]

LEMMA MethodSet ==
    ASSUME NEW cs, Table(cs), NEW c \in 1 .. Len(cs), NEW name \in MethodName, NEW method \in Methods
    PROVE  SetIn(cs, Code!set_method(cs, c, name, method), c, name, method)
<1>. DEFINE ds == Code!set_method(cs, c, name, method)
            set == [i \in 1 .. Len(cs) |-> [cs[i] EXCEPT !.methods[name] = method, !.own = @ \cup {name}]]
            given == [i \in 1 .. Len(cs) |-> [cs[i] EXCEPT !.methods[name] = method]]
            new(i) == IF i = c THEN set[i] ELSE IF Hit(cs, c, name, i) THEN given[i] ELSE cs[i]
<1>1. DOMAIN cs = 1 .. Len(cs) /\ Len(cs) \in Nat /\ \A i \in 1 .. Len(cs) : cs[i] \in Class
  BY DEF Table
<1>2. \A i \in 1 .. Len(cs) :
         /\ set[i] \in Class /\ given[i] \in Class
         /\ set[i].name = cs[i].name /\ given[i].name = cs[i].name
         /\ set[i].base = cs[i].base /\ given[i].base = cs[i].base
         /\ set[i].derived = cs[i].derived /\ given[i].derived = cs[i].derived
         /\ set[i].own = cs[i].own \cup {name} /\ given[i].own = cs[i].own
         /\ \A n \in MethodName : /\ set[i].methods[n] = IF n = name THEN method ELSE cs[i].methods[n]
                                  /\ given[i].methods[n] = IF n = name THEN method ELSE cs[i].methods[n]
  BY <1>1 DEF Class
<1>3. ds = [i \in 1 .. Len(cs) |-> new(i)]
  BY <1>1 DEF Code!set_method, Hit
<1>. HIDE DEF ds, set, given
<1>4. ds \in [1 .. Len(cs) -> Class]
  BY <1>1, <1>2, <1>3
<1>5. ds \in Seq(Class) /\ Len(ds) = Len(cs)
  BY <1>1, <1>4
<1>6. ASSUME NEW i \in 1 .. Len(cs)
      PROVE  /\ ds[i].name = cs[i].name /\ ds[i].base = cs[i].base /\ ds[i].derived = cs[i].derived
             /\ ds[i].own = IF i = c THEN cs[i].own \cup {name} ELSE cs[i].own
             /\ \A n \in MethodName :
                   ds[i].methods[n] = IF n = name /\ Hit(cs, c, name, i) THEN method ELSE cs[i].methods[n]
  <2>1. CASE i = c
    <3>1. ds[i] = set[i] /\ Hit(cs, c, name, i)
      BY <1>3, <2>1 DEF Hit
    <3>. QED
      BY <1>2, <2>1, <3>1
  <2>2. CASE i # c /\ Hit(cs, c, name, i)
    <3>1. ds[i] = given[i]
      BY <1>3, <2>2
    <3>. QED
      BY <1>2, <2>2, <3>1
  <2>3. CASE i # c /\ ~Hit(cs, c, name, i)
    <3>1. ds[i] = cs[i]
      BY <1>3, <2>3
    <3>. QED
      BY <2>3, <3>1
  <2>. QED
    BY <2>1, <2>2, <2>3
<1>. QED
  BY <1>5, <1>6 DEF SetIn, ds

\* which the classes derived from it that had the former one get, too,
LEMMA WholeMethod ==
    ASSUME NEW cs, Table(cs), NEW c \in 1 .. Len(cs), NEW name \in MethodName, NEW method, NEW ds,
           SetIn(cs, ds, c, name, method)
    PROVE  Table(ds) /\ (Whole(cs) => Whole(ds))
<1>1. /\ ds \in Seq(Class) /\ Len(ds) = Len(cs)
      /\ \A i \in 1 .. Len(cs) : ds[i].base = cs[i].base /\ ds[i].derived = cs[i].derived
  BY DEF SetIn
<1>2. DOMAIN cs = DOMAIN ds /\ \A i \in DOMAIN cs : cs[i].base = ds[i].base
  BY <1>1 DEF Table
<1>3. \A i : Code!Line(cs, i) = Code!Line(ds, i)
  BY <1>2, SameLines
<1>4. Table(ds)
  BY <1>1 DEF Table
<1>5. ASSUME Whole(cs) PROVE Acyclic(ds) /\ Told(ds) /\ Inherits(ds)
  <2>1. Acyclic(ds)
    BY <1>1, <1>3, <1>5 DEF Whole, Acyclic
  <2>2. Told(ds)
    BY <1>1, <1>3, <1>5 DEF Whole, Told
  <2>3. ASSUME NEW k \in 1 .. Len(cs), NEW n \in MethodName, n \notin ds[k].own, n # "auto"
        PROVE  ds[k].methods[n] = IF cs[k].base = 0 THEN None ELSE ds[cs[k].base].methods[n]
    <3>. DEFINE b == cs[k].base
    <3>1. /\ n \notin cs[k].own /\ (n = name => k # c)
          /\ \A i \in 1 .. Len(cs) :
                ds[i].methods[n] = IF n = name /\ Hit(cs, c, name, i) THEN method ELSE cs[i].methods[n]
      BY <2>3 DEF SetIn
    <3>2. cs[k].methods[n] = IF b = 0 THEN None ELSE cs[b].methods[n]
      BY <1>5, <2>3, <3>1 DEF Whole, Inherits
    <3>3. k \in cs[c].derived <=> b # 0 /\ (b = c \/ b \in cs[c].derived)
      BY <1>5, DerivedIs DEF Whole
    <3>4. b \in 0 .. Len(cs) /\ (b # 0 => b \in 1 .. Len(cs))
      BY DEF Table
    <3>5. CASE n # name
      BY <3>1, <3>2, <3>4, <3>5
    <3>6. CASE n = name /\ b = 0
      <4>1. ~Hit(cs, c, name, k)
        BY <3>1, <3>3, <3>6 DEF Hit
      <4>. QED
        BY <3>1, <3>2, <3>6, <4>1
    <3>7. CASE n = name /\ b # 0
      <4>1. Hit(cs, c, name, k) <=> Hit(cs, c, name, b)
        BY <2>3, <3>1, <3>2, <3>3, <3>7 DEF Hit
      <4>. QED
        BY <3>1, <3>2, <3>4, <3>7, <4>1
    <3>. QED
      BY <3>5, <3>6, <3>7
  <2>4. Inherits(ds)
    BY <1>1, <2>3 DEF Inherits
  <2>. QED
    BY <2>1, <2>2, <2>4
<1>. QED
  BY <1>4, <1>5 DEF Whole

\* and a base given to a class that has none and no heirs.
Telling(cs, ds, S, c) ==
    /\ ds \in Seq(Class) /\ Len(ds) = Len(cs)
    /\ \A i \in 1 .. Len(cs) :
          /\ ds[i].name = cs[i].name /\ ds[i].base = cs[i].base /\ ds[i].own = cs[i].own
          /\ ds[i].methods = cs[i].methods /\ ds[i].partial = cs[i].partial /\ ds[i].locals = cs[i].locals
          /\ ds[i].derived = IF i \in S THEN cs[i].derived \cup {c} ELSE cs[i].derived

\* The bases are told of the class.
LEMMA Tells ==
    ASSUME NEW cs, Table(cs), NEW c \in 1 .. Len(cs), NEW base \in 1 .. Len(cs)
    PROVE  Telling(cs, Code!add_derived(cs, base, c),
                   IF c \in Code!Line(cs, base) THEN Code!Line(cs, base) \ Code!Line(cs, c) ELSE Code!Line(cs, base), c)
<1>. DEFINE S == IF c \in Code!Line(cs, base) THEN Code!Line(cs, base) \ Code!Line(cs, c) ELSE Code!Line(cs, base)
            told == [i \in 1 .. Len(cs) |-> [cs[i] EXCEPT !.derived = @ \cup {c}]]
            ds == Code!add_derived(cs, base, c)
<1>1. DOMAIN cs = 1 .. Len(cs) /\ Len(cs) \in Nat /\ \A i \in 1 .. Len(cs) : cs[i] \in Class
  BY DEF Table
<1>2. \A i \in 1 .. Len(cs) :
         /\ told[i] \in Class
         /\ told[i].name = cs[i].name /\ told[i].base = cs[i].base /\ told[i].own = cs[i].own
         /\ told[i].methods = cs[i].methods /\ told[i].partial = cs[i].partial /\ told[i].locals = cs[i].locals
         /\ told[i].derived = cs[i].derived \cup {c}
  BY <1>1 DEF Class
<1>3. ds = [i \in 1 .. Len(cs) |-> IF i \in S THEN told[i] ELSE cs[i]]
  BY <1>1 DEF Code!add_derived
<1>. HIDE DEF ds, told, S
<1>4. ds \in [1 .. Len(cs) -> Class]
  BY <1>1, <1>2, <1>3
<1>5. ds \in Seq(Class) /\ Len(ds) = Len(cs)
  BY <1>1, <1>4
<1>6. ASSUME NEW i \in 1 .. Len(cs)
      PROVE  /\ ds[i].name = cs[i].name /\ ds[i].base = cs[i].base /\ ds[i].own = cs[i].own
             /\ ds[i].methods = cs[i].methods /\ ds[i].partial = cs[i].partial /\ ds[i].locals = cs[i].locals
             /\ ds[i].derived = IF i \in S THEN cs[i].derived \cup {c} ELSE cs[i].derived
  <2>1. CASE i \in S
    BY <1>2, <1>3, <2>1
  <2>2. CASE i \notin S
    BY <1>3, <2>2
  <2>. QED
    BY <2>1, <2>2
<1>. QED
  BY <1>5, <1>6 DEF Telling, ds, S

\* What a class has after it has got a base.
BaseIn(cs, ds, c, base) ==
    /\ Table(ds) /\ Len(ds) = Len(cs)
    /\ \A i \in 1 .. Len(cs) :
          /\ ds[i].name = cs[i].name
          /\ \/ ds[i].base = cs[i].base /\ ds[i].methods = cs[i].methods
             \/ i = c /\ ds[i].base = base

\* It gets the methods it has not.
LEMMA MergedIn ==
    ASSUME NEW cs, Table(cs), NEW c \in 1 .. Len(cs), NEW base \in 1 .. Len(cs)
    PROVE  /\ Code!merged(cs, base, c) \in [MethodName -> Methods]
           /\ \A n \in MethodName : n # "auto" => Code!merged(cs, base, c)[n] =
                  IF cs[c].methods[n] # None THEN cs[c].methods[n] ELSE cs[base].methods[n]
<1>1. cs[c] \in Class /\ cs[base] \in Class
  BY DEF Table
<1>2. /\ cs[c].methods \in [MethodName -> Methods] /\ cs[base].methods \in [MethodName -> Methods]
      /\ None \in Methods
  BY <1>1 DEF Class, Methods
<1>. QED
  BY <1>2 DEF Code!merged

\* A class without base and heirs gets one and the family stays whole, with no circle.
LEMMA BaseSet ==
    ASSUME NEW cs, Table(cs), NEW c \in 1 .. Len(cs), NEW base \in 1 .. Len(cs)
    PROVE  /\ BaseIn(cs, Code!set_base(cs, c, base), c, base)
           /\ Whole(cs) /\ cs[c].base = 0 /\ cs[c].derived = {} /\ c # base
                => ~Code!Circular(cs, base, c) /\ Whole(Code!set_base(cs, c, base))
<1>. DEFINE told == Code!add_derived(cs, base, c)
            S == IF c \in Code!Line(cs, base) THEN Code!Line(cs, base) \ Code!Line(cs, c) ELSE Code!Line(cs, base)
            ds == [told EXCEPT ![c].base = base, ![c].methods = Code!merged(told, base, c)]
<1>1. Telling(cs, told, S, c)
  BY Tells
<1>2. Code!set_base(cs, c, base) = IF Code!Circular(cs, base, c) THEN told ELSE ds
  BY DEF Code!set_base
<1>3. Code!Circular(cs, base, c) <=> c \in Code!Line(cs, base)
  BY DEF Code!Circular
<1>. HIDE DEF told, S, ds
<1>4. Table(told) /\ Len(told) = Len(cs)
  <2>1. told \in Seq(Class) /\ Len(told) = Len(cs)
    BY <1>1 DEF Telling
  <2>2. ASSUME NEW i \in 1 .. Len(cs)
        PROVE  told[i].base \in 0 .. Len(cs) /\ told[i].derived \subseteq 1 .. Len(cs)
    <3>1. told[i].base = cs[i].base /\ told[i].derived \subseteq cs[i].derived \cup {c}
      BY <1>1 DEF Telling
    <3>2. cs[i].base \in 0 .. Len(cs) /\ cs[i].derived \subseteq 1 .. Len(cs)
      BY DEF Table
    <3>. QED
      BY <3>1, <3>2
  <2>3. Len(cs) > 0
    BY DEF Table
  <2>. QED
    BY <2>1, <2>2, <2>3 DEF Table
<1>5. /\ Code!merged(told, base, c) \in [MethodName -> Methods]
      /\ \A n \in MethodName : n # "auto" => Code!merged(told, base, c)[n] =
             IF cs[c].methods[n] # None THEN cs[c].methods[n] ELSE cs[base].methods[n]
  <2>1. c \in 1 .. Len(told) /\ base \in 1 .. Len(told)
    BY <1>4
  <2>2. told[c].methods = cs[c].methods /\ told[base].methods = cs[base].methods
    BY <1>1 DEF Telling
  <2>. QED
    BY <1>4, <2>1, <2>2, MergedIn
<1>6. /\ ds \in Seq(Class) /\ Len(ds) = Len(cs)
      /\ \A i \in 1 .. Len(cs) : i # c => ds[i] = told[i]
      /\ ds[c].name = told[c].name /\ ds[c].derived = told[c].derived /\ ds[c].own = told[c].own
      /\ ds[c].base = base /\ ds[c].methods = Code!merged(told, base, c)
  <2>1. told \in Seq(Class) /\ told[c] \in Class /\ Len(told) = Len(cs)
    BY <1>4 DEF Table
  <2>. DEFINE k == [told[c] EXCEPT !.base = base, !.methods = Code!merged(told, base, c)]
  <2>2. /\ k \in Class /\ k.base = base /\ k.methods = Code!merged(told, base, c)
        /\ k.name = told[c].name /\ k.derived = told[c].derived /\ k.own = told[c].own
    <3>1. base \in Nat /\ Code!merged(told, base, c) \in [MethodName -> Methods]
      BY <1>5
    <3>. QED
      BY <2>1, <3>1 DEF Class
  <2>3. ds = [told EXCEPT ![c] = k]
    BY <2>1 DEF ds
  <2>. HIDE DEF k
  <2>. QED
    BY <2>1, <2>2, <2>3
<1>7. \A i \in 1 .. Len(cs) :
         /\ ds[i].name = cs[i].name /\ ds[i].own = cs[i].own
         /\ ds[i].base = IF i = c THEN base ELSE cs[i].base
         /\ ds[i].derived = told[i].derived
         /\ i # c => ds[i].methods = cs[i].methods
  <2>. TAKE i \in 1 .. Len(cs)
  <2>1. /\ told[i].name = cs[i].name /\ told[i].own = cs[i].own /\ told[i].base = cs[i].base
        /\ told[i].methods = cs[i].methods
    BY <1>1 DEF Telling
  <2>2. CASE i = c
    BY <1>6, <2>1, <2>2
  <2>3. CASE i # c
    BY <1>6, <2>1, <2>3
  <2>. QED
    BY <2>2, <2>3
<1>8. Table(ds)
  <2>1. \A i \in 1 .. Len(cs) : /\ cs[i].base \in 0 .. Len(cs) /\ told[i].derived \subseteq 1 .. Len(cs)
                                /\ base \in 0 .. Len(cs) /\ Len(cs) > 0
    BY <1>4 DEF Table
  <2>. QED
    BY <1>6, <1>7, <2>1 DEF Table
<1>9. BaseIn(cs, ds, c, base) /\ BaseIn(cs, told, c, base)
  BY <1>1, <1>4, <1>6, <1>7, <1>8 DEF BaseIn, Telling
<1>10. ASSUME Whole(cs), cs[c].base = 0, cs[c].derived = {}, c # base
       PROVE  c \notin Code!Line(cs, base) /\ Whole(ds)
  <2>1. \A i \in 1 .. Len(cs) : c \in Code!Line(cs, i) => i = c
    BY <1>10 DEF Whole, Told
  <2>2. c \notin Code!Line(cs, base) /\ S = Code!Line(cs, base)
    BY <1>10, <2>1 DEF S
  <2>3. ASSUME NEW i \in 1 .. Len(cs), i # c
        PROVE  Code!Line(ds, i) = Code!Line(cs, i)
    <3>1. i \in Code!Line(cs, i) /\ Code!closed(cs, Code!Line(cs, i)) /\ Code!Line(cs, i) \subseteq 1 .. Len(cs) /\ c \notin Code!Line(cs, i)
      BY <2>1, <2>3, LineClosed
    <3>2. Code!closed(ds, Code!Line(cs, i))
      BY <1>7, <3>1 DEF Code!closed
    <3>3. Code!Line(ds, i) \subseteq Code!Line(cs, i)
      BY <1>6, <1>8, <3>1, <3>2, LineLeast
    <3>4. i \in Code!Line(ds, i) /\ Code!closed(ds, Code!Line(ds, i))
      BY <1>6, <1>8, LineClosed
    <3>5. Code!closed(cs, Code!Line(ds, i))
      BY <1>7, <3>1, <3>3, <3>4 DEF Code!closed
    <3>6. Code!Line(cs, i) \subseteq Code!Line(ds, i)
      BY <3>1, <3>3, <3>4, <3>5, LineLeast
    <3>. QED
      BY <3>3, <3>6
  <2>4. Code!Line(ds, c) = {c} \cup Code!Line(cs, base) /\ Code!Line(cs, c) = {c}
    <3>1. c \in 1 .. Len(ds) /\ ds[c].base = base /\ base # 0 /\ Code!Line(ds, base) = Code!Line(cs, base)
      BY <1>6, <1>10, <2>3
    <3>2. Code!Line(ds, c) = {c} \cup Code!Line(ds, base)
      BY <1>8, <3>1, LineIs
    <3>. QED
      BY <1>10, <3>1, <3>2, LineIs
  <2>5. Acyclic(ds)
    <3>1. ASSUME NEW i \in 1 .. Len(cs), ds[i].base # 0
          PROVE  i \notin Code!Line(ds, ds[i].base)
      <4>1. CASE i = c
        BY <1>7, <1>10, <2>2, <2>3, <4>1
      <4>2. CASE i # c
        <5>1. ds[i].base = cs[i].base /\ cs[i].base # 0 /\ cs[i].base \in 1 .. Len(cs)
          BY <1>7, <3>1, <4>2 DEF Table
        <5>2. cs[i].base # c
          BY <1>10, <5>1, DerivedIs DEF Whole
        <5>3. i \notin Code!Line(cs, cs[i].base)
          BY <1>10, <5>1 DEF Whole, Acyclic
        <5>. QED
          BY <2>3, <5>1, <5>2, <5>3
      <4>. QED
        BY <4>1, <4>2
    <3>. QED
      BY <1>6, <3>1 DEF Acyclic
  <2>6. Told(ds)
    <3>1. ASSUME NEW k \in 1 .. Len(cs), NEW x \in 1 .. Len(cs)
          PROVE  k \in ds[x].derived <=> x \in Code!Line(ds, k) /\ x # k
      <4>1. ds[x].derived = IF x \in Code!Line(cs, base) THEN cs[x].derived \cup {c} ELSE cs[x].derived
        BY <1>1, <1>7, <2>2 DEF Telling
      <4>2. k \in cs[x].derived <=> x \in Code!Line(cs, k) /\ x # k
        BY <1>10 DEF Whole, Told
      <4>3. CASE k # c
        BY <2>3, <4>1, <4>2, <4>3
      <4>4. CASE k = c
        BY <2>2, <2>4, <4>1, <4>2, <4>4
      <4>. QED
        BY <4>3, <4>4
    <3>. QED
      BY <1>6, <3>1 DEF Told
  <2>7. Inherits(ds)
    <3>1. ASSUME NEW k \in 1 .. Len(cs), NEW n \in MethodName, n \notin ds[k].own, n # "auto"
          PROVE  ds[k].methods[n] = IF ds[k].base = 0 THEN None ELSE ds[ds[k].base].methods[n]
      <4>1. cs[k].methods[n] = IF cs[k].base = 0 THEN None ELSE cs[cs[k].base].methods[n]
        BY <1>7, <1>10, <3>1 DEF Whole, Inherits
      <4>2. CASE k = c
        <5>1. ds[c].methods[n] = cs[base].methods[n]
          BY <1>5, <1>6, <1>10, <3>1, <4>1, <4>2
        <5>2. ds[base].methods = cs[base].methods /\ ds[c].base = base /\ base # 0
          BY <1>7, <1>10
        <5>. QED
          BY <4>2, <5>1, <5>2
      <4>3. CASE k # c
        <5>1. ds[k].base = cs[k].base /\ ds[k].methods = cs[k].methods
          BY <1>7, <4>3
        <5>2. cs[k].base # 0 => cs[k].base \in 1 .. Len(cs) /\ cs[k].base # c
          BY <1>10, DerivedIs DEF Whole, Table
        <5>. QED
          BY <1>7, <4>1, <5>1, <5>2
      <4>. QED
        BY <4>2, <4>3
    <3>. QED
      BY <1>6, <3>1 DEF Inherits
  <2>. QED
    BY <2>2, <2>5, <2>6, <2>7 DEF Whole
<1>. QED
  BY <1>2, <1>3, <1>9, <1>10
-----------------------------------------------------------------------------
\* What a file asks for, read from the file or from a record, where methods are
\* compiled already, each of them from the file.
Made(f) == [file : {f}, at : Nat, stamp : Nat, params : Nat, locals : BOOLEAN]
Steps ==
    ({"CLASS", "BASE"} \X ClassName) \cup ({"USE"} \X File) \cup {<<"PARTIAL">>, <<"LOCALS">>}
    \cup ({"PARTIAL"} \X {"new", "locals", "old"}) \cup ({"METHOD"} \X MethodName \X (Nat \cup Methods))
Plain(s) == s \in Seq(Steps) /\ \A i \in 1 .. Len(s) : s[i][1] = "METHOD" => s[i][3] \in Nat
Record(s, f) == s \in Seq(Steps) /\ \A i \in 1 .. Len(s) : s[i][1] = "METHOD" => s[i][3] \in Made(f)

\* What the directives ask for exists.
LEMMA StepIs ==
    ASSUME NEW d \in Steps
    PROVE  /\ d[1] \in {"CLASS", "BASE"} => d[2] \in ClassName
           /\ d[1] = "USE" => d[2] \in File
           /\ d[1] = "METHOD" => d[2] \in MethodName
  BY DEF Steps

\* A file as it is written is what is read from it.
LEMMA PlainText ==
    ASSUME NEW s \in Seq(Code!Directives)
    PROVE  Plain(s)
<1>1. Code!Directives \subseteq Steps /\ \A d \in Code!Directives : d[1] = "METHOD" => d[3] \in Nat
  BY DEF Code!Directives, Steps
<1>2. s \in Seq(Steps) /\ \A i \in 1 .. Len(s) : s[i] \in Code!Directives
  BY <1>1
<1>. QED
  BY <1>1, <1>2 DEF Plain

\* A file being loaded, what a page uses, and a request
Frames ==
    [file : File, no : Nat, todo : Seq(Steps), state : {"stat", "read", "compile", "replay"}, cclass : Nat,
     new : Nat, cclasses : Seq(Nat), append : BOOLEAN, stamp : Nat, actions : Seq(Steps), saved : Methods]
Uses == [file : File, replace : BOOLEAN]
Requests ==
    [classes : Seq(Class), names : [Code!Names -> Nat], used : SUBSET File, files : Seq(File),
     stack : Seq(Frames), uses : Seq(Uses), replace : BOOLEAN, ran : Seq(Nat \X Methods \X File),
     errors : Nat, differs : BOOLEAN, late : BOOLEAN]

\* A file being loaded has its number, and what it asks for is as its state says
Readable(state, s, f) == IF state = "replay" THEN Record(s, f) ELSE Plain(s)
Written(g) == Readable(g.state, g.todo, g.file) /\ Record(g.actions, g.file)
Located(g, files, loaded) ==
    /\ g.file \in loaded
    /\ g.state \in {"compile", "replay"} => g.no \in 1 .. Len(files) /\ files[g.no] = g.file
\* Its classes are different, and so is the one announced
Own(g) == {g.cclasses[k] : k \in 1 .. Len(g.cclasses)} \cup {g.new}
Classed(g, n) ==
    /\ g.cclass \in 1 .. n /\ g.new \in 0 .. n /\ g.new # 1
    /\ \A k \in 1 .. Len(g.cclasses) : g.cclasses[k] \in 1 .. n /\ g.cclasses[k] # g.new
    /\ \A j, k \in 1 .. Len(g.cclasses) : j # k => g.cclasses[j] # g.cclasses[k]
Loaded(q) ==
    \A i \in 1 .. Len(q.stack) : /\ Written(q.stack[i]) /\ Located(q.stack[i], q.files, q.used)
                                 /\ Classed(q.stack[i], Len(q.classes))
\* Two files share MAIN only
Apart(q) ==
    \A i, j \in 1 .. Len(q.stack) :
        i # j => q.stack[i].file # q.stack[j].file /\ Own(q.stack[i]) \cap Own(q.stack[j]) \subseteq {0, 1}
\* What has been run is of files that are done
Past(q) ==
    \A k \in 1 .. Len(q.ran) :
        /\ q.ran[k][1] \in 1 .. Len(q.classes) /\ q.ran[k][3] \in q.used
        /\ \A i \in 1 .. Len(q.stack) : q.ran[k][3] # q.stack[i].file /\ q.ran[k][1] \notin Own(q.stack[i]) \ {1}
RunOnce(q) ==
    \A i, j \in 1 .. Len(q.ran) :
        i < j /\ q.ran[i][1] = q.ran[j][1] => q.ran[i][1] = 1 /\ q.ran[i][3] # q.ran[j][3]
\* While MAIN has no base its @auto is of the file being loaded, and what the file
\* gives back is of the one it is loaded from
By(method, f) == method = None \/ method.file = f
RunBy(q) ==
    q.classes[1].base = 0 => \A k \in 1 .. Len(q.ran) : q.ran[k][1] = 1 => By(q.ran[k][2], q.ran[k][3])
Autos(q) ==
    q.classes[1].base = 0 =>
        IF q.stack = <<>> THEN q.classes[1].methods["auto"] = None
        ELSE /\ By(q.classes[1].methods["auto"], q.stack[1].file)
             /\ q.stack[Len(q.stack)].saved = None
             /\ \A i \in 1 .. Len(q.stack) - 1 : By(q.stack[i].saved, q.stack[i + 1].file)
\* The names are of classes.  While no class has got a base late and no record has been
\* replayed over other classes than its own, the classes are whole.
Named(q) == Table(q.classes) /\ \A n \in Code!Names : q.names[n] \in 0 .. Len(q.classes)
Sound(q) == q.late \/ q.differs \/ Whole(q.classes)
Request(q) ==
    /\ q \in Requests /\ Named(q) /\ Loaded(q) /\ Apart(q) /\ Past(q) /\ RunOnce(q) /\ RunBy(q)
    /\ Autos(q) /\ Sound(q)

\* A change of the classes and their names, and of what is not about the files
MainKept(q, p) ==
    p.classes[1].base = 0 =>
        /\ q.classes[1].base = 0
        /\ \/ p.classes[1].methods["auto"] = q.classes[1].methods["auto"]
           \/ q.stack # <<>> /\ By(p.classes[1].methods["auto"], q.stack[1].file)
\* leaves a request what it is.
LEMMA Changed ==
    ASSUME NEW q, Request(q), NEW p \in Requests, p.stack = q.stack, p.ran = q.ran, p.used = q.used,
           p.files = q.files, Named(p), Len(q.classes) <= Len(p.classes), MainKept(q, p), Sound(p)
    PROVE  Request(p)
<1>1. Len(q.classes) \in Nat /\ Len(p.classes) \in Nat
  BY DEF Request, Named, Table
<1>2. \A i \in 1 .. Len(q.classes) : i \in 1 .. Len(p.classes)
  BY <1>1
<1>3. \A g : Classed(g, Len(q.classes)) => Classed(g, Len(p.classes))
  BY <1>1 DEF Classed
<1>4. Loaded(p)
  BY <1>3 DEF Request, Loaded
<1>5. Apart(p) /\ RunOnce(p)
  <2>1. Apart(p)
    BY DEF Request, Apart
  <2>2. RunOnce(p)
    BY DEF Request, RunOnce
  <2>. QED
    BY <2>1, <2>2
<1>6. Past(p)
  BY <1>2 DEF Request, Past
<1>7. RunBy(p)
  BY DEF Request, RunBy, MainKept
<1>8. Autos(p)
  BY DEF Request, Autos, MainKept
<1>. QED
  BY <1>4, <1>5, <1>6, <1>7, <1>8 DEF Request

\* The files being loaded, the innermost first
LEMMA Restacked ==
    ASSUME NEW s \in Seq(Frames), s # <<>>, NEW g \in Frames
    PROVE  /\ Len(s) > 0 /\ Head(s) = s[1] /\ s[1] \in Frames /\ 1 \in 1 .. Len(s)
           /\ <<g>> \o Tail(s) \in Seq(Frames) /\ Len(<<g>> \o Tail(s)) = Len(s) /\ <<g>> \o Tail(s) # <<>>
           /\ (<<g>> \o Tail(s))[1] = g
           /\ \A i \in 1 .. Len(s) : i # 1 => (<<g>> \o Tail(s))[i] = s[i]
<1>1. Len(s) \in Nat /\ Len(s) > 0 /\ Head(s) = s[1]
  BY EmptySeq
<1>2. s[1] \in Frames /\ Tail(s) \in Seq(Frames) /\ Len(Tail(s)) = Len(s) - 1
      /\ \A i \in 1 .. Len(s) - 1 : Tail(s)[i] = s[i + 1]
  BY <1>1
<1>. DEFINE t == Tail(s)
<1>. HIDE DEF t
<1>3. /\ <<g>> \o t \in Seq(Frames) /\ Len(<<g>> \o t) = 1 + Len(t) /\ (<<g>> \o t)[1] = g
      /\ \A i \in 1 .. 1 + Len(t) : i # 1 => (<<g>> \o t)[i] = t[i - 1]
  BY <1>2 DEF t
<1>. QED
  BY <1>1, <1>2, <1>3 DEF t

\* one more of them,
LEMMA Stacked ==
    ASSUME NEW s \in Seq(Frames), NEW g \in Frames
    PROVE  /\ <<g>> \o s \in Seq(Frames) /\ Len(<<g>> \o s) = Len(s) + 1 /\ <<g>> \o s # <<>>
           /\ (<<g>> \o s)[1] = g /\ \A i \in 1 .. Len(s) + 1 : i # 1 => i - 1 \in 1 .. Len(s) /\ (<<g>> \o s)[i] = s[i - 1]
<1>1. Len(s) \in Nat /\ Len(<<g>> \o s) = Len(s) + 1
  OBVIOUS
<1>. QED
  BY <1>1

\* and one less
LEMMA Unstacked ==
    ASSUME NEW s \in Seq(Frames), s # <<>>
    PROVE  /\ Tail(s) \in Seq(Frames) /\ Len(Tail(s)) = Len(s) - 1 /\ Len(s) > 0
           /\ \A i \in 1 .. Len(s) - 1 : Tail(s)[i] = s[i + 1]
<1>1. Len(s) \in Nat /\ Len(s) > 0
  BY EmptySeq
<1>. QED
  BY <1>1

\* A change of the innermost file
Unowned(q, c) ==
    /\ \A i \in 1 .. Len(q.stack) : c \notin Own(q.stack[i])
    /\ \A k \in 1 .. Len(q.ran) : q.ran[k][1] # c
Reframe(q, g) ==
    /\ g \in Frames /\ Written(g) /\ Located(g, q.files, q.used) /\ Classed(g, Len(q.classes))
    /\ g.file = q.stack[1].file /\ g.saved = q.stack[1].saved
    /\ \A c \in Own(g) : c \in {0, 1} \/ c \in Own(q.stack[1]) \/ Unowned(q, c)
\* keeps the request, too, if it takes no class of another file.
LEMMA Reframed ==
    ASSUME NEW q, Request(q), q.stack # <<>>, NEW g, Reframe(q, g)
    PROVE  /\ Request(Code!InFile(q, g)) /\ Head(Code!InFile(q, g).stack) = g /\ Code!InFile(q, g).stack[1] = g
           /\ Code!InFile(q, g).stack # <<>> /\ Code!InFile(q, g).classes = q.classes /\ Code!InFile(q, g).files = q.files
           /\ Code!InFile(q, g).late = q.late /\ Code!InFile(q, g).differs = q.differs
<1>. DEFINE p == Code!InFile(q, g)
            n == Len(q.stack)
<1>1. q \in Requests /\ g \in Frames /\ q.stack \in Seq(Frames)
  BY DEF Request, Requests, Reframe
<1>2. /\ n > 0 /\ 1 \in 1 .. n /\ <<g>> \o Tail(q.stack) \in Seq(Frames) /\ Len(<<g>> \o Tail(q.stack)) = n
      /\ (<<g>> \o Tail(q.stack))[1] = g /\ n \in Nat /\ <<g>> \o Tail(q.stack) # <<>>
      /\ \A i \in 1 .. n : i # 1 => (<<g>> \o Tail(q.stack))[i] = q.stack[i]
  BY <1>1, Restacked
<1>3. p = [q EXCEPT !.stack = <<g>> \o Tail(q.stack)]
  BY <1>1 DEF Code!InFile
<1>4. /\ p \in Requests /\ p.stack = <<g>> \o Tail(q.stack)
      /\ p.classes = q.classes /\ p.names = q.names /\ p.used = q.used /\ p.files = q.files /\ p.ran = q.ran
      /\ p.late = q.late /\ p.differs = q.differs
  <2>. DEFINE s == <<g>> \o Tail(q.stack)
  <2>. HIDE DEF s, p
  <2>. QED
    BY <1>1, <1>2, <1>3 DEF Requests, s
<1>5. /\ p.stack \in Seq(Frames) /\ Len(p.stack) = n /\ p.stack[1] = g /\ p.stack # <<>>
      /\ \A i \in 1 .. n : i # 1 => p.stack[i] = q.stack[i]
  BY <1>2, <1>4
<1>6. Head(p.stack) = g
  BY <1>2, <1>5
<1>. HIDE DEF p
<1>7. Named(p) /\ RunOnce(p) /\ RunBy(p) /\ Sound(p)
  <2>1. Named(p)
    BY <1>4 DEF Request, Named
  <2>2. RunOnce(p)
    BY <1>4 DEF Request, RunOnce
  <2>3. RunBy(p)
    BY <1>4 DEF Request, RunBy
  <2>4. Sound(p)
    BY <1>4 DEF Request, Sound
  <2>. QED
    BY <2>1, <2>2, <2>3, <2>4
<1>8. Loaded(p)
  <2>1. ASSUME NEW i \in 1 .. n
        PROVE  Written(p.stack[i]) /\ Located(p.stack[i], q.files, q.used) /\ Classed(p.stack[i], Len(q.classes))
    <3>1. CASE i = 1
      BY <1>5, <3>1 DEF Reframe
    <3>2. CASE i # 1
      BY <1>5, <3>2 DEF Request, Loaded
    <3>. QED
      BY <3>1, <3>2
  <2>. QED
    BY <1>4, <1>5, <2>1 DEF Loaded
<1>9. Apart(p)
  <2>1. ASSUME NEW j \in 1 .. n, j # 1
        PROVE  g.file # q.stack[j].file /\ Own(g) \cap Own(q.stack[j]) \subseteq {0, 1}
    <3>1. q.stack[1].file # q.stack[j].file /\ Own(q.stack[1]) \cap Own(q.stack[j]) \subseteq {0, 1}
      BY <1>2, <2>1 DEF Request, Apart
    <3>. QED
      BY <3>1 DEF Reframe, Unowned
  <2>2. ASSUME NEW i \in 1 .. n, NEW j \in 1 .. n, i # j
        PROVE  p.stack[i].file # p.stack[j].file /\ Own(p.stack[i]) \cap Own(p.stack[j]) \subseteq {0, 1}
    <3>1. CASE i = 1
      BY <1>5, <2>1, <2>2, <3>1
    <3>2. CASE j = 1
      BY <1>5, <2>1, <2>2, <3>2
    <3>3. CASE i # 1 /\ j # 1
      BY <1>5, <2>2, <3>3 DEF Request, Apart
    <3>. QED
      BY <3>1, <3>2, <3>3
  <2>. QED
    BY <1>5, <2>2 DEF Apart
<1>10. Past(p)
  <2>1. ASSUME NEW k \in 1 .. Len(q.ran), NEW i \in 1 .. n
        PROVE  q.ran[k][3] # p.stack[i].file /\ q.ran[k][1] \notin Own(p.stack[i]) \ {1}
    <3>1. /\ q.ran[k][1] \in 1 .. Len(q.classes)
          /\ \A m \in 1 .. n : q.ran[k][3] # q.stack[m].file /\ q.ran[k][1] \notin Own(q.stack[m]) \ {1}
      BY DEF Request, Past
    <3>2. q.ran[k][1] # 0
      BY <3>1
    <3>3. CASE i = 1
      BY <1>2, <1>5, <3>1, <3>2, <3>3 DEF Reframe, Unowned
    <3>4. CASE i # 1
      BY <1>5, <3>1, <3>4
    <3>. QED
      BY <3>3, <3>4
  <2>. QED
    BY <1>4, <1>5, <2>1 DEF Request, Past
<1>11. Autos(p)
  <2>1. \A i \in 1 .. n : p.stack[i].file = q.stack[i].file /\ p.stack[i].saved = q.stack[i].saved
    <3>1. ASSUME NEW i \in 1 .. n
          PROVE  p.stack[i].file = q.stack[i].file /\ p.stack[i].saved = q.stack[i].saved
      <4>1. CASE i = 1
        BY <1>5, <4>1 DEF Reframe
      <4>2. CASE i # 1
        BY <1>5, <4>2
      <4>. QED
        BY <4>1, <4>2
    <3>. QED
      BY <3>1
  <2>2. n \in 1 .. n /\ \A i \in 1 .. n - 1 : i \in 1 .. n /\ i + 1 \in 1 .. n
    BY <1>2
  <2>. QED
    BY <1>2, <1>4, <1>5, <2>1, <2>2 DEF Request, Autos
<1>. QED
  BY <1>4, <1>5, <1>6, <1>7, <1>8, <1>9, <1>10, <1>11 DEF Request, p

\* What the directives do.  A record gets the one that is done, and stays a record,
Fits(d, f) == d \in Steps /\ (d[1] = "METHOD" => d[3] \in Made(f))
LEMMA RecordMore ==
    ASSUME NEW f, NEW s, Record(s, f), NEW d, Fits(d, f)
    PROVE  Record(Append(s, d), f)
<1>1. s \in Seq(Steps) /\ d \in Steps
  BY DEF Record, Fits
<1>2. /\ Append(s, d) \in Seq(Steps) /\ Len(Append(s, d)) = Len(s) + 1 /\ Append(s, d)[Len(s) + 1] = d
      /\ \A i \in 1 .. Len(s) : Append(s, d)[i] = s[i]
  BY <1>1, AppendProperties
<1>3. \A i \in 1 .. Len(s) + 1 : i \in 1 .. Len(s) \/ i = Len(s) + 1
  BY <1>1
<1>. HIDE DEF Steps
<1>. QED
  BY <1>2, <1>3 DEF Record, Fits

\* what is left of the file is still of its kind,
LEMMA ReadableRest ==
    ASSUME NEW f, NEW state, NEW s \in Seq(Steps), s # <<>>, Readable(state, s, f)
    PROVE  Tail(s) \in Seq(Steps) /\ Readable(state, Tail(s), f)
<1>. DEFINE t == Tail(s)
<1>1. /\ t \in Seq(Steps) /\ Len(t) = Len(s) - 1 /\ Len(s) \in Nat
      /\ \A i \in 1 .. Len(t) : i + 1 \in 1 .. Len(s) /\ t[i] = s[i + 1]
  BY EmptySeq
<1>. HIDE DEF t
<1>2. CASE state = "replay"
  <2>1. Record(s, f)
    BY <1>2 DEF Readable
  <2>2. Record(t, f)
    BY <1>1, <2>1 DEF Record
  <2>. QED
    BY <1>1, <1>2, <2>2 DEF Readable, t
<1>3. CASE state # "replay"
  <2>1. Plain(s)
    BY <1>3 DEF Readable
  <2>2. Plain(t)
    BY <1>1, <2>1 DEF Plain
  <2>. QED
    BY <1>1, <1>3, <2>2 DEF Readable, t
<1>. QED
  BY <1>2, <1>3

\* so the file with one directive less is as it was said to be:
Advanced(f, actions) == [f EXCEPT !.todo = Tail(f.todo), !.actions = actions]
LEMMA Advance ==
    ASSUME NEW q, Request(q), q.stack # <<>>, q.stack[1].todo # <<>>,
           NEW actions, Record(actions, q.stack[1].file)
    PROVE  /\ Request(Code!InFile(q, Advanced(q.stack[1], actions)))
           /\ Code!InFile(q, Advanced(q.stack[1], actions)).stack # <<>>
           /\ Code!InFile(q, Advanced(q.stack[1], actions)).files = q.files
<1>. DEFINE f == q.stack[1]
            todo == Tail(f.todo)
            g == [f EXCEPT !.todo = todo, !.actions = actions]
<1>1. q.stack \in Seq(Frames) /\ f \in Frames /\ 1 \in 1 .. Len(q.stack)
  <2>1. q.stack \in Seq(Frames)
    BY DEF Request, Requests
  <2>. QED
    BY <2>1, Restacked
<1>2. Written(f) /\ Located(f, q.files, q.used) /\ Classed(f, Len(q.classes))
  BY <1>1 DEF Request, Loaded
<1>3. todo \in Seq(Steps) /\ Readable(f.state, todo, f.file)
  <2>1. f.todo \in Seq(Steps) /\ Readable(f.state, f.todo, f.file)
    BY <1>1, <1>2 DEF Frames, Written
  <2>. QED
    BY <2>1, ReadableRest
<1>. HIDE DEF todo
<1>4. /\ g \in Frames /\ g.todo = todo /\ g.actions = actions /\ g.file = f.file /\ g.state = f.state
      /\ g.no = f.no /\ g.cclass = f.cclass /\ g.new = f.new /\ g.cclasses = f.cclasses /\ g.saved = f.saved
  <2>1. actions \in Seq(Steps)
    BY DEF Record
  <2>. QED
    BY <1>1, <1>3, <2>1 DEF Frames
<1>. HIDE DEF g
<1>5. Written(g)
  BY <1>2, <1>3, <1>4 DEF Written
<1>6. Located(g, q.files, q.used) /\ Classed(g, Len(q.classes)) /\ Own(g) = Own(f)
  BY <1>2, <1>4 DEF Located, Classed, Own
<1>7. Reframe(q, g)
  BY <1>4, <1>5, <1>6 DEF Reframe
<1>8. Request(Code!InFile(q, g)) /\ Code!InFile(q, g).stack # <<>> /\ Code!InFile(q, g).files = q.files
  BY <1>7, Reframed
<1>. QED
  BY <1>8 DEF g, todo, Advanced

\* the directive is done;
Recordable(d, f) == Code!Replaying \/ Fits(d, f)
LEMMA DoneKeeps ==
    ASSUME NEW q, Request(q), q.stack # <<>>, q.stack[1].todo # <<>>, NEW d, Recordable(d, q.stack[1].file)
    PROVE  Request(Code!Done(q, d)) /\ Code!Done(q, d).stack # <<>> /\ Code!Done(q, d).files = q.files
<1>. DEFINE f == q.stack[1]
<1>1. Head(q.stack) = f /\ 1 \in 1 .. Len(q.stack)
  <2>1. q.stack \in Seq(Frames)
    BY DEF Request, Requests
  <2>. QED
    BY <2>1, Restacked
<1>2. Record(f.actions, f.file)
  BY <1>1 DEF Request, Loaded, Written
<1>3. CASE Code!Replaying
  <2>1. /\ Request(Code!InFile(q, Advanced(f, f.actions))) /\ Code!InFile(q, Advanced(f, f.actions)).stack # <<>>
        /\ Code!InFile(q, Advanced(f, f.actions)).files = q.files
    BY <1>2, Advance
  <2>2. Code!Done(q, d) = Code!InFile(q, Advanced(f, f.actions))
    BY <1>1, <1>3 DEF Code!Done, Advanced
  <2>. QED
    BY <2>1, <2>2
<1>4. CASE ~Code!Replaying
  <2>1. Record(Append(f.actions, d), f.file)
    BY <1>2, <1>4, RecordMore DEF Recordable
  <2>2. /\ Request(Code!InFile(q, Advanced(f, Append(f.actions, d))))
        /\ Code!InFile(q, Advanced(f, Append(f.actions, d))).stack # <<>>
        /\ Code!InFile(q, Advanced(f, Append(f.actions, d))).files = q.files
    BY <2>1, Advance
  <2>3. Code!Done(q, d) = Code!InFile(q, Advanced(f, Append(f.actions, d)))
    BY <1>1, <1>4 DEF Code!Done, Advanced
  <2>. QED
    BY <2>2, <2>3
<1>. QED
  BY <1>3, <1>4

\* the class announced gets into the classes,
LEMMA ClassAdded ==
    ASSUME NEW q, Request(q), q.stack # <<>>
    PROVE  /\ Request(Code!class_add(q)) /\ Code!class_add(q).stack # <<>> /\ Code!class_add(q).classes = q.classes
           /\ Code!class_add(q).stack[1].file = q.stack[1].file /\ Code!class_add(q).stack[1].todo = q.stack[1].todo
           /\ Code!class_add(q).stack[1].new = 0 /\ Head(Code!class_add(q).stack) = Code!class_add(q).stack[1]
           /\ Code!class_add(q).late = q.late /\ Code!class_add(q).differs = q.differs /\ Code!class_add(q).files = q.files
<1>. DEFINE f == q.stack[1]
            p == [q EXCEPT !.names[q.classes[f.new].name] = f.new]
            g == [f EXCEPT !.cclass = f.new, !.cclasses = Append(f.cclasses, f.new), !.new = 0, !.append = FALSE]
<1>1. q \in Requests /\ q.stack \in Seq(Frames) /\ f \in Frames /\ Head(q.stack) = f /\ 1 \in 1 .. Len(q.stack)
  <2>1. q \in Requests /\ q.stack \in Seq(Frames)
    BY DEF Request, Requests
  <2>. QED
    BY <2>1, Restacked
<1>2. Written(f) /\ Located(f, q.files, q.used) /\ Classed(f, Len(q.classes))
  BY <1>1 DEF Request, Loaded
<1>3. CASE f.new = 0
  BY <1>1, <1>3 DEF Code!class_add
<1>4. CASE f.new # 0
  <2>1. Code!class_add(q) = Code!InFile(p, g)
    BY <1>1, <1>4 DEF Code!class_add
  <2>2. f.new \in 1 .. Len(q.classes) /\ q.classes[f.new].name \in Code!Names
    <3>1. f.new \in 1 .. Len(q.classes)
      BY <1>2, <1>4 DEF Classed
    <3>2. q.classes[f.new] \in Class
      BY <3>1 DEF Request, Named, Table
    <3>. QED
      BY <3>1, <3>2 DEF Class
  <2>. DEFINE names == [q.names EXCEPT ![q.classes[f.new].name] = f.new]
  <2>3. /\ names \in [Code!Names -> Nat] /\ \A n \in Code!Names : names[n] \in 0 .. Len(q.classes)
        /\ p = [q EXCEPT !.names = names]
    BY <1>1, <2>2 DEF Request, Named, Requests
  <2>. HIDE DEF names, p
  <2>4. /\ p \in Requests /\ p.names = names /\ p.classes = q.classes /\ p.stack = q.stack /\ p.ran = q.ran
        /\ p.used = q.used /\ p.files = q.files /\ p.late = q.late /\ p.differs = q.differs
    BY <1>1, <2>3 DEF Requests
  <2>5. Named(p) /\ MainKept(q, p) /\ Sound(p) /\ Len(q.classes) <= Len(p.classes)
    <3>1. Len(q.classes) \in Nat
      BY DEF Request, Named, Table
    <3>. QED
      BY <2>3, <2>4, <3>1 DEF Request, Named, MainKept, Sound
  <2>6. Request(p)
    BY <2>4, <2>5, Changed
  <2>7. /\ f.cclasses \in Seq(Nat) /\ f.new \in Nat /\ Append(f.cclasses, f.new) \in Seq(Nat)
        /\ Len(Append(f.cclasses, f.new)) = Len(f.cclasses) + 1 /\ Len(f.cclasses) \in Nat
        /\ Append(f.cclasses, f.new)[Len(f.cclasses) + 1] = f.new
        /\ \A i \in 1 .. Len(f.cclasses) : Append(f.cclasses, f.new)[i] = f.cclasses[i]
    <3>1. f.cclasses \in Seq(Nat) /\ f.new \in Nat
      BY <1>1 DEF Frames
    <3>. QED
      BY <3>1, AppendProperties
  <2>8. /\ g \in Frames /\ g.todo = f.todo /\ g.actions = f.actions /\ g.file = f.file /\ g.state = f.state
        /\ g.no = f.no /\ g.cclass = f.new /\ g.new = 0 /\ g.cclasses = Append(f.cclasses, f.new)
        /\ g.saved = f.saved
    BY <1>1, <2>7 DEF Frames
  <2>. HIDE DEF g
  <2>9. Written(g) /\ Located(g, p.files, p.used)
    BY <1>2, <2>4, <2>8 DEF Written, Located
  <2>10. \A k \in 1 .. Len(g.cclasses) : k \in 1 .. Len(f.cclasses) \/ k = Len(f.cclasses) + 1
    BY <2>7, <2>8
  <2>11. Classed(g, Len(p.classes))
    <3>1. \A k \in 1 .. Len(f.cclasses) : f.cclasses[k] \in 1 .. Len(q.classes) /\ f.cclasses[k] # f.new
      BY <1>2 DEF Classed
    <3>2. \A j, k \in 1 .. Len(f.cclasses) : j # k => f.cclasses[j] # f.cclasses[k]
      BY <1>2 DEF Classed
    <3>3. Len(q.classes) \in Nat
      BY DEF Request, Named, Table
    <3>4. \A k \in 1 .. Len(g.cclasses) : g.cclasses[k] \in 1 .. Len(q.classes) /\ g.cclasses[k] # 0
      BY <2>2, <2>7, <2>8, <2>10, <3>1, <3>3
    <3>5. \A j, k \in 1 .. Len(g.cclasses) : j # k => g.cclasses[j] # g.cclasses[k]
      BY <2>7, <2>8, <2>10, <3>1, <3>2
    <3>6. g.cclass \in 1 .. Len(q.classes) /\ g.new = 0 /\ p.classes = q.classes
      BY <2>2, <2>4, <2>8
    <3>. QED
      BY <3>3, <3>4, <3>5, <3>6 DEF Classed
  <2>12. \A c \in Own(g) : c = 0 \/ c \in Own(f)
    BY <2>7, <2>8, <2>10 DEF Own
  <2>13. Reframe(p, g)
    BY <2>4, <2>8, <2>9, <2>11, <2>12 DEF Reframe
  <2>14. /\ Request(Code!InFile(p, g)) /\ Head(Code!InFile(p, g).stack) = g /\ Code!InFile(p, g).stack[1] = g
         /\ Code!InFile(p, g).stack # <<>> /\ Code!InFile(p, g).classes = p.classes /\ Code!InFile(p, g).files = p.files
         /\ Code!InFile(p, g).late = p.late /\ Code!InFile(p, g).differs = p.differs
    BY <2>4, <2>6, <2>13, Reframed
  <2>. QED
    BY <2>1, <2>4, <2>8, <2>14
<1>. QED
  BY <1>3, <1>4

\* Taking @auto of MAIN away and giving it back
LEMMA MainAuto ==
    ASSUME NEW cs, Table(cs), NEW m \in Methods
    PROVE  /\ Code!set_method(cs, 1, "auto", m) \in Seq(Class)
           /\ Table(Code!set_method(cs, 1, "auto", m)) /\ Len(Code!set_method(cs, 1, "auto", m)) = Len(cs)
           /\ Code!set_method(cs, 1, "auto", m)[1].base = cs[1].base
           /\ Code!set_method(cs, 1, "auto", m)[1].methods["auto"] = m
           /\ Whole(cs) => Whole(Code!set_method(cs, 1, "auto", m))
<1>. DEFINE ds == Code!set_method(cs, 1, "auto", m)
<1>1. 1 \in 1 .. Len(cs) /\ "auto" \in MethodName
  BY CodeAssumption DEF Table, Code!Parameters
<1>2. SetIn(cs, ds, 1, "auto", m)
  BY <1>1, MethodSet
<1>. HIDE DEF ds
<1>3. Table(ds) /\ (Whole(cs) => Whole(ds))
  BY <1>1, <1>2, WholeMethod
<1>4. ds \in Seq(Class) /\ Len(ds) = Len(cs) /\ ds[1].base = cs[1].base /\ ds[1].methods["auto"] = m
  BY <1>1, <1>2 DEF SetIn, Hit
<1>. QED
  BY <1>3, <1>4 DEF ds

\* leaves the other classes as they were, whole or not.
LEMMA SoundAuto ==
    ASSUME NEW q, Sound(q), Table(q.classes), NEW m \in Methods, NEW p, p.late = q.late, p.differs = q.differs,
           p.classes = Code!set_method(q.classes, 1, "auto", m)
    PROVE  Sound(p)
  BY MainAuto DEF Sound

\* A file begins to be loaded,
LEMMA LoadingKeeps ==
    ASSUME NEW q, Request(q), NEW path \in File, NEW replace \in BOOLEAN
    PROVE  Request(Code!Loading(q, path, replace)) /\ Code!Loading(q, path, replace).files = q.files
<1>1. /\ q \in Requests /\ Table(q.classes) /\ q.stack \in Seq(Frames) /\ q.used \in SUBSET File
      /\ Len(q.classes) \in Nat /\ 1 \in 1 .. Len(q.classes)
  BY DEF Request, Requests, Named, Table
<1>2. CASE path \in q.used
  <2>. DEFINE p == [q EXCEPT !.replace = FALSE]
  <2>1. Code!Loading(q, path, replace) = p
    BY <1>2 DEF Code!Loading
  <2>2. /\ p \in Requests /\ p.stack = q.stack /\ p.ran = q.ran /\ p.used = q.used /\ p.files = q.files
        /\ p.classes = q.classes /\ p.names = q.names /\ p.late = q.late /\ p.differs = q.differs
    BY <1>1 DEF Requests
  <2>. HIDE DEF p
  <2>3. Named(p) /\ MainKept(q, p) /\ Sound(p) /\ Len(q.classes) <= Len(p.classes)
    BY <1>1, <2>2 DEF Request, Named, MainKept, Sound
  <2>4. Request(p)
    BY <2>2, <2>3, Changed
  <2>. QED
    BY <2>1, <2>2, <2>4
<1>3. CASE path \notin q.used
  <2>. DEFINE p == Code!Loading(q, path, replace)
              g == Code!Frame(path, q.classes)
              cs == Code!set_method(q.classes, 1, "auto", None)
              auto == q.classes[1].methods["auto"]
              n == Len(q.stack)
  <2>1. p = [q EXCEPT !.used = @ \cup {path}, !.replace = replace, !.stack = <<g>> \o @, !.classes = cs]
    BY <1>3 DEF Code!Loading
  <2>2. auto \in Methods /\ None \in Methods
    <3>1. q.classes[1] \in Class
      BY <1>1 DEF Table
    <3>. QED
      BY <3>1, CodeAssumption DEF Class, Code!Parameters, Methods
  <2>3. /\ cs \in Seq(Class) /\ Table(cs) /\ Len(cs) = Len(q.classes)
        /\ cs[1].base = q.classes[1].base /\ cs[1].methods["auto"] = None
    BY <1>1, <2>2, MainAuto
  <2>4. /\ g \in Frames /\ g.file = path /\ g.state = "stat" /\ g.todo = <<>> /\ g.actions = <<>>
        /\ g.new = 0 /\ g.cclass = 1 /\ g.cclasses = <<1>> /\ g.saved = auto
    BY <2>2 DEF Code!Frame, Frames
  <2>. HIDE DEF g, cs, auto
  <2>5. /\ <<g>> \o q.stack \in Seq(Frames) /\ Len(<<g>> \o q.stack) = n + 1 /\ <<g>> \o q.stack # <<>>
        /\ (<<g>> \o q.stack)[1] = g /\ n \in Nat
        /\ \A i \in 1 .. n + 1 : i # 1 => i - 1 \in 1 .. n /\ (<<g>> \o q.stack)[i] = q.stack[i - 1]
    BY <1>1, <2>4, Stacked
  <2>. DEFINE s == <<g>> \o q.stack
  <2>. HIDE DEF s
  <2>6. /\ p \in Requests /\ p.stack = s /\ p.classes = cs /\ p.used = q.used \cup {path}
        /\ p.ran = q.ran /\ p.files = q.files /\ p.names = q.names /\ p.late = q.late /\ p.differs = q.differs
    <3>1. p = [q EXCEPT !.used = q.used \cup {path}, !.replace = replace, !.stack = s, !.classes = cs]
      BY <1>1, <2>1 DEF s
    <3>. HIDE DEF p
    <3>. QED
      BY <1>1, <2>3, <2>5, <3>1 DEF Requests, s
  <2>. HIDE DEF p
  <2>7. Len(s) = n + 1 /\ s[1] = g /\ s # <<>> /\ \A i \in 1 .. n + 1 : i # 1 => i - 1 \in 1 .. n /\ s[i] = q.stack[i - 1]
    BY <2>5 DEF s
  <2>8. Named(p)
    BY <2>3, <2>6 DEF Request, Named
  <2>9. Own(g) = {0, 1} /\ Written(g) /\ Classed(g, Len(q.classes))
    <3>1. Len(<<1>>) = 1 /\ <<1>>[1] = 1
      OBVIOUS
    <3>2. Own(g) = {0, 1}
      BY <2>4, <3>1 DEF Own
    <3>3. Plain(<<>>) /\ Record(<<>>, path)
      BY DEF Plain, Record
    <3>4. Written(g)
      BY <2>4, <3>3 DEF Written, Readable
    <3>5. Classed(g, Len(q.classes))
      BY <1>1, <2>4, <3>1 DEF Classed
    <3>. QED
      BY <3>2, <3>4, <3>5
  <2>10. Loaded(p)
    <3>1. ASSUME NEW i \in 1 .. n + 1
          PROVE  Written(s[i]) /\ Located(s[i], q.files, q.used \cup {path}) /\ Classed(s[i], Len(q.classes))
      <4>1. CASE i = 1
        <5>1. Located(g, q.files, q.used \cup {path})
          BY <2>4 DEF Located
        <5>. QED
          BY <2>7, <2>9, <4>1, <5>1
      <4>2. CASE i # 1
        <5>1. /\ i - 1 \in 1 .. n /\ s[i] = q.stack[i - 1] /\ Written(q.stack[i - 1])
              /\ Located(q.stack[i - 1], q.files, q.used) /\ Classed(q.stack[i - 1], Len(q.classes))
          BY <2>7, <4>2 DEF Request, Loaded
        <5>. QED
          BY <5>1 DEF Located
      <4>. QED
        BY <4>1, <4>2
    <3>. QED
      BY <2>3, <2>6, <2>7, <3>1 DEF Loaded
  <2>11. Apart(p)
    <3>1. \A i \in 1 .. n : q.stack[i].file # path
      BY <1>3 DEF Request, Loaded, Located
    <3>2. ASSUME NEW i \in 1 .. n + 1, NEW j \in 1 .. n + 1, i # j
          PROVE  s[i].file # s[j].file /\ Own(s[i]) \cap Own(s[j]) \subseteq {0, 1}
      <4>1. CASE i = 1
        BY <2>4, <2>7, <2>9, <3>1, <3>2, <4>1
      <4>2. CASE j = 1
        BY <2>4, <2>7, <2>9, <3>1, <3>2, <4>2
      <4>3. CASE i # 1 /\ j # 1
        <5>1. i - 1 \in 1 .. n /\ j - 1 \in 1 .. n /\ i - 1 # j - 1 /\ s[i] = q.stack[i - 1] /\ s[j] = q.stack[j - 1]
          BY <2>7, <3>2, <4>3
        <5>. QED
          BY <5>1 DEF Request, Apart
      <4>. QED
        BY <4>1, <4>2, <4>3
    <3>. QED
      BY <2>6, <2>7, <3>2 DEF Apart
  <2>12. Past(p)
    <3>1. ASSUME NEW k \in 1 .. Len(q.ran), NEW i \in 1 .. n + 1
          PROVE  q.ran[k][3] # s[i].file /\ q.ran[k][1] \notin Own(s[i]) \ {1}
      <4>1. q.ran[k][1] \in 1 .. Len(q.classes) /\ q.ran[k][3] \in q.used
        BY DEF Request, Past
      <4>2. CASE i = 1
        BY <1>3, <2>4, <2>7, <2>9, <4>1, <4>2
      <4>3. CASE i # 1
        <5>1. i - 1 \in 1 .. n /\ s[i] = q.stack[i - 1]
          BY <2>7, <4>3
        <5>. QED
          BY <5>1 DEF Request, Past
      <4>. QED
        BY <4>2, <4>3
    <3>. QED
      BY <2>3, <2>6, <2>7, <3>1 DEF Request, Past
  <2>13. RunOnce(p) /\ RunBy(p)
    <3>1. RunOnce(p)
      BY <2>6 DEF Request, RunOnce
    <3>2. RunBy(p)
      BY <2>3, <2>6 DEF Request, RunBy
    <3>. QED
      BY <3>1, <3>2
  <2>14. Sound(p)
    BY <1>1, <2>2, <2>6, SoundAuto DEF Request, cs
  <2>15. Autos(p)
    <3>1. SUFFICES ASSUME q.classes[1].base = 0
                   PROVE  /\ By(cs[1].methods["auto"], s[1].file) /\ s[n + 1].saved = None
                          /\ \A i \in 1 .. n : By(s[i].saved, s[i + 1].file)
      BY <2>3, <2>5, <2>6, <2>7 DEF Autos
    <3>2. IF q.stack = <<>> THEN auto = None
          ELSE By(auto, q.stack[1].file) /\ q.stack[n].saved = None /\ \A i \in 1 .. n - 1 : By(q.stack[i].saved, q.stack[i + 1].file)
      BY <3>1 DEF Request, Autos, auto
    <3>3. By(cs[1].methods["auto"], s[1].file)
      BY <2>3 DEF By
    <3>4. CASE q.stack = <<>>
      <4>1. n = 0
        BY <1>1, <3>4
      <4>. QED
        BY <2>4, <2>5, <2>7, <3>2, <3>3, <3>4, <4>1
    <3>5. CASE q.stack # <<>>
      <4>1. n > 0
        BY <1>1, <3>5, EmptySeq
      <4>2. s[n + 1].saved = None
        BY <2>5, <2>7, <3>2, <3>5, <4>1
      <4>3. ASSUME NEW i \in 1 .. n PROVE By(s[i].saved, s[i + 1].file)
        <5>1. s[i + 1] = q.stack[i]
          BY <2>5, <2>7, <4>3
        <5>2. CASE i = 1
          BY <2>4, <2>7, <3>2, <3>5, <5>1, <5>2
        <5>3. CASE i # 1
          <6>1. s[i] = q.stack[i - 1] /\ i - 1 \in 1 .. n - 1 /\ (i - 1) + 1 = i
            BY <2>5, <2>7, <5>3
          <6>2. By(q.stack[i - 1].saved, q.stack[(i - 1) + 1].file)
            BY <3>2, <3>5, <6>1
          <6>. QED
            BY <5>1, <6>1, <6>2
        <5>. QED
          BY <5>2, <5>3
      <4>. QED
        BY <3>3, <4>2, <4>3
    <3>. QED
      BY <3>4, <3>5
  <2>16. Request(p)
    BY <2>6, <2>8, <2>10, <2>11, <2>12, <2>13, <2>14, <2>15 DEF Request
  <2>. QED
    BY <2>6, <2>16 DEF p
<1>. QED
  BY <1>2, <1>3

\* an exception leaves them all,
LEMMA FailKeeps ==
    ASSUME NEW q, Request(q), q.stack # <<>>
    PROVE  Request(Code!fail(q)) /\ Code!fail(q).files = q.files
<1>. DEFINE p == Code!fail(q)
            saved == q.stack[Len(q.stack)].saved
            cs == Code!set_method(q.classes, 1, "auto", saved)
<1>1. q \in Requests /\ Table(q.classes) /\ q.stack \in Seq(Frames) /\ q.errors \in Nat
  BY DEF Request, Requests, Named
<1>2. saved \in Methods
  <2>1. Len(q.stack) \in 1 .. Len(q.stack)
    BY <1>1, EmptySeq
  <2>2. q.stack[Len(q.stack)] \in Frames
    BY <1>1, <2>1
  <2>. QED
    BY <2>2 DEF Frames
<1>3. /\ cs \in Seq(Class) /\ Table(cs) /\ Len(cs) = Len(q.classes)
      /\ cs[1].base = q.classes[1].base /\ cs[1].methods["auto"] = saved
  BY <1>1, <1>2, MainAuto
<1>4. p = [q EXCEPT !.classes = cs, !.stack = <<>>, !.errors = q.errors + 1, !.replace = FALSE]
  BY <1>1 DEF Code!fail
<1>. HIDE DEF p, cs
<1>5. /\ p \in Requests /\ p.stack = <<>> /\ p.classes = cs /\ p.used = q.used /\ p.ran = q.ran
      /\ p.files = q.files /\ p.names = q.names /\ p.late = q.late /\ p.differs = q.differs
  <2>. DEFINE none == <<>>
              count == q.errors + 1
  <2>1. none \in Seq(Frames) /\ count \in Nat /\ FALSE \in BOOLEAN
    BY <1>1
  <2>2. p = [q EXCEPT !.classes = cs, !.stack = none, !.errors = count, !.replace = FALSE]
    BY <1>4
  <2>. HIDE DEF none, count
  <2>3. /\ p \in Requests /\ p.stack = none /\ p.classes = cs /\ p.used = q.used /\ p.ran = q.ran
        /\ p.files = q.files /\ p.names = q.names /\ p.late = q.late /\ p.differs = q.differs
    BY <1>1, <1>3, <2>1, <2>2 DEF Requests
  <2>. QED
    BY <2>3 DEF none
<1>6. Len(p.stack) = 0
  BY <1>5
<1>7. Loaded(p) /\ Apart(p)
  BY <1>6 DEF Loaded, Apart
<1>8. Named(p) /\ Past(p)
  BY <1>3, <1>5, <1>6 DEF Request, Named, Past
<1>9. RunOnce(p) /\ RunBy(p)
  <2>1. RunOnce(p)
    BY <1>5 DEF Request, RunOnce
  <2>2. RunBy(p)
    BY <1>3, <1>5 DEF Request, RunBy
  <2>. QED
    BY <2>1, <2>2
<1>10. Sound(p)
  BY <1>1, <1>2, <1>5, SoundAuto DEF Request, cs
<1>11. Autos(p)
  BY <1>3, <1>5 DEF Request, Autos
<1>12. Request(p)
  BY <1>5, <1>7, <1>8, <1>9, <1>10, <1>11 DEF Request
<1>. QED
  BY <1>5, <1>12 DEF p

\* Two sequences, one after the other
LEMMA Joined ==
    ASSUME NEW S, NEW a \in Seq(S), NEW b \in Seq(S)
    PROVE  /\ a \o b \in Seq(S) /\ Len(a) \in Nat /\ Len(b) \in Nat /\ Len(a \o b) = Len(a) + Len(b)
           /\ \A k \in 1 .. Len(a) : (a \o b)[k] = a[k]
           /\ \A k \in 1 .. Len(a) + Len(b) :
                 k \in 1 .. Len(a) \/ (k - Len(a) \in 1 .. Len(b) /\ (a \o b)[k] = b[k - Len(a)])
<1>1. Len(a) \in Nat /\ Len(b) \in Nat /\ a \o b \in Seq(S) /\ Len(a \o b) = Len(a) + Len(b)
  OBVIOUS
<1>2. \A k \in 1 .. Len(a) + Len(b) : (a \o b)[k] = IF k <= Len(a) THEN a[k] ELSE b[k - Len(a)]
  OBVIOUS
<1>3. \A k \in 1 .. Len(a) : k \in 1 .. Len(a) + Len(b) /\ k <= Len(a)
  BY <1>1
<1>4. \A k \in 1 .. Len(a) + Len(b) : k \in 1 .. Len(a) \/ (k - Len(a) \in 1 .. Len(b) /\ ~(k <= Len(a)))
  BY <1>1
<1>. QED
  BY <1>1, <1>2, <1>3, <1>4

\* and at its end the @auto methods are run and that of MAIN is given back.
Run(q) ==
    [i \in DOMAIN q.stack[1].cclasses |->
        <<q.stack[1].cclasses[i], q.classes[q.stack[1].cclasses[i]].methods["auto"], q.stack[1].file>>]
LEMMA LeaveKeeps ==
    ASSUME NEW q, Request(q), q.stack # <<>>
    PROVE  Request(Code!leave([q EXCEPT !.ran = q.ran \o Run(q)])) /\ Code!leave([q EXCEPT !.ran = q.ran \o Run(q)]).files = q.files
<1>. DEFINE f == q.stack[1]
            e == Run(q)
            ran == q.ran \o e
            p == Code!leave([q EXCEPT !.ran = ran])
            cs == Code!set_method(q.classes, 1, "auto", f.saved)
            s == Tail(q.stack)
            n == Len(q.stack)
            o == Len(q.ran)
<1>1. /\ q \in Requests /\ Table(q.classes) /\ q.stack \in Seq(Frames) /\ q.used \in SUBSET File
      /\ Len(q.classes) \in Nat /\ 1 \in 1 .. Len(q.classes) /\ q.ran \in Seq(Nat \X Methods \X File)
  BY DEF Request, Requests, Named, Table
<1>2. /\ f \in Frames /\ Head(q.stack) = f /\ 1 \in 1 .. n /\ n \in Nat /\ n > 0 /\ n \in 1 .. n
      /\ s \in Seq(Frames) /\ Len(s) = n - 1 /\ \A i \in 1 .. n - 1 : s[i] = q.stack[i + 1] /\ i + 1 \in 1 .. n
  <2>1. n \in Nat /\ n > 0 /\ s \in Seq(Frames) /\ Len(s) = n - 1 /\ \A i \in 1 .. n - 1 : s[i] = q.stack[i + 1]
    BY <1>1, Unstacked
  <2>2. \A i \in 1 .. n - 1 : i + 1 \in 1 .. n
    BY <2>1
  <2>. QED
    BY <1>1, <2>1, <2>2, Restacked
<1>3. f.saved \in Methods /\ f.file \in File /\ f.cclasses \in Seq(Nat) /\ Len(f.cclasses) \in Nat
      /\ DOMAIN f.cclasses = 1 .. Len(f.cclasses)
  <2>1. f \in Frames
    BY <1>2
  <2>2. f.saved \in Methods /\ f.file \in File /\ f.cclasses \in Seq(Nat)
    BY <2>1 DEF Frames
  <2>. QED
    BY <2>2
<1>4. Written(f) /\ Located(f, q.files, q.used) /\ Classed(f, Len(q.classes))
  BY <1>2 DEF Request, Loaded
<1>5. /\ cs \in Seq(Class) /\ Table(cs) /\ Len(cs) = Len(q.classes)
      /\ cs[1].base = q.classes[1].base /\ cs[1].methods["auto"] = f.saved
  BY <1>1, <1>3, MainAuto
<1>6. /\ e \in Seq(Nat \X Methods \X File) /\ Len(e) = Len(f.cclasses)
      /\ \A i \in 1 .. Len(e) : /\ e[i][1] = f.cclasses[i] /\ e[i][3] = f.file
                                /\ e[i][2] = q.classes[f.cclasses[i]].methods["auto"]
  <2>. DEFINE entry(i) == <<f.cclasses[i], q.classes[f.cclasses[i]].methods["auto"], f.file>>
  <2>1. ASSUME NEW i \in 1 .. Len(f.cclasses)
        PROVE  entry(i) \in Nat \X Methods \X File
    <3>1. f.cclasses[i] \in 1 .. Len(q.classes)
      BY <1>4 DEF Classed
    <3>2. q.classes[f.cclasses[i]] \in Class /\ "auto" \in MethodName
      BY <1>1, <3>1, CodeAssumption DEF Table, Code!Parameters
    <3>. DEFINE c == f.cclasses[i]
                m == q.classes[c].methods["auto"]
                path == f.file
    <3>3. m \in Methods
      BY <3>2 DEF Class
    <3>4. c \in Nat /\ path \in File
      BY <1>1, <1>3, <3>1
    <3>. HIDE DEF c, m, path
    <3>5. <<c, m, path>> \in Nat \X Methods \X File
      BY <3>3, <3>4
    <3>. QED
      BY <3>5 DEF c, m, path
  <2>2. e = [i \in 1 .. Len(f.cclasses) |-> entry(i)]
    BY <1>3 DEF Run
  <2>. HIDE DEF e
  <2>3. e \in Seq(Nat \X Methods \X File) /\ Len(e) = Len(f.cclasses)
    <3>. HIDE DEF entry
    <3>. QED
      BY <1>3, <2>1, <2>2
  <2>. QED
    BY <2>2, <2>3
<1>. HIDE DEF e
<1>7. /\ ran \in Seq(Nat \X Methods \X File) /\ o \in Nat /\ Len(e) \in Nat /\ Len(ran) = o + Len(e)
      /\ \A k \in 1 .. o : ran[k] = q.ran[k]
      /\ \A k \in 1 .. o + Len(e) : k \in 1 .. o \/ (k - o \in 1 .. Len(e) /\ ran[k] = e[k - o])
  <2>. DEFINE S == Nat \X Methods \X File
  <2>1. q.ran \in Seq(S) /\ e \in Seq(S)
    BY <1>1, <1>6
  <2>. HIDE DEF S
  <2>2. /\ ran \in Seq(S) /\ o \in Nat /\ Len(e) \in Nat /\ Len(ran) = o + Len(e)
        /\ \A k \in 1 .. o : ran[k] = q.ran[k]
        /\ \A k \in 1 .. o + Len(e) : k \in 1 .. o \/ (k - o \in 1 .. Len(e) /\ ran[k] = e[k - o])
    BY <2>1, Joined
  <2>. QED
    BY <2>2 DEF S
<1>8. p = [q EXCEPT !.ran = ran, !.stack = s, !.replace = FALSE, !.classes = cs]
  BY <1>1, <1>2 DEF Code!leave, Requests
<1>. HIDE DEF p, cs, ran, s
<1>9. /\ p \in Requests /\ p.stack = s /\ p.classes = cs /\ p.used = q.used /\ p.ran = ran
      /\ p.files = q.files /\ p.names = q.names /\ p.late = q.late /\ p.differs = q.differs
  BY <1>1, <1>2, <1>5, <1>7, <1>8 DEF Requests
<1>10. Named(p)
  BY <1>5, <1>9 DEF Request, Named
<1>11. Loaded(p)
  <2>1. \A i \in 1 .. n - 1 : Written(s[i]) /\ Located(s[i], q.files, q.used) /\ Classed(s[i], Len(q.classes))
    BY <1>2 DEF Request, Loaded
  <2>. QED
    BY <1>2, <1>5, <1>9, <2>1 DEF Loaded
<1>12. Apart(p)
  <2>1. ASSUME NEW i \in 1 .. n - 1, NEW j \in 1 .. n - 1, i # j
        PROVE  s[i].file # s[j].file /\ Own(s[i]) \cap Own(s[j]) \subseteq {0, 1}
    <3>1. i + 1 \in 1 .. n /\ j + 1 \in 1 .. n /\ i + 1 # j + 1 /\ s[i] = q.stack[i + 1] /\ s[j] = q.stack[j + 1]
      BY <1>2, <2>1
    <3>. QED
      BY <3>1 DEF Request, Apart
  <2>. QED
    BY <1>2, <1>9, <2>1 DEF Apart
<1>13. \A k \in 1 .. Len(e) : e[k][1] \in 1 .. Len(q.classes) /\ e[k][1] \in Own(f)
  <2>1. \A k \in 1 .. Len(e) : k \in 1 .. Len(f.cclasses) /\ e[k][1] = f.cclasses[k]
    BY <1>6
  <2>. QED
    BY <1>4, <2>1 DEF Classed, Own
<1>14. \A k \in 1 .. o : q.ran[k][3] # f.file /\ q.ran[k][1] \notin Own(f) \ {1}
  BY <1>2 DEF Request, Past
<1>15. Past(p)
  <2>1. ASSUME NEW k \in 1 .. o + Len(e)
        PROVE  /\ ran[k][1] \in 1 .. Len(q.classes) /\ ran[k][3] \in q.used
               /\ \A i \in 1 .. n - 1 : ran[k][3] # s[i].file /\ ran[k][1] \notin Own(s[i]) \ {1}
    <3>1. CASE k \in 1 .. o
      <4>1. /\ q.ran[k][1] \in 1 .. Len(q.classes) /\ q.ran[k][3] \in q.used
            /\ \A i \in 1 .. n : q.ran[k][3] # q.stack[i].file /\ q.ran[k][1] \notin Own(q.stack[i]) \ {1}
        BY <3>1 DEF Request, Past
      <4>2. ran[k] = q.ran[k]
        BY <1>7, <3>1
      <4>3. \A i \in 1 .. n - 1 : i + 1 \in 1 .. n /\ s[i] = q.stack[i + 1]
        BY <1>2
      <4>. QED
        BY <4>1, <4>2, <4>3
    <3>2. CASE k \notin 1 .. o
      <4>1. k - o \in 1 .. Len(e) /\ ran[k] = e[k - o]
        BY <1>7, <3>2
      <4>2. ran[k][3] = f.file /\ ran[k][1] \in 1 .. Len(q.classes) /\ ran[k][1] \in Own(f)
        BY <1>6, <1>13, <4>1
      <4>3. f.file \in q.used
        BY <1>4 DEF Located
      <4>4. ASSUME NEW i \in 1 .. n - 1
            PROVE  f.file # s[i].file /\ Own(f) \cap Own(s[i]) \subseteq {0, 1}
        <5>1. i + 1 \in 1 .. n /\ 1 # i + 1 /\ s[i] = q.stack[i + 1]
          BY <1>2
        <5>. QED
          BY <1>2, <5>1 DEF Request, Apart
      <4>5. ran[k][1] # 0
        BY <1>1, <4>2
      <4>. QED
        BY <4>2, <4>3, <4>4, <4>5
    <3>. QED
      BY <3>1, <3>2
  <2>. QED
    <3>1. Len(p.ran) = o + Len(e) /\ Len(p.stack) = n - 1 /\ Len(p.classes) = Len(q.classes)
      BY <1>2, <1>5, <1>7, <1>9
    <3>. QED
      BY <1>9, <2>1, <3>1 DEF Past
<1>16. RunOnce(p)
  <2>1. ASSUME NEW i \in 1 .. o + Len(e), NEW j \in 1 .. o + Len(e), i < j, ran[i][1] = ran[j][1]
        PROVE  ran[i][1] = 1 /\ ran[i][3] # ran[j][3]
    <3>1. CASE j \in 1 .. o
      <4>1. i \in 1 .. o /\ ran[i] = q.ran[i] /\ ran[j] = q.ran[j]
        <5>1. o \in Nat /\ Len(e) \in Nat
          BY <1>7
        <5>2. i \in 1 .. o
          BY <2>1, <3>1, <5>1
        <5>. QED
          BY <1>7, <3>1, <5>2
      <4>. QED
        BY <2>1, <3>1, <4>1 DEF Request, RunOnce
    <3>2. CASE j \notin 1 .. o /\ i \in 1 .. o
      <4>1. j - o \in 1 .. Len(e) /\ ran[j] = e[j - o] /\ ran[i] = q.ran[i]
        BY <1>7, <3>2
      <4>2. ran[j][1] \in Own(f) /\ ran[j][3] = f.file
        BY <1>6, <1>13, <4>1
      <4>. QED
        BY <1>14, <2>1, <3>2, <4>1, <4>2
    <3>3. CASE i \notin 1 .. o
      <4>1. i - o \in 1 .. Len(e) /\ j - o \in 1 .. Len(e) /\ ran[i] = e[i - o] /\ ran[j] = e[j - o] /\ i - o # j - o
        <5>1. o \in Nat /\ Len(e) \in Nat
          BY <1>7
        <5>2. j \notin 1 .. o
          BY <2>1, <3>3, <5>1
        <5>3. i - o # j - o
          BY <2>1, <5>1
        <5>. QED
          BY <1>7, <3>3, <5>2, <5>3
      <4>2. f.cclasses[i - o] # f.cclasses[j - o]
        BY <1>4, <1>6, <4>1 DEF Classed
      <4>. QED
        BY <1>6, <2>1, <4>1, <4>2
    <3>. QED
      BY <3>1, <3>2, <3>3
  <2>. QED
    <3>1. Len(p.ran) = o + Len(e)
      BY <1>7, <1>9
    <3>. QED
      BY <1>9, <2>1, <3>1 DEF RunOnce
<1>17. RunBy(p)
  <2>1. ASSUME q.classes[1].base = 0, NEW k \in 1 .. o + Len(e), ran[k][1] = 1
        PROVE  By(ran[k][2], ran[k][3])
    <3>1. CASE k \in 1 .. o
      BY <1>7, <2>1, <3>1 DEF Request, RunBy
    <3>2. CASE k \notin 1 .. o
      <4>1. k - o \in 1 .. Len(e) /\ ran[k] = e[k - o]
        BY <1>7, <3>2
      <4>2. ran[k][2] = q.classes[1].methods["auto"] /\ ran[k][3] = f.file
        BY <1>6, <2>1, <4>1
      <4>. QED
        BY <2>1, <4>2 DEF Request, Autos
    <3>. QED
      BY <3>1, <3>2
  <2>. QED
    BY <1>5, <1>7, <1>9, <2>1 DEF RunBy
<1>18. Sound(p)
  BY <1>1, <1>3, <1>9, SoundAuto DEF Request, cs
<1>19. Autos(p)
  <2>1. SUFFICES ASSUME q.classes[1].base = 0
                 PROVE  IF s = <<>> THEN f.saved = None
                        ELSE /\ By(f.saved, s[1].file) /\ s[n - 1].saved = None
                             /\ \A i \in 1 .. (n - 1) - 1 : By(s[i].saved, s[i + 1].file)
    BY <1>2, <1>5, <1>9 DEF Autos
  <2>2. q.stack[n].saved = None /\ \A i \in 1 .. n - 1 : By(q.stack[i].saved, q.stack[i + 1].file)
    BY <2>1 DEF Request, Autos
  <2>3. CASE s = <<>>
    <3>1. n = 1
      BY <1>2, <2>3
    <3>. QED
      BY <2>2, <2>3, <3>1
  <2>4. CASE s # <<>>
    <3>1. n - 1 \in 1 .. n - 1 /\ 1 \in 1 .. n - 1
      BY <1>2, <2>4, EmptySeq
    <3>2. s[n - 1] = q.stack[n] /\ s[1] = q.stack[1 + 1]
      BY <1>2, <3>1
    <3>3. By(f.saved, s[1].file)
      BY <2>2, <3>1, <3>2
    <3>4. ASSUME NEW i \in 1 .. (n - 1) - 1
          PROVE  By(s[i].saved, s[i + 1].file)
      <4>1. i \in 1 .. n - 1 /\ i + 1 \in 1 .. n - 1
        BY <1>2
      <4>2. s[i] = q.stack[i + 1] /\ s[i + 1] = q.stack[(i + 1) + 1]
        BY <1>2, <4>1
      <4>. QED
        BY <2>2, <4>1, <4>2
    <3>. QED
      BY <2>2, <2>4, <3>2, <3>3, <3>4
  <2>. QED
    BY <2>3, <2>4
<1>20. Request(p)
  BY <1>9, <1>10, <1>11, <1>12, <1>15, <1>16, <1>17, <1>18, <1>19 DEF Request
<1>. QED
  BY <1>9, <1>20 DEF p, ran, e

\* A request with other classes
LEMMA WithClasses ==
    ASSUME NEW q \in Requests, NEW cs \in Seq(Class), NEW p, p = [q EXCEPT !.classes = cs]
    PROVE  /\ p \in Requests /\ p.classes = cs /\ p.names = q.names /\ p.stack = q.stack /\ p.used = q.used
           /\ p.ran = q.ran /\ p.files = q.files /\ p.late = q.late /\ p.differs = q.differs
  BY DEF Requests

\* One file more is known.
LEMMA FilesMore ==
    ASSUME NEW q, Request(q), NEW path \in File
    PROVE  /\ Request([q EXCEPT !.files = Append(q.files, path)])
           /\ [q EXCEPT !.files = Append(q.files, path)].files = Append(q.files, path)
           /\ [q EXCEPT !.files = Append(q.files, path)].stack = q.stack
           /\ [q EXCEPT !.files = Append(q.files, path)].used = q.used
           /\ [q EXCEPT !.files = Append(q.files, path)].classes = q.classes
           /\ Append(q.files, path) \in Seq(File) /\ Len(q.files) \in Nat /\ Len(Append(q.files, path)) = Len(q.files) + 1
           /\ Append(q.files, path)[Len(q.files) + 1] = path
           /\ \A i \in 1 .. Len(q.files) : Append(q.files, path)[i] = q.files[i]
<1>. DEFINE fs == Append(q.files, path)
            p == [q EXCEPT !.files = fs]
<1>1. q \in Requests /\ q.files \in Seq(File)
  BY DEF Request, Requests
<1>2. /\ fs \in Seq(File) /\ Len(q.files) \in Nat /\ Len(fs) = Len(q.files) + 1 /\ fs[Len(q.files) + 1] = path
      /\ \A i \in 1 .. Len(q.files) : fs[i] = q.files[i]
  BY <1>1, AppendProperties
<1>. HIDE DEF fs
<1>3. /\ p \in Requests /\ p.classes = q.classes /\ p.names = q.names /\ p.stack = q.stack /\ p.used = q.used
      /\ p.ran = q.ran /\ p.files = fs /\ p.late = q.late /\ p.differs = q.differs
  BY <1>1, <1>2 DEF Requests
<1>. HIDE DEF p
<1>4. \A g : Located(g, q.files, q.used) => Located(g, fs, q.used)
  BY <1>2 DEF Located
<1>5. Loaded(p)
  BY <1>3, <1>4 DEF Request, Loaded
<1>6. Named(p) /\ Apart(p) /\ Past(p)
  <2>1. Named(p)
    BY <1>3 DEF Request, Named
  <2>2. Apart(p)
    BY <1>3 DEF Request, Apart
  <2>3. Past(p)
    BY <1>3 DEF Request, Past
  <2>. QED
    BY <2>1, <2>2, <2>3
<1>7. RunOnce(p) /\ RunBy(p)
  BY <1>3 DEF Request, RunOnce, RunBy
<1>8. Autos(p) /\ Sound(p)
  BY <1>3 DEF Request, Autos, Sound
<1>9. Request(p)
  BY <1>3, <1>5, <1>6, <1>7, <1>8 DEF Request
<1>. QED
  BY <1>2, <1>3, <1>9 DEF p, fs

\* A request that begins
LEMMA Begins ==
    ASSUME NEW uses \in Seq(Uses), NEW files \in Seq(File)
    PROVE  Request(Code!NewRequest(uses, files)) /\ Code!NewRequest(uses, files).files = files
<1>. DEFINE q == Code!NewRequest(uses, files)
            cs == <<Code!NewClass("MAIN")>>
            names == [n \in Code!Names |-> IF n = "MAIN" THEN 1 ELSE 0]
            none == <<>>
<1>1. Code!NewClass("MAIN") \in Class /\ Code!NewClass("MAIN").base = 0 /\ Code!NewClass("MAIN").derived = {}
      /\ \A m \in MethodName : Code!NewClass("MAIN").methods[m] = None
  BY DEF Code!NewClass, Class, Methods, Code!Names
<1>2. cs \in Seq(Class) /\ Len(cs) = 1 /\ cs[1] = Code!NewClass("MAIN")
  BY <1>1
<1>3. names \in [Code!Names -> Nat] /\ \A n \in Code!Names : names[n] \in 0 .. 1
  OBVIOUS
<1>4. none \in Seq(Frames) /\ none \in Seq(Nat \X Methods \X File) /\ Len(none) = 0
  OBVIOUS
<1>5. /\ q = [classes |-> cs, names |-> names, used |-> {}, files |-> files, stack |-> none, uses |-> uses,
              replace |-> FALSE, ran |-> none, errors |-> 0, differs |-> FALSE, late |-> FALSE]
  BY DEF Code!NewRequest
<1>. HIDE DEF q, cs, names, none
<1>6. /\ q \in Requests /\ q.classes = cs /\ q.names = names /\ q.stack = none /\ q.ran = none /\ q.files = files
  BY <1>2, <1>3, <1>4, <1>5 DEF Requests
<1>7. Table(cs)
  BY <1>1, <1>2 DEF Table
<1>8. Whole(cs)
  <2>1. Code!Line(cs, 1) = {1}
    <3>1. 1 \in 1 .. Len(cs) /\ cs[1].base = 0
      BY <1>1, <1>2
    <3>. QED
      BY <1>7, <3>1, LineIs
  <2>2. \A i \in 1 .. Len(cs) : i = 1 /\ cs[i].base = 0 /\ cs[i].derived = {} /\ \A m \in MethodName : cs[i].methods[m] = None
    BY <1>1, <1>2
  <2>3. Acyclic(cs) /\ Inherits(cs)
    BY <2>2 DEF Acyclic, Inherits
  <2>4. Told(cs)
    BY <1>2, <2>1, <2>2 DEF Told
  <2>. QED
    BY <2>3, <2>4 DEF Whole
<1>9. Named(q) /\ Sound(q)
  BY <1>2, <1>3, <1>6, <1>7, <1>8 DEF Named, Sound
<1>10. Loaded(q) /\ Apart(q) /\ Past(q)
  BY <1>4, <1>6 DEF Loaded, Apart, Past
<1>11. RunOnce(q) /\ RunBy(q)
  BY <1>4, <1>6 DEF RunOnce, RunBy
<1>12. Autos(q)
  <2>1. q.stack = <<>> /\ q.classes[1].methods["auto"] = None
    BY <1>1, <1>2, <1>6, CodeAssumption DEF Code!Parameters, none
  <2>. QED
    BY <2>1 DEF Autos
<1>13. Request(q)
  BY <1>6, <1>9, <1>10, <1>11, <1>12 DEF Request
<1>. QED
  BY <1>6, <1>13 DEF q
-----------------------------------------------------------------------------
\* The directives, each of them with the class announced before it
LEMMA Reading ==
    ASSUME Request(r), NEW kind, Code!Is(kind)
    PROVE  /\ r.stack # <<>> /\ Code!Top = r.stack[1] /\ Head(r.stack) = r.stack[1] /\ r.stack[1] \in Frames
           /\ r.stack[1].todo # <<>> /\ Code!Directive \in Steps /\ Code!Directive[1] = kind /\ 1 \in 1 .. Len(r.stack)
           /\ Written(r.stack[1]) /\ Located(r.stack[1], r.files, r.used)
           /\ Classed(r.stack[1], Len(r.classes)) /\ Code!Directive = r.stack[1].todo[1] /\ Len(r.stack[1].todo) > 0
<1>. DEFINE f == r.stack[1]
<1>1. r.stack # <<>> /\ Code!Top.todo # <<>> /\ Code!Directive[1] = kind
  BY DEF Code!Is
<1>2. r.stack \in Seq(Frames)
  BY DEF Request, Requests
<1>3. Head(r.stack) = f /\ f \in Frames /\ 1 \in 1 .. Len(r.stack)
  BY <1>1, <1>2, Restacked
<1>4. Code!Top = f /\ f.todo # <<>> /\ f.todo \in Seq(Steps)
  BY <1>1, <1>3 DEF Code!Top, Frames
<1>5. Len(f.todo) > 0 /\ Head(f.todo) = f.todo[1] /\ f.todo[1] \in Steps
  <2>. DEFINE t == f.todo
  <2>1. t \in Seq(Steps) /\ t # <<>>
    BY <1>4
  <2>. HIDE DEF t
  <2>2. Len(t) > 0 /\ Head(t) = t[1] /\ t[1] \in Steps
    BY <2>1, EmptySeq
  <2>. QED
    BY <2>2 DEF t
<1>6. Code!Directive = f.todo[1]
  BY <1>4, <1>5 DEF Code!Directive
<1>7. Written(f) /\ Located(f, r.files, r.used) /\ Classed(f, Len(r.classes))
  BY <1>3 DEF Request, Loaded
<1>. QED
  BY <1>1, <1>3, <1>4, <1>5, <1>6, <1>7

\* @CLASS,
LEMMA ClassKeeps ==
    ASSUME Request(r), Code!directive_CLASS
    PROVE  Request(r') /\ r'.files = r.files
<1>0. Code!Is("CLASS")
  BY DEF Code!directive_CLASS
<1>1. /\ r.stack # <<>> /\ Head(r.stack) = r.stack[1] /\ r.stack[1] \in Frames /\ Code!Top = r.stack[1]
      /\ r.stack[1].todo # <<>> /\ Code!Directive \in Steps /\ Code!Directive[1] = "CLASS"
  BY <1>0, Reading
<1>2. CASE Code!AlreadyDefined
  BY <1>1, <1>2, FailKeeps DEF Code!directive_CLASS
<1>3. CASE ~Code!AlreadyDefined
  <2>. DEFINE q == Code!class_add(r)
              k == Code!NewClass(Code!Directive[2])
              cs == Append(q.classes, k)
              p == [q EXCEPT !.classes = cs]
              f == q.stack[1]
              n == Len(q.classes)
              g == [f EXCEPT !.new = Len(p.classes), !.append = FALSE]
  <2>1. r' = Code!Done(Code!InFile(p, [Head(p.stack) EXCEPT !.new = Len(p.classes), !.append = FALSE]), Code!Directive)
    BY <1>3 DEF Code!directive_CLASS
  <2>2. /\ Request(q) /\ q.stack # <<>> /\ f.file = r.stack[1].file /\ f.todo = r.stack[1].todo
        /\ Head(q.stack) = f /\ q.files = r.files
    BY <1>1, ClassAdded
  <2>3. /\ q \in Requests /\ q.stack \in Seq(Frames) /\ Table(q.classes) /\ n \in Nat /\ n > 0
        /\ f \in Frames /\ 1 \in 1 .. Len(q.stack)
    <3>1. q \in Requests /\ q.stack \in Seq(Frames) /\ Table(q.classes)
      BY <2>2 DEF Request, Requests, Named
    <3>. QED
      BY <2>2, <3>1, Restacked DEF Table
  <2>4. Code!Directive[2] \in Code!Names
    BY <1>1, StepIs DEF Code!Names
  <2>5. /\ Table(cs) /\ Len(cs) = n + 1 /\ cs[1] = q.classes[1] /\ (Whole(q.classes) => Whole(cs))
        /\ cs \in Seq(Class)
    <3>1. /\ Table(cs) /\ Len(cs) = n + 1 /\ (Whole(q.classes) => Whole(cs))
          /\ \A i \in 1 .. n : cs[i] = q.classes[i]
      BY <2>3, <2>4, WholeAdd
    <3>. QED
      BY <2>3, <3>1 DEF Table
  <2>. HIDE DEF cs, q
  <2>6. /\ p \in Requests /\ p.classes = cs /\ p.names = q.names /\ p.stack = q.stack /\ p.used = q.used
        /\ p.ran = q.ran /\ p.files = q.files /\ p.late = q.late /\ p.differs = q.differs
    BY <2>3, <2>5, WithClasses
  <2>. HIDE DEF p
  <2>7. Request(p)
    <3>1. Named(p)
      <4>1. \A m \in Code!Names : q.names[m] \in 0 .. n
        BY <2>2 DEF Request, Named
      <4>. QED
        BY <2>3, <2>5, <2>6, <4>1 DEF Named
    <3>2. MainKept(q, p)
      BY <2>5, <2>6 DEF MainKept
    <3>3. Sound(p)
      BY <2>2, <2>5, <2>6 DEF Request, Sound
    <3>4. Len(q.classes) <= Len(p.classes)
      BY <2>3, <2>5, <2>6
    <3>. QED
      BY <2>2, <2>6, <3>1, <3>2, <3>3, <3>4, Changed
  <2>8. Written(f) /\ Located(f, q.files, q.used) /\ Classed(f, n)
    BY <2>2, <2>3 DEF Request, Loaded
  <2>9. Len(p.classes) = n + 1 /\ n + 1 \in Nat
    BY <2>3, <2>5, <2>6
  <2>10. /\ g \in Frames /\ g.todo = f.todo /\ g.actions = f.actions /\ g.file = f.file /\ g.state = f.state
         /\ g.no = f.no /\ g.cclass = f.cclass /\ g.new = n + 1 /\ g.cclasses = f.cclasses /\ g.saved = f.saved
    BY <2>3, <2>9 DEF Frames
  <2>. HIDE DEF g
  <2>11. Written(g) /\ Located(g, p.files, p.used)
    BY <2>6, <2>8, <2>10 DEF Written, Located
  <2>12. Classed(g, n + 1)
    BY <2>3, <2>8, <2>10 DEF Classed
  <2>13. Unowned(p, n + 1)
    <3>1. \A i \in 1 .. Len(q.stack) : \A c \in Own(q.stack[i]) : c \in 0 .. n
      BY <2>2 DEF Request, Loaded, Classed, Own
    <3>2. \A i \in 1 .. Len(q.ran) : q.ran[i][1] \in 1 .. n
      BY <2>2 DEF Request, Past
    <3>3. n + 1 \notin 0 .. n /\ n + 1 \notin 1 .. n
      BY <2>3
    <3>. QED
      BY <2>6, <3>1, <3>2, <3>3 DEF Unowned
  <2>14. \A c \in Own(g) : c \in Own(f) \/ c = n + 1
    BY <2>10 DEF Own
  <2>15. Reframe(p, g)
    BY <2>6, <2>9, <2>10, <2>11, <2>12, <2>13, <2>14 DEF Reframe
  <2>16. Request(Code!InFile(p, g)) /\ Code!InFile(p, g).stack # <<>> /\ Code!InFile(p, g).stack[1] = g /\ Code!InFile(p, g).files = p.files
    <3>1. p.stack # <<>>
      BY <2>2, <2>6
    <3>. QED
      BY <2>7, <2>15, <3>1, Reframed
  <2>17. Fits(Code!Directive, g.file)
    BY <1>1 DEF Fits
  <2>18. Request(Code!Done(Code!InFile(p, g), Code!Directive)) /\ Code!Done(Code!InFile(p, g), Code!Directive).files = p.files
    BY <1>1, <2>2, <2>10, <2>16, <2>17, DoneKeeps DEF Recordable
  <2>19. r' = Code!Done(Code!InFile(p, g), Code!Directive)
    BY <2>1, <2>2, <2>6 DEF g
  <2>. QED
    BY <2>2, <2>6, <2>18, <2>19
<1>. QED
  BY <1>2, <1>3

\* @USE,
LEMMA UseKeeps ==
    ASSUME Request(r), Code!directive_USE
    PROVE  Request(r') /\ r'.files = r.files
<1>0. Code!Is("USE")
  BY DEF Code!directive_USE
<1>1. /\ r.stack # <<>> /\ r.stack[1].todo # <<>> /\ Code!Directive \in Steps /\ Code!Directive[1] = "USE"
  BY <1>0, Reading
<1>2. CASE Code!AlreadyDefined
  BY <1>1, <1>2, FailKeeps DEF Code!directive_USE
<1>3. CASE ~Code!AlreadyDefined
  <2>1. r' = Code!Loading(Code!Done(Code!class_add(r), Code!Directive), Code!Directive[2], FALSE)
    BY <1>3 DEF Code!directive_USE
  <2>2. /\ Request(Code!class_add(r)) /\ Code!class_add(r).stack # <<>> /\ Code!class_add(r).stack[1].todo # <<>>
        /\ Code!class_add(r).files = r.files
    BY <1>1, ClassAdded
  <2>3. Fits(Code!Directive, Code!class_add(r).stack[1].file)
    BY <1>1 DEF Fits
  <2>4. Request(Code!Done(Code!class_add(r), Code!Directive)) /\ Code!Done(Code!class_add(r), Code!Directive).files = r.files
    BY <2>2, <2>3, DoneKeeps DEF Recordable
  <2>5. Code!Directive[2] \in File /\ FALSE \in BOOLEAN
    BY <1>1, StepIs
  <2>. QED
    BY <2>1, <2>4, <2>5, LoadingKeeps
<1>. QED
  BY <1>2, <1>3

\* @BASE: the class gets it, or what was there is marked as changed out of turn,
LEMMA BaseKeeps ==
    ASSUME Request(r), Code!directive_BASE
    PROVE  Request(r') /\ r'.files = r.files
<1>. DEFINE q == Code!class_add(r)
            c == Head(q.stack).cclass
            base == q.names[Code!Directive[2]]
            unfit == Code!Top.append \/ q.classes[c].base # 0 \/ c = base
            late == q.late \/ q.classes[c].derived # {}
            differs == q.differs \/ unfit
            cs == Code!set_base(q.classes, c, base)
            p == [q EXCEPT !.classes = cs, !.late = late, !.differs = differs]
<1>1. Code!Is("BASE")
  BY DEF Code!directive_BASE
<1>2. /\ r.stack # <<>> /\ r.stack[1].todo # <<>> /\ Code!Directive \in Steps /\ Code!Directive[1] = "BASE"
  BY <1>1, Reading
<1>3. \/ r' = Code!fail(r) \/ r' = Code!fail(q)
      \/ base # 0 /\ (r' = Code!fail(p) \/ r' = Code!Done(p, Code!Directive))
  <2>. DEFINE refused == Code!AlreadyDefined \/ (~Code!Replaying /\ unfit) \/ base = 0
              circular == Code!Circular(q.classes, base, c)
              left == IF Code!Top.append THEN r ELSE q
  <2>1. r' = IF refused THEN Code!fail(left) ELSE IF circular THEN Code!fail(p) ELSE Code!Done(p, Code!Directive)
    BY Zenon DEF Code!directive_BASE
  <2>2. ~refused => base # 0
    BY Zenon
  <2>3. left = r \/ left = q
    BY Zenon
  <2>. HIDE DEF refused, circular, p, q, base, left
  <2>4. CASE refused
    BY <2>1, <2>3, <2>4
  <2>5. CASE ~refused /\ circular
    BY <2>1, <2>2, <2>5
  <2>6. CASE ~refused /\ ~circular
    BY <2>1, <2>2, <2>6
  <2>. QED
    BY <2>4, <2>5, <2>6
<1>4. /\ Request(q) /\ q.stack # <<>> /\ q.stack[1].file = r.stack[1].file
      /\ q.stack[1].todo = r.stack[1].todo /\ Head(q.stack) = q.stack[1] /\ q.files = r.files
  BY <1>2, ClassAdded
<1>5. CASE r' = Code!fail(r) \/ r' = Code!fail(q)
  BY <1>2, <1>4, <1>5, FailKeeps
<1>6. CASE base # 0 /\ (r' = Code!fail(p) \/ r' = Code!Done(p, Code!Directive))
  <2>1. q \in Requests /\ Table(q.classes) /\ 1 \in 1 .. Len(q.stack)
    <3>1. q \in Requests /\ q.stack \in Seq(Frames) /\ Table(q.classes)
      BY <1>4 DEF Request, Requests, Named
    <3>. QED
      BY <1>4, <3>1, Restacked
  <2>2. c \in 1 .. Len(q.classes)
    BY <1>4, <2>1 DEF Request, Loaded, Classed
  <2>3. base \in 1 .. Len(q.classes)
    <3>1. Code!Directive[2] \in Code!Names
      BY <1>2, StepIs DEF Code!Names
    <3>2. base \in 0 .. Len(q.classes)
      BY <1>4, <3>1 DEF Request, Named
    <3>. QED
      BY <1>6, <3>2
  <2>. HIDE DEF q, c, base
  <2>4. /\ BaseIn(q.classes, cs, c, base)
        /\ Whole(q.classes) /\ q.classes[c].base = 0 /\ q.classes[c].derived = {} /\ c # base => Whole(cs)
    BY <2>1, <2>2, <2>3, BaseSet
  <2>. HIDE DEF cs
  <2>5. Table(cs) /\ cs \in Seq(Class) /\ Len(cs) = Len(q.classes) /\ Len(cs) \in Nat /\ 1 \in 1 .. Len(q.classes)
    BY <2>1, <2>4 DEF BaseIn, Table
  <2>6. late \in BOOLEAN /\ differs \in BOOLEAN
    BY Zenon
  <2>7. /\ late => q.late \/ q.classes[c].derived # {}
        /\ ~late => ~q.late /\ q.classes[c].derived = {}
        /\ ~differs => ~q.differs /\ q.classes[c].base = 0 /\ c # base
    OBVIOUS
  <2>. HIDE DEF late, differs
  <2>8. /\ p \in Requests /\ p.classes = cs /\ p.names = q.names /\ p.stack = q.stack /\ p.used = q.used
        /\ p.ran = q.ran /\ p.files = q.files /\ p.late = late /\ p.differs = differs
    <3>1. p = [q EXCEPT !.classes = cs, !.late = late, !.differs = differs]
      OBVIOUS
    <3>. HIDE DEF p
    <3>. QED
      BY <2>1, <2>5, <2>6, <3>1 DEF Requests
  <2>. HIDE DEF p
  <2>9. Named(p)
    BY <1>4, <2>5, <2>8 DEF Request, Named
  <2>10. MainKept(q, p)
    <3>1. \/ cs[1].base = q.classes[1].base /\ cs[1].methods = q.classes[1].methods
          \/ cs[1].base = base /\ base # 0
      BY <2>3, <2>4, <2>5 DEF BaseIn
    <3>. QED
      BY <2>8, <3>1 DEF MainKept
  <2>11. Sound(p)
    <3>1. CASE late \/ differs
      BY <2>8, <3>1 DEF Sound
    <3>2. CASE ~late /\ ~differs
      <4>1. Whole(q.classes)
        BY <1>4, <2>7, <3>2 DEF Request, Sound
      <4>. QED
        BY <2>4, <2>7, <2>8, <3>2, <4>1 DEF Sound
    <3>. QED
      BY <3>1, <3>2
  <2>12. Request(p)
    <3>1. Len(q.classes) <= Len(p.classes)
      BY <2>5, <2>8
    <3>. QED
      BY <1>4, <2>8, <2>9, <2>10, <2>11, <3>1, Changed
  <2>13. Fits(Code!Directive, p.stack[1].file)
    BY <1>2 DEF Fits
  <2>14. p.stack # <<>> /\ p.stack[1].todo # <<>> /\ p.files = r.files
    BY <1>2, <1>4, <2>8
  <2>15. Request(Code!Done(p, Code!Directive)) /\ Code!Done(p, Code!Directive).files = r.files
    BY <2>12, <2>13, <2>14, DoneKeeps DEF Recordable
  <2>16. Request(Code!fail(p)) /\ Code!fail(p).files = r.files
    BY <2>12, <2>14, FailKeeps
  <2>. QED
    BY <1>6, <2>15, <2>16
<1>. QED
  BY <1>3, <1>5, <1>6

\* Options of a class change neither its methods nor its base.
LEMMA Marked ==
    ASSUME NEW q, Request(q), NEW i \in 1 .. Len(q.classes), NEW p,
           p = [q EXCEPT !.classes[i].partial = TRUE] \/ p = [q EXCEPT !.classes[i].locals = TRUE]
    PROVE  Request(p) /\ p.stack = q.stack /\ p.files = q.files
<1>. DEFINE k == IF p = [q EXCEPT !.classes[i].partial = TRUE] THEN [q.classes[i] EXCEPT !.partial = TRUE]
                                                              ELSE [q.classes[i] EXCEPT !.locals = TRUE]
            cs == [q.classes EXCEPT ![i] = k]
<1>1. q \in Requests /\ Table(q.classes) /\ q.classes \in Seq(Class) /\ q.classes[i] \in Class
  BY DEF Request, Requests, Named, Table
<1>2. /\ k \in Class /\ k.base = q.classes[i].base /\ k.derived = q.classes[i].derived
      /\ k.methods = q.classes[i].methods /\ k.own = q.classes[i].own
  BY <1>1 DEF Class
<1>3. p = [q EXCEPT !.classes = cs]
  BY <1>1
<1>. HIDE DEF k
<1>4. /\ cs \in Seq(Class) /\ Len(cs) = Len(q.classes)
      /\ \A j \in 1 .. Len(q.classes) : cs[j] = IF j = i THEN k ELSE q.classes[j]
  BY <1>1, <1>2
<1>. HIDE DEF cs
<1>5. \A j \in 1 .. Len(q.classes) :
         /\ cs[j].base = q.classes[j].base /\ cs[j].derived = q.classes[j].derived
         /\ cs[j].methods = q.classes[j].methods /\ cs[j].own = q.classes[j].own
  <2>1. ASSUME NEW j \in 1 .. Len(q.classes)
        PROVE  /\ cs[j].base = q.classes[j].base /\ cs[j].derived = q.classes[j].derived
               /\ cs[j].methods = q.classes[j].methods /\ cs[j].own = q.classes[j].own
    <3>1. CASE j = i
      BY <1>2, <1>4, <3>1
    <3>2. CASE j # i
      BY <1>4, <3>2
    <3>. QED
      BY <3>1, <3>2
  <2>. QED
    BY <2>1
<1>6. Table(cs) /\ (Whole(q.classes) => Whole(cs))
  BY <1>1, <1>4, <1>5, WholeSame
<1>7. /\ p \in Requests /\ p.classes = cs /\ p.names = q.names /\ p.stack = q.stack /\ p.used = q.used
      /\ p.ran = q.ran /\ p.files = q.files /\ p.late = q.late /\ p.differs = q.differs
  BY <1>1, <1>3, <1>4, WithClasses
<1>8. 1 \in 1 .. Len(q.classes) /\ Len(q.classes) <= Len(p.classes)
  BY <1>1, <1>4, <1>7 DEF Table
<1>9. Named(p) /\ MainKept(q, p)
  BY <1>4, <1>5, <1>6, <1>7, <1>8 DEF Request, Named, MainKept
<1>10. Sound(p)
  BY <1>6, <1>7 DEF Request, Sound
<1>. QED
  BY <1>7, <1>8, <1>9, <1>10, Changed

\* @OPTIONS locals,
LEMMA LocalsKeeps ==
    ASSUME Request(r), Code!directive_LOCALS
    PROVE  Request(r') /\ r'.files = r.files
<1>. DEFINE i == IF Code!Top.new # 0 THEN Code!Top.new ELSE Code!Top.cclass
            p == [r EXCEPT !.classes[i].locals = TRUE]
<1>0. Code!Is("LOCALS")
  BY DEF Code!directive_LOCALS
<1>1. /\ r.stack # <<>> /\ r.stack[1].todo # <<>> /\ Code!Directive \in Steps /\ Code!Directive[1] = "LOCALS"
      /\ Code!Top = r.stack[1] /\ Classed(r.stack[1], Len(r.classes))
  BY <1>0, Reading
<1>2. r' = Code!Done(p, Code!Directive)
  BY DEF Code!directive_LOCALS
<1>3. i \in 1 .. Len(r.classes)
  BY <1>1 DEF Classed
<1>4. Request(p) /\ p.stack = r.stack /\ p.files = r.files
  BY <1>3, Marked
<1>. HIDE DEF p
<1>5. Fits(Code!Directive, p.stack[1].file)
  BY <1>1 DEF Fits
<1>6. p.stack # <<>> /\ p.stack[1].todo # <<>>
  BY <1>1, <1>4
<1>7. Request(Code!Done(p, Code!Directive)) /\ Code!Done(p, Code!Directive).files = p.files
  BY <1>4, <1>5, <1>6, DoneKeeps DEF Recordable
<1>. QED
  BY <1>2, <1>4, <1>7

\* A record that is found to be of other classes is marked.
LEMMA Flagged ==
    ASSUME NEW q, Request(q), NEW d \in BOOLEAN, q.differs => d, NEW p, p = [q EXCEPT !.differs = d]
    PROVE  Request(p) /\ p.stack = q.stack /\ p.files = q.files /\ p.classes = q.classes /\ p.used = q.used
<1>1. q \in Requests /\ Len(q.classes) \in Nat
  BY DEF Request, Requests
<1>2. /\ p \in Requests /\ p.classes = q.classes /\ p.names = q.names /\ p.stack = q.stack /\ p.used = q.used
      /\ p.ran = q.ran /\ p.files = q.files /\ p.late = q.late /\ p.differs = d
  BY <1>1 DEF Requests
<1>3. Named(p) /\ MainKept(q, p) /\ Len(q.classes) <= Len(p.classes)
  BY <1>1, <1>2 DEF Request, Named, MainKept
<1>4. Sound(p)
  BY <1>2 DEF Request, Sound
<1>. QED
  BY <1>2, <1>3, <1>4, Changed

\* @OPTIONS partial,
LEMMA PartialKeeps ==
    ASSUME Request(r), Code!directive_PARTIAL
    PROVE  Request(r') /\ r'.files = r.files
<1>. DEFINE old == IF Code!Top.new = 0 THEN 0 ELSE r.names[r.classes[Code!Top.new].name]
            over == <<"PARTIAL", IF old = 0 THEN "new" ELSE IF r.classes[old].locals THEN "locals" ELSE "old">>
            d == r.differs \/ (Code!Replaying /\ Code!Directive # over)
            q == [r EXCEPT !.differs = d]
            p == [q EXCEPT !.classes[Code!Top.new].partial = TRUE]
            g == [Code!Top EXCEPT !.cclass = old, !.new = 0, !.append = TRUE]
            f == r.stack[1]
<1>1. Code!Is("PARTIAL")
  BY DEF Code!directive_PARTIAL
<1>2. /\ r.stack # <<>> /\ f.todo # <<>> /\ Code!Top = f /\ f \in Frames /\ Written(f) /\ Located(f, r.files, r.used)
      /\ Classed(f, Len(r.classes))
  BY <1>1, Reading
<1>3. r' = IF Code!Top.new = 0 THEN Code!fail(q) ELSE IF old = 0 THEN Code!Done(p, over)
           ELSE IF ~r.classes[old].partial THEN Code!fail(q) ELSE Code!Done(Code!InFile(q, g), over)
  BY Zenon DEF Code!directive_PARTIAL
<1>4. over \in Steps /\ over[1] = "PARTIAL"
  <2>. DEFINE as == IF old = 0 THEN "new" ELSE IF r.classes[old].locals THEN "locals" ELSE "old"
  <2>1. as \in {"new", "locals", "old"}
    BY Zenon
  <2>2. over = <<"PARTIAL", as>>
    OBVIOUS
  <2>. HIDE DEF as, over
  <2>. QED
    BY <2>1, <2>2 DEF Steps
<1>5. d \in BOOLEAN /\ (r.differs => d)
  BY Zenon
<1>6. /\ Code!Top.new \in Nat /\ (Code!Top.new # 0 => Code!Top.new \in 1 .. Len(r.classes))
      /\ Code!Top.new # 0 /\ old # 0 => old \in 1 .. Len(r.classes)
  <2>1. Code!Top.new \in Nat /\ (Code!Top.new # 0 => Code!Top.new \in 1 .. Len(r.classes))
    BY <1>2 DEF Classed
  <2>2. ASSUME Code!Top.new # 0, old # 0 PROVE old \in 1 .. Len(r.classes)
    <3>1. r.classes[Code!Top.new] \in Class
      BY <2>1, <2>2 DEF Request, Named, Table
    <3>2. r.classes[Code!Top.new].name \in Code!Names
      BY <3>1 DEF Class
    <3>. QED
      BY <2>2, <3>2 DEF Request, Named
  <2>. QED
    BY <2>1, <2>2
<1>. HIDE DEF d, over, old
<1>7. Request(q) /\ q.stack = r.stack /\ q.files = r.files /\ q.classes = r.classes /\ q.used = r.used
  BY <1>5, Flagged
<1>. HIDE DEF q
<1>8. Request(Code!fail(q)) /\ Code!fail(q).files = r.files
  BY <1>2, <1>7, FailKeeps
<1>9. Fits(over, f.file)
  BY <1>4 DEF Fits
<1>10. CASE Code!Top.new = 0
  BY <1>3, <1>8, <1>10
<1>11. CASE Code!Top.new # 0 /\ old = 0
  <2>1. Request(p) /\ p.stack = q.stack /\ p.files = q.files
    BY <1>6, <1>7, <1>11, Marked
  <2>. HIDE DEF p
  <2>2. Request(Code!Done(p, over)) /\ Code!Done(p, over).files = p.files
    BY <1>2, <1>7, <1>9, <2>1, DoneKeeps DEF Recordable
  <2>. QED
    BY <1>3, <1>7, <1>11, <2>1, <2>2
<1>12. CASE Code!Top.new # 0 /\ old # 0
  <2>1. old \in 1 .. Len(r.classes)
    BY <1>6, <1>12
  <2>2. /\ g \in Frames /\ g.todo = f.todo /\ g.actions = f.actions /\ g.file = f.file /\ g.state = f.state
        /\ g.no = f.no /\ g.cclass = old /\ g.new = 0 /\ g.cclasses = f.cclasses /\ g.saved = f.saved
    <3>1. g = [f EXCEPT !.cclass = old, !.new = 0, !.append = TRUE] /\ f \in Frames
      BY <1>2
    <3>2. old \in Nat
      BY <2>1
    <3>. HIDE DEF f, g
    <3>. QED
      BY <3>1, <3>2 DEF Frames
  <2>. HIDE DEF g
  <2>3. Written(g) /\ Located(g, q.files, q.used)
    BY <1>2, <1>7, <2>2 DEF Written, Located
  <2>4. Classed(g, Len(q.classes))
    BY <1>2, <1>7, <2>1, <2>2 DEF Classed
  <2>5. \A c \in Own(g) : c = 0 \/ c \in Own(f)
    BY <2>2 DEF Own
  <2>6. Reframe(q, g)
    BY <1>7, <2>2, <2>3, <2>4, <2>5 DEF Reframe
  <2>7. Request(Code!InFile(q, g)) /\ Code!InFile(q, g).stack # <<>> /\ Code!InFile(q, g).stack[1] = g /\ Code!InFile(q, g).files = q.files
    BY <1>2, <1>7, <2>6, Reframed
  <2>8. Request(Code!Done(Code!InFile(q, g), over)) /\ Code!Done(Code!InFile(q, g), over).files = q.files
    BY <1>2, <1>9, <2>2, <2>7, DoneKeeps DEF Recordable
  <2>. QED
    BY <1>3, <1>7, <1>8, <1>12, <2>8
<1>. QED
  BY <1>10, <1>11, <1>12

Disks == disk \in [File -> [text : Seq(Code!Directives), stamp : Nat]]

\* A method is of the file in which it is defined, compiled now or before.
LEMMA MethodMade ==
    ASSUME Request(r), Disks, Code!Is("METHOD"), NEW q, Request(q), q.stack # <<>>
    PROVE  (IF Code!Replaying THEN Code!Directive[3] ELSE Code!compiled(q)) \in Made(r.stack[1].file)
<1>. DEFINE f == r.stack[1]
<1>1. /\ r.stack # <<>> /\ f.todo # <<>> /\ Code!Top = f /\ f \in Frames /\ Written(f)
      /\ Code!Directive = f.todo[1] /\ Code!Directive[1] = "METHOD" /\ Len(f.todo) > 0
  BY Reading
<1>2. f.file \in File /\ f.todo \in Seq(Steps)
  BY <1>1 DEF Frames
<1>3. 1 \in 1 .. Len(f.todo) /\ Len(f.todo) \in Nat
  BY <1>1, <1>2
<1>4. CASE Code!Replaying
  <2>1. Record(f.todo, f.file)
    BY <1>1, <1>4 DEF Code!Replaying, Written, Readable
  <2>2. Code!Directive[3] \in Made(f.file)
    BY <1>1, <1>3, <2>1 DEF Record
  <2>. QED
    BY <1>4, <2>2
<1>5. CASE ~Code!Replaying
  <2>1. Plain(f.todo)
    BY <1>1, <1>5 DEF Code!Replaying, Written, Readable
  <2>2. Code!Directive[3] \in Nat
    BY <1>1, <1>3, <2>1 DEF Plain
  <2>3. disk[f.file].stamp \in Nat
    BY <1>2 DEF Disks
  <2>. DEFINE c == Head(q.stack).cclass
  <2>4. q.classes[c].locals \in BOOLEAN
    <3>1. q.stack \in Seq(Frames) /\ Table(q.classes)
      BY DEF Request, Requests, Named
    <3>2. Head(q.stack) = q.stack[1] /\ 1 \in 1 .. Len(q.stack)
      BY <3>1, Restacked
    <3>3. c \in 1 .. Len(q.classes)
      BY <3>2 DEF Request, Loaded, Classed
    <3>4. q.classes[c] \in Class
      BY <3>1, <3>3 DEF Table
    <3>. QED
      BY <3>4 DEF Class
  <2>5. Code!compiled(q) = [file |-> f.file, at |-> Len(f.todo), stamp |-> disk[f.file].stamp,
                       params |-> Code!Directive[3], locals |-> q.classes[c].locals]
    BY <1>1 DEF Code!compiled
  <2>6. Code!compiled(q) \in Made(f.file)
    BY <1>3, <2>2, <2>3, <2>4, <2>5 DEF Made
  <2>. QED
    BY <1>5, <2>6
<1>. QED
  BY <1>4, <1>5

\* and a method.
LEMMA MethodKeeps ==
    ASSUME Request(r), Disks, Code!directive_METHOD
    PROVE  Request(r') /\ r'.files = r.files
<1>. DEFINE q == Code!class_add(r)
            c == Head(q.stack).cclass
            name == Code!Directive[2]
            method == IF Code!Replaying THEN Code!Directive[3] ELSE Code!compiled(q)
            cs == Code!set_method(q.classes, c, name, method)
            p == [q EXCEPT !.classes = cs]
            d == <<"METHOD", name, method>>
            f == q.stack[1]
<1>1. Code!Is("METHOD")
  BY DEF Code!directive_METHOD
<1>2. /\ r.stack # <<>> /\ r.stack[1].todo # <<>> /\ Code!Directive \in Steps /\ Code!Directive[1] = "METHOD"
      /\ r.stack[1] \in Frames
  BY <1>1, Reading
<1>3. r' = IF Code!AlreadyDefined THEN Code!fail(r) ELSE Code!Done(p, d)
  <2>1. r' = IF Code!AlreadyDefined THEN Code!fail(r)
             ELSE Code!Done([q EXCEPT !.classes = Code!set_method(@, Head(q.stack).cclass, Code!Directive[2], method)],
                       <<"METHOD", Code!Directive[2], method>>)
    BY Zenon DEF Code!directive_METHOD
  <2>2. [q EXCEPT !.classes = Code!set_method(@, Head(q.stack).cclass, Code!Directive[2], method)] = p
    OBVIOUS
  <2>. QED
    BY <2>1, <2>2
<1>4. CASE Code!AlreadyDefined
  BY <1>2, <1>3, <1>4, FailKeeps
<1>5. CASE ~Code!AlreadyDefined
  <2>1. /\ Request(q) /\ q.stack # <<>> /\ f.file = r.stack[1].file
        /\ f.todo = r.stack[1].todo /\ Head(q.stack) = f /\ q.files = r.files
    BY <1>2, ClassAdded
  <2>2. method \in Made(f.file)
    <3>1. (IF Code!Replaying THEN Code!Directive[3] ELSE Code!compiled(q)) \in Made(r.stack[1].file)
      BY <1>1, <2>1, MethodMade
    <3>. QED
      BY <2>1, <3>1
  <2>3. name \in MethodName
    BY <1>2, StepIs
  <2>. HIDE DEF q, method
  <2>4. q \in Requests /\ Table(q.classes) /\ 1 \in 1 .. Len(q.stack) /\ f \in Frames /\ f.file \in File
    <3>1. q \in Requests /\ q.stack \in Seq(Frames) /\ Table(q.classes)
      BY <2>1 DEF Request, Requests, Named
    <3>2. 1 \in 1 .. Len(q.stack) /\ f \in Frames
      BY <2>1, <3>1, Restacked
    <3>. QED
      BY <3>1, <3>2 DEF Frames
  <2>5. c \in 1 .. Len(q.classes)
    BY <2>1, <2>4 DEF Request, Loaded, Classed
  <2>6. method \in Methods /\ method.file = f.file
    BY <2>2, <2>4 DEF Made, Methods
  <2>. HIDE DEF c, name, f
  <2>7. SetIn(q.classes, cs, c, name, method)
    BY <2>3, <2>4, <2>5, <2>6, MethodSet
  <2>. HIDE DEF cs
  <2>8. Table(cs) /\ (Whole(q.classes) => Whole(cs))
    BY <2>3, <2>4, <2>5, <2>7, WholeMethod
  <2>9. /\ cs \in Seq(Class) /\ Len(cs) = Len(q.classes) /\ Len(cs) \in Nat /\ 1 \in 1 .. Len(q.classes)
    BY <2>4, <2>7, <2>8 DEF SetIn, Table
  <2>10. /\ cs[1].base = q.classes[1].base
         /\ cs[1].methods["auto"] = method \/ cs[1].methods["auto"] = q.classes[1].methods["auto"]
    <3>1. "auto" \in MethodName
      BY CodeAssumption DEF Code!Parameters
    <3>. QED
      BY <2>7, <2>9, <3>1 DEF SetIn
  <2>11. /\ p \in Requests /\ p.classes = cs /\ p.names = q.names /\ p.stack = q.stack /\ p.used = q.used
         /\ p.ran = q.ran /\ p.files = q.files /\ p.late = q.late /\ p.differs = q.differs
    BY <2>4, <2>9, WithClasses
  <2>. HIDE DEF p
  <2>12. Named(p)
    BY <2>1, <2>8, <2>9, <2>11 DEF Request, Named
  <2>13. MainKept(q, p)
    <3>1. By(method, q.stack[1].file)
      BY <2>6 DEF By, f
    <3>. QED
      BY <2>1, <2>10, <2>11, <3>1 DEF MainKept
  <2>14. Sound(p)
    BY <2>1, <2>8, <2>11 DEF Request, Sound
  <2>15. Request(p)
    <3>1. Len(q.classes) <= Len(p.classes)
      BY <2>9, <2>11
    <3>. QED
      BY <2>1, <2>11, <2>12, <2>13, <2>14, <3>1, Changed
  <2>16. Fits(d, p.stack[1].file)
    <3>1. d \in Steps
      BY <2>3, <2>6 DEF Steps
    <3>2. d[3] \in Made(p.stack[1].file)
      BY <2>2, <2>11 DEF f
    <3>. QED
      BY <3>1, <3>2 DEF Fits
  <2>17. p.stack # <<>> /\ p.stack[1].todo # <<>>
    BY <1>2, <2>1, <2>11 DEF f
  <2>. HIDE DEF d
  <2>18. Request(Code!Done(p, d)) /\ Code!Done(p, d).files = p.files
    BY <2>15, <2>16, <2>17, DoneKeeps DEF Recordable
  <2>. QED
    BY <1>3, <1>5, <2>1, <2>11, <2>18
<1>. QED
  BY <1>4, <1>5

\* A file is done.
LEMMA CompiledKeeps ==
    ASSUME Request(r), Code!compiledFile
    PROVE  Request(r') /\ r'.files = r.files
<1>. DEFINE f == r.stack[1]
            p == [r EXCEPT !.ran = r.ran \o Run(r)]
<1>1. r.stack # <<>> /\ Code!Top.state \in {"compile", "replay"}
  BY DEF Code!compiledFile
<1>2. r \in Requests /\ r.stack \in Seq(Frames)
  BY DEF Request, Requests
<1>3. Code!Top = f /\ f \in Frames /\ 1 \in 1 .. Len(r.stack)
  BY <1>1, <1>2, Restacked DEF Code!Top
<1>4. Located(f, r.files, r.used)
  BY <1>3 DEF Request, Loaded
<1>5. r.files[f.no] = f.file
  BY <1>1, <1>3, <1>4 DEF Located
<1>6. r' = Code!leave([r EXCEPT !.ran = r.ran \o [i \in DOMAIN Code!Top.cclasses |->
                        <<Code!Top.cclasses[i], r.classes[Code!Top.cclasses[i]].methods["auto"], r.files[Code!Top.no]>>]])
  BY Zenon DEF Code!compiledFile
<1>7. Run(r) = [i \in DOMAIN Code!Top.cclasses |->
                   <<Code!Top.cclasses[i], r.classes[Code!Top.cclasses[i]].methods["auto"], r.files[Code!Top.no]>>]
  BY <1>3, <1>5 DEF Run
<1>8. r' = Code!leave(p)
  BY <1>6, <1>7
<1>9. Request(Code!leave(p)) /\ Code!leave(p).files = r.files
  BY <1>1, LeaveKeeps
<1>. QED
  BY <1>8, <1>9

\* The page goes on to the next file it uses.
LEMMA PageKeeps ==
    ASSUME Request(r), Code!pageUses
    PROVE  Request(r') /\ r'.files = r.files
<1>. DEFINE rest == Tail(r.uses)
            p == [r EXCEPT !.uses = rest]
            next == Head(r.uses)
<1>1. r \in Requests /\ r.uses \in Seq(Uses) /\ r.uses # <<>> /\ Len(r.classes) \in Nat
  BY DEF Request, Requests, Code!pageUses
<1>2. rest \in Seq(Uses) /\ next \in Uses
  <2>. DEFINE u == r.uses
  <2>1. u \in Seq(Uses) /\ u # <<>>
    BY <1>1
  <2>. HIDE DEF u
  <2>2. Tail(u) \in Seq(Uses) /\ Head(u) \in Uses
    BY <2>1
  <2>. QED
    BY <2>2 DEF u
<1>3. r' = Code!Loading(p, next.file, next.replace)
  BY DEF Code!pageUses
<1>. HIDE DEF rest, next
<1>4. /\ p \in Requests /\ p.classes = r.classes /\ p.names = r.names /\ p.stack = r.stack /\ p.used = r.used
      /\ p.ran = r.ran /\ p.files = r.files /\ p.late = r.late /\ p.differs = r.differs
  BY <1>1, <1>2 DEF Requests
<1>. HIDE DEF p
<1>5. Named(p) /\ MainKept(r, p) /\ Len(r.classes) <= Len(p.classes)
  BY <1>1, <1>4 DEF Request, Named, MainKept
<1>6. Sound(p)
  BY <1>4 DEF Request, Sound
<1>7. Request(p)
  BY <1>4, <1>5, <1>6, Changed
<1>8. next.file \in File /\ next.replace \in BOOLEAN
  BY <1>2 DEF Uses
<1>. QED
  BY <1>3, <1>4, <1>7, <1>8, LoadingKeeps

\* A record is of its file, and of the number of it among the files known.
Records == [actions : Seq(Steps), stamp : Nat, no : Nat]
Stored(f, k, files) ==
    k # None => k \in Records /\ Record(k.actions, f) /\ k.no \in 1 .. Len(files) /\ files[k.no] = f
Prefix(a, b) == Len(a) <= Len(b) /\ \A i \in 1 .. Len(a) : b[i] = a[i]
KnownFiles == IF recording THEN r.files ELSE cache_files
Recorded == \A f \in File : Stored(f, code_cache[f], KnownFiles)
Shown == recording \/ Code!Ended \/ Prefix(cache_files, r.files)
System ==
    /\ Disks /\ edits \in Nat /\ plan \in Seq(Uses) /\ cache_files \in Seq(File)
    /\ recording \in BOOLEAN /\ DOMAIN code_cache = File /\ Recorded /\ Shown /\ Request(r)

\* It stays so when more files are known.
LEMMA StoredMore ==
    ASSUME NEW f, NEW k, NEW a \in Seq(File), NEW b \in Seq(File), Stored(f, k, a), Prefix(a, b)
    PROVE  Stored(f, k, b)
<1>1. Len(a) \in Nat /\ Len(b) \in Nat
  OBVIOUS
<1>. QED
  BY <1>1 DEF Stored, Prefix

\* The size and the time of the file are asked for, or its record is taken,
LEMMA StatKeeps ==
    ASSUME System, Code!stat
    PROVE  Request(r') /\ r'.files = r.files
<1>. DEFINE f == r.stack[1]
            k == code_cache[f.file]
            replayed == [f EXCEPT !.state = "replay", !.no = k.no, !.todo = k.actions]
            asked == [f EXCEPT !.state = "read", !.stamp = disk[f.file].stamp]
<1>1. r.stack # <<>> /\ Code!Top.state = "stat"
  BY DEF Code!stat
<1>2. Request(r) /\ r \in Requests /\ r.stack \in Seq(Frames) /\ r.files \in Seq(File)
  BY DEF System, Request, Requests
<1>3. Code!Top = f /\ f \in Frames /\ 1 \in 1 .. Len(r.stack)
  BY <1>1, <1>2, Restacked DEF Code!Top
<1>4. Written(f) /\ Located(f, r.files, r.used) /\ Classed(f, Len(r.classes)) /\ f.file \in File /\ f.state = "stat"
  BY <1>1, <1>2, <1>3 DEF Request, Loaded, Frames
<1>5. r' = Code!InFile(r, IF Code!get(f.file) THEN replayed ELSE asked)
  BY <1>3 DEF Code!stat
<1>6. CASE Code!get(f.file)
  <2>1. k # None /\ ~recording
    BY <1>6 DEF Code!get, Code!unchanged
  <2>2. Stored(f.file, k, r.files)
    <3>1. Stored(f.file, k, cache_files) /\ Prefix(cache_files, r.files) /\ cache_files \in Seq(File)
      BY <1>1, <1>4, <2>1 DEF System, Recorded, KnownFiles, Shown, Code!Ended
    <3>. QED
      BY <1>2, <3>1, StoredMore
  <2>3. k \in Records /\ Record(k.actions, f.file) /\ k.no \in 1 .. Len(r.files) /\ r.files[k.no] = f.file
    BY <2>1, <2>2 DEF Stored
  <2>4. /\ replayed \in Frames /\ replayed.todo = k.actions /\ replayed.actions = f.actions /\ replayed.file = f.file
        /\ replayed.state = "replay" /\ replayed.no = k.no /\ replayed.cclass = f.cclass /\ replayed.new = f.new
        /\ replayed.cclasses = f.cclasses /\ replayed.saved = f.saved
    <3>1. f \in Frames /\ k \in Records
      BY <1>3, <2>3
    <3>. HIDE DEF f, k
    <3>. QED
      BY <3>1 DEF Frames, Records
  <2>. DEFINE g == replayed
  <2>. HIDE DEF replayed
  <2>5. Written(g)
    BY <1>4, <2>3, <2>4 DEF Written, Readable
  <2>6. Located(g, r.files, r.used)
    BY <1>4, <2>3, <2>4 DEF Located
  <2>7. Classed(g, Len(r.classes)) /\ \A c \in Own(g) : c \in Own(f)
    BY <1>4, <2>4 DEF Classed, Own
  <2>8. Reframe(r, g)
    BY <2>4, <2>5, <2>6, <2>7 DEF Reframe
  <2>. QED
    BY <1>1, <1>2, <1>5, <1>6, <2>8, Reframed
<1>7. CASE ~Code!get(f.file)
  <2>1. /\ asked \in Frames /\ asked.todo = f.todo /\ asked.actions = f.actions /\ asked.file = f.file
        /\ asked.state = "read" /\ asked.no = f.no /\ asked.cclass = f.cclass /\ asked.new = f.new
        /\ asked.cclasses = f.cclasses /\ asked.saved = f.saved
    <3>1. f \in Frames /\ disk[f.file].stamp \in Nat
      BY <1>3, <1>4 DEF System, Disks
    <3>. HIDE DEF f
    <3>. QED
      BY <3>1 DEF Frames
  <2>. DEFINE g == asked
  <2>. HIDE DEF asked
  <2>2. Written(g) /\ Located(g, r.files, r.used)
    BY <1>4, <2>1 DEF Written, Readable, Located
  <2>3. Classed(g, Len(r.classes)) /\ \A c \in Own(g) : c \in Own(f)
    BY <1>4, <2>1 DEF Classed, Own
  <2>4. Reframe(r, g)
    BY <2>1, <2>2, <2>3 DEF Reframe
  <2>. QED
    BY <1>1, <1>2, <1>5, <1>7, <2>4, Reframed
<1>. QED
  BY <1>6, <1>7

\* and it is read.
LEMMA ReadKeeps ==
    ASSUME System, Code!read
    PROVE  Request(r') /\ Prefix(r.files, r'.files) /\ r'.files \in Seq(File)
<1>. DEFINE f == r.stack[1]
            q == [r EXCEPT !.files = Append(r.files, f.file)]
            n == Len(r.files) + 1
            text == disk[f.file].text
            g == [f EXCEPT !.state = "compile", !.no = n, !.todo = text]
<1>1. r.stack # <<>> /\ Code!Top.state = "read"
  BY DEF Code!read
<1>2. Request(r) /\ r \in Requests /\ r.stack \in Seq(Frames) /\ r.files \in Seq(File)
  BY DEF System, Request, Requests
<1>3. Code!Top = f /\ Head(r.stack) = f /\ f \in Frames /\ 1 \in 1 .. Len(r.stack)
  BY <1>1, <1>2, Restacked DEF Code!Top
<1>4. Written(f) /\ Located(f, r.files, r.used) /\ Classed(f, Len(r.classes)) /\ f.file \in File
  BY <1>1, <1>2, <1>3 DEF Request, Loaded, Frames
<1>5. Code!register_file(r) = q
  BY <1>2, <1>3 DEF Code!register_file
<1>6. r' = Code!InFile(q, g)
  BY <1>3, <1>5 DEF Code!read
<1>7. text \in Seq(Code!Directives)
  BY <1>4 DEF System, Disks
<1>8. Plain(text)
  BY <1>7, PlainText
<1>9. /\ Request(q) /\ q.files = Append(r.files, f.file) /\ q.stack = r.stack /\ q.used = r.used /\ q.classes = r.classes
      /\ q.files \in Seq(File) /\ n \in Nat /\ Len(q.files) = n /\ q.files[n] = f.file
      /\ \A i \in 1 .. Len(r.files) : q.files[i] = r.files[i]
  <2>1. n \in Nat
    BY <1>2
  <2>. QED
    BY <1>2, <1>4, <2>1, FilesMore
<1>. HIDE DEF q
<1>10. /\ g \in Frames /\ g.todo = text /\ g.actions = f.actions /\ g.file = f.file
       /\ g.state = "compile" /\ g.no = n /\ g.cclass = f.cclass /\ g.new = f.new
       /\ g.cclasses = f.cclasses /\ g.saved = f.saved
  <2>1. text \in Seq(Steps)
    BY <1>8 DEF Plain
  <2>2. f \in Frames /\ n \in Nat
    BY <1>3, <1>9
  <2>. HIDE DEF f, n, text
  <2>. QED
    BY <2>1, <2>2 DEF Frames
<1>. HIDE DEF g
<1>11. Written(g)
  BY <1>4, <1>8, <1>10 DEF Written, Readable
<1>12. Located(g, q.files, q.used)
  <2>1. n \in 1 .. n
    BY <1>2
  <2>. QED
    BY <1>4, <1>9, <1>10, <2>1 DEF Located
<1>13. Classed(g, Len(q.classes)) /\ Own(g) = Own(f)
  <2>1. Classed(g, Len(r.classes))
    BY <1>4, <1>10 DEF Classed
  <2>. QED
    BY <1>9, <1>10, <2>1 DEF Own
<1>14. Reframe(q, g)
  BY <1>9, <1>10, <1>11, <1>12, <1>13 DEF Reframe
<1>15. Request(Code!InFile(q, g)) /\ Code!InFile(q, g).files = q.files
  BY <1>1, <1>9, <1>14, Reframed
<1>16. Prefix(r.files, q.files)
  BY <1>2, <1>9 DEF Prefix
<1>. QED
  BY <1>6, <1>9, <1>15, <1>16

\* The cache is of the same files after every step.
LEMMA SystemStays ==
    ASSUME System, ~Code!Ended, Code!Kept, Request(r'), r'.files = r.files
    PROVE  System'
<1>1. disk' = disk /\ code_cache' = code_cache /\ cache_files' = cache_files /\ recording' = recording /\ plan' = plan /\ edits' = edits
  BY DEF Code!Kept
<1>2. KnownFiles' = KnownFiles
  BY <1>1 DEF KnownFiles
<1>3. Recorded'
  BY <1>1, <1>2 DEF System, Recorded
<1>4. Shown'
  BY <1>1 DEF System, Shown
<1>5. Disks'
  BY <1>1 DEF System, Disks
<1>. QED
  BY <1>1, <1>3, <1>4, <1>5 DEF System

\* A request begins with the files of the cache.
LEMMA SystemBegins ==
    ASSUME System, ~recording, disk' = disk, code_cache' = code_cache, cache_files' = cache_files, recording' = recording,
           edits' = edits, plan' \in Seq(Uses), r' = Code!NewRequest(plan', cache_files)
    PROVE  System'
<1>1. cache_files \in Seq(File)
  BY DEF System
<1>2. Request(r') /\ r'.files = cache_files
  BY <1>1, Begins
<1>3. KnownFiles' = KnownFiles
  BY DEF KnownFiles
<1>4. Recorded' /\ Disks'
  BY <1>3 DEF System, Recorded, Disks
<1>5. Shown'
  BY <1>1, <1>2 DEF Shown, Prefix
<1>. QED
  BY <1>2, <1>4, <1>5 DEF System

\* All that is kept from step to step, whatever happens.
LEMMA SystemInit == Code!Init => System
<1>. SUFFICES ASSUME Code!Init PROVE System
  OBVIOUS
<1>1. Disks
  <2>1. \A f \in File : disk[f].text \in Seq(Code!Directives)
    BY CodeAssumption DEF Code!Init, Code!Parameters
  <2>2. PICK t \in [File -> UNION {Text[f] : f \in File}] : disk = [f \in File |-> [text |-> t[f], stamp |-> 0]]
    BY DEF Code!Init
  <2>. QED
    BY <2>1, <2>2 DEF Disks
<1>2. plan \in Seq(Uses)
  BY CodeAssumption DEF Code!Init, Code!Parameters, Uses
<1>3. <<>> \in Seq(File)
  OBVIOUS
<1>4. Request(r) /\ r.files = <<>>
  <2>. DEFINE none == <<>>
  <2>1. none \in Seq(File) /\ r = Code!NewRequest(plan, none)
    BY <1>3 DEF Code!Init
  <2>. HIDE DEF none
  <2>2. Request(Code!NewRequest(plan, none)) /\ Code!NewRequest(plan, none).files = none
    BY <1>2, <2>1, Begins
  <2>. QED
    BY <2>1, <2>2 DEF none
<1>5. cache_files = <<>> /\ recording = TRUE /\ edits = 0 /\ code_cache = [f \in File |-> None]
  BY DEF Code!Init
<1>6. Recorded /\ Shown
  BY <1>5 DEF Recorded, Stored, Shown
<1>. QED
  BY <1>1, <1>2, <1>3, <1>4, <1>5, <1>6 DEF System

LEMMA SystemNext == System /\ [Code!Next]_(Code!vars) => System'
<1>. SUFFICES ASSUME System, [Code!Next]_(Code!vars) PROVE System'
  OBVIOUS
<1>0. Request(r) /\ Disks
  BY DEF System
<1>1. CASE Code!pageUses
  BY <1>0, <1>1, PageKeeps, SystemStays DEF Code!pageUses, Code!Ended
<1>2. CASE Code!stat
  BY <1>2, StatKeeps, SystemStays DEF Code!stat, Code!Ended
<1>3. CASE Code!read
  <2>1. Request(r') /\ Prefix(r.files, r'.files) /\ r'.files \in Seq(File) /\ r.files \in Seq(File)
    <3>1. r.files \in Seq(File)
      BY <1>0 DEF Request, Requests
    <3>. QED
      BY <1>3, <3>1, ReadKeeps
  <2>2. disk' = disk /\ code_cache' = code_cache /\ cache_files' = cache_files /\ recording' = recording /\ plan' = plan /\ edits' = edits
    BY <1>3 DEF Code!read, Code!Kept
  <2>3. Recorded'
    <3>1. ASSUME NEW f \in File PROVE Stored(f, code_cache[f], KnownFiles')
      <4>1. Stored(f, code_cache[f], KnownFiles)
        BY DEF System, Recorded
      <4>2. CASE recording
        <5>1. KnownFiles = r.files /\ KnownFiles' = r'.files
          BY <2>2, <4>2 DEF KnownFiles
        <5>. QED
          BY <2>1, <4>1, <5>1, StoredMore
      <4>3. CASE ~recording
        <5>1. KnownFiles' = KnownFiles
          BY <2>2, <4>3 DEF KnownFiles
        <5>. QED
          BY <4>1, <5>1
      <4>. QED
        BY <4>2, <4>3
    <3>. QED
      BY <2>2, <3>1 DEF Recorded
  <2>4. Shown'
    <3>1. CASE recording
      BY <2>2, <3>1 DEF Shown
    <3>2. CASE ~recording
      <4>1. Prefix(cache_files, r.files) /\ cache_files \in Seq(File)
        BY <1>3, <3>2 DEF System, Shown, Code!Ended, Code!read
      <4>3. Len(cache_files) \in Nat /\ Len(r.files) \in Nat /\ Len(r'.files) \in Nat
        BY <2>1, <4>1
      <4>4. Prefix(cache_files, r'.files)
        BY <2>1, <4>1, <4>3 DEF Prefix
      <4>. QED
        BY <2>2, <4>4 DEF Shown
    <3>. QED
      BY <3>1, <3>2
  <2>5. Disks'
    BY <1>0, <2>2 DEF Disks
  <2>. QED
    BY <2>1, <2>2, <2>3, <2>4, <2>5 DEF System
<1>4. CASE Code!directive_CLASS
  BY <1>0, <1>4, ClassKeeps, SystemStays DEF Code!directive_CLASS, Code!Ended, Code!Is
<1>5. CASE Code!directive_USE
  BY <1>0, <1>5, UseKeeps, SystemStays DEF Code!directive_USE, Code!Ended, Code!Is
<1>6. CASE Code!directive_BASE
  BY <1>0, <1>6, BaseKeeps, SystemStays DEF Code!directive_BASE, Code!Ended, Code!Is
<1>7. CASE Code!directive_PARTIAL
  BY <1>0, <1>7, PartialKeeps, SystemStays DEF Code!directive_PARTIAL, Code!Ended, Code!Is
<1>8. CASE Code!directive_LOCALS
  BY <1>0, <1>8, LocalsKeeps, SystemStays DEF Code!directive_LOCALS, Code!Ended, Code!Is
<1>9. CASE Code!directive_METHOD
  BY <1>0, <1>9, MethodKeeps, SystemStays DEF Code!directive_METHOD, Code!Ended, Code!Is
<1>10. CASE Code!compiledFile
  <2>. DEFINE f == r.stack[1]
              k == [actions |-> f.actions, stamp |-> f.stamp, no |-> f.no]
  <2>1. Request(r') /\ r'.files = r.files
    BY <1>0, <1>10, CompiledKeeps
  <2>2. /\ disk' = disk /\ cache_files' = cache_files /\ recording' = recording /\ plan' = plan /\ edits' = edits
        /\ IF recording THEN Code!put(Code!Top) ELSE code_cache' = code_cache
        /\ r.stack # <<>> /\ Code!Top.state \in {"compile", "replay"}
    BY <1>10 DEF Code!compiledFile
  <2>3. KnownFiles' = KnownFiles /\ Shown' /\ Disks'
    BY <1>0, <2>1, <2>2 DEF KnownFiles, Shown, Disks, System, Code!Ended
  <2>4. CASE ~recording
    <3>1. code_cache' = code_cache
      BY <2>2, <2>4
    <3>2. Recorded' /\ DOMAIN code_cache' = File
      BY <2>3, <3>1 DEF Recorded, System
    <3>. QED
      BY <2>1, <2>2, <2>3, <3>2 DEF System
  <2>5. CASE recording
    <3>1. Code!Top = f /\ f \in Frames /\ 1 \in 1 .. Len(r.stack)
      <4>1. r.stack \in Seq(Frames)
        BY <1>0 DEF Request, Requests
      <4>. QED
        BY <2>2, <4>1, Restacked DEF Code!Top
    <3>2. Written(f) /\ Located(f, r.files, r.used)
      BY <1>0, <3>1 DEF Request, Loaded
    <3>3. code_cache' = [code_cache EXCEPT ![f.file] = k]
      BY <2>2, <2>5, <3>1 DEF Code!put
    <3>4. Stored(f.file, k, r.files)
      <4>1. Record(f.actions, f.file) /\ f.no \in 1 .. Len(r.files) /\ r.files[f.no] = f.file
        BY <2>2, <3>1, <3>2 DEF Written, Located
      <4>2. k \in Records
        BY <3>1 DEF Frames, Records
      <4>. QED
        BY <4>1, <4>2 DEF Stored
    <3>. HIDE DEF f, k
    <3>5. DOMAIN code_cache' = File /\ \A i \in File : code_cache'[i] = IF i = f.file THEN k ELSE code_cache[i]
      BY <3>3 DEF System
    <3>6. KnownFiles = r.files
      BY <2>5 DEF KnownFiles
    <3>7. Recorded'
      <4>1. \A i \in File : Stored(i, code_cache[i], r.files)
        BY <3>6 DEF System, Recorded
      <4>2. \A i \in File : Stored(i, code_cache'[i], r.files)
        BY <3>4, <3>5, <4>1
      <4>. QED
        BY <2>3, <3>6, <4>2 DEF Recorded
    <3>. QED
      BY <2>1, <2>2, <2>3, <3>5, <3>7 DEF System
  <2>. QED
    BY <2>4, <2>5
<1>11. ASSUME NEW enabled \in BOOLEAN, Code!finish(enabled)
       PROVE  System'
  <2>1. /\ recording /\ recording' = FALSE /\ disk' = disk /\ edits' = edits /\ plan' = <<>>
        /\ r' = Code!NewRequest(<<>>, <<>>)
        /\ IF enabled THEN cache_files' = r.files /\ code_cache' = code_cache
                      ELSE cache_files' = <<>> /\ code_cache' = [f \in File |-> None]
    BY <1>11 DEF Code!finish
  <2>. DEFINE none == <<>>
  <2>2. none \in Seq(Uses) /\ none \in Seq(File) /\ r.files \in Seq(File)
    BY <1>0 DEF Request, Requests
  <2>3. r' = Code!NewRequest(none, none) /\ plan' \in Seq(Uses)
    BY <2>1
  <2>. HIDE DEF none
  <2>4. Request(r') /\ r'.files = none
    BY <2>2, <2>3, Begins
  <2>5. Code!Ended'
    BY <2>1 DEF Code!Ended, Code!NewRequest
  <2>6. Disks' /\ Shown' /\ KnownFiles = r.files /\ KnownFiles' = cache_files'
    BY <1>0, <2>1, <2>5 DEF Disks, Shown, KnownFiles
  <2>7. CASE enabled
    <3>1. cache_files' = r.files /\ code_cache' = code_cache
      BY <2>1, <2>7
    <3>2. Recorded'
      BY <2>6, <3>1 DEF System, Recorded
    <3>. QED
      BY <2>1, <2>2, <2>3, <2>4, <2>6, <3>1, <3>2 DEF System
  <2>8. CASE ~enabled
    <3>1. cache_files' = none /\ code_cache' = [f \in File |-> None]
      BY <2>1, <2>8 DEF none
    <3>2. Recorded'
      BY <3>1 DEF Recorded, Stored
    <3>. QED
      BY <2>1, <2>2, <2>3, <2>4, <2>6, <3>1, <3>2 DEF System
  <2>. QED
    BY <2>7, <2>8
<1>12. CASE Code!request
  <2>1. /\ ~recording /\ disk' = disk /\ code_cache' = code_cache /\ cache_files' = cache_files /\ recording' = recording
        /\ edits' = edits /\ plan' \in Plan /\ r' = Code!NewRequest(plan', cache_files)
    BY <1>12 DEF Code!request, Code!add_files
  <2>2. plan' \in Seq(Uses)
    BY <2>1, CodeAssumption DEF Code!Parameters, Uses
  <2>. QED
    BY <2>1, <2>2, SystemBegins
<1>13. CASE Code!again
  <2>1. /\ ~recording /\ disk' = disk /\ code_cache' = code_cache /\ cache_files' = cache_files /\ recording' = recording
        /\ edits' = edits /\ plan' = plan /\ r' = Code!NewRequest(plan', cache_files)
    BY <1>13 DEF Code!again, Code!add_files
  <2>2. plan' \in Seq(Uses)
    BY <2>1 DEF System
  <2>. QED
    BY <2>1, <2>2, SystemBegins
<1>14. ASSUME NEW f \in File, NEW text \in Text[f], Code!edit(f, text)
       PROVE  System'
  <2>1. /\ disk' = [disk EXCEPT ![f] = [text |-> text, stamp |-> edits + 1]] /\ edits' = edits + 1
        /\ code_cache' = code_cache /\ cache_files' = cache_files /\ recording' = recording /\ r' = r /\ plan' = plan
    BY <1>14 DEF Code!edit
  <2>2. Disks' /\ edits' \in Nat
    <3>1. text \in Seq(Code!Directives)
      BY CodeAssumption DEF Code!Parameters
    <3>2. [text |-> text, stamp |-> edits + 1] \in [text : Seq(Code!Directives), stamp : Nat]
      BY <3>1 DEF System
    <3>. QED
      BY <1>0, <2>1, <3>2 DEF Disks, System
  <2>3. KnownFiles' = KnownFiles /\ Shown'
    BY <2>1 DEF KnownFiles, Shown, Code!Ended, System
  <2>4. Recorded'
    BY <2>1, <2>3 DEF Recorded, System
  <2>. QED
    BY <1>0, <2>1, <2>2, <2>3, <2>4 DEF System
<1>15. CASE UNCHANGED Code!vars
  <2>1. disk' = disk /\ code_cache' = code_cache /\ cache_files' = cache_files /\ recording' = recording /\ r' = r /\ plan' = plan /\ edits' = edits
    BY <1>15 DEF Code!vars
  <2>. QED
    BY <2>1 DEF System, Disks, Recorded, KnownFiles, Shown, Code!Ended
<1>. QED
  BY <1>1, <1>2, <1>3, <1>4, <1>5, <1>6, <1>7, <1>8, <1>9, <1>10, <1>11, <1>12, <1>13, <1>14, <1>15 DEF Code!Next

\* It is enough: the classes are whole and no @auto is executed twice.
LEMMA SystemIsWhole == System => Code!MethodsInherited /\ Code!AutoOnce
<1>. SUFFICES ASSUME System PROVE Code!MethodsInherited /\ Code!AutoOnce
  OBVIOUS
<1>1. /\ Table(r.classes) /\ DOMAIN r.classes = 1 .. Len(r.classes) /\ DOMAIN r.ran = 1 .. Len(r.ran)
      /\ RunOnce(r) /\ RunBy(r) /\ Sound(r)
  BY DEF System, Request, Requests, Named, Table
<1>2. Code!MethodsInherited
  <2>1. CASE r.late \/ r.differs
    BY <2>1 DEF Code!MethodsInherited
  <2>2. CASE ~(r.late \/ r.differs)
    <3>1. Inherits(r.classes)
      BY <1>1, <2>2 DEF Sound, Whole
    <3>. QED
      BY <1>1, <3>1 DEF Inherits, Code!MethodsInherited
  <2>. QED
    BY <2>1, <2>2
<1>3. Code!AutoOnce
  <2>1. \A i, j \in DOMAIN r.ran :
           i < j /\ r.ran[i][1] = r.ran[j][1] => r.ran[i][1] = 1 /\ r.ran[i][3] # r.ran[j][3]
    BY <1>1 DEF RunOnce
  <2>2. \A i \in DOMAIN r.ran :
           r.ran[i][1] = 1 /\ r.ran[i][2] # None /\ r.classes[1].base = 0 => r.ran[i][2].file = r.ran[i][3]
    BY <1>1 DEF RunBy, By
  <2>. QED
    BY <2>1, <2>2 DEF Code!AutoOnce
<1>. QED
  BY <1>2, <1>3

CodeInv == which = "code" => System

LEMMA CodeInitially == CachesInit => CodeInv
  BY SystemInit DEF CachesInit, CodeInv

LEMMA CodeStep == CodeInv /\ [CachesNext]_<<which, vars, sheets, code>> => CodeInv'
<1>. SUFFICES ASSUME CodeInv, [CachesNext]_<<which, vars, sheets, code>>, which' = "code"
              PROVE  System'
  BY DEF CodeInv
<1>1. which = "code"
  BY DEF CachesNext
<1>2. [Code!Next]_(Code!vars)
  BY <1>1 DEF CachesNext, code, Code!vars
<1>. QED
  BY <1>1, <1>2, SystemNext DEF CodeInv

LEMMA CodeWhole == CodeInv => ClassesWhole
  BY SystemIsWhole DEF CodeInv, ClassesWhole

\* A class has the methods of its base that it has not replaced, in whatever order the
\* classes, their methods and their bases come, and the @auto of a class is executed
\* once, that of MAIN once for each of its files: for any texts of the files and any
\* pages, with the cache and without it.
THEOREM ClassesAreWhole == CachesSpec => []ClassesWhole
<1>. QED
  BY CodeInitially, CodeStep, CodeWhole, PTL DEF CachesSpec
-----------------------------------------------------------------------------

SheetsP == INSTANCE StylesheetManager_proof
               WITH now <- clock, cache <- compiled, used <- time_used,
                    Ref <- {Part, External}, Conn <- {1},
                    MaxTime <- 4, MaxEdits <- 2, MaxDepth <- 1
NestedP == INSTANCE StylesheetManager_proof
               WITH now <- clock, cache <- compiled, used <- time_used,
                    Ref <- {Part, External, Method}, Conn <- {1, 2},
                    MaxTime <- 1, MaxEdits <- 1, MaxDepth <- 2

LEMMA SheetsInitSame == Sheets!Init <=> SheetsP!Init
  BY DEF Sheets!Init, SheetsP!Init, Sheets!XslFile, SheetsP!XslFile
LEMMA SheetsNextSame == [Sheets!Next]_(Sheets!vars) <=> [SheetsP!Next]_(SheetsP!vars)
  BY DEF Sheets!XslFile, SheetsP!XslFile, Sheets!vars, SheetsP!vars, Sheets!disk, SheetsP!disk,
         Sheets!conns, SheetsP!conns, Sheets!top, SheetsP!top, Sheets!c, SheetsP!c, Sheets!at,
         SheetsP!at, Sheets!update, SheetsP!update, Sheets!edits, SheetsP!edits, Sheets!Latest,
         SheetsP!Latest, Sheets!Busy, SheetsP!Busy, Sheets!NoLoad, SheetsP!NoLoad, Sheets!Init,
         SheetsP!Init, Sheets!tick, SheetsP!tick, Sheets!edit, SheetsP!edit,
         Sheets!maybe_expire_cache, SheetsP!maybe_expire_cache, Sheets!get_connection,
         SheetsP!get_connection, Sheets!get_disk_time_fails, SheetsP!get_disk_time_fails,
         Sheets!get_disk_time, SheetsP!get_disk_time, Sheets!Reload, SheetsP!Reload,
         Sheets!stylesheet, SheetsP!stylesheet, Sheets!add_dependency, SheetsP!add_dependency,
         Sheets!reads, SheetsP!reads, Sheets!open, SheetsP!open, Sheets!openExternal,
         SheetsP!openExternal, Sheets!openMethod, SheetsP!openMethod, Sheets!methodReturns,
         SheetsP!methodReturns, Sheets!load, SheetsP!load, Sheets!unuse, SheetsP!unuse, Sheets!Next,
         SheetsP!Next, Sheets!Max, SheetsP!Max, Sheets!Range, SheetsP!Range

LEMMA NestedInitSame == Nested!Init <=> NestedP!Init
  BY DEF Nested!Init, NestedP!Init, Nested!XslFile, NestedP!XslFile
LEMMA NestedNextSame == [Nested!Next]_(Nested!vars) <=> [NestedP!Next]_(NestedP!vars)
  BY DEF Nested!XslFile, NestedP!XslFile, Nested!vars, NestedP!vars, Nested!disk, NestedP!disk,
         Nested!conns, NestedP!conns, Nested!top, NestedP!top, Nested!c, NestedP!c, Nested!at,
         NestedP!at, Nested!update, NestedP!update, Nested!edits, NestedP!edits, Nested!Latest,
         NestedP!Latest, Nested!Busy, NestedP!Busy, Nested!NoLoad, NestedP!NoLoad, Nested!Init,
         NestedP!Init, Nested!tick, NestedP!tick, Nested!edit, NestedP!edit,
         Nested!maybe_expire_cache, NestedP!maybe_expire_cache, Nested!get_connection,
         NestedP!get_connection, Nested!get_disk_time_fails, NestedP!get_disk_time_fails,
         Nested!get_disk_time, NestedP!get_disk_time, Nested!Reload, NestedP!Reload,
         Nested!stylesheet, NestedP!stylesheet, Nested!add_dependency, NestedP!add_dependency,
         Nested!reads, NestedP!reads, Nested!open, NestedP!open, Nested!openExternal,
         NestedP!openExternal, Nested!openMethod, NestedP!openMethod, Nested!methodReturns,
         NestedP!methodReturns, Nested!load, NestedP!load, Nested!unuse, NestedP!unuse, Nested!Next,
         NestedP!Next, Nested!Max, NestedP!Max, Nested!Range, NestedP!Range

LEMMA SheetsParameters == SheetsP!Parameters
<1>1. SheetsP!IsFiniteSet({1}) /\ SheetsP!Cardinality({1}) = 1
  BY SheetsP!FS_Singleton
<1>2. None \notin SheetsP!Compiled
  BY PartsDiffer DEF SheetsP!Compiled, SheetsP!XslFile
<1>. QED
  BY <1>1, <1>2, PartsDiffer DEF SheetsP!Parameters, SheetsP!XslFile

LEMMA NestedParameters == NestedP!Parameters
<1>1. NestedP!IsFiniteSet({1, 2}) /\ NestedP!Cardinality({1, 2}) = 2
  <2>1. NestedP!IsFiniteSet({1}) /\ NestedP!Cardinality({1}) = 1
    BY NestedP!FS_Singleton
  <2>2. 2 \notin {1} /\ {1} \cup {2} = {1, 2}
    OBVIOUS
  <2>. QED
    BY <2>1, <2>2, NestedP!FS_AddElement
<1>2. None \notin NestedP!Compiled
  BY PartsDiffer DEF NestedP!Compiled, NestedP!XslFile
<1>. QED
  BY <1>1, <1>2, PartsDiffer DEF NestedP!Parameters, NestedP!XslFile

-----------------------------------------------------------------------------
SheetsInv == which = "sheets" => SheetsP!GInv /\ SheetsP!FInv

LEMMA SheetsInitially == CachesInit => SheetsInv
<1>. SUFFICES ASSUME Sheets!Init PROVE SheetsP!GInv /\ SheetsP!FInv
  BY DEF CachesInit, SheetsInv
<1>. QED
  BY SheetsInitSame, SheetsParameters, SheetsP!GeneralInit, SheetsP!FreshInit

LEMMA SheetsStep == SheetsInv /\ [CachesNext]_<<which, vars, sheets, code>> => SheetsInv'
<1>. SUFFICES ASSUME SheetsInv, [CachesNext]_<<which, vars, sheets, code>>, which' = "sheets"
              PROVE  (SheetsP!GInv /\ SheetsP!FInv)'
  BY DEF SheetsInv
<1>1. which = "sheets"
  BY DEF CachesNext
<1>2. [Sheets!Next]_(Sheets!vars)
  BY <1>1 DEF CachesNext, sheets, Sheets!vars
<1>3. Method \notin {Part, External}
  BY PartsDiffer
<1>. QED
  BY <1>1, <1>2, <1>3, SheetsNextSame, SheetsParameters, SheetsP!FreshKeeps DEF SheetsInv

LEMMA SheetsFresh == SheetsInv => FreshStylesheet
<1>. SUFFICES ASSUME SheetsP!GInv, SheetsP!FInv PROVE Sheets!FreshStylesheet
  BY DEF SheetsInv, FreshStylesheet
<1>1. SheetsP!FreshStylesheet
  BY SheetsP!FreshIs
<1>. QED
  BY <1>1 DEF Sheets!FreshStylesheet, SheetsP!FreshStylesheet, Sheets!XslFile, SheetsP!XslFile,
         Sheets!Touched, SheetsP!Touched, Sheets!EditedAtOnce, SheetsP!EditedAtOnce, Sheets!at,
         SheetsP!at, Sheets!top, SheetsP!top, Sheets!c, SheetsP!c

\* The stylesheet a transformation gets is of the files as they are, as
\* Stylesheet_connection::stylesheet finds out from their times.
THEOREM SheetsAreFresh == CachesSpec => []FreshStylesheet
<1>. QED
  BY SheetsInitially, SheetsStep, SheetsFresh, PTL DEF CachesSpec
-----------------------------------------------------------------------------
NestedInv == which = "nested" => NestedP!GInv

LEMMA NestedInitially == CachesInit => NestedInv
<1>. SUFFICES ASSUME Nested!Init PROVE NestedP!GInv
  BY DEF CachesInit, NestedInv
<1>. QED
  BY NestedInitSame, NestedParameters, NestedP!GeneralInit

LEMMA NestedStep == NestedInv /\ [CachesNext]_<<which, vars, sheets, code>> => NestedInv'
<1>. SUFFICES ASSUME NestedInv, [CachesNext]_<<which, vars, sheets, code>>, which' = "nested"
              PROVE  NestedP!GInv'
  BY DEF NestedInv
<1>1. which = "nested"
  BY DEF CachesNext
<1>2. [Nested!Next]_(Nested!vars)
  BY <1>1 DEF CachesNext, sheets, Nested!vars
<1>. QED
  BY <1>1, <1>2, NestedNextSame, NestedParameters, NestedP!GeneralStep DEF NestedInv

LEMMA NestedWhole == NestedInv => WholeWhenNested
<1>. SUFFICES ASSUME NestedP!GInv PROVE Nested!ExclusiveUse /\ Nested!DependenciesComplete
  BY DEF NestedInv, WholeWhenNested
<1>1. NestedP!DependenciesComplete
  BY NestedP!KnownComplete
<1>2. NestedP!ExclusiveUse
  BY DEF NestedP!GInv
<1>3. Nested!DependenciesComplete
  BY <1>1 DEF Nested!DependenciesComplete, NestedP!DependenciesComplete, Nested!XslFile,
           NestedP!XslFile, Nested!at, NestedP!at, Nested!top, NestedP!top, Nested!c, NestedP!c
<1>4. Nested!ExclusiveUse
  BY <1>2 DEF Nested!ExclusiveUse, NestedP!ExclusiveUse, Nested!Range, NestedP!Range,
           Nested!IsInjective, NestedP!IsInjective
<1>. QED
  BY <1>3, <1>4

\* When a method called from a transformation transforms, too, each has a connection
\* of its own, and what was loaded meanwhile is not lost from the list of files.
THEOREM NestedIsWhole == CachesSpec => []WholeWhenNested
<1>. QED
  BY NestedInitially, NestedStep, NestedWhole, PTL DEF CachesSpec
-----------------------------------------------------------------------------
\* In each of the behaviours that are looked at side by side the manager of connections
\* makes steps of its own or none, so what is proved of it above holds there.
THEOREM ConnectionsUndisturbed == CachesSpec => Spec
<1>1. CachesInit => Init
  BY DEF CachesInit, NoSql
<1>2. [CachesNext]_<<which, vars, sheets, code>> => [Next]_vars
  BY DEF CachesNext
<1>. QED
  BY <1>1, <1>2, PTL DEF CachesSpec, Spec
=============================================================================
