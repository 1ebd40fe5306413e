------------------------ MODULE CacheOperator_proof ------------------------
(***************************************************************************)
(* What ^cache gives to a page is current, and one process at a time       *)
(* renews the file, for any number of processes, lifespans, deletions and  *)
(* deaths.                                                                 *)
(*                                                                         *)
(* The lock alone is not the reason: it is the lock of an inode.  A file   *)
(* that was unlinked is never given the inode of one that somebody still   *)
(* has open (Unlinked), so whoever renews the file of the name has opened  *)
(* it after the last deletion, and began its code then (Writers); and      *)
(* whoever reads has opened the file after its ^cache began (Readers).     *)
(***************************************************************************)
EXTENDS CacheOperator, FiniteSetTheorems, TLAPS

renews(l) == l \in {"code", "write", "truncate"}
opened(l) == l \in {"lock shared", "read", "lock exclusive"} \/ renews(l)
reads(l)  == l \in {"lock shared", "read"}

\* A file is open from open() to close(); one who renews has the exclusive lock
Opened == \A p \in Proc : opened(pc[p]) => fd[p] # None
Locked == \A p \in Proc : renews(pc[p]) => ex[fd[p]] = p /\ sh[fd[p]] = {}

\* What a process keeps about its ^cache until the end of it
KeptBy(p) ==
    /\ pc[p] # "written out" => got[p] = None
    /\ pc[p] # "truncate" => wrote[p] = "nothing"
    /\ pc[p] = "write" => code[p].limit = expires[p]
    /\ pc[p] = "truncate" /\ wrote[p] = "all" => code[p].expires <= code[p].limit
Kept == \A p \in Proc : KeptBy(p)

\* A copy on the disk expires when its code allows, or earlier
Stored == \A i \in Inode : data[i] \notin {Empty, Junk} => data[i].expires <= data[i].limit

\* No copy, or one whose code began after the first n deletions
Since(d, n) == d \in {Empty, Junk} \/ d.again \/ d.deletes >= n

Linked == file # None => Since(data[file], deletes)
Writers == \A q \in Proc : renews(pc[q]) /\ fd[q] = file => code[q].again \/ code[q].deletes >= deletes
Readers ==
    \A p \in Proc : reads(pc[p]) =>
        /\ Since(data[fd[p]], seen[p])
        /\ \A q \in Proc : renews(pc[q]) /\ fd[q] = fd[p] => code[q].again \/ code[q].deletes >= seen[p]

IInv == TypeOK /\ Opened /\ Locked /\ Kept /\ Stored /\ Linked /\ Writers /\ Readers /\ ServedIsCurrent
-----------------------------------------------------------------------------
\* What the steps below need of TypeOK, by what it is about
Labels == {"idle", "get", "lock shared", "read", "put", "lock exclusive", "code",
           "write", "truncate", "put done", "written out", "code without caching"}
DoorTypes ==
    /\ file \in Inode \cup {None} /\ pc \in [Proc -> Labels] /\ fd \in [Proc -> Inode \cup {None}]
    /\ sh \in [Inode -> SUBSET Proc] /\ ex \in [Inode -> Proc \cup {None}]
CopyTypes ==
    /\ data \in [Inode -> Copy \cup {Empty, Junk}] /\ code \in [Proc -> Copy]
    /\ old \in [Proc -> Copy \cup {None}] /\ got \in [Proc -> Copy \cup {None}]
    /\ wrote \in [Proc -> {"nothing", "all", "part"}]
CountTypes ==
    /\ now \in Nat /\ deletes \in Nat /\ start \in [Proc -> Nat] /\ expires \in [Proc -> Nat]
    /\ seen \in [Proc -> Nat] /\ \A p \in Proc : seen[p] <= deletes
LEMMA TypesOf == TypeOK => DoorTypes /\ CopyTypes /\ CountTypes
<1>1. TypeOK => DoorTypes
  BY DEF TypeOK, DoorTypes, Labels
<1>2. TypeOK => CopyTypes
  BY DEF TypeOK, CopyTypes
<1>3. TypeOK => CountTypes
  <2>. SUFFICES ASSUME TypeOK PROVE CountTypes
    OBVIOUS
  <2>1. /\ now \in 1 .. MaxTime /\ deletes \in 0 .. MaxDeletes /\ start \in [Proc -> 0 .. now]
        /\ expires \in [Proc -> Nat] /\ seen \in [Proc -> 0 .. deletes]
    BY DEF TypeOK
  <2>2. now \in Nat /\ deletes \in Nat
    BY <2>1, BoundsAssumption
  <2>. QED
    BY <2>1, <2>2 DEF CountTypes
<1>. QED
  BY <1>1, <1>2, <1>3

\* There is an inode for a new file: each process has one open at most, and the
\* one that makes the file has none.
LEMMA NewInode ==
    ASSUME DoorTypes, file = None
    PROVE  LET i == CHOOSE i \in Inode : Unlinked(i)
           IN  i \in Inode /\ i # None /\ \A p \in Proc : fd[p] # i
<1>1. \E i \in Inode : \A p \in Proc : fd[p] # i
  <2>. SUFFICES ASSUME \A i \in Inode : \E p \in Proc : fd[p] = i PROVE FALSE
    OBVIOUS
  <2>. DEFINE f == [i \in Inode |-> CHOOSE p \in Proc : fd[p] = i]
  <2>1. \A i \in Inode : f[i] \in Proc /\ fd[f[i]] = i
    OBVIOUS
  <2>2. f \in [Inode -> Proc]
    BY <2>1
  <2>. HIDE DEF f
  <2>3. \E i, j \in Inode : i # j /\ f[i] = f[j]
    BY <2>2, InodeAssumption, FS_PigeonHole
  <2>. QED
    BY <2>1, <2>3
<1>2. \E i \in Inode : Unlinked(i)
  BY <1>1, NamesAssumption DEF Unlinked
<1>. QED
  BY <1>2, NamesAssumption DEF Unlinked

\* Closing a file gives up the locks of it, and no one else's.
LEMMA Closes ==
    ASSUME DoorTypes, NEW p \in Proc, close(p)
    PROVE  /\ fd' = [fd EXCEPT ![p] = None]
           /\ sh' \in [Inode -> SUBSET Proc] /\ ex' \in [Inode -> Proc \cup {None}]
           /\ \A i \in Inode : sh'[i] \subseteq sh[i] /\ (ex[i] # p => ex'[i] = ex[i])
  BY DEF DoorTypes, close

\* Opening the file, or a new one
LEMMA Opens ==
    ASSUME DoorTypes, NEW p \in Proc, cache_put(p)
    PROVE  /\ file' \in Inode /\ file' # None /\ fd' = [fd EXCEPT ![p] = file']
           /\ \/ file' = file /\ data' = data
              \/ /\ file = None /\ \A q \in Proc : fd[q] # file'
                 /\ data' = [data EXCEPT ![file'] = Empty]
<1>1. CASE file # None /\ fd' = [fd EXCEPT ![p] = file] /\ UNCHANGED disk
  BY <1>1 DEF DoorTypes, disk
<1>2. CASE file = None
  <2>. DEFINE i == CHOOSE i \in Inode : Unlinked(i)
  <2>1. i \in Inode /\ i # None /\ \A q \in Proc : fd[q] # i
    BY <1>2, NewInode
  <2>2. file' = i /\ data' = [data EXCEPT ![i] = Empty] /\ fd' = [fd EXCEPT ![p] = i]
    BY <1>2 DEF cache_put
  <2>. QED
    BY <1>2, <2>1, <2>2
<1>. QED
  BY <1>1, <1>2 DEF cache_put

\* What a process does, except for ^cache[file]
acts(p) == \/ step(p) \/ codeEnds(p) \/ codeFails(p) \/ cacheEnds(p) \/ die(p)
           \/ \E lifespan \in Lifespan : cache(p, lifespan) \/ reduce(p, lifespan)
LEMMA Acts == [Next]_vars => tick \/ UNCHANGED vars \/ \E p \in Proc : cache_delete(p) \/ acts(p)
  BY DEF Next, acts

\* An action on p: where it was and is, and what it does to the door of the file
LEMMA Doors ==
    ASSUME TypeOK, NEW p \in Proc, acts(p)
    PROVE  /\ pc' = [pc EXCEPT ![p] = pc'[p]] /\ pc'[p] \in Labels
           /\ \/ /\ UNCHANGED <<fd, sh, ex>>
                 /\ (opened(pc'[p]) => opened(pc[p])) /\ (renews(pc'[p]) => renews(pc[p]))
              \/ close(p) /\ ~opened(pc'[p])
              \/ /\ fd' = [fd EXCEPT ![p] = file'] /\ UNCHANGED <<sh, ex>>
                 /\ file' \in Inode /\ pc'[p] \in {"lock shared", "lock exclusive"}
              \/ /\ fd' = fd /\ ex' = ex /\ pc'[p] = "read" /\ opened(pc[p])
                 /\ ex[fd[p]] = None /\ sh' = [sh EXCEPT ![fd[p]] = @ \cup {p}]
              \/ /\ fd' = fd /\ sh' = sh /\ pc'[p] = "code" /\ opened(pc[p])
                 /\ ex[fd[p]] = None /\ sh[fd[p]] = {} /\ ex' = [ex EXCEPT ![fd[p]] = p]
           /\ renews(pc'[p]) => renews(pc[p]) \/ pc'[p] = "code"
           /\ reads(pc'[p]) => reads(pc[p]) \/ (pc'[p] = "lock shared" /\ pc[p] = "get")
<1>. DoorTypes
  BY TypesOf
<1>. USE DEF opened, renews, reads, goto, locks, disk, Labels, DoorTypes
<1>1. CASE cache_get(p)
  <2>1. \/ pc' = [pc EXCEPT ![p] = "put"] /\ UNCHANGED <<fd, sh, ex>>
        \/ /\ pc[p] = "get" /\ pc' = [pc EXCEPT ![p] = "lock shared"] /\ UNCHANGED <<sh, ex>>
           /\ file' \in Inode /\ fd' = [fd EXCEPT ![p] = file']
    BY <1>1 DEF cache_get
  <2>. QED
    BY <2>1
<1>2. CASE cache_put(p)
  <2>1. file' \in Inode /\ fd' = [fd EXCEPT ![p] = file']
    BY <1>2, Opens
  <2>2. pc' = [pc EXCEPT ![p] = "lock exclusive"] /\ UNCHANGED <<sh, ex>>
    BY <1>2 DEF cache_put
  <2>. QED
    BY <2>1, <2>2
<1>3. CASE pa_lock_shared(p)
  BY <1>3 DEF pa_lock_shared
<1>4. CASE pa_lock_exclusive(p)
  BY <1>4 DEF pa_lock_exclusive
<1>5. CASE read(p) \/ codeFails(p) \/ writeFails(p) \/ truncate(p) \/ die(p)
  BY <1>5 DEF read, codeFails, writeFails, truncate, die, Reset
<1>6. CASE \/ \E l \in Lifespan : cache(p, l) \/ reduce(p, l)
           \/ codeEnds(p) \/ write(p) \/ putDone(p) \/ cacheEnds(p)
  BY <1>6 DEF cache, reduce, codeEnds, write, putDone, cacheEnds, Reset
<1>. QED
  BY <1>1, <1>2, <1>3, <1>4, <1>5, <1>6 DEF step, acts

LEMMA OpenedStep == IInv /\ [Next]_vars => Opened'
<1>. SUFFICES ASSUME TypeOK, Opened, [Next]_vars PROVE Opened'
  BY DEF IInv
<1>0. DoorTypes
  BY TypesOf
<1>1. CASE UNCHANGED <<pc, fd>>
  BY <1>1 DEF Opened
<1>2. ASSUME NEW p \in Proc, acts(p) PROVE Opened'
  <2>1. pc' = [pc EXCEPT ![p] = pc'[p]]
    BY <1>2, Doors
  <2>2. /\ \A q \in Proc \ {p} : fd'[q] = fd[q]
        /\ opened(pc'[p]) => fd'[p] \in Inode \/ (opened(pc[p]) /\ fd'[p] = fd[p])
    BY <1>2, <1>0, Doors DEF close, DoorTypes
  <2>. QED
    BY <1>0, <2>1, <2>2, NamesAssumption DEF Opened, DoorTypes
<1>. QED
  BY <1>1, <1>2, Acts DEF tick, vars, cache_delete

LEMMA LockedStep == IInv /\ [Next]_vars => Locked'
<1>. SUFFICES ASSUME TypeOK, Opened, Locked, [Next]_vars PROVE Locked'
  BY DEF IInv
<1>0. DoorTypes
  BY TypesOf
<1>1. CASE UNCHANGED <<pc, fd, locks>>
  BY <1>1 DEF Locked, locks
<1>2. ASSUME NEW p \in Proc, acts(p) PROVE Locked'
  <2>0. pc' = [pc EXCEPT ![p] = pc'[p]] /\ (renews(pc'[p]) => renews(pc[p]) \/ pc'[p] = "code")
    BY <1>2, Doors
  <2>. SUFFICES ASSUME NEW q \in Proc, renews(pc'[q]) PROVE ex'[fd'[q]] = q /\ sh'[fd'[q]] = {}
    BY DEF Locked
  <2>1. q # p => pc'[q] = pc[q] /\ fd[q] \in Inode /\ ex[fd[q]] = q /\ sh[fd[q]] = {}
    BY <1>0, <2>0 DEF Locked, Opened, opened, DoorTypes
  <2>2. CASE UNCHANGED <<fd, sh, ex>> /\ (renews(pc'[p]) => renews(pc[p]))
    BY <2>1, <2>2 DEF Locked
  <2>3. CASE close(p) /\ ~opened(pc'[p])
    <3>1. q # p
      BY <2>3 DEF opened
    <3>. QED
      BY <1>0, <2>1, <2>3, <3>1, Closes DEF DoorTypes
  <2>4. CASE /\ fd' = [fd EXCEPT ![p] = file'] /\ UNCHANGED <<sh, ex>>
             /\ file' \in Inode /\ pc'[p] \in {"lock shared", "lock exclusive"}
    BY <1>0, <2>1, <2>4 DEF renews, DoorTypes
  <2>5. CASE /\ fd' = fd /\ ex' = ex /\ pc'[p] = "read" /\ opened(pc[p])
             /\ ex[fd[p]] = None /\ sh' = [sh EXCEPT ![fd[p]] = @ \cup {p}]
    BY <1>0, <2>1, <2>5, NamesAssumption DEF renews, DoorTypes
  <2>6. CASE /\ fd' = fd /\ sh' = sh /\ pc'[p] = "code" /\ opened(pc[p])
             /\ ex[fd[p]] = None /\ sh[fd[p]] = {} /\ ex' = [ex EXCEPT ![fd[p]] = p]
    <3>1. fd[p] \in Inode
      BY <1>0, <2>6 DEF Opened, DoorTypes
    <3>. QED
      BY <1>0, <2>1, <2>6, <3>1, NamesAssumption DEF DoorTypes
  <2>. QED
    BY <1>2, <2>2, <2>3, <2>4, <2>5, <2>6, Doors
<1>. QED
  BY <1>1, <1>2, Acts DEF tick, vars, cache_delete, locks

\* The copy that the code, or the catch code with the expired one, makes
LEMMA CodeMade ==
    ASSUME CopyTypes, NEW p \in Proc, codeEnds(p)
    PROVE  /\ code'[p].limit = expires[p] /\ \A q \in Proc \ {p} : code'[q] = code[q]
           /\ \/ code'[p].again
              \/ code'[p].again = code[p].again /\ code'[p].deletes = code[p].deletes
<1>1. CASE code' = [code EXCEPT ![p] = [code[p] EXCEPT !.limit = expires[p]]]
  <2>1. code[p] \in Copy
    BY DEF CopyTypes
  <2>. QED
    BY <1>1, <2>1 DEF CopyTypes, Copy
<1>2. CASE old[p] # None /\ code' = [code EXCEPT ![p] = [old[p] EXCEPT !.again = TRUE, !.limit = expires[p]]]
  <2>1. PICK c \in Copy : c = old[p]
    BY <1>2 DEF CopyTypes
  <2>2. code'[p] = [c EXCEPT !.again = TRUE, !.limit = expires[p]] /\ \A q \in Proc \ {p} : code'[q] = code[q]
    BY <1>2, <2>1 DEF CopyTypes
  <2>. QED
    BY <2>2 DEF Copy
<1>. QED
  BY <1>1, <1>2 DEF codeEnds

\* What is written: the copy or a part of it, or nothing when it has expired
LEMMA Written ==
    ASSUME CountTypes, NEW p \in Proc, write(p)
    PROVE  \/ /\ code' = [code EXCEPT ![p].expires = expires[p]] /\ expires' = expires
              /\ \E d \in {code'[p], Junk} : data' = [data EXCEPT ![fd[p]] = d]
           \/ code' = code /\ data' = data /\ wrote' = wrote
  BY DEF write, store

\* What a process keeps of its ^cache
LEMMA KeptStep == IInv /\ [Next]_vars => Kept'
<1>. SUFFICES ASSUME TypeOK, Kept, [Next]_vars PROVE Kept'
  BY DEF IInv
<1>. pc \in [Proc -> Labels] /\ CopyTypes /\ CountTypes
  BY TypesOf DEF DoorTypes
<1>1. CASE UNCHANGED <<pc, got, wrote, code, expires>>
  BY <1>1 DEF Kept, KeptBy
<1>2. ASSUME NEW p \in Proc, acts(p) PROVE Kept'
  <2>0. KeptBy(p)
    BY DEF Kept
  <2>1. ASSUME NEW q \in Proc \ {p} PROVE KeptBy(q)'
    <3>1. /\ pc'[q] = pc[q] /\ got'[q] = got[q] /\ wrote'[q] = wrote[q]
          /\ code'[q] = code[q] /\ expires'[q] = expires[q]
      <4>. USE DEF CopyTypes, CountTypes, goto, Reset, result, scope
      <4>1. CASE cache_get(p) \/ pa_lock_shared(p) \/ read(p) \/ cache_put(p) \/ putDone(p)
        BY <4>1 DEF cache_get, pa_lock_shared, read, cache_put, putDone
      <4>2. CASE pa_lock_exclusive(p) \/ codeEnds(p)
        BY <4>2 DEF pa_lock_exclusive, codeEnds
      <4>3. CASE codeFails(p) \/ writeFails(p) \/ cacheEnds(p) \/ die(p)
        BY <4>3 DEF codeFails, writeFails, cacheEnds, die
      <4>4. CASE write(p)
        BY <4>4 DEF write
      <4>5. CASE truncate(p)
        BY <4>5 DEF truncate
      <4>6. ASSUME NEW l \in Lifespan, cache(p, l) \/ reduce(p, l)
            PROVE  pc'[q] = pc[q] /\ got' = got /\ wrote' = wrote /\ code' = code /\ expires'[q] = expires[q]
        BY <4>6 DEF cache, reduce
      <4>. QED
        BY <1>2, <4>1, <4>2, <4>3, <4>4, <4>5, <4>6 DEF acts, step
    <3>2. KeptBy(q)
      BY DEF Kept
    <3>. QED
      BY <3>1, <3>2 DEF KeptBy
  <2>2. KeptBy(p)'
    <3>. USE DEF goto, Reset, result, scope, CopyTypes
    <3>1. CASE read(p)
      BY <2>0, <3>1 DEF read, KeptBy
    <3>2. CASE codeEnds(p)
      <4>1. pc'[p] = "write" /\ got' = got /\ wrote' = wrote /\ expires' = expires /\ pc[p] = "code"
        BY <3>2 DEF codeEnds
      <4>. QED
        BY <2>0, <3>2, <4>1, CodeMade DEF KeptBy
    <3>3. CASE write(p)
      <4>1. pc'[p] = "truncate" /\ got' = got /\ pc[p] = "write"
        BY <3>3 DEF write
      <4>2. CASE code' = [code EXCEPT ![p].expires = expires[p]] /\ expires' = expires
        <5>1. code[p].limit = expires[p]
          BY <2>0, <4>1 DEF KeptBy
        <5>2. code'[p].expires = expires[p] /\ code'[p].limit = expires[p] /\ expires[p] \in Nat
          BY <4>2, <5>1 DEF Copy, CountTypes
        <5>3. code'[p].expires <= code'[p].limit
          BY <5>2
        <5>. QED
          BY <2>0, <4>1, <5>3 DEF KeptBy
      <4>3. CASE code' = code /\ wrote' = wrote
        BY <2>0, <4>1, <4>3 DEF KeptBy
      <4>. QED
        BY <3>3, <4>2, <4>3, Written
    <3>4. CASE truncate(p)
      BY <2>0, <3>4 DEF truncate, KeptBy
    <3>5. CASE codeFails(p) \/ writeFails(p) \/ cacheEnds(p) \/ die(p)
      <4>1. pc'[p] = "idle" /\ got'[p] = None /\ wrote'[p] = "nothing"
        BY <3>5 DEF codeFails, writeFails, cacheEnds, die
      <4>. QED
        BY <4>1 DEF KeptBy
    <3>6. CASE cache_get(p) \/ cache_put(p) \/ putDone(p) \/ pa_lock_shared(p) \/ pa_lock_exclusive(p)
      <4>1. /\ got' = got /\ wrote' = wrote /\ pc[p] \notin {"truncate", "written out"}
            /\ pc'[p] \notin {"truncate", "write"}
        BY <3>6 DEF cache_get, cache_put, putDone, pa_lock_shared, pa_lock_exclusive
      <4>. QED
        BY <2>0, <4>1 DEF KeptBy
    <3>7. ASSUME NEW l \in Lifespan, cache(p, l) \/ reduce(p, l) PROVE KeptBy(p)'
      <4>1. /\ got' = got /\ wrote' = wrote /\ pc[p] \notin {"truncate", "written out"}
            /\ pc'[p] \notin {"truncate", "write"}
        BY <3>7 DEF cache, reduce
      <4>. QED
        BY <2>0, <4>1 DEF KeptBy
    <3>. QED
      BY <1>2, <3>1, <3>2, <3>3, <3>4, <3>5, <3>6, <3>7 DEF acts, step
  <2>. QED
    BY <2>1, <2>2 DEF Kept
<1>. QED
  BY <1>1, <1>2, Acts DEF tick, vars, cache_delete, scope, result

\* What an action on p does to the file of the name, to the data and to the copies
\* its code makes
LEMMA Effects ==
    ASSUME TypeOK, Kept, NEW p \in Proc, acts(p)
    PROVE  /\ deletes' = deletes
           /\ \A q \in Proc \ {p} : code'[q] = code[q] /\ seen'[q] = seen[q]
           /\ renews(pc'[p]) =>
                \/ code'[p].again \/ code'[p].deletes = deletes
                \/ renews(pc[p]) /\ code'[p].again = code[p].again /\ code'[p].deletes = code[p].deletes
           /\ reads(pc'[p]) => seen'[p] = seen[p]
           /\ \/ file' \in {file, None} /\ data' = data
              \/ cache_put(p)
              \/ /\ file' = file /\ renews(pc[p])
                 /\ \E d : /\ data' = [data EXCEPT ![fd[p]] = d]
                           /\ \/ d \in {Empty, Junk}
                              \/ /\ d.again = code[p].again /\ d.deletes = code[p].deletes
                                 /\ d.expires <= d.limit
<1>. pc \in [Proc -> Labels] /\ CopyTypes /\ CountTypes
  BY TypesOf DEF DoorTypes
<1>. USE DEF CopyTypes, CountTypes, goto, scope, result, disk, bounds, Reset, store, renews, reads
<1>1. CASE cache_get(p) \/ pa_lock_shared(p) \/ putDone(p) \/ cache_put(p)
  BY <1>1 DEF cache_get, pa_lock_shared, putDone, cache_put
<1>2. CASE read(p) \/ cacheEnds(p) \/ die(p)
  BY <1>2 DEF read, cacheEnds, die
<1>3. CASE pa_lock_exclusive(p)
  <2>1. CASE code' = code /\ pc' = [pc EXCEPT ![p] = "code without caching"]
    BY <1>3, <2>1 DEF pa_lock_exclusive
  <2>2. CASE code' = [code EXCEPT ![p] = [NoCopy EXCEPT !.deletes = deletes]] /\ file' = file
    <3>1. code'[p].deletes = deletes
      BY <2>2 DEF NoCopy
    <3>. QED
      BY <1>3, <2>2, <3>1 DEF pa_lock_exclusive
  <2>. QED
    BY <1>3, <2>1, <2>2 DEF pa_lock_exclusive
<1>4. CASE codeEnds(p)
  <2>1. \/ code'[p].again = code[p].again /\ code'[p].deletes = code[p].deletes
        \/ code'[p].again
    BY <1>4, CodeMade
  <2>2. pc[p] = "code" /\ UNCHANGED <<deletes, seen, file, data>> /\ \A q \in Proc \ {p} : code'[q] = code[q]
    BY <1>4 DEF codeEnds
  <2>. QED
    BY <1>4, <2>1, <2>2 DEF codeEnds
<1>5. CASE codeFails(p) \/ writeFails(p)
  BY <1>5 DEF codeFails, writeFails
<1>6. CASE write(p)
  <2>1. /\ pc[p] = "write" /\ UNCHANGED <<deletes, seen, file>>
        /\ pc' = [pc EXCEPT ![p] = "truncate"] /\ \A q \in Proc \ {p} : code'[q] = code[q]
    BY <1>6 DEF write
  <2>2. CASE /\ code' = [code EXCEPT ![p].expires = expires[p]]
             /\ \E d \in {code'[p], Junk} : data' = [data EXCEPT ![fd[p]] = d]
    <3>1. code[p].limit = expires[p]
      BY <2>1 DEF Kept, KeptBy
    <3>2. /\ code'[p].again = code[p].again /\ code'[p].deletes = code[p].deletes
          /\ code'[p].expires <= code'[p].limit
      BY <2>2, <3>1 DEF Copy
    <3>. QED
      BY <2>1, <2>2, <3>2
  <2>3. CASE code' = code /\ data' = data
    BY <2>1, <2>3
  <2>. QED
    BY <1>6, <2>2, <2>3, Written
<1>7. CASE truncate(p)
  <2>1. /\ pc[p] = "truncate" /\ UNCHANGED <<deletes, seen, file>>
        /\ pc' = [pc EXCEPT ![p] = "put done"] /\ \A q \in Proc \ {p} : code'[q] = code[q]
    BY <1>7 DEF truncate
  <2>2. wrote[p] = "all" => code[p].expires <= code[p].limit
    BY <2>1 DEF Kept, KeptBy
  <2>3. \E d : /\ data' = [data EXCEPT ![fd[p]] = d]
               /\ d \in {Empty, Junk} \/ (d = code[p] /\ wrote[p] = "all")
    BY <1>7 DEF truncate
  <2>. QED
    BY <2>1, <2>2, <2>3
<1>8. ASSUME NEW l \in Lifespan, cache(p, l) \/ reduce(p, l)
      PROVE  /\ UNCHANGED <<deletes, code, data>> /\ file' \in {file, None}
             /\ \A q \in Proc \ {p} : seen'[q] = seen[q]
             /\ renews(pc'[p]) => renews(pc[p]) 
             /\ reads(pc'[p]) => seen'[p] = seen[p]
  BY <1>8 DEF cache, reduce, unlink
<1>. QED
  BY <1>1, <1>2, <1>3, <1>4, <1>5, <1>6, <1>7, <1>8 DEF acts, step

\* What is written to the disk expires when its code has allowed.
LEMMA StoredStep == IInv /\ [Next]_vars => Stored'
<1>. SUFFICES ASSUME TypeOK, Opened, Kept, Stored, [Next]_vars PROVE Stored'
  BY DEF IInv
<1>0. DoorTypes /\ CopyTypes
  BY TypesOf
<1>1. CASE UNCHANGED data
  BY <1>1 DEF Stored
<1>2. ASSUME NEW p \in Proc, acts(p) PROVE Stored'
  <2>1. CASE cache_put(p)
    BY <1>0, <2>1, Opens DEF Stored, CopyTypes
  <2>2. ASSUME NEW d, data' = [data EXCEPT ![fd[p]] = d], d \in {Empty, Junk} \/ d.expires <= d.limit
        PROVE  Stored'
    BY <1>0, <2>2 DEF Stored, CopyTypes
  <2>. QED
    BY <1>1, <1>2, <2>1, <2>2, Effects
<1>. QED
  BY <1>1, <1>2, Acts DEF tick, vars, cache_delete, disk

\* The file of the name has no copy by code that began before the last deletion.
LEMMA LinkedStep == IInv /\ [Next]_vars => Linked'
<1>. SUFFICES ASSUME TypeOK, Opened, Kept, Linked, Writers, [Next]_vars PROVE Linked'
  BY DEF IInv
<1>0. DoorTypes /\ CopyTypes
  BY TypesOf
<1>1. CASE UNCHANGED <<file, data, deletes>> \/ file' = None
  BY <1>1 DEF Linked
<1>2. ASSUME NEW p \in Proc, acts(p) PROVE Linked'
  <2>0. deletes' = deletes
    BY <1>2, Effects
  <2>1. CASE cache_put(p)
    BY <1>0, <1>1, <2>0, <2>1, Opens DEF Linked, Since, CopyTypes
  <2>2. CASE file' \in {file, None} /\ data' = data
    BY <1>1, <2>0, <2>2
  <2>3. ASSUME file' = file, renews(pc[p]),
               NEW d, data' = [data EXCEPT ![fd[p]] = d],
               d \in {Empty, Junk} \/ (d.again = code[p].again /\ d.deletes = code[p].deletes)
        PROVE  Linked'
    <3>1. CASE fd[p] = file
      <4>1. Since(d, deletes)
        BY <2>3, <3>1 DEF Writers, Since
      <4>2. fd[p] \in Inode
        BY <1>0, <2>3 DEF Opened, opened, DoorTypes
      <4>. QED
        BY <1>0, <2>0, <2>3, <3>1, <4>1, <4>2 DEF Linked, CopyTypes
    <3>2. CASE fd[p] # file
      BY <1>0, <2>0, <2>3, <3>2 DEF Linked, CopyTypes, DoorTypes
    <3>. QED
      BY <3>1, <3>2
  <2>. QED
    BY <1>2, <2>1, <2>2, <2>3, Effects
<1>. QED
  BY <1>1, <1>2, Acts DEF tick, vars, cache_delete, disk, bounds, unlink

\* Nor does who renews it put one there.
LEMMA WritersStep == IInv /\ [Next]_vars => Writers'
<1>. SUFFICES ASSUME TypeOK, Opened, Kept, Writers, [Next]_vars, Opened' PROVE Writers'
  BY OpenedStep DEF IInv
<1>0. DoorTypes
  BY TypesOf
<1>1. CASE UNCHANGED <<file, pc, fd, code, deletes>>
  BY <1>1 DEF Writers
<1>2. CASE file' = None
  BY <1>2 DEF Writers, Opened, opened
<1>3. ASSUME NEW p \in Proc, acts(p), file' # None PROVE Writers'
  <2>. SUFFICES ASSUME NEW q \in Proc, renews(pc'[q]), fd'[q] = file'
                PROVE  code'[q].again \/ code'[q].deletes >= deletes'
    BY DEF Writers
  <2>0. deletes' = deletes /\ deletes \in Nat /\ pc' = [pc EXCEPT ![p] = pc'[p]]
    BY <1>3, Effects, Doors, TypesOf DEF CountTypes
  <2>1. \/ file' = file
        \/ file' \in Inode /\ fd' = [fd EXCEPT ![p] = file'] /\ \A r \in Proc : fd[r] # file'
    <3>1. CASE cache_put(p)
      BY <1>0, <3>1, Opens
    <3>. QED
      BY <1>3, <3>1, Effects
  <2>2. CASE q # p
    <3>1. renews(pc[q]) /\ fd'[q] = fd[q] /\ code'[q] = code[q]
      BY <1>0, <1>3, <2>0, <2>2, Effects, Doors DEF close, DoorTypes
    <3>. QED
      BY <2>0, <2>1, <3>1 DEF Writers
  <2>3. CASE q = p
    <3>1. \/ code'[p].again \/ code'[p].deletes = deletes
          \/ renews(pc[p]) /\ code'[p].again = code[p].again /\ code'[p].deletes = code[p].deletes
      BY <1>3, <2>3, Effects
    <3>2. CASE renews(pc[p]) /\ code'[p].again = code[p].again /\ code'[p].deletes = code[p].deletes
      <4>1. fd'[p] = fd[p]
        BY <1>0, <1>3, <2>3, Doors, NamesAssumption DEF close, DoorTypes, renews, opened
      <4>. QED
        BY <2>0, <2>1, <2>3, <3>2, <4>1 DEF Writers
    <3>. QED
      BY <2>0, <2>3, <3>1, <3>2
  <2>. QED
    BY <2>2, <2>3
<1>. QED
  BY <1>1, <1>2, <1>3, Acts DEF tick, vars, cache_delete, disk, bounds, unlink, result

\* Who reads has opened the file after its ^cache began: there is nothing older in
\* it, and no one puts anything older there.
LEMMA ReadersStep == IInv /\ [Next]_vars => Readers'
<1>. SUFFICES ASSUME TypeOK, Opened, Kept, Linked, Writers, Readers, [Next]_vars PROVE Readers'
  BY DEF IInv
<1>0. DoorTypes /\ CopyTypes /\ CountTypes
  BY TypesOf
<1>1. CASE UNCHANGED <<data, pc, fd, code, seen>>
  BY <1>1 DEF Readers
<1>2. ASSUME NEW p \in Proc, acts(p) PROVE Readers'
  <2>0. /\ pc' = [pc EXCEPT ![p] = pc'[p]]
        /\ \A r \in Proc \ {p} : /\ fd'[r] = fd[r] /\ pc'[r] = pc[r]
                                 /\ code'[r] = code[r] /\ seen'[r] = seen[r]
    <3>1. pc' = [pc EXCEPT ![p] = pc'[p]]
      BY <1>2, Doors
    <3>2. fd' = fd \/ \E i : fd' = [fd EXCEPT ![p] = i]
      BY <1>2, Doors DEF close
    <3>3. \A r \in Proc \ {p} : code'[r] = code[r] /\ seen'[r] = seen[r]
      BY <1>2, Effects
    <3>4. \A r \in Proc \ {p} : fd'[r] = fd[r] /\ pc'[r] = pc[r]
      BY <1>0, <3>1, <3>2 DEF DoorTypes
    <3>. QED
      BY <3>1, <3>3, <3>4
  \* The one that reads is open, and is the same, or is the file of the name
  <2>1. ASSUME NEW r \in Proc, reads(pc'[r])
        PROVE  /\ seen'[r] = seen[r] /\ fd'[r] \in Inode
               /\ \/ reads(pc[r]) /\ fd'[r] = fd[r]
                  \/ r = p /\ fd'[p] = file /\ file # None /\ cache_get(p)
    <3>1. CASE r # p
      BY <1>0, <2>0, <2>1, <3>1, NamesAssumption DEF Opened, opened, reads, DoorTypes
    <3>2. CASE r = p
      <4>1. seen'[p] = seen[p] /\ (reads(pc[p]) \/ (pc'[p] = "lock shared" /\ pc[p] = "get"))
        BY <1>2, <2>1, <3>2, Effects, Doors
      <4>2. CASE reads(pc[p])
        <5>1. fd[p] \in Inode
          BY <1>0, <4>2, NamesAssumption DEF Opened, opened, reads, DoorTypes
        <5>2. fd' = fd
          <6>1. CASE close(p) /\ ~opened(pc'[p])
            BY <2>1, <3>2, <6>1 DEF reads, opened
          <6>2. CASE fd' = [fd EXCEPT ![p] = file'] /\ pc'[p] \in {"lock shared", "lock exclusive"}
            <7>1. pc'[p] = "lock shared" /\ pc[p] \in {"lock shared", "read"}
              BY <2>1, <3>2, <4>2, <6>2 DEF reads
            <7>. QED
              BY <1>0, <1>2, <7>1 DEF acts, step, cache_get, pa_lock_shared, read, cache_put,
                 pa_lock_exclusive, write, writeFails, truncate, putDone, codeEnds, codeFails,
                 cacheEnds, die, cache, reduce, goto, Reset, DoorTypes, Labels, locks
          <6>. QED
            BY <1>2, <6>1, <6>2, Doors
        <5>. QED
          BY <3>2, <4>1, <4>2, <5>1, <5>2
      <4>3. CASE pc'[p] = "lock shared" /\ pc[p] = "get"
        <5>1. cache_get(p)
          BY <1>0, <1>2, <4>3 DEF acts, step, pa_lock_shared, read, cache_put,
             pa_lock_exclusive, write, writeFails, truncate, putDone, codeEnds, codeFails,
             cacheEnds, die, cache, reduce, goto, Reset, DoorTypes, Labels
        <5>2. file # None /\ fd' = [fd EXCEPT ![p] = file]
          BY <1>0, <4>3, <5>1 DEF cache_get, goto, DoorTypes, Labels
        <5>. QED
          BY <1>0, <3>2, <4>1, <5>1, <5>2 DEF DoorTypes
      <4>. QED
        BY <4>1, <4>2, <4>3
    <3>. QED
      BY <3>1, <3>2
  <2>. SUFFICES ASSUME NEW r \in Proc, reads(pc'[r])
                PROVE  /\ Since(data'[fd'[r]], seen'[r])
                       /\ \A q \in Proc : renews(pc'[q]) /\ fd'[q] = fd'[r] =>
                              code'[q].again \/ code'[q].deletes >= seen'[r]
    BY DEF Readers
  <2>2. seen[r] \in Nat /\ seen[r] <= deletes /\ deletes \in Nat /\ seen'[r] = seen[r]
    BY <1>0, <2>1 DEF CountTypes
  <2>3. /\ Since(data[fd'[r]], seen[r])
        /\ \A q \in Proc : renews(pc[q]) /\ fd[q] = fd'[r] => code[q].again \/ code[q].deletes >= seen[r]
    <3>1. CASE reads(pc[r]) /\ fd'[r] = fd[r]
      BY <3>1 DEF Readers
    <3>2. CASE fd'[r] = file /\ file # None
      <4>1. Since(data[file], seen[r])
        <5>1. data[file].again \/ data[file].deletes >= deletes \/ data[file] \in {Empty, Junk}
          BY <3>2 DEF Linked, Since
        <5>2. data[file] \in {Empty, Junk} \/ data[file].deletes \in Nat
          BY <1>0, <3>2 DEF CopyTypes, DoorTypes, Copy
        <5>. QED
          BY <2>2, <5>1, <5>2 DEF Since
      <4>2. ASSUME NEW q \in Proc, renews(pc[q]), fd[q] = file
            PROVE  code[q].again \/ code[q].deletes >= seen[r]
        <5>1. code[q].again \/ code[q].deletes >= deletes
          BY <4>2 DEF Writers
        <5>2. code[q].deletes \in Nat
          BY <1>0 DEF CopyTypes, Copy
        <5>. QED
          BY <2>2, <5>1, <5>2
      <4>. QED
        BY <3>2, <4>1, <4>2
    <3>. QED
      BY <2>1, <3>1, <3>2
  <2>4. Since(data'[fd'[r]], seen[r])
    <3>1. CASE data' = data
      BY <2>3, <3>1
    <3>2. CASE cache_put(p)
      <4>1. fd'[r] = fd[r] /\ reads(pc[r]) /\ r # p
        BY <2>0, <2>1, <3>2 DEF cache_put, cache_get, goto, reads
      <4>. QED
        BY <1>0, <2>1, <2>3, <3>2, <4>1, Opens DEF CopyTypes, Since
    <3>3. ASSUME NEW d, data' = [data EXCEPT ![fd[p]] = d], renews(pc[p]),
                 d \in {Empty, Junk} \/ (d.again = code[p].again /\ d.deletes = code[p].deletes)
          PROVE  Since(data'[fd'[r]], seen[r])
      <4>1. CASE fd[p] = fd'[r]
        <5>1. Since(d, seen[r])
          BY <2>3, <3>3, <4>1 DEF Since
        <5>. QED
          BY <1>0, <2>1, <3>3, <4>1, <5>1 DEF CopyTypes
      <4>2. CASE fd[p] # fd'[r]
        BY <1>0, <2>1, <2>3, <3>3, <4>2 DEF CopyTypes
      <4>. QED
        BY <4>1, <4>2
    <3>. QED
      BY <1>2, <3>1, <3>2, <3>3, Effects
  <2>5. ASSUME NEW q \in Proc, renews(pc'[q]), fd'[q] = fd'[r]
        PROVE  code'[q].again \/ code'[q].deletes >= seen[r]
    <3>1. CASE q # p
      BY <2>0, <2>3, <2>5, <3>1
    <3>2. CASE q = p
      <4>1. \/ code'[p].again \/ code'[p].deletes = deletes
            \/ renews(pc[p]) /\ code'[p].again = code[p].again /\ code'[p].deletes = code[p].deletes
        BY <1>2, <2>5, <3>2, Effects
      <4>2. CASE renews(pc[p]) /\ code'[p].again = code[p].again /\ code'[p].deletes = code[p].deletes
        <5>1. fd'[p] = fd[p]
          BY <1>0, <1>2, <2>5, <3>2, Doors, NamesAssumption DEF close, DoorTypes, renews, opened
        <5>. QED
          BY <2>3, <2>5, <3>2, <4>2, <5>1
      <4>. QED
        BY <2>2, <3>2, <4>1, <4>2
    <3>. QED
      BY <3>1, <3>2
  <2>. QED
    BY <2>2, <2>4, <2>5
<1>. QED
  BY <1>1, <1>2, Acts DEF tick, vars, cache_delete, disk, bounds, result, scope

\* What is read under the lock and is not too old is what the page gets.
LEMMA ServedStep == IInv /\ [Next]_vars => ServedIsCurrent'
<1>. SUFFICES ASSUME TypeOK, Opened, Kept, Stored, Readers, ServedIsCurrent, [Next]_vars
              PROVE  ServedIsCurrent'
  BY DEF IInv
<1>. DoorTypes /\ CopyTypes /\ CountTypes
  BY TypesOf
<1>. DEFINE Same == UNCHANGED <<got, start, seen>>
<1>1. CASE Same
  BY <1>1 DEF ServedIsCurrent, OnlyFresh, DeletedStaysDeleted
<1>2. ASSUME NEW p \in Proc, acts(p) PROVE ServedIsCurrent'
  <2>1. CASE read(p)
    <3>1. start' = start /\ seen' = seen /\ reads(pc[p])
      BY <2>1 DEF read, scope, reads
    <3>2. CASE got' = got
      BY <1>1, <3>1, <3>2
    <3>3. CASE got' # got
      <4>. DEFINE c == deserialize(data[fd[p]])
      <4>1. got' = [got EXCEPT ![p] = c] /\ c # None /\ ~expired(p, c)
        BY <2>1, <3>3 DEF read
      <4>2. c = data[fd[p]] /\ c \notin {Empty, Junk}
        BY <4>1 DEF deserialize
      <4>3. fd[p] \in Inode
        BY <3>1, NamesAssumption DEF Opened, opened, reads, DoorTypes
      <4>4. c \in Copy
        BY <4>2, <4>3 DEF CopyTypes
      <4>5. c.again \/ c.deletes >= seen[p]
        BY <3>1, <4>2 DEF Readers, Since
      <4>6. c.limit > start[p]
        <5>1. c.expires <= c.limit
          BY <4>2, <4>3 DEF Stored
        <5>2. ~(c.expires <= start[p])
          BY <4>1 DEF expired
        <5>3. c.expires \in Int /\ c.limit \in Int /\ start[p] \in Nat
          BY <4>4 DEF Copy, CountTypes
        <5>. QED
          BY <5>1, <5>2, <5>3
      <4>. HIDE DEF c
      <4>. QED
        BY <3>1, <4>1, <4>5, <4>6 DEF ServedIsCurrent, OnlyFresh, DeletedStaysDeleted, CopyTypes
    <3>. QED
      BY <3>2, <3>3
  <2>2. ASSUME NEW l \in Lifespan, cache(p, l) PROVE ServedIsCurrent'
    <3>1. got' = got /\ got[p] = None
      BY <2>2 DEF cache, result, Kept, KeptBy
    <3>2. start' = [start EXCEPT ![p] = now] /\ seen' = [seen EXCEPT ![p] = deletes]
      BY <2>2 DEF cache
    <3>. QED
      BY <3>1, <3>2 DEF ServedIsCurrent, OnlyFresh, DeletedStaysDeleted, CountTypes
  <2>3. CASE codeFails(p) \/ writeFails(p) \/ cacheEnds(p) \/ die(p)
    <3>1. /\ got' = [got EXCEPT ![p] = None] /\ start' = [start EXCEPT ![p] = 0]
          /\ seen' = [seen EXCEPT ![p] = 0]
      BY <2>3 DEF codeFails, writeFails, cacheEnds, die, Reset
    <3>. QED
      BY <3>1 DEF ServedIsCurrent, OnlyFresh, DeletedStaysDeleted, CountTypes, CopyTypes
  <2>4. ASSUME NEW l \in Lifespan, reduce(p, l) PROVE Same
    BY <2>4 DEF reduce, result
  <2>5. CASE \/ cache_get(p) \/ pa_lock_shared(p) \/ cache_put(p) \/ pa_lock_exclusive(p)
             \/ codeEnds(p) \/ write(p) \/ truncate(p) \/ putDone(p)
    BY <1>1, <2>5 DEF cache_get, pa_lock_shared, cache_put, pa_lock_exclusive, codeEnds, write,
                      truncate, putDone, scope, result
  <2>. QED
    BY <1>1, <1>2, <2>1, <2>2, <2>3, <2>4, <2>5 DEF acts, step
<1>. QED
  BY <1>1, <1>2, Acts DEF tick, vars, cache_delete, scope, result

\* The types: the clock and the counters, the doors, the copies
CountsOK ==
    /\ now \in 1 .. MaxTime /\ deletes \in 0 .. MaxDeletes /\ crashes \in 0 .. Crashes
    /\ start \in [Proc -> 0 .. now] /\ expires \in [Proc -> Nat] /\ seen \in [Proc -> 0 .. deletes]
    /\ tries \in [Proc -> 0 .. pa_lock_attempts]
LEMMA TypeParts == TypeOK <=> CountsOK /\ DoorTypes /\ CopyTypes
  BY DEF TypeOK, CountsOK, DoorTypes, CopyTypes, Labels

LEMMA CountsStep == TypeOK /\ [Next]_vars => CountsOK'
<1>. SUFFICES ASSUME CountsOK, [Next]_vars PROVE CountsOK'
  BY TypeParts
<1>. USE DEF CountsOK
<1>0. /\ now \in Nat /\ now > 0 /\ deletes \in Nat /\ crashes \in Nat
      /\ MaxTime \in Nat /\ MaxDeletes \in Nat /\ Crashes \in Nat
  BY BoundsAssumption
<1>1. CASE UNCHANGED vars
  BY <1>1 DEF vars, scope, bounds
<1>2. CASE tick
  <2>1. now' \in 1 .. MaxTime /\ 0 .. now \subseteq 0 .. now'
    BY <1>0, <1>2 DEF tick
  <2>2. start \in [Proc -> 0 .. now']
    BY <2>1
  <2>. QED
    BY <1>2, <2>1, <2>2 DEF tick, scope, bounds
<1>3. ASSUME NEW p \in Proc, cache_delete(p) PROVE CountsOK'
  <2>1. deletes' \in 0 .. MaxDeletes /\ 0 .. deletes \subseteq 0 .. deletes'
    BY <1>0, <1>3 DEF cache_delete
  <2>2. seen \in [Proc -> 0 .. deletes']
    BY <2>1
  <2>. QED
    BY <1>3, <2>1, <2>2 DEF cache_delete, scope
<1>4. ASSUME NEW p \in Proc, acts(p) PROVE CountsOK'
  <2>0. pa_lock_attempts \in Nat /\ pa_lock_attempts > 0
    BY LifespanAssumption
  <2>1. ASSUME NEW l \in Lifespan, cache(p, l) \/ reduce(p, l) PROVE CountsOK'
    <3>1. l \in Nat
      BY LifespanAssumption
    <3>2. now + l \in Nat /\ now \in 0 .. now /\ deletes \in 0 .. deletes
      BY <1>0, <3>1
    <3>. QED
      BY <2>1, <3>2 DEF cache, reduce, bounds
  <2>2. CASE cache_get(p)
    <3>1. /\ UNCHANGED <<now, start, expires, seen, deletes, crashes>>
          /\ tries' = tries \/ tries' = [tries EXCEPT ![p] = pa_lock_attempts]
      BY <2>2 DEF cache_get, scope, bounds
    <3>2. pa_lock_attempts \in 0 .. pa_lock_attempts
      BY <2>0
    <3>. QED
      BY <3>1, <3>2
  <2>3. CASE pa_lock_shared(p)
    <3>1. /\ UNCHANGED <<now, start, expires, seen, deletes, crashes>>
          /\ tries' = tries \/ \E n \in {0, tries[p] - 1} : tries' = [tries EXCEPT ![p] = n] /\ (n # 0 => tries[p] > 1)
      BY <2>3 DEF pa_lock_shared, scope, bounds
    <3>. QED
      BY <2>0, <3>1
  <2>4. CASE read(p) \/ cache_put(p) \/ pa_lock_exclusive(p) \/ codeEnds(p) \/ truncate(p) \/ putDone(p)
    BY <2>4 DEF read, cache_put, pa_lock_exclusive, codeEnds, truncate, putDone, scope, bounds
  <2>5. CASE write(p)
    <3>1. /\ UNCHANGED <<now, start, seen, tries, deletes, crashes>>
          /\ expires' = expires \/ expires' = [expires EXCEPT ![p] = 0]
      BY <2>5 DEF write, bounds
    <3>. QED
      BY <3>1
  <2>6. CASE codeFails(p) \/ writeFails(p) \/ cacheEnds(p) \/ die(p)
    <3>1. /\ UNCHANGED <<now, deletes>>
          /\ start' = [start EXCEPT ![p] = 0] /\ expires' = [expires EXCEPT ![p] = 0]
          /\ seen' = [seen EXCEPT ![p] = 0] /\ tries' = [tries EXCEPT ![p] = 0]
          /\ crashes' = crashes \/ (crashes' = crashes + 1 /\ crashes < Crashes)
      BY <2>6 DEF codeFails, writeFails, cacheEnds, die, Reset, bounds
    <3>2. crashes' \in 0 .. Crashes
      BY <1>0, <3>1
    <3>3. 0 \in 0 .. now /\ 0 \in 0 .. deletes /\ 0 \in 0 .. pa_lock_attempts
      BY <1>0, <2>0
    <3>. QED
      BY <3>1, <3>2, <3>3
  <2>. QED
    BY <1>4, <2>1, <2>2, <2>3, <2>4, <2>5, <2>6 DEF acts, step
<1>. QED
  BY <1>1, <1>2, <1>3, <1>4, Acts

LEMMA DoorTypesStep == TypeOK /\ Opened /\ [Next]_vars => DoorTypes'
<1>. SUFFICES ASSUME TypeOK, Opened, [Next]_vars PROVE DoorTypes'
  OBVIOUS
<1>0. DoorTypes
  BY TypesOf
<1>1. CASE UNCHANGED <<pc, fd, locks>> /\ file' \in Inode \cup {None}
  BY <1>0, <1>1 DEF DoorTypes, locks
<1>2. ASSUME NEW p \in Proc, acts(p) PROVE DoorTypes'
  <2>1. pc' \in [Proc -> Labels]
    BY <1>0, <1>2, Doors DEF DoorTypes
  <2>2. file' \in Inode \cup {None}
    <3>1. CASE cache_put(p)
      BY <1>0, <3>1, Opens
    <3>2. ASSUME ~cache_put(p) PROVE file' \in {file, None}
      BY <1>2, <3>2 DEF acts, step, cache_get, pa_lock_shared, read, pa_lock_exclusive, write,
         writeFails, truncate, putDone, codeEnds, codeFails, cacheEnds, die, cache, reduce, disk, unlink
    <3>. QED
      BY <1>0, <3>1, <3>2 DEF DoorTypes
  <2>3. /\ fd' \in [Proc -> Inode \cup {None}]
        /\ sh' \in [Inode -> SUBSET Proc] /\ ex' \in [Inode -> Proc \cup {None}]
    <3>1. CASE close(p)
      BY <1>0, <3>1, Closes DEF DoorTypes
    <3>2. CASE UNCHANGED <<fd, sh, ex>>
      BY <1>0, <3>2 DEF DoorTypes
    <3>3. CASE fd' = [fd EXCEPT ![p] = file'] /\ UNCHANGED <<sh, ex>>
      BY <1>0, <2>2, <3>3 DEF DoorTypes
    <3>4. CASE fd' = fd /\ ex' = ex /\ sh' = [sh EXCEPT ![fd[p]] = @ \cup {p}]
      BY <1>0, <3>4 DEF DoorTypes
    <3>5. CASE fd' = fd /\ sh' = sh /\ ex' = [ex EXCEPT ![fd[p]] = p]
      BY <1>0, <3>5 DEF DoorTypes
    <3>. QED
      BY <1>2, <3>1, <3>2, <3>3, <3>4, <3>5, Doors
  <2>. QED
    BY <2>1, <2>2, <2>3 DEF DoorTypes
<1>. QED
  BY <1>0, <1>1, <1>2, Acts DEF tick, vars, cache_delete, locks, disk, unlink, DoorTypes

LEMMA CopyTypesStep == TypeOK /\ Opened /\ [Next]_vars => CopyTypes'
<1>. SUFFICES ASSUME TypeOK, Opened, [Next]_vars PROVE CopyTypes'
  OBVIOUS
<1>0. DoorTypes /\ CopyTypes /\ CountTypes
  BY TypesOf
<1>. USE DEF CopyTypes
<1>1. CASE UNCHANGED <<data, result>>
  BY <1>0, <1>1 DEF result
<1>2. ASSUME NEW p \in Proc, acts(p) PROVE CopyTypes'
  <2>0. NoCopy \in Copy /\ ([NoCopy EXCEPT !.deletes = deletes]) \in Copy
    <3>1. deletes \in Nat
      BY <1>0 DEF CountTypes
    <3>2. NoCopy \in Copy
      BY DEF NoCopy, Copy
    <3>3. \A c \in Copy : [c EXCEPT !.deletes = deletes] \in Copy
      BY <3>1 DEF Copy
    <3>. QED
      BY <3>2, <3>3
  <2>1. CASE cache_put(p)
    <3>1. data' = data \/ data' = [data EXCEPT ![file'] = Empty]
      BY <1>0, <2>1, Opens
    <3>. QED
      BY <1>0, <2>1, <3>1 DEF cache_put, result
  <2>2. CASE cache_get(p) \/ pa_lock_shared(p) \/ putDone(p)
    BY <1>1, <2>2 DEF cache_get, pa_lock_shared, putDone, disk
  <2>3. CASE read(p)
    <3>1. fd[p] \in Inode
      BY <1>0, <2>3 DEF read, Opened, opened, DoorTypes
    <3>2. deserialize(data[fd[p]]) \in Copy \cup {None}
      BY <1>0, <3>1 DEF deserialize
    <3>. QED
      BY <1>0, <2>3, <3>2 DEF read, disk
  <2>4. CASE pa_lock_exclusive(p)
    BY <1>0, <2>0, <2>4 DEF pa_lock_exclusive
  <2>5. CASE codeEnds(p)
    <3>1. expires[p] \in Nat /\ code[p] \in Copy
      BY <1>0 DEF CountTypes
    <3>2. ASSUME NEW c \in Copy PROVE /\ [c EXCEPT !.limit = expires[p]] \in Copy
                                      /\ [c EXCEPT !.again = TRUE, !.limit = expires[p]] \in Copy
      <4>1. \A d \in Copy : [d EXCEPT !.limit = expires[p]] \in Copy
        BY <3>1 DEF Copy
      <4>2. [c EXCEPT !.again = TRUE] \in Copy
        BY DEF Copy
      <4>. QED
        BY <4>1, <4>2
    <3>3. old[p] # None => old[p] \in Copy
      BY <1>0
    <3>4. \E c \in Copy : code' = [code EXCEPT ![p] = c]
      BY <2>5, <3>1, <3>2, <3>3 DEF codeEnds
    <3>. QED
      BY <1>0, <2>5, <3>4 DEF codeEnds, disk
  <2>6. CASE codeFails(p) \/ writeFails(p)
    BY <1>0, <2>0, <2>6 DEF codeFails, writeFails, Reset, store
  <2>7. CASE write(p)
    <3>1. [code EXCEPT ![p].expires = expires[p]] \in [Proc -> Copy]
      <4>1. expires[p] \in Nat /\ code[p] \in Copy
        BY <1>0 DEF CountTypes
      <4>. QED
        BY <1>0, <4>1 DEF Copy
    <3>2. code' \in [Proc -> Copy] /\ code'[p] \in Copy
      BY <1>0, <2>7, <3>1, Written
    <3>3. data' \in [Inode -> Copy \cup {Empty, Junk}]
      BY <1>0, <2>7, <3>2, Written
    <3>. QED
      BY <1>0, <2>7, <3>2, <3>3 DEF write
  <2>8. CASE truncate(p)
    <3>1. \E d \in {code[p], Junk, Empty} : data' = [data EXCEPT ![fd[p]] = d]
      BY <2>8 DEF truncate, store
    <3>. QED
      BY <1>0, <2>0, <2>8, <3>1 DEF truncate
  <2>9. CASE cacheEnds(p) \/ die(p)
    <3>1. /\ data' = data
          /\ old' = [old EXCEPT ![p] = None] /\ got' = [got EXCEPT ![p] = None]
          /\ code' = [code EXCEPT ![p] = NoCopy] /\ wrote' = [wrote EXCEPT ![p] = "nothing"]
      BY <2>9 DEF cacheEnds, die, Reset, disk
    <3>. QED
      BY <1>0, <2>0, <3>1
  <2>10. ASSUME NEW l \in Lifespan, cache(p, l) \/ reduce(p, l) PROVE CopyTypes'
    BY <1>1, <2>10 DEF cache, reduce, disk
  <2>. QED
    BY <1>2, <2>1, <2>2, <2>3, <2>4, <2>5, <2>6, <2>7, <2>8, <2>9, <2>10 DEF acts, step
<1>. QED
  BY <1>1, <1>2, Acts DEF tick, vars, cache_delete, disk, result

LEMMA Initially == Init => IInv
<1>. SUFFICES ASSUME Init PROVE IInv
  OBVIOUS
<1>. USE DEF Init
<1>1. TypeOK
  BY BoundsAssumption, LifespanAssumption DEF TypeOK, NoCopy, Copy
<1>2. Opened /\ Locked /\ Readers
  BY DEF Opened, Locked, Readers, opened, renews, reads
<1>3. Kept
  BY DEF Kept, KeptBy
<1>4. Stored /\ Linked /\ Writers
  BY DEF Stored, Linked, Writers, renews
<1>5. ServedIsCurrent
  BY DEF ServedIsCurrent, OnlyFresh, DeletedStaysDeleted
<1>. QED
  BY <1>1, <1>2, <1>3, <1>4, <1>5 DEF IInv

LEMMA Invariance == IInv /\ [Next]_vars => IInv'
<1>1. IInv /\ [Next]_vars => TypeOK'
  <2>1. IInv => TypeOK /\ Opened
    BY DEF IInv
  <2>2. CountsOK' /\ DoorTypes' /\ CopyTypes' => TypeOK'
    BY TypeParts, PTL
  <2>. QED
    BY <2>1, <2>2, CountsStep, DoorTypesStep, CopyTypesStep
<1>. QED
  BY <1>1, OpenedStep, LockedStep, KeptStep, StoredStep, LinkedStep, WritersStep, ReadersStep,
     ServedStep DEF IInv

LEMMA Always == Spec => []IInv
  BY Initially, Invariance, PTL DEF Spec
-----------------------------------------------------------------------------
\* The variables keep their types.
THEOREM TypeCorrect == Spec => []TypeOK
<1>1. IInv => TypeOK
  BY DEF IInv
<1>. QED
  BY <1>1, Always, PTL

\* Among any number of requests, with deletions at any time and processes that die
\* anywhere, a page gets a copy that its ^cache may still use: not expired, and not
\* made by code that began before the last ^cache[file] it could know of.
THEOREM CopiesAreCurrent == Spec => []ServedIsCurrent
<1>1. IInv => ServedIsCurrent
  BY DEF IInv
<1>. QED
  BY <1>1, Always, PTL

\* Whoever renews the file of the name is alone with it, from the lock to the cut.
THEOREM OneRenews == Spec => []OneRenewsFile
<1>1. IInv => OneRenewsFile
  <2>. SUFFICES ASSUME IInv PROVE OneRenewsFile
    OBVIOUS
  <2>1. \A p \in Renewing : ex[fd[p]] = p /\ sh[fd[p]] = {}
    BY DEF IInv, Locked, renews, Renewing
  <2>2. Cardinality({p \in Renewing : fd[p] = file}) <= 1
    <3>. DEFINE Rs == {p \in Renewing : fd[p] = file}
    <3>. SUFFICES Cardinality(Rs) <= 1
      OBVIOUS
    <3>1. \A p, q \in Rs : p = q
      BY <2>1
    <3>2. CASE Rs = {}
      <4>1. Cardinality(Rs) = 0
        BY <3>2, FS_EmptySet
      <4>. HIDE DEF Rs
      <4>. QED
        BY <4>1
    <3>3. CASE Rs # {}
      <4>1. PICK p : p \in Rs
        BY <3>3
      <4>2. Rs = {p}
        BY <3>1, <4>1
      <4>3. Cardinality(Rs) = 1
        BY <4>2, FS_Singleton
      <4>. HIDE DEF Rs
      <4>. QED
        BY <4>3
    <3>. QED
      BY <3>2, <3>3
  <2>. QED
    BY <2>1, <2>2 DEF OneRenewsFile
<1>. QED
  BY <1>1, Always, PTL
=============================================================================
