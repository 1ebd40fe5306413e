--------------------------- MODULE CacheOperator ---------------------------
(***************************************************************************)
(* The operator ^cache[file](seconds){code}{catch code} in the processes   *)
(* or threads of a site, for one file, with the file functions it is made  *)
(* of: reading under a shared lock, writing under an exclusive one, both   *)
(* attempted without waiting, and unlinking, which asks for no lock.       *)
(*                                                                         *)
(* A lock belongs to an inode: whoever opened the file before it was       *)
(* unlinked works with an inode nobody else will find.  The data in an     *)
(* inode are nothing (Empty), a whole copy, or bytes that do not parse     *)
(* (Junk): the file is written over the old data and then cut, so that a   *)
(* process that dies in between may leave new data with an old tail.       *)
(***************************************************************************)
EXTENDS Integers, FiniteSets

CONSTANTS Proc, None, Empty, Junk,
          Inode,     \* at least one more than Proc
          Lifespan,  \* the lifespans pages use; 0 is "do not cache"
          pa_lock_attempts,
          MaxTime, MaxDeletes, Crashes \* bounds: the clock, ^cache[file], processes that die

ASSUME NamesAssumption == None \notin Proc \cup Inode /\ Empty # Junk
ASSUME LifespanAssumption == Lifespan \subseteq Nat /\ pa_lock_attempts \in Nat \ {0}
ASSUME InodeAssumption ==
    IsFiniteSet(Proc) /\ IsFiniteSet(Inode) /\ Cardinality(Inode) > Cardinality(Proc)
ASSUME BoundsAssumption == MaxTime \in Nat \ {0} /\ MaxDeletes \in Nat /\ Crashes \in Nat

VARIABLES now,
          file, data,    \* the inode of the file name or None, and the data of each inode
          sh, ex,        \* of each inode: who holds the shared and the exclusive lock
          pc, fd,        \* of each process: where it is, the inode it has open
          start, expires, \* when its ^cache began, scope.expires
          tries,         \* attempts left
          old, got,      \* body_from_disk, and the copy written out to the page
          code,          \* the copy its code makes
          wrote,         \* what write() did
          deletes, seen, \* completed ^cache[file], and how many before this ^cache
          crashes

vars == <<now, file, data, sh, ex, pc, fd, start, expires, tries, old, got, code, wrote,
          deletes, seen, crashes>>
scope == <<start, expires, seen>>
result == <<old, got, code, wrote>>
disk == <<file, data>>
locks == <<sh, ex>>
bounds == <<deletes, crashes>>
-----------------------------------------------------------------------------
\* A copy: the lifetime stored in it, the one its code asked for, how many times
\* the file had been deleted when the code began, and whether it is an older copy
\* that $exception.handled[cache] stored anew
Copy == [expires : Int, limit : Int, deletes : Nat, again : BOOLEAN]

goto(p, l) == pc' = [pc EXCEPT ![p] = l]
unlink == file' = None
Unlinked(i) == i # file /\ \A p \in Proc : fd[p] # i
close(p) == /\ fd' = [fd EXCEPT ![p] = None]
            /\ sh' = [i \in Inode |-> sh[i] \ {p}]
            /\ ex' = [i \in Inode |-> IF ex[i] = p THEN None ELSE ex[i]]
store(p, d) == data' = [data EXCEPT ![fd[p]] = d]
NoCopy == [expires |-> 0, limit |-> 0, deletes |-> 0, again |-> FALSE]

Reset(p) ==
    /\ goto(p, "idle")
    /\ old' = [old EXCEPT ![p] = None] /\ got' = [got EXCEPT ![p] = None]
    /\ code' = [code EXCEPT ![p] = NoCopy] /\ wrote' = [wrote EXCEPT ![p] = "nothing"]
    /\ start' = [start EXCEPT ![p] = 0] /\ expires' = [expires EXCEPT ![p] = 0]
    /\ seen' = [seen EXCEPT ![p] = 0] /\ tries' = [tries EXCEPT ![p] = 0]

Init ==
    /\ now = 1 /\ file = None /\ data = [i \in Inode |-> Empty]
    /\ sh = [i \in Inode |-> {}] /\ ex = [i \in Inode |-> None]
    /\ pc = [p \in Proc |-> "idle"] /\ fd = [p \in Proc |-> None]
    /\ start = [p \in Proc |-> 0] /\ expires = [p \in Proc |-> 0] /\ tries = [p \in Proc |-> 0]
    /\ old = [p \in Proc |-> None] /\ got = [p \in Proc |-> None]
    /\ code = [p \in Proc |-> NoCopy] /\ wrote = [p \in Proc |-> "nothing"]
    /\ deletes = 0 /\ seen = [p \in Proc |-> 0] /\ crashes = 0

tick == /\ now < MaxTime /\ now' = now + 1
        /\ UNCHANGED <<disk, locks, pc, fd, scope, tries, result, bounds>>
-----------------------------------------------------------------------------
\* ^cache[file]
cache_delete(p) ==
    /\ pc[p] = "idle" /\ deletes < MaxDeletes
    /\ unlink /\ deletes' = deletes + 1
    /\ UNCHANGED <<now, data, locks, pc, fd, scope, tries, result, crashes>>

\* ^cache[file](seconds){code}
cache(p, lifespan) ==
    /\ pc[p] = "idle"
    /\ start' = [start EXCEPT ![p] = now] /\ expires' = [expires EXCEPT ![p] = now + lifespan]
    /\ seen' = [seen EXCEPT ![p] = deletes]
    /\ \/ lifespan > 0 /\ goto(p, "get") /\ UNCHANGED file
       \/ lifespan = 0 /\ goto(p, "code without caching") /\ unlink
    /\ UNCHANGED <<now, data, locks, fd, tries, result, bounds>>

\* cache_get(): file_read_action_under_lock
cache_get(p) ==
    /\ pc[p] = "get"
    /\ \/ /\ file = None /\ goto(p, "put") /\ UNCHANGED <<fd, tries>>
       \/ /\ file # None /\ fd' = [fd EXCEPT ![p] = file] /\ goto(p, "lock shared")
          /\ tries' = [tries EXCEPT ![p] = pa_lock_attempts]
    /\ UNCHANGED <<now, disk, locks, scope, result, bounds>>

\* Mutant: the lock is waited for
pa_lock_shared_wrong(p) ==
    /\ pc[p] = "lock shared"
    /\ ex[fd[p]] = None /\ sh' = [sh EXCEPT ![fd[p]] = @ \cup {p}]
    /\ goto(p, "read") /\ tries' = [tries EXCEPT ![p] = 0]
    /\ UNCHANGED <<fd, ex, now, disk, scope, result, bounds>>

pa_lock_shared(p) ==
    /\ pc[p] = "lock shared"
    /\ \/ /\ ex[fd[p]] = None /\ sh' = [sh EXCEPT ![fd[p]] = @ \cup {p}]
          /\ tries' = [tries EXCEPT ![p] = 0]
          /\ goto(p, "read") /\ UNCHANGED <<fd, ex>>
       \/ /\ ex[fd[p]] # None /\ tries[p] > 1
          /\ tries' = [tries EXCEPT ![p] = @ - 1] /\ UNCHANGED <<pc, fd, locks>>
       \/ /\ ex[fd[p]] # None /\ tries[p] = 1
          /\ tries' = [tries EXCEPT ![p] = 0]
          /\ close(p) /\ goto(p, "put")
    /\ UNCHANGED <<now, disk, scope, result, bounds>>

\* The copy on the disk, if deserialize() takes the data
deserialize(d) == IF d \in {Empty, Junk} THEN None ELSE d
\* Mutant: the last second counts
expired_wrong(p, c) == c.expires < start[p]

expired(p, c) == c.expires <= start[p]

\* Written out, kept as body_from_disk, or ignored
read(p) ==
    /\ pc[p] = "read" /\ close(p)
    /\ LET copy == deserialize(data[fd[p]])
       IN  \/ /\ copy = None /\ goto(p, "put") /\ UNCHANGED <<old, got>>
           \/ /\ copy # None /\ expired(p, copy) /\ goto(p, "put")
              /\ old' = [old EXCEPT ![p] = copy] /\ UNCHANGED got
           \/ /\ copy # None /\ ~expired(p, copy) /\ goto(p, "written out")
              /\ got' = [got EXCEPT ![p] = copy] /\ UNCHANGED old
    /\ UNCHANGED <<now, disk, scope, tries, code, wrote, bounds>>

\* locked_process_and_cache_put(): file_write_action_under_lock
cache_put(p) ==
    /\ pc[p] = "put" /\ goto(p, "lock exclusive")
    /\ \/ /\ file # None /\ fd' = [fd EXCEPT ![p] = file] /\ UNCHANGED disk
       \/ /\ file = None
          /\ LET i == CHOOSE i \in Inode : Unlinked(i)
             IN  file' = i /\ data' = [data EXCEPT ![i] = Empty] /\ fd' = [fd EXCEPT ![p] = i]
    /\ UNCHANGED <<now, locks, scope, tries, result, bounds>>

\* Mutant: readers do not prevent it
pa_lock_exclusive_wrong(p) ==
    /\ pc[p] = "lock exclusive"
    /\ \/ /\ ex[fd[p]] = None /\ goto(p, "code")
          /\ ex' = [ex EXCEPT ![fd[p]] = p]
          /\ code' = [code EXCEPT ![p] = [NoCopy EXCEPT !.deletes = deletes]]
          /\ UNCHANGED <<fd, sh, file>>
       \/ /\ ex[fd[p]] # None
          /\ close(p) /\ goto(p, "code without caching")
          /\ file' = IF expires[p] <= now THEN None ELSE file
          /\ UNCHANGED code
    /\ UNCHANGED <<now, data, scope, tries, old, got, wrote, bounds>>

\* One attempt; without the lock the code runs later, without caching
pa_lock_exclusive(p) ==
    /\ pc[p] = "lock exclusive"
    /\ \/ /\ ex[fd[p]] = None /\ sh[fd[p]] = {} /\ goto(p, "code")
          /\ ex' = [ex EXCEPT ![fd[p]] = p]
          /\ code' = [code EXCEPT ![p] = [NoCopy EXCEPT !.deletes = deletes]]
          /\ UNCHANGED <<fd, sh, file>>
       \/ /\ ex[fd[p]] # None \/ sh[fd[p]] # {}
          /\ close(p) /\ goto(p, "code without caching")
          /\ file' = IF expires[p] <= now THEN None ELSE file
          /\ UNCHANGED code
    /\ UNCHANGED <<now, data, scope, tries, old, got, wrote, bounds>>
-----------------------------------------------------------------------------
\* ^cache(seconds) in the code: the lifetime may only get shorter
reduce(p, lifespan) ==
    /\ pc[p] = "code" /\ now + lifespan < expires[p]
    /\ expires' = [expires EXCEPT ![p] = now + lifespan]
    /\ UNCHANGED <<now, disk, locks, pc, fd, start, seen, tries, result, bounds>>

\* The code returns, or its catch code handles the error with a text of its own
\* or with the expired copy
codeEnds(p) ==
    /\ pc[p] = "code" /\ goto(p, "write")
    /\ \/ code' = [code EXCEPT ![p] = [@ EXCEPT !.limit = expires[p]]]
       \/ /\ old[p] # None
          /\ code' = [code EXCEPT ![p] = [old[p] EXCEPT !.again = TRUE, !.limit = expires[p]]]
    /\ old' = [old EXCEPT ![p] = None]
    /\ UNCHANGED <<now, disk, locks, fd, scope, tries, got, wrote, bounds>>

\* An error: nothing was written, and the file is cut at the position it has
codeFails(p) ==
    /\ pc[p] = "code" /\ store(p, Empty)
    /\ close(p) /\ Reset(p)
    /\ UNCHANGED <<now, file, bounds>>

\* write(): over the data that are there, all of it or a part
write(p) ==
    /\ pc[p] = "write" /\ goto(p, "truncate")
    /\ \/ /\ expires[p] > now
          /\ code' = [code EXCEPT ![p].expires = expires[p]] /\ UNCHANGED expires
          /\ \/ /\ wrote' = [wrote EXCEPT ![p] = "all"]
                /\ \E d \in {code'[p]} \cup (IF data[fd[p]] = Empty THEN {} ELSE {Junk}) : store(p, d)
             \/ wrote' = [wrote EXCEPT ![p] = "part"] /\ store(p, Junk)
       \/ /\ expires[p] <= now /\ expires' = [expires EXCEPT ![p] = 0]
          /\ UNCHANGED <<code, data, wrote>>
    /\ UNCHANGED <<now, file, locks, fd, start, seen, tries, old, got, bounds>>

writeFails(p) ==
    /\ pc[p] = "write" /\ expires[p] > now /\ store(p, Empty)
    /\ close(p) /\ Reset(p)
    /\ UNCHANGED <<now, file, bounds>>

\* ftruncate() at the position, unlock, close
truncate(p) ==
    /\ pc[p] = "truncate" /\ close(p) /\ goto(p, "put done")
    /\ store(p, CASE wrote[p] = "all" -> code[p] [] wrote[p] = "part" -> Junk [] OTHER -> Empty)
    /\ code' = [code EXCEPT ![p] = NoCopy] /\ wrote' = [wrote EXCEPT ![p] = "nothing"]
    /\ UNCHANGED <<now, file, scope, tries, old, got, bounds>>

\* A copy that has expired already is deleted: the file is, whatever it is now
putDone(p) ==
    /\ pc[p] = "put done" /\ goto(p, "written out")
    /\ file' = IF expires[p] <= now THEN None ELSE file
    /\ UNCHANGED <<now, data, locks, fd, scope, tries, result, bounds>>

\* The page goes on after ^cache
cacheEnds(p) ==
    /\ pc[p] \in {"written out", "code without caching"} /\ Reset(p)
    /\ UNCHANGED <<now, disk, locks, fd, bounds>>

\* A process is killed: its locks are released, the data stay
die(p) ==
    /\ pc[p] # "idle" /\ crashes < Crashes /\ crashes' = crashes + 1
    /\ close(p) /\ Reset(p)
    /\ UNCHANGED <<now, disk, deletes>>

step(p) ==
    \/ cache_get(p)
    \/ pa_lock_shared(p)
    \/ read(p)
    \/ cache_put(p)
    \/ pa_lock_exclusive(p)
    \/ write(p)
    \/ writeFails(p)
    \/ truncate(p)
    \/ putDone(p)

Next ==
    \/ tick
    \/ \E p \in Proc :
        \/ step(p)
        \/ cache_delete(p)
        \/ \E lifespan \in Lifespan : cache(p, lifespan) \/ reduce(p, lifespan)
        \/ codeEnds(p)
        \/ codeFails(p)
        \/ cacheEnds(p)
        \/ die(p)

Spec == Init /\ [][Next]_vars

\* The operator's own steps are made; the code in it may run for ever
Fairness == \A p \in Proc : WF_vars(step(p))
FairSpec == Spec /\ Fairness
-----------------------------------------------------------------------------
TypeOK ==
    /\ now \in 1 .. MaxTime /\ deletes \in 0 .. MaxDeletes /\ crashes \in 0 .. Crashes
    /\ file \in Inode \cup {None} /\ data \in [Inode -> Copy \cup {Empty, Junk}]
    /\ sh \in [Inode -> SUBSET Proc] /\ ex \in [Inode -> Proc \cup {None}]
    /\ pc \in [Proc -> {"idle", "get", "lock shared", "read", "put", "lock exclusive", "code",
                        "write", "truncate", "put done", "written out", "code without caching"}]
    /\ fd \in [Proc -> Inode \cup {None}] /\ tries \in [Proc -> 0 .. pa_lock_attempts]
    /\ start \in [Proc -> 0 .. now] /\ expires \in [Proc -> Nat] /\ seen \in [Proc -> 0 .. deletes]
    /\ old \in [Proc -> Copy \cup {None}] /\ got \in [Proc -> Copy \cup {None}]
    /\ code \in [Proc -> Copy] /\ wrote \in [Proc -> {"nothing", "all", "part"}]

\* A copy is written out only while the code that made it allows: not one whose
\* code asked for a shorter life, and not one made by code that asked for none.
OnlyFresh == \A p \in Proc : got[p] # None => got[p].limit > start[p]

\* After ^cache[file] no request gets what code that began before it has made,
\* however late that code ends.  (An expired copy that catch code asks for is
\* exempt: it was read before.)
DeletedStaysDeleted ==
    \A p \in Proc : got[p] # None => got[p].again \/ got[p].deletes >= seen[p]

\* A request gets a copy that is still to be used: not expired, and not deleted
ServedIsCurrent == OnlyFresh /\ DeletedStaysDeleted

\* Whoever renews the file has it to itself until it is cut: nobody reads a
\* half-written copy, and no other process renews the file of that name.
Renewing == {p \in Proc : pc[p] \in {"code", "write", "truncate"}}
OneRenewsFile ==
    /\ Cardinality({p \in Renewing : fd[p] = file}) <= 1
    /\ \A p \in Renewing : ex[fd[p]] = p /\ sh[fd[p]] = {}

\* A request does not wait for the code of another: it gets a copy or runs the
\* code, also when the one who renews the cache hangs.
NeverWaitsForCode ==
    \A p \in Proc : pc[p] = "get" ~>
        pc[p] \in {"idle", "code", "code without caching", "written out"}

\* operators.txt: "one request renews it, the others wait for the result and the
\* code does not run twice".
CodeRunsOnce ==
    Cardinality({p \in Proc : \/ pc[p] = "code"
                              \/ pc[p] = "code without caching" /\ expires[p] > now}) <= 1
=============================================================================
