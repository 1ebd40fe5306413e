-------------------------- MODULE SqlDriverManager --------------------------
(***************************************************************************)
(* The cache of SQL connections and the ^connect operator that uses it.    *)
(*                                                                         *)
(* A request takes a connection from the stack of its url, or makes one,   *)
(* runs the body of ^connect, commits or rolls back and puts it back.  At  *)
(* the start of a request connections unused for a while are disconnected  *)
(* where they are: a disconnected one stays in its stack until it is       *)
(* popped.  Taking and putting lock the global mutex; the expiration pass  *)
(* does not.  Several threads use one cache in the threaded server; in the *)
(* other targets Thread has one member.                                    *)
(*                                                                         *)
(* A Handle is what the database driver returns.  A closed one may be      *)
(* returned again, as an address or a descriptor is.                       *)
(***************************************************************************)
EXTENDS Integers, Sequences, FiniteSets

CONSTANTS Thread, Url,
          Conn,      \* the SQL_Connection objects, garbage collected
          Handle,    \* the connections the database allows
          None,
          Expire,    \* EXPIRE_UNUSED_CONNECTION_SECONDS; the check is at twice that
          MaxTime,   \* bound: the clock
          MaxNest    \* bound: ^connect inside ^connect

ASSUME NoneAssumption == None \notin Conn \cup Handle \cup Url
ASSUME TimeAssumption == Expire \in Nat \ {0} /\ MaxTime \in Nat /\ MaxNest \in Nat \ {0}

VARIABLES now,
          cache,       \* connection_cache: a stack for each url
          prev,        \* prev_expiration_pass_time
          furl, handle, used, \* of each SQL_Connection: furl, fconnection, time_used
          pc,
          held,        \* of each thread: its connections, the innermost last
          url,         \* of each thread: the url get_connection() works on
          start,       \* of each thread: when its request began
          pass, at,    \* of each thread: its expiration pass, and the connection in it
          open, dirty  \* the database: open handles, those with uncommitted work

vars == <<now, cache, prev, furl, handle, used, pc, held, url, start, pass, at, open, dirty>>

db == <<open, dirty>>
conns == <<furl, handle, used>>
NoPass == [now |-> 0, todo |-> {}, url |-> None, i |-> 1]
CHECK_EXPIRED_CONNECTIONS_SECONDS == 2 * Expire
-----------------------------------------------------------------------------
Members(s) == {s[i] : i \in DOMAIN s}
top(t) == held[t][Len(held[t])]
Held == UNION {Members(held[t]) : t \in Thread}
Cached == UNION {Members(cache[u]) : u \in Url}
Garbage == Conn \ (Held \cup Cached \cup Members(at))
goto(t, p) == pc' = [pc EXCEPT ![t] = p]
drop(t) == held' = [held EXCEPT ![t] = SubSeq(@, 1, Len(@) - 1)]
use(c) == used' = [used EXCEPT ![c] = now]

\* An exception in ^connect: the request fails, or a ^try in the body of an
\* enclosing ^connect goes on, or that one fails too
propagate(t) ==
    \E p \in IF Len(held[t]) > 1 THEN {"body", "rollback"} ELSE {"ready"} : goto(t, p)

Init ==
    /\ now = 0 /\ prev = 0 /\ cache = [u \in Url |-> <<>>]
    /\ furl = [c \in Conn |-> None] /\ handle = [c \in Conn |-> None] /\ used = [c \in Conn |-> 0]
    /\ pc = [t \in Thread |-> "idle"] /\ held = [t \in Thread |-> <<>>]
    /\ url = [t \in Thread |-> None] /\ start = [t \in Thread |-> 0]
    /\ pass = [t \in Thread |-> NoPass] /\ at = [t \in Thread |-> None]
    /\ open = {} /\ dirty = {}

tick == /\ now < MaxTime /\ now' = now + 1
        /\ UNCHANGED <<cache, prev, conns, pc, held, url, start, pass, at, db>>
-----------------------------------------------------------------------------
\* The start of a request: maybe_expire_cache()

\* Mutant: the time of the pass is recorded and the pass is not made
maybe_expire_cache_wrong(t) ==
    /\ pc[t] = "idle" /\ start' = [start EXCEPT ![t] = now]
    /\ prev' = IF prev < now - CHECK_EXPIRED_CONNECTIONS_SECONDS THEN now ELSE prev
    /\ goto(t, "ready")
    /\ UNCHANGED <<now, cache, conns, held, url, pass, db, at>>

maybe_expire_cache(t) ==
    /\ pc[t] = "idle" /\ start' = [start EXCEPT ![t] = now]
    /\ IF prev < now - CHECK_EXPIRED_CONNECTIONS_SECONDS
       THEN pass' = [pass EXCEPT ![t] = [now |-> now, todo |-> Url, url |-> None, i |-> 1]] /\ goto(t, "expire")
       ELSE goto(t, "ready") /\ UNCHANGED pass
    /\ UNCHANGED <<now, cache, prev, conns, held, url, db, at>>

\* for_each: the next url, in the order of the hash
expire_connections(t, u) ==
    /\ pc[t] = "expire" /\ pass[t].url = None /\ u \in pass[t].todo
    /\ pass' = [pass EXCEPT ![t].url = u, ![t].todo = @ \ {u}, ![t].i = 1]
    /\ UNCHANGED <<now, cache, prev, conns, pc, held, url, start, at, db>>

\* The connection the pass is at, if the stack still has that many
expire_connection(t) ==
    /\ pc[t] = "expire" /\ pass[t].url # None
    /\ LET stack == cache[pass[t].url]
           c == stack[pass[t].i]
       IN  \/ /\ pass[t].i > Len(stack)
              /\ pass' = [pass EXCEPT ![t].url = None] /\ UNCHANGED <<pc, at>>
           \/ /\ pass[t].i <= Len(stack) /\ at' = [at EXCEPT ![t] = c]
              /\ pass' = [pass EXCEPT ![t].i = @ + 1]
              /\ IF handle[c] # None /\ used[c] < pass[t].now - Expire
                 THEN goto(t, "disconnect") ELSE UNCHANGED pc
    /\ UNCHANGED <<now, cache, prev, conns, held, url, start, db>>

\* SQL_Connection::disconnect: the driver's call, then fconnection=0
disconnect(t) ==
    /\ \/ /\ pc[t] = "disconnect" /\ goto(t, "disconnected")
          /\ open' = open \ {handle[at[t]]} /\ dirty' = dirty \ {handle[at[t]]}
          /\ UNCHANGED handle
       \/ /\ pc[t] = "disconnected" /\ goto(t, "expire")
          /\ handle' = [handle EXCEPT ![at[t]] = None]
          /\ UNCHANGED db
    /\ UNCHANGED <<now, cache, prev, furl, used, held, url, start, pass, at>>

passDone(t) ==
    /\ pc[t] = "expire" /\ pass[t].todo = {} /\ pass[t].url = None
    /\ prev' = pass[t].now /\ goto(t, "ready")
    /\ pass' = [pass EXCEPT ![t] = NoPass] /\ at' = [at EXCEPT ![t] = None]
    /\ UNCHANGED <<now, cache, conns, held, url, start, db>>
-----------------------------------------------------------------------------
\* get_connection()

\* Mutant: disconnected connections are not skipped
get_connection_from_cache_wrong(t, u) ==
    /\ pc[t] \in {"ready", "body"} /\ Len(held[t]) < MaxNest
    /\ url' = [url EXCEPT ![t] = u]
    /\ IF cache[u] = <<>>
       THEN goto(t, "connect") /\ UNCHANGED <<held, cache>>
       ELSE /\ held' = [held EXCEPT ![t] = Append(@, cache[u][Len(cache[u])])]
            /\ cache' = [cache EXCEPT ![u] = SubSeq(@, 1, Len(@) - 1)]
            /\ goto(t, "ping")
    /\ UNCHANGED <<now, prev, conns, start, pass, at, db>>

\* Pops until there is a connected one
get_connection_from_cache(t, u) ==
    /\ pc[t] \in {"ready", "body"} /\ Len(held[t]) < MaxNest
    /\ url' = [url EXCEPT ![t] = u]
    /\ LET live == {i \in DOMAIN cache[u] : handle[cache[u][i]] # None}
       IN  IF live = {}
           THEN /\ cache' = [cache EXCEPT ![u] = <<>>]
                /\ goto(t, "connect") /\ UNCHANGED held
           ELSE \E k \in live :
                /\ \A i \in live : i <= k
                /\ cache' = [cache EXCEPT ![u] = SubSeq(@, 1, k - 1)]
                /\ held' = [held EXCEPT ![t] = Append(@, cache[u][k])]
                /\ goto(t, "ping")
    /\ UNCHANGED <<now, prev, conns, start, pass, at, db>>

\* Alive, dead or an exception; a dead one is disconnected and replaced
ping(t) ==
    /\ pc[t] = "ping" /\ use(top(t))
    /\ \/ /\ goto(t, IF handle[top(t)] # None THEN "body" ELSE "reconnect")
          /\ UNCHANGED <<held, handle, db>>
       \/ /\ goto(t, "connect") /\ drop(t)
          /\ open' = open \ {handle[top(t)]} /\ dirty' = dirty \ {handle[top(t)]}
          /\ handle' = [handle EXCEPT ![top(t)] = None]
       \/ propagate(t) /\ drop(t) /\ UNCHANGED <<handle, db>>
    /\ UNCHANGED <<now, cache, prev, furl, url, start, at, pass>>

\* A new SQL_Connection, or an exception of the driver
connect(t) ==
    /\ pc[t] = "connect"
    /\ \/ \E c \in Garbage, h \in Handle \ open :
              /\ handle' = [handle EXCEPT ![c] = h] /\ open' = open \cup {h}
              /\ furl' = [furl EXCEPT ![c] = url[t]]
              /\ use(c) /\ held' = [held EXCEPT ![t] = Append(@, c)]
              /\ goto(t, "body")
       \/ /\ \E p \in IF held[t] = <<>> THEN {"ready"} ELSE {"body", "rollback"} : goto(t, p)
          /\ UNCHANGED <<conns, held, open>>
    /\ UNCHANGED <<now, cache, prev, url, start, pass, at, dirty>>
-----------------------------------------------------------------------------
\* ^connect: its body, commit() or rollback(), close()

query(t) ==
    /\ pc[t] = "body" /\ use(top(t))
    /\ dirty' = dirty \cup {handle[top(t)]}
    /\ \E p \in {"body", "rollback"} : goto(t, p)
    /\ UNCHANGED <<now, cache, prev, furl, handle, held, url, start, pass, at, open>>

bodyEnds(t) ==
    /\ pc[t] = "body" /\ \E p \in {"commit", "rollback"} : goto(t, p)
    /\ UNCHANGED <<now, cache, prev, conns, held, url, start, pass, at, db>>

\* Mutant: close() before commit()
commit_wrong(t) ==
    /\ pc[t] = "commit" /\ use(top(t))
    /\ cache' = [cache EXCEPT ![furl[top(t)]] = Append(@, top(t))]
    /\ \/ /\ dirty' = dirty \ {handle[top(t)]} /\ drop(t)
          /\ goto(t, IF Len(held[t]) > 1 THEN "body" ELSE "ready")
       \/ goto(t, "rollback") /\ UNCHANGED <<dirty, held>>
    /\ UNCHANGED <<now, prev, furl, handle, url, start, pass, at, open>>

commit(t) ==
    /\ pc[t] = "commit" /\ use(top(t))
    /\ \/ dirty' = dirty \ {handle[top(t)]} /\ goto(t, "close")
       \/ goto(t, "rollback") /\ UNCHANGED dirty
    /\ UNCHANGED <<now, cache, prev, furl, handle, held, url, start, pass, at, open>>

\* When rollback() throws, close() is not called and the connection is lost
rollback(t) ==
    /\ pc[t] = "rollback" /\ use(top(t))
    /\ \/ /\ dirty' = dirty \ {handle[top(t)]} /\ goto(t, "rolledback")
          /\ UNCHANGED held
       \/ propagate(t) /\ drop(t) /\ UNCHANGED dirty
    /\ UNCHANGED <<now, cache, prev, furl, handle, url, start, pass, at, open>>

\* put_connection_to_cache(), then the code after ^connect or the exception
close(t) ==
    /\ pc[t] \in {"close", "rolledback"}
    /\ cache' = [cache EXCEPT ![furl[top(t)]] = Append(@, top(t))]
    /\ drop(t)
    /\ IF pc[t] = "rolledback" THEN propagate(t)
       ELSE goto(t, IF Len(held[t]) > 1 THEN "body" ELSE "ready")
    /\ UNCHANGED <<now, prev, conns, url, start, pass, at, db>>

requestEnds(t) ==
    /\ pc[t] = "ready" /\ goto(t, "idle")
    /\ url' = [url EXCEPT ![t] = None] /\ start' = [start EXCEPT ![t] = 0]
    /\ UNCHANGED <<now, cache, prev, conns, held, pass, at, db>>

request(t) ==
    \/ maybe_expire_cache(t)
    \/ \E u \in Url : expire_connections(t, u) \/ get_connection_from_cache(t, u)
    \/ expire_connection(t)
    \/ disconnect(t)
    \/ passDone(t)
    \/ ping(t)
    \/ connect(t)
    \/ query(t)
    \/ bodyEnds(t)
    \/ commit(t)
    \/ rollback(t)
    \/ close(t)
    \/ requestEnds(t)

Next == tick \/ \E t \in Thread : request(t)

Spec == Init /\ [][Next]_vars
-----------------------------------------------------------------------------
TypeOK ==
    /\ now \in 0 .. MaxTime /\ prev \in 0 .. now
    /\ cache \in [Url -> Seq(Conn)] /\ held \in [Thread -> Seq(Conn)]
    /\ furl \in [Conn -> Url \cup {None}] /\ used \in [Conn -> 0 .. now]
    /\ handle \in [Conn -> Handle \cup {None}]
    /\ pc \in [Thread -> {"idle", "expire", "disconnect", "disconnected", "ready", "ping",
                          "reconnect", "connect", "body", "commit", "close", "rollback",
                          "rolledback"}]
    /\ url \in [Thread -> Url \cup {None}] /\ start \in [Thread -> 0 .. now]
    /\ pass \in [Thread -> [now : 0 .. now, todo : SUBSET Url, url : Url \cup {None}, i : Nat]]
    /\ at \in [Thread -> Conn \cup {None}]
    /\ open \subseteq Handle /\ dirty \subseteq Handle

\* A connection is in one place: one stack, once, or one ^connect of one request.
ExclusiveUse ==
    /\ \A u, v \in Url : \A i \in DOMAIN cache[u], j \in DOMAIN cache[v] :
           cache[u][i] = cache[v][j] => u = v /\ i = j
    /\ \A s, t \in Thread : \A i \in DOMAIN held[s], j \in DOMAIN held[t] :
           held[s][i] = held[t][j] => s = t /\ i = j
    /\ Held \cap Cached = {}

\* What a request left uncommitted is never committed by the next user of the
\* connection: a cached connection has no open transaction.
CleanInCache == \A c \in Cached : handle[c] \notin dirty

\* The cached connection a request gets was used at most three periods ago
\* when the request began: one a database may have closed meanwhile is not pinged.
StaleNotReused ==
    \A t \in Thread : pc[t] = "ping" /\ Len(held[t]) = 1 =>
        used[top(t)] >= start[t] - CHECK_EXPIRED_CONNECTIONS_SECONDS - Expire

\* What the cache gives to a request can be used as it is
CacheHoldsUsable == CleanInCache /\ StaleNotReused

\* The driver is called with open connections, each the handle of one
\* SQL_Connection only.
OwnHandle(c) == /\ handle[c] \in open
                /\ \A d \in (Held \cup Cached) \ {c} : handle[d] # handle[c]
UsedConnected ==
    \A t \in Thread :
        /\ pc[t] \in {"ping", "body", "commit", "rollback"} => OwnHandle(top(t))
        /\ pc[t] = "disconnect" => OwnHandle(at[t])
=============================================================================
