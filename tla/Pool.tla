-------------------------------- MODULE Pool --------------------------------
(***************************************************************************)
(* The connection pool of internal/clickhouse/client.go: Get, connect with *)
(* its per-key dial mutex, the health loop, the evictions and CloseAll.    *)
(*                                                                         *)
(* A critical section of p.mu is one action, because nothing in it blocks. *)
(* What happens between two sections (a lookup and the use of what it      *)
(* found, a snapshot and the eviction of one of its entries) is in         *)
(* separate actions, so that every other goroutine may run in between.     *)
(***************************************************************************)
EXTENDS Integers, FiniteSets

CONSTANTS
    Keys,               \* ConnParams.key() values: one per server, user, database
    Callers,            \* goroutines that serve requests and call Get
    KeyOf,              \* the key of the connection parameters a caller brings
    Conns,              \* identities of *Client, each with its driver connection
    NoConn,             \* nil
    NoCaller,           \* the dial mutex is free
    MaxPoolSize,        \* maxPoolSize
    IdleEvictThreshold, \* idleEvictThreshold, in ticks of clock
    HealthyKeys,        \* keys whose server answers or refuses a connection in the end
    MaxGets             \* bound: how often one caller calls Get

ASSUME KeyOfAssumption == KeyOf \in [Callers -> Keys]
ASSUME HealthyKeysAssumption == HealthyKeys \subseteq Keys
ASSUME NoConnAssumption == NoConn \notin Conns
ASSUME NoCallerAssumption == NoCaller \notin Callers
ASSUME BoundsAssumption ==
    MaxPoolSize \in Nat /\ IdleEvictThreshold \in Nat /\ MaxGets \in Nat

VARIABLES
    clients,    \* p.clients: the pooled client of each key, or NoConn
    dial,       \* p.dials: the caller holding the dial mutex of each key
    done,       \* p.done is closed
    link,       \* the driver connection: "unborn", "open", "closed", "double" (closed twice)
    aged,       \* clients whose createdAt is connMaxAge or more ago
    lastUsed,   \* c.lastUsed, the clock reading at the last touch
    clock,      \* wall clock, which may show the same time again
    pc,         \* where a caller is in Get and connect
    got,        \* the local variable c of Get and connect
    gets,       \* calls of Get so far, bounded by MaxGets
    round       \* checkHealth: entries of the snapshot it has yet to visit

vars == <<clients, dial, done, link, aged, lastUsed, clock, pc, got, gets, round>>
timing == <<aged, lastUsed, clock>>

(***************************************************************************)
(* "found" and "refound" hold an entry read under RLock that is not yet    *)
(* examined; "dial" waits for the dial mutex; "recheck" to "publish" own   *)
(* it; "using" runs queries on the client that Get returned.               *)
(***************************************************************************)
Owning == {"recheck", "refound", "open", "ping", "publish"}
Places == {"idle", "found", "dial", "using"} \union Owning

Pooled == {c \in Conns : \E k \in Keys : clients[k] = c}

Init ==
    /\ clients = [k \in Keys |-> NoConn]
    /\ dial = [k \in Keys |-> NoCaller]
    /\ done = FALSE
    /\ link = [c \in Conns |-> "unborn"]
    /\ aged = {}
    /\ lastUsed = [c \in Conns |-> 0]
    /\ clock = 1
    /\ pc = [u \in Callers |-> "idle"]
    /\ got = [u \in Callers |-> NoConn]
    /\ gets = [u \in Callers |-> 0]
    /\ round = {}

-----------------------------------------------------------------------------
(* What the operations are made of.                                        *)

Goto(u, place) == pc' = [pc EXCEPT ![u] = place]

Close(links, c) ==
    [links EXCEPT ![c] = IF @ = "open" THEN "closed" ELSE "double"]

\* Mutant: no identity check.
EvictUnchecked(k, c) ==
    /\ clients' = [clients EXCEPT ![k] = NoConn]
    /\ link' = Close(link, c)

\* evictLocked under p.mu: only the very client that was examined goes.
Evict(k, c) ==
    IF clients[k] = c
    THEN /\ clients' = [clients EXCEPT ![k] = NoConn]
         /\ link' = Close(link, c)
    ELSE UNCHANGED <<clients, link>>

Touch(c) ==
    /\ lastUsed' = [lastUsed EXCEPT ![c] = clock]
    /\ clock' \in {clock, clock + 1}
    /\ UNCHANGED aged

IdleFor(c) == clock - lastUsed[c]

\* The two passes of the eviction scan in connect.
LongIdle == {c \in Pooled : IdleFor(c) >= IdleEvictThreshold /\ IdleFor(c) > 0}
Candidates == IF LongIdle # {} THEN LongIdle ELSE {c \in Pooled : IdleFor(c) > 0}
Victims == {c \in Candidates : \A d \in Candidates : IdleFor(d) <= IdleFor(c)}

Unlock(u) == dial' = [dial EXCEPT ![KeyOf[u]] = NoCaller]

\* Return c to the request, or an error when c is NoConn.
Return(u, c) ==
    /\ got' = [got EXCEPT ![u] = c]
    /\ Goto(u, IF c = NoConn THEN "idle" ELSE "using")

-----------------------------------------------------------------------------
(* Get                                                                     *)

Lookup(u) ==
    /\ ~done                    \* the server no longer accepts requests
    /\ pc[u] = "idle"
    /\ gets[u] < MaxGets
    /\ gets' = [gets EXCEPT ![u] = @ + 1]
    /\ got' = [got EXCEPT ![u] = clients[KeyOf[u]]]
    /\ Goto(u, IF clients[KeyOf[u]] = NoConn THEN "dial" ELSE "found")
    /\ UNCHANGED <<clients, dial, done, link, timing, round>>

Hit(u) ==
    /\ pc[u] = "found"
    /\ got[u] \notin aged
    /\ Touch(got[u])
    /\ Return(u, got[u])
    /\ UNCHANGED <<clients, dial, done, link, gets, round>>

Stale(u) ==
    /\ pc[u] = "found"
    /\ got[u] \in aged
    /\ Evict(KeyOf[u], got[u])
    /\ got' = [got EXCEPT ![u] = NoConn]
    /\ Goto(u, "dial")
    /\ UNCHANGED <<dial, done, timing, gets, round>>

(* connect                                                                 *)

\* Mutant: one dial mutex for the whole pool.
LockDialGlobal(u) ==
    /\ pc[u] = "dial"
    /\ \A k \in Keys : dial[k] = NoCaller
    /\ dial' = [dial EXCEPT ![KeyOf[u]] = u]
    /\ Goto(u, "recheck")
    /\ UNCHANGED <<clients, done, link, timing, got, gets, round>>

LockDial(u) ==
    /\ pc[u] = "dial"
    /\ dial[KeyOf[u]] = NoCaller
    /\ dial' = [dial EXCEPT ![KeyOf[u]] = u]
    /\ Goto(u, "recheck")
    /\ UNCHANGED <<clients, done, link, timing, got, gets, round>>

\* Mutant: no second lookup under the dial mutex.
RecheckBlind(u) ==
    /\ pc[u] = "recheck"
    /\ Goto(u, "open")
    /\ UNCHANGED <<clients, dial, done, link, timing, got, gets, round>>

Recheck(u) ==
    /\ pc[u] = "recheck"
    /\ got' = [got EXCEPT ![u] = clients[KeyOf[u]]]
    /\ Goto(u, IF clients[KeyOf[u]] = NoConn THEN "open" ELSE "refound")
    /\ UNCHANGED <<clients, dial, done, link, timing, gets, round>>

RecheckHit(u) ==
    /\ pc[u] = "refound"
    /\ got[u] \notin aged
    /\ Touch(got[u])
    /\ Return(u, got[u])
    /\ Unlock(u)
    /\ UNCHANGED <<clients, done, link, gets, round>>

RecheckStale(u) ==
    /\ pc[u] = "refound"
    /\ got[u] \in aged
    /\ Evict(KeyOf[u], got[u])
    /\ got' = [got EXCEPT ![u] = NoConn]
    /\ Goto(u, "open")
    /\ UNCHANGED <<dial, done, timing, gets, round>>

\* Mutant: the error is dropped and a nil client returned.
OpenFailsNilClient(u) ==
    /\ pc[u] = "open"
    /\ got' = [got EXCEPT ![u] = NoConn]
    /\ Goto(u, "using")
    /\ Unlock(u)
    /\ UNCHANGED <<clients, done, link, timing, gets, round>>

\* url.Parse or ch.Open fails.
OpenFails(u) ==
    /\ pc[u] = "open"
    /\ Return(u, NoConn)
    /\ Unlock(u)
    /\ UNCHANGED <<clients, done, link, timing, gets, round>>

Open(u) ==
    /\ pc[u] = "open"
    /\ \E c \in Conns :
         /\ link[c] = "unborn"
         /\ link' = [link EXCEPT ![c] = "open"]
         /\ got' = [got EXCEPT ![u] = c]
    /\ Goto(u, "ping")
    /\ UNCHANGED <<clients, dial, done, timing, gets, round>>

\* Mutant: conn.Close() forgotten on the error path.
PingFailsLeaks(u) ==
    /\ pc[u] = "ping"
    /\ Return(u, NoConn)
    /\ Unlock(u)
    /\ UNCHANGED <<clients, done, link, timing, gets, round>>

PingFails(u) ==
    /\ pc[u] = "ping"
    /\ link' = Close(link, got[u])
    /\ Return(u, NoConn)
    /\ Unlock(u)
    /\ UNCHANGED <<clients, done, timing, gets, round>>

\* The ping answers, the cluster, version and timezone are detected, and the
\* new client is stamped and touched; it is not in the pool yet.
PingAnswers(u) ==
    /\ pc[u] = "ping"
    /\ Touch(got[u])
    /\ Goto(u, "publish")
    /\ UNCHANGED <<clients, dial, done, link, got, gets, round>>

\* The scan evicts a victim whenever it finds one: it never compares
\* len(p.clients) with maxPoolSize.
Publish(u) ==
    /\ pc[u] = "publish"
    /\ \/ /\ Candidates = {}
          /\ clients' = [clients EXCEPT ![KeyOf[u]] = got[u]]
          /\ UNCHANGED link
       \/ \E v \in Victims :
            /\ clients' = [k \in Keys |->
                  IF k = KeyOf[u] THEN got[u]
                  ELSE IF clients[k] = v THEN NoConn ELSE clients[k]]
            /\ link' = Close(link, v)
    /\ Return(u, got[u])
    /\ Unlock(u)
    /\ UNCHANGED <<done, timing, gets, round>>

\* The request, or the detached job it started, is over.
Finish(u) ==
    /\ pc[u] = "using"
    /\ Return(u, NoConn)
    /\ UNCHANGED <<clients, dial, done, link, timing, gets, round>>

-----------------------------------------------------------------------------
(* Time, the health loop and shutdown.                                     *)

Age(c) ==
    /\ link[c] = "open"
    /\ lastUsed[c] > 0          \* createdAt is set
    /\ c \notin aged
    /\ aged' = aged \union {c}
    /\ UNCHANGED <<clients, dial, done, link, lastUsed, clock, pc, got, gets, round>>

Snapshot ==
    /\ ~done
    /\ round = {}
    /\ round' = {e \in Keys \X Conns : clients[e[1]] = e[2]}
    /\ UNCHANGED <<clients, dial, done, link, timing, pc, got, gets>>

\* Mutant: the age of a client is not examined.
VisitIgnoresAge(k, c) ==
    /\ <<k, c>> \in round
    /\ round' = round \ {<<k, c>>}
    /\ Evict(k, c) \/ UNCHANGED <<clients, link>>
    /\ UNCHANGED <<dial, done, timing, pc, got, gets>>

\* An expired client is evicted; any other is pinged, outside p.mu, and
\* evicted when the ping fails.
Visit(k, c) ==
    /\ <<k, c>> \in round
    /\ round' = round \ {<<k, c>>}
    /\ \/ Evict(k, c)
       \/ c \notin aged /\ UNCHANGED <<clients, link>>
    /\ UNCHANGED <<dial, done, timing, pc, got, gets>>

\* main calls CloseAll once Shutdown has waited for every request handler;
\* only detached jobs may still be using a client.
CloseAll ==
    /\ ~done
    /\ \A u \in Callers : pc[u] \in {"idle", "using"}
    /\ done' = TRUE
    /\ link' = [c \in Conns |-> IF c \in Pooled THEN Close(link, c)[c] ELSE link[c]]
    /\ clients' = [k \in Keys |-> NoConn]
    /\ UNCHANGED <<dial, timing, pc, got, gets, round>>

-----------------------------------------------------------------------------

\* The steps by which a call of Get that has begun comes to its end.
GetStep(u) ==
    \/ Hit(u) \/ Stale(u)
    \/ Recheck(u) \/ RecheckHit(u) \/ RecheckStale(u)
    \/ OpenFails(u) \/ Open(u)
    \/ PingFails(u) \/ PingAnswers(u)
    \/ Publish(u)

Next ==
    \/ \E u \in Callers : Lookup(u) \/ LockDial(u) \/ GetStep(u) \/ Finish(u)
    \/ \E c \in Conns : Age(c)
    \/ Snapshot
    \/ \E k \in Keys, c \in Conns : Visit(k, c)
    \/ CloseAll

Spec == Init /\ [][Next]_vars

(***************************************************************************)
(* A goroutine that can run does, and Go's mutexes hand themselves to a    *)
(* waiter in the end (starvation mode).  Nothing is assumed of the callers *)
(* of an unhealthy key, whose server may never answer, nor of the health   *)
(* loop, which may be stuck in a ping.                                     *)
(***************************************************************************)
GetFairness ==
    \A u \in Callers : KeyOf[u] \in HealthyKeys =>
        WF_vars(GetStep(u)) /\ SF_vars(LockDial(u))

\* The health loop ticks, and each of its pings ends within five seconds.
HealthFairness ==
    WF_vars(Snapshot) /\ \A k \in Keys, c \in Conns : WF_vars(Visit(k, c))

FairSpec == Spec /\ GetFairness

-----------------------------------------------------------------------------
(* Properties                                                              *)

\* Every variable has its type, and no request is handed a nil client.
TypeOK ==
    /\ clients \in [Keys -> Conns \union {NoConn}]
    /\ dial \in [Keys -> Callers \union {NoCaller}]
    /\ done \in BOOLEAN
    /\ link \in [Conns -> {"unborn", "open", "closed", "double"}]
    /\ aged \subseteq Conns
    /\ lastUsed \in [Conns -> Nat]
    /\ clock \in Nat
    /\ pc \in [Callers -> Places]
    /\ got \in [Callers -> Conns \union {NoConn}]
    /\ gets \in [Callers -> Nat]
    /\ round \subseteq Keys \X Conns
    /\ \A u \in Callers :
         pc[u] \in {"found", "refound", "ping", "publish", "using"} => got[u] # NoConn

\* Clients whose connection is this key's business: the pooled one and the
\* ones callers are still connecting.
ClientsOf(k) ==
    {c \in Conns : \/ clients[k] = c
                   \/ \E u \in Callers : /\ KeyOf[u] = k
                                         /\ pc[u] \in {"ping", "publish"}
                                         /\ got[u] = c}

\* However many requests miss at once, and whoever evicts meanwhile, a key
\* has at most one connection, pooled or being dialled: the dial mutex and
\* the second lookup of connect make the misses share one dial.
OneConnectionPerKey == \A k \in Keys : \A c, d \in ClientsOf(k) : c = d

PooledIsOpen == \A c \in Pooled : link[c] = "open"
NoDoubleClose == \A c \in Conns : link[c] # "double"

\* The map never offers a closed connection, and none is closed twice,
\* although a request, the health loop, the eviction scan and CloseAll may all
\* be about to close it: whoever does removes it in the same critical section.
ClosesOnce == PooledIsOpen /\ NoDoubleClose

NoLeak == \A c \in Conns : link[c] = "open" => \E k \in Keys : c \in ClientsOf(k)
AllClosedAtShutdown == done => \A c \in Conns : link[c] # "open"

\* An open connection is in the map or in the hands of a caller that will
\* publish or close it, so something can always close it; once CloseAll has
\* run none is open, for no dial was under way (connect, evict, CloseAll).
LeaksNothing == NoLeak /\ AllClosedAtShutdown

\* When a new client makes room for itself, every client it leaves in the
\* pool was used at least as recently as the one it closes (connect).
EvictsLeastRecentlyUsed ==
    [][\A u \in Callers : pc[u] = "publish" /\ pc'[u] = "using" =>
         \A c, d \in Pooled :
            link'[c] = "closed" /\ link'[d] = "open" => lastUsed[c] <= lastUsed[d]]_vars

\* "Pool full: evict the least-recently-used client" (client.go:353): a new
\* client closes another one only when the pool holds maxPoolSize of them.
EvictsOnlyWhenFull ==
    [][\A u \in Callers : pc[u] = "publish" /\ pc'[u] = "using" =>
         \A c \in Pooled : link'[c] = "closed" => Cardinality(Pooled) >= MaxPoolSize]_vars

\* A call of Get for a server that answers returns, even while the servers
\* of other keys and the health loop's ping hang (checkHealth's comment: "a
\* slow node must not block Get() for every other tenant of the pool").
GetReturns ==
    \A u \in Callers : KeyOf[u] \in HealthyKeys =>
        (pc[u] \notin {"idle", "using"} ~> pc[u] \in {"idle", "using"})

\* A client older than connMaxAge leaves the pool even when nobody asks for
\* it again, if the health loop goes on (checkHealth).
ExpiredLeaves ==
    HealthFairness => \A c \in Conns : (c \in aged /\ c \in Pooled) ~> c \notin Pooled
=============================================================================
