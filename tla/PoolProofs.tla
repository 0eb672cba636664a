----------------------------- MODULE PoolProofs -----------------------------
(***************************************************************************)
(* Proofs about Pool: for any keys, callers and clients, the pool has one  *)
(* connection per key, offers only open ones, closes none twice, leaks     *)
(* none, and leaves none open at shutdown.                                 *)
(***************************************************************************)
EXTENDS Pool, TLAPS

USE KeyOfAssumption, NoConnAssumption, NoCallerAssumption, BoundsAssumption

(***************************************************************************)
(* The inductive invariant.  The properties say nothing of the callers'    *)
(* places, so they are not inductive: that a new client is published over  *)
(* an empty entry, for instance, rests on the dial mutex being held since  *)
(* the second lookup.                                                      *)
(***************************************************************************)

\* The dial mutex of a key is held by exactly the caller inside connect.
DialHeld ==
    /\ \A u \in Callers : pc[u] \in Owning => dial[KeyOf[u]] = u
    /\ \A k \in Keys : \A u \in Callers : dial[k] = u => pc[u] \in Owning /\ KeyOf[u] = k

\* What the holder of the dial mutex knows of its key's entry.
EntryUnderDial ==
    \A u \in Callers :
        /\ pc[u] = "refound" => clients[KeyOf[u]] \in {got[u], NoConn}
        /\ pc[u] \in {"open", "ping", "publish"} => clients[KeyOf[u]] = NoConn

\* A connection being dialled is open and nobody else's.
DialledIsPrivate ==
    \A u \in Callers : pc[u] \in {"ping", "publish"} =>
        /\ link[got[u]] = "open"
        /\ \A k \in Keys : clients[k] # got[u]
        /\ \A v \in Callers : pc[v] \in {"ping", "publish"} /\ got[v] = got[u] => v = u

\* The same client is not pooled under two keys.
PooledOnce ==
    \A k, l \in Keys : clients[k] = clients[l] /\ clients[k] # NoConn => k = l

QuietAfterShutdown == done => \A u \in Callers : pc[u] \in {"idle", "using"}

\* No touch lies in the future.
TouchedBefore == \A c \in Conns : lastUsed[c] <= clock

IInv ==
    /\ TypeOK
    /\ DialHeld
    /\ EntryUnderDial
    /\ DialledIsPrivate
    /\ PooledOnce
    /\ PooledIsOpen
    /\ NoDoubleClose
    /\ NoLeak
    /\ QuietAfterShutdown
    /\ AllClosedAtShutdown
    /\ TouchedBefore

-----------------------------------------------------------------------------
(* Two facts about evictions, used by every action that evicts.            *)

\* The scan of connect has two passes, and both find the least recently used
\* client, if any has been idle at all: the threshold decides which pass finds
\* it, never what is found.
THEOREM BothPassesFindTheOldest ==
    ASSUME TypeOK
    PROVE  Victims = {c \in Pooled : /\ IdleFor(c) > 0
                                     /\ \A d \in Pooled : lastUsed[c] <= lastUsed[d]}
<1> USE DEF TypeOK, IdleFor
<1>1. Pooled \subseteq Conns
    BY DEF Pooled
<1>2. \A c \in Pooled : lastUsed[c] \in Int /\ clock \in Int /\ IdleEvictThreshold \in Int
    BY <1>1
<1>3. \A c, d \in Pooled : IdleFor(d) <= IdleFor(c) <=> lastUsed[c] <= lastUsed[d]
    BY <1>2
<1>4. CASE LongIdle = {}
    <2>1. Candidates = {c \in Pooled : IdleFor(c) > 0}
        BY <1>4 DEF Candidates
    <2>. QED  BY <2>1, <1>1, <1>2 DEF Victims
<1>5. CASE LongIdle # {}
    <2>1. Candidates = LongIdle
        BY <1>5 DEF Candidates
    <2>2. LongIdle \subseteq Pooled
        BY DEF LongIdle
    <2>3. \A c \in LongIdle, d \in Pooled \ LongIdle : lastUsed[c] <= lastUsed[d]
        BY <1>1, <1>2 DEF LongIdle
    <2>4. \A d \in Pooled \ LongIdle : \E c \in LongIdle : ~(lastUsed[d] <= lastUsed[c])
        BY <1>1, <1>2, <1>5, <2>2 DEF LongIdle
    <2>. QED  BY <2>1, <2>2, <2>3, <2>4, <1>1, <1>2 DEF Victims, LongIdle
<1>. QED  BY <1>4, <1>5

\* Evict closes an open pooled client and empties its entry, or does nothing.
LEMMA EvictEffect ==
    ASSUME IInv, NEW k \in Keys, NEW c \in Conns, Evict(k, c)
    PROVE  \/ UNCHANGED <<clients, link>> /\ clients[k] # c
           \/ /\ clients[k] = c
              /\ link[c] = "open"
              /\ clients' = [clients EXCEPT ![k] = NoConn]
              /\ link' = [link EXCEPT ![c] = "closed"]
BY DEF IInv, TypeOK, PooledIsOpen, Pooled, Evict, Close

-----------------------------------------------------------------------------
(* The steps that move a caller and neither open nor close a connection.   *)

LEMMA LookupInv == ASSUME IInv, NEW u \in Callers, Lookup(u) PROVE IInv'
<1> USE DEF IInv, Lookup, Goto, timing
<1>1. TypeOK' /\ TouchedBefore'
    BY DEF TypeOK, TouchedBefore, Places, Owning
<1>2. DialHeld' /\ EntryUnderDial' /\ QuietAfterShutdown'
    BY DEF TypeOK, DialHeld, EntryUnderDial, QuietAfterShutdown, Owning
<1>3. DialledIsPrivate' /\ NoLeak'
    BY DEF TypeOK, DialledIsPrivate, NoLeak, ClientsOf
<1>4. PooledOnce' /\ PooledIsOpen' /\ NoDoubleClose' /\ AllClosedAtShutdown'
    BY DEF PooledOnce, PooledIsOpen, Pooled, NoDoubleClose, AllClosedAtShutdown
<1>. QED  BY <1>1, <1>2, <1>3, <1>4

LEMMA HitInv == ASSUME IInv, NEW u \in Callers, Hit(u) PROVE IInv'
<1> USE DEF IInv, Hit, Goto, Touch, Return
<1>1. TypeOK' /\ TouchedBefore'
    BY DEF TypeOK, TouchedBefore, Places, Owning
<1>2. DialHeld' /\ EntryUnderDial' /\ QuietAfterShutdown'
    BY DEF TypeOK, DialHeld, EntryUnderDial, QuietAfterShutdown, Owning
<1>3. DialledIsPrivate' /\ NoLeak'
    BY DEF TypeOK, DialledIsPrivate, NoLeak, ClientsOf
<1>4. PooledOnce' /\ PooledIsOpen' /\ NoDoubleClose' /\ AllClosedAtShutdown'
    BY DEF PooledOnce, PooledIsOpen, Pooled, NoDoubleClose, AllClosedAtShutdown
<1>. QED  BY <1>1, <1>2, <1>3, <1>4

LEMMA LockDialInv == ASSUME IInv, NEW u \in Callers, LockDial(u) PROVE IInv'
<1> USE DEF IInv, LockDial, Goto, timing
<1>1. TypeOK' /\ TouchedBefore'
    BY DEF TypeOK, TouchedBefore, Places, Owning
<1>2. DialHeld' /\ EntryUnderDial' /\ QuietAfterShutdown'
    BY DEF TypeOK, DialHeld, EntryUnderDial, QuietAfterShutdown, Owning
<1>3. DialledIsPrivate' /\ NoLeak'
    BY DEF TypeOK, DialledIsPrivate, NoLeak, ClientsOf
<1>4. PooledOnce' /\ PooledIsOpen' /\ NoDoubleClose' /\ AllClosedAtShutdown'
    BY DEF PooledOnce, PooledIsOpen, Pooled, NoDoubleClose, AllClosedAtShutdown
<1>. QED  BY <1>1, <1>2, <1>3, <1>4

LEMMA RecheckInv == ASSUME IInv, NEW u \in Callers, Recheck(u) PROVE IInv'
<1> USE DEF IInv, Recheck, Goto, timing
<1>1. TypeOK' /\ TouchedBefore'
    BY DEF TypeOK, TouchedBefore, Places, Owning
<1>2. DialHeld' /\ EntryUnderDial' /\ QuietAfterShutdown'
    BY DEF TypeOK, DialHeld, EntryUnderDial, QuietAfterShutdown, Owning
<1>3. DialledIsPrivate' /\ NoLeak'
    BY DEF TypeOK, DialledIsPrivate, NoLeak, ClientsOf
<1>4. PooledOnce' /\ PooledIsOpen' /\ NoDoubleClose' /\ AllClosedAtShutdown'
    BY DEF PooledOnce, PooledIsOpen, Pooled, NoDoubleClose, AllClosedAtShutdown
<1>. QED  BY <1>1, <1>2, <1>3, <1>4

LEMMA RecheckHitInv == ASSUME IInv, NEW u \in Callers, RecheckHit(u) PROVE IInv'
<1> USE DEF IInv, RecheckHit, Goto, Touch, Return, Unlock
<1>1. TypeOK' /\ TouchedBefore'
    BY DEF TypeOK, TouchedBefore, Places, Owning
<1>2. DialHeld' /\ EntryUnderDial' /\ QuietAfterShutdown'
    BY DEF TypeOK, DialHeld, EntryUnderDial, QuietAfterShutdown, Owning
<1>3. DialledIsPrivate' /\ NoLeak'
    BY DEF TypeOK, DialledIsPrivate, NoLeak, ClientsOf
<1>4. PooledOnce' /\ PooledIsOpen' /\ NoDoubleClose' /\ AllClosedAtShutdown'
    BY DEF PooledOnce, PooledIsOpen, Pooled, NoDoubleClose, AllClosedAtShutdown
<1>. QED  BY <1>1, <1>2, <1>3, <1>4

LEMMA OpenFailsInv == ASSUME IInv, NEW u \in Callers, OpenFails(u) PROVE IInv'
<1> USE DEF IInv, OpenFails, Goto, Return, Unlock, timing
<1>1. TypeOK' /\ TouchedBefore'
    BY DEF TypeOK, TouchedBefore, Places, Owning
<1>2. DialHeld' /\ EntryUnderDial' /\ QuietAfterShutdown'
    BY DEF TypeOK, DialHeld, EntryUnderDial, QuietAfterShutdown, Owning
<1>3. DialledIsPrivate' /\ NoLeak'
    BY DEF TypeOK, DialledIsPrivate, NoLeak, ClientsOf
<1>4. PooledOnce' /\ PooledIsOpen' /\ NoDoubleClose' /\ AllClosedAtShutdown'
    BY DEF PooledOnce, PooledIsOpen, Pooled, NoDoubleClose, AllClosedAtShutdown
<1>. QED  BY <1>1, <1>2, <1>3, <1>4

LEMMA PingAnswersInv == ASSUME IInv, NEW u \in Callers, PingAnswers(u) PROVE IInv'
<1> USE DEF IInv, PingAnswers, Goto, Touch
<1>1. TypeOK' /\ TouchedBefore'
    BY DEF TypeOK, TouchedBefore, Places, Owning
<1>2. DialHeld' /\ EntryUnderDial' /\ QuietAfterShutdown'
    BY DEF TypeOK, DialHeld, EntryUnderDial, QuietAfterShutdown, Owning
<1>3. DialledIsPrivate' /\ NoLeak'
    BY DEF TypeOK, DialledIsPrivate, NoLeak, ClientsOf
<1>4. PooledOnce' /\ PooledIsOpen' /\ NoDoubleClose' /\ AllClosedAtShutdown'
    BY DEF PooledOnce, PooledIsOpen, Pooled, NoDoubleClose, AllClosedAtShutdown
<1>. QED  BY <1>1, <1>2, <1>3, <1>4

LEMMA FinishInv == ASSUME IInv, NEW u \in Callers, Finish(u) PROVE IInv'
<1> USE DEF IInv, Finish, Goto, Return, timing
<1>1. TypeOK' /\ TouchedBefore'
    BY DEF TypeOK, TouchedBefore, Places, Owning
<1>2. DialHeld' /\ EntryUnderDial' /\ QuietAfterShutdown'
    BY DEF TypeOK, DialHeld, EntryUnderDial, QuietAfterShutdown, Owning
<1>3. DialledIsPrivate' /\ NoLeak'
    BY DEF TypeOK, DialledIsPrivate, NoLeak, ClientsOf
<1>4. PooledOnce' /\ PooledIsOpen' /\ NoDoubleClose' /\ AllClosedAtShutdown'
    BY DEF PooledOnce, PooledIsOpen, Pooled, NoDoubleClose, AllClosedAtShutdown
<1>. QED  BY <1>1, <1>2, <1>3, <1>4

-----------------------------------------------------------------------------
(* The steps that open or close connections.                               *)

LEMMA OpenInv == ASSUME IInv, NEW u \in Callers, Open(u) PROVE IInv'
<1> USE DEF IInv, Open, Goto, timing
<1>1. TypeOK' /\ TouchedBefore'
    BY DEF TypeOK, TouchedBefore, Places, Owning
<1>2. DialHeld' /\ EntryUnderDial' /\ QuietAfterShutdown'
    BY DEF TypeOK, DialHeld, EntryUnderDial, QuietAfterShutdown, Owning
<1>3. DialledIsPrivate' /\ NoLeak'
    BY DEF TypeOK, DialHeld, Owning, PooledIsOpen, Pooled, DialledIsPrivate, NoLeak, ClientsOf
<1>4. PooledOnce' /\ PooledIsOpen' /\ NoDoubleClose' /\ AllClosedAtShutdown'
    BY DEF TypeOK, DialledIsPrivate, QuietAfterShutdown, PooledOnce, PooledIsOpen, Pooled, NoDoubleClose, AllClosedAtShutdown
<1>. QED  BY <1>1, <1>2, <1>3, <1>4

LEMMA PingFailsInv == ASSUME IInv, NEW u \in Callers, PingFails(u) PROVE IInv'
<1> USE DEF IInv, PingFails, Goto, Return, Unlock, Close, timing
<1>1. TypeOK' /\ TouchedBefore'
    BY DEF TypeOK, TouchedBefore, Places, Owning
<1>2. DialHeld' /\ EntryUnderDial' /\ QuietAfterShutdown'
    BY DEF TypeOK, DialHeld, EntryUnderDial, QuietAfterShutdown, Owning
<1>3. DialledIsPrivate' /\ NoLeak'
    BY DEF TypeOK, DialHeld, Owning, PooledIsOpen, Pooled, DialledIsPrivate, NoLeak, ClientsOf
<1>4. PooledOnce' /\ PooledIsOpen' /\ NoDoubleClose' /\ AllClosedAtShutdown'
    BY DEF TypeOK, DialledIsPrivate, QuietAfterShutdown, PooledOnce, PooledIsOpen, Pooled, NoDoubleClose, AllClosedAtShutdown
<1>. QED  BY <1>1, <1>2, <1>3, <1>4

LEMMA StaleInv == ASSUME IInv, NEW u \in Callers, Stale(u) PROVE IInv'
<1> USE DEF IInv, Stale, Goto, timing
<1>a. got[u] \in Conns /\ KeyOf[u] \in Keys
    BY DEF TypeOK
<1>b. \/ UNCHANGED <<clients, link>> /\ clients[KeyOf[u]] # got[u]
      \/ /\ clients[KeyOf[u]] = got[u]
         /\ link[got[u]] = "open"
         /\ clients' = [clients EXCEPT ![KeyOf[u]] = NoConn]
         /\ link' = [link EXCEPT ![got[u]] = "closed"]
    BY <1>a, EvictEffect
<1>1. TypeOK' /\ TouchedBefore'
    BY <1>a, <1>b DEF TypeOK, TouchedBefore, Places, Owning
<1>2. DialHeld' /\ EntryUnderDial' /\ QuietAfterShutdown'
    BY <1>a, <1>b DEF TypeOK, DialHeld, EntryUnderDial, QuietAfterShutdown, Owning
<1>3. DialledIsPrivate' /\ NoLeak'
    BY <1>a, <1>b DEF TypeOK, DialledIsPrivate, NoLeak, ClientsOf
<1>4. PooledOnce' /\ PooledIsOpen' /\ NoDoubleClose' /\ AllClosedAtShutdown'
    BY <1>a, <1>b DEF TypeOK, QuietAfterShutdown, PooledOnce, PooledIsOpen, Pooled, NoDoubleClose, AllClosedAtShutdown
<1>. QED  BY <1>1, <1>2, <1>3, <1>4

LEMMA RecheckStaleInv == ASSUME IInv, NEW u \in Callers, RecheckStale(u) PROVE IInv'
<1> USE DEF IInv, RecheckStale, Goto, timing
<1>a. got[u] \in Conns /\ KeyOf[u] \in Keys
    BY DEF TypeOK
<1>b. \/ UNCHANGED <<clients, link>> /\ clients[KeyOf[u]] # got[u]
      \/ /\ clients[KeyOf[u]] = got[u]
         /\ link[got[u]] = "open"
         /\ clients' = [clients EXCEPT ![KeyOf[u]] = NoConn]
         /\ link' = [link EXCEPT ![got[u]] = "closed"]
    BY <1>a, EvictEffect
<1>1. TypeOK' /\ TouchedBefore'
    BY <1>a, <1>b DEF TypeOK, TouchedBefore, Places, Owning
<1>2. DialHeld' /\ EntryUnderDial' /\ QuietAfterShutdown'
    BY <1>a, <1>b DEF TypeOK, DialHeld, EntryUnderDial, QuietAfterShutdown, Owning
<1>3. DialledIsPrivate' /\ NoLeak'
    BY <1>a, <1>b DEF TypeOK, DialledIsPrivate, NoLeak, ClientsOf
<1>4. PooledOnce' /\ PooledIsOpen' /\ NoDoubleClose' /\ AllClosedAtShutdown'
    BY <1>a, <1>b DEF TypeOK, QuietAfterShutdown, PooledOnce, PooledIsOpen, Pooled, NoDoubleClose, AllClosedAtShutdown
<1>. QED  BY <1>1, <1>2, <1>3, <1>4

LEMMA PublishInv == ASSUME IInv, NEW u \in Callers, Publish(u) PROVE IInv'
<1> DEFINE own == KeyOf[u]
<1> USE DEF IInv, Publish, Goto, Return, Unlock, timing
<1>a. own \in Keys /\ got[u] \in Conns /\ clients[own] = NoConn /\ link[got[u]] = "open"
    BY DEF TypeOK, EntryUnderDial, DialledIsPrivate
<1>b. \/ clients' = [clients EXCEPT ![own] = got[u]] /\ UNCHANGED link
      \/ \E v \in Pooled :
           /\ clients' = [k \in Keys |-> IF k = own THEN got[u]
                                         ELSE IF clients[k] = v THEN NoConn ELSE clients[k]]
           /\ link' = [link EXCEPT ![v] = "closed"]
    BY DEF Victims, Candidates, LongIdle, Close, PooledIsOpen, Pooled, TypeOK
<1>1. TypeOK' /\ TouchedBefore'
    BY <1>a, <1>b DEF TypeOK, TouchedBefore, Places, Owning, Pooled
<1>2. DialHeld' /\ EntryUnderDial' /\ QuietAfterShutdown'
    BY <1>a, <1>b DEF TypeOK, DialHeld, EntryUnderDial, QuietAfterShutdown, Owning
<1>3. DialledIsPrivate'
    BY <1>a, <1>b DEF TypeOK, DialledIsPrivate, Pooled
<1>4. NoLeak'
    BY <1>a, <1>b DEF TypeOK, NoLeak, ClientsOf, DialledIsPrivate, PooledOnce, Pooled
<1>5. PooledOnce'
    BY <1>a, <1>b DEF TypeOK, PooledOnce, DialledIsPrivate, Pooled
<1>6. PooledIsOpen' /\ NoDoubleClose'
    BY <1>a, <1>b DEF TypeOK, PooledIsOpen, NoDoubleClose, DialledIsPrivate, Pooled
<1>7. AllClosedAtShutdown'
    BY <1>a DEF AllClosedAtShutdown
<1>. QED  BY <1>1, <1>2, <1>3, <1>4, <1>5, <1>6, <1>7

LEMMA VisitInv == ASSUME IInv, NEW k \in Keys, NEW c \in Conns, Visit(k, c) PROVE IInv'
<1> USE DEF IInv, Visit, timing
<1>b. \/ UNCHANGED <<clients, link>>
      \/ /\ clients[k] = c
         /\ link[c] = "open"
         /\ clients' = [clients EXCEPT ![k] = NoConn]
         /\ link' = [link EXCEPT ![c] = "closed"]
    BY EvictEffect
<1>1. TypeOK' /\ TouchedBefore'
    BY <1>b DEF TypeOK, TouchedBefore, Places, Owning
<1>2. DialHeld' /\ EntryUnderDial' /\ QuietAfterShutdown'
    BY <1>b DEF TypeOK, DialHeld, EntryUnderDial, QuietAfterShutdown, Owning
<1>3. DialledIsPrivate' /\ NoLeak'
    BY <1>b DEF TypeOK, DialledIsPrivate, NoLeak, ClientsOf
<1>4. PooledOnce' /\ PooledIsOpen' /\ NoDoubleClose' /\ AllClosedAtShutdown'
    BY <1>b DEF TypeOK, PooledOnce, PooledIsOpen, Pooled, NoDoubleClose, AllClosedAtShutdown
<1>. QED  BY <1>1, <1>2, <1>3, <1>4

LEMMA CloseAllInv == ASSUME IInv, CloseAll PROVE IInv'
<1> USE DEF IInv, CloseAll, timing
<1>a. link' = [c \in Conns |-> IF c \in Pooled THEN "closed" ELSE link[c]]
    BY DEF Close, PooledIsOpen, Pooled, TypeOK
<1>b. \A c \in Conns : link[c] = "open" => c \in Pooled
    BY DEF NoLeak, ClientsOf, Pooled
<1>1. TypeOK' /\ TouchedBefore'
    BY <1>a DEF TypeOK, TouchedBefore, Places, Owning
<1>2. DialHeld' /\ EntryUnderDial' /\ QuietAfterShutdown'
    BY DEF TypeOK, DialHeld, EntryUnderDial, QuietAfterShutdown, Owning
<1>3. DialledIsPrivate'
    BY DEF TypeOK, DialledIsPrivate
<1>4. NoLeak' /\ AllClosedAtShutdown'
    BY <1>a, <1>b DEF NoLeak, AllClosedAtShutdown
<1>5. PooledOnce' /\ PooledIsOpen' /\ NoDoubleClose'
    BY <1>a DEF PooledOnce, PooledIsOpen, Pooled, NoDoubleClose
<1>. QED  BY <1>1, <1>2, <1>3, <1>4, <1>5

\* Time passing, a snapshot of the health loop and stuttering change nothing
\* but the clock's and the loop's own variables.
LEMMA OtherInv ==
    ASSUME IInv, (\E c \in Conns : Age(c)) \/ Snapshot \/ UNCHANGED vars
    PROVE  IInv'
<1>a. UNCHANGED <<clients, dial, done, link, lastUsed, clock, pc, got, gets>>
    BY DEF Age, Snapshot, timing, vars
<1>1. TypeOK' /\ TouchedBefore'
    BY <1>a DEF IInv, TypeOK, TouchedBefore, Age, Snapshot, timing, vars
<1>2. DialHeld' /\ EntryUnderDial' /\ DialledIsPrivate'
    BY <1>a DEF IInv, DialHeld, EntryUnderDial, DialledIsPrivate
<1>3. NoLeak' /\ NoDoubleClose' /\ AllClosedAtShutdown' /\ QuietAfterShutdown'
    BY <1>a DEF IInv, NoLeak, ClientsOf, NoDoubleClose, AllClosedAtShutdown, QuietAfterShutdown
<1>4. PooledOnce' /\ PooledIsOpen'
    BY <1>a DEF IInv, PooledOnce, PooledIsOpen, Pooled
<1>. QED  BY <1>1, <1>2, <1>3, <1>4 DEF IInv

-----------------------------------------------------------------------------
(* The theorems.                                                           *)

LEMMA InitInv == Init => IInv
<1> SUFFICES ASSUME Init PROVE IInv
    OBVIOUS
<1> USE DEF Init
<1>1. TypeOK
    BY DEF TypeOK, Places
<1>2. DialHeld /\ EntryUnderDial /\ DialledIsPrivate
    BY DEF DialHeld, EntryUnderDial, DialledIsPrivate, Owning
<1>3. PooledOnce /\ PooledIsOpen /\ NoDoubleClose /\ NoLeak
    BY DEF PooledOnce, PooledIsOpen, Pooled, NoDoubleClose, NoLeak
<1>4. QuietAfterShutdown /\ AllClosedAtShutdown /\ TouchedBefore
    BY DEF QuietAfterShutdown, AllClosedAtShutdown, TouchedBefore
<1>. QED  BY <1>1, <1>2, <1>3, <1>4 DEF IInv

LEMMA NextInv == IInv /\ [Next]_vars => IInv'
<1> SUFFICES ASSUME IInv, [Next]_vars PROVE IInv'
    OBVIOUS
<1>1. ASSUME NEW u \in Callers, Lookup(u) \/ LockDial(u) \/ GetStep(u) \/ Finish(u)
      PROVE  IInv'
    BY <1>1, LookupInv, HitInv, StaleInv, LockDialInv, RecheckInv, RecheckHitInv,
       RecheckStaleInv, OpenFailsInv, OpenInv, PingFailsInv, PingAnswersInv, PublishInv,
       FinishInv DEF GetStep
<1>2. ASSUME NEW k \in Keys, NEW c \in Conns, Visit(k, c)
      PROVE  IInv'
    BY <1>2, VisitInv
<1>. QED  BY <1>1, <1>2, CloseAllInv, OtherInv DEF Next

\* The inductive invariant holds in every state: what follows is read off it.
THEOREM PoolInvariant == Spec => []IInv
BY InitInv, NextInv, PTL DEF Spec

\* TypeOK holds whatever the keys, the callers and the clients.
THEOREM PoolTypeOK == Spec => []TypeOK
BY PoolInvariant, PTL DEF IInv

\* At most one connection per key: in connect, the holder of the dial mutex
\* found the entry empty and nobody else can fill it.
THEOREM PoolOneConnectionPerKey == Spec => []OneConnectionPerKey
<1>1. IInv => OneConnectionPerKey
    BY DEF IInv, DialHeld, EntryUnderDial, Owning, OneConnectionPerKey, ClientsOf, TypeOK
<1>. QED  BY <1>1, PoolInvariant, PTL

\* The map holds open connections only, and Close is called once on each.
THEOREM PoolClosesOnce == Spec => []ClosesOnce
BY PoolInvariant, PTL DEF IInv, ClosesOnce

\* No connection is left where nothing closes it, before shutdown or after.
THEOREM PoolLeaksNothing == Spec => []LeaksNothing
BY PoolInvariant, PTL DEF IInv, LeaksNothing

\* The client closed to make room was used no later than any that stays.
THEOREM PoolEvictsLeastRecentlyUsed == Spec => EvictsLeastRecentlyUsed
<1>1. IInv /\ [Next]_vars => [\A u \in Callers : pc[u] = "publish" /\ pc'[u] = "using" =>
         \A c, d \in Pooled :
            link'[c] = "closed" /\ link'[d] = "open" => lastUsed[c] <= lastUsed[d]]_vars
    <2> SUFFICES ASSUME IInv, Next,
                        NEW u \in Callers, pc[u] = "publish", pc'[u] = "using",
                        NEW c \in Pooled, NEW d \in Pooled,
                        link'[c] = "closed", link'[d] = "open"
                 PROVE  lastUsed[c] <= lastUsed[d]
        OBVIOUS
    <2>1. Publish(u)
        <3>1. ASSUME NEW w \in Callers, w # u,
                     Lookup(w) \/ LockDial(w) \/ GetStep(w) \/ Finish(w)
              PROVE  FALSE
            BY <3>1 DEF GetStep, Lookup, Hit, Stale, LockDial, Recheck, RecheckHit,
               RecheckStale, OpenFails, Open, PingFails, PingAnswers, Publish, Finish, Goto,
               Return, IInv, TypeOK
        <3>2. Lookup(u) \/ LockDial(u) \/ GetStep(u) \/ Finish(u)
            BY <3>1 DEF Next, Age, Snapshot, Visit, CloseAll
        <3>. QED
            BY <3>2 DEF GetStep, Lookup, Hit, Stale, LockDial, Recheck, RecheckHit,
               RecheckStale, OpenFails, Open, PingFails, PingAnswers, Finish
    <2>2. link[c] = "open" /\ c \in Conns
        BY DEF IInv, PooledIsOpen, Pooled
    <2>3. PICK v \in Victims : link' = Close(link, v)
        BY <2>1, <2>2 DEF Publish
    <2>4. c = v
        BY <2>2, <2>3 DEF Close, IInv, TypeOK
    <2>. QED  BY <2>3, <2>4, BothPassesFindTheOldest DEF IInv
<1>. QED  BY <1>1, PoolInvariant, PTL DEF Spec, EvictsLeastRecentlyUsed
=============================================================================
