----------------------------- MODULE JobsProofs -----------------------------
(***************************************************************************)
(* Proofs about Jobs: for any number of jobs and requests the store        *)
(* implements JobContract, a user's stop never shows as a failure, and put *)
(* drops a fresh result only when it has to, the oldest one first.         *)
(***************************************************************************)
EXTENDS Jobs, FiniteSetTheorems, TLAPS

USE NoJobAssumption, NoRequestAssumption, BoundsAssumption

(***************************************************************************)
(* The inductive invariant.  status, finishedAt, work and verdict are      *)
(* written by different goroutines; each theorem rests on their agreement. *)
(***************************************************************************)

\* A job's status says where its goroutine is.
StatusOfWork ==
    \A j \in Jobs :
        /\ status[j] = "none" <=> work[j] = "none"
        /\ status[j] \in Terminal <=> work[j] = "over"
        /\ verdict[j] # "none" <=> work[j] = "ending"

\* Before the deferred cancel runs, only CancelJob cancels a context.
CancelIsAsked ==
    \A j \in Jobs :
        /\ ctx[j] = "canceled" /\ work[j] # "over" => j \in asked
        /\ verdict[j] = "canceled" => j \in asked

\* Whoever kills the query has canceled the context first.
KillFollowsCancel ==
    /\ \A r \in Requests : pc[r] = "kill" => ctx[target[r]] # "live"
    /\ \A j \in Jobs : server[j] = "killed" \/ j \in felled => ctx[j] # "live"
    /\ \A j \in felled : verdict[j] = "error" => ctx[j] = "deadline"

\* One start at a time, under s.mu, and of a new job; every other request is
\* about a job that was put.
RequestTargets ==
    \A r \in Requests :
        /\ pc[r] \in {"put", "scan"} =>
              smu = r /\ target[r] \in Jobs /\ status[target[r]] = "none"
        /\ pc[r] \notin {"idle", "put", "scan"} =>
              target[r] \in Jobs /\ status[target[r]] # "none"

StoreHoldsStarted == IsFiniteSet(store) /\ \A j \in store : status[j] # "none"

\* No job has finished at a time still to come; so one that finishes during
\* put does so at now or later.
Past == now <= clock /\ \A j \in Jobs : finishedAt[j] < clock

\* What the scan has seen: of the jobs visited, those that had finished when
\* put began are not older than the oldest it noted.
Scanned ==
    /\ left \subseteq store
    /\ oldest # NoJob =>
         /\ oldest \in store /\ finishedAt[oldest] # 0
         /\ smu \in Requests /\ pc[smu] = "scan"
    /\ \A r \in Requests : pc[r] = "scan" =>
         /\ Cardinality(store) >= MaxJobs
         /\ \A k \in store \ left : finishedAt[k] \in 1 .. now - 1 =>
              oldest # NoJob /\ finishedAt[oldest] <= finishedAt[k]

IInv ==
    /\ TypeOK
    /\ StatusOfWork
    /\ CancelIsAsked
    /\ KillFollowsCancel
    /\ StopIsNotFailure
    /\ RequestTargets
    /\ StoreHoldsStarted
    /\ Past
    /\ Scanned

-----------------------------------------------------------------------------
(* The handlers' steps.                                                    *)

\* Steps that move a request and touch no job but its mutex.
LEMMA MoveInv ==
    ASSUME IInv, NEW r \in Requests,
           \/ \E j \in Jobs : GetJob(r, j) \/ CancelJob(r, j)
           \/ Snapshot(r) \/ Progress(r) \/ CheckFinished(r)
    PROVE  IInv'
<1> USE DEF IInv, GetJob, CancelJob, Snapshot, Progress, CheckFinished, Serve,
            Answer, storeVars, putVars, runVars
<1>1. TypeOK'
    BY DEF TypeOK, Terminal
<1>2. StatusOfWork' /\ CancelIsAsked' /\ StopIsNotFailure' /\ StoreHoldsStarted'
    BY DEF TypeOK, StatusOfWork, CancelIsAsked, StopIsNotFailure, StoreHoldsStarted
<1>3. KillFollowsCancel'
    BY DEF TypeOK, KillFollowsCancel
<1>4. RequestTargets'
    BY DEF TypeOK, RequestTargets, StoreHoldsStarted
<1>5. Past' /\ Scanned'
    BY DEF TypeOK, Past, Scanned
<1>. QED  BY <1>1, <1>2, <1>3, <1>4, <1>5

LEMMA StartInv == ASSUME IInv, NEW r \in Requests, NEW j \in Jobs, StartJob(r, j) PROVE IInv'
<1> USE DEF IInv, StartJob, Serve, storeVars, runVars
<1>1. TypeOK'
    BY DEF TypeOK
<1>2. StatusOfWork' /\ CancelIsAsked' /\ StopIsNotFailure' /\ StoreHoldsStarted'
    BY DEF TypeOK, StatusOfWork, CancelIsAsked, StopIsNotFailure, StoreHoldsStarted
<1>3. KillFollowsCancel'
    BY DEF TypeOK, KillFollowsCancel
<1>4. RequestTargets'
    BY DEF TypeOK, RequestTargets
<1>5. Past' /\ Scanned'
    BY DEF TypeOK, Past, Scanned, RequestTargets
<1>. QED  BY <1>1, <1>2, <1>3, <1>4, <1>5

\* put forgets only what has ended.
LEMMA ForgetsEnded ==
    ASSUME IInv, NEW r \in Requests,
           (\E j \in left : Expire(r, j)) \/ Drop(r)
    PROVE  store' = store \/ \E j \in store : status[j] \in Terminal /\ store' = store \ {j}
<1>1. ASSUME NEW j \in left, Expire(r, j)
      PROVE  store' = store \/ \E k \in store : status[k] \in Terminal /\ store' = store \ {k}
    BY <1>1 DEF IInv, TypeOK, Expire, Expired, Scanned
<1>2. ASSUME Drop(r)
      PROVE  \E k \in store : status[k] \in Terminal /\ store' = store \ {k}
    BY <1>2 DEF IInv, TypeOK, Drop, Scanned
<1>. QED  BY <1>1, <1>2

\* The loops of put: every read of a job's time, and every removal.
LEMMA LoopInv ==
    ASSUME IInv, NEW r \in Requests,
           \/ \E j \in left : Expire(r, j) \/ Look(r, j)
           \/ BeginScan(r) \/ Drop(r)
    PROVE  IInv'
<1> USE DEF IInv, Serve, storeVars, runVars
<1>1. UNCHANGED <<status, finishedAt, clock, smu, jmu, now, runVars, asked, target>>
    BY DEF TypeOK, Expire, Look, BeginScan, Drop
<1>2. store' \subseteq store /\ IsFiniteSet(store') /\ left' \subseteq store'
    <2>1. store' \subseteq store /\ left' \subseteq store'
        BY DEF Expire, Look, BeginScan, Drop, Scanned
    <2>. QED  BY <2>1, FS_Subset DEF StoreHoldsStarted
<1>3. /\ pc' \in [Requests -> {"idle", "put", "scan", "poll", "progress", "check", "cancel", "kill"}]
      /\ pc[r] \in {"put", "scan"} /\ pc'[r] \in {"put", "scan"}
      /\ \A q \in Requests \ {r} : pc'[q] = pc[q]
    BY DEF TypeOK, Expire, Look, BeginScan, Drop
<1>4. oldest' \in Jobs \union {NoJob}
    BY DEF TypeOK, Expire, Look, BeginScan, Drop
<1>5. TypeOK'
    <2>1. left' \subseteq Jobs /\ store' \subseteq Jobs
        BY <1>2 DEF TypeOK
    <2>. QED  BY <1>1, <1>3, <1>4, <2>1 DEF TypeOK
<1>6. StatusOfWork' /\ CancelIsAsked' /\ StopIsNotFailure' /\ StoreHoldsStarted'
    BY <1>1, <1>2 DEF StatusOfWork, CancelIsAsked, StopIsNotFailure, StoreHoldsStarted
<1>7. KillFollowsCancel' /\ RequestTargets' /\ Past'
    BY <1>1, <1>3 DEF KillFollowsCancel, RequestTargets, Past
<1>8. Scanned'
    <2>1. ASSUME NEW j \in left, Expire(r, j) PROVE Scanned'
        <3>1. \A q \in Requests : pc[q] # "scan"
            BY <2>1 DEF Expire, RequestTargets
        <3>2. oldest' = NoJob
            BY <2>1, <3>1 DEF Expire, Scanned
        <3>3. \A q \in Requests : pc'[q] # "scan"
            BY <2>1, <3>1 DEF Expire
        <3>. QED  BY <1>2, <3>2, <3>3 DEF Scanned
    <2>2. ASSUME NEW j \in left, Look(r, j) PROVE Scanned'
        <3>1. smu = r /\ smu' = r /\ pc' = pc /\ store' = store
            BY <2>2 DEF Look, RequestTargets
        <3>2. oldest' # NoJob => oldest' \in store /\ finishedAt[oldest'] # 0
            BY <2>2 DEF Look, Scanned
        <3>3. Cardinality(store) >= MaxJobs
            BY <2>2 DEF Look, Scanned
        <3>4. ASSUME NEW k \in store \ left', finishedAt[k] \in 1 .. now - 1
              PROVE  oldest' # NoJob /\ finishedAt[oldest'] <= finishedAt[k]
            <4>1. k = j \/ k \in store \ left
                BY <2>2, <3>4 DEF Look
            <4>2. store \subseteq Jobs /\ finishedAt \in [Jobs -> Nat] /\ NoJob \notin Jobs
                BY DEF TypeOK
            <4>3. k \in store \ left => oldest # NoJob /\ finishedAt[oldest] <= finishedAt[k]
                BY <2>2, <3>4 DEF Look, Scanned
            <4>. QED  BY <2>2, <3>4, <4>1, <4>2, <4>3 DEF Look, Older, Scanned
        <3>. QED  BY <1>1, <1>2, <2>2, <3>1, <3>2, <3>3, <3>4 DEF Look, Scanned
    <2>3. CASE BeginScan(r)
        BY <1>2, <2>3 DEF BeginScan, Full, Scanned, TypeOK, RequestTargets
    <2>4. CASE Drop(r)
        <3>1. \A q \in Requests : pc'[q] # "scan"
            BY <2>4 DEF Drop, RequestTargets, TypeOK
        <3>. QED  BY <1>2, <2>4, <3>1 DEF Drop, Scanned
    <2>. QED  BY <2>1, <2>2, <2>3, <2>4
<1>. QED  BY <1>5, <1>6, <1>7, <1>8

LEMMA LaunchInv == ASSUME IInv, NEW r \in Requests, Launch(r) PROVE IInv'
<1> DEFINE j == target[r]
<1> USE DEF IInv, Launch, Serve, Answer
<1>1. j \in Jobs /\ status[j] = "none" /\ smu = r
    BY DEF RequestTargets
<1>2. IsFiniteSet(store')
    BY FS_AddElement DEF StoreHoldsStarted
<1>3. TypeOK'
    BY <1>1 DEF TypeOK, Terminal
<1>4. StatusOfWork' /\ CancelIsAsked' /\ StopIsNotFailure'
    BY <1>1 DEF TypeOK, StatusOfWork, CancelIsAsked, StopIsNotFailure, Terminal
<1>5. KillFollowsCancel'
    BY DEF TypeOK, KillFollowsCancel
<1>6. RequestTargets'
    BY <1>1 DEF TypeOK, RequestTargets
<1>7. StoreHoldsStarted'
    BY <1>1, <1>2 DEF TypeOK, StoreHoldsStarted
<1>8. Past'
    BY DEF TypeOK, Past
<1>9. Scanned'
    <2>1. \A q \in Requests : pc'[q] # "scan"
        BY DEF TypeOK, RequestTargets
    <2>. QED  BY <2>1 DEF Scanned
<1>. QED  BY <1>3, <1>4, <1>5, <1>6, <1>7, <1>8, <1>9

LEMMA CancelContextInv == ASSUME IInv, NEW r \in Requests, CancelContext(r) PROVE IInv'
<1> USE DEF IInv, CancelContext, Serve, storeVars, putVars
<1>1. target[r] \in Jobs /\ status[target[r]] # "none"
    BY DEF RequestTargets
<1>2. TypeOK'
    BY <1>1 DEF TypeOK
<1>3. StatusOfWork' /\ CancelIsAsked'
    BY <1>1 DEF TypeOK, StatusOfWork, CancelIsAsked
<1>4. StopIsNotFailure' /\ StoreHoldsStarted'
    BY <1>1 DEF TypeOK, StopIsNotFailure, KillFollowsCancel, StoreHoldsStarted
<1>5. KillFollowsCancel'
    BY <1>1 DEF TypeOK, KillFollowsCancel
<1>6. RequestTargets' /\ Past' /\ Scanned'
    BY <1>1 DEF TypeOK, RequestTargets, Past, Scanned
<1>. QED  BY <1>2, <1>3, <1>4, <1>5, <1>6

LEMMA KillInv == ASSUME IInv, NEW r \in Requests, Kill(r) PROVE IInv'
<1> USE DEF IInv, Kill, Serve, Answer, storeVars, putVars
<1>1. target[r] \in Jobs
    BY DEF RequestTargets
<1>2. TypeOK'
    BY <1>1 DEF TypeOK
<1>3. StatusOfWork' /\ CancelIsAsked' /\ StopIsNotFailure' /\ StoreHoldsStarted'
    BY DEF TypeOK, StatusOfWork, CancelIsAsked, StopIsNotFailure, StoreHoldsStarted
<1>4. KillFollowsCancel'
    BY <1>1 DEF TypeOK, KillFollowsCancel
<1>5. RequestTargets' /\ Past' /\ Scanned'
    BY DEF TypeOK, RequestTargets, Past, Scanned
<1>. QED  BY <1>2, <1>3, <1>4, <1>5

-----------------------------------------------------------------------------
(* The goroutine's steps.                                                  *)

\* The query is sent, and ExecuteQuery returns in one of its ways.
LEMMA QueryInv ==
    ASSUME IInv, NEW j \in Jobs,
           Send(j) \/ Succeed(j) \/ Fail(j) \/ FailKilled(j) \/ Abort(j)
    PROVE  IInv'
<1> USE DEF IInv, Send, Succeed, Fail, FailKilled, Abort, ReturnError, storeVars, putVars
<1>1. TypeOK'
    BY DEF TypeOK, Terminal
<1>2. StatusOfWork' /\ CancelIsAsked'
    BY DEF TypeOK, StatusOfWork, CancelIsAsked
<1>3. StopIsNotFailure' /\ StoreHoldsStarted'
    BY DEF TypeOK, StatusOfWork, StopIsNotFailure, StoreHoldsStarted, Terminal
<1>4. KillFollowsCancel'
    BY DEF TypeOK, KillFollowsCancel, StatusOfWork
<1>5. RequestTargets' /\ Past' /\ Scanned'
    BY DEF TypeOK, RequestTargets, Past, Scanned
<1>. QED  BY <1>1, <1>2, <1>3, <1>4, <1>5

LEMMA DecideInv == ASSUME IInv, NEW j \in Jobs, Deadline(j) \/ Decide(j) PROVE IInv'
<1> USE DEF IInv, Deadline, Decide, storeVars, putVars
<1>1. TypeOK'
    BY DEF TypeOK, Terminal
<1>2. StatusOfWork' /\ CancelIsAsked'
    BY DEF TypeOK, StatusOfWork, CancelIsAsked
<1>3. StopIsNotFailure' /\ StoreHoldsStarted'
    BY DEF TypeOK, StatusOfWork, StopIsNotFailure, StoreHoldsStarted
<1>4. KillFollowsCancel'
    <2>1. CASE Deadline(j)
        BY <2>1 DEF TypeOK, KillFollowsCancel
    <2>2. CASE Decide(j)
        <3>1. j \in felled => ctx[j] = "deadline" \/ ctx[j] = "canceled"
            BY DEF TypeOK, KillFollowsCancel
        <3>. QED  BY <2>2, <3>1 DEF TypeOK, KillFollowsCancel
    <2>. QED  BY <2>1, <2>2
<1>5. RequestTargets' /\ Past' /\ Scanned'
    BY DEF TypeOK, RequestTargets, Past, Scanned
<1>. QED  BY <1>1, <1>2, <1>3, <1>4, <1>5

LEMMA FinishInv == ASSUME IInv, NEW j \in Jobs, Finish(j) PROVE IInv'
<1> USE DEF IInv, Finish, putVars
<1>1. verdict[j] \in Terminal /\ status[j] = "running"
    BY DEF TypeOK, StatusOfWork, Terminal
<1>2. TypeOK'
    BY <1>1 DEF TypeOK, Terminal
<1>3. StatusOfWork' /\ CancelIsAsked'
    BY <1>1 DEF TypeOK, StatusOfWork, CancelIsAsked, Terminal
<1>4. StopIsNotFailure' /\ KillFollowsCancel'
    BY <1>1 DEF TypeOK, StopIsNotFailure, KillFollowsCancel
<1>5. RequestTargets' /\ StoreHoldsStarted'
    BY <1>1 DEF TypeOK, RequestTargets, StoreHoldsStarted, Terminal
<1>6. Past'
    BY DEF TypeOK, Past
<1>7. Scanned'
    <2>1. finishedAt[j] = 0 /\ now <= clock
        BY <1>1 DEF TypeOK, Past, Terminal
    <2>2. \A k \in Jobs : finishedAt'[k] = IF k = j THEN clock ELSE finishedAt[k]
        BY DEF TypeOK
    <2>. QED  BY <2>1, <2>2 DEF TypeOK, Scanned
<1>. QED  BY <1>2, <1>3, <1>4, <1>5, <1>6, <1>7

\* Time passing or stuttering.
LEMMA OtherInv == ASSUME IInv, Tick \/ UNCHANGED vars PROVE IInv'
<1> USE DEF IInv, Tick, vars, putVars, runVars
<1>1. TypeOK'
    BY DEF TypeOK
<1>2. StatusOfWork' /\ CancelIsAsked' /\ StopIsNotFailure' /\ StoreHoldsStarted'
    BY DEF StatusOfWork, CancelIsAsked, StopIsNotFailure, StoreHoldsStarted
<1>3. KillFollowsCancel' /\ RequestTargets'
    BY DEF KillFollowsCancel, RequestTargets
<1>4. Past' /\ Scanned'
    BY DEF TypeOK, Past, Scanned
<1>. QED  BY <1>1, <1>2, <1>3, <1>4

\* Nothing but put writes the map.
LEMMA OnlyPutWritesStore ==
    ASSUME Next, store' # store
    PROVE  \E r \in Requests : (\E j \in left : Expire(r, j)) \/ Drop(r) \/ Launch(r)
BY DEF Next, Handler, StartJob, PutStep, BeginScan, Look, GetJob, CancelJob, Snapshot, Progress,
   CheckFinished, CancelContext, Kill, Goroutine, Send, Succeed, Fail, FailKilled, Abort,
   ReturnError, Deadline, Decide, Finish, Tick, storeVars

-----------------------------------------------------------------------------
(* The theorems.                                                           *)

LEMMA InitInv == Init => IInv
<1> SUFFICES ASSUME Init PROVE IInv
    OBVIOUS
<1> USE DEF Init
<1>1. TypeOK
    BY DEF TypeOK, Terminal
<1>2. StatusOfWork /\ CancelIsAsked /\ KillFollowsCancel /\ StopIsNotFailure
    BY DEF StatusOfWork, CancelIsAsked, KillFollowsCancel, StopIsNotFailure, Terminal
<1>3. RequestTargets /\ StoreHoldsStarted /\ Past /\ Scanned
    BY FS_EmptySet DEF RequestTargets, StoreHoldsStarted, Past, Scanned
<1>. QED  BY <1>1, <1>2, <1>3 DEF IInv

LEMMA NextInv == IInv /\ [Next]_vars => IInv'
<1> SUFFICES ASSUME IInv, [Next]_vars PROVE IInv'
    OBVIOUS
<1>1. ASSUME NEW r \in Requests, Handler(r) PROVE IInv'
    BY <1>1, MoveInv, StartInv, LoopInv, LaunchInv, CancelContextInv, KillInv
       DEF Handler, PutStep
<1>2. ASSUME NEW j \in Jobs, Goroutine(j) PROVE IInv'
    BY <1>2, QueryInv, DecideInv, FinishInv DEF Goroutine
<1>. QED  BY <1>1, <1>2, OtherInv DEF Next

\* The inductive invariant holds in every reachable state.
THEOREM JobsInvariant == Spec => []IInv
BY InitInv, NextInv, PTL DEF Spec

\* FinishedAt is set exactly when the status is final, for any set of jobs.
THEOREM JobsTypeOK == Spec => []TypeOK
BY JobsInvariant, PTL DEF IInv

\* CancelJob's order, context first and KILL second, is what keeps a stopped
\* job from being shown as failed.
THEOREM JobsStopIsNotFailure == Spec => []StopIsNotFailure
BY JobsInvariant, PTL DEF IInv

\* put drops an unexpired result only from a full store, and none that had
\* finished before the start began is older.
THEOREM JobsResultKeptWhileRoom == Spec => ResultKeptWhileRoom
<1>1. IInv /\ [Next]_vars =>
         [\A j \in store \ store' :
            \/ Expired(j)
            \/ /\ Cardinality(store) >= MaxJobs
               /\ \A k \in store' : finishedAt[k] \in 1 .. now - 1 =>
                    finishedAt[k] >= finishedAt[j]]_vars
    <2> SUFFICES ASSUME IInv, Next, NEW j \in store \ store', ~ Expired(j)
                 PROVE  /\ Cardinality(store) >= MaxJobs
                        /\ \A k \in store' : finishedAt[k] \in 1 .. now - 1 =>
                              finishedAt[k] >= finishedAt[j]
        OBVIOUS
    <2>1. PICK r \in Requests : Drop(r)
        BY OnlyPutWritesStore DEF Expire, Launch
    <2>2. j = oldest /\ oldest # NoJob /\ pc[r] = "scan" /\ left = {} /\ store' \subseteq store
        BY <2>1 DEF Drop
    <2>. QED  BY <2>2 DEF IInv, Scanned, TypeOK
<1>. QED  BY <1>1, JobsInvariant, PTL DEF Spec, ResultKeptWhileRoom

\* When the store outgrows maxJobs, whatever it held was running when the
\* start began.
THEOREM JobsOverflowWasRunning == Spec => OverflowWasRunning
<1>1. IInv /\ [Next]_vars =>
         [\A j \in store' \ store : Cardinality(store') > MaxJobs =>
            \A k \in store : finishedAt[k] \notin 1 .. now - 1]_vars
    <2> SUFFICES ASSUME IInv, Next, NEW j \in store' \ store, Cardinality(store') > MaxJobs,
                        NEW k \in store
                 PROVE  finishedAt[k] \notin 1 .. now - 1
        OBVIOUS
    <2>1. PICK r \in Requests : Launch(r)
        BY OnlyPutWritesStore DEF Expire, Drop
    <2>2. IsFiniteSet(store) /\ Cardinality(store) \in Nat
        BY FS_CardinalityType DEF IInv, StoreHoldsStarted
    <2>3. Cardinality(store') <= Cardinality(store) + 1
        <3>1. Cardinality(store \union {target[r]}) =
                 IF target[r] \in store THEN Cardinality(store) ELSE Cardinality(store) + 1
            BY <2>2, FS_AddElement
        <3>2. store' = store \union {target[r]}
            BY <2>1 DEF Launch
        <3>. QED  BY <2>2, <3>1, <3>2
    <2>4. pc[r] = "scan" /\ oldest = NoJob /\ left = {}
        <3>1. IsFiniteSet(store') /\ Cardinality(store') \in Nat
            BY <2>1, <2>2, FS_AddElement, FS_CardinalityType DEF Launch
        <3>2. Full
            BY <2>2, <2>3, <3>1 DEF Full
        <3>. QED  BY <2>1, <3>2 DEF Launch
    <2>. QED  BY <2>4 DEF IInv, Scanned
<1>. QED  BY <1>1, JobsInvariant, PTL DEF Spec, OverflowWasRunning

\* The job store implements the contract that the browser's poll relies on:
\* every step is a start, a forgotten result, a request to cancel, an end, or
\* invisible.
THEOREM JobsImplementContract == Spec => ContractSpec
<1> USE DEF Contract!Ended, Terminal
<1>1. Init => Contract!Init
    BY DEF Init, Contract!Init
<1>2. IInv /\ [Next]_vars => [Contract!Next]_(Contract!vars)
    <2> SUFFICES ASSUME IInv, [Next]_vars
                 PROVE  Contract!Next \/ UNCHANGED Contract!vars
        OBVIOUS
    <2>1. ASSUME NEW r \in Requests, Launch(r) PROVE Contract!Next
        BY <2>1 DEF Launch, IInv, RequestTargets, Contract!Next, Contract!Start
    <2>7. ASSUME NEW r \in Requests, (\E j \in left : Expire(r, j)) \/ Drop(r)
          PROVE  Contract!Next \/ UNCHANGED Contract!vars
        <3>1. UNCHANGED <<status, asked>>
            BY <2>7 DEF Expire, Drop
        <3>2. store' = store \/ \E j \in store : status[j] \in Terminal /\ store' = store \ {j}
            BY <2>7, ForgetsEnded
        <3>3. store \subseteq Jobs
            BY DEF IInv, TypeOK
        <3>. QED  BY <3>1, <3>2, <3>3 DEF Contract!Next, Contract!Forget, Contract!vars
    <2>2. ASSUME NEW r \in Requests, CancelContext(r) PROVE Contract!Next
        BY <2>2 DEF CancelContext, storeVars, IInv, RequestTargets, Contract!Next, Contract!Ask
    <2>3. ASSUME NEW j \in Jobs, Finish(j) PROVE Contract!Next
        <3>1. status[j] = "running" /\ verdict[j] \in Terminal
              /\ (verdict[j] = "canceled" => j \in asked)
            BY <2>3 DEF Finish, IInv, TypeOK, StatusOfWork, CancelIsAsked
        <3>2. Contract!End(j, verdict[j])
            BY <2>3, <3>1 DEF Finish, Contract!End
        <3>. QED  BY <3>1, <3>2 DEF Contract!Next
    <2>4. ASSUME NEW r \in Requests,
                 ~ Launch(r), ~ CancelContext(r), Handler(r),
                 ~ ((\E j \in left : Expire(r, j)) \/ Drop(r))
          PROVE  UNCHANGED Contract!vars
        BY <2>4 DEF Handler, PutStep, StartJob, Look, BeginScan, GetJob, CancelJob, Snapshot, Progress, CheckFinished,
           Kill, storeVars, Contract!vars
    <2>5. ASSUME NEW j \in Jobs, ~ Finish(j), Goroutine(j)
          PROVE  UNCHANGED Contract!vars
        BY <2>5 DEF Goroutine, Send, Succeed, Fail, FailKilled, Abort, ReturnError, Deadline,
           Decide, storeVars, Contract!vars
    <2>6. Tick \/ UNCHANGED vars => UNCHANGED Contract!vars
        BY DEF Tick, vars, Contract!vars
    <2>. QED  BY <2>1, <2>2, <2>3, <2>4, <2>5, <2>6, <2>7 DEF Next
<1>. QED  BY <1>1, <1>2, JobsInvariant, PTL DEF Spec, ContractSpec, Contract!Spec
=============================================================================
