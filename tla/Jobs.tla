-------------------------------- MODULE Jobs --------------------------------
(***************************************************************************)
(* Detached executions (internal/api/jobs.go): the job store, the          *)
(* goroutine that runs a job's statement under its own context, and the    *)
(* handlers that start, poll and cancel jobs concurrently.                 *)
(*                                                                         *)
(* The store's mutex s.mu and a job's mutex j.mu appear where a goroutine  *)
(* blocks while it holds them: put holds s.mu while it takes one j.mu      *)
(* after the other, so that jobs finish between its reads, and snapshot    *)
(* holds j.mu while it asks ClickHouse for the progress.  Their other      *)
(* critical sections are single steps.                                     *)
(***************************************************************************)
EXTENDS Integers, FiniteSets

CONSTANTS
    Jobs,       \* identities of *job
    Requests,   \* goroutines serving HTTP requests
    NoJob,
    NoRequest,  \* a mutex is free
    MaxJobs,    \* maxJobs
    ResultTTL,  \* jobResultTTL, in ticks of clock
    MaxClock    \* bound: how far time passes with no job finishing

ASSUME NoJobAssumption == NoJob \notin Jobs
ASSUME NoRequestAssumption == NoRequest \notin Requests
ASSUME BoundsAssumption ==
    MaxJobs \in Nat \ {0} /\ ResultTTL \in Nat /\ MaxClock \in Nat

VARIABLES
    \* the store and what it holds
    store,      \* s.jobs
    status,     \* j.Status; "none" before put
    finishedAt, \* j.FinishedAt; 0 is the zero time
    clock,      \* wall clock; two jobs finish at different instants
    smu,        \* the request in put, holding s.mu
    jmu,        \* the request holding j.mu while it waits
    \* the locals of the put that holds s.mu
    now,        \* the time it began
    left,       \* jobs its current loop has still to visit
    oldest,     \* oldestID
    \* the job's goroutine and its query
    work,       \* "none", "query", "returned" (with an error), "ending", "over"
    felled,     \* jobs whose ExecuteQuery returned the error of a KILL
    verdict,    \* the status finish is about to write, or "none"
    ctx,        \* "live", or what ended the context first: "canceled", "deadline"
    server,     \* the query in ClickHouse: "off", "running", "killed", or "left" when
                \* ExecuteQuery has returned and what becomes of it is not followed
    \* the handlers
    asked,      \* jobs whose cancel function CancelJob has called
    pc,         \* "idle", "put", "scan", "poll", "progress", "check", "cancel", "kill"
    target      \* the job a request is about

vars == <<store, status, finishedAt, clock, smu, jmu, now, left, oldest,
          work, felled, verdict, ctx, server, asked, pc, target>>
storeVars == <<store, status, finishedAt, clock>>
putVars == <<now, left, oldest>>
runVars == <<work, felled, verdict, ctx, server>>

Terminal == {"done", "error", "canceled"}

Init ==
    /\ store = {}
    /\ status = [j \in Jobs |-> "none"]
    /\ finishedAt = [j \in Jobs |-> 0]
    /\ clock = 1
    /\ smu = NoRequest
    /\ jmu = [j \in Jobs |-> NoRequest]
    /\ now = 0
    /\ left = {}
    /\ oldest = NoJob
    /\ work = [j \in Jobs |-> "none"]
    /\ felled = {}
    /\ verdict = [j \in Jobs |-> "none"]
    /\ ctx = [j \in Jobs |-> "live"]
    /\ server = [j \in Jobs |-> "off"]
    /\ asked = {}
    /\ pc = [r \in Requests |-> "idle"]
    /\ target = [r \in Requests |-> NoJob]

Serve(r, place, j) ==
    /\ pc' = [pc EXCEPT ![r] = place]
    /\ target' = [target EXCEPT ![r] = j]

Answer(r) == Serve(r, "idle", NoJob)

-----------------------------------------------------------------------------
(* jobStore.put and startDetachedJob                                       *)

\* put begins: s.mu is taken, and now is read.
StartJob(r, j) ==
    /\ pc[r] = "idle"
    /\ status[j] = "none"
    /\ smu = NoRequest
    /\ smu' = r
    /\ now' = clock
    /\ left' = store
    /\ Serve(r, "put", j)
    /\ UNCHANGED <<storeVars, jmu, oldest, runVars, asked>>

\* The first loop drops what is past its TTL.  Like the scan below it holds
\* the mutex of one job at a time.
Expired(j) == finishedAt[j] # 0 /\ now - finishedAt[j] > ResultTTL

Expire(r, j) ==
    /\ pc[r] = "put"
    /\ j \in left
    /\ jmu[j] = NoRequest
    /\ left' = left \ {j}
    /\ store' = IF Expired(j) THEN store \ {j} ELSE store
    /\ UNCHANGED <<status, finishedAt, clock, smu, jmu, now, oldest, runVars, asked, pc, target>>

\* The condition of the second loop.
\* Mutants: room for one job too few, or one too many.
FullEarly == Cardinality(store) >= MaxJobs - 1
FullLate == Cardinality(store) > MaxJobs
Full == Cardinality(store) >= MaxJobs

BeginScan(r) ==
    /\ pc[r] = "put"
    /\ left = {}
    /\ Full
    /\ left' = store
    /\ oldest' = NoJob
    /\ Serve(r, "scan", target[r])
    /\ UNCHANGED <<storeVars, smu, jmu, now, runVars, asked>>

Older(j) == oldest = NoJob \/ finishedAt[j] < finishedAt[oldest]

\* Mutant: a job that still runs is not skipped, and its zero time is the
\* oldest of all.
LookAtRunning(r, j) ==
    /\ pc[r] = "scan"
    /\ j \in left
    /\ jmu[j] = NoRequest
    /\ left' = left \ {j}
    /\ oldest' = IF Older(j) THEN j ELSE oldest
    /\ UNCHANGED <<storeVars, smu, jmu, now, runVars, asked, pc, target>>

Look(r, j) ==
    /\ pc[r] = "scan"
    /\ j \in left
    /\ jmu[j] = NoRequest
    /\ left' = left \ {j}
    /\ oldest' = IF finishedAt[j] # 0 /\ Older(j) THEN j ELSE oldest
    /\ UNCHANGED <<storeVars, smu, jmu, now, runVars, asked, pc, target>>

\* The oldest finished job goes, and the condition is tried again.
Drop(r) ==
    /\ pc[r] = "scan"
    /\ left = {}
    /\ oldest # NoJob
    /\ store' = store \ {oldest}
    /\ oldest' = NoJob
    /\ Serve(r, "put", target[r])
    /\ UNCHANGED <<status, finishedAt, clock, smu, jmu, now, left, runVars, asked>>

\* put ends with room, or having found nothing to drop: the job is stored,
\* its goroutine launched and its id answered.
Launch(r) ==
    /\ left = {}
    /\ \/ pc[r] = "put" /\ ~ Full
       \/ pc[r] = "scan" /\ oldest = NoJob
    /\ store' = store \union {target[r]}
    /\ status' = [status EXCEPT ![target[r]] = "running"]
    /\ work' = [work EXCEPT ![target[r]] = "query"]
    /\ smu' = NoRequest
    /\ now' = 0
    /\ Answer(r)
    /\ UNCHANGED <<finishedAt, clock, jmu, left, oldest, felled, verdict, ctx, server, asked>>

PutStep(r) ==
    \/ \E j \in left : Expire(r, j) \/ Look(r, j)
    \/ BeginScan(r) \/ Drop(r) \/ Launch(r)

(* GetJob: jobStore.get, then snapshot(true)                               *)

GetJob(r, j) ==
    /\ pc[r] = "idle"
    /\ smu = NoRequest
    /\ j \in store
    /\ Serve(r, "poll", j)
    /\ UNCHANGED <<storeVars, smu, jmu, putVars, runVars, asked>>

\* A finished job is answered at once; for a running one the mutex is kept
\* while system.processes is asked.
Snapshot(r) ==
    /\ pc[r] = "poll"
    /\ jmu[target[r]] = NoRequest
    /\ IF status[target[r]] = "running"
       THEN /\ jmu' = [jmu EXCEPT ![target[r]] = r]
            /\ Serve(r, "progress", target[r])
       ELSE Answer(r) /\ UNCHANGED jmu
    /\ UNCHANGED <<storeVars, smu, putVars, runVars, asked>>

\* Mutant: GetProgress without its three seconds' timeout may wait for ever
\* on a server that no longer knows the query.
ProgressHangs(r) ==
    /\ pc[r] = "progress"
    /\ server[target[r]] # "left"
    /\ jmu' = [jmu EXCEPT ![target[r]] = NoRequest]
    /\ Answer(r)
    /\ UNCHANGED <<storeVars, smu, putVars, runVars, asked>>

\* GetProgress answers, fails or runs into its timeout.
Progress(r) ==
    /\ pc[r] = "progress"
    /\ jmu' = [jmu EXCEPT ![target[r]] = NoRequest]
    /\ Answer(r)
    /\ UNCHANGED <<storeVars, smu, putVars, runVars, asked>>

(* CancelJob                                                               *)

CancelJob(r, j) ==
    /\ pc[r] = "idle"
    /\ smu = NoRequest
    /\ j \in store
    /\ Serve(r, "check", j)
    /\ UNCHANGED <<storeVars, smu, jmu, putVars, runVars, asked>>

CheckFinished(r) ==
    /\ pc[r] = "check"
    /\ jmu[target[r]] = NoRequest
    /\ IF status[target[r]] = "running" THEN Serve(r, "cancel", target[r]) ELSE Answer(r)
    /\ UNCHANGED <<storeVars, smu, jmu, putVars, runVars, asked>>

\* Mutant: the query is killed and the context left alone.
CancelByKill(r) ==
    /\ pc[r] = "cancel"
    /\ jmu[target[r]] = NoRequest
    /\ asked' = asked \union {target[r]}
    /\ Serve(r, "kill", target[r])
    /\ UNCHANGED <<storeVars, smu, jmu, putVars, runVars>>

\* The context keeps its first cause: canceling after the deadline changes
\* nothing.
CancelContext(r) ==
    /\ pc[r] = "cancel"
    /\ jmu[target[r]] = NoRequest
    /\ ctx' = [ctx EXCEPT ![target[r]] = IF @ = "live" THEN "canceled" ELSE @]
    /\ asked' = asked \union {target[r]}
    /\ Serve(r, "kill", target[r])
    /\ UNCHANGED <<storeVars, smu, jmu, putVars, work, felled, verdict, server>>

\* The KILL is best effort: it finds the query running or does nothing.
Kill(r) ==
    /\ pc[r] = "kill"
    /\ \/ /\ server[target[r]] = "running"
          /\ server' = [server EXCEPT ![target[r]] = "killed"]
       \/ UNCHANGED server
    /\ Answer(r)
    /\ UNCHANGED <<storeVars, smu, jmu, putVars, work, felled, verdict, ctx, asked>>

-----------------------------------------------------------------------------
(* The job's goroutine                                                     *)

Send(j) ==
    /\ work[j] = "query"
    /\ server[j] = "off"
    /\ ctx[j] = "live"
    /\ server' = [server EXCEPT ![j] = "running"]
    /\ UNCHANGED <<storeVars, smu, jmu, putVars, work, felled, verdict, ctx, asked, pc, target>>

ReturnError(j) ==
    /\ work[j] = "query"
    /\ work' = [work EXCEPT ![j] = "returned"]
    /\ UNCHANGED <<storeVars, smu, jmu, putVars, verdict, ctx, asked, pc, target>>

\* The rows were read to the end; the context is not looked at any more.
Succeed(j) ==
    /\ work[j] = "query"
    /\ server[j] = "running"
    /\ server' = [server EXCEPT ![j] = "left"]
    /\ work' = [work EXCEPT ![j] = "ending"]
    /\ verdict' = [verdict EXCEPT ![j] = "done"]
    /\ UNCHANGED <<storeVars, smu, jmu, putVars, felled, ctx, asked, pc, target>>

\* ClickHouse raises an exception, or the connection is lost.
Fail(j) ==
    /\ server[j] \in {"off", "running"}
    /\ server' = [server EXCEPT ![j] = "left"]
    /\ ReturnError(j)
    /\ UNCHANGED felled

FailKilled(j) ==
    /\ server[j] = "killed"
    /\ server' = [server EXCEPT ![j] = "left"]
    /\ ReturnError(j)
    /\ felled' = felled \union {j}

\* The driver gives up because the context is done; whether ClickHouse stops
\* the query too depends on the protocol.
Abort(j) ==
    /\ ctx[j] # "live"
    /\ server' = [server EXCEPT ![j] = "left"]
    /\ ReturnError(j)
    /\ UNCHANGED felled

\* Mutant: the job's context has no timeout.
NoDeadline(j) ==
    /\ FALSE
    /\ ctx' = [ctx EXCEPT ![j] = "deadline"]
    /\ UNCHANGED <<storeVars, smu, jmu, putVars, work, felled, verdict, server, asked, pc, target>>

\* jobBudget runs out. Nothing kills the query.
Deadline(j) ==
    /\ work[j] \in {"query", "returned"}
    /\ ctx[j] = "live"
    /\ ctx' = [ctx EXCEPT ![j] = "deadline"]
    /\ UNCHANGED <<storeVars, smu, jmu, putVars, work, felled, verdict, server, asked, pc, target>>

\* The arguments of finish: only a context that was canceled makes an error
\* a cancellation.
Decide(j) ==
    /\ work[j] = "returned"
    /\ work' = [work EXCEPT ![j] = "ending"]
    /\ verdict' = [verdict EXCEPT ![j] = IF ctx[j] = "canceled" THEN "canceled" ELSE "error"]
    /\ UNCHANGED <<storeVars, smu, jmu, putVars, felled, ctx, server, asked, pc, target>>

\* Mutant: FinishedAt is not stamped.
FinishUnstamped(j) ==
    /\ work[j] = "ending"
    /\ jmu[j] = NoRequest
    /\ work' = [work EXCEPT ![j] = "over"]
    /\ status' = [status EXCEPT ![j] = verdict[j]]
    /\ UNCHANGED <<store, finishedAt, clock, smu, jmu, putVars, felled, verdict, ctx, server, asked, pc, target>>

\* finish under j.mu, then the goroutine's deferred cancel.
Finish(j) ==
    /\ work[j] = "ending"
    /\ jmu[j] = NoRequest
    /\ work' = [work EXCEPT ![j] = "over"]
    /\ status' = [status EXCEPT ![j] = verdict[j]]
    /\ finishedAt' = [finishedAt EXCEPT ![j] = clock]
    /\ clock' = clock + 1
    /\ verdict' = [verdict EXCEPT ![j] = "none"]
    /\ ctx' = [ctx EXCEPT ![j] = IF @ = "live" THEN "canceled" ELSE @]
    /\ UNCHANGED <<store, smu, jmu, putVars, felled, server, asked, pc, target>>

Tick ==
    /\ clock < MaxClock
    /\ clock' = clock + 1
    /\ UNCHANGED <<store, status, finishedAt, smu, jmu, putVars, runVars, asked, pc, target>>

-----------------------------------------------------------------------------

Handler(r) ==
    \/ \E j \in Jobs : StartJob(r, j) \/ GetJob(r, j) \/ CancelJob(r, j)
    \/ PutStep(r) \/ Snapshot(r) \/ Progress(r)
    \/ CheckFinished(r) \/ CancelContext(r) \/ Kill(r)

Goroutine(j) ==
    \/ Send(j) \/ Succeed(j) \/ Fail(j) \/ FailKilled(j) \/ Abort(j)
    \/ Deadline(j) \/ Decide(j) \/ Finish(j)

Next ==
    \/ \E r \in Requests : Handler(r)
    \/ \E j \in Jobs : Goroutine(j)
    \/ Tick

Spec == Init /\ [][Next]_vars

(***************************************************************************)
(* Goroutines run, a mutex is handed over in the end, a driver call gives  *)
(* up when its context is done.  A query itself may run for ever.          *)
(***************************************************************************)
HandlerFairness ==
    \A r \in Requests :
        /\ WF_vars(PutStep(r) \/ Progress(r) \/ Kill(r))
        /\ SF_vars(Snapshot(r) \/ CheckFinished(r) \/ CancelContext(r))
JobFairness == \A j \in Jobs : WF_vars(Abort(j) \/ Decide(j)) /\ SF_vars(Finish(j))
TimerFairness == \A j \in Jobs : WF_vars(Deadline(j))

FairSpec == Spec /\ HandlerFairness /\ JobFairness /\ TimerFairness

-----------------------------------------------------------------------------
(* Properties                                                              *)

\* Every variable has its type, and FinishedAt, from which put tells running
\* jobs from finished ones, is set exactly when the status is final.
TypeOK ==
    /\ store \subseteq Jobs
    /\ status \in [Jobs -> {"none", "running"} \union Terminal]
    /\ finishedAt \in [Jobs -> Nat]
    /\ clock \in Nat \ {0}
    /\ smu \in Requests \union {NoRequest}
    /\ jmu \in [Jobs -> Requests \union {NoRequest}]
    /\ now \in Nat
    /\ left \subseteq Jobs
    /\ oldest \in Jobs \union {NoJob}
    /\ work \in [Jobs -> {"none", "query", "returned", "ending", "over"}]
    /\ felled \subseteq Jobs
    /\ verdict \in [Jobs -> {"none"} \union Terminal]
    /\ ctx \in [Jobs -> {"live", "canceled", "deadline"}]
    /\ server \in [Jobs -> {"off", "running", "killed", "left"}]
    /\ asked \subseteq Jobs
    /\ pc \in [Requests -> {"idle", "put", "scan", "poll", "progress", "check", "cancel", "kill"}]
    /\ target \in [Requests -> Jobs \union {NoJob}]
    /\ \A j \in Jobs : status[j] \in Terminal <=> finishedAt[j] # 0

\* A job that CancelJob's KILL brought down is shown as canceled, never as
\* failed, unless its budget had run out before: the context is canceled
\* before the KILL is sent, so the error of the kill finds it canceled.
StopIsNotFailure ==
    \A j \in Jobs : j \in felled /\ status[j] = "error" => ctx[j] = "deadline"

\* A result is dropped by a start only past its TTL or to make room in a full
\* store, and then no other that was there when the start began is older:
\* although jobs finish between the reads of a scan, the result a poll loses
\* is the one that had waited longest (put).
ResultKeptWhileRoom ==
    [][\A j \in store \ store' :
         \/ Expired(j)
         \/ /\ Cardinality(store) >= MaxJobs
            /\ \A k \in store' : finishedAt[k] \in 1 .. now - 1 => finishedAt[k] >= finishedAt[j]]_vars

\* The store outgrows maxJobs only by jobs that were running: every other job
\* that a start finds when it leaves more than maxJobs behind was running when
\* the start began, though it may have finished since its time was read (put).
OverflowWasRunning ==
    [][\A j \in store' \ store : Cardinality(store') > MaxJobs =>
         \A k \in store : finishedAt[k] \notin 1 .. now - 1]_vars

\* The job store implements what the browser relies on.
Contract == INSTANCE JobContract WITH phase <- status, kept <- store
ContractSpec == Contract!Spec

\* Every job ends: jobBudget bounds it even if nobody cancels it.
EveryJobEnds == \A j \in Jobs : status[j] = "running" ~> status[j] \in Terminal

\* Every request is answered: put ends, and waits under s.mu for mutexes that
\* polls hold while they wait for ClickHouse, and nobody waits the other way round.
RequestsAnswered == \A r \in Requests : pc[r] # "idle" ~> pc[r] = "idle"
=============================================================================
