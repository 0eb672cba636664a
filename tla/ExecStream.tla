----------------------------- MODULE ExecStream -----------------------------
(***************************************************************************)
(* One streamed execution from the browser to ClickHouse and back: the     *)
(* handler of POST /api/execute with the two goroutines it starts          *)
(* (internal/api/query_handlers.go, ExecuteQuery), and the promise that    *)
(* executeQuery (web/src/api/client.ts) makes of its NDJSON events.        *)
(*                                                                         *)
(* The handler runs the query and writes its answer; the pump polls        *)
(* system.processes and writes progress; the watcher waits for the browser *)
(* to go away and kills the query.  They share the ResponseWriter, under a *)
(* mutex held for one event, and two channels the handler closes when it   *)
(* returns; nobody waits for the goroutines to end.                        *)
(***************************************************************************)
EXTENDS Naturals, Sequences

CONSTANT
    MaxProgress   \* bound: progress events written per execution

ASSUME MaxProgressAssumption == MaxProgress \in Nat

VARIABLES
    \* the handler
    handler,  \* "idle", "query" (in ExecuteQuery), "rows", "failed", "advise", "over"
    paged,    \* offset # 0: no advisor
    finite,   \* the result has no NaN or Inf, which json.Marshal refuses
    budget,   \* the queryTimeout of ctx: "live" or "spent"
    \* its goroutines
    watcher,  \* "new" (not yet in its select), "waiting", "kill", "off"
    pump,     \* "waiting", "asked" (running was read), "off"
    \* the query in ClickHouse
    query,    \* "off", "sent", "running", "done", "killed"
    heeds,    \* whether a KILL QUERY gets through to it
    \* the connection
    rctx,     \* r.Context(): "live", or "gone" when the server noticed
    stream,   \* the types of the events written, in order
    \* the browser
    seen,     \* how many of them executeQuery has handled
    outcome,  \* its promise: "pending", "resolved", "rejected", or "aborted" by the user
    stopping  \* a POST /api/execute/cancel is under way

streamVars == <<handler, paged, finite, budget, watcher, pump, query, heeds,
                rctx, stream, seen, outcome, stopping>>
serverVars == <<handler, paged, finite, budget, watcher, pump, query, heeds>>
browserVars == <<seen, outcome, stopping>>

StreamInit ==
    /\ handler = "idle"
    /\ paged \in BOOLEAN
    /\ finite \in BOOLEAN
    /\ budget = "live"
    /\ watcher = "off"
    /\ pump = "off"
    /\ query = "off"
    /\ heeds \in BOOLEAN
    /\ rctx = "live"
    /\ stream = <<>>
    /\ seen = 0
    /\ outcome = "pending"
    /\ stopping = FALSE

\* writeEvent: an event that cannot be marshaled is dropped, and what is
\* written to a closed connection is lost.
Write(event) ==
    stream' = IF rctx = "gone" \/ (event = "result" /\ ~ finite) THEN stream
              ELSE Append(stream, event)

\* How many events the browser can read: it takes only what ends in a newline,
\* leftovers at the end of the body are dropped, and writeEvent ends every
\* event with one.
\* Mutant: the newline is written before the next event.
LinesBetween == IF stream = <<>> THEN 0 ELSE Len(stream) - 1
Lines == Len(stream)

-----------------------------------------------------------------------------
(* The handler                                                             *)

\* The "started" event, then the two goroutines.
Begin ==
    /\ handler = "idle"
    /\ Write("started")
    /\ handler' = "query"
    /\ watcher' = "new"
    /\ pump' = "waiting"
    /\ UNCHANGED <<paged, finite, heeds, budget, query, rctx, browserVars>>

CtxDone == rctx = "gone" \/ budget = "spent"

Send ==
    /\ handler = "query"
    /\ query = "off"
    /\ ~ CtxDone
    /\ query' = "sent"
    /\ UNCHANGED <<handler, paged, finite, heeds, budget, watcher, pump, rctx, stream, browserVars>>

\* The rows have been read to the end.
Rows ==
    /\ handler = "query"
    /\ query = "done"
    /\ handler' = "rows"
    /\ UNCHANGED <<paged, finite, heeds, budget, watcher, pump, query, rctx, stream, browserVars>>

\* ClickHouse raised an exception, or was killed, or the connection to it broke
\* and the query, if it was sent, goes on.
Fail ==
    /\ handler = "query"
    /\ handler' = "failed"
    /\ \/ query = "running" /\ query' = "done"
       \/ UNCHANGED query
    /\ UNCHANGED <<paged, finite, heeds, budget, watcher, pump, rctx, stream, browserVars>>

\* The driver gives up on a context that is done. On the native protocol
\* ClickHouse stops the query too; over HTTP it does not.
Abort ==
    /\ handler = "query"
    /\ CtxDone
    /\ handler' = "failed"
    /\ \/ query \in {"sent", "running"} /\ query' = "done"
       \/ UNCHANGED query
    /\ UNCHANGED <<paged, finite, heeds, budget, watcher, pump, rctx, stream, browserVars>>

\* Mutant: the per-statement context has no timeout.
NoBudget == FALSE

Timeout ==
    /\ handler = "query"
    /\ budget = "live"
    /\ budget' = "spent"
    /\ UNCHANGED <<handler, paged, finite, heeds, watcher, pump, query, rctx, stream, browserVars>>

\* The deferred closes: a watcher in its select sees done.
Return ==
    /\ handler' = "over"
    /\ watcher' = IF watcher = "waiting" THEN "off" ELSE watcher

\* Mutant: no return after the error event.
ErrorFallsThrough ==
    /\ handler = "failed"
    /\ Write("error")
    /\ handler' = "rows"
    /\ UNCHANGED <<paged, finite, heeds, budget, watcher, pump, query, rctx, browserVars>>

WriteError ==
    /\ handler = "failed"
    /\ Write("error")
    /\ Return
    /\ UNCHANGED <<paged, finite, heeds, budget, pump, query, rctx, browserVars>>

WriteResult ==
    /\ handler = "rows"
    /\ Write("result")
    /\ IF paged THEN Return ELSE handler' = "advise" /\ UNCHANGED watcher
    /\ UNCHANGED <<paged, finite, heeds, budget, pump, query, rctx, browserVars>>

\* The advisor has five seconds of its own, whatever became of the request.
Advise ==
    /\ handler = "advise"
    /\ Write("advisor") \/ UNCHANGED stream
    /\ Return
    /\ UNCHANGED <<paged, finite, heeds, budget, pump, query, rctx, browserVars>>

-----------------------------------------------------------------------------
(* The watcher                                                             *)

\* Mutant: the watcher waits on ctx, which also ends with the budget.
WatchBudget ==
    /\ watcher = "new"
    /\ \/ (CtxDone \/ handler = "over") /\ watcher' = "kill"
       \/ handler = "over" /\ watcher' = "off"
       \/ ~ CtxDone /\ handler # "over" /\ watcher' = "waiting"
    /\ UNCHANGED <<handler, paged, finite, heeds, budget, pump, query, rctx, stream, browserVars>>

\* Entering the select: of two ready channels either may be taken, and once
\* the handler has returned net/http ends r.Context() as well.
Watch ==
    /\ watcher = "new"
    /\ \/ (rctx = "gone" \/ handler = "over") /\ watcher' = "kill"
       \/ handler = "over" /\ watcher' = "off"
       \/ rctx = "live" /\ handler # "over" /\ watcher' = "waiting"
    /\ UNCHANGED <<handler, paged, finite, heeds, budget, pump, query, rctx, stream, browserVars>>

\* KILL QUERY finds the query in system.processes or does nothing.
KillQuery ==
    \/ query = "running" /\ heeds /\ query' = "killed"
    \/ (query # "running" \/ ~ heeds) /\ UNCHANGED query

\* Mutant: the KILL is sent under the request's own context, which is over.
KillUnderRequest ==
    /\ watcher = "kill"
    /\ KillQuery
    /\ rctx = "gone" => UNCHANGED query
    /\ watcher' = "off"
    /\ UNCHANGED <<handler, paged, finite, heeds, budget, pump, rctx, stream, browserVars>>

WatcherKills ==
    /\ watcher = "kill"
    /\ KillQuery
    /\ watcher' = "off"
    /\ UNCHANGED <<handler, paged, finite, heeds, budget, pump, rctx, stream, browserVars>>

(* The pump                                                                *)

\* A tick of the pump. It goes on only with a query that it saw running.
Ask ==
    /\ pump = "waiting"
    /\ query = "running"
    /\ Len(SelectSeq(stream, LAMBDA e : e = "progress")) < MaxProgress
    /\ pump' = "asked"
    /\ UNCHANGED <<handler, paged, finite, heeds, budget, watcher, query, rctx, stream, browserVars>>

WriteProgress ==
    /\ pump = "asked"
    /\ Write("progress")
    /\ pump' = "waiting"
    /\ UNCHANGED <<handler, paged, finite, heeds, budget, watcher, query, rctx, browserVars>>

PumpStops ==
    /\ pump = "waiting"
    /\ handler = "over"
    /\ pump' = "off"
    /\ UNCHANGED <<handler, paged, finite, heeds, budget, watcher, query, rctx, stream, browserVars>>

-----------------------------------------------------------------------------
(* ClickHouse and the network                                              *)

Register ==
    /\ query = "sent"
    /\ query' = "running"
    /\ UNCHANGED <<handler, paged, finite, heeds, budget, watcher, pump, rctx, stream, browserVars>>

Complete ==
    /\ query = "running"
    /\ query' = "done"
    /\ UNCHANGED <<handler, paged, finite, heeds, budget, watcher, pump, rctx, stream, browserVars>>

\* The browser closed the connection, or a proxy cut it: net/http cancels
\* r.Context(), and a watcher in its select wakes up.
Disconnect ==
    /\ handler \notin {"idle", "over"}
    /\ rctx = "live"
    /\ rctx' = "gone"
    /\ watcher' = IF watcher = "waiting" THEN "kill" ELSE watcher
    /\ UNCHANGED <<handler, paged, finite, heeds, budget, pump, query, stream, browserVars>>

-----------------------------------------------------------------------------
(* The browser: executeQuery and cancelQuery                               *)

Settle(how) == outcome' = IF outcome = "pending" THEN how ELSE outcome

\* An "error" event ends the reader; "result" resolves the promise and the
\* reader drains what follows.
HandleEvent ==
    /\ outcome \in {"pending", "resolved"}
    /\ seen < Lines
    /\ seen' = seen + 1
    /\ CASE stream[seen'] = "result" -> Settle("resolved")
         [] stream[seen'] = "error"  -> Settle("rejected")
         [] OTHER -> UNCHANGED outcome
    /\ UNCHANGED <<serverVars, rctx, stream, stopping>>

\* The body ends, or breaks off before all of it arrived.
StreamEnds ==
    /\ \/ handler = "over" /\ seen = Lines
       \/ rctx = "gone"
    /\ outcome = "pending"
    /\ outcome' = "rejected"
    /\ UNCHANGED <<serverVars, rctx, stream, seen, stopping>>

\* Stop: KILL by the query_id of the "started" event if that has arrived, and
\* abort the fetch, which the server notices later, or never.
Stop ==
    /\ handler # "idle"
    /\ outcome = "pending"
    /\ outcome' = "aborted"
    /\ stopping' = (seen > 0)
    /\ UNCHANGED <<serverVars, rctx, stream, seen>>

\* ExecuteCancel
ExecuteCancel ==
    /\ stopping
    /\ KillQuery
    /\ stopping' = FALSE
    /\ UNCHANGED <<handler, paged, finite, heeds, budget, watcher, pump, rctx, stream, seen, outcome>>

-----------------------------------------------------------------------------

Handler ==
    \/ Send \/ Rows \/ Fail \/ Abort \/ WriteError \/ WriteResult \/ Advise

StreamNext ==
    \/ Begin \/ Handler \/ Timeout
    \/ Watch \/ WatcherKills
    \/ Ask \/ WriteProgress \/ PumpStops
    \/ Register \/ Complete \/ Disconnect
    \/ HandleEvent \/ StreamEnds \/ Stop \/ ExecuteCancel

StreamSpec == StreamInit /\ [][StreamNext]_streamVars

(***************************************************************************)
(* Goroutines run, the timer fires, the driver gives up when its context   *)
(* is done, the advisor is bounded by its own timeout, and what was        *)
(* written arrives.  The query may run for ever and nobody need disconnect.*)
(***************************************************************************)
StreamFairSpec ==
    /\ StreamSpec
    /\ WF_streamVars(Begin) /\ WF_streamVars(Timeout)
    /\ WF_streamVars(Abort) /\ WF_streamVars(Rows)
    /\ WF_streamVars(WriteError \/ WriteResult \/ Advise)
    /\ WF_streamVars(Watch \/ WatcherKills) /\ WF_streamVars(WriteProgress) /\ WF_streamVars(PumpStops)
    /\ WF_streamVars(HandleEvent) /\ WF_streamVars(StreamEnds) /\ WF_streamVars(ExecuteCancel)

-----------------------------------------------------------------------------
(* Properties                                                              *)

\* Every variable has its type, and a watcher leaves its select only when the
\* browser is gone or the handler has returned.
StreamTypeOK ==
    /\ handler \in {"idle", "query", "rows", "failed", "advise", "over"}
    /\ paged \in BOOLEAN
    /\ finite \in BOOLEAN /\ heeds \in BOOLEAN
    /\ budget \in {"live", "spent"}
    /\ watcher \in {"new", "waiting", "kill", "off"}
    /\ pump \in {"waiting", "asked", "off"}
    /\ query \in {"off", "sent", "running", "done", "killed"}
    /\ rctx \in {"live", "gone"}
    /\ stream \in Seq({"started", "progress", "result", "advisor", "error"})
    /\ seen \in 0 .. Len(stream)
    /\ outcome \in {"pending", "resolved", "rejected", "aborted"}
    /\ stopping \in BOOLEAN
    /\ watcher \in {"kill", "off"} => handler \in {"idle", "over"} \/ rctx = "gone"

At(event) == {i \in DOMAIN stream : stream[i] = event}
Answers == At("result") \union At("error")

\* The stream answers once: never both a result and an error, or two of one;
\* and, for a result that could be marshaled, the advisor comes only after it
\* and a handler that returns on a connection that held has answered.
OneAnswer ==
    /\ \A i, j \in Answers : i = j
    /\ finite => \A i \in At("advisor") : \E j \in At("result") : j < i
    /\ finite /\ handler = "over" /\ rctx = "live" => Answers # {}

\* executeQuery rejects on a connection that holds only for an error event:
\* its reader drops what has no newline at the end of the body, and still
\* misses no answer that could be written.
NoFalseFailure ==
    outcome = "rejected" /\ rctx = "live" /\ finite => At("error") # {}

\* While its request is served, a query is killed only for a browser that is
\* gone or a user who stopped it: running out of queryTimeout kills nothing.
KilledForTheGone ==
    query = "killed" /\ handler \notin {"idle", "over"} =>
        rctx = "gone" \/ outcome = "aborted"

\* The promise of executeQuery settles, whether or not ClickHouse answers and
\* the connection holds: queryTimeout bounds the handler.
RunSettles == handler # "idle" ~> outcome # "pending"

\* A query that runs while the watcher waits stops once the browser goes: the
\* watcher wakes, and its KILL, under a context of its own, reaches ClickHouse
\* although the request is over. Not so a query that is still being sent when
\* the KILL comes, nor one whose watcher reaches its select after the handler
\* returned and takes done.
DisconnectStopsQuery ==
    [](heeds /\ watcher \in {"waiting", "kill"} /\ query = "running" =>
         (rctx = "gone" ~> query # "running"))
=============================================================================
