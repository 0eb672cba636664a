---------------------------- MODULE BulkAnalysis ----------------------------
(***************************************************************************)
(* The bulk analysis of the table optimizer: StreamBulkAnalysis            *)
(* (internal/clickhouse/table_optimizer.go) behind the handlers of         *)
(* internal/api/optimizer_handlers.go, streamBulkAnalysis                  *)
(* (web/src/api/client.ts) and the page, web/src/pages/TableOptimizer.tsx. *)
(***************************************************************************)
EXTENDS Naturals, Sequences, FiniteSets, SequencesExt

CONSTANTS
    Databases,  \* in the order of GetDatabases, system databases left out
    Sizes,      \* the numbers of tables that the databases may have
    Scopes,     \* what the user analyzes: "database", "all"
    MaxRuns     \* bound: analyses

ASSUME DatabasesAssumption ==
    /\ Databases \in Seq(ToSet(Databases))
    /\ IsFiniteSet(ToSet(Databases)) /\ IsInjective(Databases)
ASSUME SizesAssumption == Sizes \subseteq [ToSet(Databases) -> Nat]
ASSUME BoundsAssumption == MaxRuns \in Nat
ASSUME ScopesAssumption == Scopes \subseteq {"database", "all"}

VARIABLES
    tables,    \* database -> its number of tables
    runs,      \* analyses so far
    scope,     \* run -> "database", "all", or "none" before it
    \* the handler
    todo,      \* run -> databases it has not finished
    phase,     \* run -> "none", "list", "check", "begin", "busy", "pause", "over"
    at,        \* run -> the table it is at
    counts,    \* run -> analyzed and errors of its database
    canceled,  \* runs whose request context is canceled
    wire,      \* run -> events on their way
    \* the page
    gone,      \* runs whose fetch is aborted, broken or cut short
    loading, bulkDone, bulkResults, asking,
    abortRef,  \* run whose controller it holds, 0 for null
    \* history, which only history reads
    beside,    \* runs that still streamed when the newest was begun, Stop aside
    stopped,   \* whether Stop was confirmed of the newest
    lost,      \* run -> results that json.Marshal refused a browser that reads
    late,      \* run -> tables begun after its context was canceled
    cut        \* whether the newest's stream ends with neither a "done" nor an error

server == <<todo, phase, at, counts, lost, late>>
page == <<loading, bulkDone, bulkResults, asking, abortRef, beside, stopped, cut>>
vars == <<tables, runs, scope, server, canceled, wire, gone, page>>

Runs == 1 .. MaxRuns
Zero == [analyzed |-> 0, errors |-> 0]
NoDone == <<>>
Phases == {"none", "list", "check", "begin", "busy", "pause", "over"}

\* Nothing of r reaches the page any more.
Silent(r) == r \in gone \/ (phase[r] = "over" /\ wire[r] = <<>>)

Init ==
    /\ tables \in Sizes
    /\ runs = 0
    /\ scope = [r \in Runs |-> "none"]
    /\ todo = [r \in Runs |-> <<>>]
    /\ phase = [r \in Runs |-> "none"]
    /\ at = [r \in Runs |-> 0]
    /\ counts = [r \in Runs |-> Zero]
    /\ canceled = {}
    /\ wire = [r \in Runs |-> <<>>]
    /\ gone = {}
    /\ loading = FALSE
    /\ bulkDone = NoDone
    /\ bulkResults = <<>>
    /\ asking = FALSE
    /\ abortRef = 0
    /\ beside = {}
    /\ stopped = FALSE
    /\ lost = [r \in Runs |-> 0]
    /\ late = [r \in Runs |-> 0]
    /\ cut = FALSE

-----------------------------------------------------------------------------
(* The server                                                              *)

\* What is written for a browser that is gone reaches nobody.
Emit(r, events) ==
    wire' = IF r \in gone THEN wire ELSE [wire EXCEPT ![r] = @ \o events]

DoneEvent(n) == [type |-> "done", analyzed |-> n.analyzed, errors |-> n.errors]
ResultEvent(r, ok) == [type |-> "result", run |-> r, ok |-> ok]

\* The end of StreamBulkAnalysis for one database.
EndDatabase(r) ==
    /\ todo' = [todo EXCEPT ![r] = Tail(@)]
    /\ phase' = [phase EXCEPT ![r] = IF todo'[r] = <<>> THEN "over" ELSE "list"]
    /\ at' = [at EXCEPT ![r] = 0]
    /\ counts' = [counts EXCEPT ![r] = Zero]

\* AnalyzeAllHandler looks at the context before each database; the handler of
\* one database does not.
HandlerStops(r) ==
    /\ phase[r] = "list"
    /\ scope[r] = "all"
    /\ r \in canceled
    /\ phase' = [phase EXCEPT ![r] = "over"]
    /\ todo' = [todo EXCEPT ![r] = <<>>]
    /\ UNCHANGED <<tables, runs, scope, at, counts, lost, late, canceled, wire, gone, page>>

ListFails(r) ==
    /\ phase[r] = "list"
    /\ scope[r] = "database" \/ r \notin canceled
    /\ Emit(r, <<DoneEvent([analyzed |-> 0, errors |-> 1])>>)
    /\ EndDatabase(r)
    /\ UNCHANGED <<tables, runs, scope, lost, late, canceled, gone, page>>

List(r) ==
    /\ phase[r] = "list"
    /\ r \notin canceled
    /\ IF tables[Head(todo[r])] = 0
       THEN Emit(r, <<DoneEvent(Zero)>>) /\ EndDatabase(r)
       ELSE /\ phase' = [phase EXCEPT ![r] = "check"]
            /\ at' = [at EXCEPT ![r] = 1]
            /\ UNCHANGED <<todo, counts, wire>>
    /\ UNCHANGED <<tables, runs, scope, lost, late, canceled, gone, page>>

\* Mutant: no look at the context before a table.
CheckBlind(r) ==
    /\ phase[r] = "check"
    /\ phase' = [phase EXCEPT ![r] = "begin"]
    /\ UNCHANGED <<tables, runs, scope, todo, at, counts, lost, late, canceled, wire, gone, page>>

\* The look at the context before a table.
Check(r) ==
    /\ phase[r] = "check"
    /\ r \notin canceled
    /\ phase' = [phase EXCEPT ![r] = "begin"]
    /\ UNCHANGED <<tables, runs, scope, todo, at, counts, lost, late, canceled, wire, gone, page>>

\* The context may have ended since.  The page only shows the progress that
\* is told here: that event is left out.
Begin(r) ==
    /\ phase[r] = "begin"
    /\ phase' = [phase EXCEPT ![r] = "busy"]
    /\ late' = IF r \in canceled THEN [late EXCEPT ![r] = @ + 1] ELSE late
    /\ UNCHANGED <<tables, runs, scope, todo, at, counts, lost, canceled, wire, gone, page>>

\* The context ended, before a table or in the pause after it.
StreamStops(r) ==
    /\ phase[r] \in {"check", "pause"}
    /\ r \in canceled
    /\ Emit(r, <<DoneEvent(counts[r])>>)
    /\ EndDatabase(r)
    /\ UNCHANGED <<tables, runs, scope, lost, late, canceled, gone, page>>

\* Mutant: an error counts as analyzed too.
CountedTwice(n, ok) ==
    [analyzed |-> n.analyzed + 1, errors |-> IF ok THEN n.errors ELSE n.errors + 1]
Counted(n, ok) ==
    IF ok THEN [n EXCEPT !.analyzed = @ + 1] ELSE [n EXCEPT !.errors = @ + 1]

\* AnalyzeTable returns, within its budget.  The result of a table that was
\* analyzed is counted also when writeSSE loses it: an average that is not a
\* number (avg_diff) has no JSON.
Analyzed(r, ok, told) ==
    /\ phase[r] = "busy"
    /\ LET n == Counted(counts[r], ok)
           result == IF told THEN <<ResultEvent(r, ok)>> ELSE <<>>
       IN  IF at[r] < tables[Head(todo[r])]
           THEN /\ Emit(r, result)
                /\ counts' = [counts EXCEPT ![r] = n]
                /\ phase' = [phase EXCEPT ![r] = "pause"]
                /\ UNCHANGED <<todo, at>>
           ELSE Emit(r, result \o <<DoneEvent(n)>>) /\ EndDatabase(r)
    /\ lost' = IF told \/ r \in gone THEN lost ELSE [lost EXCEPT ![r] = @ + 1]
    /\ UNCHANGED <<tables, runs, scope, late, canceled, gone, page>>

\* The 500 ms timer; with the context ended too, select takes either.
Pause(r) ==
    /\ phase[r] = "pause"
    /\ phase' = [phase EXCEPT ![r] = "check"]
    /\ at' = [at EXCEPT ![r] = @ + 1]
    /\ UNCHANGED <<tables, runs, scope, todo, counts, lost, late, canceled, wire, gone, page>>

\* net/http notices that the browser is gone.
Notice(r) ==
    /\ r \in gone \ canceled
    /\ phase[r] # "over"
    /\ canceled' = canceled \union {r}
    /\ UNCHANGED <<tables, runs, scope, server, wire, gone, page>>

-----------------------------------------------------------------------------
(* The page                                                                *)

\* runAnalysis, of one database or of all: there may be none that is not the
\* system's.  A stream that abortRef held before goes on without it.
RunAnalysis ==
    /\ runs < MaxRuns
    /\ runs' = runs + 1
    /\ \E s \in Scopes :
        /\ scope' = [scope EXCEPT ![runs'] = s]
        /\ \E dbs \in IF s = "all" THEN {Databases, <<>>} ELSE {<<d>> : d \in ToSet(Databases)} :
              todo' = [todo EXCEPT ![runs'] = dbs]
    /\ phase' = [phase EXCEPT ![runs'] = IF todo'[runs'] = <<>> THEN "over" ELSE "list"]
    /\ cut' = (todo'[runs'] = <<>>)
    /\ beside' = {r \in 1 .. runs : ~ Silent(r) /\ (stopped => r # runs)}
    /\ stopped' = FALSE
    /\ loading' = TRUE
    /\ bulkResults' = <<>>
    /\ bulkDone' = NoDone
    /\ abortRef' = runs'
    /\ UNCHANGED <<tables, at, counts, lost, late, canceled, wire, gone, asking>>

\* The Analyze button, and Retry on an error, which has ended the loading.
Analyze == ~ asking /\ ~ loading /\ RunAnalysis

\* The effect of another table in the URL, or of a connection that is back:
\* it asks neither whether an analysis is under way nor for a single table.
FollowLink == RunAnalysis

\* Mutant: only one of the events of a read is handled.
DeliverFirst(r) ==
    /\ r \notin gone
    /\ wire[r] # <<>>
    /\ wire' = [wire EXCEPT ![r] = <<>>]
    /\ LET e == Head(wire[r])
       IN  \/ /\ e.type = "result"
              /\ bulkResults' = Append(bulkResults, e)
              /\ UNCHANGED <<bulkDone, loading>>
           \/ /\ e.type = "done"
              /\ bulkDone' = [analyzed |-> e.analyzed, errors |-> e.errors]
              /\ loading' = FALSE
              /\ UNCHANGED bulkResults
    /\ UNCHANGED <<tables, runs, scope, server, canceled, gone, asking, abortRef,
                   beside, stopped, cut>>

\* onEvent, for the events in the order they were written.
Deliver(r) ==
    /\ r \notin gone
    /\ wire[r] # <<>>
    /\ wire' = [wire EXCEPT ![r] = Tail(@)]
    /\ LET e == Head(wire[r])
       IN  \/ /\ e.type = "result"
              /\ bulkResults' = Append(bulkResults, e)
              /\ UNCHANGED <<bulkDone, loading>>
           \/ /\ e.type = "done"
              /\ bulkDone' = [analyzed |-> e.analyzed, errors |-> e.errors]
              /\ loading' = FALSE
              /\ UNCHANGED bulkResults
    /\ UNCHANGED <<tables, runs, scope, server, canceled, gone, asking, abortRef,
                   beside, stopped, cut>>

\* The request is refused or the connection breaks: onError.
Break(r) ==
    /\ r \in (1 .. runs) \ gone
    /\ phase[r] # "over" \/ wire[r] # <<>>
    /\ gone' = gone \union {r}
    /\ wire' = [wire EXCEPT ![r] = <<>>]
    /\ loading' = FALSE
    /\ UNCHANGED <<tables, runs, scope, server, canceled, bulkDone, bulkResults, asking, abortRef,
                   beside, stopped, cut>>

\* The body ends as if it were complete, as after a panic that the Recoverer
\* catches: reader.read() says done, and the page hears neither of a "done"
\* nor of an error.
Truncate(r) ==
    /\ r \in (1 .. runs) \ gone
    /\ phase[r] # "over" \/ wire[r] # <<>>
    /\ gone' = gone \union {r}
    /\ cut' = (cut \/ r = runs)
    /\ wire' = [wire EXCEPT ![r] = <<>>]
    /\ UNCHANGED <<tables, runs, scope, server, canceled, loading, bulkDone, bulkResults, asking,
                   abortRef, beside, stopped>>

AskStop ==
    /\ loading
    /\ asking' = TRUE
    /\ UNCHANGED <<tables, runs, scope, server, canceled, wire, gone, loading, bulkDone,
                   bulkResults, abortRef, beside, stopped, cut>>

CancelStop ==
    /\ asking
    /\ asking' = FALSE
    /\ UNCHANGED <<tables, runs, scope, server, canceled, wire, gone, loading, bulkDone,
                   bulkResults, abortRef, beside, stopped, cut>>

\* Mutant: the page stops looking, the stream goes on.
StopLooking ==
    /\ asking
    /\ asking' = FALSE
    /\ abortRef' = 0
    /\ stopped' = (stopped \/ abortRef # 0)
    /\ loading' = FALSE
    /\ UNCHANGED <<tables, runs, scope, server, canceled, wire, gone, bulkDone, bulkResults,
                   beside, cut>>

\* The dialog stays open when the analysis ends by itself.
ConfirmStop ==
    /\ asking
    /\ asking' = FALSE
    /\ gone' = gone \union ({abortRef} \ {0})
    /\ wire' = IF abortRef = 0 THEN wire ELSE [wire EXCEPT ![abortRef] = <<>>]
    /\ stopped' = (stopped \/ abortRef # 0)
    /\ abortRef' = 0
    /\ loading' = FALSE
    /\ UNCHANGED <<tables, runs, scope, server, canceled, bulkDone, bulkResults, beside, cut>>

-----------------------------------------------------------------------------

Handle(r) ==
    \/ HandlerStops(r) \/ ListFails(r) \/ List(r) \/ Check(r) \/ Begin(r) \/ StreamStops(r)
    \/ Pause(r)
    \/ \E ok, told \in BOOLEAN : (ok \/ told) /\ Analyzed(r, ok, told)

Next ==
    \/ Analyze \/ FollowLink \/ AskStop \/ CancelStop \/ ConfirmStop
    \/ \E r \in 1 .. runs : Handle(r) \/ Notice(r) \/ Deliver(r) \/ Break(r) \/ Truncate(r)

Spec == Init /\ [][Next]_vars

\* The handler goes on (AnalyzeTable has a budget of five minutes), and the
\* browser reads what arrives.
FairSpec == Spec /\ \A r \in Runs : WF_vars(r <= runs /\ Handle(r)) /\ WF_vars(r <= runs /\ Deliver(r))

-----------------------------------------------------------------------------
(* Properties                                                              *)

\* Every variable has its type, and the handler is at a table that exists.
TypeOK ==
    /\ tables \in Sizes
    /\ runs \in 0 .. MaxRuns /\ abortRef \in {0, runs}
    /\ canceled \subseteq gone /\ gone \subseteq 1 .. runs
    /\ cut \in BOOLEAN /\ (stopped => runs \in gone)
    /\ loading \in BOOLEAN /\ asking \in BOOLEAN
    /\ \A r \in Runs :
        /\ phase[r] \in Phases
        /\ r > runs <=> phase[r] = "none"
        /\ phase[r] \in {"check", "begin", "busy", "pause"} =>
              todo[r] # <<>> /\ at[r] \in 1 .. tables[Head(todo[r])]
        /\ r \in gone => wire[r] = <<>>

\* How many of the tables listed were analyzed, or could not be.
Shown(ok) == Cardinality({i \in DOMAIN bulkResults : bulkResults[i].ok = ok})

\* The newest analysis is of one database, and nothing of an earlier one could
\* reach the page when it was begun.  Of all databases each has its own
\* "done", and of two streams that overlap the page mixes what they tell.
Alone == runs # 0 /\ scope[runs] = "database" /\ beside = {}

\* "Analysis complete: ... analyzed, ... errors" tells the results listed
\* below it, but for those that writeSSE lost, when the analysis has the page
\* to itself.
DoneCountsResults ==
    Alone /\ bulkDone # NoDone =>
        \/ bulkResults = <<>> /\ bulkDone.analyzed = 0 /\ bulkDone.errors = 1
        \/ /\ Shown(TRUE) + lost[runs] = bulkDone.analyzed
           /\ Shown(FALSE) = bulkDone.errors

\* Whatever is listed is of the newest analysis or of one that was still
\* streaming when that was begun: results of one that was stopped, that broke
\* off or that was over do not trail into the list of a later one.
ResultsOfOneRun == \A i \in DOMAIN bulkResults : bulkResults[i].run \in {runs} \union beside

\* "No further tables will be analyzed": of all the tables of all databases,
\* at most the one that the handler had looked at the context for is begun
\* once the server knows of the Stop, though the pause's select may take the
\* timer.
NoFurtherTables == \A r \in Runs : late[r] <= 1

\* The page stops loading, unless the newest stream ends without a "done": the
\* page then loads until the user stops it.
LoadingEnds == loading ~> ~ loading \/ cut
=============================================================================
