----------------------------- MODULE EditorRuns -----------------------------
(***************************************************************************)
(* Runs of the query editor, web/src/pages/QueryEditor.tsx: several tabs   *)
(* execute lists of statements and pages of results at once, and share one *)
(* abortRef. A controller is named after the run that created it.          *)
(*                                                                         *)
(* JavaScript runs to completion: abort() rejects the reads it cancels,    *)
(* and the code after their await runs before the next event. The guard    *)
(* Quiet says so.                                                          *)
(***************************************************************************)
EXTENDS Naturals, Sequences

CONSTANTS
    Tabs,
    Length,    \* statements in each run
    MaxRuns    \* bound: calls of executeStatements and loadResultPage

ASSUME LengthAssumption == Length \in Nat \ {0}
ASSUME MaxRunsAssumption == MaxRuns \in Nat

VARIABLES
    active,    \* activeTabId
    tab,       \* the tabs
    started,   \* runs so far
    run,       \* the closures and locals of the runs
    pc,        \* run -> "none", "sent", "open" (the stream started), "over"
    abortRef,  \* run whose controller it holds, 0 for null
    aborted,   \* controllers that are aborted
    trailing,  \* streams that have answered and may still bring an advisor
    parked     \* queries in the pendingAdvisors of runs under way

vars == <<active, tab, started, run, pc, abortRef, aborted, trailing, parked>>

Runs == 1 .. MaxRuns
Statements == 1 .. Length
Queries == Runs \X Statements  \* a query id: the run and the statement it is for
NoQuery == <<>>
Outcomes == {"ok", "failed", "request aborted"}

\* An entry of results and errors: who computed it, for which statement of
\* which run, and with which query's advisor.
Result(r, how) ==
    [by |-> r, stmt |-> <<run[r].of, run[r].at>>, how |-> how, advisor |-> NoQuery]
NoResult == [by |-> 0, stmt |-> NoQuery, how |-> "none", advisor |-> NoQuery]
NoResults == [i \in Statements |-> NoResult]

\* The query_id of a result; an error has none.
QueryId(x) == IF x.how = "ok" THEN <<x.by, x.stmt[2]>> ELSE NoQuery

EmptyTab == [statements |-> 0, results |-> NoResults, running |-> FALSE,
             runningQueryId |-> NoQuery, pageLoading |-> FALSE]

Init ==
    /\ active \in Tabs
    /\ tab = [t \in Tabs |-> EmptyTab]
    /\ started = 0
    /\ run = [r \in Runs |->
                [tab |-> active, page |-> 0, of |-> 0, at |-> 0, signal |-> 0, results |-> NoResults]]
    /\ pc = [r \in Runs |-> "none"]
    /\ abortRef = 0
    /\ aborted = {}
    /\ trailing = {}
    /\ parked = {}

-----------------------------------------------------------------------------

Running(r) == pc[r] \in {"sent", "open"}
Cut(r) == run[r].signal \in aborted
Quiet == \A r \in Runs : Running(r) => ~ Cut(r)

\* The first fetch of a run, with the controller just made for it.
Begin(page, of, at) ==
    /\ started < MaxRuns
    /\ started' = started + 1
    /\ run' = [run EXCEPT ![started'] = [tab |-> active, page |-> page, of |-> of, at |-> at,
                                         signal |-> started', results |-> NoResults]]
    /\ pc' = [pc EXCEPT ![started'] = "sent"]
    /\ abortRef' = started'

\* Mod-Enter runs the text whether or not the tab is running.
ExecuteStatements ==
    /\ Quiet
    /\ Begin(0, started + 1, 1)
    /\ tab' = [tab EXCEPT ![active].results = NoResults,
                          ![active].running = TRUE,
                          ![active].statements = started',
                          ![active].runningQueryId = NoQuery]
    /\ UNCHANGED <<active, aborted, trailing, parked>>

\* A parameter has no value.
RunRefused ==
    /\ Quiet
    /\ tab' = [tab EXCEPT ![active].results = NoResults, ![active].running = FALSE]
    /\ UNCHANGED <<active, started, run, pc, abortRef, aborted, trailing, parked>>

\* The pager is shown under a result and disabled while a page loads.
LoadResultPage(i) ==
    /\ Quiet
    /\ tab[active].statements # 0
    /\ tab[active].results[i].how = "ok"
    /\ ~ tab[active].pageLoading
    /\ aborted' = aborted \union ({abortRef} \ {0})
    /\ Begin(i, tab[active].statements, i)
    /\ tab' = [tab EXCEPT ![active].pageLoading = TRUE]
    /\ UNCHANGED <<active, trailing, parked>>

\* Mutant: a callback that looks up the tab when it is called.
StartedInActive(r) ==
    /\ Quiet
    /\ pc[r] = "sent"
    /\ pc' = [pc EXCEPT ![r] = "open"]
    /\ tab' = [tab EXCEPT ![active].runningQueryId = <<r, run[r].at>>]
    /\ UNCHANGED <<active, started, run, abortRef, aborted, trailing, parked>>

Started(r) ==
    /\ Quiet
    /\ pc[r] = "sent"
    /\ pc' = [pc EXCEPT ![r] = "open"]
    /\ tab' = [tab EXCEPT ![run[r].tab].runningQueryId = <<r, run[r].at>>]
    /\ UNCHANGED <<active, started, run, abortRef, aborted, trailing, parked>>

-----------------------------------------------------------------------------
(* After the await of runOneStatement                                      *)

\* The results so far, with the advisors that came while later statements ran.
Finalized(results) ==
    [i \in Statements |->
        IF QueryId(results[i]) \in parked
        THEN [results[i] EXCEPT !.advisor = QueryId(results[i])]
        ELSE results[i]]

\* The end of a run and of its locals.
Over(r) ==
    /\ pc' = [pc EXCEPT ![r] = "over"]
    /\ run' = [run EXCEPT ![r].at = 0, ![r].signal = 0, ![r].results = NoResults]

\* Mutant: the tab that is active when the run ends.
CommitToActive(r, results) ==
    /\ tab' = [tab EXCEPT ![active].results = Finalized(results),
                          ![active].running = FALSE,
                          ![active].runningQueryId = NoQuery]
    /\ abortRef' = 0
    /\ parked' = {q \in parked : q[1] # r}
    /\ Over(r)

Commit(r, results) ==
    /\ tab' = [tab EXCEPT ![run[r].tab].results = Finalized(results),
                          ![run[r].tab].running = FALSE,
                          ![run[r].tab].runningQueryId = NoQuery]
    /\ abortRef' = 0
    /\ parked' = {q \in parked : q[1] # r}
    /\ Over(r)

\* Each statement is sent with the signal abortRef has by then.
NextStatement(r, results) ==
    /\ run' = [run EXCEPT ![r].results = results,
                          ![r].at = @ + 1,
                          ![r].signal = abortRef]
    /\ pc' = [pc EXCEPT ![r] = "sent"]
    /\ UNCHANGED <<tab, abortRef, parked>>

\* The page replaces one result.
Splice(r, x) ==
    /\ tab' = [tab EXCEPT ![run[r].tab].results[run[r].page] = x,
                          ![run[r].tab].pageLoading = FALSE,
                          ![run[r].tab].runningQueryId = NoQuery]
    /\ abortRef' = 0
    /\ Over(r)
    /\ UNCHANGED parked

\* Mutant: one statement too many.
ContinuePast(r, how) ==
    LET x == Result(r, how)
        results == [run[r].results EXCEPT ![run[r].at] = x]
    IN  \/ run[r].page # 0 /\ Splice(r, x)
        \/ run[r].page = 0 /\ run[r].at <= Length /\ NextStatement(r, results)
        \/ run[r].page = 0 /\ run[r].at > Length /\ Commit(r, results)

Continue(r, how) ==
    LET x == Result(r, how)
        results == [run[r].results EXCEPT ![run[r].at] = x]
    IN  \/ run[r].page # 0 /\ Splice(r, x)
        \/ run[r].page = 0 /\ run[r].at < Length /\ NextStatement(r, results)
        \/ run[r].page = 0 /\ run[r].at = Length /\ Commit(r, results)

Answer(r) ==
    /\ Quiet
    /\ pc[r] = "open"
    /\ Continue(r, "ok")
    /\ trailing' = trailing \union {[query |-> <<r, run[r].at>>, signal |-> run[r].signal]}
    /\ UNCHANGED <<active, started, aborted>>

\* An error event, a status, a killed query or a lost connection.
Fail(r) ==
    /\ Quiet
    /\ Running(r)
    /\ Continue(r, "failed")
    /\ UNCHANGED <<active, started, aborted, trailing>>

\* An abort before the headers: executeQuery wraps it, and the callers, who
\* look for a DOMException, take it for an error.
AbortWrapped(r) ==
    /\ pc[r] = "sent"
    /\ Cut(r)
    /\ Continue(r, "request aborted")
    /\ UNCHANGED <<active, started, aborted, trailing>>

\* Mutant: the run returns, as loadResultPage does.
AbortReturns(r) ==
    /\ pc[r] = "open"
    /\ Cut(r)
    /\ Over(r)
    /\ UNCHANGED <<active, tab, started, abortRef, aborted, trailing, parked>>

\* An abort of an open stream: the list ends with what it has, the page is
\* left as it is.
AbortError(r) ==
    /\ pc[r] = "open"
    /\ Cut(r)
    /\ IF run[r].page = 0
       THEN Commit(r, run[r].results)
       ELSE Over(r) /\ UNCHANGED <<tab, abortRef, parked>>
    /\ UNCHANGED <<active, started, aborted, trailing>>

-----------------------------------------------------------------------------

\* Mutant: the advisor goes to whatever is at its index.
AttachBlind(x, q) == IF x = NoResult THEN x ELSE [x EXCEPT !.advisor = q]

\* applyAdvisor compares the query ids.
Attach(x, q) == IF x # NoResult /\ QueryId(x) = q THEN [x EXCEPT !.advisor = q] ELSE x

\* The advisor trails the answer and dies with the stream.
Advisor(s) ==
    /\ Quiet
    /\ s.signal \notin aborted
    /\ trailing' = trailing \ {s}
    /\ LET r == s.query[1]
           i == s.query[2]
       IN  /\ parked' = IF run[r].page = 0 /\ Running(r) THEN parked \union {s.query} ELSE parked
           /\ tab' = [tab EXCEPT ![run[r].tab].results[i] = Attach(@, s.query)]
    /\ UNCHANGED <<active, started, run, pc, abortRef, aborted>>

\* cancelQuery, offered while the tab runs. It also kills the tab's
\* runningQueryId, which then fails.
Stop ==
    /\ Quiet
    /\ tab[active].running
    /\ aborted' = aborted \union ({abortRef} \ {0})
    /\ tab' = IF abortRef = 0 THEN tab
              ELSE [tab EXCEPT ![active].running = FALSE, ![active].runningQueryId = NoQuery]
    /\ UNCHANGED <<active, started, run, pc, abortRef, trailing, parked>>

Activate(t) ==
    /\ Quiet
    /\ active' = t
    /\ UNCHANGED <<tab, started, run, pc, abortRef, aborted, trailing, parked>>

-----------------------------------------------------------------------------

Settle(r) == Answer(r) \/ Fail(r) \/ AbortWrapped(r) \/ AbortError(r)

Next ==
    \/ ExecuteStatements \/ RunRefused \/ Stop
    \/ \E i \in Statements : LoadResultPage(i)
    \/ \E r \in Runs : Started(r) \/ Settle(r)
    \/ \E s \in trailing : Advisor(s)
    \/ \E t \in Tabs : Activate(t)

Spec == Init /\ [][Next]_vars

\* The server answers every execution or closes its stream (ExecStream).
FairSpec == Spec /\ \A r \in Runs : WF_vars(Settle(r))

-----------------------------------------------------------------------------
(* Properties                                                              *)

TabType ==
    [statements : 0 .. MaxRuns,
     results : [Statements ->
        {NoResult} \union
        [by : Runs, stmt : Queries, how : Outcomes, advisor : Queries \union {NoQuery}]],
     running : BOOLEAN, runningQueryId : Queries \union {NoQuery}, pageLoading : BOOLEAN]

\* Every variable has its type, and no run is at work before it began.
TypeOK ==
    /\ active \in Tabs
    /\ tab \in [Tabs -> TabType]
    /\ started \in 0 .. MaxRuns
    /\ \A r \in Runs :
         /\ run[r].tab \in Tabs /\ run[r].page \in 0 .. Length
         /\ run[r].of \in 0 .. MaxRuns /\ run[r].at \in 0 .. Length /\ run[r].signal \in 0 .. MaxRuns
         /\ pc[r] \in {"none", "sent", "open", "over"}
         /\ r > started <=> pc[r] = "none"
    /\ abortRef \in 0 .. started
    /\ aborted \subseteq 1 .. started
    /\ parked \subseteq Queries

\* An advisor is shown with the result it was computed for, although it
\* arrives after the result, after a page replaced it, or after another run
\* of the tab did.
AdvisorMatchesResult ==
    \A t \in Tabs, i \in Statements :
        tab[t].results[i].advisor \in {NoQuery, QueryId(tab[t].results[i])}

\* A tab shows at position i what a run of the same tab got for its i-th
\* statement, whichever tab was active when the answer came.
ResultsAreOwn ==
    \A t \in Tabs, i \in Statements :
        LET x == tab[t].results[i]
        IN  x # NoResult => run[x.by].tab = t /\ x.stmt[2] = i

\* The query that Stop kills is one of its own tab.
StopKillsOwn ==
    \A t \in Tabs : LET q == tab[t].runningQueryId IN q # NoQuery => run[q[1]].tab = t

\* A tab that is running stops running: whatever aborts a run, also from
\* another tab, lets it commit what it has.
RunningEnds == \A t \in Tabs : tab[t].running ~> ~ tab[t].running

\* Claimed: "Stop = abort the fetch AND kill the query server-side", here of
\* the only run the tab has had. A run of another tab that ended, or replaced
\* abortRef, leaves Stop without the controller of this one.
StopAbortsRuns ==
    [][Stop => \A r \in Runs :
         /\ Running(r) /\ run[r].tab = active
         /\ \A q \in 1 .. started : run[q].tab = active => q = r
         => run[r].signal \in aborted']_vars
=============================================================================
