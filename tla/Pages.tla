------------------------------- MODULE Pages -------------------------------
(***************************************************************************)
(* What the router of web/src/main.tsx shows: one page at a time, each     *)
(* with its component's state and its requests, the bar and the dialogs    *)
(* that stand around them, and the functions that pages call (TextCalls).  *)
(* A page that is left is unmounted with its state, and nobody hears of    *)
(* its requests any more; so that a behaviour here is what happens between *)
(* two navigations.                                                        *)
(***************************************************************************)
EXTENDS Naturals, FiniteSets, TextCalls

CONSTANTS
    Words, LastPage, Queries, Owner, Nobody, MaxKills, Ids, TraceTypes, MaxRequests, Hashes,
    Databases, Tables, Lookbacks, NoTable, Servers, NoTables, Names, TabIds, Elsewhere,
    SavedIds, MaxHistory, MaxRuns, Users, Roles, None, MaxCalls, Columns, RowNumber, AxisKey,
    Localhost, Tokens, NoToken, MaxTests

ASSUME ShellAssumption == Localhost \in Servers /\ NoToken \in Tokens
ASSUME EditorAssumption == MaxHistory \in Nat

VARIABLES
    connected, \* the property that App passes down
    ui,        \* the state of the page's component
    req,       \* its requests under way
    disk,      \* the browser's storage
    backend, headers, app, form, dialog \* what surrounds the pages, in Session

page == <<connected, ui, req>>
shell == <<backend, headers, app, form, dialog>>
vars == <<route, connected, ui, req, disk, backend, headers, app, form, dialog, calc>>

-----------------------------------------------------------------------------
(* The parts                                                               *)

List == INSTANCE QueryList
Running == INSTANCE RunningQueries
Detail == INSTANCE QueryDetail
Compare == INSTANCE QueryCompare
Fingerprint == INSTANCE FingerprintDetail
Graph == INSTANCE SchemaGraph
Sidebar == INSTANCE SchemaSidebar
Access == INSTANCE AccessPage
Result == INSTANCE ResultTable
Optimizer == INSTANCE OptimizerPage
Editor == INSTANCE Workspace
Shell == INSTANCE Session

\* Of what is not shown.
Idle == "idle"
NoPage == connected = Idle /\ ui = Idle /\ req = Idle
NoShell == backend = Idle /\ headers = Idle /\ app = Idle /\ form = Idle /\ dialog = Idle
NoCall == calc = Idle

PageInit ==
    /\ disk = Idle /\ NoShell /\ NoCall
    /\ \/ route = "queries" /\ List!Init
       \/ route = "running" /\ Running!Init
       \/ route = "query" /\ Detail!Init
       \/ route = "compare" /\ Compare!Init
       \/ route = "fingerprint" /\ Fingerprint!Init
       \/ route = "graph" /\ Graph!Init
       \/ route = "sidebar" /\ Sidebar!Init
       \/ route = "access" /\ Access!Init
       \/ route = "result" /\ Result!Init
       \/ route = "optimizer" /\ Optimizer!Init

CallInit == CallStarts /\ disk = Idle /\ NoShell /\ NoPage

Init ==
    \/ PageInit
    \/ CallInit
    \/ route = "editor" /\ Editor!Init /\ NoShell /\ NoCall
    \/ route = "shell" /\ Shell!Init /\ connected = Idle /\ ui = Idle /\ NoCall

PageNext ==
    /\ \/ route = "queries" /\ List!Next
       \/ route = "running" /\ Running!Next
       \/ route = "query" /\ Detail!Next
       \/ route = "compare" /\ Compare!Next
       \/ route = "fingerprint" /\ Fingerprint!Next
       \/ route = "graph" /\ Graph!Next
       \/ route = "sidebar" /\ Sidebar!Next
       \/ route = "access" /\ Access!Next
       \/ route = "result" /\ Result!Next
       \/ route = "optimizer" /\ Optimizer!Next
    /\ UNCHANGED <<route, disk, shell, calc>>

CallNext == CallSteps /\ UNCHANGED <<page, disk, shell>>
EditorNext == route = "editor" /\ Editor!Next /\ UNCHANGED <<route, shell, calc>>
ShellNext == route = "shell" /\ Shell!Next /\ UNCHANGED <<route, connected, ui, calc>>

Next == PageNext \/ CallNext \/ EditorNext \/ ShellNext

Spec == Init /\ [][Next]_vars

-----------------------------------------------------------------------------
(* Properties                                                              *)

\* What a page shows as the answer to a question is the answer to the one it
\* now asks, whatever was asked, aborted, retried or answered late before: the
\* rows of a list that has loaded and, on the first page of a dated range,
\* their total; the plans that have come for the pair on show; a graph, unless
\* its last load failed, and the columns of its table; the grants of the name
\* in the title; lines that are columns of the plotted result; and in the cache
\* of a database its own tables.
\*
\* It is not so, and not claimed, of a total whose range is cleared by hand
\* (QueryList.tsx:168), of the graph that stays when the load of another
\* database fails (SchemaGraph.tsx:181), of the query that a Retry brings after
\* another was opened (QueryDetail.tsx:206), and of the tables that the
\* optimizer itself lists (TableOptimizer.tsx:73).
ShownIsOwn ==
    /\ route = "queries" => List!RowsAreOwn /\ List!TotalIsOwn
    /\ route = "compare" => Compare!PlansAreOwn
    /\ route = "fingerprint" => Fingerprint!EffectsAreCurrent
    /\ route = "graph" => Graph!GraphIsOwn /\ Graph!ColumnsAreOwn
    /\ route = "access" => Access!StatementIsOwn
    /\ route = "result" => Result!ChartIsOwn
    /\ route = "optimizer" => Optimizer!CacheIsOwn

\* Whatever is said to be under way, a load, a kill, a count or a test, has a
\* request that will end it, whichever of several overlapping ones ends first.
\* Two spinners may turn for ever: that of the sidebar whose connection found
\* the cache filled (skipped), and that of a bulk analysis whose stream ended
\* without a "done" (mute).
SpinnersEnd ==
    /\ route = "queries" => List!SpinnerIsOwn
    /\ route = "running" => Running!SpinnerIsOwn /\ Running!KillingIsUnderWay
    /\ route = "query" => Detail!SpinnersEnd
    /\ route = "compare" => Compare!SpinnersEnd
    /\ route = "fingerprint" => Fingerprint!SpinnersEnd
    /\ route = "graph" => Graph!SpinnerIsOwn
    /\ route = "sidebar" => Sidebar!SpinnersEnd
    /\ route = "access" => Access!StatementLoads
    /\ route = "result" => Result!CountEnds
    /\ route = "optimizer" => Optimizer!SpinnerEnds
    /\ route = "shell" => Shell!TestingEnds

\* A window of the editor always has its active tab, on the screen as in the
\* storage, and the history that it adds to never has the same query twice in a
\* row, although other windows write the same storage.
TabsAndHistory == route = "editor" => Editor!ActiveIsOpen /\ Editor!HistoryHasNoRepeats

\* Importing saved queries adds those that are missing and loses none.
ImportAddsMissing == [][route = "editor" => Editor!ImportStep]_vars

\* A reload goes on with the headers that the page sends, and once the page
\* is disconnected it has no password to send; every request carries the
\* token that is saved; however automatic and manual attempts overlapped.
SessionIsSaved ==
    route = "shell" =>
        Shell!ReloadKeepsHeaders /\ Shell!DisconnectForgets /\ Shell!RequestsCarryToken
=============================================================================
