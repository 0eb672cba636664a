# ClickLens: specifications and proofs

TLA+ models of ClickLens (the Go backend under `internal/` and the React front
end under `web/src/`), model-checked with TLC on small instances, and theorems
about them that TLAPS checks for every value of the constants. Every definition
is translated from the source; `PROJECT.json` maps each one to its lines.

## The system

A single Go process serves a single-page application and a JSON API. Each
request names its ClickHouse server in headers; the backend keeps one pooled
connection per set of headers, runs SQL over it, and answers with JSON, with
newline-delimited events or with server-sent events. It persists nothing: what
survives a restart is in ClickHouse or in the browser's storage.

| Component | State | Operations | Hard behaviour |
|---|---|---|---|
| Connection pool (`client.go`) | map of clients, one dial mutex per key, `lastUsed`, `createdAt` | `Get`, `connect`, `evict`, `healthLoop`, `CloseAll` | concurrent callers, three places that evict, a dial that hangs, shutdown |
| Detached jobs (`jobs.go`) | map of jobs, each with status, result, mutex, context | `startDetachedJob`, `put`, `GetJob`, `CancelJob`, the job's goroutine | eviction, cancel racing the end, a 30-minute budget, a progress query under the mutex |
| Execution stream (`query_handlers.go`, `client.ts`) | the handler, a disconnect watcher, a progress pump, the event stream, the browser's promise | `ExecuteQuery`, `ExecuteCancel`, `executeQuery` | three goroutines write or kill, the browser may go away at any step |
| Query editor, runs (`QueryEditor.tsx`) | tabs with statements, results, running flags; one `abortRef` | `runAllQueries`, `executeStatements`, `loadResultPage`, `cancelQuery`, `applyAdvisor` | runs of several tabs overlap and share one controller; advisors trail results |
| Query editor, detached polls (`QueryEditor.tsx`) | a map from tab to interval, each tab's spinner | `runDetached`, its interval, `cancelDetachedJob`, `closeTab` | awaits between a check and the map write, polls that overlap |
| `usePollingQuery` | data, error, loading, a run counter, a controller | `run`, `reload`, `cancel`, `setLive`, two effects | answers out of order, filters that change, cancels |
| Bulk analysis (`table_optimizer.go`, `optimizer_handlers.go`, `TableOptimizer.tsx`) | the loop's counters, the event stream, the page's list and summary | `StreamBulkAnalysis`, `AnalyzeAllHandler`, `runAnalysis`, `confirmStop` | Stop at any step, a stream that breaks, several databases in one stream |
| Session (`main.tsx`, `connection.ts`, `Layout.tsx`, `AuthDialog.tsx`) | headers, the saved connection and token, `connected`, the form | `tryConnect`, `handleConnect`, `handleDisconnect`, the token dialog, a reload | connection tests that overlap and share one set of headers |
| Schema cache and sidebar (`schema-cache.ts`, `SchemaSidebar.tsx`) | databases, tables and columns, by server | fetches, Refresh, unfolding | fetches in flight across a reconnect or an unmount |
| Monitoring pages (eleven, over `usePollingQuery`) | the hook's, and what the answer holds | what is rendered: connect, skeleton, error, old data, nothing, rows | data of one load beside the error or the spinner of the next |
| Query list, running queries (`QueryList.tsx`, `RunningQueries.tsx`) | filters, pages, a cached total; a live list and kills | debounced search, pager, reload, kill by query and by user | a request for each keystroke and tick, kills that fail |
| Query detail, comparison, fingerprint (`QueryDetail.tsx`, `QueryCompare.tsx`, `FingerprintDetail.tsx`) | a query with its sides, a pair with its plans, a trend with its executions | loads, retries, side requests, the tabs | the component stays while its id changes; requests with and without a signal |
| Schema graph (`SchemaGraph.tsx`) | graph, selectors, the selected table's panel | load, select, redraw | a load that overtakes columns, and columns that overtake a selection |
| Users and access (`UsersAccess.tsx`, `SqlStatementDialog.tsx`) | tab, search, page, dialogs | drop, revoke, show grants | lists that shrink under their page, statements of another name |
| Result table and chart (`ResultTable.tsx`, `chartData.ts`) | view, axes, filters, order, a count | plotting, filtering, counting all rows | one component shows many results |
| Table optimizer, one table (`TableOptimizer.tsx`) | mode, selection, lists of tables, an analysis | select, analyze, stop, follow a link | lists of another database that come late |
| Editor storage (`storage.ts`, `send-to-editor.ts`, `saved-queries.ts`) | tabs, history, saved queries in `localStorage` | every edit, run, save, delete, import | another window of the browser does the same; runs outlive the component |
| Texts (`utils.ts`, `planDiff.ts`, `AnalyzePlanTree.tsx`, `useAppSettings.ts`) | a call | `splitQueries`, `diffPlans`, `parseAnalyzePlan`, `serverStringToBrowserString` | quotes in comments in quotes; ties in a table; depth by indent; changes of the clock |
| Query history (`query_log.go`, `trend.go`) | `queryLogFallback`, `queryLogDenied` | `queryLogRef`, `tryUserQueryLogFallback`, `GetQuery` | readers denied at the same time; a row that is in no table for a while |
| Advisor (`advisor.go`) | a cached list and its age | `cachedRemoteTables` | fetches outside the lock |
| What-if indexes (`whatif.go`) | none of its own; a session of a pooled connection | `ValidateIndexSuggestion` | statements of one sequence on different sessions |
| Statements (`execute.go`, `api.go`) | none | stripping, splitting, placeholders, LIMIT, the read-only test | text algorithms that must agree with each other |
| Everything else | none | readers of system tables, schema queries, recommendations, drawing | sections that fail independently |

Interactions: every handler obtains its client with `Pool.Get`; `ExecuteQuery`
hands a detached statement to the job store, which keeps the client while the
job runs; the editor starts both kinds and stops them through `ExecuteCancel`
and `CancelJob`, which send `KILL QUERY` over the same pool; all pages read
through `fetchJSON`, eleven of them under `usePollingQuery`, the others with
requests of their own. `App` in `main.tsx` owns the connection, passes
`connected` to the page of the route, and unmounts that page with its state on
every navigation; what outlives it is the schema cache, the storage, and the
requests that nobody aborts.

What makes the core correct:

- *Pool*: one connection per key; what is offered is open; each connection is
  closed once and none is lost; making room closes the least recently used; a
  server that hangs does not hold up the others.
- *Jobs*: a status that is final stays; a stop is not a failure; a result is
  kept while there is room; every job ends and every request is answered.
- *Stream*: one answer per execution, none falsely a failure; a query whose
  browser left is killed, and only such a query.
- *Editor*: results and advisors land in their tab, beside their statement;
  Stop stops its own run; nothing stays "running".
- *Polling*: what is shown belongs to the current filter and never goes back.
- *Bulk analysis*: the summary counts the list; after a stop at most the
  table begins that was already checked for.
- *Pages*: what is shown answers what is selected; old data is marked; "nothing"
  is said of an answer only; a spinner has a request that ends it.
- *Session and storage*: a reload goes on with the headers in use; a disconnect
  forgets the password; windows that share the storage keep their own tabs.
- *Texts*: what is run is what was written; a diff loses nothing; a plan's tree
  is the one that was printed.

## The modules

| Module | Models | Actors and steps |
|---|---|---|
| `Pool` | `client.go` | callers of `Get`, step by step between lock operations; the health loop; ageing; shutdown |
| `JobContract` | what a browser relies on in `jobs.go` | start, forget, ask to cancel, end |
| `Jobs` | `jobs.go` | request handlers and job goroutines, one step per critical section, and in `put` one for each job's time that it reads; implements `JobContract` |
| `ExecStream` | `ExecuteQuery`, its goroutines, `executeQuery` | handler, watcher, pump, ClickHouse, the browser |
| `PollingQuery` | `usePollingQuery.ts`, `fetchJSON`'s settling | effects, buttons, timer, awaits |
| `EditorRuns` | the editor's runs | tabs, runs, pages, Stop, advisors |
| `DetachedPolls` | the editor's polls of detached jobs | tabs, starts, intervals, answers |
| `BulkAnalysis` | the bulk modes of the optimizer | handlers, the stream and what is lost of it, the page with its button and its links |
| `MonitorPages` | what eleven pages render, `state.tsx`; extends `PollingQuery` | the hook's steps, with what the answer holds |
| `QueryList`, `RunningQueries` | `QueryList.tsx`, `RunningQueries.tsx` | filters, debounce, pager, answers; ticks, kills, dialogs |
| `QueryDetail`, `QueryCompare`, `FingerprintDetail` | the pages of one query, a pair, a fingerprint | navigation to another id, loads, retries, side requests, tabs |
| `SchemaGraph`, `SchemaSidebar` | the graph's page with its panel; the editor's sidebar over the cache | loads, selections, drawings; fetches, Refresh, mounts, reconnects |
| `AccessPage`, `ResultTable`, `OptimizerPage` | the pages they are named for | dialogs, statements, pages of lists; results that replace one another; selections, links, an analysis |
| `Workspace` | `storage.ts`, `saved-queries.ts`, the editor's use of them | this window's edits, runs, mounts; another window's |
| `Session` | `main.tsx`, `Layout.tsx`, `AuthDialog.tsx`, `connection.ts` | config, automatic and manual tests, disconnect, token, reload |
| `SplitQueries`, `PlanDiff`, `AnalyzePlan`, `WallClock` | one function each | one iteration, or one line, to a step, over every input within the bound |
| `TextCalls` | the four functions, instantiated; `Pages` extends it | a call of one of them |
| `Pages` | the router of `main.tsx`: the modules from `QueryList` on, instantiated | the steps of the page of one route, with the shell, the storage or a call of `TextCalls` |
| `PoolProofs`, `JobsProofs`, `ExecutionProofs`, `PollingQueryProofs`, `EditorRunsProofs`, `BulkAnalysisProofs`, `TextCallsProofs`, `PagesProofs` | theorems about the modules they are named for (`ExecutionProofs`: `ExecStream` and `DetachedPolls`; `PollingQueryProofs`: also `MonitorPages`; `TextCallsProofs`: what holds of the four functions, which `PagesProofs` states; `PagesProofs`: the pages, the editor's storage and the shell) | |

Each `MC` module prepares the constants of its runs;
`MC<module>_<run>.cfg` is one run. Operators whose comment begins with
"Mutant:" are alternatives to a definition with a plausible bug in it; no
behaviour of the specification uses them, and each shows that a property would
notice the bug.

Every property of a run has such a mutant in `PROJECT.json`. A property of
`Pages` is a conjunction over routes and its run has one mutant; the other
conjuncts have theirs in the modules, each of which makes TLC find the
conjunct violated when it takes the definition's place: in `QueryList`
`NotCleaned` for `Cleaned`; in `RunningQueries` `SupersededEndsSpinner` for
`Superseded`; in `QueryDetail` `FlamedIfAny` for
`Flamed`; in `QueryCompare` `PlansKept` for `PlansDropped`; in
`FingerprintDetail` `NotCleaned` for `Cleaned`, `MoreFailsStuck` for
`MoreFails`; in `SchemaGraph` `PreviousKept` for `Loading`, `PanelKept` for
`PanelOf`; in `SchemaSidebar` `SpinsOn` for `Spins`; in `AccessPage`
`NotAborted` for `Aborted`; in `ResultTable` `AxesKept` for `Axes`; in
`OptimizerPage` `FiledUnderSelected` for `Filed`, `StopWaits` for `Stopped`; in
`Workspace` `AddedToOwn` for `Added`; in `Session` `DisconnectKeeps` for
`Disconnect`, `SubmitStays` for `Submit`, `FormFailsTesting` for `FormFails`;
in `SplitQueries` `FlatComment` for `NestedComment`; in `PlanDiff` `FlushPairs`
for `Flushed`; in `AnalyzePlan` `KindByName` for `Kind`, `PoppedBelow` for
`Popped`; in `WallClock` `Once` for `Passes`.

How state corresponds to code:

- A Go mutex is modelled by the size of a step: what happens under one lock is
  one action, and everything between two locks may interleave. Locks held
  across a blocking call (`dialMu`, a job's `mu` in `snapshot`) are variables.
- A JavaScript task runs to completion, so one action is the code from one
  `await` to the next, and the state captured by the closure is kept with the
  run. Promise reactions precede the next event where the code depends on it.
- Time is either a clock with a bound (jobs' TTL, `lastUsed`) or a choice (a
  timer may fire). Rows, SQL text and error wording are left out.
- A page's component is the record `ui`, its requests are the set or record
  `req`, and `disk` is the browser's storage. A request keeps what its closure
  captured (the filters, the id, the signal), and an answer is known by the
  question it answers. A navigation unmounts the page, and a remount begins
  with `Init`: so one behaviour of `Pages` is what happens between two
  navigations, and the initial states range over the routes. Sidebar, storage
  and session, which outlive pages, have mounts and reloads of their own.
- A pure function is a call under way, `calc`: its input is chosen in `Init`
  together with what it is meant to return, which the model knows because it
  put the input together as ClickHouse would read or print it (a text from its
  tokens, a plan line by line, a time from an instant).
- A context is a flag that is live or done, with its cause where code asks
  for it (`ctx.Err() == context.Canceled`).

## The runs

Bounds are chosen as the smallest at which every action fires and the hazards
that the module is about occur.

| Run | Bounds | Enough for |
|---|---|---|
| `pool_pool` | two servers, one of them dead; three callers, two for the same server; three connections | a shared dial, a re-check that finds a client, an eviction by another key's publish, an expiry seen from three places |
| `jobs_store` | three jobs, room for two, a TTL of one tick, one request at a time | an overflow of running jobs, an eviction with a choice, a job that finishes between the reads of a scan, an expired result beside one that is not |
| `jobs_ends` | two jobs, two requests, room for one | a put that waits for a poll that waits for ClickHouse, a cancel beside a poll |
| `stream_stream` | one execution, three progress events | the pump asked before and writing after the answer; every order of the three goroutines and the browser |
| `polling_polling` | two filters, three loads; a search with and without a match; one page of each of three kinds at a time, the views of eleven | a load overtaken twice, by its own filter and by the other; answers with rows, without and refused |
| `editor_editor` | two tabs, two runs of two statements | two lists that overlap, in one tab or in two; a page beside a list |
| `polls_polls` | two tabs, two starts, two polls of an interval in flight, the first failure gives up | two intervals in one tab, answers out of order, a tab closed while its start is under way |
| `pages_pages` | per page two of what is selected (queries, hashes, databases, tables) and three requests under way, two kills, two pages of a list; two servers, two tokens and two tests in the shell; a tab of the window and one of another, two saved queries of one name, a history of two; texts of five tokens, plans of three lines to compare and of eight to draw, zones within two hours and one change of offset | every pair of requests in either order, with a third to overlap both; a list shorter than its page; a manual test beside the automatic one; quotes and markers inside each other, escaped and doubled ones too; a tie in the table of the diff; a step after the indexes of the one above it, and two entries in a block; an hour skipped and one repeated |
| `fingerprint_connect` | two fingerprints, three requests | a page opened before the connection |
| `bulk_bulk` | two databases, one without tables and one with two, or none but the system's; two analyses, the second from the button or from a link while the first streams | a pause between tables, a second database, a run beside one that was stopped and one beside one that was not, a stream that is cut short |

The constant `MaxFailures` of the polls is 3 in the code; 1 is its smallest
value and makes giving up possible with the fewest answers in flight.

| Run | Checks | Shows |
|---|---|---|
| `pool_pool` | `OneConnectionPerKey`, `ClosesOnce`, `LeaksNothing`, `GetReturns`, `ExpiredLeaves` | Three callers of two servers, one of which never answers, with the health loop, ageing, evictions and shutdown: one open connection per key, closed once and never lost, and neither a hanging dial nor an expired client that nobody asks for holds anything up. |
| `jobs_store` | `StopIsNotFailure`, `ResultKeptWhileRoom`, `OverflowWasRunning`, `ContractSpec` | Three jobs in a store with room for two: what put evicts while jobs finish between its reads of them, how a job ends when cancel, failure and budget race, and that the store implements the contract the browser's poll relies on. |
| `jobs_ends` | `EveryJobEnds`, `RequestsAnswered` | Two jobs and two handlers at every step of each other: every job leaves "running" although ClickHouse need not answer and a KILL may fail, and no request waits for ever for the store's or a job's mutex. |
| `stream_stream` | `OneAnswer`, `NoFalseFailure`, `KilledForTheGone`, `RunSettles`, `DisconnectStopsQuery` | One execution with the watcher, the pump, the reader and Stop at every step of each other: it is answered once, not failed falsely, killed only for a browser that is gone, stopped for it if it runs while the watcher waits, and the browser's promise settles. |
| `polling_polling` | `ShowsCurrentFilter`, `NeverGoesBack`, `LoadingEnds`, `StaleIsMarked`, `NothingIsKnown`, `NeverBlank` | Overlapping loads by effect, button and timer, for two filters, with cancels and reconnects, and what eleven monitoring pages make of the hook: a stale answer never reaches the page, the spinner ends, old data is marked while an error or a reload stands beside it, "nothing found" is said of an answer, and no page is blank. |
| `editor_editor` | `TypeOK`, `AdvisorMatchesResult`, `ResultsAreOwn`, `StopKillsOwn`, `RunningEnds` | Overlapping runs and pages of two tabs that share one abortRef: results and late advisors go where they belong, Stop kills a query of its own tab, and a running tab stops running. |
| `polls_polls` | `ResultsAreReal`, `OtherTabsUndisturbed`, `KnownPollStops` | Two tabs, two starts, overlapping polls, closes and the unmount: tabs do not disturb each other, show only what their own jobs returned, and a poll that the map holds stops after its job. |
| `bulk_bulk` | `DoneCountsResults`, `ResultsOfOneRun`, `NoFurtherTables`, `LoadingEnds` | Two analyses of one database or of all, with failures, a Stop, a lost connection, a body that ends early, and a link that starts the second beside the first: at most one table begins after a stop, nothing of what is over trails into a later list, and for an analysis that has the page to itself the summary counts the list below it; the page stops loading unless the stream ends without a "done". |
| `pages_pages` | `ShownIsOwn`, `SpinnersEnd`, `TextsAreMeant`, `TabsAndHistory`, `SessionIsSaved`, `ImportAddsMissing` | Every route of the app with its own page, and the shell, the sidebar, the storage and the text algorithms beside them: what a page shows was asked for by what is selected on it, a spinner ends when its request does, a text is read the way its author wrote it, and what is stored is what the page has, each but for the exceptions that the property names. |
| `pool_evicts_early` (violated) | `EvictsOnlyWhenFull` | A second server's connection already evicts the first one's: the pool never compares its size with maxPoolSize. |
| `editor_stop` (violated) | `StopAbortsRuns` | Stop misses its tab's fetch once another tab's run has taken or cleared abortRef. |
| `fingerprint_connect` (violated) | `SurvivesConnect` | A fingerprint opened before the connection is established, as a refresh or a deep link does, is torn down when it is: the page then calls more hooks than before. |

### Fairness

Invariants and action properties need none. The liveness properties assume only
what the code gives:

- Goroutines are scheduled and calls bounded by a timeout return (weak
  fairness of the handler's own steps). A query that ClickHouse runs for ever is
  allowed; nothing assumes that it ends, that a server answers, or that a user
  acts. `HandlerFairness`, `JobFairness` and `TimerFairness` are those of
  `Jobs`: its goroutine goes on, and its budget's timer fires.
- A Go mutex in its starvation mode serves its waiters in turn, so taking one
  that is free again and again is strongly fair (`LockDial`, and the handlers'
  and the finish's lock of a job).
- `GetFairness` is stated for callers of healthy servers only: the hanging dial
  of another key is not assumed to end, which is the point of `GetReturns`.
  `ExpiredLeaves` states its assumption in the property, as an implication
  (`HealthFairness`: the health loop's ticker fires and its visits return), so
  that `GetReturns` is checked without it.
- In the browser, `fetchJSON` settles (it has a timeout), timers fire while
  armed, and promises that are settled resume. `PagesSpec` of `MonitorPages` is
  fair in the same steps of the hook.
- `Pages` states none and checks safety only: that a spinner has a request is an
  invariant, and that the request ends is `fetchJSON`'s timeout.

### Deadlock

`CHECK_DEADLOCK FALSE` is set where the system may come to rest: a bounded
number of requests, runs or connections has been used and every one is over.
That nobody waits on anybody for ever is a liveness property instead
(`RequestsAnswered`, `GetReturns`, `RunSettles`, `RunningEnds`, `LoadingEnds`).

## What is proved

The theorems hold for every value of the constants: any number of keys, callers,
connections, jobs, requests, progress events, filters, loads, tabs, statements,
databases, analyses, servers and tokens, any capacity, TTL and bound. The
assumptions are the ones the modules name: a capacity or a number of
failures is positive, each caller has a key, there is a tab, the databases are a
sequence, the default server is one, an overview lists finitely many users and
roles, the limit of the history and the bounds of texts, plans and the clock are
natural numbers,
and the "none" values are no member of the sets. Types are proved in these modules and not run again
(`TypeOK` stands in the editor's run only, where it also bounds the statement a
run is at).

*Pool.* `OneConnectionPerKey` and `ClosesOnce` are not inductive: that a new
client is published over an empty entry rests on where the caller is. The
invariant `IInv` adds that a dial mutex is held by exactly the caller inside
`connect` (`DialHeld`), what that caller knows of the entry (`EntryUnderDial`),
that a connection being dialled is open and nobody else's (`DialledIsPrivate`),
that a client is pooled under one key (`PooledOnce`), that nobody is inside
`Get` after shutdown, and that no touch lies in the future (`TouchedBefore`). One lemma per
action shows that it keeps `IInv`. `BothPassesFindTheOldest` shows that the two
passes of the eviction scan choose the same client.

*Jobs.* `StopIsNotFailure` needs to know how far the goroutine and each request
have come: that a query killed by `CancelJob` has a canceled context
(`KillFollowsCancel`) and that a canceled context was asked for
(`CancelIsAsked`). `ResultKeptWhileRoom` and `OverflowWasRunning` are action
properties about `put`, which reads one job's time after the other (`Expire`,
`BeginScan`, `Look`, `Drop`, `Launch`) while the jobs go on. `Scanned` says what
a scan knows part of the way through: `oldest` is a finished job of the store, and no
job already read that had finished before the start began is older. A job that finishes
after it was read as running is younger than that and may be passed over,
which is why both properties speak of jobs finished before `now`.
`JobsImplementContract` maps the store to `JobContract`: every step is a start,
a forgotten result, a request to cancel, an end, or a stutter.

*Execution.* `OneAnswer` counts the answers in the stream and says nothing of how
one comes to be there. `StreamInv` of `ExecutionProofs` ties the count to where the
handler is: none while the query runs (`AnsweredOnce`), one on a live connection
once it returned (`AnswerWritten`), and the browser's promise settles with the
first it reads (`ReadSettles`). The reader handles complete lines only and drops
what is left when the body ends, so that `NoFalseFailure` rests on `writeEvent`
ending each event with a newline (`Lines`). `Write` appends or does nothing, so
each writing step has one lemma about the positions of each kind of event.
`KilledForTheGone` needs the reason the watcher left its select
(`WatcherHasCause`), and that only Stop asks for a KILL (`KillsHaveCause`).

*Polling.* `ShowsCurrentFilter` holds only between effects: a filter that has
just changed is shown as old data until React runs them. `Loaded` and `ShowsNewest` say what
is true while they are due and after. `CancelIsNoError` rests on the signal: a load
is rejected with an abort only if its controller was aborted (`AbortsAreCut`),
and, once the effects are up to date, only `cancel` did that to the newest
(`CutIsCanceled`).

*Monitoring pages.* `PagesUseTheHook` is the refinement: the pages drive
`usePollingQuery` only by steps of its specification, so what holds of the hook
holds under every page. What they render needs more than the hook's invariant:
that a page knows an answer exactly when the hook holds data (`Answered`), and that
a canceled page has nothing older to show (`CanceledIsBare`), or else the rows
of the filter before would stand under Cancel unmarked. From these follow
`StaleIsMarked`, `NothingIsKnown` and `NeverBlank`, by the kinds of page.
`NothingIsKnown` excepts `UsersAccess`, whose tabs say that there is nothing of a
section that was refused, under the banner that says so, and of a search
without a match.

*Detached polls.* A late answer may write a result, so `ResultsAreReal` needs that
answers are true: a final status does not change (`AnswersAreReal`). That no tab
stops another one's interval needs that the map holds for a tab a start of that
tab (`PollsAreOwn`), and that a call not yet made is in no entry (`Fresh`).

*Editor runs.* A result is written long after its run began, by a run whose tab
may have been emptied, paged or started again. The invariant of
`EditorRunsProofs` says of every place what may stand there (`Fits`): nothing,
or what a run of the same tab got for the statement at that place, with no
advice or its own. It holds of the tab's results and of those a run has not
committed (`LocalsOwn`), and it survives because a run stays with the tab it
was started in (`Keeps`) and a page asks for the statement whose result it
replaces (`AtWork`). `RunsStopKillsOwn` is the same argument about the query id
that a tab holds (`KillIsOwn`).

*Bulk analysis.* A link starts an analysis whatever is under way, and so does the
button after the first "done" of several databases: two streams may then fill one
list. `beside` remembers which analyses could still speak when the newest was
begun, leaving out one that Stop had ended. `ResultsOfOneRun` says that nobody else's results are
listed; its invariant is that an analysis which is neither the newest nor beside
it can say nothing more (`Silent`, `Ended`). `DoneCountsResults` is about an
analysis of one database that has the page to itself (`Alone`), which has its "done" at the end of
its stream (`Single`). It is a conservation law: what the page lists, what was
`lost` because it has no JSON, and what is on the wire are what the server has
counted (`CountsTold`), then what its "done" says while that is on its way
(`DoneOnItsWay`), and nothing follows a "done" that is shown (`DoneShown`).
`NoFurtherTables` counts the tables begun after their context ended (`late`):
the look at the context and the beginning of a table are two steps, so one may be
begun after the stop and, because the next look finds it, never two.
The page's figures are cardinalities of sets of positions, so that one lemma
about appending and one about moving the head of the wire replace an induction
over sequences.

*Pages.* `PagesInv` is one inductive invariant for each route (`ListInv`,
`RunningInv` and so on); `Next` steps one page at a time, so the proof is a lemma per
page and action, put together by route. Most pages are safe for one reason: the
requests under way can only be for what the controls show, because each
change of a control aborts, replaces or ignores the others. `ListInv` says so of the
query list, `LoadsAreOwn` and `FetchesAreOwn` of the graph and its panel,
`PlanRequests` with `PlansLoad` of the comparison, `AccessInv` of the grants dialog.
That argument uses the order in which a handler aborts and asks, and it is false
of the pages whose divergences are listed below, of which `ShownIsOwn` claims
correspondingly less. A spinner's request is found in the same invariants;
the sidebar's waits for its fetch while the page is disconnected too, since a
connection does not start it (`SidebarInv`). Two spinners have none, and
`SpinnersEnd` names the way into each: `skipped`, a connection that found the
cache of the sidebar filled, and `mute`, a bulk stream that ended without a "done". `OptimizerInv` is what files a late
list of tables under its database, and `ResultInv` keeps the plotted axes among
the columns of a result, whatever came before. `EditorInv` speaks of the page
and of the storage alike (`Opened`, `Kept`), for another window's list is the
next mount's; that a new entry at the front keeps the history within its limit
is a lemma of its own (`EditorAdded`). `ImportStep` is about steps: an import
merges with the storage as it is, not with the list on show.

*Texts.* `TextsAreRight` is `TextsAreMeant` for texts, plans and clocks of any
size. What a function computes from a sequence is shown by induction on how far it
has come: the schemas of the library take an operator, so the induction is
over the set of numbers up to which a fact holds (`SetInduction`).

- `splitQueries` is simulated token by token (`SplitInv`): between two tokens its
  variables are those with which ClickHouse reads the next one, except in the middle
  of a doubled quote, of a string or of an identifier, where it has left the
  literal and comes back with the next character, and after a backslash that escapes one. The texts on
  which the two differ are excepted by name (`QuoteOnQuote`, `EscapedBacktick`) and
  are inputs of the run. What a token may be depends on what was read before it
  (`Readable`), which is how the loop's look at one character more or less is
  seen not to matter.
- `diffPlans`: each cell of the table bounds every matching of the two rests, so the
  first cell is the most lines that a diff can keep in common (`MostLinesAreCommon`;
  it need not have the fewest rows, for a flush pairs lines by their place). `DiffInv` is two conservation laws: rows
  and pending lines together are each side's plan up to the cursor (`Told`), and
  the common lines so far with the cell at the cursor are no fewer than the first
  cell promised. That a flush pairs removed lines with added ones and loses none
  is a lemma about what each side reads of the rows (`ReadsFlushed`).
- `parseAnalyzePlan`: a text is printed when each line follows the one ahead of it
  (`IsPrinted`). By `PlanInv` both passes are in step with the printer: a line is
  classified as what it is (`KindOf`), an open "Indexes:" is remembered exactly while
  lines are below it, the stack is the path of steps of the line ahead, and
  the open block belongs to that path's last step. The lemma `RootedAt` says that
  along a path the indents grow, so that popping by indent is popping to the
  parent (`PoppedIs`).
- `serverStringToBrowserString`: `ClockInv` is the guess after each pass, and
  `TwoPassesAreEnough` is arithmetic: the first correction errs by the change
  of the offset at most, so that the second one uses the right offset unless the
  clock never showed that time. It holds for changes of one hour, which is what
  `Zones` allows.

*Session.* `ReloadKeepsHeaders` is about what `loadParams` rebuilds from two
storages, field by field. `ShellInv` adds the types of what is stored and sent,
and that a password is stored only beside a saved connection
(`NothingSaved`). Windows that share the saved connection are not modelled, unlike those
of the editor. The lemmas say that what is saved is what is loaded
(`SavedIsLoaded`), and that a "Testing" button has a test under way
(`TestingEnds`).

| Theorem | Module | Shows |
|---|---|---|
| `PoolTypeOK` | `PoolProofs` | The types of the pool's variables, and that Get never returns a nil client, for every set of keys, callers and clients. |
| `PoolOneConnectionPerKey` | `PoolProofs` | At most one connection per key, pooled or being dialled: the holder of the dial mutex found the entry empty and nobody else can fill it. |
| `PoolClosesOnce` | `PoolProofs` | The map offers open connections only and none is closed twice. |
| `PoolLeaksNothing` | `PoolProofs` | Every open connection is pooled or being dialled, and none is open after CloseAll. |
| `PoolEvictsLeastRecentlyUsed` | `PoolProofs` | The client closed to make room was used no later than any that stays. |
| `BothPassesFindTheOldest` | `PoolProofs` | The idle threshold of the eviction scan never changes its victim: both passes find the least recently used client that has been idle at all, so the documented preference for an idle client has no effect. |
| `JobsTypeOK` | `JobsProofs` | The types of the store's variables, and that FinishedAt is set exactly when the status is final. |
| `JobsStopIsNotFailure` | `JobsProofs` | A job brought down by CancelJob's KILL is shown as canceled unless its budget had run out: the context is canceled first. |
| `JobsResultKeptWhileRoom` | `JobsProofs` | put drops an unexpired result only from a full store, and then the oldest of those that were there when it began, for any capacity and however jobs finish between its reads. |
| `JobsOverflowWasRunning` | `JobsProofs` | For any capacity and any number of jobs: when a put leaves more than maxJobs jobs, no other of them had finished before it began, although put reads one job after the other and jobs finish between its reads. |
| `JobsImplementContract` | `JobsProofs` | The detailed store implements the abstract job lifecycle: each step is a start, a request to cancel, an end, or invisible. |
| `PollsTypeOK` | `ExecutionProofs` | The types of the editor's polls: an interval belongs to a job that was started, and no more calls of it are under way than the bound. |
| `PollsResultsAreReal` | `ExecutionProofs` | For any tabs and any overlap of polls, a tab shows a result only of a job that it started and that is done. |
| `PollsOtherTabsUndisturbed` | `ExecutionProofs` | No start, answer or failure in one tab stops the interval of another: the map holds for a tab only starts of that tab. |
| `PollingTypeOK` | `PollingQueryProofs` | The types of the hook's variables, for any filters and any number of loads. |
| `PollingShowsCurrentFilter` | `PollingQueryProofs` | With no spinner, error or cancel on show, the page shows the data of its current filter and of the newest load. |
| `PollingCancelIsNoError` | `PollingQueryProofs` | A cancel is never shown as an error: the load it aborts rejects into a run that looks at its signal. |
| `PollingNeverGoesBack` | `PollingQueryProofs` | No step replaces the data of a load by that of an earlier one. |
| `PagesInvariant` | `PollingQueryProofs` | The hook's invariant beside what a page's answer and its refused sections may be, for every page that uses the hook. |
| `PagesUseTheHook` | `PollingQueryProofs` | The eleven monitoring pages implement the hook's specification: every step of theirs is a step of usePollingQuery or a stutter, so that what is proved of the hook holds of them. |
| `PagesMarkStaleRows` | `PollingQueryProofs` | Rows, or the lack of any, that are not the newest load's of the page's own filter are marked, or stand beside the error that kept them: for each of the eleven pages. |
| `PagesKnowNothing` | `PollingQueryProofs` | A page says that there is nothing only of an answer without rows, none of whose sections was refused; excepted is the users page, which says so of a refused section too, under the banner that names it, and of a search without a match. |
| `PagesAreNeverBlank` | `PollingQueryProofs` | No state of the hook leaves a monitoring page without a panel or a control. |
| `StreamTyped` | `ExecutionProofs` | The types of the execution's variables, and that the watcher leaves its select for a reason. |
| `StreamOneAnswer` | `ExecutionProofs` | The stream answers once, whatever the pump writes between, and the advisor follows the result. |
| `StreamNoFalseFailure` | `ExecutionProofs` | On a connection that holds, and for an answer that can be marshaled, executeQuery rejects only for an error event: its reader, which drops what follows the last newline, misses nothing that was written. |
| `StreamKilledForTheGone` | `ExecutionProofs` | A served query is killed only for a browser that is gone or a user who stopped it. |
| `RunsTypeOK` | `EditorRunsProofs` | The types of the editor's runs, pages and advisors, for any tabs, statements and runs. |
| `RunsAdvisorMatchesResult` | `EditorRunsProofs` | Advice stands beside the result of its own query, although advisors trail results and runs overlap. |
| `RunsResultsAreOwn` | `EditorRunsProofs` | A tab shows, at a place, only what a run or a page of that tab got for that place. |
| `RunsStopKillsOwn` | `EditorRunsProofs` | The query that Stop kills was started by the tab in which Stop was clicked. |
| `BulkResultsOfOneRun` | `BulkAnalysisProofs` | For any databases and any number of analyses: whatever is listed is of the newest analysis or of one that still streamed when that was begun by a link; what was stopped, broke off or was over leaves nothing in a later list. |
| `BulkNoFurtherTables` | `BulkAnalysisProofs` | At most one table is begun once the server knows of the stop, the one the handler had already looked at the context for: of all databases, and whatever the pause's select takes. |
| `BulkTally` | `BulkAnalysisProofs` | Of an analysis that has the page to itself, the results listed, those on the wire and those that writeSSE lost are what the server has counted, and the figures of its "done" are the count it ended with. |
| `BulkDoneCountsResults` | `BulkAnalysisProofs` | The figures of "Analysis complete" are those of the results listed below them, but for the results that writeSSE lost: for any databases and any number of analyses, when one of a single database has the page to itself. |
| `PagesInvariant` | `PagesProofs` | The invariant of every page, of the editor's storage, of the shell and of the functions on texts, for any queries, databases, users, columns, servers, tokens and bounds. |
| `PagesShowTheirOwn` | `PagesProofs` | Rows, the plans of a pair, a graph and its columns, a user's grants, a chart's lines and a database's tables are those that the page now asks for, whatever was asked, aborted, retried or answered late before; excepted are, as ShownIsOwn says, a total whose range is cleared by hand, the graph that stays when the load of another database fails, the query that a Retry brings after another was opened, and the tables that the optimizer itself lists. |
| `PagesSpinnersEnd` | `PagesProofs` | Every spinner of these pages stands for a request that will end it, whichever of several overlapping ones ends first; excepted are a bulk stream that ended without a "done" and the sidebar of databases that were cached when it was connected. |
| `EditorKeepsTabs` | `PagesProofs` | For any tabs, windows and limit of the history: the active tab is open, on the page and in the storage, and the history keeps its limit and repeats no entry in a row. |
| `EditorImportAddsMissing` | `PagesProofs` | An import loses no saved query and adds those names of its file that the storage of that moment lacks, although another window may have saved since the list was shown. |
| `PagesSaveTheSession` | `PagesProofs` | For any servers, tokens and overlap of connection tests: while the app has connection headers a reload keeps them, a disconnect forgets the password, and every request carries the token of the session. |
| `TextsAreRight` | `PagesProofs` | For texts, plans and zones of any size: splitQueries cuts where ClickHouse's lexer does, unless there is an empty literal, a quote next to the one that opens its literal or is doubled in it, or an escaped backtick; diffPlans loses no line and has as many in common as any way to match them; parseAnalyzePlan's tree is the printed one at any depth, and a time of the server's clock is converted to one of the same instant. |

`PoolEvictsLeastRecentlyUsed` has content only where two other clients can be
pooled at once, which takes a third server, and a clock that shows the same
time twice: otherwise each publish finds a client that has been idle and closes
it, and the pool never holds more than one (`pool_evicts_early`). No run has
room for that instance, so this property is proved and not run.

*Only model-checked.* Liveness under fairness (every `FairSpec` run), for the
prover does not handle `ENABLED`. Every invariant and action property of a
passing run is stated by a theorem above. The properties of the three runs
that expect a violation are false.

## Findings

Three runs expect a violation: each shows where the code does something else
than its comments or its page say. `PROJECT.json` has the lines on both sides.

- `pool_evicts_early` (doc code divergence, `internal/clickhouse/client.go:361`): connect evicts a client on every publish into a non-empty pool: the scan at client.go:361-381 runs unconditionally and maxPoolSize (client.go:22) is never read, so that a second server's client replaces the first's, whatever it is doing; the comment at client.go:353 says "Pool full: evict the least-recently-used client".
- `editor_stop` (code bug, `web/src/pages/QueryEditor.tsx:467`): cancelQuery aborts abortRef.current, which belongs to whichever run of any tab set it last and is null once any run has ended (QueryEditor.tsx:351, 390): with two tabs running, Stop aborts the other tab's fetch, or none, and in that case leaves this tab running; the comment at QueryEditor.tsx:460 says "Stop = abort the fetch AND kill the query server-side".
- `fingerprint_connect` (code bug, `web/src/pages/FingerprintDetail.tsx:150`): useChartTheme (useState and useEffect, useChartTheme.ts:98-112) is called at FingerprintDetail.tsx:150, after the early returns at :143-147, so that a render after the connection is established calls more hooks than the one before, which React refuses, and main.tsx has no error boundary; the comment at FingerprintDetail.tsx:114 says "The sample query comes in via location.state, which vanishes on refresh and deep links", and the effect below it fetches for exactly those visits.

The models contain further divergences that no run is spent on:

- `client.go:121, 293, 350` write `lastUsed` when a client is handed out, so one
  whose query has run for a minute counts as idle, although `client.go:353-355`
  prefers a victim that no request is using. The preference has no effect on
  the victim in any case (`BothPassesFindTheOldest`).
- The pump may write a progress event after the result (`query_handlers.go:566`),
  although `query_handlers.go:425-430` and `client.ts:314` describe the stream
  without one. The reader drains it (`OneAnswer` says what holds).
- `usePollingQuery.ts:84-85` replaces the controller without aborting its
  fetch, so `reload` and a live tick leave the fetch before in flight, although
  `usePollingQuery.ts:56` says that a new fetch aborts the previous one. Its
  answer is discarded (`ShowsCurrentFilter`).
- `client.ts:307` wraps an abort that comes before the headers, so the tab
  shows it as a failed query and goes on to the next statement
  (`AbortWrapped`), although `errors.ts:118-119` says to swallow aborts.
- Mod-Enter starts a run while the tab is running (`QueryEditor.tsx:604`): the
  older run then commits its results beside the newer one's statements, although
  `QueryEditor.tsx:396-398` calls them positional.
- A second click on the detached button, or a tab closed while
  `executeDetached` is under way, leaves an interval that the map of polls does
  not know (`QueryEditor.tsx:541-581`), although `QueryEditor.tsx:504-507` allows
  each tab one; and an old "running" answer after the final one brings the
  spinner back (`QueryEditor.tsx:564`).
- The stop dialog says that tables in progress will finish
  (`TableOptimizer.tsx:192`); the stop cancels the context of the table under
  analysis too, and the page no longer reads its result.
- Analyzing all databases, the page offers Analyze again after the first
  "done", and a second analysis mixes with the rest of the first; following a
  link in a bulk mode begins a stream beside the one under way
  (`TableOptimizer.tsx:125-129`), and Stop then ends the newer one only.
  `DoneCountsResults` and `ResultsOfOneRun` except both (`Alone`, `beside`).
- A bulk analysis that finds no database, or whose body ends without a "done" (the
  `Recoverer` of `router.go:29` answers a panic so), leaves the page loading until the user stops it
  (`TableOptimizer.tsx:106-119`; `cut`, `mute`).

The backend and the stream:

- `writeEvent` (`query_handlers.go:511-514`) drops an event that `json.Marshal`
  refuses, a result with a NaN among them, so that the browser reads a stream
  without an answer (`NoFalseFailure` is about results that can be written).
  `writeSSE` (`optimizer_handlers.go:15-19`) drops in the same way the result of a
  table whose average is NaN: it is counted as analyzed and never listed (`lost`).
- A job that finishes after `put` read it as running stays beyond `maxJobs`
  until the next start (`jobs.go:123-149`), although the comment at `jobs.go:121`
  makes room by dropping the oldest finished job (`OverflowWasRunning`).
- The KILL of a query whose browser left finds nothing while the query is still being
  sent, and a watcher that reaches its select after the handler returned takes
  `done` (`query_handlers.go:533-550`): `DisconnectStopsQuery` excepts both.
- A client is used after its lock is released (`client.go:115, 362`;
  `jobs.go:185` for up to 30 minutes), and may be closed under its query.
- While one reader probes the fallback of `query_log`, others that were denied
  read nothing (`query_log.go:117`).

The editor and the optimizer:

- A page load that another tab's run aborts leaves its pager disabled
  (`QueryEditor.tsx:426`), and `saveTabs` stores it so.
- "Analysis complete" appears after the first of several databases
  (`TableOptimizer.tsx:111-114`). The list of tables of another database can
  replace the newer one's (`:72`); following a link analyses the old selection
  (`:125-129`); the stop dialog outlives its analysis.
- A new result keeps the filters and the count of the one before
  (`ResultTable.tsx:199, 213-222`), so that a filter on a column it lacks hides
  all rows; a plotted column named "x" overwrites the axis (`:109-112`).
- An opening quote takes a quote after it along (`utils.ts:38-43`), so a text with
  an empty literal is cut inside out: `SELECT ''; SELECT 1` is one statement.
  `StatementsAreMeant` excepts texts with a quote right after one that
  opens its literal or is doubled in it (`QuoteOnQuote`); the texts of its run
  include them. In an identifier in backticks an escaped quote ends it
  (`utils.ts:32, 51-53`), although ClickHouse reads on (`EscapedBacktick`).
  Heredocs and comments that begin with `#` are in no text of the model.
- A capitalized key under "Keys:" is taken for an index entry
  (`AnalyzePlanTree.tsx:240, 416`). The entries of `AnalyzePlan`
  have values, and no list of keys.

The session and the storage:

- A late success of the automatic test marks another server as connected
  (`main.tsx:44`); one after Disconnect connects without headers; a late config
  overrides a manual choice (`main.tsx:85`); the zone of the server before stays
  when the new one reports none; the first of two tests to end stops "Testing".
- Tables of the server before are shown after a reconnect (`connection.ts:86`);
  columns that come after Refresh leave a permanent "0 tables"; an answer between
  the headers and the connection leaves the sidebar loading.
- Of two windows of the editor the last to store wins.
- The history compares a query with its newest entry only (`storage.ts:169`), so
  that A, B, A are three entries; `TabsAndHistory` says no more than that.

The pages:

- `QueryList`: a stale total when the range is cleared by hand or Next follows a
  failed first page; "No queries found" beside an error.
- `QueryDetail`: the plan and the flame graph of the id before stay; a retry is
  not aborted by a change of id; the page is blank while a failed first load is
  retried.
- `QueryCompare`: an aborted load cuts its successor's spinner; answers for the
  boxes, which have no signal, overwrite a newer pair.
- `FingerprintDetail`: more rows of another hash are appended; a retry of the
  interval before overrides; the sample is not reset.
- `RunningQueries`, `UsersAccess`: a kill, drop or revoke that ends closes
  another's dialog; switching Live off aborts the first load and shows "No running
  queries".
- `UsersAccess`: showing a role keeps the search, and "No users visible" appears
  for a search without a match, as for a section that the server was refused
  (`UsersAccess.tsx:240, 303, 372, 536, 554`; `NothingIsKnown` excepts both).
- Replication's fetcher writes its history before the hook looks at the run
  (`Replication.tsx:45`), so that an answer which is discarded still adds a point;
  that history is not modelled.
- `SchemaGraph`: a load that fails after the database changed hides its error and
  labels the old graph with the new name; an aborted fetch of columns marks the
  next table's panel as failed (`errors.ts:141`).
- Replication, DDL and TableParts hide an error beside data (`HidesErrors`), and
  Replication colours by other thresholds than the Dashboard
  (`Replication.tsx:81-86`, `Dashboard.tsx:446`).

## Not modelled

- *Execution over SSE* (partly): ExecuteQuery with its watcher and progress pump, ExecuteCancel, and executeQuery in the browser; the other handlers of query_handlers.go are listed apart.
- *Statement execution* (partly): The abort of a query by its context and the failing of json.Marshal on a NaN; the text algorithms (comment stripping, LIMIT and FORMAT injection, placeholder rewriting) are not modelled.
- *Query editor: runs* (partly): runAllQueries, executeStatements, loadResultPage, applyAdvisor, cancelQuery over the tabs and the shared abortRef; the schema's loading and the saved queries are in SchemaSidebar and Workspace; formatting and suggestions are not modelled.
- *Bulk analysis* (partly): StreamBulkAnalysis table by table, both handlers, the browser's stream reader and the page; the single-table mode is in OptimizerPage; the recommendations are not modelled.
- *Editor tab storage* (partly): Tabs, the active tab and the history, loaded and stored by a window of the editor while another window does the same; the parameter sets and the sizes of panels are left out.
- *Table recommendations* (not modelled): Heuristics over statistics (codecs, partitioning, sort keys): thresholds on one table's figures, no state, and a reference definition would repeat the thresholds.
- *Connection and schema cache* (partly): The operator's default, the saved connection, tests that overlap, disconnect, the access token, the server's zone and reloads; the sidebar's databases, tables and columns over the cache. Other windows that share the saved connection, the navigation, the theme and the keyboard shortcuts of the layout are left out.
- *query_log fallback and query lookup* (not modelled): Server state that a reader flips once, and SQL text; outside this project's present reach, first in the plan.
- *Advisor* (not modelled): A cache of one list with an age, in the plan; the warnings are wording.
- *What-if indexes* (not modelled): A session-scoped hypothetical index over pooled connections, in the plan.
- *Statement guards* (partly): splitQueries character by character over texts that ClickHouse's lexer has read; rejectWriteQuery and the other text helpers are not modelled.
- *Error classification* (not modelled): A table of codes; its test for an abort is modelled where it decides something (PollingQuery, EditorRuns, SchemaGraph).
- *Router and middleware* (not modelled): The request timeout and its exemptions, the auth token and the SPA fallback: a table of routes.
- *Query handlers* (not modelled): Handlers that validate parameters, call one client method and write its answer; no state of their own.
- *Query log readers* (not modelled): SQL text and row scanning; their results depend on ClickHouse only.
- *Dashboard and cluster readers* (not modelled): Concurrent sections that fail independently, in the plan as one module of a partial answer.
- *Explain and plan trees* (partly): diffPlans and parseAnalyzePlan line by line; the layout of the tree and the server's EXPLAIN calls are not modelled.
- *Schema graph* (partly): The page: loads, the database's choice, the selected table and its columns' panel, the drawing; the DOT text and the server's queries are not modelled.
- *Configuration, metrics and process entry* (not modelled): Environment reading, two gauges, start-up; shutdown's CloseAll is in Pool.
- *Saved queries and settings* (partly): Saving, deleting and importing queries beside another window that does the same, and the conversion of a server's time to the browser's zone; the settings themselves are stored values.
- *Monitoring pages* (partly): What each of the eleven pages over usePollingQuery shows, from not connected to empty, with its error, its mark of old data and its notice; the history that Replication keeps beside its answer, charts and tables are left out.
- *Query detail, comparison and fingerprints* (partly): The loads of each page, its tabs and side requests, changes of the query or fingerprint shown, retries and cancels; the threads and the pipeline tab keep state of their own that is not modelled.
- *Users and access* (partly): The tabs with their search and pages over lists that shrink, the dialogs that drop a user or a role or revoke a grant, and the dialog of a name's grants; the role filter and the grouping of grants are left out.
- *Results and charts* (partly): The view, the axes and the points of the chart, the filter, the sort and the count of all rows, across results; paging, copying and exporting are left out.
- *Single-table optimizer* (partly): The selection of a database and a table, links into the page, its cached tables, a single analysis, its stop and its answer; the bulk modes are in BulkAnalysis; the sorting and the paging of their list are left out.
- *Router of the web app* (partly): One route at a time with its page's state and requests, and the shell; a navigation unmounts a page and is therefore the start of another behaviour.
- *Plots and drawings* (not modelled): Drawing on a canvas and with a chart library; sizes, colours and wording.

## Plan

Order of the modules still to be written, the most consequential first:

1. `QueryHistory`: the `query_log` fallback, and the lookup of a query that is
   between two tables; `AdvisorCache`.
2. `JobsOverPool`: the composition of `Jobs` and `Pool`, for what an eviction
   does to a detached job.
3. `Statements`: comment stripping, the read-only test, placeholder
   rewriting and the server's splitting, as operators over token sequences checked
   against a grammar, and compared with `SplitQueries`.
4. `WhatIf`: the hypothetical index over pooled sessions.
5. `Readers` and `Reports`: the partial answers (dashboard, replication, DDL,
   access). `Readers` holds, for each reader of a system table, what it does with
   a refused query, a row that does not scan and rows cut short (fail, note, drop,
   ignore); `Reports` runs the sections of a request concurrently, with
   `addPartial` under its mutex, the stages of the `WaitGroup` and the request's
   deadline. To state: notes are exact, the answer is frozen once sent, and every
   refused read is explained in the answer.
6. The schema graph's retry on older servers (`schema_graph.go:231`: the comments
   at 162-169 promise a retry restricted to the database, the retry's text has no
   such filter) and the zero summary of `ListTableParts` after a failed rollup.
7. The router's middleware, error classification, recommendations.
8. With each of these modules its theorems: that an answer's notes are exact
   (`Readers`), and that no detached job loses its connection unnoticed
   (`JobsOverPool`).
