--------------------------- MODULE OptimizerPage ---------------------------
(***************************************************************************)
(* The table optimizer, web/src/pages/TableOptimizer.tsx, around the       *)
(* analysis of many tables, which BulkAnalysis models: what is selected,   *)
(* the lists of tables and the cache of them that the editor's sidebar     *)
(* shares, the analysis of one table, and links that select and start one. *)
(***************************************************************************)
EXTENDS Naturals, FiniteSets

CONSTANTS
    Databases,  \* of the server
    Tables,     \* names of tables, each database has them all
    NoTable,    \* nothing is selected
    MaxRequests \* bound: requests under way

VARIABLES
    connected, \* the property that App passes down
    ui,        \* the URL's table, the component's state and the cache, and as
               \* history whether the newest stream ended without a word
    req        \* requests under way

vars == <<connected, ui, req>>

Modes == {"single", "database", "all"}
Links == {<<>>} \union (Databases \X Tables)

\* A stream is the one in abortRef until another takes its place, and it has
\* told a "done" or not yet.
TablesOf(db) == [what |-> "tables", of |-> db]
Analysis(db, t) == [what |-> "analysis", of |-> <<db, t>>]
Stream == [what |-> "stream", held |-> TRUE, told |-> FALSE]
Streams == {r \in req : r.what = "stream"}

\* The cache has of each database a list of tables, or none yet.
Selected(link) ==
    [url |-> link, mode |-> "single",
     db |-> IF link = <<>> THEN NoTable ELSE link[1],
     table |-> IF link = <<>> THEN NoTable ELSE link[2],
     tables |-> NoTable, cache |-> [d \in Databases |-> NoTable],
     shown |-> <<>>, loading |-> FALSE, error |-> FALSE, asking |-> FALSE, mute |-> FALSE]

\* The effect of a selection: the list from the cache, or a request for it,
\* which no later selection aborts.
Listing(u, reqs) ==
    IF u.db = NoTable THEN ui' = [u EXCEPT !.tables = NoTable] /\ req' = reqs
    ELSE IF u.cache[u.db] # NoTable
         THEN ui' = [u EXCEPT !.tables = u.cache[u.db]] /\ req' = reqs
         ELSE ui' = u /\ req' = reqs \union {TablesOf(u.db)}

\* The page opens before the connection stands.
Init ==
    /\ connected = FALSE
    /\ \E link \in Links :
         /\ ui = Selected(link)
         /\ req = IF link = <<>> THEN {} ELSE {TablesOf(link[1])}

-----------------------------------------------------------------------------
(* The analyses                                                            *)

Unready(u) ==
    \/ u.mode = "single" /\ NoTable \in {u.db, u.table}
    \/ u.mode = "database" /\ u.db = NoTable

\* runAnalysis.  A stream that abortRef held before goes on without it.
RunAnalysis(u) ==
    IF u.mode = "single"
    THEN IF Unready(u) THEN ui' = u /\ UNCHANGED req
         ELSE /\ ui' = [u EXCEPT !.loading = TRUE, !.error = FALSE, !.shown = <<>>, !.mute = FALSE]
              /\ req' = req \union {Analysis(u.db, u.table)}
    ELSE /\ ui' = [u EXCEPT !.loading = TRUE, !.error = FALSE, !.mute = FALSE]
         /\ req' = (req \ Streams) \union {[r EXCEPT !.held = FALSE] : r \in Streams} \union {Stream}

\* A link of the dashboard or of the graph, or the browser's Back, while the
\* page is shown: the selection stays, and the selection is analysed.
Follow ==
    /\ \E link \in Links \ {ui.url} :
         IF link # <<>> /\ connected /\ Cardinality(req) < MaxRequests
         THEN RunAnalysis([ui EXCEPT !.url = link])
         ELSE ui' = [ui EXCEPT !.url = link] /\ (link = <<>> \/ ~ connected) /\ UNCHANGED req
    /\ UNCHANGED connected

Connect ==
    /\ ~ connected /\ Cardinality(req) < MaxRequests
    /\ connected' = TRUE
    /\ IF ui.url # <<>> THEN RunAnalysis(ui) ELSE UNCHANGED <<ui, req>>

Disconnect ==
    /\ connected
    /\ connected' = FALSE
    /\ UNCHANGED <<ui, req>>

Reachable == connected /\ ~ ui.asking

\* The Analyze button, and Retry on an error.
Analyze ==
    /\ Reachable /\ Cardinality(req) < MaxRequests
    /\ (~ ui.loading /\ ~ Unready(ui)) \/ ui.error
    /\ RunAnalysis(ui)
    /\ UNCHANGED connected

AnalysisArrives ==
    /\ \E r \in req :
         /\ r.what = "analysis"
         /\ \/ ui' = [ui EXCEPT !.shown = r.of, !.loading = FALSE]
            \/ ui' = [ui EXCEPT !.error = TRUE, !.loading = FALSE]
         /\ req' = req \ {r}
    /\ UNCHANGED connected

\* A database's "done", and not the last one when all are analysed; of the
\* rows BulkAnalysis tells.
StreamTells ==
    /\ ui' = [ui EXCEPT !.loading = FALSE]
    /\ \E r \in Streams : req' = (req \ {r}) \union {[r EXCEPT !.told = TRUE]}
    /\ UNCHANGED connected

\* The body ends, of which the page hears nothing, or breaks off: onError.
StreamEnds ==
    /\ \E r \in Streams :
         /\ \/ ui' = [ui EXCEPT !.mute = @ \/ (r.held /\ ~ r.told)]
            \/ ui' = [ui EXCEPT !.error = TRUE, !.loading = FALSE]
         /\ req' = req \ {r}
    /\ UNCHANGED connected

-----------------------------------------------------------------------------
(* Stop                                                                    *)

AskStop ==
    /\ Reachable /\ ui.loading /\ ui.mode # "single"
    /\ ui' = [ui EXCEPT !.asking = TRUE]
    /\ UNCHANGED <<connected, req>>

\* Mutant: the stream is aborted, and the page waits for its end.
StopWaits == [ui EXCEPT !.asking = FALSE]

\* What confirmStop leaves of the state.
Stopped == [ui EXCEPT !.asking = FALSE, !.loading = FALSE]

\* The dialog stays open although the analysis may have ended.
ConfirmStop ==
    /\ connected /\ ui.asking
    /\ ui' = Stopped
    /\ req' = req \ {r \in Streams : r.held}
    /\ UNCHANGED connected

CancelStop ==
    /\ connected /\ ui.asking
    /\ ui' = [ui EXCEPT !.asking = FALSE]
    /\ UNCHANGED <<connected, req>>

-----------------------------------------------------------------------------
(* The selection                                                           *)

\* Also while an analysis is under way.
SetMode ==
    /\ Reachable
    /\ \E m \in Modes : ui' = [ui EXCEPT !.mode = m]
    /\ UNCHANGED <<connected, req>>

SelectDb ==
    /\ Reachable /\ ui.mode # "all" /\ Cardinality(req) < MaxRequests
    /\ \E d \in {NoTable} \union Databases :
         /\ d # ui.db
         /\ Listing([ui EXCEPT !.db = d, !.table = NoTable], req)
    /\ UNCHANGED connected

SelectTable ==
    /\ Reachable /\ ui.mode = "single" /\ ui.tables # NoTable
    /\ \E t \in Tables : ui' = [ui EXCEPT !.table = t]
    /\ UNCHANGED <<connected, req>>

\* Mutant: the list is stored for what is selected when it comes.
FiledUnderSelected(of) == [d \in Databases |-> IF d = ui.db THEN of ELSE ui.cache[d]]

\* The cache with the list of a database, stored for the one it was asked of.
Filed(of) == [ui.cache EXCEPT ![of] = of]

\* Whatever is selected by now, the page lists what came last.
TablesArrive ==
    /\ \E r \in req :
         /\ r.what = "tables"
         /\ \/ ui' = [ui EXCEPT !.tables = r.of, !.cache = Filed(r.of)]
            \/ UNCHANGED ui
         /\ req' = req \ {r}
    /\ UNCHANGED connected

Next ==
    \/ Follow \/ Connect \/ Disconnect \/ Analyze \/ AnalysisArrives \/ StreamTells \/ StreamEnds
    \/ AskStop \/ ConfirmStop \/ CancelStop
    \/ SetMode \/ SelectDb \/ SelectTable \/ TablesArrive

Spec == Init /\ [][Next]_vars

-----------------------------------------------------------------------------
(* Properties                                                              *)

\* While the page says that it analyses, an analysis is under way that will
\* end that, whatever links, stops and changes of mode overlapped: of one
\* table, or the newest stream, which has yet to tell of its end.  Only a
\* stream whose body ends before it told anything leaves the page so.
SpinnerEnds ==
    ui.loading => \/ \E r \in req : r.what = "analysis"
                  \/ \E r \in Streams : r.held /\ ~ r.told
                  \/ ui.mute

\* The cache, from which the editor completes names too, has of each database
\* that database's own tables, however late they came.
CacheIsOwn == \A d \in Databases : ui.cache[d] \in {NoTable, d}
=============================================================================
