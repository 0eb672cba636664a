---------------------------- MODULE SchemaGraph ----------------------------
(***************************************************************************)
(* The schema graph, web/src/pages/SchemaGraph.tsx and                     *)
(* components/SchemaGraphView.tsx: one load at a time of the graph of a    *)
(* database, its drawing, and the panel of a selected table, which fetches *)
(* the columns of that table.                                              *)
(***************************************************************************)
EXTENDS Naturals, FiniteSets

CONSTANTS
    Databases, \* the databases of the server
    Tables,    \* the tables of a graph
    Lookbacks, \* of the load overlay
    NoTable    \* no table is selected

VARIABLES
    connected, \* the property that App passes down
    ui,        \* the component's state and that of its panel and its drawing
    req        \* requests under way

vars == <<connected, ui, req>>

\* "auto" leaves the choice to the server, "all" asks for every database.
Scopes == Databases \union {"auto", "all"}

\* What a load asks for.
Key(u) == [days |-> u.days, scope |-> u.scope]
GraphLoad(key) == [what |-> "graph", key |-> key]
ColumnsLoad(t) == [what |-> "columns", of |-> t]
Rejection(t) == [what |-> "rejection", of |-> t]
Graphs == {r \in req : r.what = "graph"}

\* Whose columns the panel has, and whose fetch it saw fail.
NoPanel == [columns |-> {}, failed |-> {}]

Blank(days) ==
    [days |-> days, scope |-> "auto", kinds |-> TRUE,
     graph |-> {}, nodes |-> {}, database |-> {}, loading |-> FALSE, error |-> FALSE,
     selected |-> NoTable, panel |-> NoPanel, view |-> "drawing", listening |-> TRUE]

\* No lookback at first; the first load is the effect's, once connected.
Init ==
    /\ connected = FALSE
    /\ ui = Blank(0)
    /\ req = {}

-----------------------------------------------------------------------------
(* The graph                                                               *)

\* Mutant: the previous load is left running.
PreviousKept(key, reqs) == reqs \union {GraphLoad(key)}

\* Aborts the previous load, whose handlers find another controller in the
\* ref and do nothing.
Loading(key, reqs) == {r \in reqs : r.what # "graph"} \union {GraphLoad(key)}

Load(u, reqs) ==
    /\ ui' = [u EXCEPT !.loading = TRUE, !.error = FALSE]
    /\ req' = Loading(Key(u), reqs)

\* The cleanup aborts the load, still the ref's, so its finally ends loading;
\* the panel is unmounted, and its fetch is aborted.
Disconnect ==
    /\ connected
    /\ connected' = FALSE
    /\ ui' = [ui EXCEPT !.loading = FALSE, !.panel = NoPanel]
    /\ req' = {}

Body ==
    IF ~ connected THEN "connect"
    ELSE IF ui.error /\ ui.graph = {} THEN "error"
    ELSE IF ui.graph = {} THEN "skeleton"
    ELSE IF ui.nodes = {} THEN "empty" ELSE "graph"

\* The database that the selector shows.
ActiveDb == IF ui.scope = "auto" THEN ui.database ELSE {ui.scope}

\* Refresh, and Retry on the error.
Reload ==
    /\ connected /\ (~ ui.loading \/ Body = "error")
    /\ Load(ui, req)
    /\ UNCHANGED connected

\* The lookback stands in the header, and may be chosen in any state.
SetLookback(days) ==
    /\ connected /\ days # ui.days
    /\ Load([ui EXCEPT !.days = days], req)
    /\ UNCHANGED connected

-----------------------------------------------------------------------------
(* The selected table                                                      *)

\* Mutant: the panel keeps the columns of the table before.
PanelKept(u, t) == [u EXCEPT !.selected = t]

\* The effect of the panel clears it for its new table, and that of the
\* drawing, which depends on the selection, finds the container unless an
\* error is rendered.
PanelOf(u, t) ==
    [u EXCEPT !.selected = t, !.panel = NoPanel,
              !.listening = @ \/ (t # u.selected /\ u.view # "failed")]

\* Its cleanup aborts the fetch before, which is told of it by a rejection
\* that reaches the panel only if the panel is still mounted.
Fetches(t, mounted) ==
    LET old == {r \in req : r.what = "columns"}
    IN  (req \ old)
        \union {ColumnsLoad(x) : x \in {t} \ {NoTable}}
        \union {Rejection(r.of) : r \in {x \in old : mounted}}

Rejected == {r \in req : r.what = "rejection"}

\* With the page the drawing and the panel of the selection are mounted anew.
Connect ==
    /\ ~ connected
    /\ connected' = TRUE
    /\ Load([ui EXCEPT !.view = "drawing", !.listening = TRUE], Fetches(ui.selected, FALSE))

\* A new panel knows nothing of the rejection of the one before.
Select(t) ==
    /\ Body = "graph" /\ t \in ui.nodes \union {NoTable} /\ t # ui.selected
    /\ IF t = NoTable
       THEN req' = Fetches(t, FALSE) \ Rejected
       ELSE req' = Fetches(t, ui.selected # NoTable)
    /\ ui' = PanelOf(ui, t)
    /\ UNCHANGED connected

\* A database, or all of them, closes the panel and loads.
PickDatabase(scope) ==
    /\ Body = "graph" /\ {scope} # ActiveDb /\ scope # "auto"
    /\ Load([PanelOf(ui, NoTable) EXCEPT !.scope = scope, !.view = "drawing"],
            Fetches(NoTable, FALSE) \ Rejected)
    /\ UNCHANGED connected

ColumnsArrive(r) ==
    /\ r.what = "columns"
    /\ ui' = [ui EXCEPT !.panel.columns = {r.of}]
    /\ req' = req \ {r}
    /\ UNCHANGED connected

\* The handler of the panel's fetches does not look at what was thrown.
ColumnsFail(r) ==
    /\ r.what \in {"columns", "rejection"}
    /\ ui' = [ui EXCEPT !.panel.failed = @ \union {r.of}]
    /\ req' = req \ {r}
    /\ UNCHANGED connected

PanelShown ==
    IF ui.panel.failed # {} THEN "could not load"
    ELSE IF ui.panel.columns = {} THEN "loading" ELSE "columns"

\* The tables of the answer; a selected one that is not among them is closed,
\* and the first that are drawn have a drawing of their own.
GraphArrives(r) ==
    /\ r.what = "graph"
    /\ \E nodes \in SUBSET Tables,
         db \in IF r.key.scope = "auto" THEN Databases ELSE {r.key.scope} :
         LET u == [ui EXCEPT !.graph = {r.key}, !.nodes = nodes, !.database = {db},
                             !.loading = FALSE, !.view = "drawing",
                             !.listening = @ \/ ui.nodes = {}]
         IN  IF ui.selected \in nodes \union {NoTable}
             THEN ui' = u /\ req' = req \ {r}
             ELSE /\ ui' = PanelOf(u, NoTable)
                  /\ req' = (Fetches(NoTable, FALSE) \ Rejected) \ {r}
    /\ UNCHANGED connected

\* An error is rendered only without a graph.
GraphFails(r) ==
    /\ r.what = "graph"
    /\ ui' = [ui EXCEPT !.error = TRUE, !.loading = FALSE]
    /\ req' = req \ {r}
    /\ UNCHANGED connected

-----------------------------------------------------------------------------
(* The drawing                                                             *)

\* A kind shown or hidden, the metric of the heat map and the theme draw the
\* graph anew.
Redraw ==
    /\ Body = "graph"
    /\ \E kinds \in BOOLEAN : ui' = [ui EXCEPT !.kinds = kinds, !.view = "drawing"]
    /\ UNCHANGED <<connected, req>>

\* A drawing that fails is rendered without the container whose clicks the
\* effect of the selection listens to.
Draw ==
    /\ Body = "graph" /\ ui.view = "drawing"
    /\ \/ ui' = [ui EXCEPT !.view = "ready"]
       \/ ui' = [ui EXCEPT !.view = "failed", !.listening = FALSE]
    /\ UNCHANGED <<connected, req>>

\* Click on a table or the background, or on a dependency in the panel.
Click(t) ==
    /\ (ui.view = "ready" /\ ui.listening) \/ ui.selected # NoTable
    /\ Select(t)

Next ==
    \/ Connect \/ Disconnect \/ Reload \/ Redraw \/ Draw
    \/ \E days \in Lookbacks : SetLookback(days)
    \/ \E scope \in Scopes : PickDatabase(scope)
    \/ \E t \in Tables \union {NoTable} : Click(t)
    \/ \E r \in req : ColumnsArrive(r) \/ ColumnsFail(r) \/ GraphArrives(r) \/ GraphFails(r)

Spec == Init /\ [][Next]_vars

-----------------------------------------------------------------------------
(* Properties                                                              *)

\* Once the loads have ended without an error the graph is the one that the
\* selectors ask for.
GraphIsOwn ==
    connected /\ ~ ui.loading /\ ~ ui.error /\ ui.graph # {} =>
        /\ ui.graph = {Key(ui)}
        /\ ActiveDb = ui.database

\* The columns in the panel are those of the table whose panel it is.
ColumnsAreOwn ==
    connected /\ PanelShown = "columns" => ui.panel.columns = {ui.selected}

\* Loading turns for a load, and a load turns it.
SpinnerIsOwn == connected => (ui.loading <=> Graphs # {})
=============================================================================
