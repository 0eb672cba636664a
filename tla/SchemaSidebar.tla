--------------------------- MODULE SchemaSidebar ---------------------------
(***************************************************************************)
(* The schema sidebar of the SQL editor, web/src/pages/QueryEditor.tsx and *)
(* editor/SchemaSidebar.tsx, over the cache of api/schema-cache.ts: what a *)
(* component shows, what the module keeps for the next one, and fetches    *)
(* without a signal that outlive connections and components.  One database *)
(* name stands for those that every server has.                            *)
(***************************************************************************)
EXTENDS Naturals, FiniteSets

CONSTANTS
    Servers,    \* what the connection headers may name
    NoTables,   \* an entry with an empty list of tables
    MaxRequests \* bound: requests under way when one is sent

VARIABLES
    connected, \* the property that App passes down
    ui,        \* the component's state, the module's cache, and as history
               \* whether the connection found that filled and fetched nothing
    req        \* requests under way

vars == <<connected, ui, req>>

\* A fetch goes where the headers point when it is sent; mounted is whether
\* the component that sent it is still the one on the page.
Fetch(what, s) == [what |-> what, of |-> s, mounted |-> TRUE]
Fetching(what) == \E r \in req : r.what = what /\ r.mounted

Room == Cardinality(req) < MaxRequests

Empty == [databases |-> {}, tables |-> {}, columns |-> FALSE]

\* A component starts with what the cache has.
Fresh(server, cache, mentions) ==
    [server |-> server, cache |-> cache, shown |-> cache, mentions |-> mentions,
     schemaLoading |-> cache.databases = {}, loading |-> FALSE, skipped |-> FALSE]

Init ==
    /\ connected = FALSE
    /\ \E s \in Servers, m \in BOOLEAN : ui = Fresh(s, Empty, m)
    /\ req = {}

-----------------------------------------------------------------------------
(* Loads                                                                   *)

\* Nothing is fetched while the cache has an answer.
LoadDatabases(u, reqs, force) ==
    IF ~ force /\ u.cache.databases # {}
    THEN ui' = u /\ req' = reqs
    ELSE /\ ui' = [u EXCEPT !.schemaLoading = TRUE]
         /\ req' = reqs \union {Fetch("databases", u.server)}

LoadTables(u, reqs) ==
    IF u.cache.tables # {}
    THEN ui' = u /\ req' = reqs
    ELSE /\ ui' = [u EXCEPT !.loading = TRUE]
         /\ req' = reqs \union {Fetch("tables", u.server)}

\* The effect of the text and the databases: what the text mentions is
\* loaded unless it is cached.
Mentioned(u, reqs) ==
    IF u.mentions /\ u.shown.databases # {} THEN LoadTables(u, reqs)
    ELSE ui' = u /\ req' = reqs

\* setConnectionHeaders invalidates the cache, and not what is shown.
TryConnect(s) ==
    /\ ~ connected
    /\ ui' = [ui EXCEPT !.server = s, !.cache = Empty]
    /\ UNCHANGED <<connected, req>>

Connect ==
    /\ ~ connected /\ Room
    /\ connected' = TRUE
    /\ LoadDatabases([ui EXCEPT !.skipped = ui.cache.databases # {}], req, FALSE)

Disconnect ==
    /\ connected
    /\ connected' = FALSE
    /\ UNCHANGED <<ui, req>>

\* Another page and back: a new component, whose effects run.
Remount ==
    LET u == Fresh(ui.server, ui.cache, ui.mentions)
        reqs == {[r EXCEPT !.mounted = FALSE] : r \in req}
    IN  /\ Room
        /\ IF connected /\ u.cache.databases = {} THEN LoadDatabases(u, reqs, FALSE)
           ELSE Mentioned(u, reqs)
        /\ UNCHANGED connected

-----------------------------------------------------------------------------
(* Answers                                                                 *)

DatabasesArrive(r) ==
    LET u == [ui EXCEPT !.cache.databases = {r.of}]
    IN  /\ r.what = "databases"
        /\ IF r.mounted
           THEN Mentioned([u EXCEPT !.shown.databases = {r.of}, !.schemaLoading = FALSE],
                          req \ {r})
           ELSE ui' = u /\ req' = req \ {r}
        /\ UNCHANGED connected

DatabasesFail(r) ==
    /\ r.what = "databases"
    /\ ui' = [ui EXCEPT !.schemaLoading = IF r.mounted THEN FALSE ELSE @]
    /\ req' = req \ {r}
    /\ UNCHANGED connected

\* Mutant: only an answer ends the spinner.
SpinsOn(r, tables) == ui.loading /\ ~ (r.mounted /\ tables # {})

\* The spinner of the tables after their fetch.
Spins(r, tables) == ui.loading /\ ~ r.mounted

\* The entry of the cache is replaced, and with it the tables of an earlier
\* answer; the component keeps those when the fetch failed.
TablesEnd(r, tables) ==
    [ui EXCEPT !.cache.tables = tables, !.cache.columns = FALSE,
               !.shown.tables = IF r.mounted /\ tables # {} THEN tables ELSE @,
               !.shown.columns = IF r.mounted /\ tables # {} THEN FALSE ELSE @,
               !.loading = Spins(r, tables)]

TablesArrive(r) ==
    /\ r.what = "tables"
    /\ \E tables \in {{}, {r.of}} : ui' = TablesEnd(r, tables)
    /\ req' = req \ {r}
    /\ UNCHANGED connected

\* The columns are put into the tables that the component has by then, none
\* if the schema was reloaded, and all of it into the cache.
ColumnsArrive(r) ==
    LET had == ui.shown.tables # {}
        shown == [ui.shown EXCEPT !.tables = IF had THEN @ ELSE {NoTables}, !.columns = had]
    IN  /\ r.what = "columns"
        /\ \/ r.mounted /\ ui' = [ui EXCEPT !.shown = shown,
                                            !.cache.tables = shown.tables,
                                            !.cache.columns = shown.columns]
           \/ ui' = ui
        /\ req' = req \ {r}
        /\ UNCHANGED connected

-----------------------------------------------------------------------------
(* Handlers                                                                *)

\* What the sidebar renders for the database.
Rows ==
    IF ui.shown.databases = {} THEN IF ui.schemaLoading THEN "loading databases" ELSE "none"
    ELSE IF ui.shown.tables = {NoTables} THEN "nothing"
    ELSE IF ui.shown.tables # {} THEN "tables"
    ELSE IF ui.loading THEN "loading" ELSE "failed"

\* Expanding one database or all: the tables that are not shown.
Expand ==
    /\ connected /\ ui.shown.databases # {} /\ ui.shown.tables = {} /\ Room
    /\ LoadTables(ui, req)
    /\ UNCHANGED connected

ExpandTable ==
    /\ connected /\ Rows = "tables" /\ ~ ui.shown.columns /\ Room
    /\ req' = req \union {Fetch("columns", ui.server)}
    /\ UNCHANGED <<connected, ui>>

\* Reload schema, disabled while the databases load.
Refresh ==
    /\ connected /\ ~ ui.schemaLoading /\ Room
    /\ LoadDatabases([ui EXCEPT !.cache = Empty, !.shown.tables = {}, !.shown.columns = FALSE,
                                !.loading = FALSE],
                     req, TRUE)
    /\ UNCHANGED connected

\* The text names the database, or no longer does.
Type ==
    /\ connected /\ Room
    /\ Mentioned([ui EXCEPT !.mentions = ~ @], req)
    /\ UNCHANGED connected

Next ==
    \/ Connect \/ Disconnect \/ Remount \/ Expand \/ ExpandTable \/ Refresh \/ Type
    \/ \E s \in Servers : TryConnect(s)
    \/ \E r \in req :
         DatabasesArrive(r) \/ DatabasesFail(r) \/ TablesArrive(r) \/ ColumnsArrive(r)

Spec == Init /\ [][Next]_vars

-----------------------------------------------------------------------------
(* Properties                                                              *)

\* The spinners of the sidebar turn for a fetch of its own, which ends them.
\* Only the first one may turn for ever: when a fetch of a component before
\* filled the cache between the headers and the connection, the connection
\* fetched nothing.
SpinnersEnd ==
    connected =>
        /\ ui.schemaLoading => Fetching("databases") \/ ui.skipped
        /\ ui.loading => Fetching("tables")
=============================================================================
