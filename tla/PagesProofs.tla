---------------------------- MODULE PagesProofs ----------------------------
(***************************************************************************)
(* Proofs about Pages: for any queries, databases, users, columns, servers *)
(* and tokens, and any of the bounds, every page shows what it asked for,  *)
(* every spinner has a request behind it, the editor keeps its tabs, its   *)
(* history and its saved queries, a reload goes on with the connection     *)
(* that the page uses, and a text that is split, compared or parsed is     *)
(* taken for what it means (TextCallsProofs).                              *)
(*                                                                         *)
(* Each page has an invariant of its own, and a lemma per action or group  *)
(* of actions that it is kept; the theorems at the end put them together.  *)
(***************************************************************************)
EXTENDS Pages, TextCallsProofs, Sequences, SequenceTheorems, FiniteSetTheorems, TLAPS
-----------------------------------------------------------------------------
(* The pages' invariants                                                   *)

\* Of a page's record the invariant knows the fields, and the values of those
\* that it speaks of.
ListFields ==
    {"filter", "dated", "page", "typed", "debounced", "rows", "full", "total", "counted",
     "loading", "error", "canceled", "selected"}

\* The one request is for what the controls show now; an answer to it makes
\* the rows and the total theirs.
ListInv ==
    /\ DOMAIN ui = ListFields /\ ui.loading \in BOOLEAN /\ connected \in BOOLEAN
    /\ req \subseteq {[key |-> List!Key(ui), counts |-> List!WantsCount(ui)]}
    /\ List!SpinnerIsOwn
    /\ ~ connected => req = {}
    /\ List!Settled =>
         /\ ui.rows \in {{}, {List!Key(ui)}}
         /\ List!WantsCount(ui) => ui.counted = {List!Range(List!Key(ui))}

RunningFields ==
    {"rows", "hidden", "grouped", "loading", "error", "canceled", "live", "refresh",
     "killTarget", "killing", "killUser", "killingUser"}

RunningInv ==
    /\ DOMAIN ui = RunningFields /\ connected \in BOOLEAN
    /\ ui.loading \in BOOLEAN /\ ui.live \in BOOLEAN
    /\ DOMAIN req = {"load", "kills", "userKills"}
    /\ req.load \in BOOLEAN /\ req.kills \in [Queries -> Nat]
    /\ ui.killing \subseteq Queries
    /\ Running!SpinnerIsOwn
    /\ Running!KillingIsUnderWay

DetailFields ==
    {"id", "tab", "shown", "sideError", "loading", "initial", "error",
     "explain", "explainError", "flame", "flameType", "flameLoading", "flameError"}

DetailInv ==
    /\ DOMAIN ui = DetailFields
    /\ ui.loading \in BOOLEAN /\ ui.flameLoading \in BOOLEAN
    /\ Detail!SpinnersEnd

CompareFields == {"url", "boxes", "loading", "error", "shown", "tab", "plans", "cache"}

\* Only the open tab has requests for plans, and those are of the pair on
\* show.
PlanRequests ==
    \A r \in req :
        r.what = "plan" =>
            /\ ui.tab = "plans"
            /\ r.side \in Compare!Sides
            /\ \A pair \in ui.shown : r.of = pair[r.side]

PlansLoad ==
    ui.tab = "plans" =>
        \A s \in Compare!Sides : ui.plans[s].state = "loading" =>
            \E r \in req : r.what = "plan" /\ r.side = s

ComparisonLoads == ui.loading => Compare!Comparisons # {}

CompareInv ==
    /\ DOMAIN ui = CompareFields /\ ui.loading \in BOOLEAN
    /\ DOMAIN ui.plans = Compare!Sides
    /\ \A p, q \in ui.shown : p = q
    /\ PlanRequests /\ Compare!PlansAreOwn
    /\ PlansLoad
    /\ ComparisonLoads

FingerprintFields ==
    {"hash", "interval", "located", "sample", "trend", "rows", "remaining", "loading",
     "loadingMore", "error", "canceled", "crashed"}

FingerprintInv ==
    /\ DOMAIN ui = FingerprintFields
    /\ ui.loading \in BOOLEAN /\ ui.loadingMore \in BOOLEAN /\ ui.crashed \in BOOLEAN
    /\ Fingerprint!EffectsAreCurrent
    /\ Fingerprint!SpinnersEnd

GraphFields ==
    {"days", "scope", "kinds", "graph", "nodes", "database", "loading", "error",
     "selected", "panel", "view", "listening"}

GraphTypes ==
    /\ DOMAIN ui = GraphFields
    /\ ui.loading \in BOOLEAN /\ ui.error \in BOOLEAN
    /\ DOMAIN ui.panel = {"columns", "failed"}

\* The loads are for what the selectors ask.
LoadsAreOwn ==
    /\ \A r \in req : r.what = "graph" => r = Graph!GraphLoad(Graph!Key(ui))
    /\ connected /\ ~ ui.loading /\ ~ ui.error /\ ui.graph # {} =>
         /\ ui.graph = {Graph!Key(ui)}
         /\ ui.scope # "auto" => ui.database = {ui.scope}
    /\ ~ connected => req = {}
    /\ Graph!SpinnerIsOwn

\* The fetches are for the table that is selected.
FetchesAreOwn ==
    /\ \A r \in req : r.what = "columns" => r.of = ui.selected
    /\ ui.panel.columns \in {{}, {ui.selected}}

GraphInv == GraphTypes /\ LoadsAreOwn /\ FetchesAreOwn

SidebarFields == {"server", "cache", "shown", "mentions", "schemaLoading", "loading", "skipped"}
SchemaFields == {"databases", "tables", "columns"}

\* The tables' spinner waits for its fetch while the page is disconnected
\* too, for a connection does not start it.
SidebarInv ==
    /\ DOMAIN ui = SidebarFields /\ connected \in BOOLEAN
    /\ ui.schemaLoading \in BOOLEAN /\ ui.loading \in BOOLEAN
    /\ DOMAIN ui.cache = SchemaFields /\ DOMAIN ui.shown = SchemaFields
    /\ ui.loading => Sidebar!Fetching("tables")
    /\ connected /\ ui.schemaLoading => Sidebar!Fetching("databases") \/ ui.skipped

AccessFields ==
    {"tab", "page", "size", "query", "data", "drop", "revoke", "grants", "stmt", "loading", "error"}

\* The dialog's request is for the name in its title, and a title is only
\* there when the overview is.
AccessInv ==
    /\ DOMAIN ui = AccessFields /\ connected \in BOOLEAN
    /\ ui.loading \in BOOLEAN
    /\ ui.page \in Nat \ {0} /\ ui.size \in Access!PageSizes
    /\ ui.data = {} \/ \E o \in Access!Overviews : ui.data = {o}
    /\ ui.grants # None => ui.data # {} /\ ui.stmt \in {None, ui.grants}
    /\ ~ connected => Access!Calls("grants") = {}
    /\ \A r \in Access!Calls("grants") : r.target = ui.grants
    /\ Access!StatementLoads

ResultFields == {"result", "filters", "sort", "ascending", "count", "view", "axes"}

\* The axes are those of the result, whatever results came before.
ResultInv ==
    /\ DOMAIN ui = ResultFields
    /\ ui.result \in Result!Results
    /\ DOMAIN ui.count = {"loading", "value", "error"} /\ ui.count.loading \in BOOLEAN
    /\ \A a \in ui.axes :
         /\ a \in [x : Columns \union {RowNumber}, y : SUBSET Columns]
         /\ a.x \in ui.result.columns \union {RowNumber}
         /\ a.y \subseteq ui.result.numeric
    /\ Result!CountEnds

OptimizerFields ==
    {"url", "mode", "db", "table", "tables", "cache", "shown", "loading", "error", "asking",
     "mute"}

OptimizerInv ==
    /\ DOMAIN ui = OptimizerFields
    /\ ui.loading \in BOOLEAN /\ ui.mute \in BOOLEAN
    /\ DOMAIN ui.cache = Databases
    /\ Optimizer!CacheIsOwn
    /\ Optimizer!SpinnerEnds

EditorFields == {"tabs", "active", "history", "saved"}
EditorTabs == [id : TabIds \union {Elsewhere}, sql : Words]

\* A list of tabs and which of them is active.
Opened(tabs, active) == tabs \in Seq(EditorTabs) /\ active \in Editor!IdsOf(tabs)

\* A history within its limit, without repetitions.
Kept(list) ==
    /\ list \in Seq(Words) /\ Len(list) <= MaxHistory
    /\ \A i \in 1 .. Len(list) - 1 : list[i] # list[i + 1]

\* The runs under way are of queries, whose words may enter the history.
EditorInv ==
    /\ DOMAIN ui = EditorFields /\ DOMAIN disk = EditorFields
    /\ Opened(ui.tabs, ui.active) /\ Opened(disk.tabs, disk.active)
    /\ Kept(disk.history)
    /\ \A r \in req : r.sql \in Words /\ DOMAIN r = {"sql", "mounted"}

-----------------------------------------------------------------------------
(* The query list                                                          *)

LEMMA ListInitInv ==
    ASSUME List!Init PROVE ListInv
<1>1. PICK f \in Words, w \in Words, p \in 0 .. LastPage : ui = List!Mounted(f, p, w)
    BY DEF List!Init
<1>2. connected \in BOOLEAN /\ req = List!Requests(ui, connected)
    BY DEF List!Init
<1>3. DOMAIN ui = ListFields /\ ui.loading = TRUE
    BY <1>1 DEF List!Mounted, ListFields
<1>4. IF connected THEN req = {[key |-> List!Key(ui), counts |-> List!WantsCount(ui)]} ELSE req = {}
    BY <1>2 DEF List!Requests
<1>. QED  BY <1>2, <1>3, <1>4 DEF ListInv, List!SpinnerIsOwn, List!Settled

\* The effect leaves one request, for what the controls show, or none.
LEMMA ListLoadInv ==
    ASSUME NEW u, DOMAIN u = ListFields, u.loading \in BOOLEAN, NEW on \in BOOLEAN, List!Load(u, on)
    PROVE  ListInv'
<1>1. connected' = on /\ req' = List!Requests(u, on)
    BY DEF List!Load, List!Cleaned
<1>2. CASE on
    <2>1. ui' = [u EXCEPT !.canceled = FALSE, !.loading = TRUE, !.error = FALSE]
        BY <1>2 DEF List!Load
    <2>2. DOMAIN ui' = ListFields /\ ui'.loading = TRUE
        BY <2>1 DEF ListFields
    <2>3. List!Key(u) = List!Key(ui)' /\ List!WantsCount(u) = List!WantsCount(ui)'
        BY <2>1 DEF ListFields, List!Key, List!WantsCount
    <2>4. req' = {[key |-> List!Key(ui)', counts |-> List!WantsCount(ui)']}
        BY <1>1, <1>2, <2>3 DEF List!Requests
    <2>. QED  BY <1>1, <1>2, <2>2, <2>4 DEF ListInv, List!SpinnerIsOwn, List!Settled
<1>3. CASE ~ on
    BY <1>1, <1>3 DEF List!Load, List!Requests, ListInv, List!SpinnerIsOwn, List!Settled
<1>. QED  BY <1>2, <1>3

\* The controls change what is shown before the effect runs.
LEMMA ListControlsInv ==
    ASSUME ListInv,
           \/ \E w \in Words : List!Type(w) \/ List!SetFilter(w)
           \/ List!Debounce \/ List!SetRange \/ List!ApplyDatePreset \/ List!Previous \/ List!Next_
           \/ List!Reload \/ List!Connect
    PROVE  ListInv'
<1>1. DOMAIN ui = ListFields /\ ui.loading \in BOOLEAN /\ connected \in BOOLEAN
    BY DEF ListInv
<1>2. ASSUME NEW w \in Words, List!Type(w) PROVE ListInv'
    BY <1>1, <1>2, ListLoadInv DEF List!Type, ListFields
<1>3. ASSUME NEW w \in Words, List!SetFilter(w) PROVE ListInv'
    BY <1>1, <1>3, ListLoadInv DEF List!SetFilter, ListFields
<1>4. CASE List!Debounce
    BY <1>1, <1>4, ListLoadInv DEF List!Debounce, ListFields
<1>5. CASE List!SetRange
    BY <1>1, <1>5, ListLoadInv DEF List!SetRange, ListFields
<1>6. CASE List!ApplyDatePreset
    BY <1>1, <1>6, ListLoadInv DEF List!ApplyDatePreset, ListFields
<1>7. CASE List!Previous \/ List!Next_
    BY <1>1, <1>7, ListLoadInv DEF List!Previous, List!Next_, ListFields
<1>8. CASE List!Reload \/ List!Connect
    BY <1>1, <1>8, ListLoadInv DEF List!Reload, List!Connect
<1>. QED  BY <1>2, <1>3, <1>4, <1>5, <1>6, <1>7, <1>8

LEMMA ListAnswersInv ==
    ASSUME ListInv, NEW r \in req, List!Answer(r) \/ List!Fail(r)
    PROVE  ListInv'
<1>1. /\ r = [key |-> List!Key(ui), counts |-> List!WantsCount(ui)]
      /\ req' = {} /\ connected' = connected
    BY DEF ListInv, List!Answer, List!Fail
<1>2. r.key = List!Key(ui) /\ r.counts = List!WantsCount(ui)
    BY <1>1
<1>3. DOMAIN ui = ListFields /\ DOMAIN ui' = ListFields /\ ui'.loading = FALSE
    BY DEF ListInv, List!Answer, List!Fail, ListFields
<1>4. /\ ui'.filter = ui.filter /\ ui'.dated = ui.dated
      /\ ui'.page = ui.page /\ ui'.debounced = ui.debounced
    BY <1>3 DEF List!Answer, List!Fail, ListFields
<1>5. List!Key(ui)' = List!Key(ui) /\ List!WantsCount(ui)' = List!WantsCount(ui)
    BY <1>4 DEF List!Key, List!WantsCount
<1>6. List!Settled' =>
        /\ ui'.rows \in {{}, {List!Key(ui)'}}
        /\ List!WantsCount(ui)' => ui'.counted = {List!Range(List!Key(ui)')}
    <2>1. CASE List!Answer(r)
        <3>1. ui'.rows \in {{}, {r.key}} /\ (r.counts => ui'.counted = {List!Range(r.key)})
            BY <1>3, <2>1 DEF List!Answer, ListFields
        <3>2. List!Range(r.key) = List!Range(List!Key(ui)')
            BY <1>2, <1>5
        <3>. QED  BY <1>2, <1>5, <3>1, <3>2
    <2>2. CASE List!Fail(r)
        BY <1>3, <2>2 DEF List!Fail, ListFields, List!Settled
    <2>. QED  BY <2>1, <2>2
<1>. QED  BY <1>1, <1>3, <1>6 DEF ListInv, List!SpinnerIsOwn

LEMMA ListRestInv ==
    ASSUME ListInv, List!Cancel \/ List!ToggleSelect \/ List!ClearSelection
    PROVE  ListInv'
<1>1. CASE List!Cancel
    <2>1. /\ ui' = [ui EXCEPT !.canceled = TRUE, !.loading = FALSE] /\ req' = {}
        BY <1>1 DEF List!Cancel
    <2>2. DOMAIN ui' = ListFields /\ ui'.loading = FALSE /\ ui'.canceled = TRUE
        BY <2>1 DEF ListInv, ListFields
    <2>3. ~ List!Settled'
        BY <2>2 DEF List!Settled
    <2>4. req' = {} /\ connected' = connected
        BY <1>1 DEF List!Cancel
    <2>. QED  BY <2>2, <2>3, <2>4 DEF ListInv, List!SpinnerIsOwn
<1>2. ASSUME NEW n, ui' = [ui EXCEPT !.selected = n], UNCHANGED <<connected, req>>
      PROVE  ListInv'
    <2>1. /\ DOMAIN ui' = ListFields
          /\ \A f \in ListFields \ {"selected"} : ui'[f] = ui[f]
        BY <1>2 DEF ListInv, ListFields
    <2>2. /\ ui'.loading = ui.loading /\ ui'.error = ui.error /\ ui'.canceled = ui.canceled
          /\ ui'.rows = ui.rows /\ ui'.counted = ui.counted
        BY <2>1 DEF ListFields
    <2>3. List!Key(ui)' = List!Key(ui) /\ List!WantsCount(ui)' = List!WantsCount(ui)
        BY <2>1 DEF List!Key, List!WantsCount, ListFields
    <2>. QED  BY <1>2, <2>1, <2>2, <2>3 DEF ListInv, List!SpinnerIsOwn, List!Settled
<1>. QED  BY <1>1, <1>2 DEF List!ToggleSelect, List!ClearSelection

LEMMA ListHolds ==
    ASSUME ListInv PROVE List!RowsAreOwn /\ List!TotalIsOwn /\ List!SpinnerIsOwn
BY DEF ListInv, List!RowsAreOwn, List!TotalIsOwn, List!Body, List!Empty

LEMMA ListStepInv ==
    ASSUME ListInv, List!Next PROVE ListInv'
BY ListControlsInv, ListAnswersInv, ListRestInv DEF List!Next

-----------------------------------------------------------------------------
(* Running queries                                                         *)

LEMMA RunningInitInv ==
    ASSUME Running!Init PROVE RunningInv
BY DEF Running!Init, RunningInv, RunningFields, Running!SpinnerIsOwn, Running!KillingIsUnderWay

\* The steps of the loads leave the kills alone, those of the kills the load.
LEMMA RunningInvBut ==
    ASSUME RunningInv, DOMAIN ui' = RunningFields, DOMAIN req' = {"load", "kills", "userKills"},
           ui'.live \in BOOLEAN, connected' \in BOOLEAN,
           \/ /\ ui'.loading \in BOOLEAN /\ req'.load \in BOOLEAN /\ Running!SpinnerIsOwn'
              /\ ui'.killing = ui.killing /\ req'.kills = req.kills
           \/ /\ ui'.loading = ui.loading /\ req'.load = req.load /\ connected' = connected
              /\ ui'.killing \subseteq Queries /\ req'.kills \in [Queries -> Nat]
              /\ Running!KillingIsUnderWay'
    PROVE  RunningInv'
BY DEF RunningInv, Running!SpinnerIsOwn, Running!KillingIsUnderWay

LEMMA RunningLoadsInv ==
    ASSUME RunningInv,
           \/ Running!Answer \/ Running!Fail \/ Running!Tick \/ Running!ScheduledRefresh
           \/ Running!Refresh \/ Running!SetLive \/ Running!Connect \/ Running!Disconnect
           \/ Running!Cancel
    PROVE  RunningInv'
<1>1. /\ DOMAIN ui = RunningFields /\ DOMAIN req = {"load", "kills", "userKills"}
      /\ ui.loading \in BOOLEAN /\ ui.live \in BOOLEAN /\ req.load \in BOOLEAN
      /\ connected \in BOOLEAN /\ Running!SpinnerIsOwn
    BY DEF RunningInv
<1>2. ASSUME NEW u, DOMAIN u = RunningFields, u.live = ui.live, u.killing = ui.killing,
             ui' = [u EXCEPT !.canceled = FALSE, !.loading = TRUE, !.error = FALSE],
             req' = [req EXCEPT !.load = TRUE], connected' \in BOOLEAN
      PROVE  RunningInv'
    <2>1. /\ DOMAIN ui' = RunningFields /\ ui'.loading = TRUE
          /\ ui'.live = ui.live /\ ui'.killing = ui.killing
        BY <1>2 DEF RunningFields
    <2>2. DOMAIN req' = {"load", "kills", "userKills"} /\ req'.load = TRUE /\ req'.kills = req.kills
        BY <1>1, <1>2
    <2>. QED  BY <1>1, <1>2, <2>1, <2>2, RunningInvBut DEF Running!SpinnerIsOwn
<1>3. CASE Running!Tick \/ Running!ScheduledRefresh \/ Running!Refresh \/ Running!Connect
    BY <1>1, <1>2, <1>3 DEF Running!Tick, Running!ScheduledRefresh, Running!Refresh, Running!Connect,
        Running!Load, Running!Superseded, RunningFields
<1>4. ASSUME NEW u, DOMAIN u = RunningFields, u.live \in BOOLEAN, u.killing = ui.killing,
             u.loading \in BOOLEAN, connected' => (u.loading <=> req'.load),
             ui' = u, req'.load \in BOOLEAN, connected' \in BOOLEAN,
             DOMAIN req' = DOMAIN req, req'.kills = req.kills
      PROVE  RunningInv'
    BY <1>1, <1>4, RunningInvBut DEF Running!SpinnerIsOwn
<1>5. CASE Running!Answer \/ Running!Fail
    <2>1. /\ DOMAIN ui' = RunningFields /\ ui'.loading = FALSE
          /\ ui'.live = ui.live /\ ui'.killing = ui.killing
        BY <1>1, <1>5 DEF Running!Answer, Running!Fail, RunningFields
    <2>2. DOMAIN req' = DOMAIN req /\ req'.load = FALSE /\ req'.kills = req.kills
        BY <1>1, <1>5 DEF Running!Answer, Running!Fail
    <2>3. connected' = connected
        BY <1>5 DEF Running!Answer, Running!Fail
    <2>. QED  BY <1>1, <1>4, <2>1, <2>2, <2>3
<1>6. CASE Running!SetLive
    <2>1. /\ DOMAIN ui' = RunningFields /\ ui'.killing = ui.killing /\ ui'.live \in BOOLEAN
          /\ ui'.loading = IF ui.live THEN ui.loading /\ ~ req.load ELSE ui.loading
        BY <1>1, <1>6 DEF Running!SetLive, Running!Aborted, RunningFields
    <2>2. /\ DOMAIN req' = DOMAIN req /\ req'.load = (req.load /\ ~ ui.live) /\ req'.kills = req.kills
        BY <1>1, <1>6 DEF Running!SetLive
    <2>3. connected' = connected /\ connected
        BY <1>6 DEF Running!SetLive
    <2>4. ui'.loading \in BOOLEAN /\ req'.load \in BOOLEAN /\ (ui'.loading <=> req'.load)
        BY <1>1, <2>1, <2>2, <2>3 DEF Running!SpinnerIsOwn
    <2>. QED  BY <1>1, <1>4, <2>1, <2>2, <2>3, <2>4
<1>7. CASE Running!Disconnect \/ Running!Cancel
    <2>1. /\ DOMAIN ui' = RunningFields /\ ui'.killing = ui.killing /\ ui'.live = ui.live
          /\ ui'.loading = (ui.loading /\ ~ req.load)
        BY <1>1, <1>7 DEF Running!Disconnect, Running!Cancel, Running!Aborted, RunningFields
    <2>2. DOMAIN req' = DOMAIN req /\ req'.load = FALSE /\ req'.kills = req.kills
        BY <1>1, <1>7 DEF Running!Disconnect, Running!Cancel
    <2>3. connected /\ connected' \in BOOLEAN
        BY <1>1, <1>7 DEF Running!Disconnect, Running!Cancel, Running!Clickable
    <2>4. ui'.loading \in BOOLEAN /\ req'.load \in BOOLEAN /\ (ui'.loading <=> req'.load)
        BY <1>1, <2>1, <2>2, <2>3 DEF Running!SpinnerIsOwn
    <2>. QED  BY <1>1, <1>4, <2>1, <2>2, <2>3, <2>4
<1>. QED  BY <1>3, <1>5, <1>6, <1>7

\* Of the rows marked as being killed those with a kill under way.
LEMMA RunningKillsInv ==
    ASSUME RunningInv, NEW q \in Queries, Running!HandleKill(q) \/ Running!KillEnds(q)
    PROVE  RunningInv'
<1>1. /\ DOMAIN ui = RunningFields /\ DOMAIN req = {"load", "kills", "userKills"}
      /\ req.kills \in [Queries -> Nat] /\ ui.killing \subseteq Queries
      /\ connected \in BOOLEAN /\ ui.live \in BOOLEAN /\ Running!KillingIsUnderWay
    BY DEF RunningInv
<1>2. connected' = connected
    BY DEF Running!HandleKill, Running!KillEnds
<1>3. CASE Running!HandleKill(q)
    <2>1. /\ DOMAIN ui' = RunningFields /\ ui'.live = ui.live /\ ui'.loading = ui.loading
          /\ ui'.killing = ui.killing \union {q}
        BY <1>1, <1>3 DEF Running!HandleKill, RunningFields
    <2>2. /\ DOMAIN req' = DOMAIN req /\ req'.load = req.load
          /\ req'.kills = [req.kills EXCEPT ![q] = @ + 1]
        BY <1>1, <1>3 DEF Running!HandleKill
    <2>3. /\ req'.kills \in [Queries -> Nat]
          /\ \A k \in ui'.killing : req'.kills[k] > 0
        BY <1>1, <2>1, <2>2 DEF Running!KillingIsUnderWay
    <2>. QED  BY <1>1, <1>2, <2>1, <2>2, <2>3, RunningInvBut DEF Running!KillingIsUnderWay
<1>4. CASE Running!KillEnds(q)
    <2>1. /\ DOMAIN ui' = RunningFields /\ ui'.live = ui.live /\ ui'.loading = ui.loading
          /\ ui'.killing = ui.killing \ {q}
        BY <1>1, <1>4 DEF Running!KillEnds, Running!Killed, RunningFields
    <2>2. /\ DOMAIN req' = DOMAIN req /\ req'.load = req.load
          /\ req'.kills = [req.kills EXCEPT ![q] = @ - 1] /\ req.kills[q] > 0
        BY <1>1, <1>4 DEF Running!KillEnds
    <2>3. /\ req'.kills \in [Queries -> Nat]
          /\ \A k \in ui'.killing : req'.kills[k] > 0
        BY <1>1, <2>1, <2>2 DEF Running!KillingIsUnderWay
    <2>. QED  BY <1>1, <1>2, <2>1, <2>2, <2>3, RunningInvBut DEF Running!KillingIsUnderWay
<1>. QED  BY <1>3, <1>4

LEMMA RunningRestInv ==
    ASSUME RunningInv,
           \/ Running!SetFilter \/ Running!CancelDialog
           \/ \E q \in Queries : Running!AskKill(q) \/ Running!AskKillUser(q)
           \/ \E u \in Running!Submitters : Running!HandleKillByUser(u) \/ Running!KillByUserEnds(u)
    PROVE  RunningInv'
<1>1. /\ DOMAIN ui = RunningFields /\ DOMAIN req = {"load", "kills", "userKills"}
      /\ connected \in BOOLEAN /\ ui.live \in BOOLEAN /\ req.kills \in [Queries -> Nat]
      /\ ui.killing \subseteq Queries /\ Running!KillingIsUnderWay
    BY DEF RunningInv
<1>2. /\ DOMAIN ui' = RunningFields /\ ui'.live = ui.live /\ ui'.loading = ui.loading
      /\ ui'.killing = ui.killing
    BY <1>1 DEF Running!SetFilter, Running!CancelDialog, Running!AskKill, Running!AskKillUser,
        Running!HandleKillByUser, Running!KillByUserEnds, RunningFields
<1>3. /\ DOMAIN req' = DOMAIN req /\ req'.load = req.load /\ req'.kills = req.kills
      /\ connected' = connected
    BY <1>1 DEF Running!SetFilter, Running!CancelDialog, Running!AskKill, Running!AskKillUser,
        Running!HandleKillByUser, Running!KillByUserEnds
<1>. QED  BY <1>1, <1>2, <1>3, RunningInvBut DEF Running!KillingIsUnderWay

LEMMA RunningStepInv ==
    ASSUME RunningInv, Running!Next PROVE RunningInv'
BY RunningLoadsInv, RunningKillsInv, RunningRestInv DEF Running!Next

-----------------------------------------------------------------------------
(* A query's details                                                       *)

\* What the effect of the tab adds, besides a request, to a spinner of its own.
LEMMA DetailOpened ==
    ASSUME NEW u, DOMAIN u = DetailFields, u.flameLoading \in BOOLEAN
    PROVE  /\ DOMAIN Detail!Opened(u) = DetailFields /\ Detail!Opened(u).flameLoading \in BOOLEAN
           /\ Detail!Opened(u).loading = u.loading
           /\ Detail!Opened(u).flameLoading =>
                u.flameLoading \/ \E r \in Detail!Lacking(u) : r.what = "flame"
<1>1. CASE Detail!LacksTraces(u)
    <2>1. Detail!Opened(u) = [u EXCEPT !.flameLoading = TRUE] /\ Detail!Lacking(u) = {Detail!AnyTrace(u.id)}
        BY <1>1 DEF Detail!Opened, Detail!Lacking
    <2>2. Detail!AnyTrace(u.id).what = "flame"
        BY DEF Detail!AnyTrace
    <2>. QED  BY <2>1, <2>2 DEF DetailFields
<1>2. CASE ~ Detail!LacksTraces(u) /\ Detail!LacksPlan(u)
    <2>1. Detail!Opened(u) = [u EXCEPT !.explainError = FALSE]
        BY <1>2 DEF Detail!Opened
    <2>. QED  BY <2>1 DEF DetailFields
<1>3. CASE ~ Detail!LacksTraces(u) /\ ~ Detail!LacksPlan(u)
    <2>1. Detail!Opened(u) = u
        BY <1>3 DEF Detail!Opened
    <2>. QED  BY <2>1
<1>. QED  BY <1>1, <1>2, <1>3

LEMMA DetailTabEffect ==
    ASSUME NEW u, DOMAIN u = DetailFields, u.flameLoading \in BOOLEAN, NEW reqs,
           Detail!TabEffect(u, reqs)
    PROVE  /\ DOMAIN ui' = DetailFields /\ ui'.flameLoading \in BOOLEAN
           /\ ui'.loading = u.loading /\ reqs \subseteq req'
           /\ ui'.flameLoading => u.flameLoading \/ \E r \in req' : r.what = "flame"
BY DetailOpened DEF Detail!TabEffect

LEMMA DetailInitInv ==
    ASSUME Detail!Init PROVE DetailInv
<1>1. PICK id \in Ids, tab \in Detail!Tabs :
        ui = Detail!Opened(Detail!Blank(id, tab)) /\ req = Detail!Lacking(Detail!Blank(id, tab))
    BY DEF Detail!Init
<1> DEFINE u == Detail!Blank(id, tab)
<1>2. connected = FALSE
    BY DEF Detail!Init
<1>3. DOMAIN u = DetailFields /\ u.flameLoading = FALSE /\ u.loading = TRUE
    BY DEF Detail!Blank, DetailFields
<1>4. ui = Detail!Opened(u) /\ req = Detail!Lacking(u)
    BY <1>1
<1>. HIDE DEF u
<1>. QED  BY <1>2, <1>3, <1>4, DetailOpened DEF DetailInv, Detail!SpinnersEnd

\* A step that keeps the spinners' requests, or ends a spinner.
LEMMA DetailInvBut ==
    ASSUME DetailInv, DOMAIN ui' = DetailFields,
           ui'.loading \in BOOLEAN, ui'.flameLoading \in BOOLEAN,
           connected' /\ ui'.loading => \E r \in req' : r.what = "load",
           ui'.flameLoading => \E r \in req' : r.what = "flame"
    PROVE  DetailInv'
BY DEF DetailInv, Detail!SpinnersEnd

LEMMA DetailConnectInv ==
    ASSUME DetailInv, Detail!Connect \/ Detail!Disconnect PROVE DetailInv'
<1>1. \A r \in req : r.what = "flame" => r \in req'
    BY DEF Detail!Connect, Detail!Disconnect, Detail!Unloaded
<1>2. /\ DOMAIN ui' = DetailFields /\ ui'.loading \in BOOLEAN
      /\ ui'.flameLoading = ui.flameLoading /\ ui.flameLoading \in BOOLEAN
    BY DEF Detail!Connect, Detail!Disconnect, Detail!Starting, DetailInv, DetailFields
<1>3. connected' => \E r \in req' : r.what = "load"
    <2>1. CASE Detail!Connect
        <3>1. Detail!EffectLoad(ui.id) \in req' /\ Detail!EffectLoad(ui.id).what = "load"
            BY <2>1 DEF Detail!Connect, Detail!EffectLoad
        <3>. QED  BY <3>1
    <2>2. CASE Detail!Disconnect
        BY <2>2 DEF Detail!Disconnect
    <2>. QED  BY <2>1, <2>2
<1>4. ui'.flameLoading => \E r \in req' : r.what = "flame"
    BY <1>1, <1>2 DEF DetailInv, Detail!SpinnersEnd
<1>. QED  BY <1>2, <1>3, <1>4, DetailInvBut

LEMMA DetailGoToInv ==
    ASSUME DetailInv, NEW id \in Ids, Detail!GoTo(id) PROVE DetailInv'
<1> DEFINE u == IF connected THEN [Detail!Starting(ui) EXCEPT !.id = id] ELSE [ui EXCEPT !.id = id]
           reqs == IF connected THEN Detail!Unloaded \union {Detail!EffectLoad(id)}
                   ELSE Detail!Unloaded
<1>1. Detail!TabEffect(u, reqs) /\ connected' = connected
    BY DEF Detail!GoTo
<1>2. /\ DOMAIN u = DetailFields /\ u.flameLoading \in BOOLEAN /\ u.loading \in BOOLEAN
      /\ u.flameLoading = ui.flameLoading
    BY DEF DetailInv, DetailFields, Detail!Starting
<1>3. \A r \in req : r.what = "flame" => r \in reqs
    BY DEF Detail!Unloaded
<1>4. connected => \E r \in reqs : r.what = "load"
    <2>1. Detail!EffectLoad(id).what = "load"
        BY DEF Detail!EffectLoad
    <2>. QED  BY <2>1
<1>. HIDE DEF u, reqs
<1>5. /\ DOMAIN ui' = DetailFields /\ ui'.flameLoading \in BOOLEAN
      /\ ui'.loading = u.loading
      /\ reqs \subseteq req'
      /\ ui'.flameLoading => u.flameLoading \/ \E r \in req' : r.what = "flame"
    BY <1>1, <1>2, DetailTabEffect
<1>6. ui'.flameLoading => \E r \in req' : r.what = "flame"
    BY <1>2, <1>3, <1>5 DEF DetailInv, Detail!SpinnersEnd
<1>7. connected' => \E r \in req' : r.what = "load"
    BY <1>1, <1>4, <1>5
<1>. QED  BY <1>2, <1>5, <1>6, <1>7, DetailInvBut

LEMMA DetailSelectTabInv ==
    ASSUME DetailInv, NEW tab, Detail!SelectTab(tab) PROVE DetailInv'
<1>1. connected' = connected /\ DOMAIN ui = DetailFields /\ ui.loading \in BOOLEAN
      /\ ui.flameLoading \in BOOLEAN
    BY DEF Detail!SelectTab, DetailInv
<1>2. CASE tab = "flamegraph" /\ ui.flame = {}
    <2>1. /\ ui' = [ui EXCEPT !.tab = tab, !.flameLoading = TRUE]
          /\ req' = req \union {Detail!AnyTrace(ui.id)}
        BY <1>2 DEF Detail!SelectTab
    <2>2. /\ DOMAIN ui' = DetailFields /\ ui'.loading = ui.loading /\ ui'.flameLoading = TRUE
        BY <1>1, <2>1 DEF DetailFields
    <2>3. Detail!AnyTrace(ui.id) \in req' /\ Detail!AnyTrace(ui.id).what = "flame"
        BY <2>1 DEF Detail!AnyTrace
    <2>4. connected' /\ ui'.loading => \E r \in req' : r.what = "load"
        BY <1>1, <2>1, <2>2 DEF DetailInv, Detail!SpinnersEnd
    <2>. QED  BY <1>1, <2>2, <2>3, <2>4, DetailInvBut
<1>3. CASE ~ (tab = "flamegraph" /\ ui.flame = {})
    <2> DEFINE u == [ui EXCEPT !.tab = tab]
    <2>1. Detail!TabEffect(u, req)
        BY <1>3 DEF Detail!SelectTab
    <2>2. /\ DOMAIN u = DetailFields /\ u.flameLoading = ui.flameLoading
          /\ u.loading = ui.loading
        BY <1>1 DEF DetailFields
    <2>. HIDE DEF u
    <2>3. /\ DOMAIN ui' = DetailFields /\ ui'.flameLoading \in BOOLEAN
          /\ ui'.loading = ui.loading /\ req \subseteq req'
          /\ ui'.flameLoading => ui.flameLoading \/ \E r \in req' : r.what = "flame"
        BY <1>1, <2>1, <2>2, DetailTabEffect
    <2>4. connected' /\ ui'.loading => \E r \in req' : r.what = "load"
        BY <1>1, <2>3 DEF DetailInv, Detail!SpinnersEnd
    <2>5. ui'.flameLoading => \E r \in req' : r.what = "flame"
        BY <2>3 DEF DetailInv, Detail!SpinnersEnd
    <2>. QED  BY <1>1, <2>3, <2>4, <2>5, DetailInvBut
<1>. QED  BY <1>2, <1>3

\* Another request, with or without its spinner.
LEMMA DetailAsksInv ==
    ASSUME DetailInv,
           Detail!Retry \/ Detail!LoadExplain
             \/ \E type \in TraceTypes : Detail!LoadFlameGraphWithType(type)
    PROVE  DetailInv'
<1>1. /\ DOMAIN ui = DetailFields /\ ui.loading \in BOOLEAN /\ ui.flameLoading \in BOOLEAN
      /\ Detail!SpinnersEnd
    BY DEF DetailInv
<1>2. connected' = connected /\ req \subseteq req'
    BY DEF Detail!Retry, Detail!LoadExplain, Detail!LoadFlameGraphWithType
<1>3. CASE Detail!Retry
    <2>1. /\ DOMAIN ui' = DetailFields /\ ui'.loading = TRUE /\ ui'.flameLoading = ui.flameLoading
        BY <1>1, <1>3 DEF Detail!Retry, Detail!Starting, DetailFields
    <2>2. Detail!RetriedLoad(ui.id) \in req' /\ Detail!RetriedLoad(ui.id).what = "load"
        BY <1>3 DEF Detail!Retry, Detail!RetriedLoad
    <2>. QED  BY <1>1, <1>2, <2>1, <2>2, DetailInvBut DEF Detail!SpinnersEnd
<1>4. CASE Detail!LoadExplain
    <2>1. /\ DOMAIN ui' = DetailFields /\ ui'.loading = ui.loading
          /\ ui'.flameLoading = ui.flameLoading
        BY <1>1, <1>4 DEF Detail!LoadExplain, DetailFields
    <2>. QED  BY <1>1, <1>2, <2>1, DetailInvBut DEF Detail!SpinnersEnd
<1>5. ASSUME NEW type \in TraceTypes, Detail!LoadFlameGraphWithType(type) PROVE DetailInv'
    <2>1. /\ DOMAIN ui' = DetailFields /\ ui'.loading = ui.loading /\ ui'.flameLoading = TRUE
        BY <1>1, <1>5 DEF Detail!LoadFlameGraphWithType, DetailFields
    <2>2. Detail!Trace(ui.id, type) \in req' /\ Detail!Trace(ui.id, type).what = "flame"
        BY <1>5 DEF Detail!LoadFlameGraphWithType, Detail!Trace
    <2>. QED  BY <1>1, <1>2, <2>1, <2>2, DetailInvBut DEF Detail!SpinnersEnd
<1>. QED  BY <1>3, <1>4, <1>5

\* An answer ends the spinner of its kind, and takes no request of the other.
LEMMA DetailAnswersInv ==
    ASSUME DetailInv, NEW r \in req,
           Detail!Loaded(r) \/ Detail!LoadFails(r) \/ Detail!Explained(r) \/ Detail!FlameArrives(r)
    PROVE  DetailInv'
<1>1. /\ DOMAIN ui = DetailFields /\ ui.loading \in BOOLEAN /\ ui.flameLoading \in BOOLEAN
      /\ Detail!SpinnersEnd
    BY DEF DetailInv
<1>2. connected' = connected /\ req' = req \ {r}
    BY DEF Detail!Loaded, Detail!LoadFails, Detail!Explained, Detail!FlameArrives
<1>3. CASE Detail!Loaded(r) \/ Detail!LoadFails(r)
    <2>1. /\ DOMAIN ui' = DetailFields /\ ui'.loading = FALSE
          /\ ui'.flameLoading = ui.flameLoading
        <3>1. CASE Detail!LoadFails(r)
            BY <1>1, <3>1 DEF Detail!LoadFails, DetailFields
        <3>2. CASE Detail!Loaded(r)
            <4>1. PICK failed \in BOOLEAN :
                    ui' = [ui EXCEPT !.shown = {r.of}, !.sideError = failed,
                                     !.loading = FALSE, !.initial = FALSE]
                BY <3>2 DEF Detail!Loaded
            <4>. QED  BY <1>1, <4>1 DEF DetailFields
        <3>. QED  BY <1>3, <3>1, <3>2
    <2>2. r.what = "load"
        BY <1>3 DEF Detail!Loaded, Detail!LoadFails
    <2>3. ui'.flameLoading => \E q \in req' : q.what = "flame"
        BY <1>1, <1>2, <2>1, <2>2 DEF Detail!SpinnersEnd
    <2>. QED  BY <1>1, <1>2, <2>1, <2>3, DetailInvBut
<1>4. CASE Detail!Explained(r)
    <2>1. /\ DOMAIN ui' = DetailFields /\ ui'.loading = ui.loading
          /\ ui'.flameLoading = ui.flameLoading
        BY <1>1, <1>4 DEF Detail!Explained, DetailFields
    <2>2. r.what = "explain"
        BY <1>4 DEF Detail!Explained
    <2>. QED  BY <1>1, <1>2, <2>1, <2>2, DetailInvBut DEF Detail!SpinnersEnd
<1>5. CASE Detail!FlameArrives(r)
    <2>1. /\ DOMAIN ui' = DetailFields /\ ui'.loading = ui.loading
          /\ ui'.flameLoading = FALSE
        BY <1>1, <1>5 DEF Detail!FlameArrives, Detail!Flamed, DetailFields
    <2>2. r.what = "flame"
        BY <1>5 DEF Detail!FlameArrives
    <2>. QED  BY <1>1, <1>2, <2>1, <2>2, DetailInvBut DEF Detail!SpinnersEnd
<1>. QED  BY <1>3, <1>4, <1>5

LEMMA DetailStepInv ==
    ASSUME DetailInv, Detail!Next PROVE DetailInv'
BY DetailConnectInv, DetailGoToInv, DetailSelectTabInv, DetailAsksInv, DetailAnswersInv
   DEF Detail!Next

-----------------------------------------------------------------------------
(* The comparison                                                          *)

LEMMA CompareInitInv ==
    ASSUME Compare!Init PROVE CompareInv
<1>1. PICK pair \in Compare!Pairs, linked \in BOOLEAN :
         ui = [url |-> {p \in {pair} : linked}, boxes |-> {p \in {pair} : linked},
               loading |-> FALSE, error |-> FALSE, shown |-> {}, tab |-> "metrics",
               plans |-> [s \in Compare!Sides |-> Compare!Loading], cache |-> {}]
    BY DEF Compare!Init
<1>2. req = {}
    BY DEF Compare!Init
<1>3. /\ DOMAIN ui = CompareFields /\ ui.loading = FALSE /\ ui.shown = {} /\ ui.tab = "metrics"
      /\ DOMAIN ui.plans = Compare!Sides
    BY <1>1 DEF CompareFields
<1>. QED
    BY <1>2, <1>3 DEF CompareInv, PlanRequests, Compare!PlansAreOwn, PlansLoad, ComparisonLoads

\* A step that leaves the plans' tab, its pair and its requests as they are.
LEMMA ComparePlansAlone ==
    ASSUME CompareInv, DOMAIN ui' = CompareFields, ui'.plans = ui.plans, ui'.tab = ui.tab,
           ui'.shown = ui.shown, \A r : r.what = "plan" => (r \in req' <=> r \in req),
           ui'.loading \in BOOLEAN, ComparisonLoads'
    PROVE  CompareInv'
BY DEF CompareInv, PlanRequests, Compare!PlansAreOwn, PlansLoad

\* A step after which no tab of plans is open.
LEMMA CompareMetrics ==
    ASSUME CompareInv, DOMAIN ui' = CompareFields, ui'.plans = ui.plans, ui'.tab = "metrics",
           ui'.shown = ui.shown, \A r \in req' : r.what # "plan",
           ui'.loading \in BOOLEAN, ComparisonLoads'
    PROVE  CompareInv'
BY DEF CompareInv, PlanRequests, Compare!PlansAreOwn, PlansLoad

LEMMA IsComparison ==
    ASSUME NEW pair, NEW signalled
    PROVE  Compare!Comparison(pair, signalled).what = "compare"
BY DEF Compare!Comparison

\* A load that the cleanup aborts may end the spinner of the next; a load
\* that nobody aborts goes on.
LEMMA CompareUrlEffectInv ==
    ASSUME CompareInv, NEW u, NEW on, Compare!UrlEffect(u, on), DOMAIN u = CompareFields,
           u.loading = ui.loading, u.plans = ui.plans, u.tab = ui.tab, u.shown = ui.shown
    PROVE  CompareInv'
<1> DEFINE starts == {Compare!Comparison(pair, TRUE) : pair \in {p \in u.url : on}}
           v == IF starts = {} THEN u ELSE [Compare!Comparing(u) EXCEPT !.boxes = u.url]
<1>1. /\ ui' = [v EXCEPT !.loading = @ /\ Compare!Signalled = {}]
      /\ req' = (req \ Compare!Signalled) \union starts
    BY DEF Compare!UrlEffect
<1>2. \A r \in starts : r.what = "compare"
    BY IsComparison
<1>3. /\ DOMAIN v = CompareFields /\ v.plans = ui.plans /\ v.tab = ui.tab /\ v.shown = ui.shown
      /\ v.loading \in BOOLEAN /\ (starts = {} => v.loading = ui.loading)
    BY DEF CompareFields, Compare!Comparing, CompareInv
<1>. HIDE DEF starts, v
<1>4. /\ DOMAIN ui' = CompareFields /\ ui'.plans = ui.plans /\ ui'.tab = ui.tab
      /\ ui'.shown = ui.shown /\ ui'.loading = (v.loading /\ Compare!Signalled = {})
    BY <1>1, <1>3 DEF CompareFields
<1>5. \A r : r.what = "plan" => (r \in req' <=> r \in req)
    BY <1>1, <1>2 DEF Compare!Signalled, Compare!Comparisons
<1>6. ComparisonLoads'
    <2>1. CASE starts = {}
        BY <1>1, <1>3, <1>4, <2>1 DEF CompareInv, ComparisonLoads, Compare!Comparisons
    <2>2. CASE starts # {}
        BY <1>1, <1>2, <2>2 DEF ComparisonLoads, Compare!Comparisons
    <2>. QED  BY <2>1, <2>2
<1>. QED  BY <1>4, <1>5, <1>6, ComparePlansAlone

LEMMA CompareUrlsInv ==
    ASSUME CompareInv,
           Compare!Connect \/ Compare!Swap \/ \E pair \in Compare!Pairs : Compare!Visit(pair)
    PROVE  CompareInv'
<1>1. DOMAIN ui = CompareFields
    BY DEF CompareInv
<1>2. CASE Compare!Connect
    BY <1>1, <1>2, CompareUrlEffectInv DEF Compare!Connect
<1>3. CASE Compare!Swap
    <2>1. PICK q : Compare!UrlEffect([ui EXCEPT !.boxes = q, !.url = q], TRUE)
        BY <1>3 DEF Compare!Swap
    <2>. QED  BY <1>1, <2>1, CompareUrlEffectInv DEF CompareFields
<1>4. ASSUME NEW pair \in Compare!Pairs, Compare!Visit(pair) PROVE CompareInv'
    BY <1>1, <1>4, CompareUrlEffectInv DEF Compare!Visit, CompareFields
<1>. QED  BY <1>2, <1>3, <1>4

LEMMA CompareButtonsInv ==
    ASSUME CompareInv,
           Compare!Compare \/ Compare!Retry \/ \E pair \in Compare!Pairs : Compare!Type(pair)
    PROVE  CompareInv'
<1>1. DOMAIN ui = CompareFields /\ ui.loading \in BOOLEAN /\ ComparisonLoads
    BY DEF CompareInv
<1> DEFINE own == {Compare!Comparison(p, FALSE) : p \in ui.boxes}
           linked == {Compare!Comparison(p, TRUE) : p \in ui.boxes}
<1>2. \A r \in own \union linked : r.what = "compare"
    BY IsComparison
<1>3. CASE Compare!Compare \/ Compare!Retry
    <2>1. ui.boxes # {}
        BY <1>3 DEF Compare!Compare, Compare!Retry
    <2>2. own # {}
        BY <2>1
    <2>3. /\ DOMAIN ui' = CompareFields /\ ui'.plans = ui.plans /\ ui'.tab = ui.tab
          /\ ui'.shown = ui.shown /\ ui'.loading \in BOOLEAN
        BY <1>1, <1>3 DEF Compare!Compare, Compare!Retry, Compare!Comparing, CompareFields
    <2>4. \/ req' = req \union own
          \/ req' = (req \ Compare!Signalled) \union own \union linked
        BY <1>3 DEF Compare!Compare, Compare!Retry
    <2>. HIDE DEF own, linked
    <2>5. own \subseteq req' /\ \A r : r.what = "plan" => (r \in req' <=> r \in req)
        BY <1>2, <2>4 DEF Compare!Signalled, Compare!Comparisons
    <2>6. ComparisonLoads'
        BY <1>2, <2>2, <2>5 DEF ComparisonLoads, Compare!Comparisons
    <2>. QED  BY <2>3, <2>5, <2>6, ComparePlansAlone
<1>4. ASSUME NEW pair \in Compare!Pairs, Compare!Type(pair) PROVE CompareInv'
    <2>1. /\ DOMAIN ui' = CompareFields /\ ui'.plans = ui.plans /\ ui'.tab = ui.tab
          /\ ui'.shown = ui.shown /\ ui'.loading = ui.loading /\ req' = req
        BY <1>1, <1>4 DEF Compare!Type, CompareFields
    <2>2. ComparisonLoads'
        BY <1>1, <2>1 DEF ComparisonLoads, Compare!Comparisons
    <2>. QED  BY <1>1, <2>1, <2>2, ComparePlansAlone
<1>. QED  BY <1>3, <1>4

\* The plans are fetched anew: each that is not cached has its request, and
\* none of the pair before has one.
LEMMA ComparePlanEffectInv ==
    ASSUME CompareInv, NEW u, DOMAIN u = CompareFields, u.loading \in BOOLEAN, u.tab = "plans",
           NEW pair \in u.shown, \A p, q \in u.shown : p = q,
           NEW reqs, \A r \in reqs : r.what # "plan",
           u.loading => \E r \in reqs : r.what = "compare",
           Compare!PlanEffect(u, pair, reqs)
    PROVE  CompareInv'
<1> DEFINE plans == [s \in Compare!Sides |->
                        IF pair[s] \in u.cache THEN [state |-> "ready", of |-> {pair[s]}]
                        ELSE Compare!Loading]
           asked == {Compare!Plan(s, pair[s]) : s \in {t \in Compare!Sides : pair[t] \notin u.cache}}
<1>1. ui' = [u EXCEPT !.plans = plans] /\ req' = reqs \union asked
    BY DEF Compare!PlanEffect
<1>2. \A r \in asked : r.what = "plan" /\ r.side \in Compare!Sides /\ r.of = pair[r.side]
    BY DEF Compare!Plan
<1>3. \A s \in Compare!Sides : plans[s].state = "loading" => \E r \in asked : r.side = s
    <2>1. SUFFICES ASSUME NEW s \in Compare!Sides, plans[s].state = "loading"
                   PROVE  \E r \in asked : r.side = s
        OBVIOUS
    <2>2. pair[s] \notin u.cache
        BY <2>1
    <2>3. Compare!Plan(s, pair[s]) \in asked /\ Compare!Plan(s, pair[s]).side = s
        BY <2>2 DEF Compare!Plan
    <2>. QED  BY <2>3
<1>4. \A s \in Compare!Sides : plans[s].state # "loading" => plans[s].of = {pair[s]}
    BY DEF Compare!Loading
<1>5. DOMAIN plans = Compare!Sides
    OBVIOUS
<1>. HIDE DEF plans, asked
<1>6. /\ DOMAIN ui' = CompareFields /\ ui'.plans = plans /\ ui'.tab = "plans"
      /\ ui'.shown = u.shown /\ ui'.loading = u.loading
    BY <1>1 DEF CompareFields
<1>7. \A p \in ui'.shown : p = pair
    BY <1>6
<1>8. PlanRequests'
    BY <1>1, <1>2, <1>6, <1>7 DEF PlanRequests
<1>9. Compare!PlansAreOwn'
    BY <1>4, <1>6, <1>7 DEF Compare!PlansAreOwn
<1>10. PlansLoad'
    BY <1>1, <1>2, <1>3, <1>6 DEF PlansLoad
<1>11. ComparisonLoads'
    BY <1>1, <1>6 DEF ComparisonLoads, Compare!Comparisons
<1>12. /\ DOMAIN ui' = CompareFields /\ ui'.loading \in BOOLEAN /\ DOMAIN ui'.plans = Compare!Sides
       /\ \A p, q \in ui'.shown : p = q
    BY <1>5, <1>6
<1>. QED  BY <1>8, <1>9, <1>10, <1>11, <1>12 DEF CompareInv

LEMMA CompareAnswersInv ==
    ASSUME CompareInv, NEW r \in req, Compare!Compared(r) \/ Compare!CompareFails(r)
    PROVE  CompareInv'
<1>1. r.what = "compare" /\ DOMAIN ui = CompareFields
    BY DEF Compare!Compared, Compare!CompareFails, CompareInv
<1>2. CASE Compare!CompareFails(r)
    <2>1. /\ DOMAIN ui' = CompareFields /\ ui'.plans = ui.plans /\ ui'.tab = ui.tab
          /\ ui'.shown = ui.shown /\ ui'.loading = FALSE /\ req' = req \ {r}
        BY <1>1, <1>2 DEF Compare!CompareFails, CompareFields
    <2>2. ComparisonLoads'
        BY <2>1 DEF ComparisonLoads
    <2>3. \A q : q.what = "plan" => (q \in req' <=> q \in req)
        BY <1>1, <2>1
    <2>. QED  BY <2>1, <2>2, <2>3, ComparePlansAlone
<1>3. CASE Compare!Compared(r)
    <2> DEFINE u == [ui EXCEPT !.loading = FALSE]
               next == [u EXCEPT !.shown = {r.pair}]
    <2>1. /\ DOMAIN next = CompareFields /\ next.loading = FALSE /\ next.tab = ui.tab
          /\ next.plans = ui.plans /\ next.shown = {r.pair}
          /\ u.shown = ui.shown /\ u.tab = ui.tab
        BY <1>1 DEF CompareFields
    <2>2. IF u.tab = "plans" /\ u.shown # {r.pair}
          THEN Compare!PlanEffect(next, r.pair, Compare!PlansDropped \ {r})
          ELSE ui' = next /\ req' = req \ {r}
        BY <1>3 DEF Compare!Compared, Compare!ShowPair
    <2>. HIDE DEF u, next
    <2>3. CASE u.tab = "plans" /\ u.shown # {r.pair}
        <3>1. \A q \in Compare!PlansDropped \ {r} : q.what # "plan"
            BY DEF Compare!PlansDropped
        <3>. QED  BY <2>1, <2>2, <2>3, <3>1, ComparePlanEffectInv
    <2>4. CASE ~ (u.tab = "plans" /\ u.shown # {r.pair})
        <3>1. ui' = next /\ req' = req \ {r}
            BY <2>2, <2>4
        <3>2. \A q : q.what = "plan" => (q \in req' <=> q \in req)
            BY <1>1, <3>1
        <3>3. ComparisonLoads'
            BY <2>1, <3>1 DEF ComparisonLoads
        <3>4. ui.tab = "plans" => ui'.shown = ui.shown
            BY <2>1, <2>4, <3>1
        <3>5. \A p, q \in ui'.shown : p = q
            BY <2>1, <3>1
        <3>6. PlanRequests' /\ Compare!PlansAreOwn' /\ PlansLoad'
            BY <2>1, <3>1, <3>2, <3>4 DEF CompareInv, PlanRequests, Compare!PlansAreOwn, PlansLoad
        <3>. QED  BY <2>1, <3>1, <3>3, <3>5, <3>6 DEF CompareInv
    <2>. QED  BY <2>3, <2>4
<1>. QED  BY <1>2, <1>3

LEMMA CompareLeavesInv ==
    ASSUME CompareInv, Compare!Disconnect \/ Compare!LeavePlans
    PROVE  CompareInv'
<1>1. DOMAIN ui = CompareFields /\ ui.loading \in BOOLEAN /\ ComparisonLoads
    BY DEF CompareInv
<1>2. CASE Compare!Disconnect
    <2>1. /\ DOMAIN ui' = CompareFields /\ ui'.plans = ui.plans /\ ui'.tab = "metrics"
          /\ ui'.shown = ui.shown /\ ui'.loading = (ui.loading /\ Compare!Signalled = {})
          /\ req' = {r \in req : r.what = "compare" /\ ~ r.signalled}
        BY <1>1, <1>2 DEF Compare!Disconnect, CompareFields
    <2>2. \A r \in req' : r.what # "plan"
        BY <2>1
    <2>3. ComparisonLoads'
        BY <1>1, <2>1 DEF ComparisonLoads, Compare!Signalled, Compare!Comparisons
    <2>. QED  BY <2>1, <2>2, <2>3, CompareMetrics
<1>3. CASE Compare!LeavePlans
    <2>1. /\ DOMAIN ui' = CompareFields /\ ui'.plans = ui.plans /\ ui'.tab = "metrics"
          /\ ui'.shown = ui.shown /\ ui'.loading = ui.loading
          /\ req' = {r \in req : r.what # "plan"}
        BY <1>1, <1>3 DEF Compare!LeavePlans, Compare!PlansDropped, CompareFields
    <2>2. ComparisonLoads'
        BY <1>1, <2>1 DEF ComparisonLoads, Compare!Comparisons
    <2>. QED  BY <1>1, <2>1, <2>2, CompareMetrics
<1>. QED  BY <1>2, <1>3

LEMMA CompareOpensInv ==
    ASSUME CompareInv, Compare!OpenPlans
    PROVE  CompareInv'
<1>1. PICK pair \in ui.shown : Compare!PlanEffect([ui EXCEPT !.tab = "plans"], pair, req)
    BY DEF Compare!OpenPlans
<1>2. DOMAIN ui = CompareFields /\ ui.loading \in BOOLEAN /\ ComparisonLoads
      /\ \A p, q \in ui.shown : p = q
    BY DEF CompareInv
<1>3. \A r \in req : r.what # "plan"
    BY DEF CompareInv, PlanRequests, Compare!OpenPlans
<1> DEFINE u == [ui EXCEPT !.tab = "plans"]
<1>4. DOMAIN u = CompareFields /\ u.loading = ui.loading /\ u.tab = "plans" /\ u.shown = ui.shown
    BY <1>2 DEF CompareFields
<1>5. Compare!PlanEffect(u, pair, req)
    BY <1>1
<1>6. ui.loading => \E r \in req : r.what = "compare"
    BY <1>2 DEF ComparisonLoads, Compare!Comparisons
<1>. HIDE DEF u
<1>. QED  BY <1>2, <1>3, <1>4, <1>5, <1>6, ComparePlanEffectInv

LEMMA ComparePlannedInv ==
    ASSUME CompareInv, NEW r \in req, Compare!Planned(r)
    PROVE  CompareInv'
<1>1. /\ DOMAIN ui = CompareFields /\ ui.loading \in BOOLEAN /\ DOMAIN ui.plans = Compare!Sides
      /\ \A p, q \in ui.shown : p = q
    BY DEF CompareInv
<1>2. r.what = "plan" /\ req' = req \ {r}
    BY DEF Compare!Planned
<1>3. r.side \in Compare!Sides /\ \A pair \in ui.shown : r.of = pair[r.side]
    BY <1>2 DEF CompareInv, PlanRequests
<1>4. PICK state \in {"ready", "failed"} :
        ui'.plans = [ui.plans EXCEPT ![r.side] = [state |-> state, of |-> {r.of}]]
    BY <1>1 DEF Compare!Planned, CompareFields
<1>5. /\ DOMAIN ui' = CompareFields /\ ui'.tab = ui.tab /\ ui'.shown = ui.shown
      /\ ui'.loading = ui.loading
    BY <1>1 DEF Compare!Planned, CompareFields
<1>6. /\ DOMAIN ui'.plans = Compare!Sides
      /\ ui'.plans[r.side].state = state /\ ui'.plans[r.side].of = {r.of}
      /\ \A s \in Compare!Sides \ {r.side} : ui'.plans[s] = ui.plans[s]
    BY <1>1, <1>3, <1>4
<1>7. PlanRequests'
    BY <1>2, <1>5 DEF CompareInv, PlanRequests
<1>8. Compare!PlansAreOwn'
    BY <1>3, <1>5, <1>6 DEF CompareInv, Compare!PlansAreOwn
<1>9. PlansLoad'
    BY <1>2, <1>5, <1>6 DEF CompareInv, PlansLoad
<1>10. ComparisonLoads'
    BY <1>2, <1>5 DEF CompareInv, ComparisonLoads, Compare!Comparisons
<1>. QED  BY <1>1, <1>5, <1>6, <1>7, <1>8, <1>9, <1>10 DEF CompareInv

LEMMA CompareHolds ==
    ASSUME CompareInv PROVE Compare!PlansAreOwn /\ Compare!SpinnersEnd
BY DEF CompareInv, PlansLoad, ComparisonLoads, Compare!SpinnersEnd

LEMMA CompareStepInv ==
    ASSUME CompareInv, Compare!Next PROVE CompareInv'
BY CompareUrlsInv, CompareButtonsInv, CompareAnswersInv, CompareLeavesInv, CompareOpensInv,
   ComparePlannedInv DEF Compare!Next

-----------------------------------------------------------------------------
(* A fingerprint                                                           *)

LEMMA FingerprintEffects ==
    ASSUME NEW u
    PROVE  /\ \A r \in Fingerprint!Effects(u) :
                /\ r.what = "load" => r.key = Fingerprint!Key(u)
                /\ r.what = "sample" => r.hash = u.hash
           /\ \E r \in Fingerprint!Effects(u) : r.what = "load"
<1> DEFINE load == Fingerprint!Load(Fingerprint!Key(u), TRUE)
           sample == Fingerprint!Sample(u.hash)
<1>1. load \in Fingerprint!Effects(u) /\ Fingerprint!Effects(u) \subseteq {load, sample}
    BY DEF Fingerprint!Effects
<1>2. load.what = "load" /\ load.key = Fingerprint!Key(u)
    BY DEF Fingerprint!Load
<1>3. sample.what = "sample" /\ sample.hash = u.hash
    BY DEF Fingerprint!Sample
<1>. HIDE DEF load, sample
<1>. QED  BY <1>1, <1>2, <1>3

LEMMA FingerprintInitInv ==
    ASSUME Fingerprint!Init PROVE FingerprintInv
<1>1. PICK hash \in Hashes, located \in BOOLEAN : ui = Fingerprint!Blank(hash, located)
    BY DEF Fingerprint!Init
<1>2. /\ DOMAIN ui = FingerprintFields /\ ui.loading = TRUE /\ ui.loadingMore = FALSE
      /\ ui.crashed = FALSE
    BY <1>1 DEF Fingerprint!Blank, FingerprintFields
<1>3. req = IF connected THEN Fingerprint!Effects(ui) ELSE {}
    BY DEF Fingerprint!Init
<1>4. Fingerprint!EffectsAreCurrent /\ (connected => \E r \in req : r.what = "load")
    BY <1>3, FingerprintEffects DEF Fingerprint!EffectsAreCurrent
<1>. QED  BY <1>2, <1>4 DEF FingerprintInv, Fingerprint!SpinnersEnd

\* A step that keeps the effects' requests to what the page now asks.
LEMMA FingerprintInvBut ==
    ASSUME DOMAIN ui' = FingerprintFields, ui'.loading \in BOOLEAN, ui'.loadingMore \in BOOLEAN,
           ui'.crashed \in BOOLEAN,
           Fingerprint!EffectsAreCurrent',
           \/ ui'.crashed
           \/ ~ connected'
           \/ /\ ui'.loading => \E r \in req' : r.what = "load"
              /\ ui'.loadingMore => \E r \in req' : r.what = "more"
    PROVE  FingerprintInv'
BY DEF FingerprintInv, Fingerprint!SpinnersEnd

\* A change of the URL or of the interval cleans up before it asks anew.
LEMMA FingerprintChangesInv ==
    ASSUME FingerprintInv,
           \/ \E i \in Fingerprint!Intervals : Fingerprint!SetInterval(i)
           \/ \E hash \in Hashes : Fingerprint!GoTo(hash)
    PROVE  FingerprintInv'
<1>1. /\ DOMAIN ui = FingerprintFields /\ ui.loadingMore \in BOOLEAN /\ ui.crashed \in BOOLEAN
      /\ Fingerprint!EffectsAreCurrent /\ Fingerprint!SpinnersEnd
    BY DEF FingerprintInv
<1>2. connected /\ ~ ui.crashed /\ connected' = connected
    BY DEF Fingerprint!SetInterval, Fingerprint!GoTo
<1>3. ui.loadingMore => \E r \in Fingerprint!Cleaned : r.what = "more"
    BY <1>1, <1>2 DEF Fingerprint!SpinnersEnd, Fingerprint!Cleaned
<1>4. \A r \in Fingerprint!Cleaned : (r.what = "load" => ~ r.signalled) /\ r.what # "sample"
    BY DEF Fingerprint!Cleaned
<1>5. ASSUME NEW i \in Fingerprint!Intervals, Fingerprint!SetInterval(i) PROVE FingerprintInv'
    <2>1. /\ DOMAIN ui' = FingerprintFields /\ ui'.loading = TRUE
          /\ ui'.loadingMore = ui.loadingMore /\ ui'.crashed = ui.crashed /\ ui'.hash = ui.hash
        BY <1>1, <1>5 DEF Fingerprint!SetInterval, Fingerprint!Starting, FingerprintFields
    <2> DEFINE load == Fingerprint!Load(Fingerprint!Key(ui'), TRUE)
    <2>2. req' = (Fingerprint!Cleaned \union {r \in req : r.what = "sample"}) \union {load}
        BY <1>5 DEF Fingerprint!SetInterval
    <2>3. load.what = "load" /\ load.key = Fingerprint!Key(ui)'
        BY DEF Fingerprint!Load, Fingerprint!Key
    <2>. HIDE DEF load
    <2>4. Fingerprint!EffectsAreCurrent'
        BY <1>1, <1>4, <2>1, <2>2, <2>3 DEF Fingerprint!EffectsAreCurrent
    <2>. QED  BY <1>1, <1>3, <2>1, <2>2, <2>3, <2>4, FingerprintInvBut
<1>6. ASSUME NEW hash \in Hashes, Fingerprint!GoTo(hash) PROVE FingerprintInv'
    <2>1. /\ DOMAIN ui' = FingerprintFields /\ ui'.loading = TRUE
          /\ ui'.loadingMore = ui.loadingMore /\ ui'.crashed = ui.crashed
        BY <1>1, <1>6 DEF Fingerprint!GoTo, Fingerprint!Starting, FingerprintFields
    <2>2. req' = Fingerprint!Cleaned \union Fingerprint!Effects(ui')
        BY <1>6 DEF Fingerprint!GoTo
    <2>3. Fingerprint!Key(ui') = Fingerprint!Key(ui)'
        BY DEF Fingerprint!Key
    <2>4. Fingerprint!EffectsAreCurrent' /\ \E r \in req' : r.what = "load"
        BY <1>4, <2>2, <2>3, FingerprintEffects DEF Fingerprint!EffectsAreCurrent
    <2>. QED  BY <1>1, <1>3, <2>1, <2>2, <2>4, FingerprintInvBut
<1>. QED  BY <1>5, <1>6

LEMMA FingerprintConnectInv ==
    ASSUME FingerprintInv, Fingerprint!Connect PROVE FingerprintInv'
<1>1. /\ DOMAIN ui' = FingerprintFields /\ ui'.crashed = TRUE /\ ui'.loading \in BOOLEAN
      /\ ui'.loadingMore \in BOOLEAN /\ req' = {}
    BY DEF Fingerprint!Connect, FingerprintInv, FingerprintFields
<1>. QED  BY <1>1, FingerprintInvBut DEF Fingerprint!EffectsAreCurrent

LEMMA FingerprintAsksInv ==
    ASSUME FingerprintInv, Fingerprint!Retry \/ Fingerprint!Cancel \/ Fingerprint!LoadMore
    PROVE  FingerprintInv'
<1>1. /\ DOMAIN ui = FingerprintFields /\ ui.loading \in BOOLEAN /\ ui.loadingMore \in BOOLEAN
      /\ ui.crashed \in BOOLEAN /\ Fingerprint!EffectsAreCurrent /\ Fingerprint!SpinnersEnd
    BY DEF FingerprintInv
<1>2. /\ connected' = connected /\ connected /\ ~ ui.crashed
      /\ DOMAIN ui' = FingerprintFields /\ ui'.crashed = ui.crashed
      /\ ui'.hash = ui.hash /\ ui'.interval = ui.interval
    BY <1>1 DEF Fingerprint!Retry, Fingerprint!Cancel, Fingerprint!LoadMore, Fingerprint!Starting,
        Fingerprint!Body, FingerprintFields
<1>3. Fingerprint!Key(ui)' = Fingerprint!Key(ui)
    BY <1>2 DEF Fingerprint!Key
<1>4. CASE Fingerprint!Retry
    <2>1. ui'.loading = TRUE /\ ui'.loadingMore = ui.loadingMore
        BY <1>1, <1>4 DEF Fingerprint!Retry, Fingerprint!Starting, FingerprintFields
    <2> DEFINE load == Fingerprint!Load(Fingerprint!Key(ui), FALSE)
    <2>2. req' = req \union {load}
        BY <1>4 DEF Fingerprint!Retry
    <2>3. load.what = "load" /\ load.signalled = FALSE
        BY DEF Fingerprint!Load
    <2>. HIDE DEF load
    <2>4. Fingerprint!EffectsAreCurrent'
        BY <1>1, <1>2, <1>3, <2>2, <2>3 DEF Fingerprint!EffectsAreCurrent
    <2>. QED  BY <1>1, <1>2, <2>1, <2>2, <2>3, <2>4, FingerprintInvBut DEF Fingerprint!SpinnersEnd
<1>5. CASE Fingerprint!Cancel
    <2>1. /\ ui'.loading = FALSE /\ ui'.loadingMore = ui.loadingMore
          /\ req' = {r \in req : ~ (r.what = "load" /\ r.signalled)}
        BY <1>1, <1>5 DEF Fingerprint!Cancel, FingerprintFields
    <2>2. Fingerprint!EffectsAreCurrent'
        BY <1>1, <1>2, <1>3, <2>1 DEF Fingerprint!EffectsAreCurrent
    <2>. QED  BY <1>1, <1>2, <2>1, <2>2, FingerprintInvBut DEF Fingerprint!SpinnersEnd
<1>6. CASE Fingerprint!LoadMore
    <2>1. /\ ui'.loading = ui.loading /\ ui'.loadingMore = TRUE
          /\ req' = req \union {Fingerprint!More(ui.hash)}
        BY <1>1, <1>6 DEF Fingerprint!LoadMore, FingerprintFields
    <2>2. Fingerprint!More(ui.hash).what = "more"
        BY DEF Fingerprint!More
    <2>3. Fingerprint!EffectsAreCurrent'
        BY <1>1, <1>2, <1>3, <2>1, <2>2 DEF Fingerprint!EffectsAreCurrent
    <2>. QED  BY <1>1, <1>2, <2>1, <2>2, <2>3, FingerprintInvBut DEF Fingerprint!SpinnersEnd
<1>. QED  BY <1>4, <1>5, <1>6

\* An answer takes the one request whose spinner it ends.
LEMMA FingerprintAnswersInv ==
    ASSUME FingerprintInv, NEW r \in req,
           \/ Fingerprint!Loaded(r) \/ Fingerprint!LoadFails(r)
           \/ Fingerprint!MoreArrives(r) \/ Fingerprint!SampleArrives(r)
    PROVE  FingerprintInv'
<1>1. /\ DOMAIN ui = FingerprintFields /\ ui.loading \in BOOLEAN /\ ui.loadingMore \in BOOLEAN
      /\ ui.crashed \in BOOLEAN /\ Fingerprint!EffectsAreCurrent /\ Fingerprint!SpinnersEnd
    BY DEF FingerprintInv
<1>2. req' = req \ {r} /\ connected' = connected
    BY DEF Fingerprint!Loaded, Fingerprint!LoadFails, Fingerprint!MoreArrives,
        Fingerprint!SampleArrives
<1>3. /\ DOMAIN ui' = FingerprintFields /\ ui'.crashed = ui.crashed
      /\ ui'.hash = ui.hash /\ ui'.interval = ui.interval
    BY <1>1 DEF Fingerprint!Loaded, Fingerprint!LoadFails, Fingerprint!MoreArrives,
        Fingerprint!MoreFails, Fingerprint!SampleArrives, FingerprintFields
<1>4. Fingerprint!EffectsAreCurrent'
    BY <1>1, <1>2, <1>3 DEF Fingerprint!EffectsAreCurrent, Fingerprint!Key
<1>5. CASE Fingerprint!Loaded(r) \/ Fingerprint!LoadFails(r)
    <2>1. r.what = "load" /\ ui'.loading = FALSE /\ ui'.loadingMore = ui.loadingMore
        BY <1>1, <1>5 DEF Fingerprint!Loaded, Fingerprint!LoadFails, FingerprintFields
    <2>. QED  BY <1>1, <1>2, <1>3, <1>4, <2>1, FingerprintInvBut DEF Fingerprint!SpinnersEnd
<1>6. CASE Fingerprint!MoreArrives(r)
    <2>1. r.what = "more" /\ ui'.loading = ui.loading /\ ui'.loadingMore = FALSE
        BY <1>1, <1>6 DEF Fingerprint!MoreArrives, Fingerprint!MoreFails, FingerprintFields
    <2>. QED  BY <1>1, <1>2, <1>3, <1>4, <2>1, FingerprintInvBut DEF Fingerprint!SpinnersEnd
<1>7. CASE Fingerprint!SampleArrives(r)
    <2>1. r.what = "sample" /\ ui'.loading = ui.loading /\ ui'.loadingMore = ui.loadingMore
        BY <1>1, <1>7 DEF Fingerprint!SampleArrives, FingerprintFields
    <2>. QED  BY <1>1, <1>2, <1>3, <1>4, <2>1, FingerprintInvBut DEF Fingerprint!SpinnersEnd
<1>. QED  BY <1>5, <1>6, <1>7

LEMMA FingerprintStepInv ==
    ASSUME FingerprintInv, Fingerprint!Next PROVE FingerprintInv'
BY FingerprintChangesInv, FingerprintConnectInv, FingerprintAsksInv, FingerprintAnswersInv
   DEF Fingerprint!Next

-----------------------------------------------------------------------------
(* The schema graph                                                        *)

LEMMA GraphInitInv ==
    ASSUME Graph!Init PROVE GraphInv
<1>1. connected = FALSE /\ ui = Graph!Blank(0) /\ req = {}
    BY DEF Graph!Init
<1>2. /\ DOMAIN ui = GraphFields /\ ui.loading = FALSE /\ ui.error = FALSE
      /\ ui.panel = [columns |-> {}, failed |-> {}]
    BY <1>1 DEF Graph!Blank, Graph!NoPanel, GraphFields
<1>3. DOMAIN ui.panel = {"columns", "failed"} /\ ui.panel.columns = {}
    BY <1>2
<1>4. GraphTypes
    BY <1>2, <1>3 DEF GraphTypes
<1>5. LoadsAreOwn
    BY <1>1 DEF LoadsAreOwn, Graph!SpinnerIsOwn
<1>6. FetchesAreOwn
    BY <1>1, <1>3 DEF FetchesAreOwn
<1>. QED  BY <1>4, <1>5, <1>6 DEF GraphInv

LEMMA GraphLoadWhat ==
    ASSUME NEW key
    PROVE  Graph!GraphLoad(key).what = "graph" /\ Graph!GraphLoad(key).key = key
BY DEF Graph!GraphLoad

\* A load leaves no other, and the fetches it finds.
LEMMA GraphLoadInv ==
    ASSUME NEW u, DOMAIN u = GraphFields, DOMAIN u.panel = {"columns", "failed"},
           u.panel.columns \in {{}, {u.selected}},
           NEW reqs, \A r \in reqs : r.what = "columns" => r.of = u.selected,
           Graph!Load(u, reqs), connected'
    PROVE  GraphInv'
<1> DEFINE load == Graph!GraphLoad(Graph!Key(u))
<1>1. /\ ui' = [u EXCEPT !.loading = TRUE, !.error = FALSE]
      /\ req' = {r \in reqs : r.what # "graph"} \union {load}
    BY DEF Graph!Load, Graph!Loading
<1>2. /\ DOMAIN ui' = GraphFields /\ ui'.loading = TRUE /\ ui'.error = FALSE
      /\ ui'.panel = u.panel /\ ui'.selected = u.selected
      /\ ui'.days = u.days /\ ui'.scope = u.scope
    BY <1>1 DEF GraphFields
<1>3. Graph!Key(u) = Graph!Key(ui)'
    BY <1>2 DEF Graph!Key
<1>4. load.what = "graph" /\ load = Graph!GraphLoad(Graph!Key(ui))'
    BY <1>3, GraphLoadWhat DEF Graph!GraphLoad
<1>. HIDE DEF load
<1>5. GraphTypes'
    BY <1>2 DEF GraphTypes
<1>6. LoadsAreOwn'
    BY <1>1, <1>2, <1>4 DEF LoadsAreOwn, Graph!SpinnerIsOwn, Graph!Graphs
<1>7. FetchesAreOwn'
    BY <1>1, <1>2, <1>4 DEF FetchesAreOwn
<1>. QED  BY <1>5, <1>6, <1>7 DEF GraphInv

\* What is under way for the panel once another table is selected, or none.
LEMMA GraphFetches ==
    ASSUME NEW t, NEW mounted \in BOOLEAN
    PROVE  /\ \A r \in Graph!Fetches(t, mounted) : r.what = "columns" => r.of = t
           /\ \A r : r.what = "graph" => (r \in Graph!Fetches(t, mounted) <=> r \in req)
<1> DEFINE old == {r \in req : r.what = "columns"}
           asked == {Graph!ColumnsLoad(x) : x \in {t} \ {NoTable}}
           told == {Graph!Rejection(r.of) : r \in {x \in old : mounted}}
<1>1. Graph!Fetches(t, mounted) = (req \ old) \union asked \union told
    BY DEF Graph!Fetches
<1>2. \A r \in asked : r.what = "columns" /\ r.of = t
    BY DEF Graph!ColumnsLoad
<1>3. \A r \in told : r.what = "rejection"
    BY DEF Graph!Rejection
<1>4. \A r \in old : r.what = "columns"
    OBVIOUS
<1>. HIDE DEF asked, told
<1>. QED  BY <1>1, <1>2, <1>3, <1>4

LEMMA GraphPanelOf ==
    ASSUME NEW u, DOMAIN u = GraphFields, NEW t
    PROVE  /\ DOMAIN Graph!PanelOf(u, t) = GraphFields
           /\ Graph!PanelOf(u, t).selected = t
           /\ Graph!PanelOf(u, t).panel = Graph!NoPanel
           /\ \A f \in GraphFields \ {"selected", "panel", "listening"} : Graph!PanelOf(u, t)[f] = u[f]
BY DEF Graph!PanelOf, GraphFields

LEMMA GraphNoPanel ==
    DOMAIN Graph!NoPanel = {"columns", "failed"} /\ Graph!NoPanel.columns = {}
BY DEF Graph!NoPanel

LEMMA GraphLoadsInv ==
    ASSUME GraphInv,
           \/ Graph!Connect \/ Graph!Reload
           \/ \E days \in Lookbacks : Graph!SetLookback(days)
           \/ \E scope \in Graph!Scopes : Graph!PickDatabase(scope)
    PROVE  GraphInv'
<1>1. /\ DOMAIN ui = GraphFields /\ DOMAIN ui.panel = {"columns", "failed"}
      /\ ui.panel.columns \in {{}, {ui.selected}}
      /\ \A r \in req : r.what = "columns" => r.of = ui.selected
    BY DEF GraphInv, GraphTypes, FetchesAreOwn
<1>2. CASE Graph!Connect
    <2> DEFINE u == [ui EXCEPT !.view = "drawing", !.listening = TRUE]
    <2>1. /\ DOMAIN u = GraphFields /\ u.panel = ui.panel /\ u.selected = ui.selected
        BY <1>1 DEF GraphFields
    <2>2. Graph!Load(u, Graph!Fetches(ui.selected, FALSE)) /\ connected'
        BY <1>2 DEF Graph!Connect
    <2>. HIDE DEF u
    <2>. QED  BY <1>1, <2>1, <2>2, GraphLoadInv, GraphFetches
<1>3. CASE Graph!Reload
    BY <1>1, <1>3, GraphLoadInv DEF Graph!Reload
<1>4. ASSUME NEW days \in Lookbacks, Graph!SetLookback(days) PROVE GraphInv'
    <2> DEFINE u == [ui EXCEPT !.days = days]
    <2>1. /\ DOMAIN u = GraphFields /\ u.panel = ui.panel /\ u.selected = ui.selected
        BY <1>1 DEF GraphFields
    <2>2. Graph!Load(u, req) /\ connected'
        BY <1>4 DEF Graph!SetLookback
    <2>. HIDE DEF u
    <2>. QED  BY <1>1, <2>1, <2>2, GraphLoadInv
<1>5. ASSUME NEW scope \in Graph!Scopes, Graph!PickDatabase(scope) PROVE GraphInv'
    <2> DEFINE v == Graph!PanelOf(ui, NoTable)
               u == [v EXCEPT !.scope = scope, !.view = "drawing"]
               reqs == Graph!Fetches(NoTable, FALSE) \ Graph!Rejected
    <2>1. DOMAIN v = GraphFields /\ v.panel = Graph!NoPanel /\ v.selected = NoTable
        BY <1>1, GraphPanelOf
    <2>2. Graph!Load(u, reqs) /\ connected'
        BY <1>5 DEF Graph!PickDatabase, Graph!Body
    <2>. HIDE DEF v
    <2>3. DOMAIN u = GraphFields /\ u.panel = Graph!NoPanel /\ u.selected = NoTable
        BY <2>1 DEF GraphFields
    <2>. HIDE DEF u
    <2>4. \A r \in reqs : r.what = "columns" => r.of = u.selected
        BY <2>3, GraphFetches
    <2>. HIDE DEF reqs
    <2>. QED  BY <2>2, <2>3, <2>4, GraphNoPanel, GraphLoadInv
<1>. QED  BY <1>2, <1>3, <1>4, <1>5

LEMMA GraphDisconnectInv ==
    ASSUME GraphInv, Graph!Disconnect PROVE GraphInv'
<1>1. connected' = FALSE /\ req' = {} /\ DOMAIN ui = GraphFields
    BY DEF Graph!Disconnect, GraphInv, GraphTypes
<1>2. /\ DOMAIN ui' = GraphFields /\ ui'.loading = FALSE /\ ui'.error = ui.error
      /\ ui'.panel = Graph!NoPanel
    BY <1>1 DEF Graph!Disconnect, GraphFields
<1>3. ui'.error \in BOOLEAN
    BY <1>2 DEF GraphInv, GraphTypes
<1>. QED
    BY <1>1, <1>2, <1>3, GraphNoPanel
       DEF GraphInv, GraphTypes, LoadsAreOwn, FetchesAreOwn, Graph!SpinnerIsOwn

\* A step that leaves the graph and its loads as they are.
LEMMA GraphLoadsAlone ==
    ASSUME LoadsAreOwn, connected' = connected, connected,
           \A f \in {"days", "scope", "loading", "error", "graph", "database"} : ui'[f] = ui[f],
           \A r : r.what = "graph" => (r \in req' <=> r \in req)
    PROVE  LoadsAreOwn'
<1>1. /\ ui'.days = ui.days /\ ui'.scope = ui.scope /\ ui'.loading = ui.loading
      /\ ui'.error = ui.error /\ ui'.graph = ui.graph /\ ui'.database = ui.database
    OBVIOUS
<1>2. Graph!Key(ui)' = Graph!Key(ui)
    BY <1>1 DEF Graph!Key
<1>3. Graph!SpinnerIsOwn'
    BY <1>1 DEF LoadsAreOwn, Graph!SpinnerIsOwn, Graph!Graphs
<1>. QED  BY <1>1, <1>2, <1>3 DEF LoadsAreOwn

LEMMA GraphClickInv ==
    ASSUME GraphInv, NEW t, Graph!Click(t) PROVE GraphInv'
<1>1. Graph!Select(t) /\ connected' = connected /\ DOMAIN ui = GraphFields
    BY DEF Graph!Click, Graph!Select, GraphInv, GraphTypes
<1>2. connected
    BY <1>1 DEF Graph!Select, Graph!Body
<1>3. /\ DOMAIN ui' = GraphFields /\ ui'.selected = t /\ ui'.panel = Graph!NoPanel
      /\ \A f \in GraphFields \ {"selected", "panel", "listening"} : ui'[f] = ui[f]
    BY <1>1, GraphPanelOf DEF Graph!Select
<1>4. /\ \A r \in req' : r.what = "columns" => r.of = t
      /\ \A r : r.what = "graph" => (r \in req' <=> r \in req)
    <2>1. \A r \in Graph!Rejected : r.what = "rejection"
        BY DEF Graph!Rejected
    <2>2. CASE t = NoTable
        <3>1. req' = Graph!Fetches(t, FALSE) \ Graph!Rejected
            BY <1>1, <2>2 DEF Graph!Select
        <3>. QED  BY <2>1, <3>1, GraphFetches
    <2>3. CASE t # NoTable
        <3>1. req' = Graph!Fetches(t, ui.selected # NoTable)
            BY <1>1, <2>3 DEF Graph!Select
        <3>. QED  BY <3>1, GraphFetches
    <2>. QED  BY <2>2, <2>3
<1>5. GraphTypes'
    <2>1. ui'.loading = ui.loading /\ ui'.error = ui.error
        BY <1>3 DEF GraphFields
    <2>. QED  BY <1>3, <2>1, GraphNoPanel DEF GraphInv, GraphTypes
<1>6. LoadsAreOwn'
    BY <1>1, <1>2, <1>3, <1>4, GraphLoadsAlone DEF GraphInv, GraphFields
<1>7. FetchesAreOwn'
    BY <1>3, <1>4, GraphNoPanel DEF FetchesAreOwn
<1>. QED  BY <1>5, <1>6, <1>7 DEF GraphInv

\* The drawing, and the fetches that end.
LEMMA GraphPanelInv ==
    ASSUME GraphInv,
           \/ Graph!Redraw \/ Graph!Draw
           \/ \E r \in req : Graph!ColumnsArrive(r) \/ Graph!ColumnsFail(r)
    PROVE  GraphInv'
<1>1. /\ DOMAIN ui = GraphFields /\ DOMAIN ui.panel = {"columns", "failed"}
      /\ ui.loading \in BOOLEAN /\ ui.error \in BOOLEAN
      /\ LoadsAreOwn /\ FetchesAreOwn
    BY DEF GraphInv, GraphTypes
<1>2. /\ DOMAIN ui' = GraphFields /\ DOMAIN ui'.panel = {"columns", "failed"}
      /\ \A f \in GraphFields \ {"kinds", "view", "listening", "panel"} : ui'[f] = ui[f]
    BY <1>1 DEF Graph!Redraw, Graph!Draw, Graph!ColumnsArrive, Graph!ColumnsFail, GraphFields
<1>3. /\ connected' = connected /\ req' \subseteq req
      /\ \A r : r.what = "graph" => (r \in req' <=> r \in req)
    BY DEF Graph!Redraw, Graph!Draw, Graph!ColumnsArrive, Graph!ColumnsFail
<1>4. connected
    BY <1>1 DEF Graph!Redraw, Graph!Draw, Graph!Body, LoadsAreOwn
<1>5. /\ ui'.loading = ui.loading /\ ui'.error = ui.error /\ ui'.selected = ui.selected
    BY <1>2 DEF GraphFields
<1>6. ui'.panel.columns \in {{}, {ui.selected}}
    <2>1. ASSUME NEW r \in req, Graph!ColumnsArrive(r) PROVE ui'.panel.columns = {ui.selected}
        <3>1. r.what = "columns" /\ ui' = [ui EXCEPT !.panel.columns = {r.of}]
            BY <2>1 DEF Graph!ColumnsArrive
        <3>2. r.of = ui.selected
            BY <1>1, <3>1 DEF FetchesAreOwn
        <3>. QED  BY <1>1, <3>1, <3>2 DEF GraphFields
    <2>2. CASE Graph!Redraw \/ Graph!Draw \/ \E r \in req : Graph!ColumnsFail(r)
        <3>1. \/ ui'.panel = ui.panel
              \/ \E f : ui'.panel = [ui.panel EXCEPT !.failed = f]
            BY <1>1, <2>2 DEF Graph!Redraw, Graph!Draw, Graph!ColumnsFail, GraphFields
        <3>2. ui'.panel.columns = ui.panel.columns
            BY <1>1, <3>1
        <3>. QED  BY <1>1, <3>2 DEF FetchesAreOwn
    <2>. QED  BY <2>1, <2>2
<1>7. GraphTypes'
    BY <1>1, <1>2, <1>5 DEF GraphTypes
<1>8. LoadsAreOwn'
    BY <1>1, <1>2, <1>3, <1>4, GraphLoadsAlone DEF GraphFields
<1>9. FetchesAreOwn'
    BY <1>1, <1>3, <1>5, <1>6 DEF FetchesAreOwn
<1>. QED  BY <1>7, <1>8, <1>9 DEF GraphInv

\* The load that ends was the only one, and for what is asked.
LEMMA GraphAnswersInv ==
    ASSUME GraphInv, NEW r \in req, Graph!GraphArrives(r) \/ Graph!GraphFails(r)
    PROVE  GraphInv'
<1>1. /\ DOMAIN ui = GraphFields /\ DOMAIN ui.panel = {"columns", "failed"}
      /\ ui.loading \in BOOLEAN /\ ui.error \in BOOLEAN
      /\ LoadsAreOwn /\ FetchesAreOwn
    BY DEF GraphInv, GraphTypes
<1>2. r.what = "graph" /\ connected' = connected
    BY DEF Graph!GraphArrives, Graph!GraphFails
<1>3. connected /\ r = Graph!GraphLoad(Graph!Key(ui)) /\ r.key = Graph!Key(ui)
    BY <1>1, <1>2, GraphLoadWhat DEF LoadsAreOwn
<1>4. CASE Graph!GraphFails(r)
    <2>1. /\ ui' = [ui EXCEPT !.error = TRUE, !.loading = FALSE] /\ req' = req \ {r}
        BY <1>4 DEF Graph!GraphFails
    <2>2. /\ DOMAIN ui' = GraphFields /\ ui'.loading = FALSE /\ ui'.error = TRUE
          /\ ui'.panel = ui.panel /\ ui'.selected = ui.selected
        BY <1>1, <2>1 DEF GraphFields
    <2>3. LoadsAreOwn'
        BY <1>1, <1>2, <1>3, <2>1, <2>2 DEF LoadsAreOwn, Graph!SpinnerIsOwn, Graph!Graphs
    <2>4. FetchesAreOwn' /\ GraphTypes'
        BY <1>1, <2>1, <2>2 DEF FetchesAreOwn, GraphTypes
    <2>. QED  BY <2>3, <2>4 DEF GraphInv
<1>5. CASE Graph!GraphArrives(r)
    <2>1. PICK nodes \in SUBSET Tables,
               db \in IF r.key.scope = "auto" THEN Databases ELSE {r.key.scope} :
            LET u == [ui EXCEPT !.graph = {r.key}, !.nodes = nodes, !.database = {db},
                                !.loading = FALSE, !.view = "drawing",
                                !.listening = @ \/ ui.nodes = {}]
            IN  IF ui.selected \in nodes \union {NoTable}
                THEN ui' = u /\ req' = req \ {r}
                ELSE /\ ui' = Graph!PanelOf(u, NoTable)
                     /\ req' = (Graph!Fetches(NoTable, FALSE) \ Graph!Rejected) \ {r}
        BY <1>5 DEF Graph!GraphArrives
    <2> DEFINE u == [ui EXCEPT !.graph = {r.key}, !.nodes = nodes, !.database = {db},
                               !.loading = FALSE, !.view = "drawing",
                               !.listening = @ \/ ui.nodes = {}]
    <2>2. /\ DOMAIN u = GraphFields /\ u.loading = FALSE /\ u.error = ui.error
          /\ u.graph = {Graph!Key(ui)} /\ u.database = {db}
          /\ u.days = ui.days /\ u.scope = ui.scope
          /\ u.panel = ui.panel /\ u.selected = ui.selected
        BY <1>1, <1>3 DEF GraphFields
    <2>3. ui.scope # "auto" => db = ui.scope
        BY <1>3, <2>1 DEF Graph!Key
    <2>4. \/ ui' = u /\ req' = req \ {r}
          \/ /\ ui' = Graph!PanelOf(u, NoTable)
             /\ req' = (Graph!Fetches(NoTable, FALSE) \ Graph!Rejected) \ {r}
        BY <2>1
    <2>. HIDE DEF u
    <2>5. /\ DOMAIN ui' = GraphFields /\ ui'.loading = FALSE /\ ui'.error = ui.error
          /\ ui'.graph = {Graph!Key(ui)} /\ ui'.database = {db}
          /\ ui'.days = ui.days /\ ui'.scope = ui.scope
        <3>1. CASE ui' = u
            BY <2>2, <3>1
        <3>2. CASE ui' = Graph!PanelOf(u, NoTable)
            BY <2>2, <3>2, GraphPanelOf DEF GraphFields
        <3>. QED  BY <2>4, <3>1, <3>2
    <2>6. Graph!Key(ui)' = Graph!Key(ui)
        BY <2>5 DEF Graph!Key
    <2>7. \A q \in req' : q.what # "graph"
        <3>1. \A q \in req : q.what = "graph" => q = r
            BY <1>1, <1>3 DEF LoadsAreOwn
        <3>2. CASE req' = req \ {r}
            BY <3>1, <3>2
        <3>3. CASE req' = (Graph!Fetches(NoTable, FALSE) \ Graph!Rejected) \ {r}
            BY <3>1, <3>3, GraphFetches
        <3>. QED  BY <2>4, <3>2, <3>3
    <2>8. LoadsAreOwn'
        <3>1. Graph!SpinnerIsOwn'
            BY <2>5, <2>7 DEF Graph!SpinnerIsOwn, Graph!Graphs
        <3>. QED  BY <1>2, <1>3, <2>3, <2>5, <2>6, <2>7, <3>1 DEF LoadsAreOwn
    <2>9. FetchesAreOwn' /\ DOMAIN ui'.panel = {"columns", "failed"}
        <3>1. CASE ui' = u /\ req' = req \ {r}
            BY <1>1, <2>2, <3>1 DEF FetchesAreOwn
        <3>2. CASE /\ ui' = Graph!PanelOf(u, NoTable)
                   /\ req' = (Graph!Fetches(NoTable, FALSE) \ Graph!Rejected) \ {r}
            <4>1. ui'.panel = Graph!NoPanel /\ ui'.selected = NoTable
                BY <2>2, <3>2, GraphPanelOf
            <4>2. \A q \in req' : q.what = "columns" => q.of = NoTable
                BY <3>2, GraphFetches
            <4>. QED  BY <4>1, <4>2, GraphNoPanel DEF FetchesAreOwn
        <3>. QED  BY <2>4, <3>1, <3>2
    <2>10. GraphTypes'
        BY <1>1, <2>5, <2>9 DEF GraphTypes
    <2>. QED  BY <2>8, <2>9, <2>10 DEF GraphInv
<1>. QED  BY <1>4, <1>5

LEMMA GraphHolds ==
    ASSUME GraphInv PROVE Graph!GraphIsOwn /\ Graph!ColumnsAreOwn /\ Graph!SpinnerIsOwn
<1>1. Graph!GraphIsOwn
    BY DEF GraphInv, LoadsAreOwn, Graph!GraphIsOwn, Graph!ActiveDb
<1>2. Graph!ColumnsAreOwn
    BY DEF GraphInv, FetchesAreOwn, Graph!ColumnsAreOwn, Graph!PanelShown
<1>. QED  BY <1>1, <1>2 DEF GraphInv, LoadsAreOwn

LEMMA GraphStepInv ==
    ASSUME GraphInv, Graph!Next PROVE GraphInv'
BY GraphLoadsInv, GraphDisconnectInv, GraphClickInv, GraphPanelInv, GraphAnswersInv
   DEF Graph!Next

-----------------------------------------------------------------------------
(* The editor's sidebar                                                    *)

LEMMA SidebarEmpty == DOMAIN Sidebar!Empty = SchemaFields /\ Sidebar!Empty.databases = {}
BY DEF Sidebar!Empty, SchemaFields

LEMMA SidebarInitInv ==
    ASSUME Sidebar!Init PROVE SidebarInv
<1>1. PICK s \in Servers, m \in BOOLEAN : ui = Sidebar!Fresh(s, Sidebar!Empty, m)
    BY DEF Sidebar!Init
<1>2. connected = FALSE
    BY DEF Sidebar!Init
<1>3. /\ DOMAIN ui = SidebarFields /\ ui.cache = Sidebar!Empty /\ ui.shown = Sidebar!Empty
      /\ ui.loading = FALSE /\ ui.schemaLoading \in BOOLEAN
    BY <1>1 DEF Sidebar!Fresh, SidebarFields
<1>. QED  BY <1>2, <1>3, SidebarEmpty DEF SidebarInv

LEMMA SidebarFetch ==
    ASSUME NEW what, NEW s
    PROVE  Sidebar!Fetch(what, s).what = what /\ Sidebar!Fetch(what, s).mounted = TRUE
BY DEF Sidebar!Fetch

\* What a state needs for its spinners, given the requests under way.
Spun(u, reqs, on) ==
    /\ DOMAIN u = SidebarFields
    /\ u.schemaLoading \in BOOLEAN /\ u.loading \in BOOLEAN
    /\ DOMAIN u.cache = SchemaFields /\ DOMAIN u.shown = SchemaFields
    /\ u.loading => \E r \in reqs : r.what = "tables" /\ r.mounted
    /\ on /\ u.schemaLoading =>
         (\E r \in reqs : r.what = "databases" /\ r.mounted) \/ u.skipped

LEMMA SidebarSpun ==
    ASSUME connected' \in BOOLEAN
    PROVE  SidebarInv' <=> Spun(ui', req', connected')
BY DEF SidebarInv, Spun, Sidebar!Fetching

LEMMA SidebarIsSpun ==
    ASSUME SidebarInv
    PROVE  Spun(ui, req, connected) /\ connected \in BOOLEAN
BY DEF SidebarInv, Spun, Sidebar!Fetching

LEMMA SidebarLoadTables ==
    ASSUME NEW u, NEW reqs, NEW on \in BOOLEAN, Spun(u, reqs, on), Sidebar!LoadTables(u, reqs)
    PROVE  Spun(ui', req', on)
<1>1. CASE u.cache.tables # {}
    BY <1>1 DEF Sidebar!LoadTables
<1>2. CASE u.cache.tables = {}
    <2> DEFINE fetch == Sidebar!Fetch("tables", u.server)
    <2>1. ui' = [u EXCEPT !.loading = TRUE] /\ req' = reqs \union {fetch}
        BY <1>2 DEF Sidebar!LoadTables
    <2>2. fetch.what = "tables" /\ fetch.mounted
        BY SidebarFetch
    <2>. HIDE DEF fetch
    <2>3. /\ DOMAIN ui' = SidebarFields /\ ui'.loading = TRUE /\ ui'.schemaLoading = u.schemaLoading
          /\ ui'.cache = u.cache /\ ui'.shown = u.shown /\ ui'.skipped = u.skipped
        BY <2>1 DEF Spun, SidebarFields
    <2>. QED  BY <2>1, <2>2, <2>3 DEF Spun
<1>. QED  BY <1>1, <1>2

LEMMA SidebarMentioned ==
    ASSUME NEW u, NEW reqs, NEW on \in BOOLEAN, Spun(u, reqs, on), Sidebar!Mentioned(u, reqs)
    PROVE  Spun(ui', req', on)
BY SidebarLoadTables DEF Sidebar!Mentioned

\* Of the databases the spinner waits for their fetch, unless it is skipped.
LEMMA SidebarLoadDatabases ==
    ASSUME NEW u, NEW reqs, NEW force \in BOOLEAN, Spun(u, reqs, FALSE),
           force \/ u.skipped \/ u.cache.databases = {},
           Sidebar!LoadDatabases(u, reqs, force)
    PROVE  Spun(ui', req', TRUE)
<1>1. CASE ~ force /\ u.cache.databases # {}
    <2>1. ui' = u /\ req' = reqs
        BY <1>1 DEF Sidebar!LoadDatabases
    <2>. QED  BY <1>1, <2>1 DEF Spun
<1>2. CASE ~ (~ force /\ u.cache.databases # {})
    <2> DEFINE fetch == Sidebar!Fetch("databases", u.server)
    <2>1. ui' = [u EXCEPT !.schemaLoading = TRUE] /\ req' = reqs \union {fetch}
        BY <1>2 DEF Sidebar!LoadDatabases
    <2>2. fetch.what = "databases" /\ fetch.mounted
        BY SidebarFetch
    <2>. HIDE DEF fetch
    <2>3. /\ DOMAIN ui' = SidebarFields /\ ui'.schemaLoading = TRUE /\ ui'.loading = u.loading
          /\ ui'.cache = u.cache /\ ui'.shown = u.shown
        BY <2>1 DEF Spun, SidebarFields
    <2>. QED  BY <2>1, <2>2, <2>3 DEF Spun
<1>. QED  BY <1>1, <1>2

LEMMA SidebarConnectInv ==
    ASSUME SidebarInv,
           Sidebar!Connect \/ Sidebar!Disconnect \/ \E s \in Servers : Sidebar!TryConnect(s)
    PROVE  SidebarInv'
<1>1. Spun(ui, req, connected) /\ connected \in BOOLEAN
    BY SidebarIsSpun
<1>2. Spun(ui, req, FALSE)
    BY <1>1 DEF Spun
<1>3. CASE Sidebar!Connect
    <2> DEFINE u == [ui EXCEPT !.skipped = ui.cache.databases # {}]
    <2>1. connected' = TRUE /\ Sidebar!LoadDatabases(u, req, FALSE)
        BY <1>3 DEF Sidebar!Connect
    <2>2. /\ DOMAIN u = SidebarFields /\ u.schemaLoading = ui.schemaLoading
          /\ u.loading = ui.loading /\ u.cache = ui.cache /\ u.shown = ui.shown
          /\ u.skipped = (ui.cache.databases # {})
        BY <1>2 DEF Spun, SidebarFields
    <2>. HIDE DEF u
    <2>3. Spun(u, req, FALSE) /\ (u.skipped \/ u.cache.databases = {})
        BY <1>2, <2>2 DEF Spun
    <2>. QED  BY <2>1, <2>3, SidebarLoadDatabases, SidebarSpun
<1>4. CASE Sidebar!Disconnect
    <2>1. connected' = FALSE /\ ui' = ui /\ req' = req
        BY <1>4 DEF Sidebar!Disconnect
    <2>. QED  BY <1>2, <2>1, SidebarSpun
<1>5. ASSUME NEW s \in Servers, Sidebar!TryConnect(s) PROVE SidebarInv'
    <2>1. /\ connected = FALSE /\ connected' = connected /\ req' = req
          /\ ui' = [ui EXCEPT !.server = s, !.cache = Sidebar!Empty]
        BY <1>1, <1>5 DEF Sidebar!TryConnect
    <2>2. /\ DOMAIN ui' = SidebarFields /\ ui'.schemaLoading = ui.schemaLoading
          /\ ui'.loading = ui.loading /\ ui'.cache = Sidebar!Empty /\ ui'.shown = ui.shown
        BY <1>2, <2>1 DEF Spun, SidebarFields
    <2>3. Spun(ui', req', connected')
        BY <1>2, <2>1, <2>2, SidebarEmpty DEF Spun
    <2>. QED  BY <2>1, <2>3, SidebarSpun
<1>. QED  BY <1>3, <1>4, <1>5

LEMMA SidebarRemountInv ==
    ASSUME SidebarInv, Sidebar!Remount PROVE SidebarInv'
<1> DEFINE u == Sidebar!Fresh(ui.server, ui.cache, ui.mentions)
           reqs == {[r EXCEPT !.mounted = FALSE] : r \in req}
<1>1. /\ connected' = connected /\ connected \in BOOLEAN
      /\ IF connected /\ u.cache.databases = {} THEN Sidebar!LoadDatabases(u, reqs, FALSE)
         ELSE Sidebar!Mentioned(u, reqs)
    BY DEF SidebarInv, Sidebar!Remount
<1>2. /\ DOMAIN u = SidebarFields /\ u.cache = ui.cache /\ u.shown = ui.cache
      /\ u.loading = FALSE /\ u.schemaLoading = (ui.cache.databases = {})
      /\ DOMAIN ui.cache = SchemaFields
    BY DEF SidebarInv, Sidebar!Fresh, SidebarFields
<1>. HIDE DEF u, reqs
<1>3. Spun(u, reqs, FALSE)
    BY <1>2 DEF Spun
<1>4. CASE connected /\ u.cache.databases = {}
    BY <1>1, <1>3, <1>4, SidebarLoadDatabases, SidebarSpun
<1>5. CASE ~ (connected /\ u.cache.databases = {})
    <2>1. Spun(u, reqs, connected)
        BY <1>2, <1>5 DEF Spun
    <2>. QED  BY <1>1, <1>5, <2>1, SidebarMentioned, SidebarSpun
<1>. QED  BY <1>4, <1>5

\* An answer of an older component ends no spinner of this one.
LEMMA SidebarDatabasesInv ==
    ASSUME SidebarInv, NEW r \in req, Sidebar!DatabasesArrive(r) \/ Sidebar!DatabasesFail(r)
    PROVE  SidebarInv'
<1>1. Spun(ui, req, connected) /\ connected \in BOOLEAN
    BY SidebarIsSpun
<1>2. r.what = "databases" /\ connected' = connected
    BY DEF Sidebar!DatabasesArrive, Sidebar!DatabasesFail
<1>3. ui.loading => \E q \in req \ {r} : q.what = "tables" /\ q.mounted
    BY <1>1, <1>2 DEF Spun
<1>4. CASE Sidebar!DatabasesArrive(r)
    <2> DEFINE u == [ui EXCEPT !.cache.databases = {r.of}]
               v == [u EXCEPT !.shown.databases = {r.of}, !.schemaLoading = FALSE]
    <2>1. IF r.mounted THEN Sidebar!Mentioned(v, req \ {r}) ELSE ui' = u /\ req' = req \ {r}
        BY <1>4 DEF Sidebar!DatabasesArrive
    <2>2. /\ DOMAIN u = SidebarFields /\ DOMAIN u.cache = SchemaFields
          /\ u.cache.databases = {r.of} /\ u.shown = ui.shown /\ u.skipped = ui.skipped
          /\ u.schemaLoading = ui.schemaLoading /\ u.loading = ui.loading
        BY <1>1 DEF Spun, SidebarFields, SchemaFields
    <2>3. ~ r.mounted => Spun(u, req \ {r}, connected)
        <3>. HIDE DEF u
        <3>. QED  BY <1>1, <1>3, <2>2 DEF Spun
    <2>4. /\ DOMAIN v = SidebarFields /\ v.cache = u.cache /\ DOMAIN v.shown = SchemaFields
          /\ v.schemaLoading = FALSE /\ v.loading = ui.loading
        <3>. HIDE DEF u
        <3>. QED  BY <1>1, <2>2 DEF Spun, SidebarFields, SchemaFields
    <2>5. Spun(v, req \ {r}, connected)
        <3>. HIDE DEF u, v
        <3>. QED  BY <1>1, <1>3, <2>2, <2>4 DEF Spun
    <2>. HIDE DEF u, v
    <2>. QED  BY <1>1, <1>2, <2>1, <2>3, <2>5, SidebarMentioned, SidebarSpun
<1>5. CASE Sidebar!DatabasesFail(r)
    <2>1. /\ ui' = [ui EXCEPT !.schemaLoading = IF r.mounted THEN FALSE ELSE @] /\ req' = req \ {r}
        BY <1>5 DEF Sidebar!DatabasesFail
    <2>2. /\ DOMAIN ui' = SidebarFields /\ ui'.cache = ui.cache /\ ui'.shown = ui.shown
          /\ ui'.loading = ui.loading /\ ui'.skipped = ui.skipped
          /\ ui'.schemaLoading = IF r.mounted THEN FALSE ELSE ui.schemaLoading
        BY <1>1, <2>1 DEF Spun, SidebarFields
    <2>3. ui'.schemaLoading \in BOOLEAN
        BY <1>1, <2>2 DEF Spun
    <2>4. ui'.schemaLoading => ui.schemaLoading /\ ~ r.mounted
        BY <1>1, <2>2 DEF Spun
    <2>5. Spun(ui', req', connected)
        BY <1>1, <1>3, <2>1, <2>2, <2>3, <2>4 DEF Spun
    <2>. QED  BY <1>1, <1>2, <2>5, SidebarSpun
<1>. QED  BY <1>4, <1>5

LEMMA SidebarTablesInv ==
    ASSUME SidebarInv, NEW r \in req, Sidebar!TablesArrive(r) \/ Sidebar!ColumnsArrive(r)
    PROVE  SidebarInv'
<1>1. Spun(ui, req, connected) /\ connected \in BOOLEAN
    BY SidebarIsSpun
<1>2. /\ r.what \in {"tables", "columns"} /\ connected' = connected /\ req' = req \ {r}
    BY DEF Sidebar!TablesArrive, Sidebar!ColumnsArrive
<1>3. ASSUME DOMAIN ui' = SidebarFields, ui'.schemaLoading = ui.schemaLoading,
             ui'.loading \in BOOLEAN, ui'.loading => ui.loading /\ (r.what = "columns" \/ ~ r.mounted),
             DOMAIN ui'.cache = SchemaFields, DOMAIN ui'.shown = SchemaFields,
             ui'.skipped = ui.skipped
      PROVE  SidebarInv'
    <2>1. Spun(ui', req', connected)
        BY <1>1, <1>2, <1>3 DEF Spun
    <2>. QED  BY <1>1, <1>2, <2>1, SidebarSpun
<1>4. CASE Sidebar!TablesArrive(r)
    <2>1. PICK tables : ui' = Sidebar!TablesEnd(r, tables)
        BY <1>4 DEF Sidebar!TablesArrive
    <2>2. /\ DOMAIN ui' = SidebarFields /\ ui'.schemaLoading = ui.schemaLoading
          /\ ui'.loading = Sidebar!Spins(r, tables) /\ ui'.skipped = ui.skipped
        BY <1>1, <2>1 DEF Spun, SidebarFields, Sidebar!TablesEnd
    <2>3. ui'.cache = [[ui.cache EXCEPT !.tables = tables] EXCEPT !.columns = FALSE]
        BY <1>1, <2>1 DEF Spun, SidebarFields, Sidebar!TablesEnd
    <2>4. DOMAIN ui'.cache = SchemaFields /\ ui'.cache.databases = ui.cache.databases
        BY <1>1, <2>3 DEF Spun, SchemaFields
    <2>5. DOMAIN ui'.shown = SchemaFields
        BY <1>1, <2>1 DEF Spun, SidebarFields, SchemaFields, Sidebar!TablesEnd
    <2>6. Sidebar!Spins(r, tables) \in BOOLEAN
          /\ (Sidebar!Spins(r, tables) => ui.loading /\ ~ r.mounted)
        BY DEF Sidebar!Spins
    <2>. QED  BY <1>3, <2>2, <2>4, <2>5, <2>6
<1>5. CASE Sidebar!ColumnsArrive(r)
    <2> DEFINE had == ui.shown.tables # {}
               shown == [ui.shown EXCEPT !.tables = IF had THEN @ ELSE {NoTables}, !.columns = had]
    <2>1. \/ ui' = [ui EXCEPT !.shown = shown, !.cache.tables = shown.tables,
                              !.cache.columns = shown.columns]
          \/ ui' = ui
        BY <1>5 DEF Sidebar!ColumnsArrive
    <2>2. DOMAIN shown = SchemaFields
        BY <1>1 DEF Spun
    <2>. HIDE DEF shown
    <2>3. CASE ui' = ui
        BY <1>1, <1>3, <1>5, <2>3 DEF Spun, Sidebar!ColumnsArrive
    <2>4. CASE ui' = [ui EXCEPT !.shown = shown, !.cache.tables = shown.tables,
                                !.cache.columns = shown.columns]
        <3>1. /\ DOMAIN ui' = SidebarFields /\ ui'.schemaLoading = ui.schemaLoading
              /\ ui'.loading = ui.loading /\ ui'.shown = shown /\ ui'.skipped = ui.skipped
            BY <1>1, <2>4 DEF Spun, SidebarFields
        <3>2. ui'.cache = [[ui.cache EXCEPT !.tables = shown.tables] EXCEPT !.columns = shown.columns]
            BY <1>1, <2>4 DEF Spun, SidebarFields
        <3>3. DOMAIN ui'.cache = SchemaFields /\ ui'.cache.databases = ui.cache.databases
            BY <1>1, <3>2 DEF Spun, SchemaFields
        <3>4. ui.loading \in BOOLEAN /\ r.what = "columns"
            BY <1>1, <1>5 DEF Spun, Sidebar!ColumnsArrive
        <3>. QED  BY <1>3, <2>2, <3>1, <3>3, <3>4
    <2>. QED  BY <2>1, <2>3, <2>4
<1>. QED  BY <1>4, <1>5

LEMMA SidebarHandlersInv ==
    ASSUME SidebarInv,
           Sidebar!Expand \/ Sidebar!ExpandTable \/ Sidebar!Refresh \/ Sidebar!Type
    PROVE  SidebarInv'
<1>1. Spun(ui, req, connected) /\ connected \in BOOLEAN
    BY SidebarIsSpun
<1>2. connected' = connected /\ connected
    BY DEF Sidebar!Expand, Sidebar!ExpandTable, Sidebar!Refresh, Sidebar!Type
<1>3. CASE Sidebar!Expand
    BY <1>1, <1>2, <1>3, SidebarLoadTables, SidebarSpun DEF Sidebar!Expand
<1>4. CASE Sidebar!ExpandTable
    <2>1. ui' = ui /\ req \subseteq req'
        BY <1>4 DEF Sidebar!ExpandTable
    <2>2. Spun(ui', req', connected)
        BY <1>1, <2>1 DEF Spun
    <2>. QED  BY <1>1, <1>2, <2>2, SidebarSpun
<1>5. CASE Sidebar!Refresh
    <2> DEFINE u == [ui EXCEPT !.cache = Sidebar!Empty, !.shown.tables = {},
                               !.shown.columns = FALSE, !.loading = FALSE]
    <2>1. Sidebar!LoadDatabases(u, req, TRUE)
        BY <1>5 DEF Sidebar!Refresh
    <2>2. /\ DOMAIN u = SidebarFields /\ u.schemaLoading = ui.schemaLoading /\ u.loading = FALSE
          /\ u.cache = Sidebar!Empty /\ DOMAIN u.shown = SchemaFields
        BY <1>1 DEF Spun, SidebarFields, SchemaFields
    <2>. HIDE DEF u
    <2>3. Spun(u, req, FALSE)
        BY <1>1, <2>2, SidebarEmpty DEF Spun
    <2>. QED  BY <1>2, <2>1, <2>3, SidebarLoadDatabases, SidebarSpun
<1>6. CASE Sidebar!Type
    <2> DEFINE u == [ui EXCEPT !.mentions = ~ @]
    <2>1. Sidebar!Mentioned(u, req)
        BY <1>6 DEF Sidebar!Type
    <2>2. /\ DOMAIN u = SidebarFields /\ u.schemaLoading = ui.schemaLoading
          /\ u.loading = ui.loading /\ u.cache = ui.cache /\ u.shown = ui.shown
          /\ u.skipped = ui.skipped
        BY <1>1 DEF Spun, SidebarFields
    <2>. HIDE DEF u
    <2>3. Spun(u, req, connected)
        BY <1>1, <2>2 DEF Spun
    <2>. QED  BY <1>1, <1>2, <2>1, <2>3, SidebarMentioned, SidebarSpun
<1>. QED  BY <1>3, <1>4, <1>5, <1>6

LEMMA SidebarHolds ==
    ASSUME SidebarInv PROVE Sidebar!SpinnersEnd
BY DEF SidebarInv, Sidebar!SpinnersEnd

LEMMA SidebarStepInv ==
    ASSUME SidebarInv, Sidebar!Next PROVE SidebarInv'
BY SidebarConnectInv, SidebarRemountInv, SidebarDatabasesInv, SidebarTablesInv,
   SidebarHandlersInv DEF Sidebar!Next

-----------------------------------------------------------------------------
(* Users and access                                                        *)

LEMMA AccessTypes ==
    ASSUME AccessInv
    PROVE  /\ DOMAIN ui = AccessFields /\ connected \in BOOLEAN /\ ui.loading \in BOOLEAN
           /\ ui.page \in Nat \ {0} /\ ui.size \in Access!PageSizes
           /\ ui.data = {} \/ \E o \in Access!Overviews : ui.data = {o}
BY DEF AccessInv

\* What the dialog of the grants needs, given the requests under way.
Granting(u, reqs, on) ==
    /\ u.grants # None => u.data # {} /\ u.stmt \in {None, u.grants}
    /\ ~ on => \A r \in reqs : r.kind # "grants"
    /\ \A r \in reqs : r.kind = "grants" => r.target = u.grants
    /\ on /\ u.data # {} /\ u.grants # None /\ u.loading => \E r \in reqs : r.kind = "grants"

LEMMA AccessGranting ==
    ASSUME AccessInv PROVE Granting(ui, req, connected)
BY DEF AccessInv, Granting, Access!StatementLoads, Access!Body, Access!Calls

LEMMA AccessInvBut ==
    ASSUME DOMAIN ui' = AccessFields, connected' \in BOOLEAN, ui'.loading \in BOOLEAN,
           ui'.page \in Nat \ {0}, ui'.size \in Access!PageSizes,
           ui'.data = {} \/ \E o \in Access!Overviews : ui'.data = {o},
           Granting(ui', req', connected')
    PROVE  AccessInv'
BY DEF AccessInv, Granting, Access!StatementLoads, Access!Body, Access!Calls

LEMMA AccessInitInv ==
    ASSUME Access!Init PROVE AccessInv
<1>1. PICK t \in Access!Tabs :
         ui = [tab |-> t, page |-> 1, size |-> 1, query |-> None, data |-> {},
               drop |-> None, revoke |-> None, grants |-> None,
               stmt |-> None, loading |-> FALSE, error |-> FALSE]
    BY DEF Access!Init
<1>2. /\ DOMAIN ui = AccessFields /\ ui.page = 1 /\ ui.size = 1 /\ ui.data = {}
      /\ ui.grants = None /\ ui.loading = FALSE
    BY <1>1 DEF AccessFields
<1>3. connected \in BOOLEAN /\ req = {}
    BY DEF Access!Init
<1>4. Access!Calls("grants") = {}
    BY <1>3 DEF Access!Calls
<1>5. Access!StatementLoads /\ ui.loading \in BOOLEAN
    BY <1>2 DEF Access!StatementLoads
<1>6. /\ ui.page \in Nat \ {0} /\ ui.size \in Access!PageSizes
      /\ ui.grants # None => ui.data # {} /\ ui.stmt \in {None, ui.grants}
    BY <1>2 DEF Access!PageSizes
<1>. QED  BY <1>2, <1>3, <1>4, <1>5, <1>6 DEF AccessInv

\* The lists, the dialogs that ask and the ones that confirm leave the grants
\* and their requests alone.
LEMMA AccessListsInv ==
    ASSUME AccessInv,
           Access!SetTab \/ Access!ShowRole \/ Access!Search \/ Access!Turn
             \/ Access!AskDrop \/ Access!AskRevoke \/ Access!Cancel
    PROVE  AccessInv'
<1>1. connected' = connected /\ req' = req
    BY DEF Access!SetTab, Access!ShowRole, Access!Search, Access!Turn,
        Access!AskDrop, Access!AskRevoke, Access!Cancel
<1>2. /\ DOMAIN ui' = AccessFields /\ ui'.data = ui.data /\ ui'.grants = ui.grants
      /\ ui'.stmt = ui.stmt /\ ui'.loading = ui.loading
    BY AccessTypes DEF AccessFields, Access!SetTab, Access!ShowRole, Access!Search, Access!Turn,
        Access!AskDrop, Access!AskRevoke, Access!Cancel
<1>3. ui'.page \in Nat \ {0} /\ ui'.size \in Access!PageSizes
    <2>1. ASSUME NEW n \in 1 .. Access!TotalPages, ui' = [ui EXCEPT !.page = n]
          PROVE  ui'.page \in Nat \ {0} /\ ui'.size \in Access!PageSizes
        <3>1. n \in Nat \ {0}
            OBVIOUS
        <3>. QED  BY <2>1, <3>1, AccessTypes DEF AccessFields
    <2>2. ASSUME NEW s \in Access!PageSizes, ui' = [ui EXCEPT !.size = s, !.page = 1]
          PROVE  ui'.page \in Nat \ {0} /\ ui'.size \in Access!PageSizes
        BY <2>2, AccessTypes DEF AccessFields
    <2>3. CASE Access!Turn
        BY <2>1, <2>2, <2>3 DEF Access!Turn
    <2>4. CASE Access!SetTab \/ Access!ShowRole \/ Access!Search
        <3>1. ui'.page = 1 /\ ui'.size = ui.size
            BY <2>4, AccessTypes DEF AccessFields, Access!SetTab, Access!ShowRole, Access!Search
        <3>. QED  BY <3>1, AccessTypes
    <2>5. CASE Access!AskDrop \/ Access!AskRevoke \/ Access!Cancel
        BY <2>5, AccessTypes DEF AccessFields, Access!AskDrop, Access!AskRevoke, Access!Cancel
    <2>. QED  BY <2>3, <2>4, <2>5
<1>4. Granting(ui', req', connected')
    BY <1>1, <1>2, AccessGranting DEF Granting
<1>. QED  BY <1>1, <1>2, <1>3, <1>4, AccessTypes, AccessInvBut

LEMMA AccessConfirmInv ==
    ASSUME AccessInv, Access!Confirm PROVE AccessInv'
<1>1. connected' = connected /\ ui' = ui
    BY DEF Access!Confirm
<1>2. PICK r : req' = req \union {r} /\ r.kind # "grants"
    <2>1. \/ req' = req \union {[kind |-> "drop", target |-> ui.drop]}
          \/ req' = req \union {[kind |-> "revoke", target |-> ui.revoke]}
        BY DEF Access!Confirm
    <2>2. CASE req' = req \union {[kind |-> "drop", target |-> ui.drop]}
        <3>1. [kind |-> "drop", target |-> ui.drop].kind # "grants"
            OBVIOUS
        <3>. QED  BY <2>2, <3>1
    <2>3. CASE req' = req \union {[kind |-> "revoke", target |-> ui.revoke]}
        <3>1. [kind |-> "revoke", target |-> ui.revoke].kind # "grants"
            OBVIOUS
        <3>. QED  BY <2>3, <3>1
    <2>. QED  BY <2>1, <2>2, <2>3
<1>3. Granting(ui', req', connected')
    BY <1>1, <1>2, AccessGranting DEF Granting
<1>. QED  BY <1>1, <1>3, AccessTypes, AccessInvBut

LEMMA AccessDoneInv ==
    ASSUME AccessInv, Access!Done PROVE AccessInv'
<1>1. PICK r \in req : /\ r.kind # "grants" /\ req' = req \ {r}
                       /\ \/ ui' = [ui EXCEPT !.drop = None]
                          \/ ui' = [ui EXCEPT !.revoke = None]
    BY DEF Access!Done, Access!Calls
<1>2. /\ DOMAIN ui' = AccessFields /\ ui'.data = ui.data /\ ui'.grants = ui.grants
      /\ ui'.stmt = ui.stmt /\ ui'.loading = ui.loading /\ ui'.page = ui.page /\ ui'.size = ui.size
    BY <1>1, AccessTypes DEF AccessFields
<1>3. connected' = connected
    BY DEF Access!Done
<1>4. Granting(ui', req', connected')
    BY <1>1, <1>2, <1>3, AccessGranting DEF Granting
<1>. QED  BY <1>2, <1>3, <1>4, AccessTypes, AccessInvBut

\* Run aborts the request of another name, and starts its own.
LEMMA AccessRun ==
    ASSUME AccessInv, NEW u, DOMAIN u = AccessFields, u.page = ui.page, u.size = ui.size,
           u.data = ui.data, u.data # {}, NEW n, u.grants = n, Access!Run(u, n), connected' = TRUE
    PROVE  AccessInv'
<1>1. /\ DOMAIN ui' = AccessFields /\ ui'.data = ui.data /\ ui'.grants = n /\ ui'.stmt = None
      /\ ui'.page = ui.page /\ ui'.size = ui.size
    BY DEF Access!Run, AccessFields
<1>2. ui'.loading \in BOOLEAN
    BY DEF Access!Run, AccessFields
<1> DEFINE fetch == Access!Fetch(n)
<1>3. fetch.kind = "grants" /\ fetch.target = n
    BY DEF Access!Fetch
<1>4. req' = Access!Aborted \union {fetch}
    BY DEF Access!Run
<1>. HIDE DEF fetch
<1>5. \A r \in Access!Aborted : r.kind # "grants"
    BY DEF Access!Aborted, Access!Calls
<1>6. Granting(ui', req', connected')
    BY <1>1, <1>3, <1>4, <1>5 DEF Granting
<1>. QED  BY <1>1, <1>2, <1>6, AccessTypes, AccessInvBut

LEMMA AccessShowGrantsInv ==
    ASSUME AccessInv, Access!ShowGrants PROVE AccessInv'
<1>1. connected' = TRUE /\ ui.data # {}
    BY AccessTypes DEF Access!ShowGrants, Access!Reachable, Access!Body
<1>2. PICK n \in Access!Listed : Access!Run([ui EXCEPT !.grants = n], n)
    BY DEF Access!ShowGrants
<1> DEFINE u == [ui EXCEPT !.grants = n]
<1>3. /\ DOMAIN u = AccessFields /\ u.page = ui.page /\ u.size = ui.size
      /\ u.data = ui.data /\ u.grants = n
    BY AccessTypes DEF AccessFields
<1>. HIDE DEF u
<1>4. Access!Run(u, n)
    BY <1>2 DEF u
<1>. QED  BY <1>1, <1>3, <1>4, AccessRun

LEMMA AccessStatementInv ==
    ASSUME AccessInv, Access!StatementArrives \/ Access!StatementFails PROVE AccessInv'
<1>1. PICK r \in req :
        /\ r.kind = "grants" /\ req' = req \ {r}
        /\ \/ ui' = [ui EXCEPT !.stmt = r.target, !.loading = FALSE]
           \/ ui' = [ui EXCEPT !.error = TRUE, !.loading = FALSE]
    BY DEF Access!StatementArrives, Access!StatementFails, Access!Calls
<1>2. r.target = ui.grants
    BY <1>1, AccessGranting DEF Granting
<1>3. /\ DOMAIN ui' = AccessFields /\ ui'.data = ui.data /\ ui'.grants = ui.grants
      /\ ui'.stmt \in {ui.stmt, ui.grants} /\ ui'.page = ui.page /\ ui'.size = ui.size
    BY <1>1, <1>2, AccessTypes DEF AccessFields
<1>4. ui'.loading = FALSE
    BY <1>1, AccessTypes DEF AccessFields
<1>5. connected' = connected
    BY DEF Access!StatementArrives, Access!StatementFails
<1>6. Granting(ui', req', connected')
    BY <1>1, <1>3, <1>4, <1>5, AccessGranting DEF Granting
<1>. QED  BY <1>3, <1>4, <1>5, <1>6, AccessTypes, AccessInvBut

LEMMA AccessCloseGrantsInv ==
    ASSUME AccessInv, Access!CloseGrants PROVE AccessInv'
<1>1. /\ DOMAIN ui' = AccessFields /\ ui'.data = ui.data /\ ui'.grants = None
      /\ ui'.loading = ui.loading /\ ui'.page = ui.page /\ ui'.size = ui.size
    BY AccessTypes DEF AccessFields, Access!CloseGrants
<1>2. connected' = connected /\ \A r \in req' : r.kind # "grants"
    BY DEF Access!CloseGrants, Access!Aborted, Access!Calls
<1>3. Granting(ui', req', connected')
    BY <1>1, <1>2 DEF Granting
<1>. QED  BY <1>1, <1>2, <1>3, AccessTypes, AccessInvBut

LEMMA AccessConnectionInv ==
    ASSUME AccessInv, Access!Disconnect \/ Access!Connect \/ Access!Refreshed PROVE AccessInv'
<1>1. CASE Access!Disconnect
    <2>1. connected' = FALSE /\ ui' = ui /\ \A r \in req' : r.kind # "grants"
        BY <1>1 DEF Access!Disconnect, Access!Aborted, Access!Calls
    <2>2. Granting(ui', req', connected')
        BY <2>1, AccessGranting DEF Granting
    <2>. QED  BY <2>1, <2>2, AccessTypes, AccessInvBut
<1>2. CASE Access!Connect
    <2>1. connected' = TRUE
        BY <1>2 DEF Access!Connect
    <2>2. CASE ui.data # {} /\ ui.grants # None
        <3>1. Access!Run(ui, ui.grants)
            BY <1>2, <2>2 DEF Access!Connect
        <3>. QED  BY <2>1, <2>2, <3>1, AccessTypes, AccessRun
    <2>3. CASE ~ (ui.data # {} /\ ui.grants # None)
        <3>1. ui' = ui /\ req' = req
            BY <1>2, <2>3 DEF Access!Connect
        <3>2. Granting(ui', req', connected')
            BY <2>1, <2>3, <3>1, AccessGranting DEF Granting
        <3>. QED  BY <2>1, <3>1, <3>2, AccessTypes, AccessInvBut
    <2>. QED  BY <2>2, <2>3
<1>3. CASE Access!Refreshed
    <2>1. PICK o \in Access!Overviews : ui' = [ui EXCEPT !.data = {o}]
        BY <1>3 DEF Access!Refreshed
    <2>2. /\ DOMAIN ui' = AccessFields /\ ui'.data = {o} /\ ui'.grants = ui.grants
          /\ ui'.stmt = ui.stmt /\ ui'.loading = ui.loading
          /\ ui'.page = ui.page /\ ui'.size = ui.size
        BY <2>1, AccessTypes DEF AccessFields
    <2>3. connected' = connected /\ req' = req
        BY <1>3 DEF Access!Refreshed
    <2>4. Granting(ui', req', connected')
        BY <2>2, <2>3, AccessGranting DEF Granting
    <2>. QED  BY <2>2, <2>3, <2>4, AccessTypes, AccessInvBut
<1>. QED  BY <1>1, <1>2, <1>3

LEMMA AccessStepInv ==
    ASSUME AccessInv, Access!Next PROVE AccessInv'
BY AccessListsInv, AccessConfirmInv, AccessDoneInv, AccessShowGrantsInv, AccessStatementInv,
   AccessCloseGrantsInv, AccessConnectionInv DEF Access!Next

LEMMA AccessHolds ==
    ASSUME AccessInv PROVE Access!StatementIsOwn /\ Access!StatementLoads
BY DEF AccessInv, Access!StatementIsOwn

-----------------------------------------------------------------------------
(* A result                                                                *)

LEMMA ResultNoCount ==
    DOMAIN Result!NoCount = {"loading", "value", "error"} /\ Result!NoCount.loading = FALSE
BY DEF Result!NoCount

LEMMA ResultInitInv ==
    ASSUME Result!Init PROVE ResultInv
<1>1. PICK r \in Result!Results :
         ui = [result |-> r, filters |-> {}, sort |-> {}, ascending |-> TRUE,
               count |-> Result!NoCount, view |-> "table", axes |-> Result!NoAxes]
    BY DEF Result!Init
<1>2. /\ DOMAIN ui = ResultFields /\ ui.result \in Result!Results
      /\ ui.count = Result!NoCount /\ ui.axes = {}
    BY <1>1 DEF ResultFields, Result!NoAxes
<1>. QED  BY <1>2, ResultNoCount DEF ResultInv, Result!CountEnds

\* What axes a render may leave: those of the result that it shows.
OwnAxes(axes, r) ==
    \A a \in axes :
        /\ a \in [x : Columns \union {RowNumber}, y : SUBSET Columns]
        /\ a.x \in r.columns \union {RowNumber}
        /\ a.y \subseteq r.numeric

LEMMA ResultAxes ==
    ASSUME ResultInv, NEW r \in Result!Results, NEW view, NEW axes \in Result!Axes(ui, view, r)
    PROVE  OwnAxes(axes, r)
<1>1. CASE ~ Result!Charts(view, r)
    BY <1>1 DEF Result!Axes, Result!NoAxes, OwnAxes
<1>2. CASE Result!Charts(view, r) /\ ui.axes # Result!NoAxes /\ r = ui.result
    <2>1. axes = ui.axes
        BY <1>2 DEF Result!Axes
    <2>. QED  BY <1>2, <2>1 DEF ResultInv, OwnAxes
<1>3. CASE Result!Charts(view, r) /\ ~ (ui.axes # Result!NoAxes /\ r = ui.result)
    <2>1. PICK a \in Result!FirstAxes(r) : axes = {a}
        BY <1>3 DEF Result!Axes
    <2>2. /\ a \in [x : Columns \union {RowNumber}, y : SUBSET Columns]
          /\ a.x \in Result!XColumns(r) /\ a.y \subseteq r.numeric
        BY <2>1 DEF Result!FirstAxes
    <2>3. Result!XColumns(r) \subseteq r.columns \union {RowNumber}
        BY DEF Result!XColumns
    <2>. QED  BY <2>1, <2>2, <2>3 DEF OwnAxes
<1>. QED  BY <1>1, <1>2, <1>3

LEMMA ResultInvBut ==
    ASSUME DOMAIN ui' = ResultFields, ui'.result \in Result!Results,
           OwnAxes(ui'.axes, ui'.result),
           DOMAIN ui'.count = {"loading", "value", "error"}, ui'.count.loading \in BOOLEAN,
           ui'.count.loading => req' # {}
    PROVE  ResultInv'
BY DEF ResultInv, OwnAxes, Result!CountEnds

LEMMA ResultTypes ==
    ASSUME ResultInv
    PROVE  /\ DOMAIN ui = ResultFields /\ ui.result \in Result!Results
           /\ OwnAxes(ui.axes, ui.result)
           /\ DOMAIN ui.count = {"loading", "value", "error"} /\ ui.count.loading \in BOOLEAN
           /\ ui.count.loading => req # {}
BY DEF ResultInv, OwnAxes, Result!CountEnds

LEMMA ResultRendersInv ==
    ASSUME ResultInv, Result!Show \/ Result!SetView \/ Result!Unmount
    PROVE  ResultInv'
<1>1. CASE Result!Show
    <2>0. PICK r \in Result!Results : \E axes \in Result!Axes(ui, ui.view, r) :
            ui' = [ui EXCEPT !.result = r, !.axes = axes]
        BY <1>1 DEF Result!Show
    <2>1. PICK axes \in Result!Axes(ui, ui.view, r) :
            ui' = [ui EXCEPT !.result = r, !.axes = axes]
        BY <2>0
    <2>2. /\ DOMAIN ui' = ResultFields /\ ui'.result = r /\ ui'.axes = axes /\ ui'.count = ui.count
        BY <2>1, ResultTypes DEF ResultFields
    <2>3. req' = req
        BY <1>1 DEF Result!Show
    <2>. QED  BY <2>2, <2>3, ResultTypes, ResultAxes, ResultInvBut
<1>2. CASE Result!SetView
    <2>0. PICK v \in {"table", "chart"} : \E axes \in Result!Axes(ui, v, ui.result) :
            ui' = [ui EXCEPT !.view = v, !.axes = axes]
        BY <1>2 DEF Result!SetView
    <2>1. PICK axes \in Result!Axes(ui, v, ui.result) :
            ui' = [ui EXCEPT !.view = v, !.axes = axes]
        BY <2>0
    <2>2. /\ DOMAIN ui' = ResultFields /\ ui'.result = ui.result /\ ui'.axes = axes
          /\ ui'.count = ui.count
        BY <2>1, ResultTypes DEF ResultFields
    <2>3. req' = req
        BY <1>2 DEF Result!SetView
    <2>. QED  BY <2>2, <2>3, ResultTypes, ResultAxes, ResultInvBut
<1>3. CASE Result!Unmount
    <2>1. /\ DOMAIN ui' = ResultFields /\ ui'.result = ui.result /\ ui'.axes = {}
          /\ ui'.count = Result!NoCount
        BY <1>3, ResultTypes DEF Result!Unmount, Result!NoAxes, ResultFields
    <2>2. OwnAxes({}, ui.result)
        BY DEF OwnAxes
    <2>. QED  BY <2>1, <2>2, ResultTypes, ResultNoCount, ResultInvBut
<1>. QED  BY <1>1, <1>2, <1>3

LEMMA ResultChartInv ==
    ASSUME ResultInv, Result!SetX \/ Result!ToggleY PROVE ResultInv'
<1>1. \A b : b \in Result!Results => b.columns \subseteq Columns /\ b.numeric \subseteq Columns
    BY DEF Result!Results
<1>2. ASSUME NEW b, ui' = [ui EXCEPT !.axes = {b}], req' = req, OwnAxes({b}, ui.result)
      PROVE  ResultInv'
    <2>1. /\ DOMAIN ui' = ResultFields /\ ui'.result = ui.result /\ ui'.axes = {b}
          /\ ui'.count = ui.count
        BY <1>2, ResultTypes DEF ResultFields
    <2>. QED  BY <1>2, <2>1, ResultTypes, ResultInvBut
<1>3. CASE Result!SetX
    <2>1. PICK a \in ui.axes, x \in ui.result.columns \union {RowNumber} :
            ui' = [ui EXCEPT !.axes = {[a EXCEPT !.x = x]}]
        BY <1>3 DEF Result!SetX
    <2>2. OwnAxes({[a EXCEPT !.x = x]}, ui.result)
        BY <1>1, <2>1, ResultTypes DEF OwnAxes
    <2>. QED  BY <1>2, <1>3, <2>1, <2>2 DEF Result!SetX
<1>4. CASE Result!ToggleY
    <2>1. PICK a \in ui.axes, c \in ui.result.numeric :
            ui' = [ui EXCEPT !.axes = {[a EXCEPT !.y = IF c \in @ THEN @ \ {c} ELSE @ \union {c}]}]
        BY <1>4 DEF Result!ToggleY
    <2>2. OwnAxes({[a EXCEPT !.y = IF c \in @ THEN @ \ {c} ELSE @ \union {c}]}, ui.result)
        BY <1>1, <2>1, ResultTypes DEF OwnAxes
    <2>. QED  BY <1>2, <1>4, <2>1, <2>2 DEF Result!ToggleY
<1>. QED  BY <1>3, <1>4

LEMMA ResultTableInv ==
    ASSUME ResultInv, Result!Filter \/ Result!ToggleSort PROVE ResultInv'
<1>1. /\ DOMAIN ui' = ResultFields /\ ui'.result = ui.result /\ ui'.axes = ui.axes
      /\ ui'.count = ui.count
    BY ResultTypes DEF Result!Filter, Result!ToggleSort, ResultFields
<1>2. req' = req
    BY DEF Result!Filter, Result!ToggleSort
<1>. QED  BY <1>1, <1>2, ResultTypes, ResultInvBut

LEMMA ResultCountsInv ==
    ASSUME ResultInv, Result!CountAllRows \/ Result!CountArrives \/ Result!CountFails
    PROVE  ResultInv'
<1>1. ASSUME NEW c, ui' = [ui EXCEPT !.count = c], DOMAIN c = {"loading", "value", "error"},
             c.loading \in BOOLEAN, c.loading => req' # {}
      PROVE  ResultInv'
    <2>1. /\ DOMAIN ui' = ResultFields /\ ui'.result = ui.result /\ ui'.axes = ui.axes
          /\ ui'.count = c
        BY <1>1, ResultTypes DEF ResultFields
    <2>. QED  BY <1>1, <2>1, ResultTypes, ResultInvBut
<1>2. CASE Result!CountAllRows
    <2> DEFINE c == [Result!NoCount EXCEPT !.loading = TRUE]
    <2>1. ui' = [ui EXCEPT !.count = c] /\ req' # {}
        BY <1>2 DEF Result!CountAllRows
    <2>2. DOMAIN c = {"loading", "value", "error"} /\ c.loading = TRUE
        BY ResultNoCount
    <2>. HIDE DEF c
    <2>. QED  BY <1>1, <2>1, <2>2
<1>3. CASE Result!CountArrives
    <2>1. PICK r \in req : ui' = [ui EXCEPT !.count = [Result!NoCount EXCEPT !.value = {r}]]
        BY <1>3 DEF Result!CountArrives
    <2> DEFINE c == [Result!NoCount EXCEPT !.value = {r}]
    <2>2. DOMAIN c = {"loading", "value", "error"} /\ c.loading = FALSE
        BY ResultNoCount
    <2>3. ui' = [ui EXCEPT !.count = c]
        BY <2>1
    <2>. HIDE DEF c
    <2>. QED  BY <1>1, <2>2, <2>3
<1>4. CASE Result!CountFails
    <2> DEFINE c == [Result!NoCount EXCEPT !.error = TRUE]
    <2>1. ui' = [ui EXCEPT !.count = c]
        BY <1>4 DEF Result!CountFails
    <2>2. DOMAIN c = {"loading", "value", "error"} /\ c.loading = FALSE
        BY ResultNoCount
    <2>. HIDE DEF c
    <2>. QED  BY <1>1, <2>1, <2>2
<1>. QED  BY <1>2, <1>3, <1>4

LEMMA ResultHolds ==
    ASSUME ResultInv PROVE Result!ChartIsOwn /\ Result!CountEnds
<1>1. Result!ChartIsOwn
    <2>1. SUFFICES ASSUME NEW a \in ui.axes
                   PROVE  /\ \A line \in Result!Lines(a) : line[2] \in ui.result.numeric
                          /\ a.x \in ui.result.columns \union {RowNumber}
        BY DEF Result!ChartIsOwn
    <2>2. a.y \subseteq ui.result.numeric /\ a.x \in ui.result.columns \union {RowNumber}
        BY DEF ResultInv
    <2>3. \A c \in a.y : Result!Points(a)[c] = c
        BY DEF Result!Points
    <2>4. ASSUME NEW line \in Result!Lines(a) PROVE line[2] \in ui.result.numeric
        <3>1. PICK c \in a.y : line = <<c, Result!Points(a)[c]>>
            BY DEF Result!Lines
        <3>. QED  BY <2>2, <2>3, <3>1
    <2>. QED  BY <2>2, <2>4
<1>. QED  BY <1>1 DEF ResultInv

LEMMA ResultStepInv ==
    ASSUME ResultInv, Result!Next PROVE ResultInv'
BY ResultRendersInv, ResultChartInv, ResultTableInv, ResultCountsInv DEF Result!Next

-----------------------------------------------------------------------------
(* The single-table optimizer                                              *)

LEMMA OptimizerInitInv ==
    ASSUME Optimizer!Init PROVE OptimizerInv
<1>1. PICK link \in Optimizer!Links : ui = Optimizer!Selected(link)
    BY DEF Optimizer!Init
<1>2. /\ DOMAIN ui = OptimizerFields /\ ui.loading = FALSE /\ ui.mute = FALSE
      /\ ui.cache = [d \in Databases |-> NoTable]
    BY <1>1 DEF Optimizer!Selected, OptimizerFields
<1>. QED  BY <1>2 DEF OptimizerInv, Optimizer!CacheIsOwn, Optimizer!SpinnerEnds

\* An analysis that will end the spinner.
Owed(r) == r.what = "analysis" \/ (r.what = "stream" /\ r.held /\ ~ r.told)

LEMMA OptimizerOwes ==
    ASSUME OptimizerInv
    PROVE  /\ DOMAIN ui = OptimizerFields /\ ui.loading \in BOOLEAN /\ ui.mute \in BOOLEAN
           /\ ui.loading => ui.mute \/ \E r \in req : Owed(r)
BY DEF OptimizerInv, Optimizer!SpinnerEnds, Optimizer!Streams, Owed

\* A step that leaves the cache alone.
LEMMA OptimizerInvBut ==
    ASSUME OptimizerInv, DOMAIN ui' = OptimizerFields, ui'.loading \in BOOLEAN, ui'.cache = ui.cache,
           ui'.mute \in BOOLEAN, ui'.loading => ui'.mute \/ \E r \in req' : Owed(r)
    PROVE  OptimizerInv'
BY DEF OptimizerInv, Optimizer!CacheIsOwn, Optimizer!SpinnerEnds, Optimizer!Streams, Owed

LEMMA OptimizerRunsInv ==
    ASSUME OptimizerInv, NEW u, DOMAIN u = OptimizerFields, u.loading = ui.loading,
           u.cache = ui.cache, u.mute = ui.mute, Optimizer!RunAnalysis(u)
    PROVE  OptimizerInv'
<1>1. /\ DOMAIN ui = OptimizerFields /\ ui.loading \in BOOLEAN /\ ui.mute \in BOOLEAN
      /\ ui.loading => ui.mute \/ \E r \in req : Owed(r)
    BY OptimizerOwes
<1>2. CASE u.mode = "single" /\ Optimizer!Unready(u)
    <2>1. ui' = u /\ req' = req
        BY <1>2 DEF Optimizer!RunAnalysis
    <2>. QED  BY <1>1, <2>1, OptimizerInvBut
<1>3. CASE u.mode = "single" /\ ~ Optimizer!Unready(u)
    <2>1. /\ ui' = [u EXCEPT !.loading = TRUE, !.error = FALSE, !.shown = <<>>, !.mute = FALSE]
          /\ req' = req \union {Optimizer!Analysis(u.db, u.table)}
        BY <1>3 DEF Optimizer!RunAnalysis
    <2>2. /\ DOMAIN ui' = OptimizerFields /\ ui'.loading = TRUE /\ ui'.mute = FALSE
          /\ ui'.cache = ui.cache
        BY <2>1 DEF OptimizerFields
    <2>3. Owed(Optimizer!Analysis(u.db, u.table))
        BY DEF Optimizer!Analysis, Owed
    <2>. QED  BY <2>1, <2>2, <2>3, OptimizerInvBut
<1>4. CASE u.mode # "single"
    <2>1. /\ ui' = [u EXCEPT !.loading = TRUE, !.error = FALSE, !.mute = FALSE]
          /\ Optimizer!Stream \in req'
        BY <1>4 DEF Optimizer!RunAnalysis
    <2>2. /\ DOMAIN ui' = OptimizerFields /\ ui'.loading = TRUE /\ ui'.mute = FALSE
          /\ ui'.cache = ui.cache
        BY <2>1 DEF OptimizerFields
    <2>3. Owed(Optimizer!Stream)
        BY DEF Optimizer!Stream, Owed
    <2>. QED  BY <2>1, <2>2, <2>3, OptimizerInvBut
<1>. QED  BY <1>2, <1>3, <1>4

LEMMA OptimizerStartsInv ==
    ASSUME OptimizerInv, Optimizer!Follow \/ Optimizer!Connect \/ Optimizer!Analyze
    PROVE  OptimizerInv'
<1>1. /\ DOMAIN ui = OptimizerFields /\ ui.loading \in BOOLEAN /\ ui.mute \in BOOLEAN
      /\ ui.loading => ui.mute \/ \E r \in req : Owed(r)
    BY OptimizerOwes
<1>2. CASE Optimizer!Follow
    <2>1. PICK link : \/ Optimizer!RunAnalysis([ui EXCEPT !.url = link])
                      \/ ui' = [ui EXCEPT !.url = link] /\ req' = req
        BY <1>2 DEF Optimizer!Follow
    <2> DEFINE u == [ui EXCEPT !.url = link]
    <2>2. /\ DOMAIN u = OptimizerFields /\ u.loading = ui.loading /\ u.cache = ui.cache
          /\ u.mute = ui.mute
        BY <1>1 DEF OptimizerFields
    <2>. QED  BY <1>1, <2>1, <2>2, OptimizerRunsInv, OptimizerInvBut
<1>3. CASE Optimizer!Connect
    <2>1. Optimizer!RunAnalysis(ui) \/ (ui' = ui /\ req' = req)
        BY <1>3 DEF Optimizer!Connect
    <2>. QED  BY <1>1, <2>1, OptimizerRunsInv, OptimizerInvBut
<1>4. CASE Optimizer!Analyze
    BY <1>1, <1>4, OptimizerRunsInv DEF Optimizer!Analyze
<1>. QED  BY <1>2, <1>3, <1>4

LEMMA OptimizerEndsInv ==
    ASSUME OptimizerInv,
           \/ Optimizer!AnalysisArrives \/ Optimizer!StreamTells \/ Optimizer!StreamEnds
           \/ Optimizer!ConfirmStop
    PROVE  OptimizerInv'
<1>1. /\ DOMAIN ui = OptimizerFields /\ ui.loading \in BOOLEAN /\ ui.mute \in BOOLEAN
      /\ ui.loading => ui.mute \/ \E r \in req : Owed(r)
    BY OptimizerOwes
<1>2. ASSUME ui'.loading = FALSE, DOMAIN ui' = OptimizerFields, ui'.cache = ui.cache,
             ui'.mute = ui.mute
      PROVE  OptimizerInv'
    BY <1>1, <1>2, OptimizerInvBut
<1>3. CASE Optimizer!AnalysisArrives
    <2>1. /\ ui'.loading = FALSE /\ DOMAIN ui' = OptimizerFields /\ ui'.cache = ui.cache
          /\ ui'.mute = ui.mute
        BY <1>1, <1>3 DEF Optimizer!AnalysisArrives, OptimizerFields
    <2>. QED  BY <1>2, <2>1
<1>4. CASE Optimizer!StreamTells \/ Optimizer!ConfirmStop
    <2>1. /\ ui'.loading = FALSE /\ DOMAIN ui' = OptimizerFields /\ ui'.cache = ui.cache
          /\ ui'.mute = ui.mute
        BY <1>1, <1>4 DEF Optimizer!StreamTells, Optimizer!ConfirmStop, Optimizer!Stopped,
            OptimizerFields
    <2>. QED  BY <1>2, <2>1
<1>5. CASE Optimizer!StreamEnds
    <2>1. PICK r \in req :
            /\ r.what = "stream" /\ req' = req \ {r}
            /\ \/ ui' = [ui EXCEPT !.mute = @ \/ (r.held /\ ~ r.told)]
               \/ ui' = [ui EXCEPT !.error = TRUE, !.loading = FALSE]
        BY <1>5 DEF Optimizer!StreamEnds, Optimizer!Streams
    <2>2. CASE ui' = [ui EXCEPT !.error = TRUE, !.loading = FALSE]
        <3>1. /\ ui'.loading = FALSE /\ DOMAIN ui' = OptimizerFields /\ ui'.cache = ui.cache
              /\ ui'.mute = ui.mute
            BY <1>1, <2>2 DEF OptimizerFields
        <3>. QED  BY <1>2, <3>1
    <2>3. CASE ui' = [ui EXCEPT !.mute = @ \/ (r.held /\ ~ r.told)]
        <3>1. /\ DOMAIN ui' = OptimizerFields /\ ui'.loading = ui.loading /\ ui'.cache = ui.cache
              /\ ui'.mute = (ui.mute \/ (r.held /\ ~ r.told))
            BY <1>1, <2>3 DEF OptimizerFields
        <3>2. ui'.loading => ui'.mute \/ \E q \in req' : Owed(q)
            <4>1. Owed(r) => ui'.mute
                BY <2>1, <3>1 DEF Owed
            <4>. QED  BY <1>1, <2>1, <3>1, <4>1
        <3>. QED  BY <1>1, <3>1, <3>2, OptimizerInvBut
    <2>. QED  BY <2>1, <2>2, <2>3
<1>. QED  BY <1>3, <1>4, <1>5

\* A selection may ask for a list of tables, and keeps every request.
LEMMA OptimizerSelectsInv ==
    ASSUME OptimizerInv,
           \/ Optimizer!Disconnect \/ Optimizer!AskStop \/ Optimizer!CancelStop
           \/ Optimizer!SetMode \/ Optimizer!SelectDb \/ Optimizer!SelectTable
    PROVE  OptimizerInv'
<1>1. /\ DOMAIN ui = OptimizerFields /\ ui.loading \in BOOLEAN /\ ui.mute \in BOOLEAN
      /\ ui.loading => ui.mute \/ \E r \in req : Owed(r)
    BY OptimizerOwes
<1>2. CASE Optimizer!SelectDb
    <2>1. PICK d : Optimizer!Listing([ui EXCEPT !.db = d, !.table = NoTable], req)
        BY <1>2 DEF Optimizer!SelectDb
    <2> DEFINE u == [ui EXCEPT !.db = d, !.table = NoTable]
    <2>2. /\ DOMAIN u = OptimizerFields /\ u.loading = ui.loading /\ u.cache = ui.cache
          /\ u.mute = ui.mute
        BY <1>1 DEF OptimizerFields
    <2>3. Optimizer!Listing(u, req)
        BY <2>1
    <2>. HIDE DEF u
    <2>4. req \subseteq req' /\ (ui' = u \/ \E l : ui' = [u EXCEPT !.tables = l])
        BY <2>3 DEF Optimizer!Listing
    <2>5. /\ DOMAIN ui' = OptimizerFields /\ ui'.loading = ui.loading /\ ui'.cache = ui.cache
          /\ ui'.mute = ui.mute
        BY <2>2, <2>4 DEF OptimizerFields
    <2>. QED  BY <1>1, <2>4, <2>5, OptimizerInvBut
<1>3. CASE \/ Optimizer!Disconnect \/ Optimizer!AskStop \/ Optimizer!CancelStop
           \/ Optimizer!SetMode \/ Optimizer!SelectTable
    <2>1. /\ DOMAIN ui' = OptimizerFields /\ ui'.loading = ui.loading /\ ui'.cache = ui.cache
          /\ ui'.mute = ui.mute /\ req' = req
        BY <1>1, <1>3 DEF Optimizer!Disconnect, Optimizer!AskStop, Optimizer!CancelStop,
            Optimizer!SetMode, Optimizer!SelectTable, OptimizerFields
    <2>. QED  BY <1>1, <2>1, OptimizerInvBut
<1>. QED  BY <1>2, <1>3

\* A list is filed under the database that it was asked of.
LEMMA OptimizerListsInv ==
    ASSUME OptimizerInv, Optimizer!TablesArrive PROVE OptimizerInv'
<1>1. DOMAIN ui.cache = Databases /\ Optimizer!CacheIsOwn
    BY DEF OptimizerInv
<1>2. /\ DOMAIN ui = OptimizerFields /\ ui.loading \in BOOLEAN /\ ui.mute \in BOOLEAN
      /\ ui.loading => ui.mute \/ \E r \in req : Owed(r)
    BY OptimizerOwes
<1>3. PICK r \in req :
        /\ r.what = "tables" /\ req' = req \ {r}
        /\ ui' = ui \/ ui' = [ui EXCEPT !.tables = r.of, !.cache = Optimizer!Filed(r.of)]
    BY DEF Optimizer!TablesArrive
<1>4. /\ DOMAIN ui' = OptimizerFields /\ ui'.loading = ui.loading /\ ui'.mute = ui.mute
      /\ ui'.cache = ui.cache \/ ui'.cache = [ui.cache EXCEPT ![r.of] = r.of]
    BY <1>2, <1>3 DEF OptimizerFields, Optimizer!Filed
<1>5. DOMAIN ui'.cache = Databases /\ Optimizer!CacheIsOwn'
    BY <1>1, <1>4 DEF Optimizer!CacheIsOwn
<1>6. ui'.loading => ui'.mute \/ \E q \in req' : Owed(q)
    <2>1. ~ Owed(r)
        BY <1>3 DEF Owed
    <2>. QED  BY <1>2, <1>3, <1>4, <2>1
<1>7. Optimizer!SpinnerEnds'
    BY <1>6 DEF Optimizer!SpinnerEnds, Optimizer!Streams, Owed
<1>. QED  BY <1>2, <1>4, <1>5, <1>7 DEF OptimizerInv

LEMMA OptimizerStepInv ==
    ASSUME OptimizerInv, Optimizer!Next PROVE OptimizerInv'
BY OptimizerStartsInv, OptimizerEndsInv, OptimizerSelectsInv, OptimizerListsInv
   DEF Optimizer!Next

-----------------------------------------------------------------------------
(* The editor                                                              *)

LEMMA EditorOpened ==
    ASSUME NEW tabs \in Seq(EditorTabs), NEW i \in 1 .. Len(tabs)
    PROVE  Opened(tabs, tabs[i].id) /\ tabs[i].sql \in Words
<1>1. tabs[i] \in EditorTabs /\ DOMAIN tabs = 1 .. Len(tabs)
    OBVIOUS
<1>. QED  BY <1>1 DEF Opened, EditorTabs, Editor!IdsOf

\* The active tab is one of the tabs.
LEMMA EditorActive ==
    ASSUME NEW tabs, NEW active, Opened(tabs, active)
    PROVE  /\ Editor!Of(tabs, active) \in 1 .. Len(tabs)
           /\ tabs[Editor!Of(tabs, active)].id = active
<1>1. \E i \in DOMAIN tabs : tabs[i].id = active
    BY DEF Opened, Editor!IdsOf
<1>2. DOMAIN tabs = 1 .. Len(tabs)
    BY DEF Opened
<1>3. Editor!Of(tabs, active) \in DOMAIN tabs /\ tabs[Editor!Of(tabs, active)].id = active
    BY <1>1 DEF Editor!Of
<1>. QED  BY <1>2, <1>3

\* A change of the tabs is stored with them.
LEMMA EditorChange ==
    ASSUME EditorInv, NEW u, DOMAIN u = EditorFields, Opened(u.tabs, u.active), Editor!Change(u)
    PROVE  EditorInv'
<1>1. /\ ui' = u /\ req' = req
      /\ disk' = [disk EXCEPT !.tabs = u.tabs, !.active = u.active]
    BY DEF Editor!Change, Editor!Persisted
<1>2. /\ DOMAIN disk' = EditorFields /\ disk'.tabs = u.tabs /\ disk'.active = u.active
      /\ disk'.history = disk.history
    BY <1>1 DEF EditorInv, EditorFields
<1>. QED  BY <1>1, <1>2 DEF EditorInv, Opened, Kept, Editor!IdsOf

LEMMA EditorTyped ==
    ASSUME EditorInv, NEW word \in Words, Editor!Change([ui EXCEPT !.tabs[Editor!Active].sql = word])
    PROVE  EditorInv'
<1> DEFINE a == Editor!Active
           tabs == [ui.tabs EXCEPT ![a] = [ui.tabs[a] EXCEPT !.sql = word]]
           u == [ui EXCEPT !.tabs[a].sql = word]
<1>1. Opened(ui.tabs, ui.active) /\ DOMAIN ui = EditorFields
    BY DEF EditorInv
<1>2. /\ DOMAIN u = EditorFields /\ u.active = ui.active
      /\ u.tabs = [ui.tabs EXCEPT ![a].sql = word]
    BY <1>1 DEF EditorFields
<1>3. [ui.tabs EXCEPT ![a].sql = word] = tabs
    OBVIOUS
<1>4. a \in 1 .. Len(ui.tabs)
    BY <1>1, EditorActive DEF Editor!Active
<1>. HIDE DEF a, u
<1>5. [ui.tabs[a] EXCEPT !.sql = word] \in EditorTabs /\ [ui.tabs[a] EXCEPT !.sql = word].id = ui.tabs[a].id
    <2>1. ui.tabs[a] \in EditorTabs
        BY <1>1, <1>4 DEF Opened
    <2>. QED  BY <2>1 DEF EditorTabs
<1>6. tabs \in Seq(EditorTabs) /\ DOMAIN tabs = DOMAIN ui.tabs
    BY <1>1, <1>4, <1>5, ExceptSeq DEF Opened
<1>7. \A i \in DOMAIN ui.tabs : tabs[i].id = ui.tabs[i].id
    BY <1>1, <1>4, <1>5 DEF Opened
<1>. HIDE DEF tabs
<1>8. Opened(tabs, ui.active)
    BY <1>1, <1>6, <1>7 DEF Opened, Editor!IdsOf
<1>9. Editor!Change(u)
    BY DEF u, a
<1>. QED  BY <1>2, <1>3, <1>8, <1>9, EditorChange

LEMMA EditorAddTabInv ==
    ASSUME EditorInv, NEW word \in Words, Editor!AddTab(word) PROVE EditorInv'
<1>1. PICK id \in TabIds :
         Editor!Change([ui EXCEPT !.tabs = Append(@, Editor!Tab(id, word)), !.active = id])
    BY DEF Editor!AddTab
<1> DEFINE tabs == Append(ui.tabs, Editor!Tab(id, word))
           u == [ui EXCEPT !.tabs = tabs, !.active = id]
<1>2. Opened(ui.tabs, ui.active) /\ DOMAIN ui = EditorFields
    BY DEF EditorInv
<1>3. DOMAIN u = EditorFields /\ u.tabs = tabs /\ u.active = id
    BY <1>2 DEF EditorFields
<1>4. Editor!Change(u)
    BY <1>1
<1>5. Editor!Tab(id, word) \in EditorTabs /\ Editor!Tab(id, word).id = id
    BY DEF EditorTabs, Editor!Tab
<1>6. /\ tabs \in Seq(EditorTabs) /\ Len(tabs) = Len(ui.tabs) + 1 /\ Len(tabs) \in 1 .. Len(tabs)
      /\ tabs[Len(tabs)] = Editor!Tab(id, word)
    BY <1>2, <1>5 DEF Opened
<1>. HIDE DEF tabs, u
<1>7. Opened(tabs, id)
    BY <1>5, <1>6, EditorOpened
<1>. QED  BY <1>3, <1>4, <1>7, EditorChange

\* Without one of its elements a sequence is shorter, and keeps the others.
LEMMA EditorRemoveAt ==
    ASSUME NEW tabs \in Seq(EditorTabs), NEW i \in 1 .. Len(tabs)
    PROVE  /\ Editor!RemoveAt(tabs, i) \in Seq(EditorTabs)
           /\ Len(Editor!RemoveAt(tabs, i)) = Len(tabs) - 1
           /\ \A j \in 1 .. Len(tabs) : j < i => Editor!RemoveAt(tabs, i)[j] = tabs[j]
           /\ \A j \in 1 .. Len(tabs) : j > i => Editor!RemoveAt(tabs, i)[j - 1] = tabs[j]
<1> DEFINE front == SubSeq(tabs, 1, i - 1)
           back == SubSeq(tabs, i + 1, Len(tabs))
<1>1. Editor!RemoveAt(tabs, i) = front \o back
    BY DEF Editor!RemoveAt
<1>2. /\ front \in Seq(EditorTabs) /\ Len(front) = i - 1
      /\ \A j \in 1 .. i - 1 : front[j] = tabs[j]
    OBVIOUS
<1>3. /\ back \in Seq(EditorTabs) /\ Len(back) = Len(tabs) - i
      /\ \A j \in 1 .. Len(tabs) - i : back[j] = tabs[i + j]
    OBVIOUS
<1>. HIDE DEF front, back
<1>4. /\ front \o back \in Seq(EditorTabs) /\ Len(front \o back) = Len(tabs) - 1
      /\ \A j \in 1 .. i - 1 : (front \o back)[j] = front[j]
      /\ \A j \in i .. Len(tabs) - 1 : (front \o back)[j] = back[j - (i - 1)]
    BY <1>2, <1>3
<1>5. ASSUME NEW j \in 1 .. Len(tabs), j < i PROVE (front \o back)[j] = tabs[j]
    BY <1>2, <1>4, <1>5
<1>6. ASSUME NEW j \in 1 .. Len(tabs), j > i PROVE (front \o back)[j - 1] = tabs[j]
    <2>1. j - 1 \in i .. Len(tabs) - 1 /\ j - i \in 1 .. Len(tabs) - i
        BY <1>6
    <2>2. (front \o back)[j - 1] = back[(j - 1) - (i - 1)]
        BY <1>4, <2>1
    <2>3. (j - 1) - (i - 1) = j - i /\ i + (j - i) = j
        OBVIOUS
    <2>. QED  BY <1>3, <2>1, <2>2, <2>3
<1>. QED  BY <1>1, <1>4, <1>5, <1>6

LEMMA EditorCloseTabInv ==
    ASSUME EditorInv, NEW i, Editor!CloseTab(i) PROVE EditorInv'
<1> DEFINE next == Editor!RemoveAt(ui.tabs, i)
           at == IF i <= Len(next) THEN i ELSE Len(next)
           active == IF ui.active = ui.tabs[i].id THEN next[at].id ELSE ui.active
           u == [ui EXCEPT !.tabs = next, !.active = active]
<1>1. ui.tabs \in Seq(EditorTabs) /\ Opened(ui.tabs, ui.active) /\ DOMAIN ui = EditorFields
    BY DEF EditorInv, Opened
<1>2. i \in 1 .. Len(ui.tabs) /\ Len(ui.tabs) > 1
    BY <1>1 DEF Editor!CloseTab
<1>3. Editor!Change(u)
    BY <1>1 DEF Editor!CloseTab, Editor!Closed, EditorFields
<1>4. DOMAIN u = EditorFields /\ u.tabs = next /\ u.active = active
    BY <1>1 DEF EditorFields
<1>5. /\ next \in Seq(EditorTabs) /\ Len(next) = Len(ui.tabs) - 1
      /\ \A j \in 1 .. Len(ui.tabs) : j < i => next[j] = ui.tabs[j]
      /\ \A j \in 1 .. Len(ui.tabs) : j > i => next[j - 1] = ui.tabs[j]
    BY <1>1, <1>2, EditorRemoveAt
<1>. HIDE DEF next, u
<1>6. CASE ui.active = ui.tabs[i].id
    <2>1. at \in 1 .. Len(next)
        BY <1>2, <1>5
    <2>2. active = next[at].id
        BY <1>6
    <2>3. Opened(next, active)
        BY <1>5, <2>1, <2>2, EditorOpened
    <2>. QED  BY <1>3, <1>4, <2>3, EditorChange
<1>7. CASE ui.active # ui.tabs[i].id
    <2> DEFINE j == Editor!Of(ui.tabs, ui.active)
               k == IF j < i THEN j ELSE j - 1
    <2>1. j \in 1 .. Len(ui.tabs) /\ ui.tabs[j].id = ui.active
        BY <1>1, EditorActive
    <2>. HIDE DEF j
    <2>2. j # i
        BY <1>7, <2>1
    <2>3. k \in 1 .. Len(next) /\ next[k].id = ui.active
        BY <1>2, <1>5, <2>1, <2>2
    <2>4. active = ui.active
        BY <1>7
    <2>. HIDE DEF k
    <2>5. Opened(next, active)
        BY <1>5, <2>3, <2>4, EditorOpened
    <2>. QED  BY <1>3, <1>4, <2>5, EditorChange
<1>. QED  BY <1>6, <1>7

LEMMA EditorActivateInv ==
    ASSUME EditorInv, NEW i, Editor!Activate(i) PROVE EditorInv'
<1> DEFINE u == [ui EXCEPT !.active = ui.tabs[i].id]
<1>1. ui.tabs \in Seq(EditorTabs) /\ DOMAIN ui = EditorFields
    BY DEF EditorInv, Opened
<1>2. i \in 1 .. Len(ui.tabs) /\ Editor!Change(u)
    BY <1>1 DEF Editor!Activate
<1>3. DOMAIN u = EditorFields /\ u.tabs = ui.tabs /\ u.active = ui.tabs[i].id
    BY <1>1 DEF EditorFields
<1>. HIDE DEF u
<1>. QED  BY <1>1, <1>2, <1>3, EditorOpened, EditorChange

\* What a run adds to the history is another word than the newest.
LEMMA EditorAdded ==
    ASSUME Kept(disk.history), NEW word \in Words PROVE Kept(Editor!Added(word))
<1> DEFINE h == disk.history
           list == <<word>> \o h
           m == IF Len(list) < MaxHistory THEN Len(list) ELSE MaxHistory
           kept == SubSeq(list, 1, m)
<1>1. CASE h # <<>> /\ h[1] = word
    BY <1>1 DEF Editor!Added
<1>2. CASE ~ (h # <<>> /\ h[1] = word)
    <2>1. Editor!Added(word) = kept
        BY <1>2 DEF Editor!Added, Editor!Newest
    <2>2. h \in Seq(Words) /\ \A i \in 1 .. Len(h) - 1 : h[i] # h[i + 1]
        BY DEF Kept
    <2>. HIDE DEF h
    <2>3. /\ list \in Seq(Words) /\ Len(list) = Len(h) + 1 /\ list[1] = word
          /\ \A i \in 1 .. Len(h) : list[i + 1] = h[i]
        BY <2>2
    <2>4. Len(h) # 0 => h[1] # word
        BY <1>2, <2>2
    <2>. HIDE DEF list
    <2>5. \A i \in 1 .. Len(list) - 1 : list[i] # list[i + 1]
        <3>1. SUFFICES ASSUME NEW i \in 1 .. Len(h) PROVE list[i] # list[i + 1]
            BY <2>2, <2>3
        <3>2. CASE i = 1
            BY <2>2, <2>3, <2>4, <3>2
        <3>3. CASE i # 1
            <4>1. i - 1 \in 1 .. Len(h) - 1 /\ (i - 1) + 1 = i
                BY <2>2, <3>3
            <4>2. list[i] = h[i - 1] /\ list[i + 1] = h[i]
                BY <2>2, <2>3, <4>1
            <4>. QED  BY <2>2, <4>1, <4>2
        <3>. QED  BY <3>2, <3>3
    <2>6. m \in 0 .. Len(list) /\ m <= MaxHistory
        BY <2>3, EditorAssumption
    <2>. HIDE DEF m
    <2>7. kept \in Seq(Words) /\ Len(kept) = m /\ \A i \in 1 .. m : kept[i] = list[i]
        BY <2>3, <2>6
    <2>. HIDE DEF kept
    <2>8. \A i \in 1 .. Len(kept) - 1 : kept[i] # kept[i + 1]
        BY <2>3, <2>5, <2>6, <2>7
    <2>. QED  BY <2>1, <2>6, <2>7, <2>8 DEF Kept
<1>. QED  BY <1>1, <1>2

\* Steps that leave the tabs of the page and of the storage alone.
LEMMA EditorInvBut ==
    ASSUME EditorInv, DOMAIN ui' = EditorFields, DOMAIN disk' = EditorFields,
           ui'.tabs = ui.tabs, ui'.active = ui.active,
           disk'.tabs = disk.tabs, disk'.active = disk.active, Kept(disk'.history),
           \A r \in req' : r.sql \in Words /\ DOMAIN r = {"sql", "mounted"}
    PROVE  EditorInv'
BY DEF EditorInv, Opened, Kept, Editor!IdsOf

LEMMA EditorHistoryInv ==
    ASSUME EditorInv,
           Editor!Run \/ Editor!ClearHistory \/ \E r \in req : Editor!RunEnds(r) \/ Editor!RunFails(r)
    PROVE  EditorInv'
<1>1. /\ DOMAIN ui = EditorFields /\ DOMAIN disk = EditorFields /\ Kept(disk.history)
      /\ \A r \in req : r.sql \in Words /\ DOMAIN r = {"sql", "mounted"}
    BY DEF EditorInv
<1>2. CASE Editor!Run
    <2>1. Editor!Sql \in Words
        BY EditorActive, EditorOpened DEF EditorInv, Opened, Editor!Sql, Editor!Active
    <2> DEFINE r == [sql |-> Editor!Sql, mounted |-> TRUE]
    <2>2. ui' = ui /\ disk' = disk /\ req' = req \union {r}
        BY <1>2 DEF Editor!Run
    <2>3. r.sql \in Words /\ DOMAIN r = {"sql", "mounted"}
        BY <2>1
    <2>. HIDE DEF r
    <2>. QED  BY <1>1, <2>2, <2>3, EditorInvBut
<1>3. CASE Editor!ClearHistory
    <2>1. /\ DOMAIN ui' = EditorFields /\ ui'.tabs = ui.tabs /\ ui'.active = ui.active
          /\ DOMAIN disk' = EditorFields /\ disk'.tabs = disk.tabs /\ disk'.active = disk.active
          /\ disk'.history = <<>> /\ req' = req
        BY <1>1, <1>3 DEF EditorFields, Editor!ClearHistory
    <2>2. Kept(<<>>)
        BY EditorAssumption DEF Kept
    <2>3. Kept(disk'.history)
        BY <2>1, <2>2
    <2>. QED  BY <1>1, <2>1, <2>3, EditorInvBut
<1>4. ASSUME NEW r \in req, Editor!RunEnds(r) PROVE EditorInv'
    <2>1. /\ DOMAIN disk' = EditorFields /\ disk'.tabs = disk.tabs /\ disk'.active = disk.active
          /\ disk'.history = Editor!Added(r.sql) /\ req' = req \ {r}
        BY <1>1, <1>4 DEF EditorFields, Editor!RunEnds
    <2>2. DOMAIN ui' = EditorFields /\ ui'.tabs = ui.tabs /\ ui'.active = ui.active
        BY <1>1, <1>4 DEF EditorFields, Editor!RunEnds
    <2>3. Kept(disk'.history)
        BY <1>1, <2>1, EditorAdded
    <2>. QED  BY <1>1, <2>1, <2>2, <2>3, EditorInvBut
<1>5. ASSUME NEW r \in req, Editor!RunFails(r) PROVE EditorInv'
    BY <1>1, <1>5, EditorInvBut DEF Editor!RunFails
<1>. QED  BY <1>2, <1>3, <1>4, <1>5

LEMMA EditorStore ==
    ASSUME EditorInv, NEW saved, Editor!Store(saved)
    PROVE  EditorInv' /\ disk'.saved = saved
<1>1. /\ DOMAIN ui = EditorFields /\ DOMAIN disk = EditorFields /\ Kept(disk.history)
      /\ \A r \in req : r.sql \in Words /\ DOMAIN r = {"sql", "mounted"}
    BY DEF EditorInv
<1>2. /\ DOMAIN ui' = EditorFields /\ ui'.tabs = ui.tabs /\ ui'.active = ui.active
      /\ DOMAIN disk' = EditorFields /\ disk'.tabs = disk.tabs /\ disk'.active = disk.active
      /\ disk'.history = disk.history /\ disk'.saved = saved /\ req' = req
    BY <1>1 DEF EditorFields, Editor!Store
<1>3. Kept(disk'.history)
    BY <1>1, <1>2
<1>. QED  BY <1>1, <1>2, <1>3, EditorInvBut

LEMMA EditorSavedInv ==
    ASSUME EditorInv,
           \/ \E n \in Names : Editor!Save(n)
           \/ \E q \in ui.saved : Editor!Delete(q)
           \/ \E file \in SUBSET Names : Editor!Import(file)
    PROVE  EditorInv'
<1>1. \E saved : Editor!Store(saved)
    BY DEF Editor!Save, Editor!Delete, Editor!Import
<1>. QED  BY <1>1, EditorStore

\* Another component takes what is stored; another window stores one tab over
\* those of this one.
LEMMA EditorWindowsInv ==
    ASSUME EditorInv, Editor!Remount \/ Editor!OtherWindow \/ Editor!Connect
    PROVE  EditorInv'
<1>1. /\ DOMAIN ui = EditorFields /\ DOMAIN disk = EditorFields /\ Kept(disk.history)
      /\ Opened(ui.tabs, ui.active) /\ Opened(disk.tabs, disk.active)
      /\ \A r \in req : r.sql \in Words /\ DOMAIN r = {"sql", "mounted"}
    BY DEF EditorInv
<1>2. CASE Editor!Remount
    <2>1. /\ DOMAIN ui' = EditorFields /\ ui'.tabs = disk.tabs /\ ui'.active = disk.active
          /\ disk' = disk
        BY <1>2 DEF EditorFields, Editor!Remount, Editor!Mounted
    <2>2. \A r \in req' : r.sql \in Words /\ DOMAIN r = {"sql", "mounted"}
        BY <1>1, <1>2 DEF Editor!Remount
    <2>. QED  BY <1>1, <2>1, <2>2 DEF EditorInv, Opened, Kept, Editor!IdsOf
<1>3. CASE Editor!Connect
    BY <1>1, <1>3, EditorInvBut DEF Editor!Connect
<1>4. CASE Editor!OtherWindow
    <2>1. ui' = ui /\ req' = req
        BY <1>4 DEF Editor!OtherWindow
    <2>2. ASSUME NEW w \in Words,
                 disk' = [disk EXCEPT !.tabs = <<Editor!Tab(Elsewhere, w)>>, !.active = Elsewhere]
          PROVE  EditorInv'
        <3> DEFINE tabs == <<Editor!Tab(Elsewhere, w)>>
        <3>1. Editor!Tab(Elsewhere, w) \in EditorTabs /\ Editor!Tab(Elsewhere, w).id = Elsewhere
            BY DEF EditorTabs, Editor!Tab
        <3>2. tabs \in Seq(EditorTabs) /\ 1 \in 1 .. Len(tabs) /\ tabs[1].id = Elsewhere
            BY <3>1
        <3>3. /\ DOMAIN disk' = EditorFields /\ disk'.tabs = tabs /\ disk'.active = Elsewhere
              /\ disk'.history = disk.history
            BY <1>1, <2>2 DEF EditorFields
        <3>. HIDE DEF tabs
        <3>4. Opened(tabs, Elsewhere)
            BY <3>2, EditorOpened
        <3>. QED  BY <1>1, <2>1, <3>3, <3>4 DEF EditorInv, Opened, Kept, Editor!IdsOf
    <2>3. ASSUME NEW w \in Words, disk' = [disk EXCEPT !.history = Editor!Added(w)]
          PROVE  EditorInv'
        <3>1. /\ DOMAIN disk' = EditorFields /\ disk'.tabs = disk.tabs
              /\ disk'.active = disk.active /\ disk'.history = Editor!Added(w)
            BY <1>1, <2>3 DEF EditorFields
        <3>2. Kept(disk'.history)
            BY <1>1, <3>1, EditorAdded
        <3>. QED  BY <1>1, <2>1, <3>1, <3>2, EditorInvBut
    <2>4. ASSUME NEW saved, disk' = [disk EXCEPT !.saved = saved] PROVE EditorInv'
        <3>1. /\ DOMAIN disk' = EditorFields /\ disk'.tabs = disk.tabs
              /\ disk'.active = disk.active /\ disk'.history = disk.history
            BY <1>1, <2>4 DEF EditorFields
        <3>2. Kept(disk'.history)
            BY <1>1, <3>1
        <3>. QED  BY <1>1, <2>1, <3>1, <3>2, EditorInvBut
    <2>. QED  BY <1>4, <2>2, <2>3, <2>4 DEF Editor!OtherWindow
<1>. QED  BY <1>2, <1>3, <1>4

LEMMA EditorInitInv ==
    ASSUME Editor!Init PROVE EditorInv
<1>1. PICK id \in TabIds, word \in Words :
         disk = [tabs |-> <<Editor!Tab(id, word)>>, active |-> id, history |-> <<>>, saved |-> {}]
    BY DEF Editor!Init
<1> DEFINE tabs == <<Editor!Tab(id, word)>>
<1>2. Editor!Tab(id, word) \in EditorTabs /\ Editor!Tab(id, word).id = id
    BY DEF EditorTabs, Editor!Tab
<1>3. tabs \in Seq(EditorTabs) /\ 1 \in 1 .. Len(tabs) /\ tabs[1].id = id
    BY <1>2
<1>4. DOMAIN disk = EditorFields /\ disk.tabs = tabs /\ disk.active = id /\ disk.history = <<>>
    BY <1>1 DEF EditorFields
<1>. HIDE DEF tabs
<1>5. Opened(tabs, id)
    BY <1>3, EditorOpened
<1>6. Kept(<<>>)
    BY EditorAssumption DEF Kept
<1>7. DOMAIN ui = EditorFields /\ ui.tabs = tabs /\ ui.active = id /\ req = {}
    BY <1>4 DEF Editor!Init, Editor!Mounted, EditorFields
<1>. QED  BY <1>4, <1>5, <1>6, <1>7 DEF EditorInv

LEMMA EditorStepInv ==
    ASSUME EditorInv, Editor!Next PROVE EditorInv'
<1>1. ASSUME NEW w \in Words, Editor!SetSQLText(w) \/ Editor!Receive(w) \/ Editor!AddTab(w)
      PROVE  EditorInv'
    BY <1>1, EditorTyped, EditorAddTabInv DEF Editor!SetSQLText, Editor!Receive
<1>2. ASSUME NEW i, Editor!CloseTab(i) \/ Editor!Activate(i) PROVE EditorInv'
    BY <1>2, EditorCloseTabInv, EditorActivateInv
<1>. QED
    BY <1>1, <1>2, EditorHistoryInv, EditorSavedInv, EditorWindowsInv DEF Editor!Next

LEMMA EditorHolds ==
    ASSUME EditorInv PROVE Editor!ActiveIsOpen /\ Editor!HistoryHasNoRepeats
BY DEF EditorInv, Opened, Kept, Editor!ActiveIsOpen, Editor!HistoryHasNoRepeats

\* What is imported is what the storage of the moment has no name of.
LEMMA EditorImports ==
    ASSUME EditorInv PROVE Editor!ImportStep
<1>. SUFFICES ASSUME NEW file \in SUBSET Names, Editor!Import(file)
              PROVE  /\ disk.saved \subseteq disk'.saved
                     /\ \A q \in disk'.saved \ disk.saved : q.name \in file \ Editor!NamesOf(disk.saved)
                     /\ file \subseteq Editor!NamesOf(disk'.saved)
    BY DEF Editor!ImportStep
<1> DEFINE missing == file \ Editor!NamesOf(disk.saved)
<1>1. PICK id \in [missing -> Editor!Free(disk.saved)] :
         Editor!Store(disk.saved \union {Editor!Entry(id[n], n) : n \in missing})
    BY DEF Editor!Import, Editor!Missing
<1> DEFINE added == {Editor!Entry(id[n], n) : n \in missing}
<1>2. disk'.saved = disk.saved \union added
    BY <1>1, EditorStore
<1>3. \A q \in added : q.name \in missing
    BY DEF Editor!Entry
<1>4. ASSUME NEW n \in missing PROVE \E q \in added : q.name = n
    <2>1. Editor!Entry(id[n], n) \in added /\ Editor!Entry(id[n], n).name = n
        BY DEF Editor!Entry
    <2>. QED  BY <2>1
<1>. HIDE DEF added
<1>5. file \subseteq Editor!NamesOf(disk'.saved)
    BY <1>2, <1>4 DEF Editor!NamesOf
<1>. QED  BY <1>2, <1>3, <1>5

-----------------------------------------------------------------------------
(* The shell                                                               *)

(***************************************************************************)
(* The inductive invariant of the shell.  That a reload finds the headers  *)
(* needs the types, for they are rebuilt field by field from the storage;  *)
(* that none is without them needs NothingSaved, for a reload makes none   *)
(* when no connection was saved.                                           *)
(***************************************************************************)

\* A set for what may be there: nothing, or one of S.
Maybe(S) == {{}} \union {{x} : x \in S}

Disks == [saved : Maybe(Servers), secret : BOOLEAN, token : Tokens, zone : Maybe(Servers)]

Requests == [what : {"config", "auto", "form"}, params : Shell!Params, token : Tokens]

ShellTypes ==
    /\ backend.default \in Maybe([server : Servers, has : BOOLEAN])
    /\ disk \in Disks
    /\ app \in [connected : BOOLEAN, default : Maybe(Shell!Params), saved : Maybe(Shell!Params)]
    /\ form \in [params : Shell!Params, editing : BOOLEAN, testing : BOOLEAN, error : BOOLEAN]
    /\ req \subseteq Requests

NothingSaved == disk.saved = {} => ~ disk.secret

\* The part that speaks of the storage, the headers and the requests.
Agreement ==
    /\ disk \in Disks /\ req \subseteq Requests
    /\ NothingSaved
    /\ Shell!ReloadKeepsHeaders
    /\ Shell!DisconnectForgets
    /\ Shell!RequestsCarryToken

ShellInv == ShellTypes /\ Agreement

-----------------------------------------------------------------------------
(* What is saved is what is loaded                                         *)

LEMMA DefaultIsParams == Shell!Default \in Shell!Params
BY ShellAssumption DEF Shell!Default, Shell!Params

LEMMA LoadedIsParams ==
    ASSUME NEW d \in Disks
    PROVE  Shell!Loaded(d) \in Shell!Params
<1>1. CASE d.saved = {}
    BY <1>1, DefaultIsParams DEF Shell!Loaded
<1>2. CASE d.saved # {}
    <2>1. PICK s \in Servers : d.saved = {s}
        BY <1>2 DEF Disks, Maybe
    <2>. QED  BY <1>2, <2>1 DEF Shell!Loaded, Shell!Params, Disks
<1>. QED  BY <1>1, <1>2

LEMMA SavedIsLoaded ==
    ASSUME NEW d \in Disks, NEW p \in Shell!Params
    PROVE  /\ Shell!Saved(d, p) \in Disks
           /\ Shell!Saved(d, p).saved # {}
           /\ Shell!Saved(d, p).token = d.token
           /\ Shell!Loaded(Shell!Saved(d, p)) = p
<1>1. /\ Shell!Saved(d, p) = [d EXCEPT !.saved = {p.server}, !.secret = p.secret]
      /\ p.server \in Servers /\ p.secret \in BOOLEAN
    BY DEF Shell!Saved, Shell!Params
<1>2. Shell!Saved(d, p) \in Disks
    BY <1>1 DEF Disks, Maybe
<1>3. /\ Shell!Saved(d, p).saved = {p.server} /\ Shell!Saved(d, p).secret = p.secret
      /\ Shell!Saved(d, p).token = d.token
    BY <1>1 DEF Disks
<1>4. Shell!Loaded(Shell!Saved(d, p)) = [server |-> p.server, secret |-> p.secret]
    BY <1>3 DEF Shell!Loaded
<1>5. p = [server |-> p.server, secret |-> p.secret]
    BY DEF Shell!Params
<1>. QED  BY <1>2, <1>3, <1>4, <1>5

\* The fields that no connection is rebuilt from.
LEMMA ZoneIsNoMatter ==
    ASSUME NEW d \in Disks, NEW z \in Maybe(Servers)
    PROVE  /\ [d EXCEPT !.zone = z] \in Disks
           /\ Shell!Loaded([d EXCEPT !.zone = z]) = Shell!Loaded(d)
           /\ [d EXCEPT !.zone = z].saved = d.saved
           /\ [d EXCEPT !.zone = z].secret = d.secret
           /\ [d EXCEPT !.zone = z].token = d.token
BY DEF Disks, Shell!Loaded

-----------------------------------------------------------------------------
(* The steps                                                               *)

LEMMA SentIsRequest ==
    ASSUME NEW what \in {"config", "auto", "form"}, NEW p \in Shell!Params, NEW d \in Disks
    PROVE  /\ Shell!Sent(what, p, d) \in Requests
           /\ Shell!Sent(what, p, d).token = d.token
BY DEF Shell!Sent, Requests, Disks

\* A page that is loaded over a storage agrees with it.
LEMMA PageAgrees ==
    ASSUME NEW d \in Disks, d.saved = {} => ~ d.secret, Shell!Page(d)
    PROVE  /\ Agreement'
           /\ app' \in [connected : BOOLEAN, default : Maybe(Shell!Params), saved : Maybe(Shell!Params)]
           /\ form' \in [params : Shell!Params, editing : BOOLEAN, testing : BOOLEAN, error : BOOLEAN]
<1>1. Shell!Loaded(d) \in Shell!Params
    BY LoadedIsParams
<1>2. disk' = d /\ headers' = IF d.saved = {} THEN {} ELSE {Shell!Loaded(d)}
    BY DEF Shell!Page
<1>3. req' = {Shell!Sent("config", Shell!Default, d)}
    BY DEF Shell!Page
<1>4. disk' \in Disks /\ req' \subseteq Requests /\ Shell!RequestsCarryToken'
    BY <1>2, <1>3, SentIsRequest, DefaultIsParams DEF Shell!RequestsCarryToken
<1>5. NothingSaved' /\ Shell!ReloadKeepsHeaders' /\ Shell!DisconnectForgets'
    BY <1>2 DEF NothingSaved, Shell!ReloadKeepsHeaders, Shell!DisconnectForgets
<1>6. /\ app' \in [connected : BOOLEAN, default : Maybe(Shell!Params), saved : Maybe(Shell!Params)]
      /\ form' \in [params : Shell!Params, editing : BOOLEAN, testing : BOOLEAN, error : BOOLEAN]
    BY <1>1 DEF Shell!Page, Maybe
<1>. QED  BY <1>4, <1>5, <1>6 DEF Agreement

\* Headers that are set together with what is saved.
LEMMA SettingAgrees ==
    ASSUME Agreement, NEW p \in Shell!Params, NEW z \in Maybe(Servers),
           headers' = {p},
           disk' = Shell!Saved(disk, p) \/ disk' = [Shell!Saved(disk, p) EXCEPT !.zone = z],
           req' \subseteq Requests, \A r \in req' : r.token = disk.token
    PROVE  Agreement'
<1> DEFINE d == Shell!Saved(disk, p)
<1>1. d \in Disks /\ d.saved # {} /\ d.token = disk.token /\ Shell!Loaded(d) = p
    BY SavedIsLoaded DEF Agreement
<1>2. disk' \in Disks /\ disk'.saved # {} /\ disk'.token = disk.token /\ Shell!Loaded(disk') = p
    <2>1. CASE disk' = d
        BY <1>1, <2>1
    <2>2. CASE disk' = [d EXCEPT !.zone = z]
        <3>. HIDE DEF d
        <3>. QED  BY <1>1, <2>2, ZoneIsNoMatter
    <2>. QED  BY <2>1, <2>2
<1>3. NothingSaved' /\ Shell!ReloadKeepsHeaders' /\ Shell!DisconnectForgets'
    BY <1>2 DEF NothingSaved, Shell!ReloadKeepsHeaders, Shell!DisconnectForgets
<1>4. Shell!RequestsCarryToken'
    BY <1>2 DEF Shell!RequestsCarryToken
<1>. QED  BY <1>2, <1>3, <1>4 DEF Agreement

LEMMA TryConnectAgrees ==
    ASSUME Agreement, NEW p \in Shell!Params, NEW r, Shell!TryConnect(p, r)
    PROVE  Agreement'
<1>1. disk \in Disks /\ req \subseteq Requests /\ \A q \in req : q.token = disk.token
    BY DEF Agreement, Shell!RequestsCarryToken
<1>2. headers' = {p} /\ disk' = Shell!Saved(disk, p)
    BY DEF Shell!TryConnect
<1>3. req' \subseteq Requests /\ \A q \in req' : q.token = disk.token
    BY <1>1, SentIsRequest DEF Shell!TryConnect
<1>4. {} \in Maybe(Servers)
    BY DEF Maybe
<1>. QED  BY <1>2, <1>3, <1>4, SettingAgrees

LEMMA TrySavedAgrees ==
    ASSUME ShellInv, NEW r, Shell!TrySaved(r)
    PROVE  Agreement'
<1>1. CASE app.saved = {}
    <2>1. headers' = headers /\ disk' = disk /\ req' = req \ {r}
        BY <1>1 DEF Shell!TrySaved
    <2>. QED
        BY <2>1 DEF ShellInv, Agreement, NothingSaved, Shell!ReloadKeepsHeaders,
            Shell!DisconnectForgets, Shell!RequestsCarryToken
<1>2. CASE app.saved # {}
    <2>1. PICK p \in Shell!Params : app.saved = {p}
        BY <1>2 DEF ShellInv, ShellTypes, Maybe
    <2>2. Shell!TryConnect(p, r)
        BY <1>2, <2>1 DEF Shell!TrySaved
    <2>. QED  BY <2>2, TryConnectAgrees DEF ShellInv
<1>. QED  BY <1>1, <1>2

\* A step that leaves what Agreement speaks of alone, but for requests that
\* end and for the zone.
LEMMA EndingAgrees ==
    ASSUME Agreement, NEW z \in Maybe(Servers),
           headers' = headers, disk' = disk \/ disk' = [disk EXCEPT !.zone = z], req' \subseteq req
    PROVE  Agreement'
<1>1. /\ disk' \in Disks /\ Shell!Loaded(disk') = Shell!Loaded(disk)
      /\ disk'.saved = disk.saved /\ disk'.secret = disk.secret /\ disk'.token = disk.token
    <2>1. CASE disk' = disk
        BY <2>1 DEF Agreement
    <2>2. CASE disk' = [disk EXCEPT !.zone = z]
        BY <2>2, ZoneIsNoMatter DEF Agreement
    <2>. QED  BY <2>1, <2>2
<1>. QED
    BY <1>1 DEF Agreement, NothingSaved, Shell!ReloadKeepsHeaders, Shell!DisconnectForgets,
        Shell!RequestsCarryToken

LEMMA NoZones == {} \in Maybe(Servers)
BY DEF Maybe

LEMMA ZonesAre ==
    ASSUME ShellInv, NEW r \in req, NEW z \in Shell!Zone(r)
    PROVE  z \in Maybe(Servers)
<1>1. disk \in Disks /\ r \in Requests
    BY DEF ShellInv, ShellTypes
<1>2. disk.zone \in Maybe(Servers) /\ r.params.server \in Servers
    BY <1>1 DEF Disks, Requests, Shell!Params
<1>. QED  BY <1>2 DEF Shell!Zone, Maybe

Apps == [connected : BOOLEAN, default : Maybe(Shell!Params), saved : Maybe(Shell!Params)]
Forms == [params : Shell!Params, editing : BOOLEAN, testing : BOOLEAN, error : BOOLEAN]

\* How the step lemmas below end.
LEMMA Conclude ==
    ASSUME ShellInv, Agreement', backend' = backend, app' \in Apps, form' \in Forms
    PROVE  ShellInv'
BY DEF ShellInv, ShellTypes, Agreement, Apps, Forms

LEMMA ConfigArrivesInv ==
    ASSUME ShellInv, NEW r \in req, Shell!ConfigArrives(r) PROVE ShellInv'
<1>1. backend' = backend /\ app \in Apps /\ form \in Forms
    BY DEF Shell!ConfigArrives, ShellInv, ShellTypes, Apps, Forms
<1>2. CASE backend.default = {} \/ Shell!ChoseExplicitly
    <2>1. Shell!TrySaved(r) /\ app' = app /\ form' = form
        BY <1>2 DEF Shell!ConfigArrives
    <2>. QED  BY <1>1, <2>1, TrySavedAgrees, Conclude
<1>3. CASE ~ (backend.default = {} \/ Shell!ChoseExplicitly)
    <2>1. PICK dc \in [server : Servers, has : BOOLEAN] : backend.default = {dc}
        BY <1>3 DEF ShellInv, ShellTypes, Maybe
    <2> DEFINE p == [server |-> dc.server, secret |-> FALSE]
    <2>2. p \in Shell!Params /\ {p} \in Maybe(Shell!Params)
        BY DEF Shell!Params, Maybe
    <2>3. (CHOOSE c \in backend.default : TRUE) = dc
        BY <2>1
    <2>4. /\ app' = [app EXCEPT !.default = {p}] /\ form' = [form EXCEPT !.params = p]
          /\ IF dc.has THEN Shell!TryConnect(p, r) ELSE Shell!TrySaved(r)
        BY <1>3, <2>3 DEF Shell!ConfigArrives
    <2>5. app' \in Apps /\ form' \in Forms
        <3>. HIDE DEF p
        <3>. QED  BY <1>1, <2>2, <2>4 DEF Apps, Forms
    <2>6. Agreement'
        <3>. HIDE DEF p
        <3>. QED  BY <2>2, <2>4, TryConnectAgrees, TrySavedAgrees DEF ShellInv
    <2>. QED  BY <1>1, <2>5, <2>6, Conclude
<1>. QED  BY <1>2, <1>3

LEMMA ConfigFailsInv ==
    ASSUME ShellInv, NEW r \in req, Shell!ConfigFails(r) PROVE ShellInv'
<1>1. Shell!TrySaved(r) /\ backend' = backend /\ app' = app /\ form' = form
    BY DEF Shell!ConfigFails
<1>. QED  BY <1>1, TrySavedAgrees, Conclude DEF ShellInv, ShellTypes, Apps, Forms

LEMMA AutoAnswersInv ==
    ASSUME ShellInv, NEW r \in req, Shell!AutoAnswers(r) PROVE ShellInv'
<1>1. PICK z \in Shell!Zone(r) : disk' = [disk EXCEPT !.zone = z]
    BY DEF Shell!AutoAnswers
<1>2. headers' = headers /\ req' \subseteq req /\ backend' = backend
    BY DEF Shell!AutoAnswers
<1>3. Agreement'
    BY <1>1, <1>2, ZonesAre, EndingAgrees DEF ShellInv
<1>4. app' \in Apps /\ form' \in Forms
    BY DEF Shell!AutoAnswers, Shell!Established, ShellInv, ShellTypes, Apps, Forms
<1>. QED  BY <1>2, <1>3, <1>4, Conclude

LEMMA AutoFailsInv ==
    ASSUME ShellInv, NEW r \in req, Shell!AutoFails(r) PROVE ShellInv'
<1>1. headers' = headers /\ disk' = disk /\ req' \subseteq req /\ backend' = backend /\ form' = form
    BY DEF Shell!AutoFails
<1>2. Agreement'
    BY <1>1, NoZones, EndingAgrees DEF ShellInv
<1>3. app' \in Apps
    BY DEF Shell!AutoFails, ShellInv, ShellTypes, Apps
<1>. QED  BY <1>1, <1>2, <1>3, Conclude DEF ShellInv, ShellTypes, Forms

LEMMA FormFailsInv ==
    ASSUME ShellInv, NEW r \in req, Shell!FormFails(r) PROVE ShellInv'
<1>1. headers' = headers /\ disk' = disk /\ req' \subseteq req /\ backend' = backend /\ app' = app
    BY DEF Shell!FormFails
<1>2. Agreement'
    BY <1>1, NoZones, EndingAgrees DEF ShellInv
<1>3. form' \in Forms
    BY DEF Shell!FormFails, ShellInv, ShellTypes, Forms
<1>. QED  BY <1>1, <1>2, <1>3, Conclude DEF ShellInv, ShellTypes, Apps

LEMMA FormAnswersInv ==
    ASSUME ShellInv, NEW r \in req, Shell!FormAnswers(r) PROVE ShellInv'
<1>1. r.params \in Shell!Params
    BY DEF ShellInv, ShellTypes, Requests
<1>2. app.default # {} => (CHOOSE d \in app.default : TRUE) \in Shell!Params
    BY DEF ShellInv, ShellTypes, Maybe
<1>3. PICK p \in Shell!Params, z \in Shell!Zone(r) :
        /\ disk' = [Shell!Saved(disk, p) EXCEPT !.zone = z]
        /\ headers' = {p}
        /\ app' = [app EXCEPT !.connected = TRUE]
        /\ form' = [form EXCEPT !.params = p, !.editing = FALSE, !.testing = FALSE]
        /\ req' = req \ {r} /\ backend' = backend
    <2> DEFINE p == IF r.params = Shell!Default /\ app.default # {}
                    THEN CHOOSE d \in app.default : TRUE ELSE r.params
    <2>1. p \in Shell!Params
        BY <1>1, <1>2
    <2>2. \E z \in Shell!Zone(r) : disk' = [Shell!Saved(disk, p) EXCEPT !.zone = z]
        BY DEF Shell!FormAnswers
    <2>3. /\ headers' = {p}
          /\ app' = [app EXCEPT !.connected = TRUE]
          /\ form' = [form EXCEPT !.params = p, !.editing = FALSE, !.testing = FALSE]
          /\ req' = req \ {r} /\ backend' = backend
        BY DEF Shell!FormAnswers
    <2>. HIDE DEF p
    <2>. QED  BY <2>1, <2>2, <2>3
<1>4. req' \subseteq Requests /\ \A q \in req' : q.token = disk.token
    BY <1>3 DEF ShellInv, Agreement, Shell!RequestsCarryToken
<1>5. Agreement'
    BY <1>3, <1>4, ZonesAre, SettingAgrees DEF ShellInv
<1>6. app' \in Apps /\ form' \in Forms
    BY <1>3 DEF ShellInv, ShellTypes, Apps, Forms
<1>. QED  BY <1>3, <1>5, <1>6, Conclude

LEMMA ReloadInv ==
    ASSUME ShellInv, Shell!Reload PROVE ShellInv'
<1>1. disk \in Disks /\ (disk.saved = {} => ~ disk.secret) /\ Shell!Page(disk) /\ backend' = backend
    BY DEF Shell!Reload, ShellInv, ShellTypes, Agreement, NothingSaved
<1>. QED  BY <1>1, PageAgrees, Conclude DEF Apps, Forms

LEMMA SubmitInv ==
    ASSUME ShellInv, NEW token \in Tokens, Shell!Submit(token) PROVE ShellInv'
<1> DEFINE d == [disk EXCEPT !.token = token]
<1>1. d \in Disks /\ (d.saved = {} => ~ d.secret)
    BY DEF ShellInv, ShellTypes, Agreement, NothingSaved, Disks
<1>2. Shell!Page(d) /\ backend' = backend
    BY DEF Shell!Submit
<1>. HIDE DEF d
<1>. QED  BY <1>1, <1>2, PageAgrees, Conclude DEF Apps, Forms

LEMMA HandleConnectInv ==
    ASSUME ShellInv, Shell!HandleConnect PROVE ShellInv'
<1>1. form.params \in Shell!Params /\ disk \in Disks /\ req \subseteq Requests
    BY DEF ShellInv, ShellTypes
<1>2. /\ headers' = {form.params} /\ disk' = Shell!Saved(disk, form.params)
      /\ req' = req \union {Shell!Sent("form", form.params, disk)}
      /\ backend' = backend /\ app' = app
    BY DEF Shell!HandleConnect
<1>3. req' \subseteq Requests /\ \A q \in req' : q.token = disk.token
    BY <1>1, <1>2, SentIsRequest DEF ShellInv, Agreement, Shell!RequestsCarryToken
<1>4. Agreement'
    BY <1>1, <1>2, <1>3, NoZones, SettingAgrees DEF ShellInv
<1>5. form' \in Forms
    BY DEF Shell!HandleConnect, ShellInv, ShellTypes, Forms
<1>. QED  BY <1>2, <1>4, <1>5, Conclude DEF ShellInv, ShellTypes, Apps

LEMMA DisconnectInv ==
    ASSUME ShellInv, Shell!Disconnect PROVE ShellInv'
<1>1. headers' = {} /\ disk' = [disk EXCEPT !.secret = FALSE] /\ req' = req /\ backend' = backend
    BY DEF Shell!Disconnect
<1>2. disk' \in Disks /\ ~ disk'.secret /\ disk'.token = disk.token
    BY <1>1 DEF ShellInv, ShellTypes, Disks
<1>3. Agreement'
    BY <1>1, <1>2 DEF ShellInv, Agreement, NothingSaved, Shell!ReloadKeepsHeaders,
        Shell!DisconnectForgets, Shell!RequestsCarryToken
<1>4. app' \in Apps /\ form' \in Forms
    BY DEF Shell!Disconnect, ShellInv, ShellTypes, Apps, Forms
<1>. QED  BY <1>1, <1>3, <1>4, Conclude

\* The steps that change no more than the form or the dialog.
LEMMA FormInv ==
    ASSUME ShellInv, Shell!OpenForm \/ Shell!CloseDialog \/ \E p \in Shell!Params : Shell!Edit(p)
    PROVE  ShellInv'
<1>1. headers' = headers /\ disk' = disk /\ req' \subseteq req /\ backend' = backend /\ app' = app
    BY DEF Shell!OpenForm, Shell!CloseDialog, Shell!Edit
<1>2. Agreement'
    BY <1>1, NoZones, EndingAgrees DEF ShellInv
<1>3. form' \in Forms
    <2>1. CASE Shell!OpenForm
        BY <2>1 DEF Shell!OpenForm, ShellInv, ShellTypes, Forms
    <2>2. CASE Shell!CloseDialog
        BY <2>2 DEF Shell!CloseDialog, ShellInv, ShellTypes, Forms
    <2>3. ASSUME NEW p \in Shell!Params, Shell!Edit(p) PROVE form' \in Forms
        BY <2>3 DEF Shell!Edit, ShellInv, ShellTypes, Forms
    <2>. QED  BY <2>1, <2>2, <2>3
<1>. QED  BY <1>1, <1>2, <1>3, Conclude DEF ShellInv, ShellTypes, Apps

LEMMA ShellInitInv ==
    ASSUME Shell!Init PROVE ShellInv
<1>1. disk \in Disks /\ ~ disk.secret
    <2>1. disk \in Shell!FirstDisks
        BY DEF Shell!Init
    <2>2. disk.secret = FALSE
        BY <2>1 DEF Shell!FirstDisks
    <2>3. disk \in Disks
        BY <2>1 DEF Disks, Maybe, Shell!FirstDisks
    <2>. QED  BY <2>2, <2>3
<1>2. Shell!Loaded(disk) \in Shell!Params
    BY <1>1, LoadedIsParams
<1>3. req = {Shell!Sent("config", Shell!Default, disk)}
    BY DEF Shell!Init
<1>4. req \subseteq Requests /\ Shell!RequestsCarryToken
    BY <1>1, <1>3, SentIsRequest, DefaultIsParams DEF Shell!RequestsCarryToken
<1>5. headers = IF disk.saved = {} THEN {} ELSE {Shell!Loaded(disk)}
    BY DEF Shell!Init
<1>6. NothingSaved /\ Shell!ReloadKeepsHeaders /\ Shell!DisconnectForgets
    BY <1>1, <1>5 DEF NothingSaved, Shell!ReloadKeepsHeaders, Shell!DisconnectForgets
<1>7. app \in Apps /\ form \in Forms
    <2>1. {} \in Maybe(Shell!Params) /\ {Shell!Loaded(disk)} \in Maybe(Shell!Params)
        BY <1>2 DEF Maybe
    <2>2. (IF disk.saved = {} THEN {} ELSE {Shell!Loaded(disk)}) \in Maybe(Shell!Params)
        BY <2>1
    <2>3. app \in Apps
        BY <2>1, <2>2 DEF Shell!Init, Apps
    <2>4. form \in Forms
        BY <1>2 DEF Shell!Init, Forms
    <2>. QED  BY <2>3, <2>4
<1>8. backend.default \in Maybe([server : Servers, has : BOOLEAN])
    BY DEF Shell!Init, Shell!Backends, Maybe
<1>. QED  BY <1>1, <1>4, <1>6, <1>7, <1>8 DEF ShellInv, ShellTypes, Agreement, Apps, Forms

LEMMA ShellStepInv ==
    ASSUME ShellInv, Shell!Next PROVE ShellInv'
<1>1. ASSUME NEW r \in req, Shell!Answers(r) PROVE ShellInv'
    BY <1>1, ConfigArrivesInv, ConfigFailsInv, AutoAnswersInv, AutoFailsInv, FormAnswersInv,
       FormFailsInv DEF Shell!Answers
<1>. QED
    BY <1>1, ReloadInv, HandleConnectInv, DisconnectInv, SubmitInv, FormInv DEF Shell!Next

\* A test that is answered ends its request; the other answers leave the
\* requests of the form alone.
LEMMA TestingStep ==
    ASSUME ShellInv, Shell!TestingEnds, Shell!Next PROVE Shell!TestingEnds'
<1>1. form \in Forms
    BY DEF ShellInv, ShellTypes, Forms
<1>2. ASSUME NEW d, Shell!Page(d) PROVE Shell!TestingEnds'
    BY <1>2 DEF Shell!Page, Shell!TestingEnds
<1>3. ASSUME NEW r \in req, r.what # "form", form'.testing => form.testing,
             \A q \in req : q # r => q \in req'
      PROVE  Shell!TestingEnds'
    BY <1>3 DEF Shell!TestingEnds
<1>4. ASSUME NEW r, NEW p, Shell!TryConnect(p, r) PROVE \A q \in req : q # r => q \in req'
    BY <1>4 DEF Shell!TryConnect
<1>5. ASSUME NEW r, Shell!TrySaved(r) PROVE \A q \in req : q # r => q \in req'
    BY <1>4, <1>5 DEF Shell!TrySaved
<1>6. CASE Shell!HandleConnect
    <2> DEFINE sent == Shell!Sent("form", form.params, disk)
    <2>1. sent \in req' /\ sent.what = "form"
        BY <1>6 DEF Shell!HandleConnect, Shell!Sent
    <2>. QED  BY <2>1 DEF Shell!TestingEnds
<1>7. CASE Shell!OpenForm \/ Shell!Disconnect \/ Shell!CloseDialog \/ \E p \in Shell!Params : Shell!Edit(p)
    <2>1. form'.testing = form.testing /\ req' = req
        BY <1>1, <1>7 DEF Forms, Shell!OpenForm, Shell!Disconnect, Shell!CloseDialog, Shell!Edit
    <2>. QED  BY <2>1 DEF Shell!TestingEnds
<1>8. CASE Shell!Reload \/ \E token \in Tokens : Shell!Submit(token)
    BY <1>2, <1>8 DEF Shell!Reload, Shell!Submit
<1>9. ASSUME NEW r \in req, Shell!ConfigArrives(r) \/ Shell!ConfigFails(r)
      PROVE  Shell!TestingEnds'
    <2>1. r.what = "config" /\ form'.testing = form.testing
        BY <1>1, <1>9 DEF Forms, Shell!ConfigArrives, Shell!ConfigFails
    <2>2. \A q \in req : q # r => q \in req'
        BY <1>4, <1>5, <1>9 DEF Shell!ConfigArrives, Shell!ConfigFails
    <2>. QED  BY <1>3, <2>1, <2>2
<1>10. ASSUME NEW r \in req, Shell!AutoAnswers(r) \/ Shell!AutoFails(r) PROVE Shell!TestingEnds'
    <2>1. /\ r.what = "auto" /\ form'.testing = form.testing /\ req' = req \ {r}
        BY <1>1, <1>10 DEF Forms, Shell!AutoAnswers, Shell!AutoFails, Shell!Established
    <2>. QED  BY <1>3, <2>1
<1>11. ASSUME NEW r \in req, Shell!FormAnswers(r) \/ Shell!FormFails(r) PROVE Shell!TestingEnds'
    <2>1. form'.testing = FALSE
        BY <1>1, <1>11 DEF Forms, Shell!FormAnswers, Shell!FormFails
    <2>. QED  BY <2>1 DEF Shell!TestingEnds
<1>. QED
    BY <1>6, <1>7, <1>8, <1>9, <1>10, <1>11 DEF Shell!Next, Shell!Answers

-----------------------------------------------------------------------------
(* The theorems                                                            *)

\* A page is left with its state and comes with its first one, so that each
\* page's invariant is claimed of it alone.
PagesInv ==
    /\ route = "queries" => ListInv
    /\ route = "running" => RunningInv
    /\ route = "query" => DetailInv
    /\ route = "compare" => CompareInv
    /\ route = "fingerprint" => FingerprintInv
    /\ route = "graph" => GraphInv
    /\ route = "sidebar" => SidebarInv
    /\ route = "access" => AccessInv
    /\ route = "result" => ResultInv
    /\ route = "optimizer" => OptimizerInv
    /\ route = "editor" => EditorInv
    /\ CallsInv
    /\ route = "shell" => ShellInv /\ Shell!TestingEnds

LEMMA PagesInitInv == Init => PagesInv
<1>. SUFFICES ASSUME Init PROVE PagesInv
    OBVIOUS
<1>1. /\ route = "queries" => List!Init
      /\ route = "running" => Running!Init
      /\ route = "query" => Detail!Init
      /\ route = "compare" => Compare!Init
      /\ route = "fingerprint" => Fingerprint!Init
      /\ route = "graph" => Graph!Init
    BY DEF Init, PageInit, CallInit, CallStarts
<1>2. /\ route = "sidebar" => Sidebar!Init
      /\ route = "access" => Access!Init
      /\ route = "result" => Result!Init
      /\ route = "optimizer" => Optimizer!Init
      /\ route = "editor" => Editor!Init
      /\ route = "shell" => Shell!Init
    BY DEF Init, PageInit, CallInit, CallStarts
<1>3. Shell!Init => Shell!TestingEnds
    BY DEF Shell!Init, Shell!TestingEnds
<1>4. CallsInv
    <2>1. CallInit => CallsInv
        BY CallsStartInv DEF CallInit
    <2>2. ~ CallInit => route \notin {"splitQueries", "diffPlans", "parseAnalyzePlan", "serverString"}
        BY DEF Init, PageInit
    <2>. QED  BY <2>1, <2>2 DEF CallsInv
<1>. QED
    BY <1>1, <1>2, <1>3, <1>4, ListInitInv, RunningInitInv, DetailInitInv, CompareInitInv,
       FingerprintInitInv, GraphInitInv, SidebarInitInv, AccessInitInv, ResultInitInv,
       OptimizerInitInv, EditorInitInv, ShellInitInv DEF PagesInv

\* A page that is shown is not left, and no step but its own changes it.
LEMMA PagesStepInv == PagesInv /\ Next => PagesInv'
<1>. SUFFICES ASSUME PagesInv, Next PROVE PagesInv'
    OBVIOUS
<1>1. route' = route
    BY DEF Next, PageNext, CallNext, CallSteps, EditorNext, ShellNext
<1>2. /\ route = "queries" => List!Next
      /\ route = "running" => Running!Next
      /\ route = "query" => Detail!Next
      /\ route = "compare" => Compare!Next
      /\ route = "fingerprint" => Fingerprint!Next
      /\ route = "graph" => Graph!Next
    BY DEF Next, PageNext, CallNext, CallSteps, EditorNext, ShellNext
<1>3. /\ route = "sidebar" => Sidebar!Next
      /\ route = "access" => Access!Next
      /\ route = "result" => Result!Next
      /\ route = "optimizer" => Optimizer!Next
      /\ route = "editor" => Editor!Next
      /\ route = "shell" => Shell!Next
    BY DEF Next, PageNext, CallNext, CallSteps, EditorNext, ShellNext
<1>4. CallsInv'
    <2>1. CallNext => CallsInv'
        BY CallsStepInv DEF CallNext, PagesInv
    <2>2. ~ CallNext => route \notin {"splitQueries", "diffPlans", "parseAnalyzePlan", "serverString"}
        BY DEF Next, PageNext, EditorNext, ShellNext
    <2>. QED  BY <1>1, <2>1, <2>2 DEF CallsInv
<1>. QED
    BY <1>1, <1>2, <1>3, <1>4, ListStepInv, RunningStepInv, DetailStepInv, CompareStepInv,
       FingerprintStepInv, GraphStepInv, SidebarStepInv, AccessStepInv, ResultStepInv,
       OptimizerStepInv, EditorStepInv, ShellStepInv, TestingStep DEF PagesInv

LEMMA PagesStutterInv == PagesInv /\ UNCHANGED vars => PagesInv'
<1>. SUFFICES ASSUME PagesInv, UNCHANGED vars PROVE PagesInv'
    OBVIOUS
<1>1. /\ route' = route /\ connected' = connected /\ ui' = ui /\ req' = req /\ disk' = disk
      /\ backend' = backend /\ headers' = headers /\ app' = app /\ form' = form
      /\ calc' = calc
    BY DEF vars
<1>2. ListInv => ListInv'
    BY <1>1 DEF ListInv, List!SpinnerIsOwn, List!Settled
<1>3. RunningInv => RunningInv'
    BY <1>1 DEF RunningInv, Running!SpinnerIsOwn, Running!KillingIsUnderWay
<1>4. DetailInv => DetailInv'
    BY <1>1 DEF DetailInv, Detail!SpinnersEnd
<1>5. CompareInv => CompareInv'
    BY <1>1 DEF CompareInv, PlanRequests, PlansLoad, ComparisonLoads, Compare!PlansAreOwn,
        Compare!Comparisons
<1>6. FingerprintInv => FingerprintInv'
    BY <1>1 DEF FingerprintInv, Fingerprint!EffectsAreCurrent, Fingerprint!SpinnersEnd
<1>7. GraphInv => GraphInv'
    BY <1>1 DEF GraphInv, GraphTypes, LoadsAreOwn, FetchesAreOwn, Graph!SpinnerIsOwn, Graph!Graphs
<1>8. SidebarInv => SidebarInv'
    BY <1>1 DEF SidebarInv, Sidebar!Fetching
<1>9. AccessInv => AccessInv'
    BY <1>1 DEF AccessInv, Access!StatementLoads, Access!Body, Access!Calls
<1>10. ResultInv => ResultInv'
    BY <1>1 DEF ResultInv, Result!CountEnds
<1>11. OptimizerInv => OptimizerInv'
    BY <1>1 DEF OptimizerInv, Optimizer!CacheIsOwn, Optimizer!SpinnerEnds, Optimizer!Streams
<1>12. EditorInv => EditorInv'
    BY <1>1 DEF EditorInv, Opened, Kept, Editor!IdsOf
<1>13. ShellInv /\ Shell!TestingEnds => ShellInv' /\ Shell!TestingEnds'
    BY <1>1 DEF ShellInv, ShellTypes, Agreement, NothingSaved, Shell!ReloadKeepsHeaders,
        Shell!DisconnectForgets, Shell!RequestsCarryToken, Shell!TestingEnds
<1>14. CallsInv => CallsInv'
    BY <1>1, CallsSameInv
<1>. QED
    BY <1>1, <1>2, <1>3, <1>4, <1>5, <1>6, <1>7, <1>8, <1>9, <1>10, <1>11, <1>12, <1>13, <1>14
    DEF PagesInv

\* Of any page, and of the shell around them, the invariant holds: whatever
\* the user does, whichever answers come late, and however the tests, the
\* loads and the windows overlap.
THEOREM PagesInvariant == Spec => []PagesInv
<1>1. PagesInv /\ [Next]_vars => PagesInv'
    BY PagesStepInv, PagesStutterInv
<1>. QED  BY <1>1, PagesInitInv, PTL DEF Spec

\* For any filters, pages, databases, tables, names and columns: rows that have
\* loaded, a total that was counted for them, the plans that have come for a
\* pair, a graph whose last load did not fail and its table's columns, a
\* user's grants, a chart's lines and the cached tables of a database are those
\* that the page now asks for.
THEOREM PagesShowTheirOwn == Spec => []ShownIsOwn
<1>1. PagesInv => ShownIsOwn
    BY ListHolds, CompareHolds, GraphHolds, AccessHolds, ResultHolds
    DEF PagesInv, ShownIsOwn, FingerprintInv, OptimizerInv
<1>. QED  BY <1>1, PagesInvariant, PTL

\* Whatever page is shown, each of its spinners stands for a request under
\* way, which will end it, but for the sidebar's whose connection fetched
\* nothing and the optimizer's whose stream ended without a word.
THEOREM PagesSpinnersEnd == Spec => []SpinnersEnd
<1>1. PagesInv => SpinnersEnd
    BY CompareHolds, GraphHolds, SidebarHolds, AccessHolds, ResultHolds
    DEF PagesInv, SpinnersEnd, ListInv, RunningInv, DetailInv, FingerprintInv, OptimizerInv
<1>. QED  BY <1>1, PagesInvariant, PTL

\* For any number of tabs and windows and any limit of the history, the
\* editor's active tab is one of its tabs, stored ones too, and the history
\* keeps its limit and has no query twice in a row.
THEOREM EditorKeepsTabs == Spec => []TabsAndHistory
<1>1. PagesInv => TabsAndHistory
    BY EditorHolds DEF PagesInv, TabsAndHistory
<1>. QED  BY <1>1, PagesInvariant, PTL

\* No import loses a saved query, and none adds one of a name that the
\* storage has, whatever other windows saved since the list was shown.
THEOREM EditorImportAddsMissing == Spec => ImportAddsMissing
<1>1. PagesInv => (route = "editor" => Editor!ImportStep)
    BY EditorImports DEF PagesInv
<1>. QED  BY <1>1, PagesInvariant, PTL DEF ImportAddsMissing

\* The headers that a page sends are those a reload would rebuild, without
\* headers there is no password in the storage, and every request carries the
\* token that is saved.
THEOREM PagesSaveTheSession == Spec => []SessionIsSaved
<1>1. PagesInv => SessionIsSaved
    BY DEF PagesInv, SessionIsSaved, ShellInv, Agreement
<1>. QED  BY <1>1, PagesInvariant, PTL

\* Whatever is called, a text is taken for what it means.  splitQueries returns
\* the statements that ClickHouse reads, however they quote, comment and escape,
\* unless a text has an empty literal, a quote right after one that opens its
\* literal or is doubled in it, or an escaped backtick in an identifier; a
\* comparison of two plans loses and repeats no line, and no way to match their
\* lines has more of them in common; parseAnalyzePlan puts each step of a plan, however deep, under the
\* step it was printed under and each measure under what it measures; and a time
\* of the server's clock becomes an instant at which that clock read it.
THEOREM TextsAreRight == Spec => []TextsAreMeant
<1>1. PagesInv => TextsAreMeant
    BY CallsHold DEF PagesInv
<1>. QED  BY <1>1, PagesInvariant, PTL
=============================================================================
