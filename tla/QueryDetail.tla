---------------------------- MODULE QueryDetail ----------------------------
(***************************************************************************)
(* The page of one query, web/src/pages/QueryDetail.tsx: the query with    *)
(* its side resources in one load, EXPLAIN and the flame graph on demand   *)
(* and without a signal.  The router keeps the component when only the id  *)
(* of its URL changes.                                                     *)
(***************************************************************************)
EXTENDS Naturals, FiniteSets

CONSTANTS
    Ids,        \* query ids
    TraceTypes, \* of flame graphs
    MaxRequests \* bound: requests under way

VARIABLES
    connected, \* the property that App passes down
    ui,        \* the URL's id and the component's state
    req        \* requests under way

vars == <<connected, ui, req>>

Tabs == {"overview", "explain", "flamegraph"}

\* The load of the effect is signalled; that of a Retry is not, for nobody
\* keeps the cleanup that load returns.
EffectLoad(id) == [what |-> "load", of |-> id, signalled |-> TRUE]
RetriedLoad(id) == [what |-> "load", of |-> id, signalled |-> FALSE]
Explain(id) == [what |-> "explain", of |-> id]
AnyTrace(id) == [what |-> "flame", of |-> id, type |-> "any"]
Trace(id, type) == [what |-> "flame", of |-> id, type |-> type]

Starting(u) == [u EXCEPT !.loading = TRUE, !.error = FALSE, !.sideError = FALSE]

LacksTraces(u) == u.tab = "flamegraph" /\ u.flame = {} /\ ~ u.flameLoading
LacksPlan(u) == u.tab = "explain" /\ u.explain = {}

\* The effect of the tab and the id: what the open tab lacks is fetched, for
\* the tab of an unconnected page too.
Lacking(u) ==
    IF LacksTraces(u) THEN {AnyTrace(u.id)} ELSE IF LacksPlan(u) THEN {Explain(u.id)} ELSE {}

Opened(u) ==
    IF LacksTraces(u) THEN [u EXCEPT !.flameLoading = TRUE]
    ELSE IF LacksPlan(u) THEN [u EXCEPT !.explainError = FALSE] ELSE u

TabEffect(u, reqs) == ui' = Opened(u) /\ req' = reqs \union Lacking(u)

\* shown is the query with its metrics, threads and views, of which those that
\* fail are empty, with an error of their own.
Blank(id, tab) ==
    [id |-> id, tab |-> tab, shown |-> {}, sideError |-> FALSE,
     loading |-> TRUE, initial |-> TRUE, error |-> FALSE,
     explain |-> {}, explainError |-> FALSE,
     flame |-> {}, flameType |-> "any", flameLoading |-> FALSE, flameError |-> FALSE]

\* The first render and its effects, on a page that is not connected yet; the
\* URL may name a tab.
Init ==
    /\ connected = FALSE
    /\ \E id \in Ids, tab \in Tabs :
         ui = Opened(Blank(id, tab)) /\ req = Lacking(Blank(id, tab))

-----------------------------------------------------------------------------
(* The query and its sides                                                 *)

\* The cleanup of the effect: the handlers of its load do nothing any more.
Unloaded == {r \in req : r.what # "load" \/ ~ r.signalled}

Connect ==
    /\ ~ connected
    /\ connected' = TRUE
    /\ ui' = Starting(ui)
    /\ req' = Unloaded \union {EffectLoad(ui.id)}

Disconnect ==
    /\ connected
    /\ connected' = FALSE
    /\ req' = Unloaded
    /\ UNCHANGED ui

\* The URL's id changes; nothing of the old query is reset.
GoTo(id) ==
    /\ id # ui.id /\ Cardinality(req) + 2 <= MaxRequests
    /\ IF connected
       THEN TabEffect([Starting(ui) EXCEPT !.id = id], Unloaded \union {EffectLoad(id)})
       ELSE TabEffect([ui EXCEPT !.id = id], Unloaded)
    /\ UNCHANGED connected

Body ==
    IF ~ connected THEN "connect"
    ELSE IF ui.loading /\ ui.initial THEN "skeleton"
    ELSE IF ui.error \/ (ui.shown = {} /\ ~ ui.loading) THEN "error"
    ELSE IF ui.shown = {} THEN "blank" ELSE "detail"

\* Retry, of the page or of one of its sides.
Retry ==
    /\ Body = "error" \/ (Body = "detail" /\ ui.sideError)
    /\ Cardinality(req) < MaxRequests
    /\ ui' = Starting(ui)
    /\ req' = req \union {RetriedLoad(ui.id)}
    /\ UNCHANGED connected

Loaded(r) ==
    /\ r.what = "load"
    /\ \E failed \in BOOLEAN :
         ui' = [ui EXCEPT !.shown = {r.of}, !.sideError = failed,
                          !.loading = FALSE, !.initial = FALSE]
    /\ req' = req \ {r}
    /\ UNCHANGED connected

LoadFails(r) ==
    /\ r.what = "load"
    /\ ui' = [ui EXCEPT !.error = TRUE, !.loading = FALSE, !.initial = FALSE]
    /\ req' = req \ {r}
    /\ UNCHANGED connected

-----------------------------------------------------------------------------
(* The tabs                                                                *)

\* The click that opens the flame graph loads it as the effect does, and
\* even when a load of it is under way.
SelectTab(tab) ==
    /\ Body = "detail" /\ tab # ui.tab /\ Cardinality(req) < MaxRequests
    /\ IF tab = "flamegraph" /\ ui.flame = {}
       THEN /\ ui' = [ui EXCEPT !.tab = tab, !.flameLoading = TRUE]
            /\ req' = req \union {AnyTrace(ui.id)}
       ELSE TabEffect([ui EXCEPT !.tab = tab], req)
    /\ UNCHANGED connected

\* Retry and Pretty plan, which replaces the plan it has.
LoadExplain ==
    /\ Body = "detail" /\ ui.tab = "explain" /\ Cardinality(req) < MaxRequests
    /\ ui' = [ui EXCEPT !.explainError = FALSE]
    /\ req' = req \union {Explain(ui.id)}
    /\ UNCHANGED connected

Explained(r) ==
    /\ r.what = "explain"
    /\ \/ ui' = [ui EXCEPT !.explain = {r.of}]
       \/ ui' = [ui EXCEPT !.explainError = TRUE]
    /\ req' = req \ {r}
    /\ UNCHANGED connected

LoadFlameGraphWithType(type) ==
    /\ Body = "detail" /\ ui.tab = "flamegraph" /\ Cardinality(req) < MaxRequests
    /\ ui' = [ui EXCEPT !.flame = {}, !.flameLoading = TRUE, !.flameType = type]
    /\ req' = req \union {Trace(ui.id, type)}
    /\ UNCHANGED connected

\* Mutant: a trace without samples leaves the spinner.
FlamedIfAny(of) ==
    [ui EXCEPT !.flame = of, !.flameError = FALSE, !.flameLoading = of = {}]

\* The first load tries the types in turn and lights the one it finds.
Flamed(of) ==
    [ui EXCEPT !.flame = of, !.flameError = FALSE, !.flameLoading = FALSE]

FlameArrives(r) ==
    /\ r.what = "flame"
    /\ \/ \E of \in {{}, {r.of}} :
            IF r.type = "any"
            THEN \E found \in TraceTypes : ui' = [Flamed(of) EXCEPT !.flameType = found]
            ELSE ui' = Flamed(of)
       \/ ui' = [ui EXCEPT !.flameError = TRUE, !.flameLoading = FALSE]
    /\ req' = req \ {r}
    /\ UNCHANGED connected

Next ==
    \/ Connect \/ Disconnect \/ Retry \/ LoadExplain
    \/ \E id \in Ids : GoTo(id)
    \/ \E tab \in Tabs : SelectTab(tab)
    \/ \E type \in TraceTypes : LoadFlameGraphWithType(type)
    \/ \E r \in req : Loaded(r) \/ LoadFails(r) \/ Explained(r) \/ FlameArrives(r)

Spec == Init /\ [][Next]_vars

-----------------------------------------------------------------------------
(* Properties                                                              *)

\* No spinner turns without a request that will stop it.
SpinnersEnd ==
    /\ connected /\ ui.loading => \E r \in req : r.what = "load"
    /\ ui.flameLoading => \E r \in req : r.what = "flame"
=============================================================================
