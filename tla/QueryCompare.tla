---------------------------- MODULE QueryCompare ----------------------------
(***************************************************************************)
(* The comparison of two queries, web/src/pages/QueryCompare.tsx: loaded   *)
(* for the pair in the URL, with a signal, and for the pair in the boxes,  *)
(* without one; and its tab of EXPLAIN plans, a side each, with a cache    *)
(* that outlives the page.                                                 *)
(***************************************************************************)
EXTENDS Naturals, FiniteSets

CONSTANTS
    Ids,        \* query ids
    MaxRequests \* bound: comparisons under way

VARIABLES
    connected, \* the property that App passes down
    ui,        \* the URL's pair, the boxes, the component's state, explainCache
    req        \* requests under way

vars == <<connected, ui, req>>

Sides == {"a", "b"}
Pairs == [Sides -> Ids]
Loading == [state |-> "loading", of |-> {}]

Comparison(pair, signalled) == [what |-> "compare", pair |-> pair, signalled |-> signalled]
Plan(side, id) == [what |-> "plan", side |-> side, of |-> id]

\* The first render; a link may have named the pair.
Init ==
    /\ connected = FALSE
    /\ \E pair \in Pairs, linked \in BOOLEAN :
         ui = [url |-> {p \in {pair} : linked}, boxes |-> {p \in {pair} : linked},
               loading |-> FALSE, error |-> FALSE, shown |-> {}, tab |-> "metrics",
               plans |-> [s \in Sides |-> Loading], cache |-> {}]
    /\ req = {}

Comparisons == {r \in req : r.what = "compare"}
Signalled == {r \in Comparisons : r.signalled}

-----------------------------------------------------------------------------
(* The comparison                                                          *)

Comparing(u) == [u EXCEPT !.loading = TRUE, !.error = FALSE]

\* The effect of the URL and the connection.  The load that its cleanup
\* aborts ends the spinner after the next one has started it.
UrlEffect(u, on) ==
    LET starts == {Comparison(pair, TRUE) : pair \in {p \in u.url : on}}
    IN  /\ connected' = on
        /\ ui' = [(IF starts = {} THEN u ELSE [Comparing(u) EXCEPT !.boxes = u.url])
                  EXCEPT !.loading = @ /\ Signalled = {}]
        /\ req' = (req \ Signalled) \union starts

Connect == ~ connected /\ UrlEffect(ui, TRUE)

\* The tabs leave the page with the comparison.
Disconnect ==
    /\ connected
    /\ connected' = FALSE
    /\ ui' = [ui EXCEPT !.tab = "metrics", !.loading = @ /\ Signalled = {}]
    /\ req' = {r \in req : r.what = "compare" /\ ~ r.signalled}

\* A link, or a step back, to another pair.
Visit(pair) ==
    /\ ui.url # {pair}
    /\ UrlEffect([ui EXCEPT !.url = {pair}], connected)

Type(pair) ==
    /\ connected /\ ui.boxes # {pair}
    /\ ui' = [ui EXCEPT !.boxes = {pair}]
    /\ UNCHANGED <<connected, req>>

\* Swap writes the boxes and the URL.
Swap ==
    /\ connected
    /\ \E p \in ui.boxes : LET q == {[a |-> p.b, b |-> p.a]}
                           IN  ui.url # q /\ UrlEffect([ui EXCEPT !.boxes = q, !.url = q], TRUE)

\* The button: the URL, whose effect loads if it changed, and a load of its own.
Compare ==
    /\ connected /\ ~ ui.loading /\ ui.boxes # {}
    /\ Cardinality(Comparisons) + 2 <= MaxRequests
    /\ LET own == {Comparison(p, FALSE) : p \in ui.boxes}
       IN  IF ui.url = ui.boxes
           THEN ui' = Comparing(ui) /\ req' = req \union own
           ELSE /\ ui' = [Comparing(ui) EXCEPT !.url = ui.boxes, !.loading = Signalled = {}]
                /\ req' = (req \ Signalled) \union own \union {Comparison(p, TRUE) : p \in ui.boxes}
    /\ UNCHANGED connected

Retry ==
    /\ connected /\ ui.error /\ ui.boxes # {} /\ Cardinality(Comparisons) < MaxRequests
    /\ ui' = Comparing(ui)
    /\ req' = req \union {Comparison(p, FALSE) : p \in ui.boxes}
    /\ UNCHANGED connected

-----------------------------------------------------------------------------
(* The plans                                                               *)

\* Mutant: the effect of the plans has no cleanup.
PlansKept == req
PlansDropped == {r \in req : r.what # "plan"}

\* The effect of the tab's two ids: a plan that is cached is there at once.
PlanEffect(u, pair, reqs) ==
    /\ ui' = [u EXCEPT !.plans = [s \in Sides |->
                 IF pair[s] \in u.cache THEN [state |-> "ready", of |-> {pair[s]}] ELSE Loading]]
    /\ req' = reqs \union {Plan(s, pair[s]) : s \in {t \in Sides : pair[t] \notin u.cache}}

\* The plans are fetched anew only for ids that are not those on show.
ShowPair(u, pair, r) ==
    LET next == [u EXCEPT !.shown = {pair}]
    IN  IF u.tab = "plans" /\ u.shown # {pair}
        THEN PlanEffect(next, pair, PlansDropped \ {r})
        ELSE ui' = next /\ req' = req \ {r}

Compared(r) ==
    /\ r.what = "compare"
    /\ ShowPair([ui EXCEPT !.loading = FALSE], r.pair, r)
    /\ UNCHANGED connected

CompareFails(r) ==
    /\ r.what = "compare"
    /\ ui' = [ui EXCEPT !.loading = FALSE, !.error = TRUE]
    /\ req' = req \ {r}
    /\ UNCHANGED connected

\* The tab is mounted when it is opened and unmounted when it is left.
OpenPlans ==
    /\ connected /\ ui.tab = "metrics"
    /\ \E pair \in ui.shown : PlanEffect([ui EXCEPT !.tab = "plans"], pair, req)
    /\ UNCHANGED connected

LeavePlans ==
    /\ connected /\ ui.tab = "plans"
    /\ ui' = [ui EXCEPT !.tab = "metrics"]
    /\ req' = PlansDropped
    /\ UNCHANGED connected

Planned(r) ==
    /\ r.what = "plan"
    /\ \/ ui' = [ui EXCEPT !.plans[r.side] = [state |-> "ready", of |-> {r.of}], !.cache = @ \union {r.of}]
       \/ ui' = [ui EXCEPT !.plans[r.side] = [state |-> "failed", of |-> {r.of}]]
    /\ req' = req \ {r}
    /\ UNCHANGED connected

Next ==
    \/ Connect \/ Disconnect \/ Swap \/ Compare \/ Retry \/ OpenPlans \/ LeavePlans
    \/ \E pair \in Pairs : Visit(pair) \/ Type(pair)
    \/ \E r \in req : Compared(r) \/ CompareFails(r) \/ Planned(r)

Spec == Init /\ [][Next]_vars

-----------------------------------------------------------------------------
(* Properties                                                              *)

\* The plans that are compared are those of the two queries on show, side by
\* side, however the pairs change under them.
PlansAreOwn ==
    ui.tab = "plans" =>
        \A pair \in ui.shown, s \in Sides :
            ui.plans[s].state # "loading" => ui.plans[s].of = {pair[s]}

\* No spinner turns without a request that will stop it.
SpinnersEnd ==
    /\ ui.loading => Comparisons # {}
    /\ ui.tab = "plans" =>
         \A s \in Sides : ui.plans[s].state = "loading" =>
             \E r \in req : r.what = "plan" /\ r.side = s
=============================================================================
