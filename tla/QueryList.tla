----------------------------- MODULE QueryList -----------------------------
(***************************************************************************)
(* The Queries page, web/src/pages/QueryList.tsx: filters, a debounced     *)
(* search, server-side pages, and a total that is counted only on the      *)
(* first page of a dated range and kept for the others.                    *)
(***************************************************************************)
EXTENDS Naturals, FiniteSets

CONSTANTS
    Words,     \* what the filters and the search box may hold
    LastPage   \* bound: the last page of any answer, from 0

VARIABLES
    connected, \* the property that App passes down
    ui,        \* the component's state
    req        \* requests under way

vars == <<connected, ui, req>>

\* What a request asks for, and what its rows are rows of.
Key(u) == [filter |-> u.filter, dated |-> u.dated, page |-> u.page, search |-> u.debounced]
Range(k) == [filter |-> k.filter, dated |-> k.dated, search |-> k.search]

WantsCount(u) == u.page = 0 /\ u.dated

\* The first render; a shared URL may name a page, a filter and a search.
Mounted(filter, page, word) ==
    [filter |-> filter, dated |-> TRUE, page |-> page, typed |-> word, debounced |-> word,
     rows |-> {}, full |-> FALSE, total |-> 0, counted |-> {},
     loading |-> TRUE, error |-> FALSE, canceled |-> FALSE, selected |-> 0]

Requests(u, on) == {r \in {[key |-> Key(u), counts |-> WantsCount(u)]} : on}

Init ==
    /\ connected \in BOOLEAN
    /\ \E f, w \in Words, page \in 0 .. LastPage : ui = Mounted(f, page, w)
    /\ req = Requests(ui, connected)

-----------------------------------------------------------------------------
(* The load effect                                                         *)

\* Mutant: the effect has no cleanup.
NotCleaned == req

\* The cleanup aborts the effect's request, and active keeps its handlers
\* from the state.
Cleaned == {}

\* The effect runs again for every new params object, search and connection.
Load(u, on) ==
    /\ connected' = on
    /\ ui' = IF on THEN [u EXCEPT !.canceled = FALSE, !.loading = TRUE, !.error = FALSE] ELSE u
    /\ req' = Cleaned \union Requests(u, on)

\* The rows of a page, full or not, and the total if it was asked for.
Answer(r) ==
    /\ \E full \in BOOLEAN, some \in BOOLEAN, total \in 0 .. LastPage + 1 :
         ui' = [ui EXCEPT !.rows = IF some THEN {r.key} ELSE {},
                          !.full = some /\ full,
                          !.total = IF r.counts THEN total ELSE @,
                          !.counted = IF r.counts THEN {Range(r.key)} ELSE @,
                          !.loading = FALSE]
    /\ req' = req \ {r}
    /\ UNCHANGED connected

Fail(r) ==
    /\ ui' = [ui EXCEPT !.error = TRUE, !.loading = FALSE]
    /\ req' = req \ {r}
    /\ UNCHANGED connected

-----------------------------------------------------------------------------
(* What it renders                                                         *)

Empty == ui.rows = {}

Body ==
    IF Empty /\ ui.loading THEN "skeleton"
    ELSE IF Empty /\ ui.canceled THEN "canceled"
    ELSE IF Empty THEN "nothing" ELSE "rows"

TotalKnown == ui.total > 0
PagerShown == ui.total > 1 \/ ~ TotalKnown \/ ui.page > 0
PreviousOffered == PagerShown /\ ui.page > 0 /\ ~ ui.loading
NextOffered ==
    PagerShown /\ ~ ui.loading /\ ~ (TotalKnown /\ ui.page + 1 >= ui.total) /\ ui.full

-----------------------------------------------------------------------------
(* Handlers                                                                *)

\* The box changes at once and turns back to the first page; the search that
\* is sent follows 300 ms later.
Type(w) ==
    /\ connected /\ w # ui.typed
    /\ Load([ui EXCEPT !.typed = w, !.page = 0], connected)

Debounce ==
    /\ ui.debounced # ui.typed
    /\ Load([ui EXCEPT !.debounced = ui.typed], connected)

\* A filter, a chip, a sort header or an end of the range, by hand.
SetFilter(w) ==
    /\ connected
    /\ Load([ui EXCEPT !.filter = w, !.page = 0], connected)

SetRange ==
    /\ connected
    /\ \E dated \in BOOLEAN : Load([ui EXCEPT !.dated = dated, !.page = 0], connected)

\* A preset forgets the total.
ApplyDatePreset ==
    /\ connected
    /\ \E dated \in BOOLEAN :
         Load([ui EXCEPT !.dated = dated, !.page = 0, !.total = 0, !.counted = {}], connected)

Previous ==
    /\ connected /\ PreviousOffered
    /\ Load([ui EXCEPT !.page = @ - 1], connected)

Next_ ==
    /\ connected /\ NextOffered
    /\ ui.page < LastPage
    /\ Load([ui EXCEPT !.page = @ + 1], connected)

\* Retry, on the error or under "canceled".
Reload ==
    /\ connected
    /\ ui.error \/ Body = "canceled"
    /\ Load(ui, connected)

\* The aborted request's handlers swallow the abort and end the spinner.
Cancel ==
    /\ connected /\ Body = "skeleton"
    /\ ui' = [ui EXCEPT !.canceled = TRUE, !.loading = FALSE]
    /\ req' = {}
    /\ UNCHANGED connected

\* The third box that is ticked stays unticked.
ToggleSelect ==
    /\ connected /\ Body = "rows"
    /\ \E n \in {ui.selected - 1, ui.selected + 1} \intersect 0 .. 2 : ui' = [ui EXCEPT !.selected = n]
    /\ UNCHANGED <<connected, req>>

ClearSelection ==
    /\ connected /\ ui.selected > 0
    /\ ui' = [ui EXCEPT !.selected = 0]
    /\ UNCHANGED <<connected, req>>

Connect ==
    Load(ui, ~ connected)

Next ==
    \/ \E w \in Words : Type(w) \/ SetFilter(w)
    \/ Debounce \/ SetRange \/ ApplyDatePreset \/ Previous \/ Next_ \/ Reload \/ Cancel
    \/ ToggleSelect \/ ClearSelection \/ Connect
    \/ \E r \in req : Answer(r) \/ Fail(r)

Spec == Init /\ [][Next]_vars

-----------------------------------------------------------------------------
(* Properties                                                              *)

Settled == connected /\ ~ ui.loading /\ ~ ui.error /\ ~ ui.canceled

\* The rows are those of the filters, the search and the page that the
\* controls show.
RowsAreOwn == Settled /\ Body = "rows" => ui.rows = {Key(ui)}

\* On the first page of a dated range the total is that of its filters.
TotalIsOwn == Settled /\ WantsCount(ui) => ui.counted = {Range(Key(ui))}

\* The spinner turns for a request, and a request turns the spinner.
SpinnerIsOwn == connected => (ui.loading <=> req # {})
=============================================================================
