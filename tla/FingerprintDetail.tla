------------------------- MODULE FingerprintDetail -------------------------
(***************************************************************************)
(* The page of one fingerprint, web/src/pages/FingerprintDetail.tsx: its   *)
(* trend and executions in one load, more executions on demand, and an     *)
(* example query that a link brings along or two quiet requests find.  One *)
(* of its hooks comes after an early return.                               *)
(***************************************************************************)
EXTENDS Naturals, FiniteSets

CONSTANTS
    Hashes,     \* fingerprints
    MaxRequests \* bound: requests under way

VARIABLES
    connected, \* the property that App passes down
    ui,        \* the URL's hash and the component's state
    req        \* requests under way

vars == <<connected, ui, req>>

Intervals == {"hour", "day"}
Key(u) == [hash |-> u.hash, interval |-> u.interval]

\* A load by the effect has a signal, one by Retry has none.
Load(key, signalled) == [what |-> "load", key |-> key, signalled |-> signalled]
More(hash) == [what |-> "more", hash |-> hash]
Sample(hash) == [what |-> "sample", hash |-> hash]

Starting(u) == [u EXCEPT !.loading = TRUE, !.error = FALSE, !.canceled = FALSE]

\* What the effects request on a page that is connected: the example only if
\* the link brought none.
Effects(u) == {Load(Key(u), TRUE)} \union {s \in {Sample(u.hash)} : ~ u.located}

Blank(hash, located) ==
    [hash |-> hash, interval |-> "hour", located |-> located, sample |-> {},
     trend |-> {}, rows |-> {}, remaining |-> FALSE, loading |-> TRUE, loadingMore |-> FALSE,
     error |-> FALSE, canceled |-> FALSE, crashed |-> FALSE]

\* A link followed within the app, or a URL that is opened, before App connects.
Init ==
    /\ connected \in BOOLEAN
    /\ \E hash \in Hashes, located \in BOOLEAN :
         /\ located => connected
         /\ ui = Blank(hash, located)
    /\ req = IF connected THEN Effects(ui) ELSE {}

-----------------------------------------------------------------------------
(* Loads                                                                   *)

\* Mutant: the cleanup does not abort.
NotCleaned == req

\* The cleanups abort what the effects requested; what was requested without
\* a signal goes on.
Cleaned == {r \in req : r.what = "more" \/ (r.what = "load" /\ ~ r.signalled)}

\* Only the load depends on the interval.
SetInterval(interval) ==
    /\ connected /\ ~ ui.crashed /\ interval # ui.interval
    /\ ui' = Starting([ui EXCEPT !.interval = interval])
    /\ req' = (Cleaned \union {r \in req : r.what = "sample"}) \union {Load(Key(ui'), TRUE)}
    /\ UNCHANGED connected

\* A step back to another fingerprint: nothing of this one's is reset.
GoTo(hash) ==
    /\ connected /\ ~ ui.crashed /\ hash # ui.hash
    /\ \E located \in BOOLEAN : ui' = Starting([ui EXCEPT !.hash = hash, !.located = located])
    /\ req' = Cleaned \union Effects(ui')
    /\ UNCHANGED connected

\* useChartTheme is called on connected pages only, and React throws when a
\* component's hooks change: nothing catches it, and the app is unmounted.
Connect ==
    /\ ~ ui.crashed
    /\ connected' = ~ connected
    /\ ui' = [ui EXCEPT !.crashed = TRUE]
    /\ req' = {}

Body ==
    IF ui.crashed THEN "gone"
    ELSE IF ~ connected THEN "connect"
    ELSE IF ui.trend = {} /\ ui.loading THEN "skeleton"
    ELSE IF ui.trend = {} /\ ui.canceled THEN "canceled"
    ELSE IF ui.trend = {} THEN "nothing" ELSE "charts"

Retry ==
    /\ connected /\ ~ ui.crashed
    /\ ui.error \/ Body = "canceled"
    /\ Cardinality(req) < MaxRequests
    /\ ui' = Starting(ui)
    /\ req' = req \union {Load(Key(ui), FALSE)}
    /\ UNCHANGED connected

\* Cancel aborts the effect's load, whatever load it was offered for.
Cancel ==
    /\ Body = "skeleton"
    /\ ui' = [ui EXCEPT !.canceled = TRUE, !.loading = FALSE]
    /\ req' = {r \in req : ~ (r.what = "load" /\ r.signalled)}
    /\ UNCHANGED connected

Loaded(r) ==
    /\ r.what = "load"
    /\ \E some, remaining \in BOOLEAN :
         ui' = [ui EXCEPT !.trend = {k \in {r.key} : some}, !.rows = {r.key.hash},
                          !.remaining = remaining, !.loading = FALSE]
    /\ req' = req \ {r}
    /\ UNCHANGED connected

LoadFails(r) ==
    /\ r.what = "load"
    /\ ui' = [ui EXCEPT !.error = TRUE, !.loading = FALSE]
    /\ req' = req \ {r}
    /\ UNCHANGED connected

-----------------------------------------------------------------------------
(* More executions, and the example                                        *)

LoadMore ==
    /\ Body = "charts" /\ ui.remaining /\ ~ ui.loadingMore /\ Cardinality(req) < MaxRequests
    /\ ui' = [ui EXCEPT !.loadingMore = TRUE]
    /\ req' = req \union {More(ui.hash)}
    /\ UNCHANGED connected

\* Mutant: a failure leaves the button disabled.
MoreFailsStuck == [ui EXCEPT !.error = TRUE]
MoreFails == [ui EXCEPT !.error = TRUE, !.loadingMore = FALSE]

\* The rows join those that are there by now.
MoreArrives(r) ==
    /\ r.what = "more"
    /\ \/ \E remaining \in BOOLEAN :
            ui' = [ui EXCEPT !.rows = @ \union {r.hash}, !.remaining = remaining, !.loadingMore = FALSE]
       \/ ui' = MoreFails
    /\ req' = req \ {r}
    /\ UNCHANGED connected

\* Without an execution, or without its text, the card stays away.
SampleArrives(r) ==
    /\ r.what = "sample"
    /\ ui' \in {ui, [ui EXCEPT !.sample = {r.hash}]}
    /\ req' = req \ {r}
    /\ UNCHANGED connected

Next ==
    \/ Connect \/ Retry \/ Cancel \/ LoadMore
    \/ \E i \in Intervals : SetInterval(i)
    \/ \E hash \in Hashes : GoTo(hash)
    \/ \E r \in req : Loaded(r) \/ LoadFails(r) \/ MoreArrives(r) \/ SampleArrives(r)

Spec == Init /\ [][Next]_vars

-----------------------------------------------------------------------------
(* Properties                                                              *)

\* The effects' requests are for the fingerprint and the interval on the
\* page: none survives a change of either to answer for the old one.
EffectsAreCurrent ==
    \A r \in req :
        /\ r.what = "load" /\ r.signalled => r.key = Key(ui)
        /\ r.what = "sample" => r.hash = ui.hash

\* No spinner turns, and no button is disabled, without a request that will
\* put an end to it.
SpinnersEnd ==
    connected /\ ~ ui.crashed =>
        /\ ui.loading => \E r \in req : r.what = "load"
        /\ ui.loadingMore => \E r \in req : r.what = "more"

\* A page opened by its URL, where the sample "vanishes on refresh and deep
\* links" (FingerprintDetail.tsx:114), is there once App has connected.
SurvivesConnect == ~ ui.crashed
=============================================================================
