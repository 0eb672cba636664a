--------------------------- MODULE RunningQueries ---------------------------
(***************************************************************************)
(* The Running Queries page, web/src/pages/RunningQueries.tsx: a list that *)
(* reloads every three seconds, by hand and after a kill, where each load  *)
(* aborts the one before it, and two dialogs that kill.                    *)
(***************************************************************************)
EXTENDS Naturals, FiniteSets

CONSTANTS
    Queries,
    Owner,     \* [Queries -> users]
    Nobody,    \* null
    MaxKills   \* bound: kill requests of one target under way

VARIABLES
    connected, \* the property that App passes down
    ui,        \* the component's state
    req        \* [load, kills, userKills]: requests under way

vars == <<connected, ui, req>>

Submitters == {Owner[q] : q \in Queries}

\* The first render; the effects load and start the interval.
Init ==
    /\ connected \in BOOLEAN
    /\ ui = [rows |-> {}, hidden |-> {}, grouped |-> FALSE, loading |-> TRUE, error |-> FALSE,
             canceled |-> FALSE, live |-> TRUE, refresh |-> FALSE,
             killTarget |-> Nobody, killing |-> {}, killUser |-> Nobody, killingUser |-> FALSE]
    /\ req = [load |-> connected, kills |-> [q \in Queries |-> 0], userKills |-> [u \in Submitters |-> 0]]

-----------------------------------------------------------------------------
(* Loads                                                                   *)

\* Mutant: the handlers of a superseded load end the spinner.
SupersededEndsSpinner(u) == [u EXCEPT !.loading = ~ req.load]

\* The handlers of an aborted load leave the state of its successor alone.
Superseded(u) == u

Load(u) ==
    /\ ui' = Superseded([u EXCEPT !.canceled = FALSE, !.loading = TRUE, !.error = FALSE])
    /\ req' = [req EXCEPT !.load = TRUE]
    /\ UNCHANGED connected

\* An abort with no successor: the load still owns the flag.
Aborted(u) == [u EXCEPT !.loading = @ /\ ~ req.load]

Answer ==
    /\ req.load
    /\ \E rows \in SUBSET Queries : ui' = [ui EXCEPT !.rows = rows, !.loading = FALSE]
    /\ req' = [req EXCEPT !.load = FALSE]
    /\ UNCHANGED connected

Fail ==
    /\ req.load
    /\ ui' = [ui EXCEPT !.error = TRUE, !.loading = FALSE]
    /\ req' = [req EXCEPT !.load = FALSE]
    /\ UNCHANGED connected

Tick == connected /\ ui.live /\ Load(ui)

\* The reload that a kill has scheduled.
ScheduledRefresh == ui.refresh /\ Load([ui EXCEPT !.refresh = FALSE])

\* Refresh, and the Retry of an error or of a cancel.
Refresh == connected /\ (~ ui.loading \/ ui.error) /\ Load(ui)

\* Stopping the interval drops the load under way, whoever started it.
SetLive ==
    /\ connected
    /\ ui' = IF ui.live THEN [Aborted(ui) EXCEPT !.live = FALSE] ELSE [ui EXCEPT !.live = TRUE]
    /\ req' = [req EXCEPT !.load = @ /\ ~ ui.live]
    /\ UNCHANGED connected

Connect ==
    /\ ~ connected
    /\ connected' = TRUE
    /\ ui' = [ui EXCEPT !.canceled = FALSE, !.loading = TRUE, !.error = FALSE]
    /\ req' = [req EXCEPT !.load = TRUE]

\* Both teardowns abort the load, and the scheduled reload is dropped.
Disconnect ==
    /\ connected
    /\ connected' = FALSE
    /\ ui' = [Aborted(ui) EXCEPT !.refresh = FALSE]
    /\ req' = [req EXCEPT !.load = FALSE]

-----------------------------------------------------------------------------
(* What it renders                                                         *)

Filtered == ui.rows \ ui.hidden

Body ==
    IF ui.rows = {} /\ ui.loading THEN "skeleton"
    ELSE IF ui.rows = {} /\ ui.canceled THEN "canceled"
    ELSE IF ui.rows = {} THEN "quiet"
    ELSE IF Filtered = {} THEN "no match" ELSE "rows"

\* A dialog is modal: the page behind it takes no click.
Clickable == connected /\ ui.killTarget = Nobody /\ ui.killUser = Nobody

Cancel ==
    /\ Clickable /\ Body = "skeleton"
    /\ ui' = [Aborted(ui) EXCEPT !.canceled = TRUE]
    /\ req' = [req EXCEPT !.load = FALSE]
    /\ UNCHANGED connected

SetFilter ==
    /\ Clickable
    /\ \E hidden \in SUBSET Queries, grouped \in BOOLEAN :
         ui' = [ui EXCEPT !.hidden = hidden, !.grouped = grouped]
    /\ UNCHANGED <<connected, req>>

-----------------------------------------------------------------------------
(* Kills                                                                   *)

AskKill(q) ==
    /\ Clickable /\ q \in Filtered \ ui.killing
    /\ ui' = [ui EXCEPT !.killTarget = q]
    /\ UNCHANGED <<connected, req>>

\* A group is headed by its user, and has the whole user killed.
AskKillUser(q) ==
    /\ Clickable /\ ui.grouped /\ q \in Filtered /\ ~ ui.killingUser
    /\ ui' = [ui EXCEPT !.killUser = Owner[q]]
    /\ UNCHANGED <<connected, req>>

CancelDialog ==
    /\ connected /\ ~ Clickable
    /\ ui' = [ui EXCEPT !.killTarget = Nobody, !.killUser = Nobody]
    /\ UNCHANGED <<connected, req>>

\* Confirm stays enabled while its kill is under way.
HandleKill(q) ==
    /\ connected /\ ui.killTarget = q /\ req.kills[q] < MaxKills
    /\ ui' = [ui EXCEPT !.killing = @ \union {q}]
    /\ req' = [req EXCEPT !.kills[q] = @ + 1]
    /\ UNCHANGED connected

\* Mutant: a kill that fails leaves its row marked.
KilledIfDone(q, done) ==
    [ui EXCEPT !.killing = IF done THEN @ \ {q} ELSE @, !.killTarget = Nobody, !.refresh = @ \/ done]

\* The end of any kill closes the dialog, of whatever query it is.
Killed(q, done) ==
    [ui EXCEPT !.killing = @ \ {q}, !.killTarget = Nobody, !.refresh = @ \/ done]

KillEnds(q) ==
    /\ req.kills[q] > 0
    /\ \E done \in BOOLEAN : ui' = Killed(q, done)
    /\ req' = [req EXCEPT !.kills[q] = @ - 1]
    /\ UNCHANGED connected

HandleKillByUser(u) ==
    /\ connected /\ ui.killUser = u /\ req.userKills[u] < MaxKills
    /\ ui' = [ui EXCEPT !.killingUser = TRUE]
    /\ req' = [req EXCEPT !.userKills[u] = @ + 1]
    /\ UNCHANGED connected

KillByUserEnds(u) ==
    /\ req.userKills[u] > 0
    /\ \E done \in BOOLEAN :
         ui' = [ui EXCEPT !.killingUser = FALSE, !.killUser = Nobody, !.refresh = @ \/ done]
    /\ req' = [req EXCEPT !.userKills[u] = @ - 1]
    /\ UNCHANGED connected

Next ==
    \/ Answer \/ Fail \/ Tick \/ ScheduledRefresh \/ Refresh \/ SetLive \/ Connect \/ Disconnect
    \/ Cancel \/ SetFilter \/ CancelDialog
    \/ \E q \in Queries : AskKill(q) \/ AskKillUser(q) \/ HandleKill(q) \/ KillEnds(q)
    \/ \E u \in Submitters : HandleKillByUser(u) \/ KillByUserEnds(u)

Spec == Init /\ [][Next]_vars

-----------------------------------------------------------------------------
(* Properties                                                              *)

\* The spinner turns for the current load and for no other: neither a load
\* that was aborted for the next one nor a dropped poll leaves it wrong.
SpinnerIsOwn == connected => (ui.loading <=> req.load)

\* A row is marked as being killed only while a kill of it is under way: its
\* button comes back, whatever becomes of the kill.
KillingIsUnderWay == \A q \in ui.killing : req.kills[q] > 0
=============================================================================
