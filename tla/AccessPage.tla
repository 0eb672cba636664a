----------------------------- MODULE AccessPage -----------------------------
(***************************************************************************)
(* Users & Access, web/src/pages/UsersAccess.tsx: four lists of one        *)
(* overview, searched and paged in the browser, and the dialogs that drop, *)
(* revoke and show grants.  usePollingQuery, which fetches the overview,   *)
(* is here what it delivers: some overview, at any time.                   *)
(***************************************************************************)
EXTENDS Naturals, FiniteSets

CONSTANTS
    Users,       \* names of users
    Roles,       \* names of roles
    None,        \* no target, no statement, no search
    MaxCalls     \* bound: requests of dialogs under way

VARIABLES
    connected, \* the property that App passes down
    ui,        \* the component's state
    req        \* requests under way

vars == <<connected, ui, req>>

Overviews == [users : SUBSET Users, roles : SUBSET Roles, canManage : BOOLEAN]
Tabs == {"users", "roles", "grants", "quota"}
PageSizes == {1, 2}

Calls(kind) == {r \in req : r.kind = kind}

\* tabFromParam: a link names the tab.
Init ==
    /\ connected \in BOOLEAN
    /\ \E t \in Tabs :
         ui = [tab |-> t, page |-> 1, size |-> 1, query |-> None, data |-> {},
               drop |-> None, revoke |-> None, grants |-> None,
               stmt |-> None, loading |-> FALSE, error |-> FALSE]
    /\ req = {}

-----------------------------------------------------------------------------
(* What it renders                                                         *)

Overview == CHOOSE o \in ui.data : TRUE

\* The names that a tab lists; the search keeps those that contain it.
Listed ==
    LET all == CASE ui.tab = "users" -> Overview.users
                 [] ui.tab = "roles" -> Overview.roles
                 [] ui.tab = "grants" -> Overview.users \union Overview.roles
                 [] OTHER -> Overview.users
    IN  {n \in all : ui.query \in {None, n}}

Paged == ui.tab \in {"users", "quota"}

TotalPages == (Cardinality(Listed) + ui.size - 1) \div ui.size

Body == connected /\ ui.data # {}
Modal == ui.drop # None \/ ui.revoke # None \/ ui.grants # None
Reachable == Body /\ ~ Modal
Manages == Reachable /\ Overview.canManage

-----------------------------------------------------------------------------
(* The lists                                                               *)

\* setTab
SetTab ==
    /\ Reachable
    /\ \E t \in Tabs : ui' = [ui EXCEPT !.tab = t, !.page = 1, !.query = None]
    /\ UNCHANGED <<connected, req>>

\* showRole, from a user's or a grant's row: the search stays.
ShowRole ==
    /\ Reachable /\ ui.tab \in {"users", "grants"} /\ Overview.roles # {}
    /\ ui' = [ui EXCEPT !.tab = "roles", !.page = 1]
    /\ UNCHANGED <<connected, req>>

Search ==
    /\ Reachable
    /\ \E q \in {None} \union Users \union Roles : ui' = [ui EXCEPT !.query = q, !.page = 1]
    /\ UNCHANGED <<connected, req>>

\* The pager, when the list does not fit a page.
Turn ==
    /\ Reachable /\ Paged /\ Cardinality(Listed) > ui.size
    /\ \/ \E p \in 1 .. TotalPages : ui' = [ui EXCEPT !.page = p]
       \/ \E s \in PageSizes : ui' = [ui EXCEPT !.size = s, !.page = 1]
    /\ UNCHANGED <<connected, req>>

-----------------------------------------------------------------------------
(* SqlStatementDialog                                                      *)

Fetch(target) == [kind |-> "grants", target |-> target]

\* Mutant: the effect has no cleanup.
NotAborted == req

\* What is left when the effect's cleanup has aborted its request, whose
\* answer the dialog then ignores.
Aborted == req \ Calls("grants")

\* run
Run(u, target) ==
    /\ ui' = [u EXCEPT !.loading = TRUE, !.error = FALSE, !.stmt = None]
    /\ req' = Aborted \union {Fetch(target)}

ShowGrants ==
    /\ Reachable /\ ui.tab \in {"users", "roles"}
    /\ \E n \in Listed : Run([ui EXCEPT !.grants = n], n)
    /\ UNCHANGED connected

StatementArrives ==
    /\ \E r \in Calls("grants") :
         /\ ui' = [ui EXCEPT !.stmt = r.target, !.loading = FALSE]
         /\ req' = req \ {r}
    /\ UNCHANGED connected

StatementFails ==
    /\ \E r \in Calls("grants") :
         /\ ui' = [ui EXCEPT !.error = TRUE, !.loading = FALSE]
         /\ req' = req \ {r}
    /\ UNCHANGED connected

CloseGrants ==
    /\ Body /\ ui.grants # None
    /\ ui' = [ui EXCEPT !.grants = None]
    /\ req' = Aborted
    /\ UNCHANGED connected

-----------------------------------------------------------------------------
(* Drop and revoke: a dialog stays until its request ends, and may be      *)
(* confirmed again or cancelled, and another opened, meanwhile.            *)

AskDrop ==
    /\ Manages /\ ui.tab \in {"users", "roles"}
    /\ \E n \in Listed : ui' = [ui EXCEPT !.drop = n]
    /\ UNCHANGED <<connected, req>>

AskRevoke ==
    /\ Manages /\ ui.tab = "grants"
    /\ \E n \in Listed : ui' = [ui EXCEPT !.revoke = n]
    /\ UNCHANGED <<connected, req>>

Cancel ==
    /\ Body
    /\ \/ ui.drop # None /\ ui' = [ui EXCEPT !.drop = None]
       \/ ui.revoke # None /\ ui' = [ui EXCEPT !.revoke = None]
    /\ UNCHANGED <<connected, req>>

\* handleDrop, handleRevoke
Confirm ==
    /\ Body /\ Cardinality(req) < MaxCalls
    /\ \/ ui.drop # None /\ req' = req \union {[kind |-> "drop", target |-> ui.drop]}
       \/ ui.revoke # None /\ req' = req \union {[kind |-> "revoke", target |-> ui.revoke]}
    /\ UNCHANGED <<connected, ui>>

\* The finally of either closes whichever dialog of its kind is open; a
\* reload follows a success, and Refreshed delivers it.
Done ==
    /\ \E r \in Calls("drop") \union Calls("revoke") :
         /\ req' = req \ {r}
         /\ ui' = IF r.kind = "drop" THEN [ui EXCEPT !.drop = None]
                  ELSE [ui EXCEPT !.revoke = None]
    /\ UNCHANGED connected

-----------------------------------------------------------------------------
(* The connection and the overview                                         *)

\* NotConnectedState takes the dialog's place, whose request is aborted;
\* what was open stays so in the page's state.
Disconnect ==
    /\ connected
    /\ connected' = FALSE
    /\ req' = Aborted
    /\ UNCHANGED ui

\* With it the dialog that was open is mounted and loads again.
Connect ==
    /\ ~ connected
    /\ connected' = TRUE
    /\ IF ui.data # {} /\ ui.grants # None THEN Run(ui, ui.grants) ELSE UNCHANGED <<ui, req>>

\* An overview that usePollingQuery delivers.
Refreshed ==
    /\ connected
    /\ \E o \in Overviews : ui' = [ui EXCEPT !.data = {o}]
    /\ UNCHANGED <<connected, req>>

Next ==
    \/ SetTab \/ ShowRole \/ Search \/ Turn
    \/ ShowGrants \/ StatementArrives \/ StatementFails \/ CloseGrants
    \/ AskDrop \/ AskRevoke \/ Cancel \/ Confirm \/ Done
    \/ Disconnect \/ Connect \/ Refreshed

Spec == Init /\ [][Next]_vars

-----------------------------------------------------------------------------
(* Properties                                                              *)

\* The dialog shows the grants of the name in its title, and of no other,
\* though answers may come after it has been closed and opened for another,
\* and across a reconnect (SqlStatementDialog.tsx:48-68).
StatementIsOwn == Body /\ ui.grants # None /\ ui.stmt # None => ui.stmt = ui.grants

\* The dialog's spinner stands for a request.
StatementLoads == Body /\ ui.grants # None /\ ui.loading => Calls("grants") # {}
=============================================================================
