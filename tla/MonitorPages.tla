---------------------------- MODULE MonitorPages ----------------------------
(***************************************************************************)
(* The monitoring pages over usePollingQuery: what each of them renders    *)
(* for each state of the hook.  The pages differ in the test that guards   *)
(* their skeleton, and so in when they offer Cancel: some look at the      *)
(* answer (!data), some at its rows (rows.length === 0).  The server tells *)
(* some of the former which sections of the answer it was refused.         *)
(***************************************************************************)
EXTENDS PollingQuery

VARIABLES
    kind,    \* of the page that is mounted: "sections", "data" or "rows"
    answer,  \* what data holds: "none", "rows", "empty", or "denied", which
             \* is empty because the server was refused it
    search   \* the search box of UsersAccess: "none", "matches" or "misses"

pageVars == <<vars, kind, answer, search>>

SectionPages == {"Dashboard", "Replication", "DDL", "UsersAccess"}
RowPages == {"Mutations", "Merges", "Backups", "SystemMetrics", "Trends", "TableParts"}
Pages ==
    CASE kind = "sections" -> SectionPages
      [] kind = "data" -> {"QueryFingerprints"}
      [] kind = "rows" -> RowPages

\* Pages that render no error next to the data they have.
HidesErrors == {"Replication", "DDL", "TableParts"}

-----------------------------------------------------------------------------
(* What a page renders, as the set of its panels and enabled controls      *)

NoRows == answer # "rows"

\* Refresh is disabled while loading; the mark is rendered over old rows only.
Refresh == {x \in {"refresh"} : ~ loading}

\* Mutant: only rows are marked.
MarkRows == {x \in {"refreshing"} : loading /\ answer = "rows"}
Mark == {x \in {"refreshing"} : loading}
Banner == {x \in {"error"} : failed}

\* PartialErrorsBanner, over the answer that has them.
Partial == {x \in {"partial"} : answer = "denied"}

\* The skeleton with its Cancel, or the notice with its Retry.
Waiting == IF loading THEN {"skeleton", "cancel"} ELSE IF canceled THEN {"canceled"} ELSE {}

\* Mutant: any answer without rows is called empty.
ContentUnread == IF answer = "rows" THEN {"rows"} ELSE {"nothing"}

\* An answer without rows is empty only if no section of it failed.
Content ==
    CASE answer = "rows" -> {"rows"}
      [] answer = "denied" -> {"unavailable"}
      [] OTHER -> {"nothing"}

\* One error, even over data; and nothing at all without an answer.
Dashboard ==
    IF failed THEN {"error"}
    ELSE IF data = 0 THEN Waiting
    ELSE {"rows"} \union Mark \union Refresh \union Partial

\* Mutant: the page tests its rows without the error.
ReplicationBlank ==
    IF failed /\ data = 0 THEN {}
    ELSE Refresh \union (IF data = 0 THEN Waiting ELSE Mark \union Content)

Replication ==
    IF failed /\ data = 0 THEN {"error"}
    ELSE Refresh \union Partial \union (IF data = 0 THEN Waiting ELSE Mark \union Content)

DDL ==
    IF failed /\ data = 0 THEN {"error"}
    ELSE Refresh \union Partial \union (IF data = 0 THEN Waiting ELSE Mark \union Content)

\* "No users visible" and its like: said of a tab without rows, whether the
\* server was refused them or the search leaves none.
AccessTab == IF answer = "rows" /\ search # "misses" THEN {"rows"} ELSE {"nothing"}

UsersAccess ==
    IF failed /\ data = 0 THEN {"error"}
    ELSE Refresh \union Banner \union Partial
         \union (IF data = 0 THEN Waiting ELSE Mark \union AccessTab)

\* No Refresh: filters and the error's own button start a load.
QueryFingerprints ==
    Banner \union (IF data = 0 THEN Waiting
                  ELSE Mark \union (IF NoRows THEN {"nothing"} ELSE {"rows"}))

\* The pages that test their rows; an error without rows is rendered alone.
Rows == IF answer = "rows" THEN Mark \union {"rows"} ELSE {"nothing"}
Listed == IF NoRows /\ (loading \/ canceled) THEN Waiting ELSE Rows

Mutations == IF failed /\ NoRows THEN {"error"} ELSE Refresh \union Banner \union Listed
Merges == IF failed /\ NoRows THEN {"error"} ELSE Refresh \union Banner \union Listed
SystemMetrics == IF failed /\ NoRows THEN {"error"} ELSE Refresh \union Banner \union Listed
Trends == IF failed /\ NoRows THEN {"error"} ELSE Refresh \union Banner \union Listed

\* The error comes after the skeleton here, and beside the header.
Backups ==
    Refresh \union
    (IF NoRows /\ loading THEN Waiting
     ELSE IF NoRows /\ failed THEN {"error"}
     ELSE Banner \union Listed)

TableParts == Refresh \union (IF failed /\ NoRows THEN {"error"} ELSE Listed)

View(p) ==
    IF ~ enabled THEN {"connect"}
    ELSE CASE p = "Dashboard" -> Dashboard
           [] p = "Replication" -> Replication
           [] p = "DDL" -> DDL
           [] p = "UsersAccess" -> UsersAccess
           [] p = "QueryFingerprints" -> QueryFingerprints
           [] p = "Mutations" -> Mutations
           [] p = "Merges" -> Merges
           [] p = "Backups" -> Backups
           [] p = "SystemMetrics" -> SystemMetrics
           [] p = "Trends" -> Trends
           [] p = "TableParts" -> TableParts

-----------------------------------------------------------------------------

PagesInit ==
    /\ Init
    /\ kind \in {"sections", "data", "rows"}
    /\ answer = "none"
    /\ search = "none"

\* Cancel stands under the skeleton only.
CancelLoad ==
    /\ IF kind = "rows" THEN NoRows ELSE data = 0
    /\ Cancel
    /\ UNCHANGED <<kind, answer, search>>

\* The answer that a run puts in place.
Arrive(r) ==
    /\ Resume(r)
    /\ IF data' = data THEN UNCHANGED <<answer, search>>
       ELSE /\ answer' \in {"rows", "empty"} \union {x \in {"denied"} : kind = "sections"}
            /\ search' \in IF search = "none" THEN {"none"} ELSE {"matches", "misses"}
    /\ UNCHANGED kind

\* Typing into the search box, or another tab.
Search ==
    /\ kind = "sections" /\ data # 0 /\ enabled
    /\ search' \in {"none", "matches", "misses"}
    /\ UNCHANGED <<vars, kind, answer>>

Operate ==
    /\ \/ Effects
       \/ \E f \in Filters : ChangeFilter(f)
       \/ Enable \/ SetLive \/ Tick \/ Reload
       \/ \E r \in Runs : Settle(r, "answered") \/ Settle(r, "failed")
    /\ UNCHANGED <<kind, answer, search>>

PagesNext == Operate \/ CancelLoad \/ Search \/ \E r \in Runs : Arrive(r)

PagesSpec ==
    /\ PagesInit
    /\ [][PagesNext]_pageVars
    /\ WF_pageVars(Effects /\ UNCHANGED <<kind, answer, search>>)
    /\ \A r \in Runs :
         /\ WF_pageVars(Arrive(r))
         /\ WF_pageVars((Settle(r, "answered") \/ Settle(r, "failed")) /\ UNCHANGED <<kind, answer, search>>)

-----------------------------------------------------------------------------
(* Properties                                                              *)

\* Rows, or the lack of any, that are not those of the page's own filter and
\* newest load are marked as being refreshed, or stand beside the error that
\* kept them; three pages leave that error out. The history that Replication
\* keeps beside its answer is not meant.
StaleIsMarked ==
    enabled /\ ~ effects =>
        \A p \in Pages :
            View(p) \intersect {"rows", "nothing", "unavailable"} # {} =>
                \/ data # 0 /\ data = newest /\ of[data] = filter
                \/ "refreshing" \in View(p) \/ "error" \in View(p)
                \/ failed /\ p \in HidesErrors

\* A page says that there is nothing only of an answer, never for want of one,
\* and, where it is told what the server was refused, only of an answer that
\* was not refused. UsersAccess alone says it of a refused section too, under
\* the banner that tells of it, and for a search without a match.
NothingIsKnown ==
    \A p \in Pages : "nothing" \in View(p) /\ ~ effects =>
        \/ answer = "empty"
        \/ /\ p = "UsersAccess"
           /\ \/ answer = "denied" /\ "partial" \in View(p)
              \/ answer = "rows" /\ search = "misses"

\* No page is ever blank: every state of the hook has a panel or a control.
NeverBlank == ~ effects => \A p \in Pages : View(p) # {}
=============================================================================
