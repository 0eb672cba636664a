------------------------- MODULE PollingQueryProofs -------------------------
(***************************************************************************)
(* Proofs about PollingQuery: for any filters and any number of loads,     *)
(* what the page shows is of its current filter and of the newest load,    *)
(* never goes back, and a cancel is not an error; and about MonitorPages:  *)
(* no page over the hook passes off old rows, or the lack of any, for what *)
(* the server last said.                                                   *)
(***************************************************************************)
EXTENDS MonitorPages, TLAPS

USE NoFilterAssumption, MaxRunsAssumption

(***************************************************************************)
(* The inductive invariant.  That the page shows the newest load when      *)
(* nothing says otherwise rests on why the newest load can end without     *)
(* data: its signal was aborted by Cancel, which says so, or by a cleanup, *)
(* which another load follows unless the page disabled the hook.           *)
(***************************************************************************)

\* TypeOK in two parts: the provers treat Booleans apart from the rest.
Flags ==
    /\ enabled \in BOOLEAN /\ live \in BOOLEAN /\ effects \in BOOLEAN /\ mounted \in BOOLEAN
    /\ loading \in BOOLEAN /\ failed \in BOOLEAN /\ canceled \in BOOLEAN

Ranges ==
    /\ filter \in Filters
    /\ armed \in Filters \union {NoFilter}
    /\ newest \in 0 .. MaxRuns
    /\ of \in [Runs -> Filters \union {NoFilter}]
    /\ fetch \in [Runs -> {"none", "flight", "answered", "failed", "aborted", "over"}]
    /\ cut \subseteq Runs
    /\ data \in 0 .. MaxRuns
    /\ \A r \in Runs : r > newest <=> fetch[r] = "none"
    /\ data # 0 => fetch[data] = "over"

\* While the effects are up to date, the newest load and the interval are of
\* the page's filter.
Loaded ==
    enabled /\ ~ effects =>
        /\ newest > 0
        /\ of[newest] = filter
        /\ armed \in {filter, NoFilter}

\* A run rejects with an abort only when its signal is aborted, and only runs
\* that began are.
AbortsAreCut ==
    /\ \A r \in Runs : fetch[r] = "aborted" => r \in cut
    /\ \A r \in cut : r <= newest

\* While the effects are up to date, only Cancel aborted the newest load.
CutIsCanceled == enabled /\ ~ effects /\ newest \in cut => canceled

\* A cancel leaves its load aborted, and neither it nor a load under way is
\* shown beside an error.
CanceledIsCut ==
    /\ canceled => newest \in cut
    /\ canceled \/ loading => ~ failed

ShowsNewest ==
    enabled /\ ~ effects /\ ~ loading /\ ~ failed /\ ~ canceled => data = newest

IInv ==
    /\ Flags
    /\ Ranges
    /\ Loaded
    /\ AbortsAreCut
    /\ CutIsCanceled
    /\ CanceledIsCut
    /\ ShowsNewest

-----------------------------------------------------------------------------
(* One lemma per step.                                                     *)

Fetches == [Runs -> {"none", "flight", "answered", "failed", "aborted", "over"}]

\* abort() turns a fetch in flight into an aborted one and no other.
LEMMA AbortedEffect ==
    ASSUME IInv, newest > 0
    PROVE  /\ Aborted(newest) \in Fetches
           /\ \A q \in Runs : /\ Aborted(newest)[q] = "none" <=> fetch[q] = "none"
                              /\ Aborted(newest)[q] = "over" <=> fetch[q] = "over"
                              /\ Aborted(newest)[q] = "aborted" => q = newest \/ fetch[q] = "aborted"
<1>1. fetch \in Fetches /\ newest \in Runs
    BY DEF IInv, Ranges, Fetches, Runs
<1>. QED  BY <1>1 DEF Aborted, Fetches

LEMMA EffectsInv == ASSUME IInv, Effects PROVE IInv'
<1> DEFINE aborts == mounted /\ newest > 0
           fetches == IF aborts THEN Aborted(newest) ELSE fetch
<1>1. /\ fetches \in Fetches
      /\ \A q \in Runs : /\ fetches[q] = "none" <=> fetch[q] = "none"
                         /\ fetches[q] = "over" <=> fetch[q] = "over"
                         /\ fetches[q] = "aborted" => (aborts /\ q = newest) \/ fetch[q] = "aborted"
    BY AbortedEffect DEF IInv, Ranges, Fetches
<1>2. newest \in Nat /\ cut' = IF aborts THEN cut \union {newest} ELSE cut
    BY DEF Effects, IInv, Ranges
<1>3. cut' \subseteq Runs /\ \A q \in cut' : q <= newest
    BY <1>2 DEF IInv, Ranges, AbortsAreCut, Runs
<1>4. Flags'
    BY Zenon DEF Effects, Run, view, IInv, Flags
<1>5. CASE enabled
    <2>1. /\ newest < MaxRuns /\ newest' = newest + 1
          /\ of' = [of EXCEPT ![newest'] = filter]
          /\ fetch' = [fetches EXCEPT ![newest'] = "flight"]
          /\ loading' = TRUE /\ failed' = FALSE /\ canceled' = FALSE /\ effects' = FALSE
          /\ armed' \in {filter, NoFilter}
          /\ UNCHANGED <<data, filter, enabled>>
        BY <1>5 DEF Effects, Run
    <2>. HIDE DEF fetches
    <2>2. newest' \in Runs /\ newest' \notin cut'
        BY <2>1, <1>2, <1>3 DEF Runs
    <2>3. Ranges'
        <3>1. fetch' \in Fetches
            BY <2>1, <2>2, <1>1 DEF Fetches
        <3>2. \A q \in Runs : q > newest' <=> fetch'[q] = "none"
            BY <2>1, <2>2, <1>1 DEF IInv, Ranges, Fetches, Runs
        <3>3. data # 0 => fetch'[data] = "over"
            BY <2>1, <2>2, <1>1 DEF IInv, Ranges, Fetches, Runs
        <3>. QED  BY <3>1, <3>2, <3>3, <2>1, <2>2, <1>3 DEF IInv, Ranges, Fetches, Runs
    <2>4. Loaded'
        BY <2>1, <2>2 DEF IInv, Ranges, Loaded, Runs
    <2>5. AbortsAreCut'
        BY <2>1, <2>2, <1>1, <1>2, <1>3 DEF IInv, AbortsAreCut, Fetches
    <2>6. CutIsCanceled' /\ CanceledIsCut' /\ ShowsNewest'
        BY <2>1, <2>2 DEF CutIsCanceled, CanceledIsCut, ShowsNewest
    <2>. QED  BY <1>4, <2>3, <2>4, <2>5, <2>6 DEF IInv
<1>6. CASE ~ enabled
    <2>1. fetch' = fetches /\ UNCHANGED <<newest, of, view, filter, enabled>>
        BY <1>6 DEF Effects
    <2>2. armed' = NoFilter
        BY <1>6 DEF Effects
    <2>. HIDE DEF fetches
    <2>3. Ranges'
        BY <2>1, <2>2, <1>1, <1>3 DEF IInv, Ranges, Fetches, view, Runs
    <2>4. AbortsAreCut'
        BY <2>1, <1>1, <1>2, <1>3 DEF IInv, AbortsAreCut
    <2>5. Loaded' /\ CutIsCanceled' /\ ShowsNewest'
        BY <2>1, <1>6 DEF Loaded, CutIsCanceled, ShowsNewest
    <2>6. CanceledIsCut'
        BY <2>1, <1>2 DEF IInv, CanceledIsCut, view
    <2>. QED  BY <1>4, <2>3, <2>4, <2>5, <2>6 DEF IInv
<1>. QED  BY <1>5, <1>6

\* A load by the interval or by the Refresh button, both of which are there
\* for the page's filter once the effects have run.
LEMMA LoadInv == ASSUME IInv, Tick \/ Reload PROVE IInv'
<1>1. PICK f \in {armed, filter} :
          /\ f \in Filters /\ newest < MaxRuns /\ newest' = newest + 1
          /\ of' = [of EXCEPT ![newest'] = f]
          /\ fetch' = [fetch EXCEPT ![newest'] = "flight"]
          /\ enabled /\ ~ effects => f = filter
    BY DEF Tick, Reload, Run, IInv, Ranges, Loaded
<1>2. /\ loading' = TRUE /\ failed' = FALSE /\ canceled' = FALSE
      /\ UNCHANGED <<data, page, cut>>
    BY DEF Tick, Reload, Run
<1>3. newest' \in Runs /\ newest' \notin cut'
    BY <1>1, <1>2 DEF IInv, Ranges, AbortsAreCut, Runs
<1>4. Flags'
    BY Zenon DEF Tick, Reload, Run, page, IInv, Flags
<1>5. Ranges'
    <2>1. fetch' \in Fetches
        BY <1>1, <1>3 DEF IInv, Ranges, Fetches
    <2>2. \A q \in Runs : q > newest' <=> fetch'[q] = "none"
        BY <1>1, <1>3 DEF IInv, Ranges, Runs
    <2>3. data # 0 => fetch'[data] = "over"
        BY <1>1, <1>3 DEF IInv, Ranges, Runs
    <2>4. of' \in [Runs -> Filters \union {NoFilter}]
        BY <1>1, <1>3 DEF IInv, Ranges
    <2>. QED  BY <2>1, <2>2, <2>3, <2>4, <1>2, <1>3 DEF IInv, Ranges, Fetches, page, Runs
<1>6. Loaded'
    BY <1>1, <1>2, <1>3 DEF IInv, Ranges, Loaded, page, Runs
<1>7. AbortsAreCut'
    BY <1>1, <1>2, <1>3 DEF IInv, Ranges, AbortsAreCut, Runs
<1>8. CutIsCanceled' /\ CanceledIsCut' /\ ShowsNewest'
    BY <1>2, <1>3 DEF CutIsCanceled, CanceledIsCut, ShowsNewest
<1>. QED  BY <1>4, <1>5, <1>6, <1>7, <1>8 DEF IInv

\* What only changes what the page asks for.
LEMMA PageInv ==
    ASSUME IInv, Enable \/ SetLive \/ \E f \in Filters : ChangeFilter(f)
    PROVE  IInv'
<1>1. UNCHANGED <<newest, of, fetch, cut, view>>
    BY DEF Enable, SetLive, ChangeFilter
<1>2. \/ effects' /\ filter' \in Filters /\ armed' = armed
      \/ /\ UNCHANGED <<enabled, effects, filter>>
         /\ armed' \in {filter, NoFilter}
    BY DEF Enable, SetLive, ChangeFilter, IInv, Ranges
<1>3. Flags'
    BY Zenon DEF Enable, SetLive, ChangeFilter, view, IInv, Flags
<1>4. Ranges'
    BY <1>1, <1>2 DEF IInv, Ranges, view
<1>5. Loaded'
    BY <1>1, <1>2 DEF IInv, Loaded
<1>6. AbortsAreCut'
    BY <1>1 DEF IInv, AbortsAreCut
<1>7. CutIsCanceled' /\ CanceledIsCut' /\ ShowsNewest'
    BY <1>1, <1>2 DEF IInv, CutIsCanceled, CanceledIsCut, ShowsNewest, view
<1>. QED  BY <1>3, <1>4, <1>5, <1>6, <1>7 DEF IInv

LEMMA CancelInv == ASSUME IInv, Cancel PROVE IInv'
<1>1. /\ newest > 0 /\ fetch' = Aborted(newest) /\ cut' = cut \union {newest}
      /\ UNCHANGED <<page, newest, of, data, failed>>
    BY DEF Cancel
<1>2. newest \in Runs
    BY <1>1 DEF IInv, Ranges, Runs
<1>3. Flags'
    BY Zenon DEF Cancel, page, IInv, Flags
<1>4. Ranges'
    BY <1>1, <1>2, AbortedEffect DEF IInv, Ranges, Fetches, page, Runs
<1>5. Loaded'
    BY <1>1 DEF IInv, Loaded, page
<1>6. AbortsAreCut'
    BY <1>1, <1>2, AbortedEffect DEF IInv, AbortsAreCut, Runs
<1>7. CutIsCanceled' /\ CanceledIsCut' /\ ShowsNewest'
    BY <1>1 DEF Cancel, IInv, CutIsCanceled, CanceledIsCut, ShowsNewest
<1>. QED  BY <1>3, <1>4, <1>5, <1>6, <1>7 DEF IInv

LEMMA SettleInv ==
    ASSUME IInv, NEW r \in Runs, Settle(r, "answered") \/ Settle(r, "failed")
    PROVE  IInv'
<1>1. PICK how \in {"answered", "failed"} :
          fetch[r] = "flight" /\ fetch' = [fetch EXCEPT ![r] = how]
    BY DEF Settle
<1>2. UNCHANGED <<page, newest, of, cut, view>>
    BY DEF Settle
<1>3. /\ fetch' \in Fetches
      /\ \A q \in Runs : /\ fetch'[q] = "none" <=> fetch[q] = "none"
                         /\ fetch'[q] = "over" <=> fetch[q] = "over"
                         /\ fetch'[q] = "aborted" => fetch[q] = "aborted"
    BY <1>1 DEF IInv, Ranges, Fetches
<1>4. Flags'
    BY Zenon, <1>2 DEF page, view, IInv, Flags
<1>5. Ranges'
    BY <1>2, <1>3 DEF IInv, Ranges, Fetches, page, view, Runs
<1>6. AbortsAreCut'
    BY <1>2, <1>3 DEF IInv, AbortsAreCut
<1>7. Loaded' /\ CutIsCanceled' /\ CanceledIsCut' /\ ShowsNewest'
    BY <1>2 DEF IInv, Loaded, CutIsCanceled, CanceledIsCut, ShowsNewest, page, view
<1>. QED  BY <1>4, <1>5, <1>6, <1>7 DEF IInv

LEMMA ResumeInv == ASSUME IInv, NEW r \in Runs, Resume(r) PROVE IInv'
<1> USE DEF IInv, Resume, Current, page, Runs
<1>0. Flags'
    BY Zenon DEF Flags
<1>1. Ranges'
    BY DEF Ranges
<1>2. Loaded' /\ AbortsAreCut' /\ CutIsCanceled' /\ CanceledIsCut'
    BY DEF Ranges, Loaded, AbortsAreCut, CutIsCanceled, CanceledIsCut
<1>3. ShowsNewest'
    \* The newest load ends with data, with an error, or because Cancel
    \* aborted it.
    <2>1. CASE r = newest
        BY <2>1 DEF Ranges, AbortsAreCut, CutIsCanceled, ShowsNewest
    <2>2. CASE r # newest
        BY <2>2 DEF Ranges, ShowsNewest
    <2>. QED  BY <2>1, <2>2
<1>. QED  BY <1>0, <1>1, <1>2, <1>3

-----------------------------------------------------------------------------
(* The theorems.                                                           *)

LEMMA InitInv == Init => IInv
<1> SUFFICES ASSUME Init PROVE IInv
    OBVIOUS
<1>1. Flags
    BY Zenon DEF Init, Flags
<1>2. Ranges
    BY DEF Init, Ranges, Runs
<1>3. Loaded /\ AbortsAreCut /\ CutIsCanceled /\ CanceledIsCut /\ ShowsNewest
    BY DEF Init, Loaded, AbortsAreCut, CutIsCanceled, CanceledIsCut, ShowsNewest, Runs
<1>. QED  BY <1>1, <1>2, <1>3 DEF IInv

LEMMA NextInv == IInv /\ [Next]_vars => IInv'
<1> SUFFICES ASSUME IInv, [Next]_vars PROVE IInv'
    OBVIOUS
<1>1. CASE UNCHANGED vars
    BY <1>1 DEF vars, IInv, Flags, Ranges, Loaded, AbortsAreCut, CutIsCanceled, CanceledIsCut,
       ShowsNewest, Runs
<1>. QED  BY <1>1, EffectsInv, LoadInv, PageInv, CancelInv, SettleInv, ResumeInv DEF Next

\* The inductive invariant holds in every state: what follows is read off it.
THEOREM PollingInvariant == Spec => []IInv
BY InitInv, NextInv, PTL DEF Spec

\* The types of the hook's variables, for any filters and any number of loads.
THEOREM PollingTypeOK == Spec => []TypeOK
<1>1. IInv => TypeOK
    BY DEF IInv, Flags, Ranges, TypeOK
<1>. QED  BY <1>1, PollingInvariant, PTL

\* With no spinner, error or cancel on show, the page shows the data of its
\* current filter and of the newest load (usePollingQuery's run, after its
\* await).
THEOREM PollingShowsCurrentFilter == Spec => []ShowsCurrentFilter
<1>1. IInv => ShowsCurrentFilter
    BY DEF IInv, ShowsNewest, Loaded, ShowsCurrentFilter
<1>. QED  BY <1>1, PollingInvariant, PTL

\* A cancel is not shown as an error: cancel finds no error on show, and the
\* load that it aborts rejects into a run that looks at its signal.
THEOREM PollingCancelIsNoError == Spec => []CancelIsNoError
<1>1. IInv => CancelIsNoError
    BY DEF IInv, CanceledIsCut, CancelIsNoError
<1>. QED  BY <1>1, PollingInvariant, PTL

\* No step replaces the data of a load by that of an earlier one: only the
\* newest run sets data.
THEOREM PollingNeverGoesBack == Spec => NeverGoesBack
<1>1. IInv /\ [Next]_vars => [data' >= data]_vars
    <2> SUFFICES ASSUME IInv, Next PROVE data' >= data
        OBVIOUS
    <2>1. data \in Nat /\ newest \in Nat /\ data <= newest
        BY DEF IInv, Ranges, Runs
    <2>2. ASSUME NEW r \in Runs, Resume(r) PROVE data' >= data
        BY <2>1, <2>2 DEF Resume, Current, Runs
    <2>3. Next /\ ~ (\E r \in Runs : Resume(r)) => UNCHANGED data
        BY DEF Next, Effects, ChangeFilter, Enable, SetLive, Tick, Reload, Cancel, Run, Settle, view
    <2>. QED  BY <2>1, <2>2, <2>3
<1>. QED  BY <1>1, PollingInvariant, PTL DEF Spec, NeverGoesBack

-----------------------------------------------------------------------------
(* The pages.                                                              *)

\* What the page knows of data: that there is none, and what it holds.
Answered ==
    /\ kind \in {"sections", "data", "rows"}
    /\ answer \in {"none", "rows", "empty", "denied"}
    /\ data = 0 <=> answer = "none"
    /\ kind # "sections" => answer # "denied"

\* Cancel stands under the skeleton, so a canceled page has nothing of an
\* older load to show; it may still get the answer of the load it canceled.
CanceledIsBare ==
    canceled => data = newest \/ (IF kind = "rows" THEN NoRows ELSE data = 0)

PagesInv == IInv /\ Answered /\ CanceledIsBare

LEMMA PagesInitInv == PagesInit => PagesInv
<1> SUFFICES ASSUME PagesInit PROVE PagesInv
    OBVIOUS
<1>1. IInv
    BY InitInv DEF PagesInit
<1>2. Answered /\ CanceledIsBare
    BY DEF PagesInit, Init, Answered, CanceledIsBare
<1>. QED  BY <1>1, <1>2 DEF PagesInv

\* The pages drive the hook only as its specification says.
LEMMA PagesStep == [PagesNext]_pageVars => [Next]_vars
<1>1. Operate => Next
    BY DEF Operate, Next
<1>2. CancelLoad => Next
    BY DEF CancelLoad, Next
<1>3. (\E r \in Runs : Arrive(r)) => Next
    BY DEF Arrive, Next
<1>4. Search \/ UNCHANGED pageVars => UNCHANGED vars
    BY DEF Search, pageVars
<1>. QED  BY <1>1, <1>2, <1>3, <1>4 DEF PagesNext

\* A step of the hook other than the end of a load leaves the data alone, and
\* only Cancel makes a page canceled.
LEMMA OperateEffect ==
    ASSUME IInv, Operate
    PROVE  /\ data' = data /\ answer' = answer /\ kind' = kind
           /\ canceled' => canceled /\ newest' = newest
<1>1. CASE Effects
    BY <1>1 DEF Operate, Effects, Run, view
<1>2. CASE (\E f \in Filters : ChangeFilter(f)) \/ Enable \/ SetLive
    BY <1>2 DEF Operate, ChangeFilter, Enable, SetLive, view
<1>3. CASE Tick \/ Reload
    BY <1>3 DEF Operate, Tick, Reload, Run
<1>4. CASE \E r \in Runs : Settle(r, "answered") \/ Settle(r, "failed")
    BY <1>4 DEF Operate, Settle, view
<1>. QED  BY <1>1, <1>2, <1>3, <1>4 DEF Operate

LEMMA PagesNextInv == PagesInv /\ [PagesNext]_pageVars => PagesInv'
<1> SUFFICES ASSUME PagesInv, [PagesNext]_pageVars PROVE PagesInv'
    OBVIOUS
<1>1. IInv'
    BY NextInv, PagesStep DEF PagesInv
<1>2. CASE Operate
    BY <1>1, <1>2, OperateEffect DEF PagesInv, Answered, CanceledIsBare, NoRows
<1>3. CASE CancelLoad
    BY <1>1, <1>3 DEF CancelLoad, Cancel, page, PagesInv, Answered, CanceledIsBare, NoRows
<1>4. ASSUME NEW r \in Runs, Arrive(r) PROVE PagesInv'
    <2>1. /\ data' = IF Current(r) /\ fetch[r] = "answered" THEN r ELSE data
          /\ kind' = kind /\ newest' = newest /\ canceled' = canceled
          /\ fetch[r] # "over"
        BY <1>4 DEF Arrive, Resume
    <2>2. CASE data' = data
        BY <1>1, <1>4, <2>1, <2>2 DEF Arrive, PagesInv, Answered, CanceledIsBare, NoRows
    <2>3. CASE data' # data
        <3>1. data' = newest' /\ data' # 0
            BY <2>1, <2>3 DEF Current, Runs
        <3>2. answer' \in {"rows", "empty"} \union {x \in {"denied"} : kind = "sections"}
            BY <1>4, <2>3 DEF Arrive
        <3>. QED  BY <1>1, <2>1, <3>1, <3>2 DEF PagesInv, Answered, CanceledIsBare
    <2>. QED  BY <2>2, <2>3
<1>5. CASE Search \/ UNCHANGED pageVars
    BY <1>1, <1>5 DEF Search, pageVars, vars, PagesInv, Answered, CanceledIsBare, NoRows
<1>. QED  BY <1>2, <1>3, <1>4, <1>5 DEF PagesNext

\* The invariant of the hook and the pages together.
THEOREM PagesInvariant == PagesSpec => []PagesInv
BY PagesInitInv, PagesNextInv, PTL DEF PagesSpec

\* The pages implement the hook's specification: whatever is proved of every
\* hook holds of theirs, which offer Cancel under a skeleton only.
THEOREM PagesUseTheHook == PagesSpec => Spec
<1>1. PagesInit => Init
    BY DEF PagesInit
<1>. QED  BY <1>1, PagesStep, PTL DEF PagesSpec, Spec

\* What a state of the hook can leave a connected page with once its effects
\* ran: the newest answer, of its own filter, or else a load under way, an
\* error, or a cancel that left nothing to show.
LEMMA Settled ==
    ASSUME PagesInv, enabled, ~ effects
    PROVE  /\ data = newest => data # 0 /\ of[data] = filter
           /\ data = newest \/ loading \/ failed \/ canceled
           /\ canceled => data = newest \/ (IF kind = "rows" THEN NoRows ELSE data = 0)
BY DEF PagesInv, IInv, Loaded, ShowsNewest, CanceledIsBare, Ranges

Shown == {"rows", "nothing", "unavailable"}

\* Rows, or the lack of any, that are not the newest load's of the page's own
\* filter are marked, or stand beside the error that kept them: the panels of
\* the eleven monitoring pages, each in its own order of tests.
THEOREM PagesMarkStaleRows == PagesSpec => []StaleIsMarked
<1>1. PagesInv => StaleIsMarked
    <2> SUFFICES ASSUME PagesInv, enabled, ~ effects, NEW p \in Pages,
                        View(p) \intersect Shown # {}, ~ (data # 0 /\ data = newest /\ of[data] = filter)
                 PROVE  "refreshing" \in View(p) \/ "error" \in View(p) \/ (failed /\ p \in HidesErrors)
        BY DEF StaleIsMarked, Shown
    <2>1. /\ data # newest /\ (loading \/ failed \/ canceled)
          /\ canceled => IF kind = "rows" THEN NoRows ELSE data = 0
        BY Settled
    <2>2. Answered
        BY DEF PagesInv
    <2>3. CASE kind = "sections"
        <3>. p \in SectionPages
            BY <2>3 DEF Pages
        <3>. QED  BY <2>1, <2>2, <2>3 DEF SectionPages, View, Dashboard, Replication, DDL,
                UsersAccess, AccessTab, Partial, Waiting, Mark, Refresh, Banner, HidesErrors, Shown
    <2>4. CASE kind = "data"
        BY <2>1, <2>2, <2>4 DEF Pages, View, QueryFingerprints, Waiting, Mark, Banner, Shown
    <2>5. CASE kind = "rows"
        <3>. p \in RowPages
            BY <2>5 DEF Pages
        <3>. QED  BY <2>1, <2>2, <2>5 DEF RowPages, View, Mutations, Merges, Backups, SystemMetrics,
                Trends, TableParts, Listed, Rows, NoRows, Waiting, Mark, Refresh, Banner, HidesErrors, Shown
    <2>. QED  BY <2>2, <2>3, <2>4, <2>5 DEF Answered
<1>. QED  BY <1>1, PagesInvariant, PTL

\* A page says that there is nothing only of an answer without rows none of
\* whose sections was refused; UsersAccess also says it under the banner of
\* what was refused, and of a search without a match.
THEOREM PagesKnowNothing == PagesSpec => []NothingIsKnown
<1>1. PagesInv => NothingIsKnown
    <2> SUFFICES ASSUME PagesInv, ~ effects, NEW p \in Pages, "nothing" \in View(p)
                 PROVE  \/ answer = "empty"
                        \/ /\ p = "UsersAccess"
                           /\ \/ answer = "denied" /\ "partial" \in View(p)
                              \/ answer = "rows" /\ search = "misses"
        BY DEF NothingIsKnown
    <2>1. enabled
        BY DEF View
    <2>2. data = newest => data # 0
        BY <2>1, Settled
    <2>3. data = newest \/ loading \/ failed \/ canceled
        BY <2>1, Settled
    <2>4. Answered
        BY DEF PagesInv
    <2>5. CASE kind = "sections"
        <3>. p \in SectionPages
            BY <2>5 DEF Pages
        <3>1. p = "Dashboard" \/ p = "Replication" \/ p = "DDL" \/ p = "UsersAccess"
            BY DEF SectionPages
        <3>2. CASE p # "UsersAccess"
            BY <2>1, <2>4, <2>5, <3>1, <3>2 DEF Answered, View, Dashboard, Replication, DDL, Waiting,
               Mark, Partial, Refresh, Banner, Content
        <3>3. CASE p = "UsersAccess"
            <4>1. View(p) = UsersAccess
                BY <2>1, <3>3 DEF View
            <4>2. ~ (failed /\ data = 0) /\ data # 0 /\ "nothing" \in AccessTab
                BY <2>4, <2>5, <4>1 DEF Answered, UsersAccess, Waiting, Mark, Partial, Refresh, Banner
            <4>3. answer = "denied" => "partial" \in View(p)
                BY <4>1, <4>2 DEF UsersAccess, Partial
            <4>. QED  BY <2>4, <3>3, <4>2, <4>3 DEF Answered, AccessTab
        <3>. QED  BY <3>2, <3>3
    <2>6. CASE kind = "data"
        BY <2>1, <2>4, <2>6 DEF Answered, Pages, View, QueryFingerprints, Waiting, Mark, Banner, NoRows
    <2>7. CASE kind = "rows"
        <3>. p \in RowPages
            BY <2>7 DEF Pages
        <3>. QED  BY <2>1, <2>2, <2>3, <2>4, <2>7 DEF Answered, RowPages, View, Mutations, Merges, Backups,
                SystemMetrics, Trends, TableParts, Listed, Rows, NoRows, Waiting, Mark, Refresh, Banner
    <2>. QED  BY <2>4, <2>5, <2>6, <2>7 DEF Answered
<1>. QED  BY <1>1, PagesInvariant, PTL

\* No state of the hook leaves a page without a panel or a control.
THEOREM PagesAreNeverBlank == PagesSpec => []NeverBlank
<1>1. PagesInv => NeverBlank
    <2> SUFFICES ASSUME PagesInv, ~ effects, enabled, NEW p \in Pages PROVE View(p) # {}
        BY DEF NeverBlank, View
    <2>1. (data = newest => data # 0) /\ (data = newest \/ loading \/ failed \/ canceled)
        BY Settled
    <2>2. Answered
        BY DEF PagesInv
    <2>3. CASE kind = "sections"
        <3>. p \in SectionPages
            BY <2>3 DEF Pages
        <3>. QED  BY <2>1, <2>2 DEF SectionPages, View, Dashboard, Replication, DDL,
                UsersAccess, AccessTab, Partial, Waiting, Mark, Refresh, Banner, Content
    <2>4. CASE kind = "data"
        BY <2>1, <2>2, <2>4 DEF Pages, View, QueryFingerprints, Waiting, Mark, Banner
    <2>5. CASE kind = "rows"
        <3>. p \in RowPages
            BY <2>5 DEF Pages
        <3>. QED  BY <2>1, <2>2 DEF RowPages, View, Mutations, Merges, Backups, SystemMetrics,
                Trends, TableParts, Listed, Rows, NoRows, Waiting, Mark, Refresh, Banner
    <2>. QED  BY <2>2, <2>3, <2>4, <2>5 DEF Answered
<1>. QED  BY <1>1, PagesInvariant, PTL
=============================================================================
