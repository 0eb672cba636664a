---------------------------- MODULE PollingQuery ----------------------------
(***************************************************************************)
(* The hook behind the monitoring pages, web/src/hooks/usePollingQuery.ts. *)
(* Loads by effect, by button and by timer overlap: each run awaits its    *)
(* fetch, and what it does afterwards depends on refs that other runs have *)
(* changed meanwhile.                                                      *)
(***************************************************************************)
EXTENDS Naturals

CONSTANTS
    Filters,  \* what the page's fetcher closes over
    NoFilter,
    MaxRuns   \* bound: calls of run

ASSUME NoFilterAssumption == NoFilter \notin Filters
ASSUME MaxRunsAssumption == MaxRuns \in Nat

VARIABLES
    \* the page's last render
    filter,   \* of the fetcher
    enabled,
    live,
    effects,  \* a render changed the deps and React has not yet run the effects
    armed,    \* the filter that ticks of the interval load, or NoFilter
    mounted,  \* the load effect ran, so its cleanup is due
    \* the hook
    newest,   \* runIdRef.current, and the run whose controller is controllerRef.current
    of,       \* run -> the filter it loads
    fetch,    \* run -> "none", "flight", "answered", "failed", "aborted", "over"
    cut,      \* runs whose signal is aborted
    \* what the page shows
    data,     \* the run that set it; 0 for null
    loading, failed, canceled

vars == <<filter, enabled, live, effects, armed, mounted,
          newest, of, fetch, cut, data, loading, failed, canceled>>
page == <<filter, enabled, live, effects, armed, mounted>>
view == <<data, loading, failed, canceled>>

Runs == 1 .. MaxRuns

\* The first render; the effects follow it.
Init ==
    /\ filter \in Filters
    /\ enabled \in BOOLEAN
    /\ live \in BOOLEAN
    /\ effects = TRUE
    /\ armed = NoFilter
    /\ mounted = FALSE
    /\ newest = 0
    /\ of = [r \in Runs |-> NoFilter]
    /\ fetch = [r \in Runs |-> "none"]
    /\ cut = {}
    /\ data = 0
    /\ loading = TRUE
    /\ failed = FALSE
    /\ canceled = FALSE

-----------------------------------------------------------------------------
(* run, up to its await                                                    *)

\* Mutant: an abort undoes a fetch that has settled.
AbortedLate(r) == [fetch EXCEPT ![r] = IF @ = "none" THEN @ ELSE "aborted"]

\* A signal aborts a fetch in flight; one that has settled is not undone.
Aborted(r) == [fetch EXCEPT ![r] = IF @ = "flight" THEN "aborted" ELSE @]

Run(f, fetches) ==
    /\ newest < MaxRuns
    /\ newest' = newest + 1
    /\ of' = [of EXCEPT ![newest'] = f]
    /\ fetch' = [fetches EXCEPT ![newest'] = "flight"]
    /\ loading' = TRUE
    /\ failed' = FALSE
    /\ canceled' = FALSE
    /\ UNCHANGED data

(* run, after its await                                                    *)

\* Mutant: no check that the run is still the newest.
AnyRun(r) == TRUE
Current(r) == r = newest

\* Mutant: loading ends with any run.
ResumeEndsLoading(r) ==
    /\ fetch[r] \in {"answered", "failed", "aborted"}
    /\ fetch' = [fetch EXCEPT ![r] = "over"]
    /\ data' = IF Current(r) /\ fetch[r] = "answered" THEN r ELSE data
    /\ failed' = (failed \/ (Current(r) /\ fetch[r] = "failed" /\ r \notin cut))
    /\ loading' = FALSE
    /\ UNCHANGED <<page, newest, of, cut, canceled>>

\* Mutant: loading ends with the data only.
ResumeKeepsLoading(r) ==
    /\ fetch[r] \in {"answered", "failed", "aborted"}
    /\ fetch' = [fetch EXCEPT ![r] = "over"]
    /\ data' = IF Current(r) /\ fetch[r] = "answered" THEN r ELSE data
    /\ failed' = (failed \/ (Current(r) /\ fetch[r] = "failed" /\ r \notin cut))
    /\ loading' = (loading /\ ~ (Current(r) /\ fetch[r] = "answered"))
    /\ UNCHANGED <<page, newest, of, cut, canceled>>

\* Mutant: a failure of an aborted fetch is shown.
ResumeShowsAborts(r) ==
    /\ fetch[r] \in {"answered", "failed", "aborted"}
    /\ fetch' = [fetch EXCEPT ![r] = "over"]
    /\ data' = IF Current(r) /\ fetch[r] = "answered" THEN r ELSE data
    /\ failed' = (failed \/ (Current(r) /\ fetch[r] = "failed"))
    /\ loading' = (loading /\ ~ Current(r))
    /\ UNCHANGED <<page, newest, of, cut, canceled>>

Resume(r) ==
    /\ fetch[r] \in {"answered", "failed", "aborted"}
    /\ fetch' = [fetch EXCEPT ![r] = "over"]
    /\ data' = IF Current(r) /\ fetch[r] = "answered" THEN r ELSE data
    /\ failed' = (failed \/ (Current(r) /\ fetch[r] = "failed" /\ r \notin cut))
    /\ loading' = (loading /\ ~ Current(r))
    /\ UNCHANGED <<page, newest, of, cut, canceled>>

\* The response, an error or the 60 s timeout arrives; run resumes later.
Settle(r, how) ==
    /\ fetch[r] = "flight"
    /\ fetch' = [fetch EXCEPT ![r] = how]
    /\ UNCHANGED <<page, newest, of, cut, view>>

-----------------------------------------------------------------------------
(* Effects and callbacks                                                   *)

\* Both effects: the cleanups abort the newest run and clear the interval,
\* then the load starts and the interval is armed again.
Effects ==
    /\ effects
    /\ effects' = FALSE
    /\ mounted' = enabled
    /\ armed' = IF enabled /\ live THEN filter ELSE NoFilter
    /\ LET aborts == mounted /\ newest > 0
           fetches == IF aborts THEN Aborted(newest) ELSE fetch
       IN  /\ cut' = IF aborts THEN cut \union {newest} ELSE cut
           /\ IF enabled THEN Run(filter, fetches)
              ELSE fetch' = fetches /\ UNCHANGED <<newest, of, view>>
    /\ UNCHANGED <<filter, enabled, live>>

ChangeFilter(f) ==
    /\ f # filter
    /\ filter' = f
    /\ effects' = TRUE
    /\ UNCHANGED <<enabled, live, armed, mounted, newest, of, fetch, cut, view>>

Enable ==
    /\ enabled' = ~ enabled
    /\ effects' = TRUE
    /\ UNCHANGED <<filter, live, armed, mounted, newest, of, fetch, cut, view>>

\* Only the interval's effect depends on live.
SetLive ==
    /\ ~ effects
    /\ live' = ~ live
    /\ armed' = IF enabled /\ live' THEN filter ELSE NoFilter
    /\ UNCHANGED <<filter, enabled, effects, mounted, newest, of, fetch, cut, view>>

Tick ==
    /\ armed # NoFilter
    /\ Run(armed, fetch)
    /\ UNCHANGED <<page, cut>>

\* The pages offer Refresh while they are connected.
Reload ==
    /\ enabled
    /\ Run(filter, fetch)
    /\ UNCHANGED <<page, cut>>

\* The pages offer Cancel while they load.
Cancel ==
    /\ loading
    /\ newest > 0
    /\ canceled' = TRUE
    /\ loading' = FALSE
    /\ fetch' = Aborted(newest)
    /\ cut' = cut \union {newest}
    /\ UNCHANGED <<page, newest, of, data, failed>>

-----------------------------------------------------------------------------

Next ==
    \/ Effects
    \/ \E f \in Filters : ChangeFilter(f)
    \/ Enable \/ SetLive \/ Tick \/ Reload \/ Cancel
    \/ \E r \in Runs : Resume(r) \/ Settle(r, "answered") \/ Settle(r, "failed")

Spec == Init /\ [][Next]_vars

\* A fetch settles (fetchJSON times out), promises resume, effects run.
FairSpec ==
    /\ Spec
    /\ WF_vars(Effects)
    /\ \A r \in Runs :
         WF_vars(Resume(r)) /\ WF_vars(Settle(r, "answered") \/ Settle(r, "failed"))

-----------------------------------------------------------------------------
(* Properties                                                              *)

\* Every variable has its type; the runs up to newest were started and data
\* comes from one that is over.
TypeOK ==
    /\ filter \in Filters
    /\ enabled \in BOOLEAN /\ live \in BOOLEAN /\ effects \in BOOLEAN /\ mounted \in BOOLEAN
    /\ armed \in Filters \union {NoFilter}
    /\ newest \in 0 .. MaxRuns
    /\ of \in [Runs -> Filters \union {NoFilter}]
    /\ fetch \in [Runs -> {"none", "flight", "answered", "failed", "aborted", "over"}]
    /\ cut \subseteq Runs
    /\ data \in 0 .. MaxRuns
    /\ loading \in BOOLEAN /\ failed \in BOOLEAN /\ canceled \in BOOLEAN
    /\ \A r \in Runs : r > newest <=> fetch[r] = "none"
    /\ data # 0 => fetch[data] = "over"

\* "A stale response never clobbers newer state": the page never goes from
\* the data of one run to that of an earlier one.
NeverGoesBack == [][data' >= data]_vars

\* A page that shows neither a spinner, nor an error, nor "canceled" shows
\* the data of its current filter and of the newest load, although loads for
\* other filters may still be in flight.
ShowsCurrentFilter ==
    enabled /\ ~ effects /\ ~ loading /\ ~ failed /\ ~ canceled =>
        data = newest /\ of[data] = filter

\* Cancelling is not an error, even when the fetch had failed by itself and
\* run had not resumed yet.
CancelIsNoError == canceled => ~ failed

\* With loads started finitely often, loading ends: no run that is superseded
\* or aborted takes the spinner's end with it.
LoadingEnds == enabled /\ loading ~> ~ loading \/ ~ enabled
=============================================================================
