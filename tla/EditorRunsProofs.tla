-------------------------- MODULE EditorRunsProofs --------------------------
(***************************************************************************)
(* Whatever tabs, lengths and overlaps: results, advisors and the query    *)
(* that Stop kills are those of the tab and the statement they are shown   *)
(* with.                                                                   *)
(***************************************************************************)
EXTENDS EditorRuns, TLAPS

Answers == [by : Runs, stmt : Queries, how : Outcomes, advisor : Queries \union {NoQuery}]
Slots == {NoResult} \union Answers

RunType == [tab : Tabs, page : 0 .. Length, of : 0 .. MaxRuns, at : 0 .. Length,
            signal : 0 .. MaxRuns, results : [Statements -> Slots]]

\* What may stand at position i of tab t.
Fits(x, t, i) ==
    /\ x \in Slots
    /\ x # NoResult => /\ x.by \in 1 .. started /\ run[x.by].tab = t
                       /\ x.stmt[2] = i
                       /\ x.advisor \in {NoQuery, QueryId(x)}

RunTypes ==
    /\ started \in 0 .. MaxRuns
    /\ run \in [Runs -> RunType]
    /\ pc \in [Runs -> {"none", "sent", "open", "over"}]
    /\ \A r \in Runs : r > started <=> pc[r] = "none"
    /\ abortRef \in 0 .. started
    /\ aborted \subseteq 1 .. started
    /\ parked \subseteq Queries
    /\ trailing \subseteq [query : Queries, signal : 0 .. MaxRuns]

\* The results that a run has not committed are those of its tab.
LocalsOwn == \A r \in Runs, i \in Statements : Fits(run[r].results[i], run[r].tab, i)

\* A page asks for the statement whose result it replaces.
AtWork ==
    \A r \in Runs : Running(r) => /\ run[r].at \in Statements /\ run[r].of \in Runs
                                  /\ run[r].page # 0 => run[r].at = run[r].page

RunInv == RunTypes /\ LocalsOwn /\ AtWork

KillIsOwn(q, t) == q # NoQuery => q[1] \in 1 .. started /\ run[q[1]].tab = t
RowFits(t) ==
    /\ \A i \in Statements : Fits(tab[t].results[i], t, i)
    /\ KillIsOwn(tab[t].runningQueryId, t)

TabInv == tab \in [Tabs -> TabType] /\ \A t \in Tabs : RowFits(t)

IInv == active \in Tabs /\ RunInv /\ TabInv

\* A run stays with the tab it was started in.
Keeps == started' \in started .. MaxRuns /\ \A r \in 1 .. started : run'[r].tab = run[r].tab

-----------------------------------------------------------------------------
(* Results and their places                                                *)

LEMMA Names ==
    /\ Length \in Nat \ {0} /\ MaxRuns \in Nat
    /\ NoQuery \notin Queries
    /\ NoResult \notin Answers
    /\ QueryId(NoResult) = NoQuery
    /\ NoResults \in [Statements -> Slots]
    /\ \A i \in Statements : NoResults[i] = NoResult
    /\ \A q \in Queries : q[1] \in Runs /\ q[2] \in Statements
BY LengthAssumption, MaxRunsAssumption
   DEF NoQuery, Queries, Runs, Statements, NoResult, Answers, QueryId, NoResults, Slots

LEMMA NoResultFits == ASSUME NEW t, NEW i PROVE Fits(NoResult, t, i)
BY DEF Fits, Slots

LEMMA StillFits ==
    ASSUME RunTypes, Keeps, NEW x, NEW t, NEW i, Fits(x, t, i) PROVE Fits(x, t, i)'
BY DEF Fits, Keeps, RunTypes, QueryId

LEMMA StillOwn ==
    ASSUME RunTypes, Keeps, NEW q, NEW t, KillIsOwn(q, t) PROVE KillIsOwn(q, t)'
BY DEF KillIsOwn, Keeps, RunTypes

\* An advisor that comes with the query of a result fits the result.
LEMMA AdvisedFits ==
    ASSUME RunTypes, NEW t, NEW i, NEW x, Fits(x, t, i), x # NoResult, QueryId(x) \in Queries
    PROVE  Fits([x EXCEPT !.advisor = QueryId(x)], t, i)
<1> DEFINE y == [x EXCEPT !.advisor = QueryId(x)]
<1>1. x \in Answers
    BY DEF Fits, Slots
<1>2. y \in Answers /\ y.by = x.by /\ y.stmt = x.stmt /\ y.how = x.how /\ y.advisor = QueryId(x)
    BY <1>1 DEF Answers
<1>3. QueryId(y) = QueryId(x)
    BY <1>2 DEF QueryId
<1>. QED  BY <1>2, <1>3 DEF Fits, Slots

LEMMA FinalizedFits ==
    ASSUME RunTypes, NEW t, NEW f \in [Statements -> Slots],
           \A i \in Statements : Fits(f[i], t, i)
    PROVE  /\ Finalized(f) \in [Statements -> Slots]
           /\ \A i \in Statements : Fits(Finalized(f)[i], t, i)
<1>1. ASSUME NEW i \in Statements PROVE Fits(Finalized(f)[i], t, i)
    <2>1. CASE QueryId(f[i]) \in parked
        <3>1. QueryId(f[i]) \in Queries /\ f[i] # NoResult
            BY <2>1, Names DEF RunTypes
        <3>2. Finalized(f)[i] = [f[i] EXCEPT !.advisor = QueryId(f[i])]
            BY <2>1 DEF Finalized
        <3>. QED  BY <3>1, <3>2, AdvisedFits
    <2>2. CASE QueryId(f[i]) \notin parked
        BY <2>2 DEF Finalized
    <2>. QED  BY <2>1, <2>2
<1>2. Finalized(f) \in [Statements -> Slots]
    BY <1>1 DEF Finalized, Fits
<1>. QED  BY <1>1, <1>2

LEMMA ResultFits ==
    ASSUME RunInv, NEW r \in Runs, Running(r), NEW how \in Outcomes
    PROVE  Fits(Result(r, how), run[r].tab, run[r].at)
<1>1. r \in 1 .. started
    BY DEF RunInv, RunTypes, Running, Runs
<1>2. run[r].of \in Runs /\ run[r].at \in Statements
    BY DEF RunInv, AtWork
<1>3. Result(r, how) \in Answers
    BY <1>2 DEF Result, Answers, Queries
<1>. QED  BY <1>1, <1>3 DEF Fits, Slots, Result

-----------------------------------------------------------------------------
(* What a step has to show                                                 *)

LEMMA SameTabs == ASSUME IInv, Keeps, tab' = tab PROVE TabInv'
<1>1. ASSUME NEW t \in Tabs PROVE RowFits(t)'
    <2>1. ASSUME NEW i \in Statements PROVE Fits(tab[t].results[i], t, i)'
        BY StillFits DEF IInv, TabInv, RowFits, RunInv, Fits
    <2>2. KillIsOwn(tab[t].runningQueryId, t)'
        BY StillOwn DEF IInv, TabInv, RowFits, RunInv, KillIsOwn
    <2>. QED  BY <2>1, <2>2 DEF RowFits
<1>. QED  BY <1>1 DEF IInv, TabInv

LEMMA OneTab ==
    ASSUME IInv, Keeps, NEW t \in Tabs, NEW R, NEW q,
           tab' \in [Tabs -> TabType], \A u \in Tabs \ {t} : tab'[u] = tab[u],
           tab'[t].results = R, \A i \in Statements : Fits(R[i], t, i),
           tab'[t].runningQueryId = q, KillIsOwn(q, t)
    PROVE  TabInv'
<1>1. ASSUME NEW u \in Tabs, u # t PROVE RowFits(u)'
    <2>1. tab'[u] = tab[u]
        BY <1>1
    <2>2. ASSUME NEW i \in Statements PROVE Fits(tab[u].results[i], u, i)'
        <3>1. Fits(tab[u].results[i], u, i)
            BY DEF IInv, TabInv, RowFits
        <3>. QED  BY <2>1, <3>1, StillFits DEF IInv, RunInv, Fits
    <2>3. KillIsOwn(tab[u].runningQueryId, u)'
        BY <2>1, StillOwn DEF IInv, TabInv, RowFits, RunInv, KillIsOwn
    <2>. QED  BY <2>2, <2>3 DEF RowFits
<1>2. RowFits(t)'
    <2>1. ASSUME NEW i \in Statements PROVE Fits(tab[t].results[i], t, i)'
        BY StillFits DEF IInv, RunInv, Fits
    <2>2. KillIsOwn(tab[t].runningQueryId, t)'
        BY StillOwn DEF IInv, RunInv, KillIsOwn
    <2>. QED  BY <2>1, <2>2 DEF RowFits
<1>. QED  BY <1>1, <1>2 DEF TabInv

\* The runs stay as they are.
LEMMA SameRuns ==
    ASSUME IInv, UNCHANGED <<started, run, pc, abortRef>>, aborted' \subseteq 1 .. started,
           parked' \subseteq Queries, trailing' \subseteq [query : Queries, signal : 0 .. MaxRuns]
    PROVE  RunInv' /\ Keeps
<1>1. Keeps
    BY Names DEF Keeps, IInv, RunInv, RunTypes
<1>2. RunTypes' /\ AtWork'
    BY DEF IInv, RunInv, RunTypes, AtWork, Running
<1>3. LocalsOwn'
    BY <1>1, StillFits DEF IInv, RunInv, LocalsOwn, Fits
<1>. QED  BY <1>1, <1>2, <1>3 DEF RunInv

\* Run r goes on with other locals.
LEMMA OneRun ==
    ASSUME IInv, NEW r \in Runs, Running(r), NEW rec \in RunType, NEW s \in {"sent", "open", "over"},
           started' = started, run' = [run EXCEPT ![r] = rec], pc' = [pc EXCEPT ![r] = s],
           rec.tab = run[r].tab, \A i \in Statements : Fits(rec.results[i], rec.tab, i),
           s = "over" \/ /\ rec.at \in Statements /\ rec.of \in Runs
                         /\ rec.page # 0 => rec.at = rec.page,
           abortRef' \in {0, abortRef}, aborted' = aborted,
           parked' \subseteq Queries, trailing' \subseteq [query : Queries, signal : 0 .. MaxRuns]
    PROVE  RunInv' /\ Keeps
<1>1. r \in 1 .. started
    BY DEF IInv, RunInv, RunTypes, Running, Runs
<1>2. Keeps
    BY <1>1, Names DEF Keeps, IInv, RunInv, RunTypes, Runs
<1>3. RunTypes'
    <2>1. \A u \in Runs : u > started' <=> pc'[u] = "none"
        BY <1>1, Names DEF IInv, RunInv, RunTypes, Runs
    <2>2. run' \in [Runs -> RunType] /\ pc' \in [Runs -> {"none", "sent", "open", "over"}]
        BY DEF IInv, RunInv, RunTypes
    <2>3. started' \in 0 .. MaxRuns /\ abortRef' \in 0 .. started' /\ aborted' \subseteq 1 .. started'
        BY Names DEF IInv, RunInv, RunTypes
    <2>. QED  BY <2>1, <2>2, <2>3 DEF RunTypes
<1>4. LocalsOwn'
    <2>1. ASSUME NEW u \in Runs, NEW i \in Statements, u # r
          PROVE  Fits(run[u].results[i], run[u].tab, i)'
        <3>1. run'[u] = run[u] /\ Fits(run[u].results[i], run[u].tab, i)
            BY <2>1 DEF IInv, RunInv, RunTypes, LocalsOwn
        <3>. QED  BY <1>2, <3>1, StillFits DEF IInv, RunInv, Fits
    <2>2. ASSUME NEW i \in Statements PROVE Fits(run[r].results[i], run[r].tab, i)'
        <3>1. run'[r] = rec /\ Fits(rec.results[i], rec.tab, i)
            BY DEF IInv, RunInv, RunTypes
        <3>. QED  BY <1>2, <3>1, StillFits DEF IInv, RunInv, Fits
    <2>. QED  BY <2>1, <2>2 DEF LocalsOwn
<1>5. AtWork'
    BY DEF IInv, RunInv, RunTypes, AtWork, Running
<1>. QED  BY <1>2, <1>3, <1>4, <1>5 DEF RunInv

-----------------------------------------------------------------------------
(* Changes of a run's locals and of a tab                                  *)

Local(x, a, s, R) == [x EXCEPT !.at = a, !.signal = s, !.results = R]
Ended(x, R) == [x EXCEPT !.results = R, !.running = FALSE, !.runningQueryId = NoQuery]
Fresh(x, n) ==
    [x EXCEPT !.results = NoResults, !.running = TRUE, !.statements = n, !.runningQueryId = NoQuery]
Paged(x, R) == [x EXCEPT !.results = R, !.pageLoading = FALSE, !.runningQueryId = NoQuery]
With(f, t, y) == [f EXCEPT ![t] = y]

LEMMA LocalChange ==
    ASSUME NEW x \in RunType, NEW a \in 0 .. Length, NEW s \in 0 .. MaxRuns,
           NEW R \in [Statements -> Slots]
    PROVE  LET y == Local(x, a, s, R)
           IN  /\ y \in RunType /\ y.tab = x.tab /\ y.page = x.page /\ y.of = x.of
               /\ y.at = a /\ y.signal = s /\ y.results = R
BY DEF RunType, Local

LEMMA TabTypeIs ==
    TabType = [statements : 0 .. MaxRuns, results : [Statements -> Slots], running : BOOLEAN,
               runningQueryId : Queries \union {NoQuery}, pageLoading : BOOLEAN]
BY DEF TabType, Slots, Answers

LEMMA RowChange ==
    ASSUME NEW x \in TabType, NEW R \in [Statements -> Slots]
    PROVE  /\ LET y == Ended(x, R)
              IN  y \in TabType /\ y.results = R /\ y.runningQueryId = NoQuery
           /\ LET y == Paged(x, R)
              IN  y \in TabType /\ y.results = R /\ y.runningQueryId = NoQuery
BY TabTypeIs DEF Ended, Paged

LEMMA FreshChange ==
    ASSUME NEW x \in TabType, NEW n \in 0 .. MaxRuns
    PROVE  LET y == Fresh(x, n)
           IN  y \in TabType /\ y.results = NoResults /\ y.runningQueryId = NoQuery
<1>1. NoResults \in [Statements -> Slots]
    BY Names
<1>. QED  BY <1>1, TabTypeIs DEF Fresh

LEMMA TabChange ==
    ASSUME NEW f \in [Tabs -> TabType], NEW t \in Tabs, NEW y \in TabType
    PROVE  LET g == With(f, t, y)
           IN  g \in [Tabs -> TabType] /\ g[t] = y /\ \A u \in Tabs \ {t} : g[u] = f[u]
BY DEF With

-----------------------------------------------------------------------------
(* One lemma per action                                                    *)

\* What is the same for every settling of an await.
Frame ==
    /\ active' = active /\ started' = started /\ aborted' = aborted
    /\ trailing' \subseteq [query : Queries, signal : 0 .. MaxRuns]

LEMMA AtWorkFits ==
    ASSUME IInv, NEW r \in Runs, Running(r), NEW how \in Outcomes,
           NEW f, f = [run[r].results EXCEPT ![run[r].at] = Result(r, how)]
    PROVE  f \in [Statements -> Slots] /\ \A i \in Statements : Fits(f[i], run[r].tab, i)
<1>1. run[r] \in RunType /\ run[r].at \in Statements
    BY DEF IInv, RunInv, RunTypes, AtWork
<1>2. Fits(Result(r, how), run[r].tab, run[r].at)
    BY ResultFits DEF IInv
<1>3. \A i \in Statements : Fits(run[r].results[i], run[r].tab, i)
    BY DEF IInv, RunInv, LocalsOwn
<1>4. run[r].results \in [Statements -> Slots] /\ Result(r, how) \in Slots
    BY <1>1, <1>2 DEF RunType, Fits
<1>5. ASSUME NEW i \in Statements PROVE Fits(f[i], run[r].tab, i)
    <2>1. CASE i = run[r].at
        <3>1. f[i] = Result(r, how)
            BY <1>4, <2>1
        <3>. QED  BY <1>2, <2>1, <3>1
    <2>2. CASE i # run[r].at
        <3>1. f[i] = run[r].results[i]
            BY <1>4, <2>2
        <3>. QED  BY <1>3, <3>1
    <2>. QED  BY <2>1, <2>2
<1>. QED  BY <1>4, <1>5

LEMMA OverInv ==
    ASSUME IInv, NEW r \in Runs, Running(r), Over(r), Frame,
           abortRef' \in {0, abortRef}, parked' \subseteq Queries
    PROVE  RunInv' /\ Keeps
<1> DEFINE rec == Local(run[r], 0, 0, NoResults)
<1>1. run[r] \in RunType
    BY DEF IInv, RunInv, RunTypes
<1>2. rec \in RunType /\ rec.tab = run[r].tab /\ rec.results = NoResults
    <2>1. 0 \in 0 .. Length /\ 0 \in 0 .. MaxRuns /\ NoResults \in [Statements -> Slots]
        BY Names
    <2>. QED  BY <1>1, <2>1, LocalChange
<1>3. run' = [run EXCEPT ![r] = rec] /\ pc' = [pc EXCEPT ![r] = "over"]
    BY <1>1 DEF Over, RunType, Local
<1>4. \A i \in Statements : Fits(rec.results[i], rec.tab, i)
    BY <1>2, Names, NoResultFits
<1> HIDE DEF rec
<1>. QED  BY <1>2, <1>3, <1>4, OneRun DEF Frame

LEMMA CommitInv ==
    ASSUME IInv, NEW r \in Runs, Running(r), Frame,
           NEW results \in [Statements -> Slots],
           \A i \in Statements : Fits(results[i], run[r].tab, i), Commit(r, results)
    PROVE  IInv'
<1>1. run[r].tab \in Tabs /\ RunTypes
    BY DEF IInv, RunInv, RunTypes, RunType
<1>2. RunInv' /\ Keeps
    BY OverInv DEF Commit, IInv, RunInv, RunTypes
<1>3. /\ Finalized(results) \in [Statements -> Slots]
      /\ \A i \in Statements : Fits(Finalized(results)[i], run[r].tab, i)
    BY <1>1, FinalizedFits
<1>4. TabInv'
    <2>1. tab \in [Tabs -> TabType]
        BY DEF IInv, TabInv
    <2>2. /\ tab' \in [Tabs -> TabType]
          /\ \A u \in Tabs \ {run[r].tab} : tab'[u] = tab[u]
          /\ tab'[run[r].tab].results = Finalized(results)
          /\ tab'[run[r].tab].runningQueryId = NoQuery
        <3> DEFINE y == Ended(tab[run[r].tab], Finalized(results))
        <3>1. tab[run[r].tab] \in TabType
            BY <1>1, <2>1
        <3>2. y \in TabType /\ y.results = Finalized(results) /\ y.runningQueryId = NoQuery
            BY <1>3, <3>1, RowChange
        <3>3. tab' = With(tab, run[r].tab, y)
            BY <1>1, <2>1, <3>1, TabTypeIs DEF Commit, With, Ended
        <3> HIDE DEF y
        <3>. QED  BY <1>1, <2>1, <3>2, <3>3, TabChange
    <2>3. KillIsOwn(NoQuery, run[r].tab)
        BY DEF KillIsOwn
    <2>. QED  BY <1>1, <1>2, <1>3, <2>2, <2>3, OneTab
<1>. QED  BY <1>2, <1>4 DEF IInv, Frame

LEMMA NextStatementInv ==
    ASSUME IInv, NEW r \in Runs, Running(r), Frame, run[r].page = 0, run[r].at < Length,
           NEW results \in [Statements -> Slots],
           \A i \in Statements : Fits(results[i], run[r].tab, i), NextStatement(r, results)
    PROVE  IInv'
<1> DEFINE rec == Local(run[r], run[r].at + 1, abortRef, results)
<1>1. run[r] \in RunType /\ run[r].at \in Statements /\ run[r].of \in Runs
    BY DEF IInv, RunInv, RunTypes, AtWork
<1>2. abortRef \in 0 .. MaxRuns
    BY Names DEF IInv, RunInv, RunTypes
<1>3. /\ rec \in RunType /\ rec.tab = run[r].tab /\ rec.results = results
      /\ rec.at \in Statements /\ rec.of \in Runs /\ rec.page = 0
    <2>1. run[r].at + 1 \in Statements /\ run[r].at + 1 \in 0 .. Length
        BY <1>1, Names DEF Statements
    <2>. QED  BY <1>1, <1>2, <2>1, LocalChange
<1>4. run' = [run EXCEPT ![r] = rec] /\ pc' = [pc EXCEPT ![r] = "sent"]
    BY <1>1 DEF NextStatement, RunType, Local
<1>5. \A i \in Statements : Fits(rec.results[i], rec.tab, i)
    BY <1>3
<1>6. parked' \subseteq Queries /\ abortRef' = abortRef /\ tab' = tab
    BY DEF NextStatement, IInv, RunInv, RunTypes
<1> HIDE DEF rec
<1>7. RunInv' /\ Keeps
    BY <1>3, <1>4, <1>5, <1>6, OneRun DEF Frame
<1>. QED  BY <1>6, <1>7, SameTabs DEF IInv, Frame

LEMMA SpliceInv ==
    ASSUME IInv, NEW r \in Runs, Running(r), Frame, run[r].page # 0, NEW how \in Outcomes,
           Splice(r, Result(r, how))
    PROVE  IInv'
<1> DEFINE t == run[r].tab
           i0 == run[r].page
           x == Result(r, how)
           R == [tab[t].results EXCEPT ![i0] = x]
<1>1. t \in Tabs /\ i0 \in Statements
    BY DEF IInv, RunInv, RunTypes, RunType, AtWork
<1>2. Fits(x, t, i0)
    <2>1. run[r].at = i0
        BY DEF IInv, RunInv, AtWork
    <2>. QED  BY <2>1, ResultFits DEF IInv
<1>3. RunInv' /\ Keeps
    BY OverInv DEF Splice, IInv, RunInv, RunTypes
<1>4. tab \in [Tabs -> TabType] /\ x \in Slots
    BY <1>2 DEF IInv, TabInv, Fits
<1>5. tab[t].results \in [Statements -> Slots]
    BY <1>1, <1>4 DEF TabType, Slots, Answers
<1>6. ASSUME NEW i \in Statements PROVE Fits(R[i], t, i)
    <2>1. CASE i = i0
        BY <1>1, <1>2, <1>5, <2>1
    <2>2. CASE i # i0
        <3>1. R[i] = tab[t].results[i]
            BY <1>5, <2>2
        <3>. QED  BY <1>1, <3>1 DEF IInv, TabInv, RowFits
    <2>. QED  BY <2>1, <2>2
<1>7. /\ tab' \in [Tabs -> TabType]
      /\ \A u \in Tabs \ {t} : tab'[u] = tab[u]
      /\ tab'[t].results = R /\ tab'[t].runningQueryId = NoQuery
    <2> DEFINE y == Paged(tab[t], R)
    <2>1. tab[t] \in TabType /\ R \in [Statements -> Slots]
        BY <1>1, <1>4, <1>5
    <2>2. y \in TabType /\ y.results = R /\ y.runningQueryId = NoQuery
        <3> HIDE DEF R, t
        <3>. QED  BY <2>1, RowChange
    <2>3. tab' = With(tab, t, y)
        BY <1>1, <1>4, <2>1, TabTypeIs DEF Splice, With, Paged
    <2> HIDE DEF y, R, t
    <2>. QED  BY <1>1, <1>4, <2>2, <2>3, TabChange
<1>8. KillIsOwn(NoQuery, t)
    BY DEF KillIsOwn
<1>9. TabInv'
    <2> HIDE DEF R, t, i0, x
    <2>. QED  BY <1>1, <1>3, <1>6, <1>7, <1>8, OneTab
<1>. QED  BY <1>3, <1>9 DEF IInv, Frame

LEMMA ContinueInv ==
    ASSUME IInv, NEW r \in Runs, Running(r), Frame, NEW how \in Outcomes, Continue(r, how)
    PROVE  IInv'
<1> DEFINE results == [run[r].results EXCEPT ![run[r].at] = Result(r, how)]
<1>1. results \in [Statements -> Slots] /\ \A i \in Statements : Fits(results[i], run[r].tab, i)
    BY AtWorkFits
<1>2. \/ run[r].page # 0 /\ Splice(r, Result(r, how))
      \/ run[r].page = 0 /\ run[r].at < Length /\ NextStatement(r, results)
      \/ Commit(r, results)
    BY DEF Continue
<1> HIDE DEF results
<1>. QED  BY <1>1, <1>2, SpliceInv, NextStatementInv, CommitInv

\* A new run, of a list or of a page.
LEMMA BeginInv ==
    ASSUME IInv, NEW page \in 0 .. Length, NEW of \in Runs, NEW at \in Statements,
           page # 0 => at = page, Begin(page, of, at), UNCHANGED <<active, trailing, parked>>,
           aborted' \subseteq 1 .. started
    PROVE  RunInv' /\ Keeps
<1> DEFINE n == started + 1
           rec == [tab |-> active, page |-> page, of |-> of, at |-> at, signal |-> n,
                   results |-> NoResults]
<1>1. n \in Runs /\ started' = n /\ started \in Nat /\ n \in 1 .. MaxRuns
    BY Names DEF Begin, IInv, RunInv, RunTypes, Runs
<1>2. rec \in RunType
    BY <1>1, Names DEF RunType, IInv, Runs, Statements
<1>3. run' = [run EXCEPT ![n] = rec] /\ pc' = [pc EXCEPT ![n] = "sent"] /\ abortRef' = n
    BY <1>1 DEF Begin
<1>4. Keeps
    BY <1>1, <1>3 DEF Keeps, IInv, RunInv, RunTypes, Runs
<1>5. RunTypes'
    <2>1. run' \in [Runs -> RunType] /\ pc' \in [Runs -> {"none", "sent", "open", "over"}]
        BY <1>1, <1>2, <1>3 DEF IInv, RunInv, RunTypes
    <2>2. \A r \in Runs : r > started' <=> pc'[r] = "none"
        BY <1>1, <1>3 DEF IInv, RunInv, RunTypes, Runs
    <2>3. /\ started' \in 0 .. MaxRuns /\ abortRef' \in 0 .. started'
          /\ aborted' \subseteq 1 .. started'
        BY <1>1, <1>3
    <2>. QED  BY <2>1, <2>2, <2>3 DEF RunTypes, IInv, RunInv
<1>6. LocalsOwn'
    <2>1. ASSUME NEW u \in Runs, NEW i \in Statements, u # n
          PROVE  Fits(run[u].results[i], run[u].tab, i)'
        <3>1. run'[u] = run[u] /\ Fits(run[u].results[i], run[u].tab, i)
            BY <1>3, <2>1 DEF IInv, RunInv, RunTypes, LocalsOwn
        <3>. QED  BY <1>4, <3>1, StillFits DEF IInv, RunInv, Fits
    <2>2. ASSUME NEW u \in Runs, NEW i \in Statements, u = n
          PROVE  Fits(run[u].results[i], run[u].tab, i)'
        <3>1. run'[u].results[i] = NoResult
            BY <1>3, <2>2, Names DEF IInv, RunInv, RunTypes
        <3>. QED  BY <3>1 DEF Fits, Slots
    <2>. QED  BY <2>1, <2>2 DEF LocalsOwn
<1>7. AtWork'
    <2>1. ASSUME NEW u \in Runs, Running(u)', u # n
          PROVE  /\ run'[u].at \in Statements /\ run'[u].of \in Runs
                 /\ run'[u].page # 0 => run'[u].at = run'[u].page
        <3>1. run'[u] = run[u] /\ pc'[u] = pc[u]
            BY <1>3, <2>1 DEF IInv, RunInv, RunTypes
        <3>. QED  BY <2>1, <3>1 DEF IInv, RunInv, AtWork, Running
    <2>2. run'[n] = rec
        BY <1>1, <1>3 DEF IInv, RunInv, RunTypes
    <2>. QED  BY <2>1, <2>2 DEF AtWork
<1>. QED  BY <1>4, <1>5, <1>6, <1>7 DEF RunInv

LEMMA ExecuteInv == ASSUME IInv, ExecuteStatements PROVE IInv'
<1>1. active \in Tabs /\ tab \in [Tabs -> TabType] /\ started' \in Runs
    BY Names DEF ExecuteStatements, Begin, IInv, RunInv, RunTypes, TabInv, Runs
<1>2. RunInv' /\ Keeps
    <2>1. /\ Begin(0, started + 1, 1) /\ UNCHANGED <<active, trailing, parked>>
          /\ aborted' \subseteq 1 .. started /\ started + 1 \in Runs
          /\ 0 \in 0 .. Length /\ 1 \in Statements
        BY <1>1, Names DEF ExecuteStatements, Begin, IInv, RunInv, RunTypes, Statements
    <2>. QED  BY <2>1, BeginInv
<1>3. /\ tab' \in [Tabs -> TabType] /\ \A u \in Tabs \ {active} : tab'[u] = tab[u]
      /\ tab'[active].results = NoResults /\ tab'[active].runningQueryId = NoQuery
    <2> DEFINE y == Fresh(tab[active], started')
    <2>1. started' \in 0 .. MaxRuns /\ tab[active] \in TabType
        BY <1>1, Names DEF Runs
    <2>2. y \in TabType /\ y.results = NoResults /\ y.runningQueryId = NoQuery
        BY <2>1, FreshChange
    <2>3. tab' = With(tab, active, y)
        BY <1>1, <2>1, TabTypeIs DEF ExecuteStatements, With, Fresh
    <2> HIDE DEF y
    <2>. QED  BY <1>1, <2>2, <2>3, TabChange
<1>4. \A i \in Statements : Fits(NoResults[i], active, i)
    BY Names, NoResultFits
<1>5. KillIsOwn(NoQuery, active)
    BY DEF KillIsOwn
<1>6. TabInv'
    BY <1>1, <1>2, <1>3, <1>4, <1>5, OneTab
<1>. QED  BY <1>1, <1>2, <1>6 DEF IInv, ExecuteStatements

LEMMA RefusedInv == ASSUME IInv, RunRefused PROVE IInv'
<1>1. active \in Tabs /\ tab \in [Tabs -> TabType]
    BY DEF IInv, TabInv
<1>2. RunInv' /\ Keeps
    BY SameRuns DEF RunRefused, IInv, RunInv, RunTypes
<1> DEFINE q == tab[active].runningQueryId
<1>3. /\ tab' \in [Tabs -> TabType] /\ \A u \in Tabs \ {active} : tab'[u] = tab[u]
      /\ tab'[active].results = NoResults /\ tab'[active].runningQueryId = q
    <2> DEFINE y == [tab[active] EXCEPT !.results = NoResults, !.running = FALSE]
    <2>1. y \in TabType /\ y.results = NoResults /\ y.runningQueryId = q
        BY <1>1, Names, TabTypeIs
    <2>2. tab' = With(tab, active, y)
        BY <1>1, TabTypeIs DEF RunRefused, With
    <2> HIDE DEF y
    <2>. QED  BY <1>1, <2>1, <2>2, TabChange
<1>4. \A i \in Statements : Fits(NoResults[i], active, i)
    BY Names, NoResultFits
<1>5. KillIsOwn(q, active)
    BY <1>1 DEF IInv, TabInv, RowFits
<1> HIDE DEF q
<1>6. TabInv'
    BY <1>1, <1>2, <1>3, <1>4, <1>5, OneTab
<1>. QED  BY <1>1, <1>2, <1>6 DEF IInv, RunRefused

LEMMA LoadPageInv == ASSUME IInv, NEW i0 \in Statements, LoadResultPage(i0) PROVE IInv'
<1> DEFINE of == tab[active].statements
           R == tab[active].results
           q == tab[active].runningQueryId
<1>1. active \in Tabs /\ tab \in [Tabs -> TabType] /\ RowFits(active)
    BY DEF IInv, TabInv
<1>2. tab[active] \in TabType /\ of \in Runs
    BY <1>1, Names, TabTypeIs DEF LoadResultPage, Runs
<1>3. RunInv' /\ Keeps
    <2>1. i0 \in 0 .. Length /\ aborted' \subseteq 1 .. started
        BY Names DEF LoadResultPage, IInv, RunInv, RunTypes, Statements
    <2>2. Begin(i0, of, i0) /\ UNCHANGED <<active, trailing, parked>>
        BY DEF LoadResultPage
    <2> HIDE DEF of
    <2>. QED  BY <1>2, <2>1, <2>2, BeginInv
<1>4. /\ tab' \in [Tabs -> TabType] /\ \A u \in Tabs \ {active} : tab'[u] = tab[u]
      /\ tab'[active].results = R /\ tab'[active].runningQueryId = q
    BY <1>1, <1>2, TabTypeIs DEF LoadResultPage
<1>5. (\A i \in Statements : Fits(R[i], active, i)) /\ KillIsOwn(q, active)
    BY <1>1 DEF RowFits
<1>6. TabInv'
    <2> HIDE DEF R, q
    <2>. QED  BY <1>1, <1>3, <1>4, <1>5, OneTab
<1>. QED  BY <1>1, <1>3, <1>6 DEF IInv, LoadResultPage

LEMMA StartedInv == ASSUME IInv, NEW r \in Runs, Started(r) PROVE IInv'
<1> DEFINE t == run[r].tab
           R == tab[t].results
           q == <<r, run[r].at>>
<1>1. Running(r) /\ run[r] \in RunType /\ t \in Tabs /\ r \in 1 .. started
    BY DEF Started, Running, IInv, RunInv, RunTypes, RunType, Runs
<1>2. run[r].at \in Statements /\ run[r].of \in Runs /\ (run[r].page # 0 => run[r].at = run[r].page)
    BY <1>1 DEF IInv, RunInv, AtWork
<1>3. tab \in [Tabs -> TabType] /\ RowFits(t) /\ tab[t] \in TabType
    BY <1>1 DEF IInv, TabInv
<1>4. RunInv' /\ Keeps
    <2>1. run' = [run EXCEPT ![r] = run[r]] /\ pc' = [pc EXCEPT ![r] = "open"]
        BY DEF Started, IInv, RunInv, RunTypes
    <2>2. \A i \in Statements : Fits(run[r].results[i], run[r].tab, i)
        BY DEF IInv, RunInv, LocalsOwn
    <2>3. /\ started' = started /\ abortRef' = abortRef /\ aborted' = aborted
          /\ parked' \subseteq Queries /\ trailing' \subseteq [query : Queries, signal : 0 .. MaxRuns]
        BY DEF Started, IInv, RunInv, RunTypes
    <2>. QED  BY <1>1, <1>2, <2>1, <2>2, <2>3, OneRun
<1>5. q \in Queries /\ KillIsOwn(q, t)
    BY <1>1, <1>2 DEF Queries, KillIsOwn
<1>6. /\ tab' \in [Tabs -> TabType] /\ \A u \in Tabs \ {t} : tab'[u] = tab[u]
      /\ tab'[t].results = R /\ tab'[t].runningQueryId = q
    <2>1. tab' = [tab EXCEPT ![t].runningQueryId = q]
        BY DEF Started
    <2> HIDE DEF t, q
    <2>. QED  BY <1>1, <1>3, <1>5, <2>1, TabTypeIs
<1>7. \A i \in Statements : Fits(R[i], t, i)
    BY <1>3 DEF RowFits
<1>8. TabInv'
    <2> HIDE DEF R, q, t
    <2>. QED  BY <1>1, <1>4, <1>5, <1>6, <1>7, OneTab
<1>. QED  BY <1>4, <1>8 DEF IInv, Started

LEMMA SettleInv == ASSUME IInv, NEW r \in Runs, Settle(r) PROVE IInv'
<1>1. CASE Answer(r)
    <2>1. Running(r) /\ Continue(r, "ok") /\ "ok" \in Outcomes
        BY <1>1 DEF Answer, Running, Outcomes
    <2>2. [query |-> <<r, run[r].at>>, signal |-> run[r].signal]
              \in [query : Queries, signal : 0 .. MaxRuns]
        BY <2>1 DEF IInv, RunInv, RunTypes, RunType, AtWork, Queries
    <2>3. Frame
        BY <1>1, <2>2 DEF Answer, Frame, IInv, RunInv, RunTypes
    <2>. QED  BY <2>1, <2>3, ContinueInv
<1>2. CASE Fail(r)
    <2>1. Running(r) /\ Continue(r, "failed") /\ "failed" \in Outcomes /\ Frame
        BY <1>2 DEF Fail, Outcomes, Frame, IInv, RunInv, RunTypes
    <2>. QED  BY <2>1, ContinueInv
<1>3. CASE AbortWrapped(r)
    <2>1. /\ Running(r) /\ Continue(r, "request aborted") /\ "request aborted" \in Outcomes
          /\ Frame
        BY <1>3 DEF AbortWrapped, Running, Outcomes, Frame, IInv, RunInv, RunTypes
    <2>. QED  BY <2>1, ContinueInv
<1>4. CASE AbortError(r)
    <2>1. Running(r) /\ Frame
        BY <1>4 DEF AbortError, Running, Frame, IInv, RunInv, RunTypes
    <2>2. CASE run[r].page = 0
        <3>1. Commit(r, run[r].results)
            BY <1>4, <2>2 DEF AbortError
        <3>2. /\ run[r].results \in [Statements -> Slots]
              /\ \A i \in Statements : Fits(run[r].results[i], run[r].tab, i)
            BY DEF IInv, RunInv, RunTypes, RunType, LocalsOwn
        <3>. QED  BY <2>1, <3>1, <3>2, CommitInv
    <2>3. CASE run[r].page # 0
        <3>1. Over(r) /\ UNCHANGED <<tab, abortRef, parked>>
            BY <1>4, <2>3 DEF AbortError
        <3>2. RunInv' /\ Keeps
            BY <2>1, <3>1, OverInv DEF IInv, RunInv, RunTypes
        <3>. QED  BY <2>1, <3>1, <3>2, SameTabs DEF IInv, Frame
    <2>. QED  BY <2>2, <2>3
<1>. QED  BY <1>1, <1>2, <1>3, <1>4 DEF Settle

LEMMA AdvisorInv == ASSUME IInv, NEW s \in trailing, Advisor(s) PROVE IInv'
<1> DEFINE q == s.query
           t == run[q[1]].tab
           x == tab[t].results[q[2]]
           R == [tab[t].results EXCEPT ![q[2]] = Attach(x, q)]
           k == tab[t].runningQueryId
<1>1. q \in Queries /\ q[1] \in Runs /\ q[2] \in Statements /\ t \in Tabs
    <2>1. q \in Queries
        BY DEF IInv, RunInv, RunTypes
    <2>2. q[1] \in Runs /\ q[2] \in Statements
        BY <2>1, Names
    <2>. QED  BY <2>1, <2>2 DEF IInv, RunInv, RunTypes, RunType
<1>2. tab \in [Tabs -> TabType] /\ RowFits(t)
    BY <1>1 DEF IInv, TabInv
<1>3. RunInv' /\ Keeps
    BY <1>1, SameRuns DEF Advisor, IInv, RunInv, RunTypes
<1>4. tab[t].results \in [Statements -> Slots] /\ tab[t] \in TabType
    BY <1>1, <1>2, TabTypeIs
<1>5. Fits(Attach(x, q), t, q[2])
    <2>1. Fits(x, t, q[2])
        BY <1>1, <1>2 DEF RowFits
    <2>2. CASE x # NoResult /\ QueryId(x) = q
        <3>1. Attach(x, q) = [x EXCEPT !.advisor = QueryId(x)]
            BY <2>2 DEF Attach
        <3>2. RunTypes /\ QueryId(x) \in Queries
            BY <1>1, <2>2 DEF IInv, RunInv
        <3> HIDE DEF x, t, q
        <3>3. Fits([x EXCEPT !.advisor = QueryId(x)], t, q[2])
            BY <2>1, <2>2, <3>2, AdvisedFits
        <3>. QED  BY <3>1, <3>3
    <2>3. CASE ~ (x # NoResult /\ QueryId(x) = q)
        BY <2>1, <2>3 DEF Attach
    <2>. QED  BY <2>2, <2>3
<1>6. ASSUME NEW i \in Statements PROVE Fits(R[i], t, i)
    <2>1. CASE i = q[2]
        BY <1>1, <1>4, <1>5, <2>1
    <2>2. CASE i # q[2]
        <3>1. R[i] = tab[t].results[i]
            BY <1>4, <2>2
        <3>. QED  BY <1>2, <3>1 DEF RowFits
    <2>. QED  BY <2>1, <2>2
<1>7. R \in [Statements -> Slots]
    BY <1>4, <1>5 DEF Fits
<1>8. /\ tab' \in [Tabs -> TabType] /\ \A u \in Tabs \ {t} : tab'[u] = tab[u]
      /\ tab'[t].results = R /\ tab'[t].runningQueryId = k
    <2>1. tab' = [tab EXCEPT ![t].results = R]
        BY <1>1, <1>2, <1>4, TabTypeIs DEF Advisor
    <2> HIDE DEF R, t
    <2>. QED  BY <1>1, <1>2, <1>4, <1>7, <2>1, TabTypeIs
<1>9. KillIsOwn(k, t)
    BY <1>2 DEF RowFits
<1>10. TabInv'
    <2> HIDE DEF R, k, t
    <2>. QED  BY <1>1, <1>3, <1>6, <1>8, <1>9, OneTab
<1>. QED  BY <1>3, <1>10 DEF IInv, Advisor

LEMMA StopInv == ASSUME IInv, Stop PROVE IInv'
<1>1. active \in Tabs /\ tab \in [Tabs -> TabType] /\ RowFits(active) /\ tab[active] \in TabType
    BY DEF IInv, TabInv
<1>2. RunInv' /\ Keeps
    BY SameRuns DEF Stop, IInv, RunInv, RunTypes
<1>3. CASE abortRef = 0
    BY <1>1, <1>2, <1>3, SameTabs DEF Stop, IInv
<1>4. CASE abortRef # 0
    <2> DEFINE R == tab[active].results
    <2>1. /\ tab' \in [Tabs -> TabType] /\ \A u \in Tabs \ {active} : tab'[u] = tab[u]
          /\ tab'[active].results = R /\ tab'[active].runningQueryId = NoQuery
        BY <1>1, <1>4, TabTypeIs DEF Stop
    <2>2. (\A i \in Statements : Fits(R[i], active, i)) /\ KillIsOwn(NoQuery, active)
        BY <1>1 DEF RowFits, KillIsOwn
    <2>3. TabInv'
        <3> HIDE DEF R
        <3>. QED  BY <1>1, <1>2, <2>1, <2>2, OneTab
    <2>. QED  BY <1>1, <1>2, <2>3 DEF IInv, Stop
<1>. QED  BY <1>3, <1>4

LEMMA ActivateInv == ASSUME IInv, NEW t \in Tabs, Activate(t) PROVE IInv'
<1>1. RunInv' /\ Keeps
    BY SameRuns DEF Activate, IInv, RunInv, RunTypes
<1>. QED  BY <1>1, SameTabs DEF Activate, IInv

-----------------------------------------------------------------------------
(* The invariant and the theorems                                          *)

LEMMA InitInv == ASSUME Init PROVE IInv
<1>1. RunInv
    <2>1. RunTypes
        BY Names DEF Init, RunTypes, RunType, Runs
    <2>2. LocalsOwn
        BY Names, NoResultFits DEF Init, LocalsOwn
    <2>3. AtWork
        BY DEF Init, AtWork, Running
    <2>. QED  BY <2>1, <2>2, <2>3 DEF RunInv
<1>2. EmptyTab \in TabType /\ EmptyTab.results = NoResults /\ EmptyTab.runningQueryId = NoQuery
    BY Names, TabTypeIs DEF EmptyTab
<1>3. ASSUME NEW t \in Tabs PROVE RowFits(t)
    <2>1. tab[t] = EmptyTab
        BY DEF Init
    <2>. QED  BY <1>2, <2>1, Names, NoResultFits DEF RowFits, KillIsOwn
<1>4. tab \in [Tabs -> TabType]
    BY <1>2 DEF Init
<1>. QED  BY <1>1, <1>3, <1>4 DEF IInv, TabInv, Init

LEMMA StepInv == ASSUME IInv, [Next]_vars PROVE IInv'
<1>1. CASE UNCHANGED vars
    <2>1. RunInv' /\ Keeps
        BY <1>1, SameRuns DEF vars, IInv, RunInv, RunTypes
    <2>. QED  BY <1>1, <2>1, SameTabs DEF vars, IInv
<1>2. CASE Next
    BY <1>2, ExecuteInv, RefusedInv, StopInv, LoadPageInv, StartedInv, SettleInv, AdvisorInv,
       ActivateInv DEF Next
<1>. QED  BY <1>1, <1>2

LEMMA Invariance == Spec => []IInv
BY InitInv, StepInv, PTL DEF Spec

\* The types of the editor's runs and tabs.
THEOREM RunsTypeOK == Spec => []TypeOK
<1>1. IInv => TypeOK
    BY DEF IInv, RunInv, RunTypes, RunType, TabInv, TypeOK
<1>. QED  BY <1>1, Invariance, PTL

\* However many tabs and runs overlap, an advisor stands with the result it
\* was computed for.
THEOREM RunsAdvisorMatchesResult == Spec => []AdvisorMatchesResult
<1>1. ASSUME IInv PROVE AdvisorMatchesResult
    <2>1. ASSUME NEW t \in Tabs, NEW i \in Statements
          PROVE  tab[t].results[i].advisor \in {NoQuery, QueryId(tab[t].results[i])}
        <3>1. Fits(tab[t].results[i], t, i)
            BY <1>1 DEF IInv, TabInv, RowFits
        <3>2. NoResult.advisor = NoQuery
            BY DEF NoResult
        <3>. QED  BY <3>1, <3>2 DEF Fits
    <2>. QED  BY <2>1 DEF AdvisorMatchesResult
<1>. QED  BY <1>1, Invariance, PTL

\* ... and a result in the tab and at the place of the run that got it.
THEOREM RunsResultsAreOwn == Spec => []ResultsAreOwn
<1>1. IInv => ResultsAreOwn
    BY DEF IInv, TabInv, RowFits, Fits, ResultsAreOwn
<1>. QED  BY <1>1, Invariance, PTL

\* ... and the query that Stop kills is its own tab's.
THEOREM RunsStopKillsOwn == Spec => []StopKillsOwn
<1>1. IInv => StopKillsOwn
    BY DEF IInv, TabInv, RowFits, KillIsOwn, StopKillsOwn
<1>. QED  BY <1>1, Invariance, PTL
=============================================================================
