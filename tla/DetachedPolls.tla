--------------------------- MODULE DetachedPolls ----------------------------
(***************************************************************************)
(* How the query editor follows detached jobs, runDetached and closeTab in *)
(* web/src/pages/QueryEditor.tsx. A start is one call of runDetached: its  *)
(* job, the interval that polls it and the answers under way. A poll's     *)
(* callback reads nothing again after its await but the map of polls.      *)
(***************************************************************************)
EXTENDS Naturals

CONSTANTS
    Tabs,
    MaxStarts,  \* bound: calls of runDetached
    MaxPolls,   \* bound: fetchJob calls of one interval that overlap
    MaxFailures \* polls in a row that fail before the job is given up: 3

ASSUME TabsAssumption == Tabs # {}
ASSUME BoundsAssumption == MaxStarts \in Nat /\ MaxPolls \in Nat
ASSUME MaxFailuresAssumption == MaxFailures \in Nat \ {0}

VARIABLES
    open,      \* tabs
    mounted,   \* the editor
    starts,    \* calls so far
    of,        \* start -> its tabId
    phase,     \* start -> "none", "posted", "polling", "refused"
    job,       \* start -> the server's status: "none", "running", "done", "failed"
    timer,     \* starts whose interval is set
    failures,  \* start -> poll.failures
    answers,   \* start -> how many of its fetchJob calls are "sent", or have an
               \* answer that says "running", "done", "failed" or "error"
    polls,     \* detachedPollsRef: tab -> the start it holds, 0 for none
    shown,     \* tab -> the start whose job its detachedJob is, 0 for none
    result     \* tab -> the start its results are of, 0 for none

vars == <<open, mounted, starts, of, phase, job, timer, failures, answers, polls, shown, result>>

Starts == 1 .. MaxStarts
Kinds == {"sent", "running", "done", "failed", "error"}

Init ==
    /\ open = Tabs
    /\ mounted = TRUE
    /\ starts = 0
    /\ of = [d \in Starts |-> CHOOSE t \in Tabs : TRUE]
    /\ phase = [d \in Starts |-> "none"]
    /\ job = [d \in Starts |-> "none"]
    /\ timer = {}
    /\ failures = [d \in Starts |-> 0]
    /\ answers = [d \in Starts |-> [a \in Kinds |-> 0]]
    /\ polls = [t \in Tabs |-> 0]
    /\ shown = [t \in Tabs |-> 0]
    /\ result = [t \in Tabs |-> 0]

\* updateTab finds no tab that is closed, and nothing after the unmount.
Update(f, t, d) == IF mounted /\ t \in open THEN [f EXCEPT ![t] = d] ELSE f

\* Mutant: one poll for the whole editor.
StopEveryPoll(t) ==
    /\ timer' = timer \ {polls[u] : u \in Tabs}
    /\ polls' = [u \in Tabs |-> 0]

\* stopDetachedPoll: the interval the map holds for the tab, and the entry.
StopPoll(t) ==
    /\ timer' = timer \ {polls[t]}
    /\ polls' = [polls EXCEPT ![t] = 0]

-----------------------------------------------------------------------------

\* Mutant: the interval is set before the job has an id.
PollsFirst(t) ==
    /\ mounted
    /\ t \in open
    /\ starts < MaxStarts
    /\ starts' = starts + 1
    /\ of' = [of EXCEPT ![starts'] = t]
    /\ phase' = [phase EXCEPT ![starts'] = "posted"]
    /\ timer' = (timer \ {polls[t]}) \union {starts'}
    /\ polls' = [polls EXCEPT ![t] = starts']
    /\ UNCHANGED <<open, mounted, job, failures, answers, shown, result>>

\* The button is there while a detached job runs.
RunDetached(t) ==
    /\ mounted
    /\ t \in open
    /\ starts < MaxStarts
    /\ starts' = starts + 1
    /\ of' = [of EXCEPT ![starts'] = t]
    /\ phase' = [phase EXCEPT ![starts'] = "posted"]
    /\ StopPoll(t)
    /\ UNCHANGED <<open, mounted, job, failures, answers, shown, result>>

\* startDetachedJob registers the job before it answers.
ServerStarts(d) ==
    /\ phase[d] = "posted"
    /\ job[d] = "none"
    /\ job' = [job EXCEPT ![d] = "running"]
    /\ UNCHANGED <<open, mounted, starts, of, phase, timer, failures, answers, polls, shown, result>>

\* The await of executeDetached ends.
Started(d) ==
    /\ phase[d] = "posted"
    /\ job[d] # "none"
    /\ phase' = [phase EXCEPT ![d] = "polling"]
    /\ timer' = timer \union {d}
    /\ polls' = [polls EXCEPT ![of[d]] = d]
    /\ shown' = Update(shown, of[d], d)
    /\ UNCHANGED <<open, mounted, starts, of, job, failures, answers, result>>

\* A refusal, or an answer that is lost.
StartFails(d) ==
    /\ phase[d] = "posted"
    /\ phase' = [phase EXCEPT ![d] = "refused"]
    /\ result' = Update(result, of[d], 0)
    /\ UNCHANGED <<open, mounted, starts, of, job, timer, failures, answers, polls, shown>>

ServerEnds(d, status) ==
    /\ job[d] = "running"
    /\ job' = [job EXCEPT ![d] = status]
    /\ UNCHANGED <<open, mounted, starts, of, phase, timer, failures, answers, polls, shown, result>>

\* cancelDetachedJob cancels the job the tab shows.
Cancel(t) == mounted /\ t \in open /\ shown[t] # 0 /\ ServerEnds(shown[t], "failed")

Awaited(d) ==
    answers[d]["sent"] + answers[d]["running"] + answers[d]["done"]
        + answers[d]["failed"] + answers[d]["error"]

\* The interval does not wait for the call before.
Tick(d) ==
    /\ d \in timer
    /\ Awaited(d) < MaxPolls
    /\ answers' = [answers EXCEPT ![d]["sent"] = @ + 1]
    /\ UNCHANGED <<open, mounted, starts, of, phase, job, timer, failures, polls, shown, result>>

\* The job's status when the server looks, or no answer; calls overtake each
\* other.
Respond(d) ==
    /\ answers[d]["sent"] > 0
    /\ \E a \in {job[d], "error"} :
         answers' = [answers EXCEPT ![d]["sent"] = @ - 1, ![d][a] = @ + 1]
    /\ UNCHANGED <<open, mounted, starts, of, phase, job, timer, failures, polls, shown, result>>

Take(d, a) ==
    /\ answers[d][a] > 0
    /\ answers' = [answers EXCEPT ![d][a] = @ - 1]

ReceiveRunning(d) ==
    /\ Take(d, "running")
    /\ failures' = [failures EXCEPT ![d] = 0]
    /\ shown' = Update(shown, of[d], d)
    /\ UNCHANGED <<open, mounted, starts, of, phase, job, timer, polls, result>>

\* Mutant: the interval goes on.
EndKeepsPolling(d, status) ==
    /\ Take(d, status)
    /\ failures' = [failures EXCEPT ![d] = 0]
    /\ result' = Update(result, of[d], IF status = "done" THEN d ELSE 0)
    /\ shown' = Update(shown, of[d], 0)
    /\ UNCHANGED <<open, mounted, starts, of, phase, job, timer, polls>>

\* Mutant: whatever is not running is done.
EndIsDone(d, status) ==
    /\ Take(d, status)
    /\ failures' = [failures EXCEPT ![d] = 0]
    /\ StopPoll(of[d])
    /\ result' = Update(result, of[d], d)
    /\ shown' = Update(shown, of[d], 0)
    /\ UNCHANGED <<open, mounted, starts, of, phase, job>>

ReceiveEnd(d, status) ==
    /\ Take(d, status)
    /\ failures' = [failures EXCEPT ![d] = 0]
    /\ StopPoll(of[d])
    /\ result' = Update(result, of[d], IF status = "done" THEN d ELSE 0)
    /\ shown' = Update(shown, of[d], 0)
    /\ UNCHANGED <<open, mounted, starts, of, phase, job>>

\* The last failure in a row gives the job up; more do so again.
PollFails(d) ==
    /\ Take(d, "error")
    /\ failures' = [failures EXCEPT ![d] = IF @ < MaxFailures THEN @ + 1 ELSE @]
    /\ IF failures'[d] = MaxFailures
       THEN StopPoll(of[d]) /\ shown' = Update(shown, of[d], 0)
       ELSE UNCHANGED <<timer, polls, shown>>
    /\ UNCHANGED <<open, mounted, starts, of, phase, job, result>>

CloseTab(t) ==
    /\ mounted
    /\ t \in open
    /\ open # {t}
    /\ open' = open \ {t}
    /\ StopPoll(t)
    /\ UNCHANGED <<mounted, starts, of, phase, job, failures, answers, shown, result>>

Unmount ==
    /\ mounted
    /\ mounted' = FALSE
    /\ timer' = timer \ {polls[t] : t \in Tabs}
    /\ polls' = [t \in Tabs |-> 0]
    /\ UNCHANGED <<open, starts, of, phase, job, failures, answers, shown, result>>

-----------------------------------------------------------------------------

Receive(d) ==
    ReceiveRunning(d) \/ ReceiveEnd(d, "done") \/ ReceiveEnd(d, "failed") \/ PollFails(d)

Next ==
    \/ \E t \in Tabs : RunDetached(t) \/ Cancel(t) \/ CloseTab(t)
    \/ \E d \in Starts :
        \/ ServerStarts(d) \/ Started(d) \/ StartFails(d)
        \/ Tick(d) \/ Respond(d) \/ Receive(d)
        \/ ServerEnds(d, "done") \/ ServerEnds(d, "failed")
    \/ Unmount

Spec == Init /\ [][Next]_vars

\* Intervals fire, fetchJob settles (60 s), and callbacks run.
FairSpec ==
    /\ Spec
    /\ \A d \in Starts :
        WF_vars(Tick(d)) /\ WF_vars(Respond(d)) /\ WF_vars(Receive(d))

-----------------------------------------------------------------------------
(* Properties                                                              *)

\* Every variable has its type; an interval is of a job that was started.
TypeOK ==
    /\ open \subseteq Tabs /\ open # {}
    /\ mounted \in BOOLEAN
    /\ starts \in 0 .. MaxStarts
    /\ of \in [Starts -> Tabs]
    /\ phase \in [Starts -> {"none", "posted", "polling", "refused"}]
    /\ job \in [Starts -> {"none", "running", "done", "failed"}]
    /\ timer \subseteq {d \in Starts : phase[d] = "polling" /\ job[d] # "none"}
    /\ failures \in [Starts -> 0 .. MaxFailures]
    /\ answers \in [Starts -> [Kinds -> 0 .. MaxPolls]]
    /\ polls \in [Tabs -> 0 .. MaxStarts]
    /\ shown \in [Tabs -> 0 .. MaxStarts]
    /\ result \in [Tabs -> 0 .. MaxStarts]

\* The step keeps the tab's intervals, is one of the tab's own starts or
\* answers, or closes that tab or the editor.
Undisturbed(t) ==
    LET mine == {d \in 1 .. starts' : of'[d] = t}
    IN  \/ t \in open \ open' \/ mounted' # mounted
        \/ \E d \in mine : phase'[d] # phase[d] \/ answers'[d] # answers[d]
        \/ timer' \intersect mine = timer \intersect mine

\* "Starting a job in tab B never abandons tab A's job": a tab's interval is
\* only stopped by a start or an answer of the same tab, by closing that tab or by
\* leaving the editor.
OtherTabsUndisturbed == [][\A t \in Tabs : Undisturbed(t)]_vars

\* A tab shows a result of a job that it started and that is done, however
\* late the answer that brought it.
ResultsAreReal ==
    \A t \in Tabs : result[t] # 0 => of[result[t]] = t /\ job[result[t]] = "done"

\* The interval the map holds for a tab stops once its job has ended, or once
\* polls in a row failed.
KnownPollStops ==
    \A d \in Starts :
        job[d] \in {"done", "failed"} /\ d \in timer /\ polls[of[d]] = d
            ~> d \notin timer \/ polls[of[d]] # d
=============================================================================
