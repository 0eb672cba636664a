-------------------------- MODULE ExecutionProofs --------------------------
(***************************************************************************)
(* Proofs about the two ways in which the editor has a statement executed: *)
(* over one stream (ExecStream), and as a detached job that it polls       *)
(* (DetachedPolls).  In every order of the handler, its watcher and pump,  *)
(* the network and the browser, an execution is answered once, is not      *)
(* reported as failed when it succeeded, and is killed only for a browser  *)
(* that is gone; for any tabs, any number of starts and of polls under way *)
(* at once, a tab shows only what its own jobs returned, and no tab stops  *)
(* another one's interval.                                                 *)
(***************************************************************************)
EXTENDS ExecStream, DetachedPolls, TLAPS

USE MaxProgressAssumption

Events == {"started", "progress", "result", "advisor", "error"}
Serving == handler \notin {"idle", "over"}

(***************************************************************************)
(* An execution: what was written is told apart by the place               *)
(* of the handler: nothing that answers comes before it leaves the query,  *)
(* and a result that could be marshaled has been written when it turns to  *)
(* the advisor.                                                            *)
(***************************************************************************)

\* StreamTypeOK in two parts: the provers treat Booleans apart from the rest.
Flags == paged \in BOOLEAN /\ finite \in BOOLEAN /\ heeds \in BOOLEAN /\ stopping \in BOOLEAN

Ranges ==
    /\ handler \in {"idle", "query", "rows", "failed", "advise", "over"}
    /\ budget \in {"live", "spent"}
    /\ watcher \in {"new", "waiting", "kill", "off"}
    /\ pump \in {"waiting", "asked", "off"}
    /\ query \in {"off", "sent", "running", "done", "killed"}
    /\ rctx \in {"live", "gone"}
    /\ stream \in Seq(Events)
    /\ seen \in 0 .. Len(stream)
    /\ outcome \in {"pending", "resolved", "rejected", "aborted"}

\* The watcher leaves its select for a reason.
WatcherHasCause == watcher \in {"kill", "off"} => ~ Serving \/ rctx = "gone"

\* Before the handler begins there is no query, and only Stop asks for a KILL.
KillsHaveCause ==
    /\ handler = "idle" => query = "off"
    /\ stopping => outcome = "aborted"

\* At most one answer has been written, and none while the query runs.
AnsweredOnce ==
    /\ handler \notin {"advise", "over"} => Answers = {}
    /\ \A i, j \in Answers : i = j

\* The answer that a live connection is owed has been written.
AnswerWritten ==
    finite /\ rctx = "live" =>
        /\ handler = "advise" => At("result") # {}
        /\ handler = "over" => Answers # {}

AdvisorTrails == finite => \A i \in At("advisor") : \E j \in At("result") : j < i

\* executeQuery settles with the first answer that it reads.
ReadSettles == \A i \in Answers : i <= seen => outcome # "pending"

StreamInv ==
    /\ Flags
    /\ Ranges
    /\ WatcherHasCause
    /\ KillsHaveCause
    /\ AnsweredOnce
    /\ AnswerWritten
    /\ AdvisorTrails
    /\ ReadSettles
    /\ KilledForTheGone
    /\ NoFalseFailure

\* The conjuncts about what was written and read.
Written == AnsweredOnce /\ AnswerWritten /\ AdvisorTrails /\ ReadSettles /\ NoFalseFailure

-----------------------------------------------------------------------------
(* Writing                                                                 *)

\* writeEvent appends the event, unless the browser is gone or the event is a
\* result that cannot be marshaled.
LEMMA WriteEffect ==
    ASSUME Ranges, NEW event \in Events, Write(event)
    PROVE  /\ stream' \in Seq(Events)
           /\ \/ stream' = stream
              \/ /\ rctx = "live"
                 /\ Len(stream') = Len(stream) + 1
                 /\ \A i \in 1 .. Len(stream) : stream'[i] = stream[i]
                 /\ stream'[Len(stream) + 1] = event
           /\ rctx = "live" /\ (event = "result" => finite) => stream' # stream
<1>1. stream \in Seq(Events) /\ Append(stream, event) \in Seq(Events)
    BY DEF Ranges
<1>2. /\ Len(Append(stream, event)) = Len(stream) + 1
      /\ \A i \in 1 .. Len(stream) : Append(stream, event)[i] = stream[i]
      /\ Append(stream, event)[Len(stream) + 1] = event
    BY <1>1
<1>3. Append(stream, event) # stream
    BY <1>1, <1>2
<1>4. CASE rctx = "gone" \/ (event = "result" /\ ~ finite)
    BY <1>1, <1>4 DEF Write, Ranges
<1>5. CASE ~ (rctx = "gone" \/ (event = "result" /\ ~ finite))
    BY <1>1, <1>2, <1>3, <1>5 DEF Write, Ranges
<1>. QED  BY <1>4, <1>5

\* Where events of a kind are after a write.
LEMMA AtEffect ==
    ASSUME Ranges, NEW event \in Events, Write(event), NEW e \in Events
    PROVE  /\ At(e) \subseteq 1 .. Len(stream)
           /\ At(e)' = IF e = event /\ stream' # stream THEN At(e) \union {Len(stream) + 1}
                       ELSE At(e)
           /\ seen \in 0 .. Len(stream')
<1>1. stream \in Seq(Events) /\ Len(stream) \in Nat /\ DOMAIN stream = 1 .. Len(stream)
    BY DEF Ranges
<1>2. stream' \in Seq(Events) /\ DOMAIN stream' = 1 .. Len(stream')
    BY WriteEffect
<1>3. At(e) \subseteq 1 .. Len(stream)
    BY <1>1 DEF At
<1>4. CASE stream' = stream
    BY <1>3, <1>4 DEF At, Ranges
<1>5. CASE stream' # stream
    <2>1. /\ Len(stream') = Len(stream) + 1
          /\ \A i \in 1 .. Len(stream) : stream'[i] = stream[i]
          /\ stream'[Len(stream) + 1] = event
        BY <1>5, WriteEffect
    <2>2. DOMAIN stream' = DOMAIN stream \union {Len(stream) + 1}
        BY <1>1, <1>2, <2>1
    <2>3. At(e)' = IF e = event THEN At(e) \union {Len(stream) + 1} ELSE At(e)
        BY <1>1, <2>1, <2>2 DEF At
    <2>. QED  BY <1>1, <1>3, <1>5, <2>1, <2>3 DEF Ranges
<1>. QED  BY <1>4, <1>5

-----------------------------------------------------------------------------
(* What was written, step by step                                          *)

\* A step that neither writes nor reads, nor takes the handler to a place
\* that owes an answer.
Silent ==
    /\ UNCHANGED <<stream, seen, finite>>
    /\ handler' = handler \/ {handler, handler'} \intersect {"advise", "over"} = {}
    /\ rctx' = "live" => rctx = "live"
    /\ outcome' = outcome \/ outcome' = "aborted"

LEMMA SilentWritten == ASSUME StreamInv, Silent PROVE Written'
<1>1. \A e : At(e)' = At(e)
    BY DEF Silent, At
<1>2. Answers' = Answers
    BY <1>1 DEF Answers
<1>3. AnsweredOnce'
    BY <1>2 DEF StreamInv, Silent, AnsweredOnce
<1>4. AnswerWritten'
    <2>1. rctx' = "live" /\ finite' => rctx = "live" /\ finite
        BY DEF Silent
    <2>2. handler' \in {"advise", "over"} => handler = handler'
        BY DEF Silent
    <2>. QED  BY <1>1, <1>2, <2>1, <2>2 DEF StreamInv, AnswerWritten
<1>5. AdvisorTrails' /\ ReadSettles' /\ NoFalseFailure'
    BY <1>1, <1>2 DEF StreamInv, Silent, AdvisorTrails, ReadSettles, NoFalseFailure
<1>. QED  BY <1>3, <1>4, <1>5 DEF Written

\* "started" and "progress" answer nothing.
LEMMA StartedWritten == ASSUME StreamInv, Begin \/ WriteProgress PROVE Written'
<1>1. PICK event \in {"started", "progress"} : Write(event)
    BY DEF Begin, WriteProgress
<1>2. \A e \in {"result", "error", "advisor"} : At(e)' = At(e)
    BY <1>1, AtEffect DEF StreamInv, Events
<1>3. Answers' = Answers
    BY <1>2 DEF Answers
<1>4. /\ UNCHANGED <<finite, rctx, seen, outcome>>
      /\ handler' = handler \/ (handler = "idle" /\ handler' = "query")
    BY DEF Begin, WriteProgress, browserVars
<1>5. AnsweredOnce' /\ AnswerWritten'
    BY <1>2, <1>3, <1>4 DEF StreamInv, AnsweredOnce, AnswerWritten
<1>6. AdvisorTrails' /\ ReadSettles' /\ NoFalseFailure'
    BY <1>2, <1>3, <1>4 DEF StreamInv, AdvisorTrails, ReadSettles, NoFalseFailure
<1>. QED  BY <1>5, <1>6 DEF Written

\* The handler writes an answer where there was none, and the browser has not
\* read it yet.
LEMMA AnswerWrittenOnce ==
    ASSUME StreamInv, NEW event \in {"result", "error"}, Write(event),
           handler \in {"failed", "rows"}, handler' \in {"advise", "over"},
           handler' = "advise" => event = "result",
           UNCHANGED <<finite, rctx, seen, outcome>>
    PROVE  Written'
<1>1. /\ At("result")' = IF event = "result" /\ stream' # stream
                         THEN At("result") \union {Len(stream) + 1} ELSE At("result")
      /\ At("error")' = IF event = "error" /\ stream' # stream
                        THEN At("error") \union {Len(stream) + 1} ELSE At("error")
      /\ At("advisor")' = At("advisor")
    BY AtEffect DEF StreamInv, Events
<1>2. Answers = {} /\ At("result") = {} /\ At("error") = {}
    BY DEF StreamInv, AnsweredOnce, Answers
<1>3. Answers' = IF stream' # stream THEN {Len(stream) + 1} ELSE {}
    BY <1>1, <1>2 DEF Answers
<1>4. rctx = "live" /\ finite => stream' # stream
    BY WriteEffect DEF StreamInv, Events
<1>5. Len(stream) \in Nat /\ seen \in 0 .. Len(stream)
    BY DEF StreamInv, Ranges
<1>6. AnsweredOnce'
    BY <1>3 DEF AnsweredOnce
<1>7. AnswerWritten'
    BY <1>1, <1>2, <1>3, <1>4 DEF AnswerWritten
<1>8. AdvisorTrails'
    BY <1>1, <1>2 DEF StreamInv, AdvisorTrails
<1>9. ReadSettles'
    BY <1>3, <1>5 DEF ReadSettles
<1>10. NoFalseFailure'
    BY <1>1, <1>2 DEF StreamInv, NoFalseFailure
<1>. QED  BY <1>6, <1>7, <1>8, <1>9, <1>10 DEF Written

\* The advisor comes after the result.
LEMMA AdviseWritten == ASSUME StreamInv, Advise PROVE Written'
<1>1. /\ UNCHANGED <<finite, rctx, seen, outcome>>
      /\ handler = "advise" /\ handler' = "over"
    BY DEF Advise, Return, browserVars
<1>2. CASE UNCHANGED stream
    BY <1>1, <1>2 DEF StreamInv, Written, AnsweredOnce, AnswerWritten, AdvisorTrails, ReadSettles,
       NoFalseFailure, Answers, At
<1>3. CASE Write("advisor") /\ stream' # stream
    <2>1. /\ At("result")' = At("result") /\ At("error")' = At("error")
          /\ At("advisor")' = At("advisor") \union {Len(stream) + 1}
          /\ At("result") \subseteq 1 .. Len(stream)
        BY <1>3, AtEffect DEF StreamInv, Events
    <2>2. Answers' = Answers
        BY <2>1 DEF Answers
    <2>3. rctx = "live"
        BY <1>3, WriteEffect DEF StreamInv, Events
    <2>4. finite => At("result") # {}
        BY <1>1, <2>3 DEF StreamInv, AnswerWritten
    <2>5. finite => \E j \in At("result") : j < Len(stream) + 1
        BY <2>1, <2>4 DEF StreamInv, Ranges
    <2>6. AdvisorTrails'
        BY <1>1, <2>1, <2>5 DEF StreamInv, AdvisorTrails
    <2>7. AnsweredOnce' /\ AnswerWritten'
        BY <1>1, <2>1, <2>2, <2>4 DEF StreamInv, AnsweredOnce, AnswerWritten, Answers
    <2>8. ReadSettles' /\ NoFalseFailure'
        BY <1>1, <2>1, <2>2 DEF StreamInv, ReadSettles, NoFalseFailure
    <2>. QED  BY <2>6, <2>7, <2>8 DEF Written
<1>. QED  BY <1>2, <1>3 DEF Advise

\* Reading settles the promise, with a failure only for an error.
LEMMA ReadWritten == ASSUME StreamInv, HandleEvent PROVE Written'
<1>1. /\ UNCHANGED <<stream, finite, handler, rctx>>
      /\ seen \in Nat /\ seen' = seen + 1 /\ seen' \in DOMAIN stream
      /\ outcome \in {"pending", "resolved"}
    BY DEF HandleEvent, Lines, serverVars, StreamInv, Ranges
<1>2. AnsweredOnce' /\ AnswerWritten' /\ AdvisorTrails'
    BY <1>1 DEF StreamInv, AnsweredOnce, AnswerWritten, AdvisorTrails, Answers, At
<1>3. /\ outcome' = "pending" => outcome = "pending" /\ seen' \notin Answers
      /\ outcome' = "rejected" => stream[seen'] = "error"
    BY <1>1 DEF HandleEvent, Settle, Answers, At
<1>4. \A i \in Answers : i \in Nat
    BY DEF StreamInv, Ranges, Answers, At
<1>5. ReadSettles'
    BY <1>1, <1>3, <1>4 DEF StreamInv, ReadSettles, Answers, At
<1>6. NoFalseFailure'
    BY <1>1, <1>3 DEF NoFalseFailure, At
<1>. QED  BY <1>2, <1>5, <1>6 DEF Written

\* The stream of a handler that returned on a live connection holds its
\* answer; a result among what was read has resolved the promise already.
LEMMA StreamEndsWritten == ASSUME StreamInv, StreamEnds PROVE Written'
<1>1. /\ UNCHANGED <<stream, finite, handler, rctx, seen>>
      /\ outcome = "pending" /\ outcome' = "rejected"
      /\ (handler = "over" /\ seen = Len(stream)) \/ rctx = "gone"
    BY DEF StreamEnds, Lines, serverVars
<1>2. AnsweredOnce' /\ AnswerWritten' /\ AdvisorTrails' /\ ReadSettles'
    BY <1>1 DEF StreamInv, AnsweredOnce, AnswerWritten, AdvisorTrails, ReadSettles, Answers, At
<1>3. \A i \in Answers : i <= Len(stream)
    BY DEF StreamInv, Ranges, Answers, At
<1>4. NoFalseFailure'
    BY <1>1, <1>3 DEF StreamInv, ReadSettles, AnswerWritten, NoFalseFailure, Ranges
<1>. QED  BY <1>2, <1>4 DEF Written

-----------------------------------------------------------------------------
(* The rest of the invariant, step by step                                 *)

\* What does not look at the events.
Causes == WatcherHasCause /\ KillsHaveCause /\ KilledForTheGone

\* The steps of the handler and the clock that write nothing.
LEMMA QueryStepInv ==
    ASSUME StreamInv, Send \/ Rows \/ Fail \/ Abort \/ Timeout \/ Register \/ Complete \/ Ask \/ PumpStops
    PROVE  StreamInv'
<1> USE DEF Send, Rows, Fail, Abort, Timeout, Register, Complete, Ask, PumpStops, browserVars
<1>1. Flags'
    BY Zenon DEF StreamInv, Flags
<1>2. Ranges'
    BY DEF StreamInv, Ranges
<1>3. Causes'
    BY DEF StreamInv, Ranges, Causes, WatcherHasCause, KillsHaveCause, KilledForTheGone, Serving
<1>4. Written'
    BY SilentWritten DEF Silent
<1>. QED  BY <1>1, <1>2, <1>3, <1>4 DEF StreamInv, Causes, Written

\* The watcher and the connection it watches.
LEMMA WatcherInv == ASSUME StreamInv, Watch \/ WatcherKills \/ Disconnect PROVE StreamInv'
<1> USE DEF Watch, WatcherKills, KillQuery, Disconnect, browserVars
<1>1. Flags'
    BY Zenon DEF StreamInv, Flags
<1>2. Ranges'
    BY DEF StreamInv, Ranges
<1>3. Causes'
    BY DEF StreamInv, Ranges, Causes, WatcherHasCause, KillsHaveCause, KilledForTheGone, Serving
<1>4. Written'
    BY SilentWritten DEF Silent
<1>. QED  BY <1>1, <1>2, <1>3, <1>4 DEF StreamInv, Causes, Written

\* The user stops the run.
LEMMA StopInv == ASSUME StreamInv, Stop \/ ExecuteCancel PROVE StreamInv'
<1> USE DEF Stop, ExecuteCancel, KillQuery, serverVars
<1>0. stopping' \in BOOLEAN
    <2>1. CASE Stop
        <3>1. stopping' = (seen > 0)
            BY <2>1
        <3>2. (seen > 0) \in BOOLEAN
            OBVIOUS
        <3>. QED  BY Zenon, <3>1, <3>2
    <2>2. CASE ExecuteCancel
        BY Zenon, <2>2
    <2>. QED  BY <2>1, <2>2
<1>1. Flags'
    BY Zenon, <1>0 DEF StreamInv, Flags
<1>2. Ranges'
    BY DEF StreamInv, Ranges
<1>3. Causes'
    BY DEF StreamInv, Ranges, Causes, WatcherHasCause, KillsHaveCause, KilledForTheGone, Serving
<1>4. Written'
    BY SilentWritten DEF Silent
<1>. QED  BY <1>1, <1>2, <1>3, <1>4 DEF StreamInv, Causes, Written

\* The steps that write.
LEMMA WriteInv ==
    ASSUME StreamInv, Begin \/ WriteProgress \/ WriteError \/ WriteResult \/ Advise
    PROVE  StreamInv'
<1>1. Flags'
    BY Zenon DEF StreamInv, Flags, Begin, WriteProgress, WriteError, WriteResult, Advise, browserVars
<1>2. Ranges'
    <2>1. stream' \in Seq(Events) /\ seen \in 0 .. Len(stream')
        <3>1. UNCHANGED stream \/ \E event \in Events : Write(event)
            BY DEF Begin, WriteProgress, WriteError, WriteResult, Advise, Events
        <3>. QED  BY <3>1, WriteEffect, AtEffect DEF StreamInv, Ranges, Events
    <2>. QED  BY <2>1 DEF StreamInv, Ranges, Begin, WriteProgress, WriteError, WriteResult, Advise,
                  Return, browserVars
<1>3. Causes'
    BY DEF StreamInv, Ranges, Causes, WatcherHasCause, KillsHaveCause, KilledForTheGone, Serving,
       Begin, WriteProgress, WriteError, WriteResult, Advise, Return, browserVars
<1>4. Written'
    <2>1. CASE WriteError \/ WriteResult
        BY <2>1, AnswerWrittenOnce DEF WriteError, WriteResult, Return, browserVars
    <2>. QED  BY <2>1, StartedWritten, AdviseWritten
<1>. QED  BY <1>1, <1>2, <1>3, <1>4 DEF StreamInv, Causes, Written

\* The browser reads.
LEMMA ReadInv == ASSUME StreamInv, HandleEvent \/ StreamEnds PROVE StreamInv'
<1>1. Flags'
    BY Zenon DEF HandleEvent, StreamEnds, serverVars, StreamInv, Flags
<1>2. Ranges'
    BY DEF HandleEvent, StreamEnds, Lines, Settle, serverVars, StreamInv, Ranges
<1>3. Causes'
    BY DEF HandleEvent, StreamEnds, Settle, serverVars, StreamInv, Causes, WatcherHasCause,
       KillsHaveCause, KilledForTheGone, Serving
<1>4. Written'
    BY ReadWritten, StreamEndsWritten
<1>. QED  BY <1>1, <1>2, <1>3, <1>4 DEF StreamInv, Causes, Written

-----------------------------------------------------------------------------
(* The theorems.                                                           *)

LEMMA StreamInitInv == StreamInit => StreamInv
<1> SUFFICES ASSUME StreamInit PROVE StreamInv
    OBVIOUS
<1>1. Flags
    BY Zenon DEF StreamInit, Flags
<1>2. Ranges /\ WatcherHasCause /\ KillsHaveCause /\ KilledForTheGone
    BY DEF StreamInit, Ranges, Events, WatcherHasCause, KillsHaveCause, KilledForTheGone, Serving
<1>3. \A e : At(e) = {}
    BY DEF StreamInit, At
<1>4. AnsweredOnce /\ AnswerWritten /\ AdvisorTrails /\ ReadSettles /\ NoFalseFailure
    BY <1>3 DEF StreamInit, AnsweredOnce, AnswerWritten, AdvisorTrails, ReadSettles, NoFalseFailure, Answers
<1>. QED  BY <1>1, <1>2, <1>4 DEF StreamInv

LEMMA StreamNextInv == StreamInv /\ [StreamNext]_streamVars => StreamInv'
<1> SUFFICES ASSUME StreamInv, [StreamNext]_streamVars PROVE StreamInv'
    OBVIOUS
<1>1. CASE UNCHANGED streamVars
    <2>1. Flags'
        BY Zenon, <1>1 DEF streamVars, StreamInv, Flags
    <2>2. Ranges' /\ Causes'
        BY <1>1 DEF streamVars, StreamInv, Ranges, Causes, WatcherHasCause, KillsHaveCause,
           KilledForTheGone, Serving
    <2>3. Written'
        BY <1>1, SilentWritten DEF streamVars, Silent
    <2>. QED  BY <2>1, <2>2, <2>3 DEF StreamInv, Causes, Written
<1>. QED  BY <1>1, QueryStepInv, WatcherInv, StopInv, WriteInv, ReadInv DEF StreamNext, Handler

\* The inductive invariant holds in every state: what follows is read off it.
THEOREM StreamInvariant == StreamSpec => []StreamInv
BY StreamInitInv, StreamNextInv, PTL DEF StreamSpec

\* The types of the execution's variables, and that the watcher leaves its
\* select for a reason.
THEOREM StreamTyped == StreamSpec => []StreamTypeOK
<1>1. StreamInv => StreamTypeOK
    BY DEF StreamInv, Flags, Ranges, Events, WatcherHasCause, Serving, StreamTypeOK
<1>. QED  BY <1>1, StreamInvariant, PTL

\* The stream of ExecuteQuery answers once, whatever the pump writes between,
\* and the advisor follows the result.
THEOREM StreamOneAnswer == StreamSpec => []OneAnswer
<1>1. StreamInv => OneAnswer
    BY DEF StreamInv, AnsweredOnce, AnswerWritten, AdvisorTrails, OneAnswer
<1>. QED  BY <1>1, StreamInvariant, PTL

\* On a connection that holds, executeQuery rejects only for an error event.
THEOREM StreamNoFalseFailure == StreamSpec => []NoFalseFailure
BY StreamInvariant, PTL DEF StreamInv

\* The watcher and ExecuteCancel kill a served query only for a browser that
\* is gone or a user who stopped it.
THEOREM StreamKilledForTheGone == StreamSpec => []KilledForTheGone
BY StreamInvariant, PTL DEF StreamInv

USE TabsAssumption, BoundsAssumption, MaxFailuresAssumption DEF Starts

(***************************************************************************)
(* Detached jobs: an interval is of a job of the tab that holds it.        *)
(***************************************************************************)

\* TypeOK but for answers, whose bound rests on Bounded.
Types ==
    /\ open \subseteq Tabs /\ open # {}
    /\ starts \in 0 .. MaxStarts
    /\ of \in [Starts -> Tabs]
    /\ phase \in [Starts -> {"none", "posted", "polling", "refused"}]
    /\ job \in [Starts -> {"none", "running", "done", "failed"}]
    /\ timer \subseteq {d \in Starts : phase[d] = "polling" /\ job[d] # "none"}
    /\ failures \in [Starts -> 0 .. MaxFailures]
    /\ polls \in [Tabs -> 0 .. MaxStarts]
    /\ shown \in [Tabs -> 0 .. MaxStarts]
    /\ result \in [Tabs -> 0 .. MaxStarts]

\* At most MaxPolls answers of a start are under way.
Bounded ==
    /\ answers \in [Starts -> [Kinds -> Nat]]
    /\ \A d \in Starts : Awaited(d) <= MaxPolls

\* Calls that have not been made have no job and no place in the map.
Fresh ==
    /\ \A d \in Starts : d > starts => phase[d] = "none" /\ job[d] = "none"
    /\ \A t \in Tabs : polls[t] <= starts

\* An answer tells a status that the job has had: a final one stays.
AnswersAreReal ==
    \A d \in Starts :
        /\ \A a \in Kinds : answers[d][a] > 0 => job[d] # "none"
        /\ answers[d]["done"] > 0 => job[d] = "done"

\* The map holds for a tab a start of that tab.
PollsAreOwn == \A t \in Tabs : polls[t] # 0 => of[polls[t]] = t

IInv ==
    /\ mounted \in BOOLEAN
    /\ Types
    /\ Bounded
    /\ Fresh
    /\ AnswersAreReal
    /\ PollsAreOwn
    /\ ResultsAreReal

-----------------------------------------------------------------------------
(* Lemmas about the operators                                              *)

\* updateTab sets one tab or nothing.
LEMMA UpdateEffect ==
    ASSUME NEW f \in [Tabs -> 0 .. MaxStarts], NEW t \in Tabs, NEW d \in 0 .. MaxStarts
    PROVE  /\ Update(f, t, d) \in [Tabs -> 0 .. MaxStarts]
           /\ \A u \in Tabs : Update(f, t, d)[u] = f[u] \/ (u = t /\ Update(f, t, d)[u] = d)
BY DEF Update

\* stopDetachedPoll stops the interval of its own tab.
LEMMA StopPollEffect ==
    ASSUME IInv, NEW t \in Tabs, StopPoll(t)
    PROVE  /\ timer' \subseteq timer
           /\ \A d \in timer \ timer' : of[d] = t
           /\ polls' \in [Tabs -> 0 .. MaxStarts]
           /\ \A u \in Tabs : polls'[u] = 0 \/ polls'[u] = polls[u]
<1>1. timer' = timer \ {polls[t]} /\ polls' = [polls EXCEPT ![t] = 0]
    BY DEF StopPoll
<1>2. timer \subseteq Starts /\ polls \in [Tabs -> 0 .. MaxStarts]
    BY DEF IInv, Types
<1>3. \A d \in timer \ timer' : d = polls[t] /\ d # 0
    BY <1>1, <1>2
<1>4. \A d \in timer \ timer' : of[d] = t
    BY <1>3 DEF IInv, PollsAreOwn
<1>. QED  BY <1>1, <1>2, <1>4

\* A map of polls that loses entries stays a map of calls that were made.
LEMMA FewerPolls ==
    ASSUME IInv, UNCHANGED <<starts, of, phase, job>>,
           \A u \in Tabs : polls'[u] = 0 \/ polls'[u] = polls[u]
    PROVE  Fresh' /\ PollsAreOwn'
<1>1. \A u \in Tabs : polls[u] <= starts /\ (polls[u] # 0 => of[polls[u]] = u)
    BY DEF IInv, Fresh, PollsAreOwn
<1>2. 0 <= starts
    BY DEF IInv, Types
<1>3. \A u \in Tabs : polls'[u] <= starts /\ (polls'[u] # 0 => of[polls'[u]] = u)
    BY <1>1, <1>2
<1>. QED  BY <1>3 DEF IInv, Fresh, PollsAreOwn

-----------------------------------------------------------------------------
(* The steps                                                               *)

LEMMA RunDetachedInv == ASSUME IInv, NEW t \in Tabs, RunDetached(t) PROVE IInv'
<1>1. PICK s \in Starts :
        /\ s = starts + 1 /\ starts' = s
        /\ of' = [of EXCEPT ![s] = t] /\ phase' = [phase EXCEPT ![s] = "posted"]
        /\ UNCHANGED <<open, mounted, job, failures, answers, shown, result>>
    <2>1. starts + 1 \in Starts /\ starts' = starts + 1
        BY DEF RunDetached, IInv, Types
    <2>. QED  BY <2>1 DEF RunDetached
<1>2. /\ timer' \subseteq timer
      /\ polls' \in [Tabs -> 0 .. MaxStarts]
      /\ \A u \in Tabs : polls'[u] = 0 \/ polls'[u] = polls[u]
    BY StopPollEffect DEF RunDetached
<1>3. phase[s] = "none" /\ job[s] = "none"
    BY <1>1 DEF IInv, Types, Fresh
<1>4. /\ of' \in [Starts -> Tabs]
      /\ phase' \in [Starts -> {"none", "posted", "polling", "refused"}]
      /\ \A e \in Starts \ {s} : of'[e] = of[e] /\ phase'[e] = phase[e]
    BY <1>1 DEF IInv, Types
<1>5. timer' \subseteq {d \in Starts : phase'[d] = "polling" /\ job'[d] # "none"}
    BY <1>1, <1>2, <1>3, <1>4 DEF IInv, Types
<1>6. Types'
    <2>1. /\ open' \subseteq Tabs /\ open' # {} /\ starts' \in 0 .. MaxStarts
          /\ job' \in [Starts -> {"none", "running", "done", "failed"}]
          /\ failures' \in [Starts -> 0 .. MaxFailures]
          /\ shown' \in [Tabs -> 0 .. MaxStarts]
          /\ result' \in [Tabs -> 0 .. MaxStarts]
        <3>1. s \in 0 .. MaxStarts
            OBVIOUS
        <3>. QED  BY <1>1, <3>1 DEF IInv, Types
    <2>. QED  BY <1>2, <1>4, <1>5, <2>1 DEF Types
<1>7. ASSUME NEW e \in Starts, e > starts' PROVE phase'[e] = "none" /\ job'[e] = "none"
    <2>1. starts \in Nat /\ e > starts /\ e # s
        BY <1>1, <1>7 DEF IInv, Types
    <2>. QED  BY <1>1, <1>4, <2>1 DEF IInv, Fresh
<1>8. ASSUME NEW u \in Tabs
      PROVE  polls'[u] <= starts /\ polls'[u] # s /\ (polls'[u] # 0 => of[polls'[u]] = u)
    <2>1. starts \in Nat /\ polls[u] \in Nat /\ polls[u] <= starts
        BY DEF IInv, Types, Fresh
    <2>2. polls'[u] <= starts
        BY <1>2, <2>1
    <2>3. polls'[u] \in Nat
        BY <1>2, <2>1
    <2>4. polls'[u] # s
        BY <1>1, <2>1, <2>2, <2>3
    <2>. QED  BY <1>2, <2>2, <2>4 DEF IInv, PollsAreOwn
<1>9. Fresh'
    <2>1. \A u \in Tabs : polls'[u] <= starts'
        BY <1>1, <1>2, <1>8 DEF IInv, Types
    <2>. QED  BY <1>7, <2>1 DEF Fresh
<1>10. PollsAreOwn'
    BY <1>2, <1>4, <1>8 DEF PollsAreOwn
<1>11. Bounded' /\ AnswersAreReal'
    BY <1>1 DEF IInv, Bounded, Awaited, AnswersAreReal
<1>12. ResultsAreReal'
    <2>1. ASSUME NEW u \in Tabs, result[u] # 0 PROVE result[u] \in Starts \ {s}
        <3>1. result[u] \in Starts
            BY <2>1 DEF IInv, Types
        <3>2. job[result[u]] = "done"
            BY <2>1 DEF IInv, ResultsAreReal
        <3>. QED  BY <1>3, <3>1, <3>2
    <2>. QED  BY <1>1, <1>4, <2>1 DEF IInv, ResultsAreReal
<1>. QED  BY <1>1, <1>6, <1>9, <1>10, <1>11, <1>12 DEF IInv

\* The steps of the server, of the tabs and of the answer to a start.
LEMMA ServerInv ==
    ASSUME IInv, NEW d \in Starts, ServerStarts(d) \/ ServerEnds(d, "done") \/ ServerEnds(d, "failed")
    PROVE  IInv'
<1>1. /\ UNCHANGED <<open, mounted, starts, of, phase, timer, failures, answers, polls, shown, result>>
      /\ \/ phase[d] = "posted" /\ job[d] = "none" /\ job' = [job EXCEPT ![d] = "running"]
         \/ \E s \in {"done", "failed"} : job[d] = "running" /\ job' = [job EXCEPT ![d] = s]
    BY DEF ServerStarts, ServerEnds
<1>2. /\ job' \in [Starts -> {"none", "running", "done", "failed"}]
      /\ \A e \in Starts : /\ e > starts => job'[e] = "none"
                           /\ job[e] # "none" => job'[e] # "none"
                           /\ job[e] = "done" => job'[e] = "done"
    BY <1>1 DEF IInv, Types, Fresh
<1>3. Bounded'
    BY <1>1 DEF IInv, Bounded, Awaited
<1>4. Types'
    BY <1>1, <1>2 DEF IInv, Types
<1>5. Fresh' /\ PollsAreOwn'
    BY <1>1, <1>2 DEF IInv, Fresh, PollsAreOwn
<1>6. AnswersAreReal'
    BY <1>1, <1>2 DEF IInv, Types, AnswersAreReal
<1>7. ResultsAreReal'
    <2>1. ASSUME NEW t \in Tabs, result[t] # 0 PROVE result[t] \in Starts
        BY <2>1 DEF IInv, Types
    <2>. QED  BY <1>1, <1>2, <2>1 DEF IInv, ResultsAreReal
<1>. QED  BY <1>1, <1>3, <1>4, <1>5, <1>6, <1>7 DEF IInv

LEMMA StartedInv == ASSUME IInv, NEW d \in Starts, Started(d) \/ StartFails(d) PROVE IInv'
<1>1. /\ UNCHANGED <<open, mounted, starts, of, job, failures, answers>>
      /\ phase[d] = "posted" /\ d <= starts /\ of[d] \in Tabs
    BY DEF Started, StartFails, IInv, Types, Fresh
<1>2. Bounded'
    BY <1>1 DEF IInv, Bounded, Awaited
<1>3. CASE Started(d)
    <2>1. /\ phase' = [phase EXCEPT ![d] = "polling"] /\ job[d] # "none"
          /\ timer' = timer \union {d} /\ polls' = [polls EXCEPT ![of[d]] = d]
          /\ shown' = Update(shown, of[d], d) /\ UNCHANGED result
        BY <1>3 DEF Started
    <2>2. shown' \in [Tabs -> 0 .. MaxStarts]
        <3>1. shown \in [Tabs -> 0 .. MaxStarts] /\ d \in 0 .. MaxStarts
            BY DEF IInv, Types
        <3>. QED  BY <1>1, <2>1, <3>1, UpdateEffect
    <2>3. Types'
        <3>1. /\ phase' \in [Starts -> {"none", "posted", "polling", "refused"}]
              /\ polls' \in [Tabs -> 0 .. MaxStarts]
            BY <2>1 DEF IInv, Types
        <3>2. timer' \subseteq {e \in Starts : phase'[e] = "polling" /\ job'[e] # "none"}
            BY <1>1, <2>1 DEF IInv, Types
        <3>. QED  BY <1>1, <2>1, <2>2, <3>1, <3>2 DEF IInv, Types
    <2>4. Fresh' /\ PollsAreOwn'
        BY <1>1, <2>1 DEF IInv, Types, Fresh, PollsAreOwn
    <2>5. AnswersAreReal' /\ ResultsAreReal'
        BY <1>1, <2>1 DEF IInv, AnswersAreReal, ResultsAreReal
    <2>. QED  BY <1>1, <1>2, <2>3, <2>4, <2>5 DEF IInv
<1>4. CASE StartFails(d)
    <2>1. /\ phase' = [phase EXCEPT ![d] = "refused"]
          /\ result' = Update(result, of[d], 0) /\ UNCHANGED <<timer, polls, shown>>
        BY <1>4 DEF StartFails
    <2>2. /\ result' \in [Tabs -> 0 .. MaxStarts]
          /\ \A t \in Tabs : result'[t] \in {0, result[t]}
        <3>1. result \in [Tabs -> 0 .. MaxStarts] /\ 0 \in 0 .. MaxStarts
            BY DEF IInv, Types
        <3>. QED  BY <1>1, <2>1, <3>1, UpdateEffect
    <2>3. Types'
        BY <1>1, <2>1, <2>2 DEF IInv, Types
    <2>4. Fresh' /\ PollsAreOwn'
        BY <1>1, <2>1 DEF IInv, Types, Fresh, PollsAreOwn
    <2>5. AnswersAreReal' /\ ResultsAreReal'
        BY <1>1, <2>2 DEF IInv, AnswersAreReal, ResultsAreReal
    <2>. QED  BY <1>1, <1>2, <2>3, <2>4, <2>5 DEF IInv
<1>. QED  BY <1>3, <1>4

\* Leaving a tab or the editor.
LEMMA LeaveInv == ASSUME IInv, Unmount \/ \E t \in Tabs : CloseTab(t) PROVE IInv'
<1>1. /\ UNCHANGED <<starts, of, phase, job, failures, answers, shown, result>>
      /\ open' \subseteq Tabs /\ open' # {}
    BY DEF Unmount, CloseTab, IInv, Types
<1>2. mounted' \in BOOLEAN
    BY Zenon DEF Unmount, CloseTab, IInv
<1>3. /\ timer' \subseteq timer
      /\ polls' \in [Tabs -> 0 .. MaxStarts]
      /\ \A u \in Tabs : polls'[u] = 0 \/ polls'[u] = polls[u]
    <2>1. CASE Unmount
        BY <2>1 DEF Unmount
    <2>2. CASE \E t \in Tabs : CloseTab(t)
        BY <2>2, StopPollEffect DEF CloseTab
    <2>. QED  BY <2>1, <2>2
<1>4. Types'
    BY <1>1, <1>3 DEF IInv, Types
<1>5. Fresh' /\ PollsAreOwn'
    BY <1>1, <1>3, FewerPolls
<1>6. Bounded' /\ AnswersAreReal' /\ ResultsAreReal'
    BY <1>1 DEF IInv, Bounded, Awaited, AnswersAreReal, ResultsAreReal
<1>. QED  BY <1>2, <1>4, <1>5, <1>6 DEF IInv

\* One answer more and one less: how many a start has of each kind.
LEMMA AnswersEffect ==
    ASSUME IInv, NEW d \in Starts, UNCHANGED job, job[d] # "none",
           NEW g \in [Kinds -> Nat], answers' = [answers EXCEPT ![d] = g],
           g["sent"] + g["running"] + g["done"] + g["failed"] + g["error"] <= MaxPolls,
           g["done"] > 0 => job[d] = "done"
    PROVE  Bounded' /\ AnswersAreReal'
<1>1. answers' \in [Starts -> [Kinds -> Nat]]
    BY DEF IInv, Bounded
<1>2. answers'[d] = g /\ \A e \in Starts \ {d} : answers'[e] = answers[e]
    BY DEF IInv, Bounded
<1>3. Bounded'
    BY <1>1, <1>2 DEF IInv, Bounded, Awaited
<1>4. AnswersAreReal'
    BY <1>2 DEF IInv, AnswersAreReal
<1>. QED  BY <1>3, <1>4

\* The interval calls the server, and the server answers.
LEMMA CallInv == ASSUME IInv, NEW d \in Starts, Tick(d) \/ Respond(d) PROVE IInv'
<1>1. UNCHANGED <<open, mounted, starts, of, phase, job, timer, failures, polls, shown, result>>
    BY DEF Tick, Respond
<1>2. answers[d] \in [Kinds -> Nat] /\ Awaited(d) <= MaxPolls
    BY DEF IInv, Bounded
<1>3. Bounded' /\ AnswersAreReal'
    <2>1. CASE Tick(d)
        <3> DEFINE g == [answers[d] EXCEPT !["sent"] = @ + 1]
        <3>1. answers' = [answers EXCEPT ![d] = g] /\ Awaited(d) < MaxPolls
            BY <2>1 DEF Tick, IInv, Bounded
        <3>2. job[d] # "none"
            BY <2>1 DEF Tick, IInv, Types
        <3>3. /\ g \in [Kinds -> Nat]
              /\ g["sent"] + g["running"] + g["done"] + g["failed"] + g["error"] <= MaxPolls
              /\ g["done"] = answers[d]["done"]
            BY <1>2, <3>1 DEF Kinds, Awaited
        <3>4. g["done"] > 0 => job[d] = "done"
            BY <3>3 DEF IInv, AnswersAreReal
        <3> HIDE DEF g
        <3>. QED  BY <1>1, <3>1, <3>2, <3>3, <3>4, AnswersEffect
    <2>2. CASE Respond(d)
        <3>1. PICK a \in {job[d], "error"} :
                /\ answers[d]["sent"] > 0
                /\ answers' = [answers EXCEPT ![d]["sent"] = @ - 1, ![d][a] = @ + 1]
            BY <2>2 DEF Respond
        <3>2. job[d] \in {"running", "done", "failed"}
            BY <3>1 DEF IInv, AnswersAreReal, Types, Kinds
        <3>3. a \in {"running", "done", "failed", "error"} /\ (a = "done" => job[d] = "done")
            BY <3>2
        <3> DEFINE g == [answers[d] EXCEPT !["sent"] = @ - 1, ![a] = @ + 1]
        <3>4. answers' = [answers EXCEPT ![d] = g]
            BY <3>1 DEF IInv, Bounded
        <3>5. /\ g \in [Kinds -> Nat]
              /\ g["sent"] + g["running"] + g["done"] + g["failed"] + g["error"] <= MaxPolls
              /\ a # "done" => g["done"] = answers[d]["done"]
            BY <1>2, <3>1, <3>3 DEF Kinds, Awaited
        <3>6. g["done"] > 0 => job[d] = "done"
            BY <3>3, <3>5 DEF IInv, AnswersAreReal
        <3> HIDE DEF g
        <3>. QED  BY <1>1, <3>2, <3>4, <3>5, <3>6, AnswersEffect
    <2>. QED  BY <2>1, <2>2
<1>4. Types' /\ Fresh' /\ PollsAreOwn' /\ ResultsAreReal'
    BY <1>1 DEF IInv, Types, Fresh, PollsAreOwn, ResultsAreReal
<1>. QED  BY <1>1, <1>3, <1>4 DEF IInv

\* A callback takes an answer.
LEMMA TakeEffect ==
    ASSUME IInv, NEW d \in Starts, NEW a \in Kinds, Take(d, a), UNCHANGED job
    PROVE  /\ Bounded' /\ AnswersAreReal'
           /\ a = "done" => job[d] = "done"
<1> DEFINE g == [answers[d] EXCEPT ![a] = @ - 1]
<1>1. answers[d] \in [Kinds -> Nat] /\ Awaited(d) <= MaxPolls
    BY DEF IInv, Bounded
<1>2. answers[d][a] > 0 /\ answers' = [answers EXCEPT ![d] = g]
    BY DEF Take, IInv, Bounded
<1>3. /\ g \in [Kinds -> Nat]
      /\ g["sent"] + g["running"] + g["done"] + g["failed"] + g["error"] <= MaxPolls
      /\ g["done"] <= answers[d]["done"]
    BY <1>1, <1>2 DEF Kinds, Awaited
<1>4. job[d] # "none" /\ (answers[d]["done"] > 0 => job[d] = "done")
    BY <1>2 DEF IInv, AnswersAreReal
<1>5. g["done"] > 0 => job[d] = "done"
    BY <1>1, <1>3, <1>4 DEF Kinds
<1>6. a = "done" => job[d] = "done"
    BY <1>2, <1>4
<1> HIDE DEF g
<1>. QED  BY <1>2, <1>3, <1>4, <1>5, <1>6, AnswersEffect

\* What a callback may do: stop the interval of its own tab, and write there
\* the result of its job when that is done.
Callback(d) ==
    /\ UNCHANGED <<open, mounted, starts, of, phase, job>>
    /\ timer' \subseteq timer
    /\ \A e \in timer \ timer' : of[e] = of[d]
    /\ failures' \in [Starts -> 0 .. MaxFailures]
    /\ polls' \in [Tabs -> 0 .. MaxStarts]
    /\ \A u \in Tabs : polls'[u] = 0 \/ polls'[u] = polls[u]
    /\ shown' \in [Tabs -> 0 .. MaxStarts]
    /\ result' \in [Tabs -> 0 .. MaxStarts]
    /\ \A u \in Tabs : \/ result'[u] \in {0, result[u]}
                       \/ u = of[d] /\ result'[u] = d /\ job[d] = "done"
    /\ answers'[d] # answers[d]
    /\ Bounded' /\ AnswersAreReal'

LEMMA CallbackEffect == ASSUME IInv, NEW d \in Starts, Receive(d) PROVE Callback(d)
<1>1. /\ of[d] \in Tabs /\ d \in 0 .. MaxStarts /\ 0 \in 0 .. MaxStarts
      /\ shown \in [Tabs -> 0 .. MaxStarts] /\ result \in [Tabs -> 0 .. MaxStarts]
      /\ polls \in [Tabs -> 0 .. MaxStarts] /\ failures \in [Starts -> 0 .. MaxFailures]
    BY DEF IInv, Types
<1>2. \A a \in Kinds : Take(d, a) => answers'[d] # answers[d]
    BY DEF Take, IInv, Bounded
<1>3. CASE ReceiveRunning(d)
    <2>1. /\ Take(d, "running") /\ failures' = [failures EXCEPT ![d] = 0]
          /\ shown' = Update(shown, of[d], d)
          /\ UNCHANGED <<open, mounted, starts, of, phase, job, timer, polls, result>>
        BY <1>3 DEF ReceiveRunning
    <2>2. Bounded' /\ AnswersAreReal' /\ answers'[d] # answers[d]
        BY <1>2, <2>1, TakeEffect DEF Kinds
    <2>3. shown' \in [Tabs -> 0 .. MaxStarts]
        BY <1>1, <2>1, UpdateEffect
    <2>. QED  BY <1>1, <2>1, <2>2, <2>3 DEF Callback
<1>4. ASSUME NEW status \in {"done", "failed"}, ReceiveEnd(d, status) PROVE Callback(d)
    <2> DEFINE r == IF status = "done" THEN d ELSE 0
    <2>1. /\ Take(d, status) /\ failures' = [failures EXCEPT ![d] = 0] /\ StopPoll(of[d])
          /\ result' = Update(result, of[d], r)
          /\ shown' = Update(shown, of[d], 0)
          /\ UNCHANGED <<open, mounted, starts, of, phase, job>>
        BY <1>4 DEF ReceiveEnd
    <2>2. /\ Bounded' /\ AnswersAreReal' /\ answers'[d] # answers[d]
          /\ status = "done" => job[d] = "done"
        BY <1>2, <2>1, TakeEffect DEF Kinds
    <2>3. shown' \in [Tabs -> 0 .. MaxStarts]
        BY <1>1, <2>1, UpdateEffect
    <2>4. r \in 0 .. MaxStarts
        BY <1>1
    <2>5. /\ result' \in [Tabs -> 0 .. MaxStarts]
          /\ \A u \in Tabs : result'[u] = result[u] \/ (u = of[d] /\ result'[u] = r)
        <3> HIDE DEF r
        <3>1. /\ Update(result, of[d], r) \in [Tabs -> 0 .. MaxStarts]
              /\ \A u \in Tabs : \/ Update(result, of[d], r)[u] = result[u]
                                 \/ u = of[d] /\ Update(result, of[d], r)[u] = r
            BY <1>1, <2>4, UpdateEffect
        <3>. QED  BY <2>1, <3>1
    <2>6. \A u \in Tabs : \/ result'[u] \in {0, result[u]}
                          \/ u = of[d] /\ result'[u] = d /\ job[d] = "done"
        BY <2>2, <2>5
    <2>7. /\ timer' \subseteq timer /\ \A e \in timer \ timer' : of[e] = of[d]
          /\ polls' \in [Tabs -> 0 .. MaxStarts]
          /\ \A u \in Tabs : polls'[u] = 0 \/ polls'[u] = polls[u]
        BY <1>1, <2>1, StopPollEffect
    <2>8. failures' \in [Starts -> 0 .. MaxFailures]
        BY <1>1, <2>1
    <2> HIDE DEF r
    <2>. QED  BY <2>1, <2>2, <2>3, <2>5, <2>6, <2>7, <2>8 DEF Callback
<1>5. CASE PollFails(d)
    <2>1. /\ Take(d, "error")
          /\ failures' = [failures EXCEPT ![d] = IF @ < MaxFailures THEN @ + 1 ELSE @]
          /\ \/ StopPoll(of[d]) /\ shown' = Update(shown, of[d], 0)
             \/ UNCHANGED <<timer, polls, shown>>
          /\ UNCHANGED <<open, mounted, starts, of, phase, job, result>>
        BY <1>5 DEF PollFails
    <2>2. Bounded' /\ AnswersAreReal' /\ answers'[d] # answers[d]
        BY <1>2, <2>1, TakeEffect DEF Kinds
    <2>3. shown' \in [Tabs -> 0 .. MaxStarts]
        <3>1. Update(shown, of[d], 0) \in [Tabs -> 0 .. MaxStarts]
            BY <1>1, UpdateEffect
        <3>. QED  BY <1>1, <2>1, <3>1
    <2>4. /\ timer' \subseteq timer /\ \A e \in timer \ timer' : of[e] = of[d]
          /\ polls' \in [Tabs -> 0 .. MaxStarts]
          /\ \A u \in Tabs : polls'[u] = 0 \/ polls'[u] = polls[u]
        <3>1. CASE StopPoll(of[d])
            BY <1>1, <3>1, StopPollEffect
        <3>2. CASE UNCHANGED <<timer, polls, shown>>
            BY <1>1, <3>2
        <3>. QED  BY <2>1, <3>1, <3>2
    <2>5. failures' \in [Starts -> 0 .. MaxFailures]
        BY <1>1, <2>1
    <2>. QED  BY <1>1, <2>1, <2>2, <2>3, <2>4, <2>5 DEF Callback
<1>. QED  BY <1>3, <1>4, <1>5 DEF Receive

LEMMA ReceiveInv == ASSUME IInv, NEW d \in Starts, Receive(d) PROVE IInv'
<1>1. Callback(d)
    BY CallbackEffect
<1>2. Types'
    BY <1>1 DEF Callback, IInv, Types
<1>3. Fresh' /\ PollsAreOwn'
    BY <1>1, FewerPolls DEF Callback
<1>4. ResultsAreReal'
    BY <1>1 DEF Callback, IInv, Types, ResultsAreReal
<1>5. mounted' \in BOOLEAN /\ Bounded' /\ AnswersAreReal'
    BY <1>1 DEF Callback, IInv
<1>. QED  BY <1>2, <1>3, <1>4, <1>5 DEF IInv

-----------------------------------------------------------------------------
(* The invariant                                                           *)

LEMMA InitInv == Init => IInv
<1> SUFFICES ASSUME Init PROVE IInv
    OBVIOUS
<1>1. mounted \in BOOLEAN
    BY Zenon DEF Init
<1>2. Types
    <2>1. open \subseteq Tabs /\ open # {} /\ starts \in 0 .. MaxStarts
        BY DEF Init
    <2>2. of \in [Starts -> Tabs]
        <3>1. (CHOOSE t \in Tabs : TRUE) \in Tabs
            OBVIOUS
        <3>. QED  BY <3>1 DEF Init
    <2>3. /\ phase \in [Starts -> {"none", "posted", "polling", "refused"}]
          /\ job \in [Starts -> {"none", "running", "done", "failed"}]
          /\ timer = {}
        BY DEF Init
    <2>4. /\ failures \in [Starts -> 0 .. MaxFailures]
          /\ polls \in [Tabs -> 0 .. MaxStarts]
          /\ shown \in [Tabs -> 0 .. MaxStarts]
          /\ result \in [Tabs -> 0 .. MaxStarts]
        BY DEF Init
    <2>. QED  BY <2>1, <2>2, <2>3, <2>4 DEF Types
<1>3. Bounded
    BY DEF Init, Bounded, Awaited, Kinds
<1>4. Fresh /\ AnswersAreReal /\ PollsAreOwn /\ ResultsAreReal
    BY DEF Init, Fresh, AnswersAreReal, PollsAreOwn, ResultsAreReal, Kinds
<1>. QED  BY <1>1, <1>2, <1>3, <1>4 DEF IInv

LEMMA NextInv == IInv /\ [Next]_vars => IInv'
<1> SUFFICES ASSUME IInv, [Next]_vars PROVE IInv'
    OBVIOUS
<1>1. ASSUME NEW t \in Tabs, RunDetached(t) PROVE IInv'
    BY <1>1, RunDetachedInv
<1>2. ASSUME NEW t \in Tabs, Cancel(t) PROVE IInv'
    <2>1. shown[t] \in Starts /\ ServerEnds(shown[t], "failed")
        BY <1>2 DEF Cancel, IInv, Types
    <2>. QED  BY <2>1, ServerInv
<1>3. ASSUME Unmount \/ \E t \in Tabs : CloseTab(t) PROVE IInv'
    BY <1>3, LeaveInv
<1>4. ASSUME NEW d \in Starts,
             ServerStarts(d) \/ ServerEnds(d, "done") \/ ServerEnds(d, "failed")
      PROVE  IInv'
    BY <1>4, ServerInv
<1>5. ASSUME NEW d \in Starts, Started(d) \/ StartFails(d) PROVE IInv'
    BY <1>5, StartedInv
<1>6. ASSUME NEW d \in Starts, Tick(d) \/ Respond(d) PROVE IInv'
    BY <1>6, CallInv
<1>7. ASSUME NEW d \in Starts, Receive(d) PROVE IInv'
    BY <1>7, ReceiveInv
<1>8. CASE UNCHANGED vars
    BY <1>8 DEF vars, IInv, Types, Bounded, Awaited, Fresh, AnswersAreReal, PollsAreOwn, ResultsAreReal
<1>. QED  BY <1>1, <1>2, <1>3, <1>4, <1>5, <1>6, <1>7, <1>8, Zenon DEF Next

\* IInv holds of every state that the editor and its jobs reach.
THEOREM PollsInvariant == Spec => []IInv
<1>. QED  BY InitInv, NextInv, PTL DEF Spec

\* Every variable of DetachedPolls has its type: an interval belongs to a job
\* that was started, and no more than MaxPolls calls of it are under way.
THEOREM PollsTypeOK == Spec => []TypeOK
<1>1. IInv => TypeOK
    <2> SUFFICES ASSUME IInv PROVE TypeOK
        OBVIOUS
    <2>1. ASSUME NEW d \in Starts PROVE answers[d] \in [Kinds -> 0 .. MaxPolls]
        <3>1. answers[d] \in [Kinds -> Nat] /\ Awaited(d) <= MaxPolls
            BY DEF IInv, Bounded
        <3>2. \A a \in Kinds : answers[d][a] \in 0 .. MaxPolls
            BY <3>1 DEF Awaited, Kinds
        <3>. QED  BY <3>1, <3>2
    <2>2. answers \in [Starts -> [Kinds -> 0 .. MaxPolls]]
        BY <2>1 DEF IInv, Bounded
    <2>3. mounted \in BOOLEAN
        BY DEF IInv
    <2>. QED  BY <2>2, <2>3 DEF IInv, Types, TypeOK
<1>. QED  BY <1>1, PollsInvariant, PTL

\* A tab shows a result only of a job that it started itself and that is done,
\* whatever order the answers of its intervals come in.
THEOREM PollsResultsAreReal == Spec => []ResultsAreReal
<1>1. IInv => ResultsAreReal
    BY DEF IInv
<1>. QED  BY <1>1, PollsInvariant, PTL

\* No start, answer or failure of one tab stops the interval of another one.
THEOREM PollsOtherTabsUndisturbed == Spec => OtherTabsUndisturbed
<1>1. IInv /\ IInv' /\ [Next]_vars => [\A t \in Tabs : Undisturbed(t)]_vars
    <2> SUFFICES ASSUME IInv, IInv', Next, NEW t \in Tabs PROVE Undisturbed(t)
        OBVIOUS
    <2>1. ASSUME timer' = timer PROVE Undisturbed(t)
        BY <2>1 DEF Undisturbed
    <2>2. ASSUME NEW u \in Tabs, RunDetached(u) PROVE Undisturbed(t)
        <3>1. /\ starts' \in 1 .. starts' /\ of' = [of EXCEPT ![starts'] = u]
              /\ phase' = [phase EXCEPT ![starts'] = "posted"]
              /\ StopPoll(u) /\ starts' \in Starts /\ starts' = starts + 1
            BY <2>2 DEF RunDetached, IInv, Types
        <3>2. phase'[starts'] # phase[starts'] /\ of'[starts'] = u
            BY <3>1 DEF IInv, Types, Fresh
        <3>3. timer' \subseteq timer /\ \A d \in timer \ timer' : of[d] = u
            BY <3>1, StopPollEffect
        <3>4. \A d \in timer : of'[d] = of[d]
            BY <3>1 DEF IInv, Types, Fresh
        <3>5. CASE t = u
            BY <3>1, <3>2, <3>5 DEF Undisturbed
        <3>6. CASE t # u
            BY <3>3, <3>4, <3>6 DEF Undisturbed
        <3>. QED  BY <3>5, <3>6
    <2>3. ASSUME NEW d \in Starts, Started(d) PROVE Undisturbed(t)
        <3>1. /\ phase' = [phase EXCEPT ![d] = "polling"] /\ phase[d] = "posted"
              /\ timer' = timer \union {d} /\ UNCHANGED <<starts, of>>
            BY <2>3 DEF Started
        <3>2. d \in 1 .. starts /\ phase'[d] # phase[d]
            BY <3>1 DEF IInv, Types, Fresh
        <3>. QED  BY <3>1, <3>2 DEF Undisturbed
    <2>4. ASSUME NEW d \in Starts, Receive(d) PROVE Undisturbed(t)
        <3>1. Callback(d)
            BY <2>4, CallbackEffect
        <3>2. \E a \in Kinds : answers[d][a] > 0
            BY <2>4 DEF Receive, ReceiveRunning, ReceiveEnd, PollFails, Take, Kinds
        <3>3. starts \in Nat /\ d \in 1 .. starts
            <4>1. job[d] # "none"
                BY <3>2 DEF IInv, AnswersAreReal
            <4>. QED  BY <4>1 DEF IInv, Types, Fresh
        <3>4. /\ UNCHANGED <<starts, of>> /\ timer' \subseteq timer
              /\ \A e \in timer \ timer' : of[e] = of[d]
              /\ answers'[d] # answers[d]
            BY <3>1 DEF Callback
        <3>5. CASE of[d] = t
            BY <3>3, <3>4, <3>5 DEF Undisturbed
        <3>6. CASE of[d] # t
            BY <3>4, <3>6 DEF Undisturbed
        <3>. QED  BY <3>5, <3>6
    <2>5. ASSUME NEW u \in Tabs, CloseTab(u) PROVE Undisturbed(t)
        <3>1. StopPoll(u) /\ UNCHANGED <<starts, of>> /\ u \in open \ open'
            BY <2>5 DEF CloseTab
        <3>2. timer' \subseteq timer /\ \A d \in timer \ timer' : of[d] = u
            BY <3>1, StopPollEffect
        <3>3. CASE t = u
            BY <3>1, <3>3 DEF Undisturbed
        <3>4. CASE t # u
            BY <3>1, <3>2, <3>4 DEF Undisturbed
        <3>. QED  BY <3>3, <3>4
    <2>7. ASSUME Unmount PROVE Undisturbed(t)
        BY <2>7 DEF Unmount, Undisturbed
    <2>6. ASSUME \/ \E d \in Starts : \/ ServerStarts(d) \/ StartFails(d) \/ Tick(d) \/ Respond(d)
                                      \/ ServerEnds(d, "done") \/ ServerEnds(d, "failed")
                 \/ \E u \in Tabs : Cancel(u)
          PROVE  timer' = timer
        BY <2>6 DEF ServerStarts, StartFails, Tick, Respond, ServerEnds, Cancel
    <2>. QED  BY <2>1, <2>2, <2>3, <2>4, <2>5, <2>6, <2>7, Zenon DEF Next
<1>. QED  BY <1>1, PollsInvariant, PTL DEF Spec, OtherTabsUndisturbed
=============================================================================
