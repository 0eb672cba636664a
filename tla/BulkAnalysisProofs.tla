------------------------- MODULE BulkAnalysisProofs -------------------------
(***************************************************************************)
(* For any databases, tables and analyses: nothing of an analysis that was *)
(* stopped or over trails into the list of a later one, the figures of     *)
(* "Analysis complete" are those of the results listed and lost, and at    *)
(* most one table is begun after a stop.                                   *)
(***************************************************************************)
EXTENDS BulkAnalysis, FiniteSetTheorems, TLAPS

D == ToSet(Databases)

Results == [type : {"result"}, run : Runs, ok : BOOLEAN]
Dones == [type : {"done"}, analyzed : Nat, errors : Nat]
Events == Results \union Dones
Counts == [analyzed : Nat, errors : Nat]

ServerTypes ==
    /\ phase \in [Runs -> Phases]
    /\ scope \in [Runs -> {"none", "database", "all"}]
    /\ todo \in [Runs -> Seq(D)]
    /\ at \in [Runs -> Nat]
    /\ counts \in [Runs -> Counts]
    /\ wire \in [Runs -> Seq(Events)]
    /\ \A r \in Runs : r > runs => phase[r] = "none" /\ wire[r] = <<>>
    /\ \A r \in Runs : phase[r] \notin {"none", "over"} => todo[r] # <<>>
    /\ gone \subseteq 1 .. runs
    /\ \A r \in gone : wire[r] = <<>>

PageTypes ==
    /\ runs \in 0 .. MaxRuns
    /\ abortRef \in {0, runs}
    /\ loading \in BOOLEAN
    /\ loading => abortRef = runs /\ runs # 0
    /\ bulkResults \in Seq(Results)

\* The stream of one database has its "done" at the end.
Single(r) ==
    scope[r] = "database" =>
        /\ phase[r] # "over" => Len(todo[r]) <= 1
        /\ \A i \in 1 .. Len(wire[r]) :
              wire[r][i].type = "done" => i = Len(wire[r]) /\ phase[r] = "over"

WiresOwn ==
    \A r \in Runs : \A i \in 1 .. Len(wire[r]) :
        wire[r][i].type = "result" => wire[r][i].run = r

\* What an earlier analysis has still to say, the newest was begun beside.
Ended ==
    /\ \A r \in 1 .. runs : r # runs => r \in beside \/ Silent(r)
    /\ stopped => Silent(runs)

ListOwn == \A i \in 1 .. Len(bulkResults) : bulkResults[i].run \in {runs} \union beside

IInv ==
    ServerTypes /\ PageTypes /\ (\A r \in Runs : Single(r)) /\ WiresOwn /\ Ended /\ ListOwn

-----------------------------------------------------------------------------
(* The server's steps                                                      *)

LEMMA Numbers == MaxRuns \in Nat
BY BoundsAssumption

LEMMA Joined ==
    ASSUME NEW S, NEW s \in Seq(S), NEW t \in Seq(S)
    PROVE  /\ Len(s \o t) = Len(s) + Len(t) /\ Len(s) \in Nat /\ Len(t) \in Nat
           /\ \A i \in 1 .. Len(s \o t) :
                 \/ i \in 1 .. Len(s) /\ (s \o t)[i] = s[i]
                 \/ i - Len(s) \in 1 .. Len(t) /\ (s \o t)[i] = t[i - Len(s)]
OBVIOUS

\* A "done" that is the last of what is added is the last of all.
LEMMA LastDone ==
    ASSUME NEW s \in Seq(Events), NEW t \in Seq(Events),
           \A i \in 1 .. Len(s) : s[i].type # "done",
           \A i \in 1 .. Len(t) : t[i].type = "done" => i = Len(t)
    PROVE  \A i \in 1 .. Len(s \o t) :
              (s \o t)[i].type = "done" =>
                  i = Len(s \o t) /\ \E j \in 1 .. Len(t) : t[j].type = "done"
<1> TAKE i \in 1 .. Len(s \o t)
<1>1. Len(s \o t) = Len(s) + Len(t) /\ Len(s) \in Nat /\ Len(t) \in Nat
    BY Joined
<1>2. CASE i \in 1 .. Len(s) /\ (s \o t)[i] = s[i]
    BY <1>2
<1>3. CASE i - Len(s) \in 1 .. Len(t) /\ (s \o t)[i] = t[i - Len(s)]
    <2>1. ASSUME (s \o t)[i].type = "done" PROVE i - Len(s) = Len(t)
        BY <1>3, <2>1
    <2>2. i \in Nat
        BY <1>1
    <2>3. i - Len(s) = Len(t) => i = Len(s \o t)
        BY <1>1, <2>2
    <2>. QED  BY <1>3, <2>1, <2>3
<1>. QED  BY <1>2, <1>3, Joined

LEMMA Shorter ==
    ASSUME NEW S, NEW s \in Seq(S), s # <<>>
    PROVE  Len(s) \in Nat \ {0} /\ Tail(s) \in Seq(S) /\ Len(Tail(s)) = Len(s) - 1
OBVIOUS

LEMMA Nothing ==
    ASSUME NEW ev, ev = <<>>
    PROVE  ev \in Seq(Events) /\ Len(ev) = 0 /\ \A i \in 1 .. Len(ev) : FALSE
OBVIOUS

\* What a step of the handler of r shows.
LEMMA ServerStep ==
    ASSUME IInv, NEW r \in 1 .. runs, phase[r] \notin {"none", "over"},
           UNCHANGED <<runs, scope, gone, page>>,
           NEW ev \in Seq(Events), Emit(r, ev),
           \A i \in 1 .. Len(ev) : ev[i].type = "result" => ev[i].run = r,
           NEW p \in Phases \ {"none"}, phase' = [phase EXCEPT ![r] = p],
           todo' \in [Runs -> Seq(D)], \A q \in Runs \ {r} : todo'[q] = todo[q],
           p # "over" => todo'[r] # <<>>,
           at' \in [Runs -> Nat], counts' \in [Runs -> Counts],
           scope[r] = "database" =>
               /\ Len(todo'[r]) <= 1
               /\ \A i \in 1 .. Len(ev) : ev[i].type = "done" => i = Len(ev) /\ p = "over"
    PROVE  IInv'
<1>1. r \in Runs
    BY Numbers DEF IInv, PageTypes, Runs
<1>2. wire[r] \in Seq(Events) /\ wire \in [Runs -> Seq(Events)]
    BY <1>1 DEF IInv, ServerTypes
<1>3. wire' \in [Runs -> Seq(Events)] /\ \A q \in Runs \ {r} : wire'[q] = wire[q]
    BY <1>1, <1>2 DEF Emit
<1>4. wire'[r] = IF r \in gone THEN wire[r] ELSE wire[r] \o ev
    BY <1>1, <1>2 DEF Emit
<1>5. phase' \in [Runs -> Phases] /\ phase'[r] = p /\ \A q \in Runs \ {r} : phase'[q] = phase[q]
    BY <1>1 DEF IInv, ServerTypes
<1>6. ServerTypes'
    <2>1. \A q \in Runs : q > runs' => phase'[q] = "none" /\ wire'[q] = <<>>
        BY <1>3, <1>5, Numbers DEF IInv, ServerTypes, PageTypes, Runs
    <2>2. \A q \in Runs : phase'[q] \notin {"none", "over"} => todo'[q] # <<>>
        BY <1>5 DEF IInv, ServerTypes
    <2>3. \A q \in gone' : wire'[q] = <<>>
        <3>1. ASSUME NEW q \in gone PROVE wire'[q] = <<>>
            <4>1. wire[q] = <<>> /\ q \in 1 .. runs
                BY DEF IInv, ServerTypes
            <4>2. q \in Runs
                BY <4>1, Numbers DEF IInv, PageTypes, Runs
            <4>. QED  BY <1>3, <1>4, <4>1, <4>2
        <3>. QED  BY <3>1
    <2>. QED  BY <1>3, <1>5, <2>1, <2>2, <2>3 DEF IInv, ServerTypes
<1>7. PageTypes'
    BY DEF IInv, PageTypes, page
<1>8. ASSUME NEW q \in Runs PROVE Single(q)'
    <2>1. CASE q # r
        <3>1. phase'[q] = phase[q] /\ wire'[q] = wire[q] /\ todo'[q] = todo[q] /\ scope'[q] = scope[q]
            BY <1>3, <1>5, <2>1
        <3>. QED  BY <3>1 DEF IInv, Single
    <2>2. CASE q = r /\ scope[r] = "database"
        <3>1. \A i \in 1 .. Len(wire[r]) : wire[r][i].type # "done"
            BY <1>1, <2>2 DEF IInv, Single
        <3>2. \A i \in 1 .. Len(wire'[r]) :
                  wire'[r][i].type = "done" => i = Len(wire'[r]) /\ phase'[r] = "over"
            <4>1. CASE r \in gone
                BY <1>4, <3>1, <4>1
            <4>2. CASE r \notin gone
                <5>1. wire'[r] = wire[r] \o ev
                    BY <1>4, <4>2
                <5>2. \A i \in 1 .. Len(ev) : ev[i].type = "done" => i = Len(ev) /\ p = "over"
                    BY <2>2
                <5> DEFINE w == wire[r]
                <5>3. w \in Seq(Events) /\ \A i \in 1 .. Len(w) : w[i].type # "done"
                    BY <1>2, <3>1
                <5> HIDE DEF w
                <5>4. \A i \in 1 .. Len(w \o ev) :
                          (w \o ev)[i].type = "done" =>
                              i = Len(w \o ev) /\ \E j \in 1 .. Len(ev) : ev[j].type = "done"
                    BY <5>2, <5>3, LastDone
                <5>5. wire'[r] = w \o ev
                    BY <5>1 DEF w
                <5>. QED  BY <1>5, <5>2, <5>4, <5>5
            <4>. QED  BY <4>1, <4>2
        <3>. QED  BY <2>2, <3>2 DEF Single
    <2>3. CASE q = r /\ scope[r] # "database"
        BY <2>3 DEF Single
    <2>. QED  BY <2>1, <2>2, <2>3
<1>9. WiresOwn'
    <2>1. \A i \in 1 .. Len(wire[r]) : wire[r][i].type = "result" => wire[r][i].run = r
        BY <1>1 DEF IInv, WiresOwn
    <2>2. \A i \in 1 .. Len(wire'[r]) : wire'[r][i].type = "result" => wire'[r][i].run = r
        <3>1. CASE r \in gone
            BY <1>4, <2>1, <3>1
        <3>2. CASE r \notin gone
            <4>1. wire'[r] = wire[r] \o ev
                BY <1>4, <3>2
            <4>. QED  BY <1>2, <2>1, <4>1, Joined
        <3>. QED  BY <3>1, <3>2
    <2>. QED  BY <1>3, <2>2 DEF IInv, WiresOwn
<1>10. Ended'
    <2>1. runs' = runs /\ gone' = gone /\ beside' = beside /\ stopped' = stopped /\ runs \in 1 .. runs
        BY Numbers DEF page, IInv, PageTypes
    <2>2. ASSUME NEW q \in 1 .. runs, Silent(q) PROVE Silent(q)'
        <3>1. CASE q = r
            BY <2>2, <3>1 DEF Silent
        <3>2. CASE q # r
            <4>1. q \in Runs \ {r}
                BY <3>2, Numbers DEF IInv, PageTypes, Runs
            <4>. QED  BY <1>3, <1>5, <2>2, <4>1 DEF Silent
        <3>. QED  BY <3>1, <3>2
    <2>. QED  BY <2>1, <2>2 DEF IInv, Ended
<1>11. ListOwn'
    BY DEF IInv, ListOwn, page
<1>. QED  BY <1>6, <1>7, <1>8, <1>9, <1>10, <1>11 DEF IInv

\* The end of a database: its "done" is the last event of a single one.
LEMMA DatabaseEnds ==
    ASSUME IInv, NEW r \in 1 .. runs, phase[r] \notin {"none", "over"}, EndDatabase(r),
           UNCHANGED <<runs, scope, gone, page>>, NEW ev \in Seq(Events), Emit(r, ev),
           \A i \in 1 .. Len(ev) : ev[i].type = "result" => ev[i].run = r,
           \A i \in 1 .. Len(ev) : ev[i].type = "done" => i = Len(ev)
    PROVE  IInv'
<1> DEFINE p == IF todo'[r] = <<>> THEN "over" ELSE "list"
<1>1. r \in Runs /\ todo[r] \in Seq(D) /\ todo[r] # <<>> /\ todo \in [Runs -> Seq(D)]
    <2>1. r \in Runs
        BY Numbers DEF IInv, PageTypes, Runs
    <2>2. /\ todo \in [Runs -> Seq(D)]
          /\ \A q \in Runs : phase[q] \notin {"none", "over"} => todo[q] # <<>>
        BY DEF IInv, ServerTypes
    <2>. QED  BY <2>1, <2>2
<1>2. /\ Tail(todo[r]) \in Seq(D) /\ Len(Tail(todo[r])) = Len(todo[r]) - 1
      /\ Len(todo[r]) \in Nat \ {0}
    <2> DEFINE s == todo[r]
    <2>1. s \in Seq(D) /\ s # <<>>
        BY <1>1
    <2> HIDE DEF s
    <2>2. Len(s) \in Nat \ {0} /\ Tail(s) \in Seq(D) /\ Len(Tail(s)) = Len(s) - 1
        BY <2>1, Shorter
    <2>. QED  BY <2>2 DEF s
<1>3. todo' = [todo EXCEPT ![r] = Tail(todo[r])]
    BY DEF EndDatabase
<1>4. /\ todo' \in [Runs -> Seq(D)] /\ todo'[r] = Tail(todo[r])
      /\ \A q \in Runs \ {r} : todo'[q] = todo[q]
    BY <1>1, <1>2, <1>3
<1>5. phase' = [phase EXCEPT ![r] = p] /\ p \in Phases \ {"none"}
    BY DEF EndDatabase, Phases
<1>6. at' \in [Runs -> Nat] /\ counts' \in [Runs -> Counts]
    BY DEF EndDatabase, IInv, ServerTypes, Zero, Counts
<1>7. scope[r] = "database" => Len(todo'[r]) <= 1 /\ p = "over"
    <2>1. ASSUME scope[r] = "database" PROVE Len(todo'[r]) = 0
        <3>1. Len(todo[r]) <= 1
            BY <1>1, <2>1 DEF IInv, Single
        <3>2. \A n \in Nat \ {0} : n <= 1 => n = 1
            OBVIOUS
        <3>3. Len(todo[r]) = 1
            BY ONLY <1>2, <3>1, <3>2
        <3>4. Len(todo'[r]) = Len(Tail(todo[r]))
            BY <1>4
        <3>. QED  BY <1>2, <3>3, <3>4
    <2>2. todo'[r] \in Seq(D)
        BY <1>2, <1>4
    <2>. QED  BY <2>1, <2>2
<1>8. p # "over" => todo'[r] # <<>>
    OBVIOUS
<1> HIDE DEF p
<1>. QED  BY <1>4, <1>5, <1>6, <1>7, <1>8, ServerStep

\* A step inside a database.
LEMMA InsideDatabase ==
    ASSUME IInv, NEW r \in 1 .. runs, phase[r] \notin {"none", "over"},
           UNCHANGED <<todo, runs, scope, gone, page>>, NEW ev \in Seq(Events), Emit(r, ev),
           \A i \in 1 .. Len(ev) : /\ ev[i].type = "result" => ev[i].run = r
                                  /\ ev[i].type # "done",
           NEW p \in Phases \ {"none", "over"}, phase' = [phase EXCEPT ![r] = p],
           at' \in [Runs -> Nat], counts' \in [Runs -> Counts]
    PROVE  IInv'
<1>1. r \in Runs /\ todo[r] \in Seq(D) /\ todo[r] # <<>> /\ todo' \in [Runs -> Seq(D)]
    BY Numbers DEF IInv, PageTypes, ServerTypes, Runs
<1>2. scope[r] = "database" => Len(todo'[r]) <= 1
    BY <1>1 DEF IInv, Single
<1>. QED  BY <1>1, <1>2, ServerStep

LEMMA EventTypes ==
    /\ \A n \in Counts : /\ <<DoneEvent(n)>> \in Seq(Events)
                        /\ DoneEvent(n).type = "done"
    /\ Zero \in Counts /\ [analyzed |-> 0, errors |-> 1] \in Counts
BY DEF Events, Dones, Counts, DoneEvent, Zero

LEMMA DoneAlone ==
    ASSUME NEW n \in Counts, NEW ev, ev = <<DoneEvent(n)>>, NEW r
    PROVE  /\ ev \in Seq(Events)
           /\ \A i \in 1 .. Len(ev) : ev[i].type = "result" => ev[i].run = r
           /\ \A i \in 1 .. Len(ev) : ev[i].type = "done" => i = Len(ev)
<1>1. Len(ev) = 1 /\ ev[1] = DoneEvent(n) /\ ev[1].type = "done"
    BY DEF DoneEvent
<1>. QED  BY <1>1, EventTypes

LEMMA HandlerStopsInv == ASSUME IInv, NEW r \in 1 .. runs, HandlerStops(r) PROVE IInv'
<1> DEFINE ev == <<>>
<1>1. r \in Runs /\ phase[r] = "list" /\ scope[r] = "all"
    BY Numbers DEF HandlerStops, IInv, PageTypes, Runs
<1>2. Emit(r, ev)
    <2>1. wire[r] \in Seq(Events) /\ wire \in [Runs -> Seq(Events)] /\ wire' = wire
        BY <1>1 DEF HandlerStops, IInv, ServerTypes
    <2>2. wire[r] \o <<>> = wire[r]
        BY <2>1
    <2>. QED  BY <2>1, <2>2 DEF Emit
<1>3. /\ phase' = [phase EXCEPT ![r] = "over"] /\ "over" \in Phases \ {"none"}
      /\ UNCHANGED <<runs, scope, gone, page, at, counts>>
    BY DEF HandlerStops, Phases
<1>4. todo' \in [Runs -> Seq(D)] /\ \A q \in Runs \ {r} : todo'[q] = todo[q]
    BY <1>1 DEF HandlerStops, IInv, ServerTypes
<1>5. at' \in [Runs -> Nat] /\ counts' \in [Runs -> Counts]
    BY <1>3 DEF IInv, ServerTypes
<1>6. phase[r] \notin {"none", "over"} /\ scope[r] # "database"
    BY <1>1
<1>7. ev \in Seq(Events) /\ \A i \in 1 .. Len(ev) : FALSE
    BY Nothing
<1> HIDE DEF ev
<1>. QED  BY <1>2, <1>3, <1>4, <1>5, <1>6, <1>7, ServerStep

LEMMA ListInv ==
    ASSUME IInv, NEW r \in 1 .. runs, ListFails(r) \/ List(r) \/ StreamStops(r) PROVE IInv'
<1>1. phase[r] \notin {"none", "over"} /\ UNCHANGED <<runs, scope, gone, page>> /\ r \in Runs
    BY Numbers DEF ListFails, List, StreamStops, IInv, PageTypes, Runs
<1>2. ASSUME NEW n \in Counts, Emit(r, <<DoneEvent(n)>>), EndDatabase(r) PROVE IInv'
    <2> DEFINE ev == <<DoneEvent(n)>>
    <2>1. Emit(r, ev)
        BY <1>2
    <2>2. /\ ev \in Seq(Events)
          /\ \A i \in 1 .. Len(ev) : ev[i].type = "result" => ev[i].run = r
          /\ \A i \in 1 .. Len(ev) : ev[i].type = "done" => i = Len(ev)
        BY DoneAlone
    <2> HIDE DEF ev
    <2>. QED  BY <1>1, <1>2, <2>1, <2>2, DatabaseEnds
<1>3. CASE ListFails(r)
    BY <1>2, <1>3, EventTypes DEF ListFails
<1>4. CASE StreamStops(r)
    <2>1. counts[r] \in Counts
        BY <1>1 DEF IInv, ServerTypes
    <2>. QED  BY <1>2, <1>4, <2>1 DEF StreamStops
<1>5. CASE List(r) /\ tables[Head(todo[r])] = 0
    BY <1>2, <1>5, EventTypes DEF List
<1>6. CASE List(r) /\ tables[Head(todo[r])] # 0
    <2>1. /\ phase' = [phase EXCEPT ![r] = "check"] /\ at' = [at EXCEPT ![r] = 1]
          /\ UNCHANGED <<todo, counts, wire>>
        BY <1>6 DEF List
    <2>2. wire[r] \in Seq(Events) /\ wire \in [Runs -> Seq(Events)]
        BY <1>1 DEF IInv, ServerTypes
    <2>3. wire[r] \o <<>> = wire[r]
        BY <2>2
    <2> DEFINE ev == <<>>
    <2>4. Emit(r, ev) /\ ev \in Seq(Events) /\ \A i \in 1 .. Len(ev) : FALSE
        BY <2>1, <2>2, <2>3, Nothing DEF Emit
    <2>5. at' \in [Runs -> Nat] /\ counts' \in [Runs -> Counts]
        BY <2>1 DEF IInv, ServerTypes
    <2>6. "check" \in Phases \ {"none", "over"}
        BY DEF Phases
    <2>7. todo' = todo
        BY <2>1
    <2> HIDE DEF ev
    <2>. QED  BY <1>1, <2>1, <2>4, <2>5, <2>6, <2>7, InsideDatabase
<1>. QED  BY <1>3, <1>4, <1>5, <1>6

\* A step that tells nothing.
LEMMA QuietInv ==
    ASSUME IInv, NEW r \in 1 .. runs, Check(r) \/ Begin(r) \/ Pause(r) PROVE IInv'
<1> DEFINE ev == <<>>
<1>1. /\ phase[r] \notin {"none", "over"} /\ UNCHANGED <<todo, runs, scope, gone, page>>
      /\ r \in Runs /\ wire' = wire /\ counts' = counts
    BY Numbers DEF Check, Begin, Pause, IInv, PageTypes, Runs
<1>2. PICK p \in {"begin", "busy", "check"} : phase' = [phase EXCEPT ![r] = p]
    BY DEF Check, Begin, Pause
<1>3. p \in Phases \ {"none", "over"}
    BY DEF Phases
<1>4. at' \in [Runs -> Nat] /\ counts' \in [Runs -> Counts]
    BY <1>1 DEF Check, Begin, Pause, IInv, ServerTypes
<1>5. wire[r] \in Seq(Events) /\ wire \in [Runs -> Seq(Events)]
    BY <1>1 DEF IInv, ServerTypes
<1>6. wire[r] \o <<>> = wire[r]
    BY <1>5
<1>7. Emit(r, ev) /\ ev \in Seq(Events) /\ \A i \in 1 .. Len(ev) : FALSE
    BY <1>1, <1>5, <1>6, Nothing DEF Emit
<1> HIDE DEF ev
<1>. QED  BY <1>1, <1>2, <1>3, <1>4, <1>7, InsideDatabase

\* What is told at the end of a table.
Outcome(r, ok, told) == IF told THEN <<ResultEvent(r, ok)>> ELSE <<>>

LEMMA OutcomeTypes ==
    ASSUME NEW r \in Runs, NEW ok \in BOOLEAN, NEW told \in BOOLEAN, NEW ev, ev = Outcome(r, ok, told)
    PROVE  /\ ev \in Seq(Events)
           /\ \A i \in 1 .. Len(ev) : ev[i].type = "result" /\ ev[i].run = r
<1> DEFINE x == ResultEvent(r, ok)
<1>1. x \in Events /\ x.type = "result" /\ x.run = r
    BY DEF ResultEvent, Results, Events
<1>2. ev = <<x>> \/ ev = <<>>
    BY DEF Outcome
<1> HIDE DEF x
<1>3. CASE ev = <<>>
    BY <1>3, Nothing
<1>4. CASE ev = <<x>>
    <2>1. Len(ev) = 1 /\ ev[1] = x
        BY <1>4
    <2>2. ev \in Seq(Events)
        BY <1>1, <1>4
    <2>. QED  BY <1>1, <2>1, <2>2
<1>. QED  BY <1>2, <1>3, <1>4

LEMMA AnalyzedInv ==
    ASSUME IInv, NEW r \in 1 .. runs, NEW ok \in BOOLEAN, NEW told \in BOOLEAN, Analyzed(r, ok, told)
    PROVE  IInv'
<1> DEFINE n == Counted(counts[r], ok)
           ev == Outcome(r, ok, told)
<1>1. /\ phase[r] \notin {"none", "over"} /\ UNCHANGED <<runs, scope, gone, page>> /\ r \in Runs
    BY Numbers DEF Analyzed, IInv, PageTypes, Runs
<1>2. n \in Counts
    <2>1. counts[r] \in Counts
        BY <1>1 DEF IInv, ServerTypes
    <2>. QED  BY <2>1 DEF Counted, Counts
<1>3. ev \in Seq(Events) /\ \A i \in 1 .. Len(ev) : ev[i].type = "result" /\ ev[i].run = r
    BY <1>1, OutcomeTypes
<1>4. CASE at[r] < tables[Head(todo[r])]
    <2>1. /\ Emit(r, ev) /\ counts' = [counts EXCEPT ![r] = n]
          /\ phase' = [phase EXCEPT ![r] = "pause"] /\ todo' = todo /\ at' = at
        BY <1>4 DEF Analyzed, Outcome
    <2>2. counts' \in [Runs -> Counts] /\ at' \in [Runs -> Nat]
        BY <1>2, <2>1 DEF IInv, ServerTypes
    <2>3. "pause" \in Phases \ {"none", "over"}
        BY DEF Phases
    <2> HIDE DEF ev, n
    <2>4. \A i \in 1 .. Len(ev) : (ev[i].type = "result" => ev[i].run = r) /\ ev[i].type # "done"
        BY <1>3
    <2>. QED  BY <1>1, <1>3, <2>1, <2>2, <2>3, <2>4, InsideDatabase
<1>5. CASE ~ (at[r] < tables[Head(todo[r])])
    <2> DEFINE y == DoneEvent(n)
               all == ev \o <<y>>
    <2>1. Emit(r, all) /\ EndDatabase(r)
        BY <1>5 DEF Analyzed, Outcome
    <2>2. y \in Events /\ y.type = "done"
        BY <1>2 DEF DoneEvent, Dones, Counts, Events
    <2> HIDE DEF ev, n, y
    <2>3. /\ all \in Seq(Events)
          /\ \A i \in 1 .. Len(all) : all[i].type = "result" => all[i].run = r
          /\ \A i \in 1 .. Len(all) : all[i].type = "done" => i = Len(all)
        <3>1. /\ all \in Seq(Events) /\ Len(all) = Len(ev) + 1 /\ Len(ev) \in Nat
              /\ all[Len(ev) + 1] = y /\ \A i \in 1 .. Len(ev) : all[i] = ev[i]
            BY <1>3, <2>2
        <3>2. \A i \in 1 .. Len(all) : i \in 1 .. Len(ev) \/ i = Len(all)
            BY <3>1
        <3>. QED  BY <1>3, <2>2, <3>1, <3>2
    <2> HIDE DEF all
    <2>. QED  BY <1>1, <2>1, <2>3, DatabaseEnds
<1>. QED  BY <1>4, <1>5

LEMMA NoticeInv == ASSUME IInv, NEW r \in 1 .. runs, Notice(r) PROVE IInv'
<1>1. UNCHANGED <<tables, runs, scope, server, wire, gone, page>>
    BY DEF Notice
<1>2. ServerTypes' /\ PageTypes' /\ WiresOwn'
    BY <1>1 DEF IInv, ServerTypes, PageTypes, WiresOwn, server, page
<1>3. \A q \in Runs : Single(q)'
    BY <1>1 DEF IInv, Single, server
<1>4. Ended' /\ ListOwn'
    BY <1>1 DEF IInv, Ended, ListOwn, Silent, server, page
<1>. QED  BY <1>2, <1>3, <1>4 DEF IInv

-----------------------------------------------------------------------------
(* The page's steps                                                        *)

\* Another analysis: what an earlier one has still to say, it is begun beside.
LEMMA RunAnalysisInv == ASSUME IInv, RunAnalysis PROVE IInv'
<1> DEFINE n == runs + 1
<1>1. /\ runs \in Nat /\ n \in Runs /\ runs' = n /\ runs < MaxRuns
      /\ n \notin 1 .. runs /\ 1 .. runs' = (1 .. runs) \union {n} /\ 1 .. runs \subseteq Runs
    BY Numbers DEF RunAnalysis, IInv, PageTypes, Runs
<1>2. PICK s \in Scopes : /\ scope' = [scope EXCEPT ![n] = s]
                          /\ \E dbs \in IF s = "all" THEN {Databases, <<>>} ELSE {<<d>> : d \in D} :
                                todo' = [todo EXCEPT ![n] = dbs]
    BY <1>1 DEF RunAnalysis, D
<1>3. s \in {"database", "all"} /\ Databases \in Seq(D)
    BY ScopesAssumption, DatabasesAssumption DEF D
<1>4. PICK t \in Seq(D) : todo' = [todo EXCEPT ![n] = t] /\ (s = "database" => Len(t) = 1)
    <2>1. CASE s = "all"
        <3>1. <<>> \in Seq(D)
            OBVIOUS
        <3>. QED  BY <1>2, <1>3, <2>1, <3>1
    <2>2. CASE s # "all"
        <3>1. PICK d \in D : todo' = [todo EXCEPT ![n] = <<d>>]
            BY <1>2, <2>2
        <3>2. <<d>> \in Seq(D) /\ Len(<<d>>) = 1
            OBVIOUS
        <3>. QED  BY <3>1, <3>2
    <2>. QED  BY <2>1, <2>2
<1>5. /\ scope \in [Runs -> {"none", "database", "all"}] /\ todo \in [Runs -> Seq(D)]
      /\ phase \in [Runs -> Phases]
    BY DEF IInv, ServerTypes
<1>6. /\ todo' \in [Runs -> Seq(D)] /\ todo'[n] = t /\ \A q \in Runs \ {n} : todo'[q] = todo[q]
      /\ scope' \in [Runs -> {"none", "database", "all"}] /\ scope'[n] = s
      /\ \A q \in Runs \ {n} : scope'[q] = scope[q]
    BY <1>1, <1>2, <1>3, <1>4, <1>5
<1>7. /\ phase' \in [Runs -> Phases] /\ phase'[n] = IF t = <<>> THEN "over" ELSE "list"
      /\ \A q \in Runs \ {n} : phase'[q] = phase[q]
    BY <1>1, <1>5, <1>6 DEF RunAnalysis, Phases
<1>8. /\ loading' = TRUE /\ bulkResults' = <<>> /\ abortRef' = n
      /\ UNCHANGED <<at, counts, wire, gone>>
    BY <1>1 DEF RunAnalysis
<1>9. wire[n] = <<>>
    BY <1>1 DEF IInv, ServerTypes
<1>10. ServerTypes'
    <2>1. \A r \in Runs : r > runs' => phase'[r] = "none" /\ wire'[r] = <<>>
        <3>1. \A r \in Runs : r > n => r > runs /\ r # n
            BY <1>1 DEF Runs
        <3>. QED  BY <1>1, <1>7, <1>8, <3>1 DEF IInv, ServerTypes
    <2>2. \A r \in Runs : phase'[r] \notin {"none", "over"} => todo'[r] # <<>>
        BY <1>6, <1>7 DEF IInv, ServerTypes
    <2>. QED  BY <1>1, <1>6, <1>7, <1>8, <2>1, <2>2 DEF IInv, ServerTypes
<1>11. PageTypes'
    BY <1>1, <1>8 DEF PageTypes, Runs
<1>12. ASSUME NEW q \in Runs PROVE Single(q)'
    <2>1. CASE q = n
        <3>1. scope'[n] = "database" => Len(todo'[n]) = 1
            BY <1>4, <1>6
        <3>2. 1 .. Len(wire'[n]) = {}
            BY <1>8, <1>9
        <3>3. scope'[q] = "database" => Len(todo'[q]) <= 1
            <4>1. \A m : m = 1 => m <= 1
                OBVIOUS
            <4>. QED  BY ONLY <2>1, <3>1, <4>1
        <3>4. \A i \in 1 .. Len(wire'[q]) : FALSE
            BY <2>1, <3>2
        <3>. QED  BY <3>3, <3>4 DEF Single
    <2>2. CASE q # n
        BY <1>6, <1>7, <1>8, <2>2 DEF IInv, Single
    <2>. QED  BY <2>1, <2>2
<1>13. WiresOwn'
    BY <1>8 DEF IInv, WiresOwn
<1>14. Ended'
    <2>1. ASSUME NEW q \in 1 .. runs PROVE q \in beside' \/ Silent(q)'
        <3>1. q \in Runs \ {n}
            BY <1>1
        <3>2. CASE Silent(q)
            BY <1>7, <1>8, <3>1, <3>2 DEF Silent
        <3>3. CASE ~ Silent(q)
            <4>1. stopped => q # runs
                BY <3>3 DEF IInv, Ended
            <4>. QED  BY <3>3, <4>1 DEF RunAnalysis
        <3>. QED  BY <3>2, <3>3
    <2>2. stopped' = FALSE
        BY DEF RunAnalysis
    <2>. QED  BY <1>1, <2>1, <2>2 DEF Ended
<1>15. ListOwn'
    BY <1>8 DEF ListOwn
<1>. QED  BY <1>10, <1>11, <1>12, <1>13, <1>14, <1>15 DEF IInv

LEMMA Rest ==
    ASSUME NEW S, NEW s \in Seq(S), s # <<>>
    PROVE  /\ Tail(s) \in Seq(S) /\ Head(s) = s[1] /\ Head(s) \in S /\ 1 \in 1 .. Len(s)
           /\ Len(Tail(s)) = Len(s) - 1 /\ Len(s) \in Nat \ {0}
           /\ Len(s) = 1 => Tail(s) = <<>>
           /\ \A i \in 1 .. Len(Tail(s)) : Tail(s)[i] = s[i + 1] /\ i + 1 \in 1 .. Len(s)
<1>1. /\ Tail(s) \in Seq(S) /\ Len(Tail(s)) = Len(s) - 1 /\ Len(s) \in Nat \ {0}
    BY Shorter
<1>2. Head(s) = s[1] /\ Head(s) \in S /\ 1 \in 1 .. Len(s)
    BY <1>1
<1>3. Len(s) = 1 => Tail(s) = <<>>
    <2>1. \A t \in Seq(S) : Len(t) = 0 => t = <<>>
        OBVIOUS
    <2>2. Len(s) = 1 => Len(Tail(s)) = 0
        BY ONLY <1>1
    <2>. QED  BY <1>1, <2>1, <2>2
<1>4. \A i \in 1 .. Len(Tail(s)) : Tail(s)[i] = s[i + 1] /\ i + 1 \in 1 .. Len(s)
    BY <1>1
<1>. QED  BY <1>1, <1>2, <1>3, <1>4

LEMMA Appended ==
    ASSUME NEW S, NEW s \in Seq(S), NEW x \in S
    PROVE  /\ Append(s, x) \in Seq(S)
           /\ \A i \in 1 .. Len(Append(s, x)) :
                 \/ i \in 1 .. Len(s) /\ Append(s, x)[i] = s[i]
                 \/ Append(s, x)[i] = x
OBVIOUS

\* What is shown belongs to the analysis of the spinner, and its "done" leaves
\* nothing behind it.
LEMMA DeliverInv == ASSUME IInv, NEW r \in 1 .. runs, Deliver(r) PROVE IInv'
<1> DEFINE w == wire[r]
           e == Head(w)
<1>1. r \in Runs /\ runs \in Nat
    BY Numbers DEF IInv, PageTypes, Runs
<1>2. /\ r \notin gone /\ w # <<>> /\ wire' = [wire EXCEPT ![r] = Tail(w)]
      /\ UNCHANGED <<runs, scope, server, gone, abortRef, beside, stopped>>
    BY DEF Deliver
<1>3. w \in Seq(Events) /\ wire \in [Runs -> Seq(Events)]
    BY <1>1 DEF IInv, ServerTypes
<1>4. /\ Tail(w) \in Seq(Events) /\ e = w[1] /\ e \in Events /\ 1 \in 1 .. Len(w)
      /\ Len(Tail(w)) = Len(w) - 1 /\ Len(w) \in Nat \ {0}
      /\ Len(w) = 1 => Tail(w) = <<>>
      /\ \A i \in 1 .. Len(Tail(w)) : Tail(w)[i] = w[i + 1] /\ i + 1 \in 1 .. Len(w)
    <2> HIDE DEF w
    <2>. QED  BY <1>2, <1>3, Rest
<1>5. /\ wire' \in [Runs -> Seq(Events)] /\ wire'[r] = Tail(w)
      /\ \A q \in Runs \ {r} : wire'[q] = wire[q]
    BY <1>1, <1>2, <1>3, <1>4
<1>6. /\ loading' \in BOOLEAN /\ (loading' => loading)
      /\ e.type # "done" => loading' = loading
      /\ IF e.type = "result" THEN bulkResults' = Append(bulkResults, e)
         ELSE bulkResults' = bulkResults
    <2>1. loading \in BOOLEAN
        BY DEF IInv, PageTypes
    <2>2. \/ e.type = "result" /\ bulkResults' = Append(bulkResults, e) /\ UNCHANGED loading
          \/ e.type = "done" /\ loading' = FALSE /\ UNCHANGED bulkResults
        BY DEF Deliver
    <2>3. e.type = "result" => e.type # "done"
        OBVIOUS
    <2> HIDE DEF e
    <2>5. loading' = loading \/ (e.type = "done" /\ loading' = FALSE)
        BY <2>2, Zenon
    <2>7. loading' \in BOOLEAN /\ (loading' => loading)
        <3>1. CASE loading' = loading
            BY <2>1, <3>1, Zenon
        <3>2. CASE loading' = FALSE
            BY <3>2
        <3>. QED  BY <2>5, <3>1, <3>2, Zenon
    <2>6. IF e.type = "result" THEN bulkResults' = Append(bulkResults, e)
          ELSE bulkResults' = bulkResults
        BY <2>2, <2>3
    <2>. QED  BY <2>5, <2>6, <2>7, Zenon
<1>7. bulkResults \in Seq(Results)
    BY DEF IInv, PageTypes
<1>8. e.type = "result" => e \in Results
    <2> HIDE DEF e
    <2>. QED  BY <1>4 DEF Events, Results, Dones
<1>9. bulkResults' \in Seq(Results)
    <2> HIDE DEF e
    <2>. QED  BY <1>6, <1>7, <1>8, Appended
<1>10. ServerTypes'
    <2>1. \A q \in Runs : q > runs' => phase'[q] = "none" /\ wire'[q] = <<>>
        BY <1>1, <1>2, <1>5 DEF IInv, ServerTypes, server
    <2>2. \A q \in gone' : wire'[q] = <<>>
        <3>1. ASSUME NEW q \in gone PROVE wire'[q] = <<>>
            <4>1. q \in Runs \ {r} /\ wire[q] = <<>>
                BY <1>2, Numbers DEF IInv, ServerTypes, PageTypes, Runs
            <4>. QED  BY <1>5, <4>1
        <3>. QED  BY <1>2, <3>1
    <2>. QED  BY <1>2, <1>5, <2>1, <2>2 DEF IInv, ServerTypes, server
<1>11. PageTypes'
    BY <1>2, <1>6, <1>9 DEF IInv, PageTypes
<1>12. ASSUME NEW q \in Runs PROVE Single(q)'
    <2>1. CASE q = r /\ scope[r] = "database"
        <3>1. \A i \in 1 .. Len(w) : w[i].type = "done" => i = Len(w) /\ phase[r] = "over"
            BY <1>1, <2>1 DEF IInv, Single
        <3>2. \A i \in 1 .. Len(Tail(w)) :
                  Tail(w)[i].type = "done" => i = Len(Tail(w)) /\ phase[r] = "over"
            <4> HIDE DEF w
            <4> SUFFICES ASSUME NEW i \in 1 .. Len(Tail(w)), Tail(w)[i].type = "done"
                         PROVE  i = Len(Tail(w)) /\ phase[r] = "over"
                OBVIOUS
            <4>1. w[i + 1].type = "done" /\ i + 1 \in 1 .. Len(w)
                BY <1>4
            <4>2. i + 1 = Len(w) /\ phase[r] = "over"
                BY <3>1, <4>1
            <4>3. Len(Tail(w)) = Len(w) - 1 /\ Len(w) \in Nat
                BY <1>4
            <4>. QED  BY <4>2, <4>3
        <3>3. phase[r] # "over" => Len(todo[r]) <= 1
            BY <1>1, <2>1 DEF IInv, Single
        <3>. QED  BY <1>2, <1>5, <2>1, <3>2, <3>3 DEF Single, server
    <2>2. CASE q = r /\ scope[r] # "database"
        BY <1>2, <2>2 DEF Single
    <2>3. CASE q # r
        BY <1>2, <1>5, <2>3 DEF IInv, Single, server
    <2>. QED  BY <2>1, <2>2, <2>3
<1>13. \A i \in 1 .. Len(w) : w[i].type = "result" => w[i].run = r
    BY <1>1 DEF IInv, WiresOwn
<1>14. WiresOwn'
    <2>1. \A i \in 1 .. Len(Tail(w)) : Tail(w)[i].type = "result" => Tail(w)[i].run = r
        <3> HIDE DEF w
        <3>. QED  BY <1>4, <1>13
    <2>. QED  BY <1>5, <2>1 DEF IInv, WiresOwn
<1>15. r \in {runs} \union beside
    BY <1>1, <1>2 DEF IInv, Ended, Silent
<1>16. Ended'
    <2>1. ASSUME NEW q \in 1 .. runs, Silent(q) PROVE Silent(q)'
        <3>1. q # r /\ q \in Runs \ {r}
            BY <1>1, <1>2, <2>1, Numbers DEF Silent, IInv, PageTypes, Runs
        <3>. QED  BY <1>2, <1>5, <2>1, <3>1 DEF Silent, server
    <2>2. runs \in 1 .. runs
        BY <1>1
    <2>. QED  BY <1>2, <2>1, <2>2 DEF IInv, Ended
<1>17. ListOwn'
    <2>1. CASE e.type = "result"
        <3>1. e.run = r
            BY <1>4, <1>13, <2>1
        <3>2. \A i \in 1 .. Len(bulkResults') :
                  \/ i \in 1 .. Len(bulkResults) /\ bulkResults'[i] = bulkResults[i]
                  \/ bulkResults'[i] = e
            <4> HIDE DEF e
            <4>. QED  BY <1>6, <1>7, <1>8, <2>1, Appended
        <3>. QED  BY <1>2, <1>15, <3>1, <3>2 DEF IInv, ListOwn
    <2>2. CASE e.type # "result"
        BY <1>2, <1>6, <2>2 DEF IInv, ListOwn
    <2>. QED  BY <2>1, <2>2
<1>. QED  BY <1>10, <1>11, <1>12, <1>14, <1>16, <1>17 DEF IInv

\* A fetch that is over or gone: the browser reads nothing more of it.
LEMMA LeftBehind ==
    ASSUME IInv, NEW r \in 1 .. runs, gone' = gone \union {r}, wire' = [wire EXCEPT ![r] = <<>>],
           UNCHANGED <<runs, scope, server, bulkResults, beside>>, abortRef' \in {0, runs},
           loading' \in BOOLEAN, loading' => loading /\ abortRef' = abortRef,
           stopped' => stopped \/ r = runs
    PROVE  IInv'
<1>1. r \in Runs /\ runs \in Nat
    BY Numbers DEF IInv, PageTypes, Runs
<1>2. wire \in [Runs -> Seq(Events)]
    BY DEF IInv, ServerTypes
<1>3. /\ wire' \in [Runs -> Seq(Events)] /\ wire'[r] = <<>>
      /\ \A q \in Runs \ {r} : wire'[q] = wire[q]
    BY <1>1, <1>2
<1>4. ServerTypes'
    <2>1. \A q \in Runs : q > runs' => phase'[q] = "none" /\ wire'[q] = <<>>
        BY <1>3 DEF IInv, ServerTypes, server
    <2>2. \A q \in gone' : wire'[q] = <<>>
        <3>1. ASSUME NEW q \in gone \ {r} PROVE wire'[q] = <<>>
            <4>1. q \in Runs \ {r} /\ wire[q] = <<>>
                BY Numbers DEF IInv, ServerTypes, PageTypes, Runs
            <4>. QED  BY <1>3, <4>1
        <3>. QED  BY <1>3, <3>1
    <2>. QED  BY <1>3, <2>1, <2>2 DEF IInv, ServerTypes, server
<1>5. PageTypes'
    BY DEF IInv, PageTypes
<1>6. ASSUME NEW q \in Runs PROVE Single(q)'
    <2>1. CASE q = r
        BY <1>3, <2>1 DEF IInv, Single, server
    <2>2. CASE q # r
        BY <1>3, <2>2 DEF IInv, Single, server
    <2>. QED  BY <2>1, <2>2
<1>7. WiresOwn'
    BY <1>3 DEF IInv, WiresOwn
<1>8. Ended'
    <2>1. Silent(r)'
        BY DEF Silent
    <2>2. ASSUME NEW q \in 1 .. runs, Silent(q) PROVE Silent(q)'
        <3>1. CASE q = r
            BY <2>1, <3>1
        <3>2. CASE q # r
            <4>1. q \in Runs \ {r}
                BY <3>2, Numbers DEF IInv, PageTypes, Runs
            <4>. QED  BY <1>3, <2>2, <4>1 DEF Silent, server
        <3>. QED  BY <3>1, <3>2
    <2>3. runs \in 1 .. runs
        BY <1>1
    <2>. QED  BY <2>1, <2>2, <2>3 DEF IInv, Ended
<1>9. ListOwn'
    BY DEF IInv, ListOwn
<1>. QED  BY <1>4, <1>5, <1>6, <1>7, <1>8, <1>9 DEF IInv

LEMMA BreakInv == ASSUME IInv, NEW r \in 1 .. runs, Break(r) \/ Truncate(r) PROVE IInv'
<1>1. abortRef' = abortRef /\ abortRef \in {0, runs} /\ loading \in BOOLEAN
    BY DEF Break, Truncate, IInv, PageTypes
<1>2. loading' \in BOOLEAN /\ (loading' => loading)
    <2>1. loading' = loading \/ loading' = FALSE
        BY DEF Break, Truncate
    <2>2. CASE loading' = loading
        BY <1>1, <2>2, Zenon
    <2>3. CASE loading' = FALSE
        BY <2>3
    <2>. QED  BY <2>1, <2>2, <2>3
<1>3. /\ gone' = gone \union {r} /\ wire' = [wire EXCEPT ![r] = <<>>]
      /\ UNCHANGED <<runs, scope, server, bulkResults, beside>> /\ stopped' = stopped
    BY DEF Break, Truncate
<1>. QED  BY <1>1, <1>2, <1>3, LeftBehind

LEMMA AskStopInv == ASSUME IInv, AskStop \/ CancelStop PROVE IInv'
<1>1. UNCHANGED <<runs, scope, server, wire, gone, loading, bulkResults, abortRef, beside, stopped>>
    BY DEF AskStop, CancelStop
<1>2. ServerTypes' /\ PageTypes' /\ WiresOwn'
    BY <1>1 DEF IInv, ServerTypes, PageTypes, WiresOwn, server
<1>3. \A q \in Runs : Single(q)'
    BY <1>1 DEF IInv, Single, server
<1>4. Ended' /\ ListOwn'
    BY <1>1 DEF IInv, Ended, ListOwn, Silent, server
<1>. QED  BY <1>2, <1>3, <1>4 DEF IInv

LEMMA ConfirmStopInv == ASSUME IInv, ConfirmStop PROVE IInv'
<1>1. /\ UNCHANGED <<runs, scope, server, bulkResults, beside>> /\ abortRef' = 0
      /\ loading' = FALSE /\ loading' \in BOOLEAN
    <2>1. loading' = FALSE
        BY DEF ConfirmStop
    <2>2. loading' \in BOOLEAN
        BY <2>1
    <2>. QED  BY <2>1, <2>2 DEF ConfirmStop
<1>2. CASE abortRef # 0
    <2>1. runs \in 1 .. runs /\ abortRef = runs
        BY <1>2, Numbers DEF IInv, PageTypes
    <2>2. gone' = gone \union {runs} /\ wire' = [wire EXCEPT ![runs] = <<>>]
        BY <1>2, <2>1 DEF ConfirmStop
    <2>. QED  BY <1>1, <2>1, <2>2, LeftBehind
<1>3. CASE abortRef = 0
    <2>1. gone' = gone /\ wire' = wire /\ (stopped' => stopped)
        BY <1>3 DEF ConfirmStop
    <2>3. ServerTypes' /\ PageTypes' /\ WiresOwn'
        BY <1>1, <2>1 DEF IInv, ServerTypes, PageTypes, WiresOwn, server
    <2>4. \A q \in Runs : Single(q)'
        BY <1>1, <2>1 DEF IInv, Single, server
    <2>5. Ended' /\ ListOwn'
        BY <1>1, <2>1 DEF IInv, Ended, ListOwn, Silent, server
    <2>. QED  BY <2>3, <2>4, <2>5 DEF IInv
<1>. QED  BY <1>2, <1>3

-----------------------------------------------------------------------------
(* The theorems                                                            *)

LEMMA InitInv == ASSUME Init PROVE IInv
<1>1. ServerTypes
    BY DEF Init, ServerTypes, Phases, Zero, Counts
<1>4. PageTypes
    <2>1. bulkResults \in Seq(Results)
        BY DEF Init
    <2>2. runs = 0 /\ abortRef = 0 /\ loading = FALSE
        BY DEF Init
    <2>3. runs \in 0 .. MaxRuns /\ abortRef \in {0, runs}
        BY <2>2, Numbers
    <2>4. loading \in BOOLEAN /\ ~ loading
        BY <2>2, Zenon
    <2>. QED  BY <2>1, <2>3, <2>4, Zenon DEF PageTypes
<1>5. WiresOwn
    BY DEF Init, WiresOwn
<1>2. \A r \in Runs : Single(r)
    BY DEF Init, Single
<1>3. Ended /\ ListOwn
    BY DEF Init, Ended, ListOwn
<1>. QED  BY <1>1, <1>2, <1>3, <1>4, <1>5 DEF IInv

LEMMA StepInv == ASSUME IInv, [Next]_vars PROVE IInv'
<1>1. CASE UNCHANGED vars
    <2>1. UNCHANGED <<runs, scope, server, wire, gone, page>>
        BY <1>1 DEF vars
    <2>2. ServerTypes' /\ PageTypes' /\ WiresOwn'
        BY <2>1 DEF IInv, ServerTypes, PageTypes, WiresOwn, server, page
    <2>3. \A q \in Runs : Single(q)'
        BY <2>1 DEF IInv, Single, server
    <2>4. Ended' /\ ListOwn'
        BY <2>1 DEF IInv, Ended, ListOwn, Silent, server, page
    <2>. QED  BY <2>2, <2>3, <2>4 DEF IInv
<1>2. CASE Analyze \/ FollowLink \/ AskStop \/ CancelStop \/ ConfirmStop
    BY <1>2, RunAnalysisInv, AskStopInv, ConfirmStopInv DEF Analyze, FollowLink
<1>3. ASSUME NEW r \in 1 .. runs, Notice(r) \/ Deliver(r) \/ Break(r) \/ Truncate(r) PROVE IInv'
    BY <1>3, NoticeInv, DeliverInv, BreakInv
<1>4. ASSUME NEW r \in 1 .. runs, Handle(r) PROVE IInv'
    BY <1>4, HandlerStopsInv, ListInv, QuietInv, AnalyzedInv DEF Handle
<1>. QED  BY <1>1, <1>2, <1>3, <1>4 DEF Next

THEOREM BulkInvariance == Spec => []IInv
<1>1. Init => IInv
    BY InitInv
<1>2. IInv /\ [Next]_vars => IInv'
    BY StepInv
<1>. QED  BY <1>1, <1>2, PTL DEF Spec

\* Results of an analysis that was stopped, broke off or was over never trail
\* into the list of a later one (runAnalysis clears the list, and confirmStop
\* aborts the fetch); those of a stream that a link or a reconnection left
\* running beside the newest do.
THEOREM BulkResultsOfOneRun == Spec => []ResultsOfOneRun
<1>1. IInv => ResultsOfOneRun
    <2>1. IInv => DOMAIN bulkResults = 1 .. Len(bulkResults)
        BY DEF IInv, PageTypes
    <2>. QED  BY <2>1 DEF IInv, ListOwn, ResultsOfOneRun
<1>. QED  BY <1>1, BulkInvariance, PTL

-----------------------------------------------------------------------------
(* The tables begun after a stop                                           *)

\* The handler is past its look at the context in "begin" and "busy" only, and
\* the one table begun late is that of the "begin" in which the context ended.
LateInv ==
    /\ late \in [Runs -> {0, 1}]
    /\ \A r \in Runs : late[r] = 1 => r \in canceled /\ phase[r] # "begin"

\* What only adds to canceled and does not enter "begin" keeps it.
LEMMA LateKept ==
    ASSUME LateInv, late' = late, canceled \subseteq canceled',
           \A r \in Runs : phase'[r] = "begin" => phase[r] = "begin"
    PROVE  LateInv'
BY DEF LateInv

LEMMA StepLate == ASSUME IInv, LateInv, [Next]_vars PROVE LateInv'
<1>1. phase \in [Runs -> Phases] /\ runs \in 0 .. MaxRuns
    BY DEF IInv, ServerTypes, PageTypes
<1>2. CASE UNCHANGED vars
    BY <1>2, LateKept DEF vars, server
<1>3. CASE Analyze \/ FollowLink
    <2>1. runs + 1 \in Nat /\ RunAnalysis /\ runs' = runs + 1
        BY <1>1, <1>3, Numbers DEF Analyze, FollowLink, RunAnalysis
    <2>2. PICK p : phase' = [phase EXCEPT ![runs + 1] = p] /\ p # "begin"
        <3> DEFINE p == IF todo'[runs + 1] = <<>> THEN "over" ELSE "list"
        <3>1. phase' = [phase EXCEPT ![runs + 1] = p]
            BY <2>1 DEF RunAnalysis
        <3>2. p # "begin"
            OBVIOUS
        <3> HIDE DEF p
        <3>. QED  BY <3>1, <3>2
    <2>3. late' = late /\ canceled' = canceled
        BY <2>1 DEF RunAnalysis
    <2>. QED  BY <1>1, <2>2, <2>3, LateKept
<1>4. CASE AskStop \/ CancelStop \/ ConfirmStop
    BY <1>4, LateKept DEF AskStop, CancelStop, ConfirmStop, server
<1>5. ASSUME NEW r \in 1 .. runs, Notice(r) \/ Deliver(r) \/ Break(r) \/ Truncate(r) PROVE LateInv'
    BY <1>5, LateKept DEF Notice, Deliver, Break, Truncate, server
<1>6. ASSUME NEW r \in 1 .. runs, Handle(r) PROVE LateInv'
    <2>1. r \in Runs
        BY <1>1, Numbers DEF Runs
    <2>2. CASE Check(r)
        <3>1. r \notin canceled /\ phase' = [phase EXCEPT ![r] = "begin"] /\ UNCHANGED <<late, canceled>>
            BY <2>2 DEF Check
        <3>. QED  BY <1>1, <2>1, <3>1 DEF LateInv
    <2>3. CASE Begin(r)
        <3>1. /\ phase[r] = "begin" /\ phase' = [phase EXCEPT ![r] = "busy"] /\ canceled' = canceled
              /\ late' = IF r \in canceled THEN [late EXCEPT ![r] = late[r] + 1] ELSE late
            BY <2>3 DEF Begin
        <3>2. late[r] = 0
            BY <2>1, <3>1 DEF LateInv
        <3>3. late' \in [Runs -> {0, 1}] /\ \A q \in Runs : late'[q] = late[q] \/ q = r
            BY <2>1, <3>1, <3>2 DEF LateInv
        <3>4. late'[r] = 1 => r \in canceled
            BY <2>1, <3>1, <3>2
        <3>5. phase'[r] # "begin" /\ \A q \in Runs \ {r} : phase'[q] = phase[q]
            BY <1>1, <2>1, <3>1
        <3>. QED  BY <3>1, <3>3, <3>4, <3>5 DEF LateInv
    <2>4. CASE ~ Check(r) /\ ~ Begin(r)
        <3>1. /\ \E p : phase' = [phase EXCEPT ![r] = p] /\ p # "begin"
              /\ late' = late /\ canceled' = canceled
            BY <1>6, <2>4 DEF Handle, HandlerStops, ListFails, List, StreamStops, Pause, Analyzed,
                              EndDatabase
        <3>. QED  BY <1>1, <2>1, <3>1, LateKept
    <2>. QED  BY <2>2, <2>3, <2>4
<1>. QED  BY <1>2, <1>3, <1>4, <1>5, <1>6 DEF Next

\* After a stop that the server knows of, at most the table whose look at the
\* context came before is begun, of all the tables of all the databases
\* ("no further tables will be analyzed", TableOptimizer.tsx), although the
\* pause's select may take its timer.
THEOREM BulkNoFurtherTables == Spec => []NoFurtherTables
<1>1. Init => LateInv
    BY DEF Init, LateInv
<1>2. IInv /\ LateInv /\ [Next]_vars => LateInv'
    BY StepLate
<1>3. LateInv => NoFurtherTables
    BY DEF LateInv, NoFurtherTables
<1>. QED  BY <1>1, <1>2, <1>3, BulkInvariance, PTL DEF Spec

-----------------------------------------------------------------------------
(* The figures of "Analysis complete"                                      *)

\* The results of one kind in a sequence of events, and how many they are.
Marked(s, ok) == {i \in 1 .. Len(s) : s[i].type = "result" /\ s[i].ok = ok}
Number(s, ok) == Cardinality(Marked(s, ok))

\* What of the newest analysis is listed or lost, and what is on its way too.
Got(ok) == Number(bulkResults, ok) + (IF ok THEN lost[runs] ELSE 0)
Total(ok) == Got(ok) + Number(wire[runs], ok)

\* The figures of a "done": of a list of tables that failed, or of the results.
Told(e) ==
    \/ Total(TRUE) = 0 /\ Total(FALSE) = 0 /\ e.analyzed = 0 /\ e.errors = 1
    \/ Total(TRUE) = e.analyzed /\ Total(FALSE) = e.errors

\* The counts of a database are taken back when it ends.
Rested == \A r \in Runs : phase[r] \in {"none", "list", "over"} => counts[r] = Zero

\* Nothing is lost of an analysis that has not begun.
Losses == lost \in [Runs -> Nat] /\ \A r \in Runs : r > runs => lost[r] = 0

\* Under way: the counts are those of the results told so far.
CountsTold ==
    Alone /\ runs \in (1 .. runs) \ gone /\ phase[runs] # "over" =>
        /\ bulkDone = NoDone
        /\ Total(TRUE) = counts[runs].analyzed /\ Total(FALSE) = counts[runs].errors

\* Over: its "done" is the last event on its way.
DoneOnItsWay ==
    Alone /\ runs \in (1 .. runs) \ gone /\ phase[runs] = "over" /\ wire[runs] # <<>> =>
        /\ bulkDone = NoDone
        /\ wire[runs][Len(wire[runs])].type = "done" /\ Told(wire[runs][Len(wire[runs])])

\* Shown: nothing follows it.
DoneShown ==
    Alone /\ bulkDone # NoDone => runs \in 1 .. runs /\ wire[runs] = <<>> /\ Told(bulkDone)

CInv == IInv /\ Rested /\ Losses /\ CountsTold /\ DoneOnItsWay /\ DoneShown

LEMMA NumberType ==
    ASSUME NEW s \in Seq(Events), NEW ok
    PROVE  IsFiniteSet(Marked(s, ok)) /\ Number(s, ok) \in Nat
<1>1. IsFiniteSet(1 .. Len(s))
    BY FS_Interval
<1>2. Marked(s, ok) \in SUBSET (1 .. Len(s))
    BY DEF Marked
<1>3. IsFiniteSet(Marked(s, ok))
    BY <1>1, <1>2, FS_Subset
<1>. QED  BY <1>3, FS_CardinalityType DEF Number

LEMMA NumberOfNone == ASSUME NEW ok PROVE Number(<<>>, ok) = 0
<1>1. Marked(<<>>, ok) = {}
    BY DEF Marked
<1>. QED  BY <1>1, FS_EmptySet DEF Number

\* An event counts where it is added, if it is a result of the kind.
LEMMA NumberAppend ==
    ASSUME NEW s \in Seq(Events), NEW x \in Events, NEW ok
    PROVE  Number(Append(s, x), ok) =
               IF x.type = "result" /\ x.ok = ok THEN Number(s, ok) + 1 ELSE Number(s, ok)
<1> DEFINE n == Len(s) + 1
<1>1. /\ Len(s) \in Nat /\ Len(Append(s, x)) = n /\ Append(s, x)[n] = x
      /\ \A i \in 1 .. Len(s) : Append(s, x)[i] = s[i]
      /\ 1 .. n = (1 .. Len(s)) \union {n} /\ n \notin 1 .. Len(s)
    OBVIOUS
<1>2. IsFiniteSet(Marked(s, ok)) /\ n \notin Marked(s, ok)
    BY <1>1, NumberType DEF Marked
<1> HIDE DEF n
<1>3. CASE x.type = "result" /\ x.ok = ok
    <2>1. Marked(Append(s, x), ok) = Marked(s, ok) \union {n}
        BY <1>1, <1>3 DEF Marked
    <2>. QED  BY <1>2, <1>3, <2>1, FS_AddElement DEF Number
<1>4. CASE ~ (x.type = "result" /\ x.ok = ok)
    <2>1. Marked(Append(s, x), ok) = Marked(s, ok)
        BY <1>1, <1>4 DEF Marked
    <2>. QED  BY <1>4, <2>1 DEF Number
<1>. QED  BY <1>3, <1>4

\* An event taken from the front counts no more.
LEMMA NumberTail ==
    ASSUME NEW s \in Seq(Events), s # <<>>, NEW ok
    PROVE  Number(s, ok) =
               IF Head(s).type = "result" /\ Head(s).ok = ok THEN Number(Tail(s), ok) + 1
               ELSE Number(Tail(s), ok)
<1> DEFINE A == Marked(Tail(s), ok)
           B == Marked(s, ok) \ {1}
           shift == [i \in A |-> i + 1]
<1>1. /\ Tail(s) \in Seq(Events) /\ Len(Tail(s)) = Len(s) - 1 /\ Len(s) \in Nat \ {0}
      /\ Head(s) = s[1] /\ 1 \in 1 .. Len(s)
      /\ \A i \in 1 .. Len(Tail(s)) : Tail(s)[i] = s[i + 1] /\ i + 1 \in 1 .. Len(s)
    BY Rest
<1>2. A \subseteq 1 .. Len(Tail(s)) /\ B \subseteq 1 .. Len(s)
    BY DEF Marked
<1>3. \A i \in A : i \in Nat /\ i + 1 \in B
    BY <1>1 DEF Marked
<1>4. \A j \in B : j - 1 \in A /\ j = (j - 1) + 1
    <2> SUFFICES ASSUME NEW j \in B PROVE j - 1 \in A /\ j = (j - 1) + 1
        OBVIOUS
    <2>1. j \in 1 .. Len(s) /\ j # 1 /\ s[j].type = "result" /\ s[j].ok = ok
        BY DEF Marked
    <2>2. j - 1 \in 1 .. Len(Tail(s)) /\ j = (j - 1) + 1
        BY <1>1, <2>1
    <2>3. Tail(s)[j - 1] = s[j]
        BY <1>1, <2>2
    <2>. QED  BY <2>1, <2>2, <2>3 DEF Marked
<1> HIDE DEF A, B
<1>5. shift \in Bijection(A, B)
    <2>1. shift \in [A -> B]
        BY <1>3
    <2>2. \A i, j \in A : shift[i] = shift[j] => i = j
        BY <1>3
    <2>3. \A j \in B : \E i \in A : shift[i] = j
        BY <1>4
    <2>. QED  BY <2>1, <2>2, <2>3 DEF Bijection, Injection, Surjection, IsInjective
<1>6. ExistsBijection(A, B)
    BY <1>5 DEF ExistsBijection
<1>7. IsFiniteSet(A)
    BY <1>1, NumberType DEF A
<1>8. IsFiniteSet(B) /\ Cardinality(B) = Number(Tail(s), ok)
    BY <1>6, <1>7, FS_Bijection DEF Number, A
<1>9. CASE Head(s).type = "result" /\ Head(s).ok = ok
    <2>1. Marked(s, ok) = B \union {1} /\ 1 \notin B
        BY <1>1, <1>9 DEF Marked, B
    <2>. QED  BY <1>8, <1>9, <2>1, FS_AddElement DEF Number
<1>10. CASE ~ (Head(s).type = "result" /\ Head(s).ok = ok)
    <2>1. Marked(s, ok) = B
        BY <1>1, <1>10 DEF Marked, B
    <2>. QED  BY <1>8, <1>10, <2>1 DEF Number
<1>. QED  BY <1>9, <1>10

-----------------------------------------------------------------------------
(* The server's steps again: what they tell and what they count            *)

Tally == CountsTold /\ DoneOnItsWay /\ DoneShown

\* The newest analysis, as long as it is heard of and has the page to itself.
Heard == Alone /\ runs \in (1 .. runs) \ gone

LEMMA Sent ==
    ASSUME IInv, NEW r \in (1 .. runs) \ gone, NEW x \in Events
    PROVE  /\ Emit(r, <<x>>) => wire'[r] = Append(wire[r], x)
           /\ \A y \in Events : Emit(r, <<x, y>>) => wire'[r] = Append(Append(wire[r], x), y)
<1>1. r \in Runs
    BY Numbers DEF IInv, PageTypes, Runs
<1>2. wire[r] \in Seq(Events) /\ wire \in [Runs -> Seq(Events)]
    BY <1>1 DEF IInv, ServerTypes
<1>3. ASSUME NEW s \in Seq(Events)
      PROVE  s \o <<x>> = Append(s, x) /\ \A y \in Events : s \o <<x, y>> = Append(Append(s, x), y)
    OBVIOUS
<1>4. ASSUME NEW ev, Emit(r, ev) PROVE wire'[r] = wire[r] \o ev
    BY <1>1, <1>2, <1>4 DEF Emit
<1>. QED  BY <1>2, <1>3, <1>4

\* A step that the page hears nothing of.
LEMMA Unheard ==
    ASSUME CInv, UNCHANGED <<runs, scope, gone, beside, bulkDone, bulkResults>>,
           wire'[runs] = wire[runs], lost'[runs] = lost[runs],
           Heard => phase'[runs] = phase[runs] /\ counts'[runs] = counts[runs]
    PROVE  Tally'
<1>1. Alone' = Alone
    BY DEF Alone
<1>2. ASSUME NEW ok PROVE Total(ok)' = Total(ok)
    BY DEF Total, Got, Number, Marked
<1>3. ASSUME NEW e PROVE Told(e)' = Told(e)
    BY <1>2 DEF Told
<1>4. CountsTold'
    BY <1>1, <1>2 DEF CInv, CountsTold, Heard
<1>5. DoneOnItsWay'
    BY <1>1, <1>3 DEF CInv, DoneOnItsWay, Heard
<1>6. DoneShown'
    BY <1>1, <1>3 DEF CInv, DoneShown
<1>. QED  BY <1>4, <1>5, <1>6 DEF Tally

\* A step of the handler that is not heard of: of an older analysis, or for a
\* browser that is gone.
LEMMA UnheardServer ==
    ASSUME CInv, NEW r \in 1 .. runs, UNCHANGED <<runs, scope, gone, page>>,
           NEW ev, Emit(r, ev) \/ wire' = wire,
           \A q \in Runs \ {r} : phase'[q] = phase[q] /\ counts'[q] = counts[q] /\ lost'[q] = lost[q],
           r \in gone => lost' = lost,
           ~ (Heard /\ r = runs)
    PROVE  Tally'
<1>1. r \in Runs /\ runs \in Runs /\ wire \in [Runs -> Seq(Events)]
    BY Numbers DEF CInv, IInv, PageTypes, ServerTypes, Runs
<1>2. CASE r # runs
    <2>1. wire'[runs] = wire[runs] /\ lost'[runs] = lost[runs]
        BY <1>1, <1>2 DEF Emit
    <2>. QED  BY <1>1, <1>2, <2>1, Unheard DEF page
<1>3. CASE ~ Alone
    <2>1. Alone' = Alone
        BY DEF Alone, page
    <2>. QED  BY <1>3, <2>1 DEF Tally, CountsTold, DoneOnItsWay, DoneShown
<1>4. CASE r = runs /\ r \in gone
    <2>1. wire' = wire /\ lost' = lost /\ ~ Heard
        BY <1>4 DEF Emit, Heard
    <2>. QED  BY <2>1, Unheard DEF page
<1>. QED  BY <1>2, <1>3, <1>4 DEF Heard

\* What is so of an analysis under way.
LEMMA UnderWay ==
    ASSUME CInv, Heard, phase[runs] # "over"
    PROVE  /\ runs \in Runs /\ scope[runs] = "database" /\ wire[runs] \in Seq(Events)
           /\ bulkResults \in Seq(Events) /\ counts[runs] \in Counts
           /\ bulkDone = NoDone
           /\ Got(TRUE) + Number(wire[runs], TRUE) = counts[runs].analyzed
           /\ Got(FALSE) + Number(wire[runs], FALSE) = counts[runs].errors
           /\ Got(TRUE) \in Nat /\ Got(FALSE) \in Nat
           /\ todo \in [Runs -> Seq(D)] /\ phase \in [Runs -> Phases]
           /\ Len(todo[runs]) <= 1
<1>1. runs \in Runs /\ scope[runs] = "database"
    BY Numbers DEF CInv, IInv, PageTypes, Runs, Heard, Alone
<1>2. bulkResults \in Seq(Events)
    BY DEF CInv, IInv, PageTypes, Events
<1>3. /\ wire[runs] \in Seq(Events) /\ counts[runs] \in Counts
      /\ todo \in [Runs -> Seq(D)] /\ phase \in [Runs -> Phases]
    BY <1>1 DEF CInv, IInv, ServerTypes
<1>4. Len(todo[runs]) <= 1
    BY <1>1 DEF CInv, IInv, Single
<1>5. Got(TRUE) \in Nat /\ Got(FALSE) \in Nat
    <2> DEFINE a == Number(bulkResults, TRUE)
               b == Number(bulkResults, FALSE)
               l == lost[runs]
               g == Got(TRUE)
               h == Got(FALSE)
    <2>1. l \in Nat
        BY <1>1 DEF CInv, Losses
    <2>2. a \in Nat /\ b \in Nat
        BY <1>2, NumberType
    <2>3. g = a + l /\ h = b + 0
        BY DEF Got
    <2>4. g \in Nat /\ h \in Nat
        <3> HIDE DEF a, b, l, g, h
        <3>. QED  BY <2>1, <2>2, <2>3
    <2>. QED  BY <2>4
<1>. QED  BY <1>1, <1>2, <1>3, <1>4, <1>5 DEF CInv, CountsTold, Total, Heard

\* What is got changes with what is lost only, while the server takes a step.
LEMMA SameGot ==
    ASSUME UNCHANGED <<runs, page, lost>>, NEW ok PROVE Got(ok)' = Got(ok)
BY DEF Got, Number, Marked, page

\* It goes on: what is told and what is counted still agree.
LEMMA GoesOn ==
    ASSUME CInv, Heard, phase[runs] # "over", UNCHANGED <<runs, scope, gone, page>>,
           phase'[runs] # "over",
           Got(TRUE)' + Number(wire'[runs], TRUE) = counts'[runs].analyzed,
           Got(FALSE)' + Number(wire'[runs], FALSE) = counts'[runs].errors
    PROVE  Tally'
<1>1. bulkDone' = NoDone /\ runs' = runs
    BY UnderWay DEF page
<1>2. Total(TRUE)' = counts'[runs].analyzed /\ Total(FALSE)' = counts'[runs].errors
    BY <1>1 DEF Total, Number, Marked
<1>3. CountsTold'
    BY <1>1, <1>2 DEF CountsTold
<1>4. DoneOnItsWay' /\ DoneShown'
    BY <1>1 DEF DoneOnItsWay, DoneShown
<1>. QED  BY <1>3, <1>4 DEF Tally

\* It ends with a "done" that tells what was told.
LEMMA EndsWith ==
    ASSUME CInv, Heard, phase[runs] \notin {"none", "over"}, UNCHANGED <<runs, scope, gone, page>>,
           EndDatabase(runs), NEW s \in Seq(Events), NEW n \in Counts,
           wire'[runs] = Append(s, DoneEvent(n)),
           \/ /\ n = [analyzed |-> 0, errors |-> 1] /\ counts[runs] = Zero /\ s = wire[runs]
              /\ lost' = lost
           \/ /\ Got(TRUE)' + Number(s, TRUE) = n.analyzed
              /\ Got(FALSE)' + Number(s, FALSE) = n.errors
    PROVE  Tally'
<1>1. bulkDone' = NoDone /\ runs' = runs /\ runs \in Runs
    BY UnderWay DEF page
<1>2. phase'[runs] = "over"
    <2> DEFINE t == todo[runs]
    <2>1. t \in Seq(D) /\ t # <<>> /\ Len(t) <= 1
        BY <1>1, UnderWay DEF CInv, IInv, ServerTypes
    <2>2. Tail(t) = <<>>
        <3> HIDE DEF t
        <3>1. Len(t) \in Nat \ {0}
            BY <2>1, Rest
        <3>2. \A m \in Nat \ {0} : m <= 1 => m = 1
            OBVIOUS
        <3>3. Len(t) = 1
            BY ONLY <2>1, <3>1, <3>2
        <3>. QED  BY <2>1, <3>3, Rest
    <2>3. todo'[runs] = <<>>
        BY <1>1, <2>2, UnderWay DEF EndDatabase
    <2>. QED  BY <1>1, <2>3, UnderWay DEF EndDatabase
<1>3. DoneEvent(n) \in Events /\ DoneEvent(n).type = "done"
    BY DEF DoneEvent, Events, Dones, Counts
<1>4. \A ok \in BOOLEAN : Number(wire'[runs], ok) = Number(s, ok)
    BY <1>3, NumberAppend
<1>5. wire'[runs][Len(wire'[runs])] = DoneEvent(n)
    <2> HIDE DEF DoneEvent
    <2>. QED  BY <1>3
<1>6. \A ok \in BOOLEAN : Total(ok)' = Got(ok)' + Number(s, ok)
    BY <1>1, <1>4 DEF Total, Number, Marked
<1>7. Told(DoneEvent(n))'
    <2>1. CASE Got(TRUE)' + Number(s, TRUE) = n.analyzed /\ Got(FALSE)' + Number(s, FALSE) = n.errors
        BY <1>6, <2>1 DEF Told, DoneEvent
    <2>2. CASE /\ n = [analyzed |-> 0, errors |-> 1] /\ counts[runs] = Zero /\ s = wire[runs]
               /\ lost' = lost
        <3>1. counts[runs].analyzed = 0 /\ counts[runs].errors = 0 /\ n.analyzed = 0 /\ n.errors = 1
            BY <2>2 DEF Zero
        <3>2. Got(TRUE)' = Got(TRUE) /\ Got(FALSE)' = Got(FALSE)
            BY <2>2, SameGot
        <3>3. Total(TRUE)' = 0 /\ Total(FALSE)' = 0
            BY <1>6, <2>2, <3>1, <3>2, UnderWay
        <3>. QED  BY <3>1, <3>3 DEF Told, DoneEvent
    <2>. QED  BY <2>1, <2>2
<1>8. DoneOnItsWay'
    BY <1>1, <1>3, <1>5, <1>7 DEF DoneOnItsWay, Told
<1>9. CountsTold' /\ DoneShown'
    BY <1>1, <1>2 DEF CountsTold, DoneShown
<1>. QED  BY <1>8, <1>9 DEF Tally

LEMMA HandlerStopsTally == ASSUME CInv, NEW r \in 1 .. runs, HandlerStops(r) PROVE Rested' /\ Tally'
<1>1. /\ UNCHANGED <<runs, scope, gone, page, counts, wire, lost>> /\ r \in Runs /\ runs \in Runs
      /\ phase \in [Runs -> Phases] /\ phase' = [phase EXCEPT ![r] = "over"]
      /\ phase[r] = "list" /\ scope[r] = "all"
    BY Numbers DEF HandlerStops, CInv, IInv, PageTypes, ServerTypes, Runs
<1>2. Rested'
    BY <1>1 DEF CInv, Rested
<1>3. ~ (Heard /\ r = runs)
    BY <1>1 DEF Heard, Alone
<1>. QED  BY <1>1, <1>2, <1>3, UnheardServer

\* The end of a database takes its counts back.
LEMMA EndRests ==
    ASSUME CInv, NEW r \in 1 .. runs, EndDatabase(r)
    PROVE  /\ Rested'
           /\ \A q \in Runs \ {r} : phase'[q] = phase[q] /\ counts'[q] = counts[q]
<1>1. r \in Runs /\ phase \in [Runs -> Phases] /\ counts \in [Runs -> Counts]
    BY Numbers DEF CInv, IInv, PageTypes, ServerTypes, Runs
<1>2. counts' = [counts EXCEPT ![r] = Zero]
    BY DEF EndDatabase
<1>3. PICK p : phase' = [phase EXCEPT ![r] = p]
    BY DEF EndDatabase
<1>. QED  BY <1>1, <1>2, <1>3 DEF CInv, Rested

LEMMA ListFailsTally == ASSUME CInv, NEW r \in 1 .. runs, ListFails(r) PROVE Rested' /\ Tally'
<1> DEFINE n == [analyzed |-> 0, errors |-> 1]
<1>1. /\ UNCHANGED <<runs, scope, gone, page, lost>> /\ phase[r] = "list" /\ EndDatabase(r)
      /\ Emit(r, <<DoneEvent(n)>>)
    BY DEF ListFails
<1>2. CASE Heard /\ r = runs
    <2>1. n \in Counts /\ DoneEvent(n) \in Events
        BY DEF Counts, DoneEvent, Events, Dones
    <2>2. r \in (1 .. runs) \ gone /\ phase[r] # "over"
        BY <1>1, <1>2 DEF Heard
    <2>3. wire'[r] = Append(wire[r], DoneEvent(n))
        BY <1>1, <2>1, <2>2, Sent DEF CInv
    <2>4. wire[r] \in Seq(Events) /\ counts[r] = Zero
        BY <1>1, <1>2, <2>2, UnderWay DEF CInv, Rested
    <2> HIDE DEF n
    <2>5. n = [analyzed |-> 0, errors |-> 1]
        BY DEF n
    <2>. QED  BY <1>1, <1>2, <2>1, <2>2, <2>3, <2>4, <2>5, EndsWith, EndRests
<1>3. CASE ~ (Heard /\ r = runs)
    BY <1>1, <1>3, EndRests, UnheardServer
<1>. QED  BY <1>2, <1>3

\* A database that ends with the counts it has.
LEMMA StopsTally ==
    ASSUME CInv, NEW r \in 1 .. runs, phase[r] \notin {"none", "over"}, EndDatabase(r),
           UNCHANGED <<runs, scope, gone, page, lost>>, Emit(r, <<DoneEvent(counts[r])>>)
    PROVE  Rested' /\ Tally'
<1>1. CASE Heard /\ r = runs
    <2>1. r \in (1 .. runs) \ gone /\ counts[r] \in Counts
        BY <1>1, UnderWay DEF Heard
    <2>2. DoneEvent(counts[r]) \in Events
        BY <2>1 DEF DoneEvent, Events, Dones, Counts
    <2>3. wire'[r] = Append(wire[r], DoneEvent(counts[r]))
        BY <2>1, <2>2, Sent DEF CInv
    <2>4. Got(TRUE)' = Got(TRUE) /\ Got(FALSE)' = Got(FALSE)
        BY SameGot
    <2>5. /\ wire[r] \in Seq(Events)
          /\ Got(TRUE)' + Number(wire[r], TRUE) = counts[r].analyzed
          /\ Got(FALSE)' + Number(wire[r], FALSE) = counts[r].errors
        BY <1>1, <2>4, UnderWay
    <2>. QED  BY <1>1, <2>1, <2>3, <2>5, EndsWith, EndRests
<1>2. CASE ~ (Heard /\ r = runs)
    BY <1>2, EndRests, UnheardServer
<1>. QED  BY <1>1, <1>2

\* A step inside a database that tells what it counts.
LEMMA InsideTally ==
    ASSUME CInv, NEW r \in 1 .. runs, phase[r] \notin {"none", "over"},
           UNCHANGED <<runs, scope, gone, page>>, NEW ev, Emit(r, ev) \/ wire' = wire,
           NEW p \in {"check", "begin", "busy", "pause"}, phase' = [phase EXCEPT ![r] = p],
           \A q \in Runs \ {r} : counts'[q] = counts[q] /\ lost'[q] = lost[q],
           r \in gone => lost' = lost,
           Heard /\ r = runs =>
               /\ Got(TRUE)' + Number(wire'[r], TRUE) = counts'[r].analyzed
               /\ Got(FALSE)' + Number(wire'[r], FALSE) = counts'[r].errors
    PROVE  Rested' /\ Tally'
<1>1. r \in Runs /\ phase \in [Runs -> Phases]
    BY Numbers DEF CInv, IInv, PageTypes, ServerTypes, Runs
<1>2. phase'[r] = p /\ \A q \in Runs \ {r} : phase'[q] = phase[q]
    BY <1>1
<1>3. Rested'
    BY <1>2 DEF CInv, Rested
<1>4. CASE Heard /\ r = runs
    BY <1>2, <1>3, <1>4, GoesOn
<1>5. CASE ~ (Heard /\ r = runs)
    BY <1>2, <1>3, <1>5, UnheardServer
<1>. QED  BY <1>4, <1>5

\* A step inside a database that tells and counts nothing.
LEMMA QuietTally ==
    ASSUME CInv, NEW r \in 1 .. runs, phase[r] \notin {"none", "over"},
           UNCHANGED <<runs, scope, gone, page, counts, wire, lost>>,
           NEW p \in {"check", "begin", "busy", "pause"}, phase' = [phase EXCEPT ![r] = p]
    PROVE  Rested' /\ Tally'
<1>1. Got(TRUE)' = Got(TRUE) /\ Got(FALSE)' = Got(FALSE)
    BY SameGot
<1>2. Heard /\ r = runs =>
          /\ Got(TRUE)' + Number(wire'[r], TRUE) = counts'[r].analyzed
          /\ Got(FALSE)' + Number(wire'[r], FALSE) = counts'[r].errors
    BY <1>1, UnderWay
<1>. QED  BY <1>2, InsideTally

LEMMA ListTally ==
    ASSUME CInv, NEW r \in 1 .. runs, List(r) \/ StreamStops(r) PROVE Rested' /\ Tally'
<1>1. /\ phase[r] \notin {"none", "over"} /\ UNCHANGED <<runs, scope, gone, page, lost>>
      /\ r \in Runs /\ phase[r] = "list" => counts[r] = Zero
    BY Numbers DEF List, StreamStops, CInv, IInv, Rested, PageTypes, Runs
<1>2. CASE StreamStops(r)
    BY <1>1, <1>2, StopsTally DEF StreamStops
<1>3. CASE List(r) /\ tables[Head(todo[r])] = 0
    <2>1. counts[r] = Zero
        BY <1>3, Numbers DEF List, CInv, IInv, Rested, PageTypes, Runs
    <2>. QED  BY <1>1, <1>3, <2>1, StopsTally DEF List
<1>4. CASE List(r) /\ tables[Head(todo[r])] # 0
    <2>1. phase' = [phase EXCEPT ![r] = "check"] /\ UNCHANGED <<counts, wire>>
        BY <1>4 DEF List
    <2>. QED  BY <1>1, <2>1, QuietTally
<1>. QED  BY <1>2, <1>3, <1>4

LEMMA InsideQuietly ==
    ASSUME CInv, NEW r \in 1 .. runs, Check(r) \/ Begin(r) \/ Pause(r) PROVE Rested' /\ Tally'
<1>1. /\ phase[r] \notin {"none", "over"} /\ UNCHANGED <<runs, scope, gone, page, counts, wire, lost>>
    BY DEF Check, Begin, Pause
<1>2. PICK p \in {"check", "begin", "busy", "pause"} : phase' = [phase EXCEPT ![r] = p]
    BY DEF Check, Begin, Pause
<1>. QED  BY <1>1, <1>2, QuietTally

LEMMA AnalyzedTally ==
    ASSUME CInv, NEW r \in 1 .. runs, NEW ok \in BOOLEAN, NEW told \in BOOLEAN, ok \/ told,
           Analyzed(r, ok, told)
    PROVE  Rested' /\ Tally'
<1> DEFINE n == Counted(counts[r], ok)
           x == ResultEvent(r, ok)
           s == IF told THEN Append(wire[r], x) ELSE wire[r]
           y == DoneEvent(n)
<1>1. /\ phase[r] \notin {"none", "over"} /\ UNCHANGED <<runs, scope, gone, page>> /\ r \in Runs
      /\ counts[r] \in Counts /\ counts \in [Runs -> Counts] /\ wire[r] \in Seq(Events)
      /\ wire \in [Runs -> Seq(Events)]
    BY Numbers DEF Analyzed, CInv, IInv, PageTypes, ServerTypes, Runs
<1>2. n \in Counts
    BY <1>1 DEF Counted, Counts
<1>3. x \in Events /\ x.type = "result" /\ x.ok = ok
    BY <1>1 DEF ResultEvent, Results, Events
<1>4. /\ lost' = (IF told \/ r \in gone THEN lost ELSE [lost EXCEPT ![r] = lost[r] + 1])
      /\ lost \in [Runs -> Nat]
    BY DEF Analyzed, CInv, Losses
<1>5. (\A q \in Runs \ {r} : lost'[q] = lost[q]) /\ (r \in gone => lost' = lost)
    BY <1>4
<1>6. s \in Seq(Events)
    <2> HIDE DEF x
    <2>. QED  BY <1>1, <1>3
\* What is told or lost makes the same difference to both sides.
<1>7. ASSUME Heard, r = runs
      PROVE  Got(TRUE)' + Number(s, TRUE) = n.analyzed /\ Got(FALSE)' + Number(s, FALSE) = n.errors
    <2>1. /\ bulkResults \in Seq(Events) /\ r \notin gone
          /\ Got(TRUE) + Number(wire[r], TRUE) = counts[r].analyzed
          /\ Got(FALSE) + Number(wire[r], FALSE) = counts[r].errors
          /\ Got(TRUE) \in Nat /\ Got(FALSE) \in Nat
        BY <1>1, <1>7, UnderWay DEF Heard
    <2>2. Number(wire[r], TRUE) \in Nat /\ Number(wire[r], FALSE) \in Nat
        BY <1>1, NumberType
    <2>3. CASE told
        <3>1. Got(TRUE)' = Got(TRUE) /\ Got(FALSE)' = Got(FALSE)
            BY <1>1, <1>4, <2>3, SameGot
        <3>2. \A b \in BOOLEAN : Number(s, b) = IF ok = b THEN Number(wire[r], b) + 1 ELSE Number(wire[r], b)
            <4> HIDE DEF x
            <4>. QED  BY <1>1, <1>3, <2>3, NumberAppend
        <3>3. CASE ok = TRUE
            <4>1. n.analyzed = counts[r].analyzed + 1 /\ n.errors = counts[r].errors
                BY <1>1, <3>3 DEF Counted, Counts
            <4>2. Number(s, TRUE) = Number(wire[r], TRUE) + 1 /\ Number(s, FALSE) = Number(wire[r], FALSE)
                BY <3>2, <3>3
            <4> DEFINE a == Got(TRUE)
                       b == Got(FALSE)
                       c == Number(wire[r], TRUE)
                       d == Number(wire[r], FALSE)
                       c2 == Number(s, TRUE)
                       d2 == Number(s, FALSE)
            <4>3. a + c = counts[r].analyzed /\ b + d = counts[r].errors /\ a \in Nat /\ b \in Nat
                BY <2>1
            <4>4. c \in Nat /\ d \in Nat /\ c2 = c + 1 /\ d2 = d
                BY <2>2, <4>2
            <4> HIDE DEF n, s, a, b, c, d, c2, d2
            <4>5. a + c2 = n.analyzed /\ b + d2 = n.errors
                BY <4>1, <4>3, <4>4
            <4>. QED  BY <3>1, <4>5 DEF a, b, c2, d2
        <3>4. CASE ok = FALSE
            <4>1. n.analyzed = counts[r].analyzed /\ n.errors = counts[r].errors + 1
                BY <1>1, <3>4 DEF Counted, Counts
            <4>2. Number(s, TRUE) = Number(wire[r], TRUE) /\ Number(s, FALSE) = Number(wire[r], FALSE) + 1
                BY <3>2, <3>4
            <4> DEFINE a == Got(TRUE)
                       b == Got(FALSE)
                       c == Number(wire[r], TRUE)
                       d == Number(wire[r], FALSE)
                       c2 == Number(s, TRUE)
                       d2 == Number(s, FALSE)
            <4>3. a + c = counts[r].analyzed /\ b + d = counts[r].errors /\ a \in Nat /\ b \in Nat
                BY <2>1
            <4>4. c \in Nat /\ d \in Nat /\ c2 = c /\ d2 = d + 1
                BY <2>2, <4>2
            <4> HIDE DEF n, s, a, b, c, d, c2, d2
            <4>5. a + c2 = n.analyzed /\ b + d2 = n.errors
                BY <4>1, <4>3, <4>4
            <4>. QED  BY <3>1, <4>5 DEF a, b, c2, d2
        <3>. QED  BY <3>3, <3>4
    <2>4. CASE ~ told
        <3>1. ok = TRUE /\ s = wire[r]
            BY <2>4
        <3>2. n.analyzed = counts[r].analyzed + 1 /\ n.errors = counts[r].errors
            BY <1>1, <3>1 DEF Counted, Counts
        <3>3. lost'[runs'] = lost[runs] + 1 /\ lost[runs] \in Nat
            BY <1>1, <1>4, <1>7, <2>1, <2>4
        <3> DEFINE e == Number(bulkResults, TRUE)
                   a == Got(TRUE)
                   c == Number(wire[r], TRUE)
                   l == lost[runs]
                   a2 == Got(TRUE)'
                   k == counts[r].analyzed
                   k2 == n.analyzed
        <3>4. \A b \in BOOLEAN : Number(bulkResults, b) \in Nat /\ Number(bulkResults', b) = Number(bulkResults, b)
            BY <1>1, <2>1, NumberType DEF page
        <3>5. a2 = e + (l + 1) /\ a = e + l /\ e \in Nat /\ l \in Nat
            <4>1. Number(bulkResults', TRUE) = e /\ e \in Nat
                BY <3>4
            <4>2. a2 = Number(bulkResults', TRUE) + lost'[runs']
                BY DEF Got, Number, Marked
            <4>3. a = e + l
                BY DEF Got
            <4>. QED  BY <3>3, <4>1, <4>2, <4>3
        <3>6. Got(FALSE)' = Got(FALSE)
            <4>1. Number(bulkResults', FALSE) = Number(bulkResults, FALSE)
                BY <3>4
            <4>. QED  BY <4>1 DEF Got, Number, Marked
        <3>7. a2 = a + 1
            <4> HIDE DEF e, a, l, a2
            <4>. QED  BY <3>5
        <3>8. a + c = k /\ c \in Nat /\ a \in Nat /\ k2 = k + 1
            BY <2>1, <2>2, <3>2
        <3>9. Got(FALSE)' + Number(s, FALSE) = n.errors
            BY <2>1, <3>1, <3>2, <3>6
        <3>10. a2 + c = k2
            <4> HIDE DEF a, c, a2, k, k2
            <4>. QED  BY <3>7, <3>8
        <3>. QED  BY <3>1, <3>9, <3>10
    <2>. QED  BY <2>3, <2>4
<1>8. CASE at[r] < tables[Head(todo[r])]
    <2>1. /\ Emit(r, Outcome(r, ok, told)) /\ counts' = [counts EXCEPT ![r] = n]
          /\ phase' = [phase EXCEPT ![r] = "pause"]
        BY <1>8 DEF Analyzed, Outcome
    <2>2. counts'[r] = n /\ \A q \in Runs \ {r} : counts'[q] = counts[q]
        BY <1>1, <2>1
    <2>3. Heard /\ r = runs => wire'[r] = s
        <3> SUFFICES ASSUME Heard, r = runs PROVE wire'[r] = s
            OBVIOUS
        <3>1. wire'[r] = wire[r] \o Outcome(r, ok, told)
            BY <1>1, <2>1 DEF Emit, Heard
        <3>2. \A w \in Seq(Events) : \A e \in Events : w \o <<e>> = Append(w, e) /\ w \o <<>> = w
            OBVIOUS
        <3> HIDE DEF x
        <3>. QED  BY <1>1, <1>3, <3>1, <3>2 DEF Outcome, x
    <2> HIDE DEF n, s
    <2>. QED  BY <1>1, <1>5, <1>7, <2>1, <2>2, <2>3, InsideTally
<1>9. CASE ~ (at[r] < tables[Head(todo[r])])
    <2>1. Emit(r, Outcome(r, ok, told) \o <<y>>) /\ EndDatabase(r)
        BY <1>9 DEF Analyzed, Outcome
    <2>2. CASE Heard /\ r = runs
        <3>1. y \in Events
            BY <1>2 DEF DoneEvent, Events, Dones, Counts
        <3>2. wire'[r] = wire[r] \o (Outcome(r, ok, told) \o <<y>>)
            BY <1>1, <2>1, <2>2 DEF Emit, Heard
        <3>3. ASSUME NEW w \in Seq(Events), NEW e \in Events, NEW d \in Events
              PROVE  w \o (<<e>> \o <<d>>) = Append(Append(w, e), d) /\ w \o (<<>> \o <<d>>) = Append(w, d)
            OBVIOUS
        <3>4. wire'[r] = Append(s, y)
            <4> HIDE DEF x, y
            <4>. QED  BY <1>1, <1>3, <3>1, <3>2, <3>3 DEF Outcome, x
        <3> HIDE DEF n, s
        <3>. QED  BY <1>1, <1>2, <1>6, <1>7, <2>1, <2>2, <3>4, EndsWith, EndRests
    <2>3. CASE ~ (Heard /\ r = runs)
        BY <1>1, <1>5, <2>1, <2>3, EndRests, UnheardServer
    <2>. QED  BY <2>2, <2>3
<1>. QED  BY <1>8, <1>9

-----------------------------------------------------------------------------
(* The page's steps again                                                  *)

\* Another analysis begins with nothing told and nothing counted.
LEMMA RunAnalysisTally == ASSUME CInv, RunAnalysis PROVE Rested' /\ Tally'
<1> DEFINE n == runs + 1
<1>1. /\ runs \in Nat /\ n \in Runs /\ runs' = n /\ phase \in [Runs -> Phases]
      /\ UNCHANGED <<counts, wire, lost>> /\ bulkResults' = <<>> /\ bulkDone' = NoDone
      /\ phase[n] = "none" /\ wire[n] = <<>> /\ lost[n] = 0
    BY Numbers DEF RunAnalysis, CInv, IInv, PageTypes, ServerTypes, Runs, Losses
<1>2. PICK p : phase' = [phase EXCEPT ![n] = p]
    BY <1>1 DEF RunAnalysis
<1>3. Rested'
    BY <1>1, <1>2 DEF CInv, Rested
<1>4. counts[n] = Zero
    BY <1>1 DEF CInv, Rested
<1>5. Total(TRUE)' = 0 /\ Total(FALSE)' = 0
    <2>1. bulkResults' = <<>> /\ wire'[runs'] = <<>> /\ lost'[runs'] = 0
        BY <1>1
    <2>2. Number(<<>>, TRUE) = 0 /\ Number(<<>>, FALSE) = 0
        BY NumberOfNone
    <2> DEFINE a == Number(<<>>, TRUE)
               b == Number(<<>>, FALSE)
               g == Total(TRUE)'
               h == Total(FALSE)'
    <2>3. g = (a + 0) + a
        BY <2>1 DEF Total, Got
    <2>4. h = (b + 0) + b
        BY <2>1 DEF Total, Got
    <2>5. a = 0 /\ b = 0
        BY <2>2
    <2>6. g = 0 /\ h = 0
        <3> HIDE DEF a, b, g, h
        <3>. QED  BY <2>3, <2>4, <2>5
    <2>. QED  BY <2>6
<1>6. CountsTold'
    <2>1. bulkDone' = NoDone /\ counts'[runs'].analyzed = 0 /\ counts'[runs'].errors = 0
        BY <1>1, <1>4 DEF Zero
    <2>. QED  BY <1>5, <2>1 DEF CountsTold
<1>7. DoneOnItsWay' /\ DoneShown'
    BY <1>1 DEF DoneOnItsWay, DoneShown
<1>. QED  BY <1>3, <1>6, <1>7 DEF Tally

\* What is delivered moves from the wire to the list; the "done", which is the
\* last, is shown with nothing behind it.
LEMMA DeliverTally == ASSUME CInv, NEW r \in 1 .. runs, Deliver(r) PROVE Rested' /\ Tally'
<1> DEFINE w == wire[r]
           e == Head(w)
<1>1. /\ r \in Runs /\ r \notin gone /\ w # <<>> /\ wire' = [wire EXCEPT ![r] = Tail(w)]
      /\ UNCHANGED <<runs, scope, phase, counts, gone, beside, lost>>
      /\ wire \in [Runs -> Seq(Events)] /\ bulkResults \in Seq(Events) /\ w \in Seq(Events)
    <2>1. r \in Runs /\ bulkResults \in Seq(Events)
        BY Numbers DEF CInv, IInv, PageTypes, Runs, Events
    <2>2. wire \in [Runs -> Seq(Events)]
        BY DEF CInv, IInv, ServerTypes
    <2>. QED  BY <2>1, <2>2 DEF Deliver, server
<1>2. Rested' /\ Alone' = Alone
    BY <1>1 DEF CInv, Rested, Alone
<1>3. CASE ~ Alone
    BY <1>2, <1>3 DEF Tally, CountsTold, DoneOnItsWay, DoneShown
<1>4. CASE Alone
    <2>1. r = runs /\ scope[r] = "database" /\ Heard
        BY <1>1, <1>4 DEF CInv, IInv, Ended, Silent, PageTypes, Alone, Heard
    <2>2. wire'[runs] = Tail(w)
        BY <1>1, <2>1
    <2>3. \A i \in 1 .. Len(w) : w[i].type = "done" => i = Len(w) /\ phase[r] = "over"
        BY <1>1, <2>1 DEF CInv, IInv, Single
    <2>4. bulkDone = NoDone
        BY <1>1, <2>1 DEF CInv, CountsTold, DoneOnItsWay, Heard
    <2>5. /\ phase[r] # "over" => Total(TRUE) = counts[r].analyzed /\ Total(FALSE) = counts[r].errors
          /\ phase[r] = "over" => w[Len(w)].type = "done" /\ Told(w[Len(w)])
        BY <1>1, <2>1 DEF CInv, CountsTold, DoneOnItsWay, Heard
    <2>6. \/ /\ e.type = "result" /\ bulkResults' = Append(bulkResults, e)
             /\ UNCHANGED bulkDone
          \/ /\ e.type = "done" /\ UNCHANGED bulkResults
             /\ bulkDone' = [analyzed |-> e.analyzed, errors |-> e.errors]
        BY DEF Deliver
    <2> HIDE DEF w
    <2>7. /\ e \in Events /\ e = w[1] /\ 1 \in 1 .. Len(w) /\ Tail(w) \in Seq(Events)
          /\ Len(Tail(w)) = Len(w) - 1 /\ Len(w) \in Nat \ {0}
          /\ Len(w) = 1 => Tail(w) = <<>>
          /\ \A i \in 1 .. Len(Tail(w)) : Tail(w)[i] = w[i + 1] /\ i + 1 \in 1 .. Len(w)
        BY <1>1, Rest
    <2>8. \A ok \in BOOLEAN : Number(w, ok) =
              IF e.type = "result" /\ e.ok = ok THEN Number(Tail(w), ok) + 1 ELSE Number(Tail(w), ok)
        BY <1>1, NumberTail
    <2> HIDE DEF e
    <2>9. \A ok \in BOOLEAN : Number(bulkResults', ok) =
              IF e.type = "result" /\ e.ok = ok THEN Number(bulkResults, ok) + 1
              ELSE Number(bulkResults, ok)
        <3>1. CASE e.type = "result"
            <4>1. bulkResults' = Append(bulkResults, e)
                BY <2>6, <3>1
            <4>. QED  BY <1>1, <2>7, <3>1, <4>1, NumberAppend
        <3>2. CASE e.type # "result"
            <4>1. bulkResults' = bulkResults
                BY <2>6, <3>2
            <4>. QED  BY <3>2, <4>1
        <3>. QED  BY <3>1, <3>2
    <2>10. \A ok \in BOOLEAN : /\ Number(bulkResults, ok) \in Nat
                               /\ Number(Tail(w), ok) \in Nat /\ Number(w, ok) \in Nat
        BY <1>1, <2>7, NumberType
    <2>11. \A ok \in BOOLEAN : Got(ok)' + Number(Tail(w), ok) = Total(ok)
        <3> SUFFICES ASSUME NEW ok \in BOOLEAN
                     PROVE  Got(ok)' + Number(Tail(w), ok) = Total(ok)
            OBVIOUS
        <3> DEFINE l == IF ok THEN lost[runs] ELSE 0
                   a == Number(bulkResults, ok)
                   a2 == Number(bulkResults', ok)
                   b == Number(w, ok)
                   b2 == Number(Tail(w), ok)
        <3>1. a \in Nat /\ b \in Nat /\ b2 \in Nat /\ l \in Nat
            <4>1. lost[runs] \in Nat
                BY <1>1, <2>1 DEF CInv, Losses
            <4>. QED  BY <2>10, <4>1
        <3>2. (b = b2 + 1 /\ a2 = a + 1) \/ (b = b2 /\ a2 = a)
            BY <2>8, <2>9
        <3>3. Total(ok) = (a + l) + b
            BY <2>1 DEF Total, Got, w
        <3>4. Got(ok)' = a2 + l
            BY <1>1 DEF Got, Number, Marked
        <3> HIDE DEF a, a2, b, b2, l
        <3>5. (a2 + l) + b2 = (a + l) + b
            BY <3>1, <3>2
        <3>. QED  BY <3>3, <3>4, <3>5 DEF b2
    <2>12. \A ok \in BOOLEAN : Total(ok)' = Total(ok)
        BY <1>1, <2>2, <2>11 DEF Total, Number, Marked
    <2>13. \A d : Told(d)' = Told(d)
        BY <2>12 DEF Told
    <2>14. CASE e.type = "done"
        <3>1. Len(w) = 1 /\ phase[r] = "over"
            BY <2>3, <2>7, <2>14
        <3>2. wire'[runs] = <<>> /\ Told(e)
            BY <2>2, <2>5, <2>7, <3>1
        <3>3. bulkDone' = [analyzed |-> e.analyzed, errors |-> e.errors]
            BY <2>6, <2>14
        <3>4. Told(bulkDone)'
            <4>1. Total(TRUE)' = Total(TRUE) /\ Total(FALSE)' = Total(FALSE)
                BY <2>12
            <4>. QED  BY <3>2, <3>3, <4>1 DEF Told
        <3>5. DoneShown'
            BY <1>1, <2>1, <3>2, <3>4 DEF DoneShown, Heard
        <3>6. CountsTold' /\ DoneOnItsWay'
            BY <1>1, <2>1, <3>1, <3>2 DEF CountsTold, DoneOnItsWay
        <3>. QED  BY <1>2, <3>5, <3>6 DEF Tally
    <2>15. CASE e.type # "done"
        <3>1. bulkDone' = NoDone
            BY <2>4, <2>6, <2>15
        <3>2. CountsTold'
            BY <1>1, <2>1, <2>5, <2>12, <3>1 DEF CountsTold
        <3>3. DoneOnItsWay'
            <4>1. ASSUME phase[r] = "over", Tail(w) # <<>>
                  PROVE  Tail(w)[Len(Tail(w))] = w[Len(w)]
                <5>1. Len(Tail(w)) \in 1 .. Len(Tail(w))
                    BY <2>7, <4>1, Rest
                <5>2. Tail(w)[Len(Tail(w))] = w[Len(Tail(w)) + 1]
                    BY <2>7, <5>1
                <5>3. Len(Tail(w)) + 1 = Len(w)
                    BY <2>7
                <5>. QED  BY <5>2, <5>3
            <4>. QED  BY <1>1, <2>1, <2>2, <2>5, <2>13, <3>1, <4>1 DEF DoneOnItsWay, Told
        <3>4. DoneShown'
            BY <3>1 DEF DoneShown
        <3>. QED  BY <1>2, <3>2, <3>3, <3>4 DEF Tally
    <2>. QED  BY <2>14, <2>15
<1>. QED  BY <1>3, <1>4

\* Nothing more is heard of an analysis: what is shown is all there is.
LEMMA NoMore ==
    ASSUME CInv, NEW r \in 1 .. runs, gone' = gone \union {r}, wire' = [wire EXCEPT ![r] = <<>>],
           UNCHANGED <<runs, scope, server, beside, bulkResults, bulkDone>>, Alone => r = runs
    PROVE  Rested' /\ Tally'
<1>1. r \in Runs /\ wire \in [Runs -> Seq(Events)] /\ UNCHANGED <<phase, counts, lost>>
    BY Numbers DEF CInv, IInv, PageTypes, ServerTypes, Runs, server
<1>2. Rested' /\ Alone' = Alone
    BY <1>1 DEF CInv, Rested, Alone
<1>3. CountsTold' /\ DoneOnItsWay'
    BY <1>2 DEF CountsTold, DoneOnItsWay
<1>4. DoneShown'
    <2> SUFFICES ASSUME Alone, bulkDone # NoDone
                 PROVE  runs \in 1 .. runs /\ wire'[runs] = <<>> /\ Told(bulkDone)'
        BY <1>2 DEF DoneShown
    <2>1. wire[runs] = <<>> /\ Told(bulkDone) /\ runs \in 1 .. runs
        BY DEF CInv, DoneShown
    <2>2. wire'[runs] = wire[runs]
        BY <1>1, <2>1
    <2>3. Told(bulkDone)'
        BY <1>1, <2>1, <2>2 DEF Told, Total, Got, Number, Marked
    <2>. QED  BY <2>1, <2>2, <2>3
<1>. QED  BY <1>2, <1>3, <1>4 DEF Tally

LEMMA BreakTally ==
    ASSUME CInv, NEW r \in 1 .. runs, Break(r) \/ Truncate(r) PROVE Rested' /\ Tally'
<1>1. r \notin gone /\ (phase[r] # "over" \/ wire[r] # <<>>)
    BY DEF Break, Truncate
<1>2. Alone => r = runs
    BY <1>1 DEF CInv, IInv, Ended, Silent, Alone
<1>. QED  BY <1>2, NoMore DEF Break, Truncate

\* What neither the server's nor the page's part of an analysis changes by.
LEMMA StillTally ==
    ASSUME CInv, UNCHANGED <<runs, scope, gone, phase, counts, wire, lost, beside, bulkDone, bulkResults>>
    PROVE  Rested' /\ Tally'
<1>1. Rested'
    BY DEF CInv, Rested
<1>. QED  BY <1>1, Unheard

LEMMA ConfirmStopTally == ASSUME CInv, ConfirmStop PROVE Rested' /\ Tally'
<1>1. UNCHANGED <<runs, scope, server, beside, bulkResults, bulkDone>>
    BY DEF ConfirmStop
<1>2. CASE abortRef # 0
    <2>1. runs \in 1 .. runs /\ abortRef = runs
        BY <1>2, Numbers DEF CInv, IInv, PageTypes
    <2>2. gone' = gone \union {runs} /\ wire' = [wire EXCEPT ![runs] = <<>>]
        BY <1>2, <2>1 DEF ConfirmStop
    <2>. QED  BY <1>1, <2>1, <2>2, NoMore
<1>3. CASE abortRef = 0
    BY <1>1, <1>3, StillTally DEF ConfirmStop, server
<1>. QED  BY <1>2, <1>3

-----------------------------------------------------------------------------

LEMMA StepLosses == ASSUME CInv, [Next]_vars PROVE Losses'
<1>1. lost \in [Runs -> Nat] /\ (\A r \in Runs : r > runs => lost[r] = 0) /\ runs \in 0 .. MaxRuns
    BY DEF CInv, IInv, PageTypes, Losses
<1>2. CASE lost' = lost /\ runs' \in {runs, runs + 1}
    BY <1>1, <1>2, Numbers DEF Losses, Runs
<1>3. CASE UNCHANGED vars
    BY <1>2, <1>3 DEF vars, server
<1>4. CASE Analyze \/ FollowLink \/ AskStop \/ CancelStop \/ ConfirmStop
    BY <1>2, <1>4 DEF Analyze, FollowLink, RunAnalysis, AskStop, CancelStop, ConfirmStop, server
<1>5. ASSUME NEW r \in 1 .. runs, Notice(r) \/ Deliver(r) \/ Break(r) \/ Truncate(r) PROVE Losses'
    BY <1>2, <1>5 DEF Notice, Deliver, Break, Truncate, server
<1>6. ASSUME NEW r \in 1 .. runs, Handle(r) PROVE Losses'
    <2>1. runs' = runs
        BY <1>6 DEF Handle, HandlerStops, ListFails, List, Check, Begin, StreamStops, Pause, Analyzed
    <2>2. lost' = lost \/ lost' = [lost EXCEPT ![r] = lost[r] + 1]
        BY <1>6 DEF Handle, HandlerStops, ListFails, List, Check, Begin, StreamStops, Pause, Analyzed
    <2>3. r \in Runs /\ lost[r] \in Nat
        BY <1>1, Numbers DEF Runs
    <2>. QED  BY <1>1, <2>1, <2>2, <2>3 DEF Losses
<1>. QED  BY <1>3, <1>4, <1>5, <1>6 DEF Next

LEMMA StepTally == ASSUME CInv, [Next]_vars PROVE CInv'
<1>1. IInv' /\ Losses'
    BY StepInv, StepLosses DEF CInv
<1>2. ASSUME UNCHANGED vars PROVE Rested' /\ Tally'
    BY <1>2, StillTally DEF vars, server, page
<1>3. ASSUME Analyze \/ FollowLink \/ ConfirmStop PROVE Rested' /\ Tally'
    BY <1>3, RunAnalysisTally, ConfirmStopTally DEF Analyze, FollowLink
<1>4. ASSUME AskStop \/ CancelStop PROVE Rested' /\ Tally'
    BY <1>4, StillTally DEF AskStop, CancelStop, server
<1>5. ASSUME NEW r \in 1 .. runs, Handle(r) PROVE Rested' /\ Tally'
    BY <1>5, HandlerStopsTally, ListFailsTally, ListTally, InsideQuietly, AnalyzedTally
       DEF Handle
<1>6. ASSUME NEW r \in 1 .. runs, Notice(r) PROVE Rested' /\ Tally'
    BY <1>6, StillTally DEF Notice, server, page
<1>7. ASSUME NEW r \in 1 .. runs, Deliver(r) \/ Break(r) \/ Truncate(r) PROVE Rested' /\ Tally'
    BY <1>7, DeliverTally, BreakTally
<1>8. Rested' /\ Tally'
    BY <1>2, <1>3, <1>4, <1>5, <1>6, <1>7 DEF Next
<1>. QED  BY <1>1, <1>8 DEF CInv, Tally

\* The server's count of the tables of an analysis that has the page to itself
\* is that of the results listed, on the wire and lost, and the figures of its
\* "done" are the count it ended with.
THEOREM BulkTally == Spec => []CInv
<1>1. Init => CInv
    <2> SUFFICES ASSUME Init PROVE CInv
        OBVIOUS
    <2>1. Rested /\ Losses /\ runs = 0 /\ bulkDone = NoDone
        BY DEF Init, Rested, Losses
    <2>. QED  BY <2>1, InitInv DEF CInv, CountsTold, DoneOnItsWay, DoneShown
<1>2. CInv /\ [Next]_vars => CInv'
    BY StepTally
<1>. QED  BY <1>1, <1>2, PTL DEF Spec

\* "Analysis complete: ... analyzed, ... errors" (TableOptimizer.tsx) tells the
\* results listed below it and those that writeSSE lost, or one error when the
\* tables could not be listed (the counters of StreamBulkAnalysis), as long as
\* the analysis has the page to itself.
THEOREM BulkDoneCountsResults == Spec => []DoneCountsResults
<1>1. CInv => DoneCountsResults
    <2> SUFFICES ASSUME CInv, Alone, bulkDone # NoDone
                 PROVE  \/ bulkResults = <<>> /\ bulkDone.analyzed = 0 /\ bulkDone.errors = 1
                        \/ /\ Shown(TRUE) + lost[runs] = bulkDone.analyzed
                           /\ Shown(FALSE) = bulkDone.errors
        BY DEF DoneCountsResults
    <2>1. bulkResults \in Seq(Results) /\ bulkResults \in Seq(Events) /\ lost[runs] \in Nat
        BY Numbers DEF CInv, IInv, PageTypes, Events, Losses, Alone, Runs
    <2>2. wire[runs] = <<>> /\ Told(bulkDone)
        BY DEF CInv, DoneShown
    <2>3. Number(bulkResults, TRUE) \in Nat /\ Number(bulkResults, FALSE) \in Nat
        BY <2>1, NumberType
    <2>4. /\ Total(TRUE) = Number(bulkResults, TRUE) + lost[runs]
          /\ Total(FALSE) = Number(bulkResults, FALSE)
        <3> DEFINE a == Number(bulkResults, TRUE)
                   b == Number(bulkResults, FALSE)
                   c == Number(<<>>, TRUE)
                   d == Number(<<>>, FALSE)
                   l == lost[runs]
                   g == Total(TRUE)
                   h == Total(FALSE)
        <3>1. c = 0 /\ d = 0 /\ a \in Nat /\ b \in Nat /\ l \in Nat
            BY <2>1, <2>3, NumberOfNone
        <3>2. g = (a + l) + c
            BY <2>2 DEF Total, Got
        <3>3. h = (b + 0) + d
            BY <2>2 DEF Total, Got
        <3>4. g = a + l /\ h = b
            <4> HIDE DEF a, b, c, d, l, g, h
            <4>. QED  BY <3>1, <3>2, <3>3
        <3>. QED  BY <3>4
    <2>5. \A ok \in BOOLEAN : Marked(bulkResults, ok) = {i \in DOMAIN bulkResults : bulkResults[i].ok = ok}
        <3>1. DOMAIN bulkResults = 1 .. Len(bulkResults)
            BY <2>1
        <3>2. ASSUME NEW i \in 1 .. Len(bulkResults) PROVE bulkResults[i].type = "result"
            <4>1. bulkResults[i] \in Results
                BY <2>1
            <4>. QED  BY <4>1 DEF Results
        <3>. QED  BY <3>1, <3>2 DEF Marked
    <2>6. Shown(TRUE) = Number(bulkResults, TRUE) /\ Shown(FALSE) = Number(bulkResults, FALSE)
        BY <2>5 DEF Shown, Number
    <2>7. Total(TRUE) = 0 /\ Total(FALSE) = 0 => bulkResults = <<>>
        <3> SUFFICES ASSUME Total(TRUE) = 0, Total(FALSE) = 0, bulkResults # <<>> PROVE FALSE
            OBVIOUS
        <3> DEFINE a == Number(bulkResults, TRUE)
                   b == Number(bulkResults, FALSE)
        <3>1. a = 0 /\ b = 0
            <4>1. a + lost[runs] = 0 /\ b = 0 /\ a \in Nat
                BY <2>3, <2>4
            <4> HIDE DEF a, b
            <4>. QED  BY <2>1, <4>1
        <3>2. \A ok \in BOOLEAN : Marked(bulkResults, ok) = {}
            BY <2>1, <3>1, NumberType, FS_EmptySet DEF Number
        <3>3. 1 \in 1 .. Len(bulkResults) /\ bulkResults[1] \in Results
            BY <2>1
        <3>4. bulkResults[1].ok \in BOOLEAN /\ bulkResults[1].type = "result"
            BY <3>3 DEF Results
        <3>. QED  BY <3>2, <3>3, <3>4 DEF Marked
    <2>. QED  BY <2>2, <2>4, <2>6, <2>7 DEF Told
<1>. QED  BY <1>1, BulkTally, PTL
=============================================================================
