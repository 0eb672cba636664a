-------------------------- MODULE TextCallsProofs --------------------------
(***************************************************************************)
(* Proofs about the functions of TextCalls, for texts of any length: the   *)
(* statements that splitQueries returns are those that ClickHouse reads,   *)
(* but for the texts that StatementsAreMeant excepts; a comparison of      *)
(* plans loses nothing and finds all that they have in common; the tree of *)
(* a plan is the one that was printed; a time of the server's clock is     *)
(* converted to one of the same instant.                                   *)
(*                                                                         *)
(* A function that works on a sequence is proved about by induction over   *)
(* a set of natural numbers (SetInduction): the numbers up to which the    *)
(* prefixes of the sequence, the cells of the table, or the tokens or the  *)
(* lines of the text have the property.                                    *)
(***************************************************************************)
EXTENDS TextCalls, Sequences, SequenceTheorems, FiniteSetTheorems, WellFoundedInduction, TLAPS

ClockFields == {"wall", "zone", "browser", "display", "utc", "passes", "out"}

\* The guess after each pass.
ClockInv ==
    /\ DOMAIN calc = ClockFields
    /\ calc.wall \in 0 .. Horizon /\ calc.browser \in Clock!Zones
    /\ calc.zone \in Clock!Zones \union {NoZone}
    /\ calc.passes \in 0 .. 2
    /\ Clock!Converts =>
         calc.utc = LET first == calc.wall - Clock!OffsetAt(calc.wall, calc.zone)
                    IN  CASE calc.passes = 0 -> calc.wall
                          [] calc.passes = 1 -> first
                          [] calc.passes = 2 -> calc.wall - Clock!OffsetAt(first, calc.zone)
    /\ Clock!Converts /\ calc.out # {} =>
         calc.passes = 2 /\ calc.out = {Clock!Wall(calc.utc, calc.browser)}

-----------------------------------------------------------------------------
(* The server's clock                                                      *)

\* Two passes find an instant at which the clock reads what is converted,
\* where there is one: the second guess is off by the difference of the
\* offsets at most, and is on the wrong side of the change only in the hour
\* that is skipped.
LEMMA TwoPassesAreEnough ==
    ASSUME NEW zone \in Clock!Zones, NEW wall \in 0 .. Horizon,
           NEW t \in Int, Clock!Wall(t, zone) = wall,
           NEW u, u = wall - Clock!OffsetAt(wall - Clock!OffsetAt(wall, zone), zone)
    PROVE  u \in -MaxOffset .. Horizon + MaxOffset /\ Clock!Wall(u, zone) = wall
<1>1. PICK before \in -MaxOffset .. MaxOffset, after \in -MaxOffset .. MaxOffset, at \in 0 .. Horizon :
         /\ after - before \in {-1, 0, 1}
         /\ zone.before = before /\ zone.after = after /\ zone.at = at
    BY DEF Clock!Zones, Clock!Offsets
<1>2. \A s : Clock!OffsetAt(s, zone) = IF s < at THEN before ELSE after
    BY <1>1 DEF Clock!OffsetAt
<1>3. t + (IF t < at THEN before ELSE after) = wall
    BY <1>2 DEF Clock!Wall
<1>4. u = wall - (IF wall - (IF wall < at THEN before ELSE after) < at THEN before ELSE after)
    BY <1>2
<1>5. u + (IF u < at THEN before ELSE after) = wall
    BY <1>1, <1>3, <1>4
<1>6. u \in -MaxOffset .. Horizon + MaxOffset
    BY <1>4, ClockAssumption
<1>. QED  BY <1>2, <1>5, <1>6 DEF Clock!Wall

LEMMA ClockInitInv ==
    ASSUME Clock!Init PROVE ClockInv
<1>1. PICK zone \in Clock!Zones \union {NoZone}, browser \in Clock!Zones, wall \in 0 .. Horizon,
           display \in {"server", "browser"} :
         calc = [wall |-> wall, zone |-> zone, browser |-> browser, display |-> display,
                 utc |-> wall, passes |-> 0, out |-> {}]
    BY DEF Clock!Init
<1>2. /\ DOMAIN calc = ClockFields /\ calc.wall = wall /\ calc.browser = browser
      /\ calc.zone = zone /\ calc.passes = 0 /\ calc.utc = wall /\ calc.out = {}
    BY <1>1 DEF ClockFields
<1>. QED  BY <1>2 DEF ClockInv

LEMMA ClockStepInv ==
    ASSUME ClockInv, Clock!Next PROVE ClockInv'
<1>1. /\ DOMAIN calc = ClockFields /\ calc.passes \in 0 .. 2 /\ calc.wall \in 0 .. Horizon
      /\ calc.browser \in Clock!Zones /\ calc.zone \in Clock!Zones \union {NoZone}
    BY DEF ClockInv
<1>2. CASE Clock!Keep
    <2>1. /\ DOMAIN calc' = ClockFields /\ calc'.wall = calc.wall /\ calc'.zone = calc.zone
          /\ calc'.browser = calc.browser /\ calc'.display = calc.display
          /\ calc'.passes = calc.passes /\ ~ Clock!Converts
        BY <1>1, <1>2 DEF Clock!Keep, ClockFields
    <2>2. ~ Clock!Converts'
        BY <2>1 DEF Clock!Converts
    <2>. QED  BY <1>1, <2>1, <2>2 DEF ClockInv
<1>3. CASE Clock!Correct
    <2>1. /\ DOMAIN calc' = ClockFields /\ calc'.wall = calc.wall /\ calc'.zone = calc.zone
          /\ calc'.browser = calc.browser /\ calc'.display = calc.display
          /\ calc'.passes = calc.passes + 1 /\ calc'.out = calc.out
          /\ calc'.utc = calc.wall - Clock!OffsetAt(calc.utc, calc.zone)
        BY <1>1, <1>3 DEF Clock!Correct, ClockFields
    <2>2. Clock!Converts /\ calc.passes < 2
        BY <1>3 DEF Clock!Correct, Clock!Passes
    <2>3. calc.out = {}
        BY <2>2 DEF ClockInv
    <2> DEFINE first == calc.wall - Clock!OffsetAt(calc.wall, calc.zone)
    <2>4. /\ calc.passes = 0 => calc.utc = calc.wall
          /\ calc.passes = 1 => calc.utc = first
        BY <2>2 DEF ClockInv
    <2>5. /\ calc'.passes = 1 => calc'.utc = first
          /\ calc'.passes = 2 => calc'.utc = calc.wall - Clock!OffsetAt(first, calc.zone)
          /\ calc'.passes \in {1, 2}
        BY <1>1, <2>1, <2>2, <2>4
    <2>. QED  BY <1>1, <2>1, <2>3, <2>5 DEF ClockInv
<1>4. CASE Clock!Render
    <2>1. /\ DOMAIN calc' = ClockFields /\ calc'.wall = calc.wall /\ calc'.zone = calc.zone
          /\ calc'.browser = calc.browser /\ calc'.display = calc.display
          /\ calc'.passes = calc.passes /\ calc'.utc = calc.utc
          /\ calc'.out = {Clock!Wall(calc.utc, calc.browser)}
        BY <1>1, <1>4 DEF Clock!Render, ClockFields
    <2>2. Clock!Converts /\ calc.passes = 2
        BY <1>4 DEF Clock!Render, Clock!Passes
    <2>3. calc.utc = calc.wall - Clock!OffsetAt(calc.wall - Clock!OffsetAt(calc.wall, calc.zone), calc.zone)
        BY <2>2 DEF ClockInv
    <2>. QED  BY <1>1, <2>1, <2>2, <2>3 DEF ClockInv
<1>. QED  BY <1>2, <1>3, <1>4 DEF Clock!Next

LEMMA ClockHolds ==
    ASSUME ClockInv PROVE Clock!InstantIsRight
<1>. SUFFICES ASSUME calc.out # {}, Clock!Converts,
                     NEW t \in Clock!Instants(calc.wall, calc.zone)
              PROVE  \E s \in Clock!Instants(calc.wall, calc.zone) : calc.out = {Clock!Wall(s, calc.browser)}
    BY DEF Clock!InstantIsRight
<1>1. calc.zone \in Clock!Zones /\ calc.wall \in 0 .. Horizon
    BY DEF ClockInv, Clock!Converts
<1>2. /\ calc.utc = calc.wall - Clock!OffsetAt(calc.wall - Clock!OffsetAt(calc.wall, calc.zone), calc.zone)
      /\ calc.out = {Clock!Wall(calc.utc, calc.browser)}
    BY DEF ClockInv
<1>3. t \in Int /\ Clock!Wall(t, calc.zone) = calc.wall
    BY DEF Clock!Instants
<1>4. calc.utc \in Clock!Instants(calc.wall, calc.zone)
    BY <1>1, <1>2, <1>3, TwoPassesAreEnough DEF Clock!Instants
<1>. QED  BY <1>2, <1>4

-----------------------------------------------------------------------------
(* Induction, and the sequences that it flattens                           *)

\* Induction over a set, as the least element of its complement.
LEMMA SetInduction ==
    ASSUME NEW S, 0 \in S, \A n \in Nat : n \in S => n + 1 \in S
    PROVE  Nat \subseteq S
<1>. SUFFICES ASSUME Nat \ S # {} PROVE FALSE
    OBVIOUS
<1>. DEFINE T == Nat \ S
<1>1. PICK x \in T : \A y \in T : ~ (<<y, x>> \in OpToRel(<, Nat))
    <2>1. T \subseteq Nat /\ T # {}
        OBVIOUS
    <2>. HIDE DEF T
    <2>. QED  BY <2>1, NatLessThanWellFounded, WFMin
<1>2. x # 0 /\ x - 1 \in Nat /\ x - 1 \in T
    OBVIOUS
<1>3. <<x - 1, x>> \in OpToRel(<, Nat)
    BY <1>2 DEF OpToRel
<1>. QED  BY <1>1, <1>2, <1>3

\* What FlattenSeq computes of a sequence of sequences, by their number.
Flattens(f, ss) == f = [i \in 1 .. Len(ss) |-> IF i = 1 THEN ss[i] ELSE f[i - 1] \o ss[i]]

LEMMA FlattensAt ==
    ASSUME NEW ss, Len(ss) \in Nat, NEW f, Flattens(f, ss), NEW k \in 1 .. Len(ss)
    PROVE  f[k] = IF k = 1 THEN ss[k] ELSE f[k - 1] \o ss[k]
<1>. DEFINE h(i) == IF i = 1 THEN ss[i] ELSE f[i - 1] \o ss[i]
<1>1. f = [i \in 1 .. Len(ss) |-> h(i)]
    BY DEF Flattens
<1>. HIDE DEF h
<1>2. f[k] = h(k)
    BY <1>1
<1>. QED  BY <1>2 DEF h

LEMMA FlattensIf ==
    ASSUME NEW ss, Len(ss) \in Nat, NEW F,
           \A i \in 1 .. Len(ss) : F[i] = IF i = 1 THEN ss[i] ELSE F[i - 1] \o ss[i]
    PROVE  \E f : Flattens(f, ss)
<1>. DEFINE f == [i \in 1 .. Len(ss) |-> F[i]]
            h(i) == IF i = 1 THEN ss[i] ELSE f[i - 1] \o ss[i]
<1>1. ASSUME NEW i \in 1 .. Len(ss) PROVE f[i] = h(i)
    <2>1. i = 1 \/ i - 1 \in 1 .. Len(ss)
        OBVIOUS
    <2>2. f[i] = F[i] /\ (i = 1 \/ f[i - 1] = F[i - 1])
        BY <2>1
    <2>. HIDE DEF f
    <2>. QED  BY <2>2
<1>2. f = [i \in 1 .. Len(ss) |-> h(i)]
    <2>. HIDE DEF h
    <2>. QED  BY <1>1
<1>3. Flattens(f, ss)
    <2>. HIDE DEF f
    <2>. QED  BY <1>2 DEF Flattens
<1>. QED  BY <1>3

LEMMA FlattenExists ==
    ASSUME NEW ss, Len(ss) \in Nat PROVE \E f : Flattens(f, ss)
<1>. DEFINE h(F, i) == IF i = 1 THEN ss[i] ELSE F[i - 1] \o ss[i]
            Upto(F, n) == \A i \in 1 .. Len(ss) : i <= n => F[i] = h(F, i)
            S == {n \in Nat : \E F : Upto(F, n)}
<1>1. 0 \in S
    OBVIOUS
<1>2. ASSUME NEW n \in Nat, n \in S PROVE n + 1 \in S
    <2>1. PICK F : Upto(F, n)
        BY <1>2
    <2>. DEFINE G == [i \in 1 .. Len(ss) |-> IF i = n + 1 THEN h(F, i) ELSE F[i]]
    <2>2. ASSUME NEW i \in 1 .. Len(ss), i <= n + 1 PROVE G[i] = h(G, i)
        <3>1. i = 1 \/ (i - 1 \in 1 .. Len(ss) /\ i - 1 # n + 1)
            BY <2>2
        <3>2. i = 1 \/ G[i - 1] = F[i - 1]
            BY <3>1
        <3>3. h(G, i) = h(F, i)
            BY <3>2
        <3>. HIDE DEF h
        <3>. QED  BY <2>1, <2>2, <3>3
    <2>3. Upto(G, n + 1)
        <3>. HIDE DEF G, h
        <3>. QED  BY <2>2
    <2>. HIDE DEF G, Upto
    <2>. QED  BY <2>3
<1>3. Len(ss) \in S
    <2>. HIDE DEF S
    <2>. QED  BY <1>1, <1>2, SetInduction
<1>4. PICK F : Upto(F, Len(ss))
    BY <1>3
<1>. QED  BY <1>4, FlattensIf

LEMMA FlattenIs ==
    ASSUME NEW ss, Len(ss) \in Nat \ {0}
    PROVE  \E f : Flattens(f, ss) /\ Diff!FlattenSeq(ss) = f[Len(ss)]
<1>1. Diff!FlattenSeq(ss) = (CHOOSE f : Flattens(f, ss))[Len(ss)]
    BY DEF Diff!FlattenSeq, Flattens
<1>2. Flattens(CHOOSE f : Flattens(f, ss), ss)
    BY FlattenExists
<1>. QED  BY <1>1, <1>2

\* Two sequences that agree on n elements flatten alike that far.
LEMMA FlattenAgrees ==
    ASSUME NEW ss, NEW tt, Len(ss) \in Nat, Len(tt) \in Nat,
           NEW f, Flattens(f, ss), NEW g, Flattens(g, tt),
           NEW n \in Nat, n <= Len(ss), n <= Len(tt), \A i \in 1 .. n : ss[i] = tt[i]
    PROVE  \A i \in 1 .. n : f[i] = g[i]
<1>. DEFINE S == {k \in Nat : k \in 1 .. n => f[k] = g[k]}
<1>1. 0 \in S
    OBVIOUS
<1>2. ASSUME NEW k \in Nat, k \in S PROVE k + 1 \in S
    <2>. SUFFICES ASSUME k + 1 \in 1 .. n PROVE f[k + 1] = g[k + 1]
        OBVIOUS
    <2>. k + 1 \in 1 .. Len(ss) /\ k + 1 \in 1 .. Len(tt)
        OBVIOUS
    <2>1. /\ f[k + 1] = IF k + 1 = 1 THEN ss[k + 1] ELSE f[k + 1 - 1] \o ss[k + 1]
          /\ g[k + 1] = IF k + 1 = 1 THEN tt[k + 1] ELSE g[k + 1 - 1] \o tt[k + 1]
        BY FlattensAt
    <2>2. k = 0 \/ f[k] = g[k]
        BY <1>2
    <2>. QED  BY <2>1, <2>2
<1>3. Nat \subseteq S
    <2>. HIDE DEF S
    <2>. QED  BY <1>1, <1>2, SetInduction
<1>. QED  BY <1>3

\* FlattenSeq of no sequence, and of one more.
LEMMA FlattenEmpty == Diff!FlattenSeq(<<>>) = <<>>
BY DEF Diff!FlattenSeq

LEMMA FlattenAppend ==
    ASSUME NEW V, NEW ss \in Seq(Seq(V)), NEW x \in Seq(V)
    PROVE  /\ Diff!FlattenSeq(ss) \in Seq(V)
           /\ Diff!FlattenSeq(Append(ss, x)) = Diff!FlattenSeq(ss) \o x
<1>1. ASSUME NEW tt \in Seq(Seq(V)) PROVE Diff!FlattenSeq(tt) \in Seq(V)
    <2>1. CASE tt = <<>>
        <3>1. <<>> \in Seq(V)
            OBVIOUS
        <3>. QED  BY <2>1, <3>1, FlattenEmpty
    <2>2. CASE tt # <<>>
        <3>1. Len(tt) \in Nat \ {0} /\ \A i \in 1 .. Len(tt) : tt[i] \in Seq(V)
            BY <2>2
        <3>2. PICK f : Flattens(f, tt) /\ Diff!FlattenSeq(tt) = f[Len(tt)]
            BY <3>1, FlattenIs
        <3>. DEFINE S == {k \in Nat : k \in 1 .. Len(tt) => f[k] \in Seq(V)}
        <3>3. 0 \in S
            OBVIOUS
        <3>4. ASSUME NEW k \in Nat, k \in S PROVE k + 1 \in S
            <4>. SUFFICES ASSUME k + 1 \in 1 .. Len(tt) PROVE f[k + 1] \in Seq(V)
                OBVIOUS
            <4>1. f[k + 1] = IF k + 1 = 1 THEN tt[k + 1] ELSE f[k + 1 - 1] \o tt[k + 1]
                BY <3>1, <3>2, FlattensAt
            <4>2. tt[k + 1] \in Seq(V) /\ (k = 0 \/ f[k] \in Seq(V))
                BY <3>1, <3>4
            <4>. QED  BY <4>1, <4>2
        <3>5. Nat \subseteq S
            <4>. HIDE DEF S
            <4>. QED  BY <3>3, <3>4, SetInduction
        <3>. QED  BY <3>1, <3>2, <3>5
    <2>. QED  BY <2>1, <2>2
<1>. DEFINE tt == Append(ss, x)
<1>2. /\ tt \in Seq(Seq(V)) /\ Len(tt) = Len(ss) + 1 /\ Len(ss) \in Nat
      /\ \A i \in 1 .. Len(ss) : tt[i] = ss[i]
      /\ tt[Len(ss) + 1] = x
    OBVIOUS
<1>3. PICK g : Flattens(g, tt) /\ Diff!FlattenSeq(tt) = g[Len(tt)]
    <2>. HIDE DEF tt
    <2>. QED  BY <1>2, FlattenIs
<1>4. g[Len(tt)] = IF Len(tt) = 1 THEN tt[Len(tt)] ELSE g[Len(tt) - 1] \o tt[Len(tt)]
    <2>. HIDE DEF tt
    <2>1. Len(tt) \in Nat /\ Len(tt) \in 1 .. Len(tt)
        BY <1>2
    <2>. QED  BY <1>3, <2>1, FlattensAt
<1>5. CASE ss = <<>>
    <2>1. Len(ss) = 0 /\ Len(tt) = 1
        BY <1>2, <1>5
    <2>2. Diff!FlattenSeq(tt) = x
        <3>. HIDE DEF tt
        <3>. QED  BY <1>2, <1>3, <1>4, <2>1
    <2>3. <<>> \o x = x /\ <<>> \in Seq(V)
        OBVIOUS
    <2>. QED  BY <1>5, <2>2, <2>3, FlattenEmpty
<1>6. CASE ss # <<>>
    <2>1. Len(ss) \in Nat \ {0}
        BY <1>6
    <2>2. PICK f : Flattens(f, ss) /\ Diff!FlattenSeq(ss) = f[Len(ss)]
        BY <2>1, FlattenIs
    <2>3. f[Len(ss)] = g[Len(ss)]
        <3>. HIDE DEF tt
        <3>1. \A i \in 1 .. Len(ss) : f[i] = g[i]
            <4>1. Len(ss) \in Nat /\ Len(tt) \in Nat /\ Len(ss) <= Len(ss) /\ Len(ss) <= Len(tt)
                BY <1>2
            <4>2. Flattens(f, ss) /\ Flattens(g, tt) /\ \A i \in 1 .. Len(ss) : ss[i] = tt[i]
                BY <1>2, <1>3, <2>2
            <4>. QED  BY <4>1, <4>2, FlattenAgrees
        <3>. QED  BY <2>1, <3>1
    <2>4. Diff!FlattenSeq(tt) = Diff!FlattenSeq(ss) \o x
        <3>. HIDE DEF tt
        <3>1. Len(tt) # 1 /\ Len(tt) - 1 = Len(ss)
            BY <1>2, <2>1
        <3>. QED  BY <1>2, <1>3, <1>4, <2>2, <2>3, <3>1
    <2>. QED  BY <1>1, <2>4
<1>. QED  BY <1>5, <1>6

LEMMA TwoRows ==
    ASSUME NEW V, NEW x \in V, NEW y \in V PROVE <<x>> \o <<y>> = <<x, y>>
<1>. DEFINE a == <<x>>
            b == <<y>>
            c == <<x, y>>
<1>1. /\ a \in Seq(V) /\ b \in Seq(V) /\ c \in Seq(V) /\ Len(a) = 1 /\ Len(b) = 1 /\ Len(c) = 2
      /\ a[1] = x /\ b[1] = y /\ c[1] = x /\ c[2] = y
    OBVIOUS
<1>. HIDE DEF a, b, c
<1>2. /\ a \o b \in Seq(V) /\ Len(a \o b) = 2
      /\ (a \o b)[1] = x /\ (a \o b)[2] = y
    <2>1. /\ a \o b \in Seq(V) /\ Len(a \o b) = Len(a) + Len(b)
          /\ \A i \in 1 .. Len(a) + Len(b) : (a \o b)[i] = IF i <= Len(a) THEN a[i] ELSE b[i - Len(a)]
        BY <1>1, ConcatProperties
    <2>2. 1 \in 1 .. Len(a) + Len(b) /\ 2 \in 1 .. Len(a) + Len(b)
        BY <1>1
    <2>3. (a \o b)[1] = a[1] /\ (a \o b)[2] = b[2 - Len(a)]
        BY <1>1, <2>1, <2>2
    <2>. QED  BY <1>1, <2>1, <2>3
<1>3. \A i \in 1 .. Len(a \o b) : (a \o b)[i] = c[i]
    BY <1>1, <1>2
<1>4. a \o b = c
    BY <1>1, <1>2, <1>3, SeqEqual
<1>. QED  BY <1>4 DEF a, b, c

-----------------------------------------------------------------------------
(* The rows of a comparison of plans                                       *)

DiffRows == [kind : {"same", "changed", "removed", "added"}, line : Diff!Lines]
DiffLines == Seq(Diff!Lines)

DiffFields == {"a", "b", "dp", "i", "j", "removed", "added", "rows", "done"}

\* The rows so far and the lines that wait for their rows are the side's
\* plan, up to the next line.
Told(rows, side, pending, plan, next) ==
    \E p \in DiffLines : Diff!Reads(rows, side, p) /\ p \o pending = SubSeq(plan, 1, next - 1)

\* The common lines so far and the longest common subsequence of what is
\* left are together as long as that of the plans.
DiffInv ==
    /\ DOMAIN calc = DiffFields
    /\ calc.a \in DiffLines /\ calc.b \in DiffLines
    /\ calc.dp = Diff!Table(calc.a, calc.b)
    /\ calc.i \in 1 .. Len(calc.a) + 1 /\ calc.j \in 1 .. Len(calc.b) + 1
    /\ calc.removed \in DiffLines /\ calc.added \in DiffLines
    /\ calc.rows \in Seq(DiffRows) /\ calc.done \in BOOLEAN
    /\ Told(calc.rows, "first", calc.removed, calc.a, calc.i)
    /\ Told(calc.rows, "second", calc.added, calc.b, calc.j)
    /\ calc.dp[<<1, 1>>] <= Cardinality(Diff!SameRows(calc.rows)) + calc.dp[<<calc.i, calc.j>>]
    /\ calc.done =>
         /\ calc.i = Len(calc.a) + 1 /\ calc.j = Len(calc.b) + 1
         /\ calc.removed = <<>> /\ calc.added = <<>>

LEMMA ReadsAt ==
    ASSUME NEW rows, NEW side, NEW plan, NEW at \in [DOMAIN plan -> DOMAIN rows],
           \A k, l \in DOMAIN plan : k < l => at[k] < at[l],
           \A n \in DOMAIN rows : rows[n].kind \in Diff!Kinds(side) <=> \E k \in DOMAIN plan : at[k] = n,
           \A k \in DOMAIN plan : Diff!Shows(rows[at[k]], side, plan[k])
    PROVE  Diff!Reads(rows, side, plan)
BY DEF Diff!Reads

LEMMA ReadsJoin ==
    ASSUME NEW r \in Seq(DiffRows), NEW s \in Seq(DiffRows), NEW p \in DiffLines, NEW q \in DiffLines,
           NEW side, Diff!Reads(r, side, p), Diff!Reads(s, side, q)
    PROVE  Diff!Reads(r \o s, side, p \o q)
<1>1. /\ DOMAIN r = 1 .. Len(r) /\ DOMAIN s = 1 .. Len(s) /\ DOMAIN p = 1 .. Len(p) /\ DOMAIN q = 1 .. Len(q)
      /\ Len(r) \in Nat /\ Len(s) \in Nat /\ Len(p) \in Nat /\ Len(q) \in Nat
    BY DEF DiffLines
<1>2. PICK f \in [1 .. Len(p) -> 1 .. Len(r)] :
         /\ \A k, l \in 1 .. Len(p) : k < l => f[k] < f[l]
         /\ \A n \in 1 .. Len(r) : r[n].kind \in Diff!Kinds(side) <=> \E k \in 1 .. Len(p) : f[k] = n
         /\ \A k \in 1 .. Len(p) : Diff!Shows(r[f[k]], side, p[k])
    BY <1>1 DEF Diff!Reads
<1>3. PICK g \in [1 .. Len(q) -> 1 .. Len(s)] :
         /\ \A k, l \in 1 .. Len(q) : k < l => g[k] < g[l]
         /\ \A n \in 1 .. Len(s) : s[n].kind \in Diff!Kinds(side) <=> \E k \in 1 .. Len(q) : g[k] = n
         /\ \A k \in 1 .. Len(q) : Diff!Shows(s[g[k]], side, q[k])
    BY <1>1 DEF Diff!Reads
<1>. DEFINE rs == r \o s
            pq == p \o q
            at == [k \in 1 .. Len(p) + Len(q) |-> IF k <= Len(p) THEN f[k] ELSE Len(r) + g[k - Len(p)]]
<1>4. /\ DOMAIN rs = 1 .. Len(r) + Len(s) /\ DOMAIN pq = 1 .. Len(p) + Len(q)
      /\ \A n \in 1 .. Len(r) : rs[n] = r[n]
      /\ \A n \in 1 .. Len(s) : rs[Len(r) + n] = s[n]
      /\ \A k \in 1 .. Len(p) : pq[k] = p[k]
      /\ \A k \in 1 .. Len(q) : pq[Len(p) + k] = q[k]
    BY <1>1, ConcatProperties DEF DiffLines
<1>5. /\ at \in [1 .. Len(p) + Len(q) -> 1 .. Len(r) + Len(s)]
      /\ \A k \in 1 .. Len(p) : at[k] = f[k]
      /\ \A k \in 1 .. Len(q) : at[Len(p) + k] = Len(r) + g[k]
    BY <1>1, <1>2, <1>3
<1>6. ASSUME NEW k \in 1 .. Len(p) + Len(q)
      PROVE  k \in 1 .. Len(p) \/ \E m \in 1 .. Len(q) : k = Len(p) + m
    <2>1. k \notin 1 .. Len(p) => k - Len(p) \in 1 .. Len(q) /\ k = Len(p) + (k - Len(p))
        BY <1>1
    <2>. QED  BY <2>1
<1>7. ASSUME NEW n \in 1 .. Len(r) + Len(s)
      PROVE  n \in 1 .. Len(r) \/ \E m \in 1 .. Len(s) : n = Len(r) + m
    <2>1. n \notin 1 .. Len(r) => n - Len(r) \in 1 .. Len(s) /\ n = Len(r) + (n - Len(r))
        BY <1>1
    <2>. QED  BY <2>1
<1>. HIDE DEF rs, pq, at
<1>8. ASSUME NEW k \in 1 .. Len(p) + Len(q), NEW l \in 1 .. Len(p) + Len(q), k < l PROVE at[k] < at[l]
    <2>1. CASE l \in 1 .. Len(p)
        <3>1. k \in 1 .. Len(p)
            BY <1>1, <1>8, <2>1
        <3>. QED  BY <1>2, <1>5, <1>8, <2>1, <3>1
    <2>2. ASSUME NEW m \in 1 .. Len(q), l = Len(p) + m PROVE at[k] < at[l]
        <3>1. CASE k \in 1 .. Len(p)
            <4>1. f[k] \in 1 .. Len(r) /\ g[m] \in 1 .. Len(s)
                BY <1>2, <1>3, <3>1
            <4>2. at[k] = f[k] /\ at[l] = Len(r) + g[m]
                BY <1>5, <2>2, <3>1
            <4>. QED  BY <1>1, <4>1, <4>2
        <3>2. ASSUME NEW j \in 1 .. Len(q), k = Len(p) + j PROVE at[k] < at[l]
            <4>1. j < m
                BY <1>1, <1>8, <2>2, <3>2
            <4>2. g[j] < g[m] /\ g[j] \in Nat /\ g[m] \in Nat
                BY <1>3, <4>1
            <4>. QED  BY <1>1, <1>5, <2>2, <3>2, <4>2
        <3>. QED  BY <1>6, <3>1, <3>2
    <2>. QED  BY <1>6, <2>1, <2>2
<1>9. ASSUME NEW n \in 1 .. Len(r) + Len(s)
      PROVE  rs[n].kind \in Diff!Kinds(side) <=> \E k \in 1 .. Len(p) + Len(q) : at[k] = n
    <2>1. CASE n \in 1 .. Len(r)
        <3>1. ASSUME NEW k \in 1 .. Len(p), f[k] = n PROVE \E l \in 1 .. Len(p) + Len(q) : at[l] = n
            <4>1. k \in 1 .. Len(p) + Len(q)
                BY <1>1
            <4>. QED  BY <1>5, <3>1, <4>1
        <3>2. ASSUME NEW l \in 1 .. Len(p) + Len(q), at[l] = n PROVE \E k \in 1 .. Len(p) : f[k] = n
            <4>1. ASSUME NEW m \in 1 .. Len(q), l = Len(p) + m PROVE FALSE
                <5>1. n = Len(r) + g[m] /\ g[m] \in 1 .. Len(s)
                    BY <1>3, <1>5, <3>2, <4>1
                <5>. QED  BY <1>1, <2>1, <5>1
            <4>. QED  BY <1>5, <1>6, <3>2, <4>1
        <3>3. rs[n] = r[n]
            BY <1>4, <2>1
        <3>. QED  BY <1>2, <2>1, <3>1, <3>2, <3>3
    <2>2. ASSUME NEW m \in 1 .. Len(s), n = Len(r) + m
          PROVE  rs[n].kind \in Diff!Kinds(side) <=> \E k \in 1 .. Len(p) + Len(q) : at[k] = n
        <3>1. ASSUME NEW k \in 1 .. Len(q), g[k] = m PROVE \E l \in 1 .. Len(p) + Len(q) : at[l] = n
            <4>1. Len(p) + k \in 1 .. Len(p) + Len(q)
                BY <1>1
            <4>. QED  BY <1>5, <2>2, <3>1, <4>1
        <3>2. ASSUME NEW l \in 1 .. Len(p) + Len(q), at[l] = n PROVE \E k \in 1 .. Len(q) : g[k] = m
            <4>1. l \notin 1 .. Len(p)
                <5>1. l \in 1 .. Len(p) => n \in 1 .. Len(r)
                    BY <1>2, <1>5, <3>2
                <5>. QED  BY <1>1, <2>2, <5>1
            <4>2. PICK k \in 1 .. Len(q) : l = Len(p) + k
                BY <1>6, <4>1
            <4>3. g[k] \in Nat /\ Len(r) + g[k] = Len(r) + m
                <5>1. g[k] \in 1 .. Len(s) /\ at[l] = Len(r) + g[k]
                    BY <1>3, <1>5, <4>2
                <5>. QED  BY <2>2, <3>2, <5>1
            <4>4. g[k] = m
                BY <1>1, <4>3
            <4>. QED  BY <4>4
        <3>3. rs[n] = s[m]
            BY <1>4, <2>2
        <3>. QED  BY <1>3, <3>1, <3>2, <3>3
    <2>. QED  BY <1>7, <2>1, <2>2
<1>10. ASSUME NEW k \in 1 .. Len(p) + Len(q) PROVE Diff!Shows(rs[at[k]], side, pq[k])
    <2>1. CASE k \in 1 .. Len(p)
        <3>1. at[k] = f[k] /\ f[k] \in 1 .. Len(r) /\ pq[k] = p[k]
            BY <1>2, <1>4, <1>5, <2>1
        <3>. QED  BY <1>2, <1>4, <2>1, <3>1
    <2>2. ASSUME NEW m \in 1 .. Len(q), k = Len(p) + m PROVE Diff!Shows(rs[at[k]], side, pq[k])
        <3>1. at[k] = Len(r) + g[m] /\ g[m] \in 1 .. Len(s) /\ pq[k] = q[m]
            BY <1>3, <1>4, <1>5, <2>2
        <3>2. rs[at[k]] = s[g[m]]
            BY <1>4, <3>1
        <3>. QED  BY <1>3, <3>1, <3>2
    <2>. QED  BY <1>6, <2>1, <2>2
<1>11. Diff!Reads(rs, side, pq)
    <2>1. at \in [DOMAIN pq -> DOMAIN rs]
        BY <1>4, <1>5
    <2>2. /\ \A k, l \in DOMAIN pq : k < l => at[k] < at[l]
          /\ \A n \in DOMAIN rs : rs[n].kind \in Diff!Kinds(side) <=> \E k \in DOMAIN pq : at[k] = n
          /\ \A k \in DOMAIN pq : Diff!Shows(rs[at[k]], side, pq[k])
        BY <1>4, <1>8, <1>9, <1>10
    <2>. QED  BY <2>1, <2>2, ReadsAt
<1>. QED  BY <1>11 DEF rs, pq

LEMMA ReadsNothing ==
    ASSUME NEW side PROVE Diff!Reads(<<>>, side, <<>>)
<1>. DEFINE none == <<>>
            at == [k \in {} |-> 1]
<1>1. DOMAIN none = {}
    OBVIOUS
<1>2. at \in [DOMAIN none -> DOMAIN none]
    BY <1>1
<1>. HIDE DEF at, none
<1>3. Diff!Reads(none, side, none)
    BY <1>1, <1>2, ReadsAt
<1>. QED  BY <1>3 DEF none

\* A row that shows a line, and a row of the other side.
LEMMA ReadsRow ==
    ASSUME NEW row \in DiffRows, NEW line \in Diff!Lines, NEW side \in Diff!Sides
    PROVE  /\ row.kind \in Diff!Kinds(side) /\ Diff!Shows(row, side, line) => Diff!Reads(<<row>>, side, <<line>>)
           /\ row.kind \notin Diff!Kinds(side) => Diff!Reads(<<row>>, side, <<>>)
<1>. DEFINE rows == <<row>>
            plan == <<line>>
            none == <<>>
            at == [k \in {1} |-> 1]
            at0 == [k \in {} |-> 1]
<1>1. /\ DOMAIN rows = {1} /\ DOMAIN plan = {1} /\ DOMAIN none = {}
      /\ rows[1] = row /\ plan[1] = line /\ at[1] = 1
      /\ at \in [{1} -> {1}] /\ at0 \in [{} -> {1}]
    OBVIOUS
<1>. HIDE DEF rows, plan, none, at, at0
<1>2. ASSUME row.kind \in Diff!Kinds(side), Diff!Shows(row, side, line) PROVE Diff!Reads(rows, side, plan)
    <2>1. at \in [DOMAIN plan -> DOMAIN rows]
        BY <1>1
    <2>2. /\ \A k, l \in DOMAIN plan : k < l => at[k] < at[l]
          /\ \A n \in DOMAIN rows : rows[n].kind \in Diff!Kinds(side) <=> \E k \in DOMAIN plan : at[k] = n
          /\ \A k \in DOMAIN plan : Diff!Shows(rows[at[k]], side, plan[k])
        BY <1>1, <1>2
    <2>. QED  BY <2>1, <2>2, ReadsAt
<1>3. ASSUME row.kind \notin Diff!Kinds(side) PROVE Diff!Reads(rows, side, none)
    <2>1. at0 \in [DOMAIN none -> DOMAIN rows]
        BY <1>1
    <2>2. /\ \A k, l \in DOMAIN none : k < l => at0[k] < at0[l]
          /\ \A n \in DOMAIN rows : rows[n].kind \in Diff!Kinds(side) <=> \E k \in DOMAIN none : at0[k] = n
          /\ \A k \in DOMAIN none : Diff!Shows(rows[at0[k]], side, none[k])
        BY <1>1, <1>3
    <2>. QED  BY <2>1, <2>2, ReadsAt
<1>. QED  BY <1>2, <1>3 DEF rows, plan, none

-----------------------------------------------------------------------------
(* A block of lines                                                        *)

LEMMA DiffMin ==
    ASSUME NEW x \in Int, NEW y \in Int PROVE Diff!Min({x, y}) = IF x <= y THEN x ELSE y
<1>1. \E z \in {x, y} : \A w \in {x, y} : z <= w
    OBVIOUS
<1>2. LET z == Diff!Min({x, y}) IN z \in {x, y} /\ z <= x /\ z <= y
    BY <1>1 DEF Diff!Min
<1>. QED  BY <1>2

LEMMA DiffMax ==
    ASSUME NEW x \in Int, NEW y \in Int PROVE Diff!Max({x, y}) = IF x >= y THEN x ELSE y
<1>1. \E z \in {x, y} : \A w \in {x, y} : z >= w
    OBVIOUS
<1>2. LET z == Diff!Max({x, y}) IN z \in {x, y} /\ z >= x /\ z >= y
    BY <1>1 DEF Diff!Max
<1>. QED  BY <1>2

LEMMA RowType ==
    ASSUME NEW kind \in {"same", "changed", "removed", "added"}, NEW line \in Diff!Lines
    PROVE  Diff!Row(kind, line) \in DiffRows /\ Diff!Row(kind, line).kind = kind /\ Diff!Row(kind, line).line = line
BY DEF Diff!Row, DiffRows

LEMMA ReadsPair ==
    ASSUME NEW r \in Diff!Lines, NEW s \in Diff!Lines
    PROVE  /\ Diff!Pair(r, s) \in Seq(DiffRows)
           /\ Diff!Reads(Diff!Pair(r, s), "first", <<r>>)
           /\ Diff!Reads(Diff!Pair(r, s), "second", <<s>>)
<1>. "first" \in Diff!Sides /\ "second" \in Diff!Sides
    BY DEF Diff!Sides
<1>1. CASE r = s
    <2>. DEFINE row == Diff!Row("same", s)
    <2>1. row \in DiffRows /\ row.kind = "same" /\ row.line = s
        BY RowType
    <2>. HIDE DEF row
    <2>2. Diff!Shows(row, "first", r) /\ Diff!Shows(row, "second", s)
        BY <1>1, <2>1 DEF Diff!Shows
    <2>3. row.kind \in Diff!Kinds("first") /\ row.kind \in Diff!Kinds("second")
        BY <2>1 DEF Diff!Kinds
    <2>4. Diff!Reads(<<row>>, "first", <<r>>) /\ Diff!Reads(<<row>>, "second", <<s>>) /\ <<row>> \in Seq(DiffRows)
        BY <2>1, <2>2, <2>3, ReadsRow
    <2>. QED  BY <1>1, <2>4 DEF Diff!Pair, row
<1>2. CASE r # s /\ Diff!Changed(r, s)
    <2>. DEFINE row == Diff!Row("changed", s)
    <2>1. row \in DiffRows /\ row.kind = "changed" /\ row.line = s
        BY RowType
    <2>. HIDE DEF row
    <2>2. Diff!Shows(row, "first", r) /\ Diff!Shows(row, "second", s)
        BY <1>2, <2>1 DEF Diff!Shows
    <2>3. row.kind \in Diff!Kinds("first") /\ row.kind \in Diff!Kinds("second")
        BY <2>1 DEF Diff!Kinds
    <2>4. Diff!Reads(<<row>>, "first", <<r>>) /\ Diff!Reads(<<row>>, "second", <<s>>) /\ <<row>> \in Seq(DiffRows)
        BY <2>1, <2>2, <2>3, ReadsRow
    <2>. QED  BY <1>2, <2>4 DEF Diff!Pair, row
<1>3. CASE r # s /\ ~ Diff!Changed(r, s)
    <2>. DEFINE row == Diff!Row("removed", r)
                next == Diff!Row("added", s)
    <2>1. /\ row \in DiffRows /\ row.kind = "removed" /\ row.line = r
          /\ next \in DiffRows /\ next.kind = "added" /\ next.line = s
        BY RowType
    <2>. HIDE DEF row, next
    <2>2. Diff!Shows(row, "first", r) /\ Diff!Shows(next, "second", s)
        BY <2>1 DEF Diff!Shows
    <2>3. /\ row.kind \in Diff!Kinds("first") /\ row.kind \notin Diff!Kinds("second")
          /\ next.kind \notin Diff!Kinds("first") /\ next.kind \in Diff!Kinds("second")
        BY <2>1 DEF Diff!Kinds
    <2>4. /\ Diff!Reads(<<row>>, "first", <<r>>) /\ Diff!Reads(<<row>>, "second", <<>>)
          /\ Diff!Reads(<<next>>, "first", <<>>) /\ Diff!Reads(<<next>>, "second", <<s>>)
        BY <2>1, <2>2, <2>3, ReadsRow
    <2>5. /\ <<row>> \in Seq(DiffRows) /\ <<next>> \in Seq(DiffRows)
          /\ <<r>> \in DiffLines /\ <<s>> \in DiffLines /\ <<>> \in DiffLines
        BY <2>1 DEF DiffLines
    <2>6. Diff!Reads(<<row>> \o <<next>>, "first", <<r>> \o <<>>) /\ Diff!Reads(<<row>> \o <<next>>, "second", <<>> \o <<s>>)
        BY <2>4, <2>5, ReadsJoin
    <2>7. <<row>> \o <<next>> = <<row, next>> /\ <<r>> \o <<>> = <<r>> /\ <<>> \o <<s>> = <<s>>
        <3>1. <<r>> \o <<>> = <<r>> /\ <<>> \o <<s>> = <<s>>
            BY <2>5, ConcatEmptySeq DEF DiffLines
        <3>2. <<row>> \o <<next>> = <<row, next>>
            BY <2>1, TwoRows
        <3>. QED  BY <3>1, <3>2
    <2>8. <<row, next>> \in Seq(DiffRows)
        BY <2>1
    <2>. QED  BY <1>3, <2>6, <2>7, <2>8 DEF Diff!Pair, row, next
<1>. QED  BY <1>1, <1>2, <1>3

\* Rows of one kind read as their lines on their own side, as nothing on
\* the other.
LEMMA ReadsRows ==
    ASSUME NEW s \in DiffLines, NEW kind \in {"removed", "added"}, NEW side \in Diff!Sides
    PROVE  /\ Diff!Rows(kind, s) \in Seq(DiffRows)
           /\ kind \in Diff!Kinds(side) => Diff!Reads(Diff!Rows(kind, s), side, s)
           /\ kind \notin Diff!Kinds(side) => Diff!Reads(Diff!Rows(kind, s), side, <<>>)
<1>. DEFINE rows == Diff!Rows(kind, s)
            none == <<>>
            at == [k \in 1 .. Len(s) |-> k]
            at0 == [k \in {} |-> 1]
<1>1. DOMAIN s = 1 .. Len(s) /\ Len(s) \in Nat /\ \A k \in 1 .. Len(s) : s[k] \in Diff!Lines
    BY DEF DiffLines
<1>2. /\ rows = [k \in 1 .. Len(s) |-> Diff!Row(kind, s[k])]
      /\ \A k \in 1 .. Len(s) : Diff!Row(kind, s[k]) \in DiffRows
    BY <1>1, RowType DEF Diff!Rows
<1>3. /\ rows \in Seq(DiffRows) /\ DOMAIN rows = 1 .. Len(s)
      /\ \A k \in 1 .. Len(s) : rows[k] = Diff!Row(kind, s[k])
    BY <1>1, <1>2
<1>4. \A k \in 1 .. Len(s) : rows[k].kind = kind /\ rows[k].line = s[k]
    BY <1>1, <1>3, RowType
<1>5. /\ at \in [1 .. Len(s) -> 1 .. Len(s)] /\ \A k \in 1 .. Len(s) : at[k] = k
      /\ DOMAIN none = {} /\ at0 \in [{} -> 1 .. Len(s)]
    OBVIOUS
<1>. HIDE DEF rows, none, at, at0
<1>6. ASSUME kind \in Diff!Kinds(side) PROVE Diff!Reads(rows, side, s)
    <2>1. at \in [DOMAIN s -> DOMAIN rows]
        BY <1>1, <1>3, <1>5
    <2>2. /\ \A k, l \in DOMAIN s : k < l => at[k] < at[l]
          /\ \A n \in DOMAIN rows : rows[n].kind \in Diff!Kinds(side) <=> \E k \in DOMAIN s : at[k] = n
        BY <1>1, <1>3, <1>4, <1>5, <1>6
    <2>3. \A k \in DOMAIN s : Diff!Shows(rows[at[k]], side, s[k])
        BY <1>1, <1>4, <1>5 DEF Diff!Shows
    <2>. QED  BY <2>1, <2>2, <2>3, ReadsAt
<1>7. ASSUME kind \notin Diff!Kinds(side) PROVE Diff!Reads(rows, side, none)
    <2>1. at0 \in [DOMAIN none -> DOMAIN rows]
        BY <1>3, <1>5
    <2>2. /\ \A k, l \in DOMAIN none : k < l => at0[k] < at0[l]
          /\ \A n \in DOMAIN rows : rows[n].kind \in Diff!Kinds(side) <=> \E k \in DOMAIN none : at0[k] = n
          /\ \A k \in DOMAIN none : Diff!Shows(rows[at0[k]], side, none[k])
        BY <1>3, <1>4, <1>5, <1>7
    <2>. QED  BY <2>1, <2>2, ReadsAt
<1>. QED  BY <1>3, <1>6, <1>7 DEF rows, none

\* flushReplaceBlock shows what was removed, and what was added.
LEMMA ReadsFlushed ==
    ASSUME NEW removed \in DiffLines, NEW added \in DiffLines
    PROVE  /\ Diff!Flushed(removed, added) \in Seq(DiffRows)
           /\ Diff!Reads(Diff!Flushed(removed, added), "first", removed)
           /\ Diff!Reads(Diff!Flushed(removed, added), "second", added)
<1>. DEFINE m == Diff!Min({Len(removed), Len(added)})
            pairs(n) == [k \in 1 .. n |-> Diff!Pair(removed[k], added[k])]
            flat(n) == Diff!FlattenSeq(pairs(n))
            Good(n) == /\ pairs(n) \in Seq(Seq(DiffRows)) /\ flat(n) \in Seq(DiffRows)
                       /\ Diff!Reads(flat(n), "first", SubSeq(removed, 1, n))
                       /\ Diff!Reads(flat(n), "second", SubSeq(added, 1, n))
            S == {n \in Nat : n <= m => Good(n)}
<1>1. /\ Len(removed) \in Nat /\ Len(added) \in Nat
      /\ m \in Nat /\ m <= Len(removed) /\ m <= Len(added)
      /\ \A k \in 1 .. Len(removed) : removed[k] \in Diff!Lines
      /\ \A k \in 1 .. Len(added) : added[k] \in Diff!Lines
    BY DiffMin DEF DiffLines
<1>. HIDE DEF m
<1>2. Good(0)
    <2>1. pairs(0) = <<>> /\ SubSeq(removed, 1, 0) = <<>> /\ SubSeq(added, 1, 0) = <<>>
        BY SubSeqEmpty
    <2>2. flat(0) = <<>>
        BY <2>1, FlattenEmpty
    <2>3. <<>> \in Seq(DiffRows) /\ <<>> \in Seq(Seq(DiffRows))
        OBVIOUS
    <2>. HIDE DEF pairs, flat
    <2>. QED  BY <2>1, <2>2, <2>3, ReadsNothing
<1>3. ASSUME NEW n \in Nat, n \in S PROVE n + 1 \in S
    <2>. SUFFICES ASSUME n + 1 <= m PROVE Good(n + 1)
        OBVIOUS
    <2>. DEFINE pair == Diff!Pair(removed[n + 1], added[n + 1])
    <2>1. n + 1 \in 1 .. Len(removed) /\ n + 1 \in 1 .. Len(added) /\ n <= m
        BY <1>1
    <2>2. Good(n)
        BY <1>3, <2>1
    <2>3. removed[n + 1] \in Diff!Lines /\ added[n + 1] \in Diff!Lines
        BY <1>1, <2>1
    <2>4. /\ pair \in Seq(DiffRows)
          /\ Diff!Reads(pair, "first", <<removed[n + 1]>>)
          /\ Diff!Reads(pair, "second", <<added[n + 1]>>)
        BY <2>3, ReadsPair
    <2>5. pairs(n + 1) = Append(pairs(n), pair)
        <3>1. Len(pairs(n)) = n
            OBVIOUS
        <3>. QED  BY <3>1
    <2>6. pairs(n + 1) \in Seq(Seq(DiffRows))
        <3>1. pairs(n) \in Seq(Seq(DiffRows))
            BY <2>2
        <3>. HIDE DEF pairs, pair, flat, S, Good
        <3>2. Append(pairs(n), pair) \in Seq(Seq(DiffRows))
            BY <2>4, <3>1
        <3>. QED  BY <2>5, <3>2
    <2>7. flat(n + 1) = flat(n) \o pair
        <3>. HIDE DEF pairs, pair
        <3>. QED  BY <2>2, <2>4, <2>5, FlattenAppend
    <2>8. /\ SubSeq(removed, 1, n + 1) = SubSeq(removed, 1, n) \o <<removed[n + 1]>>
          /\ SubSeq(added, 1, n + 1) = SubSeq(added, 1, n) \o <<added[n + 1]>>
          /\ SubSeq(removed, 1, n) \in DiffLines /\ SubSeq(added, 1, n) \in DiffLines
          /\ <<removed[n + 1]>> \in DiffLines /\ <<added[n + 1]>> \in DiffLines
        <3>1. 1 \in 1 .. Len(removed) /\ 1 \in 1 .. Len(added) /\ n + 1 - 1 = n
            BY <1>1, <2>1
        <3>2. /\ SubSeq(removed, 1, n + 1) = SubSeq(removed, 1, n + 1 - 1) \o <<removed[n + 1]>>
              /\ SubSeq(added, 1, n + 1) = SubSeq(added, 1, n + 1 - 1) \o <<added[n + 1]>>
            <4>1. removed \in Seq(Diff!Lines) /\ added \in Seq(Diff!Lines)
                BY DEF DiffLines
            <4>2. n + 1 \in 1 .. Len(removed) /\ n + 1 \in 1 .. Len(added)
                BY <2>1
            <4>. HIDE DEF S, Good, pairs, pair, flat
            <4>. QED  BY <3>1, <4>1, <4>2, SubSeqRecursiveSecond
        <3>3. SubSeq(removed, 1, n) \in DiffLines /\ SubSeq(added, 1, n) \in DiffLines
            BY <1>1, <2>1, SubSeqProperties DEF DiffLines
        <3>. QED  BY <2>3, <3>1, <3>2, <3>3 DEF DiffLines
    <2>. HIDE DEF pairs, pair, flat
    <2>9. flat(n) \o pair \in Seq(DiffRows)
        BY <2>2, <2>4, ConcatProperties
    <2>. QED  BY <2>2, <2>4, <2>6, <2>7, <2>8, <2>9, ReadsJoin
<1>4. Good(m)
    <2>. HIDE DEF Good
    <2>1. 0 \in S
        BY <1>2
    <2>. HIDE DEF S
    <2>2. m \in S
        BY <1>1, <1>3, <2>1, SetInduction
    <2>. QED  BY <1>1, <2>2 DEF S
<1>. DEFINE restR == SubSeq(removed, m + 1, Len(removed))
            restA == SubSeq(added, m + 1, Len(added))
            F == flat(m)
            R == Diff!Rows("removed", restR)
            A == Diff!Rows("added", restA)
<1>5. /\ restR \in DiffLines /\ restA \in DiffLines
      /\ SubSeq(removed, 1, m) \in DiffLines /\ SubSeq(added, 1, m) \in DiffLines
      /\ SubSeq(removed, 1, m) \o restR = removed /\ SubSeq(added, 1, m) \o restA = added
    <2>1. /\ restR \in DiffLines /\ restA \in DiffLines
          /\ SubSeq(removed, 1, m) \in DiffLines /\ SubSeq(added, 1, m) \in DiffLines
        BY <1>1, SubSeqProperties DEF DiffLines
    <2>2. /\ SubSeq(removed, 1, m) \o restR = SubSeq(removed, 1, Len(removed))
          /\ SubSeq(added, 1, m) \o restA = SubSeq(added, 1, Len(added))
        <3>1. 1 \in 1 .. Len(removed) + 1 /\ m \in 1 - 1 .. Len(removed) /\ Len(removed) \in m .. Len(removed)
            BY <1>1
        <3>2. 1 \in 1 .. Len(added) + 1 /\ m \in 1 - 1 .. Len(added) /\ Len(added) \in m .. Len(added)
            BY <1>1
        <3>. QED  BY <3>1, <3>2, ConcatAdjacentSubSeq DEF DiffLines
    <2>. QED  BY <2>1, <2>2, SubSeqFull DEF DiffLines
<1>6. /\ F \in Seq(DiffRows)
      /\ Diff!Reads(F, "first", SubSeq(removed, 1, m))
      /\ Diff!Reads(F, "second", SubSeq(added, 1, m))
    BY <1>4
<1>. HIDE DEF restR, restA, flat, pairs, F
<1>7. /\ R \in Seq(DiffRows) /\ A \in Seq(DiffRows)
      /\ Diff!Reads(R, "first", restR) /\ Diff!Reads(R, "second", <<>>)
      /\ Diff!Reads(A, "first", <<>>) /\ Diff!Reads(A, "second", restA)
    BY <1>5, ReadsRows DEF Diff!Kinds, Diff!Sides
<1>8. Diff!Flushed(removed, added) = F \o R \o A
    BY DEF Diff!Flushed, F, flat, pairs, m, restR, restA
<1>. HIDE DEF R, A
<1>9. /\ F \o R \in Seq(DiffRows) /\ (F \o R) \o A \in Seq(DiffRows)
      /\ <<>> \in DiffLines
      /\ SubSeq(removed, 1, m) \o restR \in DiffLines /\ SubSeq(added, 1, m) \o <<>> \in DiffLines
    BY <1>5, <1>6, <1>7, ConcatProperties DEF DiffLines
<1>10. /\ Diff!Reads(F \o R, "first", SubSeq(removed, 1, m) \o restR)
       /\ Diff!Reads(F \o R, "second", SubSeq(added, 1, m) \o <<>>)
    BY <1>5, <1>6, <1>7, <1>9, ReadsJoin
<1>11. SubSeq(added, 1, m) \o <<>> = SubSeq(added, 1, m) /\ removed \o <<>> = removed
    BY <1>5, ConcatEmptySeq DEF DiffLines
<1>12. /\ Diff!Reads((F \o R) \o A, "first", removed \o <<>>)
       /\ Diff!Reads((F \o R) \o A, "second", SubSeq(added, 1, m) \o restA)
    BY <1>5, <1>7, <1>9, <1>10, <1>11, ReadsJoin
<1>. QED  BY <1>5, <1>8, <1>9, <1>11, <1>12

-----------------------------------------------------------------------------
(* The table of longest common subsequences                                *)

\* What the table holds in a cell, by the cells below and beside it.
Cell(f, a, b, p) ==
    IF p[1] > Len(a) \/ p[2] > Len(b) THEN 0
    ELSE IF a[p[1]] = b[p[2]] THEN f[<<p[1] + 1, p[2] + 1>>] + 1
    ELSE Diff!Max({f[<<p[1] + 1, p[2]>>], f[<<p[1], p[2] + 1>>]})

\* The lines that are left of both plans at a cell.
Left(a, b, p) == (Len(a) + 1 - p[1]) + (Len(b) + 1 - p[2])

LEMMA CellIs ==
    ASSUME NEW a \in DiffLines, NEW b \in DiffLines, NEW p \in Diff!Cells(a, b)
    PROVE  /\ Len(a) \in Nat /\ Len(b) \in Nat /\ Left(a, b, p) \in Nat
           /\ p[1] \in 1 .. Len(a) + 1 /\ p[2] \in 1 .. Len(b) + 1 /\ p = <<p[1], p[2]>>
<1>1. Len(a) \in Nat /\ Len(b) \in Nat
    BY DEF DiffLines
<1>2. p[1] \in 1 .. Len(a) + 1 /\ p[2] \in 1 .. Len(b) + 1 /\ p = <<p[1], p[2]>>
    BY DEF Diff!Cells
<1>3. Left(a, b, p) \in Nat
    BY <1>1, <1>2 DEF Left
<1>. QED  BY <1>1, <1>2, <1>3

\* The three cells that a cell is computed from are nearer to the end.
LEMMA CellsAfter ==
    ASSUME NEW a \in DiffLines, NEW b \in DiffLines, NEW p \in Diff!Cells(a, b),
           p[1] <= Len(a), p[2] <= Len(b)
    PROVE  /\ <<p[1] + 1, p[2]>> \in Diff!Cells(a, b)
           /\ Left(a, b, <<p[1] + 1, p[2]>>) < Left(a, b, p)
           /\ <<p[1], p[2] + 1>> \in Diff!Cells(a, b)
           /\ Left(a, b, <<p[1], p[2] + 1>>) < Left(a, b, p)
           /\ <<p[1] + 1, p[2] + 1>> \in Diff!Cells(a, b)
           /\ Left(a, b, <<p[1] + 1, p[2] + 1>>) < Left(a, b, p)
<1>1. Len(a) \in Nat /\ Len(b) \in Nat /\ p[1] \in 1 .. Len(a) + 1 /\ p[2] \in 1 .. Len(b) + 1
    BY CellIs
<1>2. /\ <<p[1] + 1, p[2]>> \in Diff!Cells(a, b) /\ <<p[1], p[2] + 1>> \in Diff!Cells(a, b)
      /\ <<p[1] + 1, p[2] + 1>> \in Diff!Cells(a, b)
    BY <1>1 DEF Diff!Cells
<1>3. /\ Left(a, b, <<p[1] + 1, p[2]>>) < Left(a, b, p) /\ Left(a, b, <<p[1], p[2] + 1>>) < Left(a, b, p)
      /\ Left(a, b, <<p[1] + 1, p[2] + 1>>) < Left(a, b, p)
    <2>1. PICK i \in Nat, j \in Nat : p[1] = i /\ p[2] = j
        BY <1>1
    <2>2. PICK x \in Nat, y \in Nat : Len(a) = x /\ Len(b) = y
        BY <1>1
    <2>3. ASSUME NEW k \in Nat, NEW l \in Nat PROVE Left(a, b, <<k, l>>) = (x + 1 - k) + (y + 1 - l)
        BY <2>2 DEF Left
    <2>4. p = <<i, j>>
        BY <2>1, CellIs
    <2>5. /\ (x + 1 - (i + 1)) + (y + 1 - j) < (x + 1 - i) + (y + 1 - j)
          /\ (x + 1 - i) + (y + 1 - (j + 1)) < (x + 1 - i) + (y + 1 - j)
          /\ (x + 1 - (i + 1)) + (y + 1 - (j + 1)) < (x + 1 - i) + (y + 1 - j)
        OBVIOUS
    <2>. QED  BY <2>1, <2>3, <2>4, <2>5
<1>. QED  BY <1>2, <1>3

LEMMA CellAgrees ==
    ASSUME NEW a \in DiffLines, NEW b \in DiffLines, NEW p \in Diff!Cells(a, b), NEW F, NEW G,
           \A q \in Diff!Cells(a, b) : Left(a, b, q) < Left(a, b, p) => F[q] = G[q]
    PROVE  Cell(F, a, b, p) = Cell(G, a, b, p)
<1>0. Len(a) \in Nat /\ Len(b) \in Nat /\ p[1] \in Nat /\ p[2] \in Nat
    BY CellIs
<1>1. CASE p[1] > Len(a) \/ p[2] > Len(b)
    BY <1>1 DEF Cell
<1>2. CASE ~ (p[1] > Len(a) \/ p[2] > Len(b))
    <2>1. p[1] <= Len(a) /\ p[2] <= Len(b)
        BY <1>0, <1>2
    <2>2. /\ F[<<p[1] + 1, p[2]>>] = G[<<p[1] + 1, p[2]>>]
          /\ F[<<p[1], p[2] + 1>>] = G[<<p[1], p[2] + 1>>]
          /\ F[<<p[1] + 1, p[2] + 1>>] = G[<<p[1] + 1, p[2] + 1>>]
        BY <2>1, CellsAfter
    <2>. QED  BY <2>2 DEF Cell
<1>. QED  BY <1>1, <1>2

\* The recursion ends: the table exists, and each cell is as it says.
LEMMA TableIs ==
    ASSUME NEW a \in DiffLines, NEW b \in DiffLines
    PROVE  \A p \in Diff!Cells(a, b) : Diff!Table(a, b)[p] = Cell(Diff!Table(a, b), a, b, p)
<1>. DEFINE C == Diff!Cells(a, b)
            Upto(F, n) == \A q \in C : Left(a, b, q) <= n => F[q] = Cell(F, a, b, q)
            S == {n \in Nat : \E F : Upto(F, n)}
            Tables(f) == f = [q \in C |-> Cell(f, a, b, q)]
<1>1. 0 \in S
    <2>. DEFINE F == [q \in C |-> 0]
    <2>1. ASSUME NEW q \in C, Left(a, b, q) <= 0 PROVE F[q] = Cell(F, a, b, q)
        <3>1. Len(a) \in Nat /\ Len(b) \in Nat /\ q[1] \in 1 .. Len(a) + 1 /\ q[2] \in 1 .. Len(b) + 1
            BY CellIs
        <3>2. q[1] > Len(a)
            BY <2>1, <3>1 DEF Left
        <3>. QED  BY <3>2 DEF Cell
    <2>2. Upto(F, 0)
        BY <2>1
    <2>. HIDE DEF Upto, F
    <2>. QED  BY <2>2
<1>2. ASSUME NEW n \in Nat, n \in S PROVE n + 1 \in S
    <2>1. PICK F : Upto(F, n)
        BY <1>2
    <2>. DEFINE h(q) == IF Left(a, b, q) = n + 1 THEN Cell(F, a, b, q) ELSE F[q]
                G == [q \in C |-> h(q)]
    <2>2. ASSUME NEW q \in C, Left(a, b, q) <= n + 1 PROVE G[q] = Cell(G, a, b, q)
        <3>1. Left(a, b, q) \in Nat
            BY CellIs
        <3>2. ASSUME NEW r \in C, Left(a, b, r) < Left(a, b, q) PROVE F[r] = G[r]
            <4>1. Left(a, b, r) \in Nat
                BY CellIs
            <4>2. Left(a, b, r) # n + 1
                BY <2>2, <3>1, <3>2, <4>1
            <4>. QED  BY <4>2
        <3>3. Cell(F, a, b, q) = Cell(G, a, b, q)
            <4>. HIDE DEF G
            <4>. QED  BY <3>2, CellAgrees
        <3>4. G[q] = h(q)
            <4>. HIDE DEF h
            <4>. QED  OBVIOUS
        <3>5. CASE Left(a, b, q) = n + 1
            <4>. HIDE DEF G
            <4>. QED  BY <3>3, <3>4, <3>5
        <3>6. CASE Left(a, b, q) # n + 1
            <4>1. F[q] = Cell(F, a, b, q)
                BY <2>1, <2>2, <3>1, <3>6
            <4>. HIDE DEF G
            <4>. QED  BY <3>3, <3>4, <3>6, <4>1
        <3>. QED  BY <3>5, <3>6
    <2>. HIDE DEF G, h
    <2>3. Upto(G, n + 1)
        BY <2>2
    <2>. HIDE DEF Upto
    <2>. QED  BY <2>3
<1>3. Nat \subseteq S
    <2>. HIDE DEF S
    <2>. QED  BY <1>1, <1>2, SetInduction
<1>4. PICK F : Upto(F, Len(a) + Len(b) + 2)
    <2>1. Len(a) + Len(b) + 2 \in Nat
        BY DEF DiffLines
    <2>. QED  BY <1>3, <2>1
<1>5. \E f : Tables(f)
    <2>. DEFINE f == [q \in C |-> F[q]]
                h(q) == Cell(f, a, b, q)
    <2>1. ASSUME NEW q \in C PROVE f[q] = h(q)
        <3>1. /\ Len(a) \in Nat /\ Len(b) \in Nat
              /\ q[1] \in 1 .. Len(a) + 1 /\ q[2] \in 1 .. Len(b) + 1
            BY CellIs
        <3>2. Left(a, b, q) <= Len(a) + Len(b) + 2
            BY <3>1 DEF Left
        <3>3. f[q] = F[q] /\ \A r \in C : F[r] = f[r]
            OBVIOUS
        <3>. HIDE DEF f
        <3>4. Cell(F, a, b, q) = Cell(f, a, b, q)
            BY <3>3, CellAgrees
        <3>. QED  BY <1>4, <3>2, <3>3, <3>4
    <2>2. f = [q \in C |-> h(q)]
        <3>1. f = [q \in C |-> f[q]]
            OBVIOUS
        <3>. HIDE DEF f, h, C
        <3>. QED  BY <2>1, <3>1
    <2>3. Tables(f)
        <3>. HIDE DEF f
        <3>. QED  BY <2>2
    <2>. HIDE DEF f, Tables
    <2>. QED  BY <2>3
<1>6. Diff!Table(a, b) = CHOOSE f : Tables(f)
    BY DEF Diff!Table, Cell
<1>7. Tables(Diff!Table(a, b))
    <2>. HIDE DEF Tables
    <2>. QED  BY <1>5, <1>6
<1>8. ASSUME NEW p \in C PROVE Diff!Table(a, b)[p] = Cell(Diff!Table(a, b), a, b, p)
    <2>. DEFINE t == Diff!Table(a, b)
                h(q) == Cell(t, a, b, q)
    <2>1. t = [q \in C |-> h(q)]
        BY <1>7
    <2>. HIDE DEF t, h
    <2>2. t[p] = h(p)
        BY <2>1
    <2>. QED  BY <2>2 DEF t, h
<1>. QED  BY <1>8

-----------------------------------------------------------------------------
(* Matchings                                                               *)

\* A matching of what is left of both plans at a cell.
Matches(a, b, p, m) ==
    /\ m \in Diff!Matchings(a, b)
    /\ \A q \in m : q[1] >= p[1] /\ q[2] >= p[2]

LEMMA MatchingIs ==
    ASSUME NEW a \in DiffLines, NEW b \in DiffLines, NEW m \in Diff!Matchings(a, b)
    PROVE  /\ \A q \in m : /\ q[1] \in 1 .. Len(a) /\ q[2] \in 1 .. Len(b) /\ q = <<q[1], q[2]>>
                           /\ a[q[1]] = b[q[2]]
           /\ \A q, r \in m : q = r \/ (q[1] < r[1] /\ q[2] < r[2]) \/ (q[1] > r[1] /\ q[2] > r[2])
           /\ \A n \in SUBSET m : n \in Diff!Matchings(a, b)
           /\ IsFiniteSet(m)
<1>1. DOMAIN a = 1 .. Len(a) /\ DOMAIN b = 1 .. Len(b) /\ Len(a) \in Nat /\ Len(b) \in Nat
    BY DEF DiffLines
<1>2. /\ m \subseteq (1 .. Len(a)) \X (1 .. Len(b))
      /\ \A q \in m : a[q[1]] = b[q[2]]
      /\ \A q, r \in m : q = r \/ (q[1] < r[1] /\ q[2] < r[2]) \/ (q[1] > r[1] /\ q[2] > r[2])
    BY <1>1 DEF Diff!Matchings
<1>3. \A n \in SUBSET m : n \in Diff!Matchings(a, b)
    BY DEF Diff!Matchings
<1>4. IsFiniteSet(m)
    <2>1. IsFiniteSet(1 .. Len(a)) /\ IsFiniteSet(1 .. Len(b))
        BY <1>1, FS_Interval
    <2>2. IsFiniteSet((1 .. Len(a)) \X (1 .. Len(b)))
        BY <2>1, FS_Product
    <2>. QED  BY <1>2, <2>2, FS_Subset
<1>. QED  BY <1>2, <1>3, <1>4

\* The first line left of a plan is in one pair at most, and if the first
\* lines left of both are in a pair each, it is the pair of these two.
LEMMA FirstPair ==
    ASSUME NEW a \in DiffLines, NEW b \in DiffLines, NEW p \in Diff!Cells(a, b),
           NEW m, Matches(a, b, p, m), NEW q \in m, NEW r \in m,
           q[1] = p[1] \/ q[2] = p[2], r[1] = p[1] \/ r[2] = p[2]
    PROVE  q = r
<1>1. m \in Diff!Matchings(a, b) /\ q[1] >= p[1] /\ q[2] >= p[2] /\ r[1] >= p[1] /\ r[2] >= p[2]
    BY DEF Matches
<1>2. /\ q[1] \in 1 .. Len(a) /\ q[2] \in 1 .. Len(b) /\ r[1] \in 1 .. Len(a) /\ r[2] \in 1 .. Len(b)
      /\ q = r \/ (q[1] < r[1] /\ q[2] < r[2]) \/ (q[1] > r[1] /\ q[2] > r[2])
    BY <1>1, MatchingIs
<1>3. p[1] \in Nat /\ p[2] \in Nat /\ Len(a) \in Nat /\ Len(b) \in Nat
    BY CellIs
<1>4. ~ (q[1] < r[1] /\ q[2] < r[2])
    BY <1>1, <1>2, <1>3
<1>5. ~ (q[1] > r[1] /\ q[2] > r[2])
    BY <1>1, <1>2, <1>3
<1>. QED  BY <1>2, <1>4, <1>5

\* The table bounds the matchings.
LEMMA TableBounds ==
    ASSUME NEW a \in DiffLines, NEW b \in DiffLines
    PROVE  \A p \in Diff!Cells(a, b) :
               /\ Diff!Table(a, b)[p] \in Nat
               /\ \A m : Matches(a, b, p, m) => Cardinality(m) <= Diff!Table(a, b)[p]
<1>. DEFINE C == Diff!Cells(a, b)
            t == Diff!Table(a, b)
            Bounds(p) == t[p] \in Nat /\ \A m : Matches(a, b, p, m) => Cardinality(m) <= t[p]
            S == {n \in Nat : \A p \in C : Left(a, b, p) <= n => Bounds(p)}
<1>1. \A p \in C : t[p] = Cell(t, a, b, p)
    BY TableIs
<1>. HIDE DEF t
<1>2. ASSUME NEW p \in C, p[1] > Len(a) \/ p[2] > Len(b) PROVE Bounds(p)
    <2>1. t[p] = 0
        BY <1>1, <1>2 DEF Cell
    <2>2. ASSUME NEW m, Matches(a, b, p, m) PROVE Cardinality(m) <= t[p]
        <3>1. ASSUME NEW q \in m PROVE FALSE
            <4>1. m \in Diff!Matchings(a, b) /\ q[1] >= p[1] /\ q[2] >= p[2]
                BY <2>2 DEF Matches
            <4>2. q[1] \in 1 .. Len(a) /\ q[2] \in 1 .. Len(b)
                BY <4>1, MatchingIs
            <4>3. p[1] \in Nat /\ p[2] \in Nat /\ Len(a) \in Nat /\ Len(b) \in Nat
                BY CellIs
            <4>. QED  BY <1>2, <4>1, <4>2, <4>3
        <3>2. Cardinality(m) = 0
            BY <3>1, FS_EmptySet
        <3>. QED  BY <2>1, <3>2
    <2>. QED  BY <2>1, <2>2
<1>3. ASSUME NEW p \in C, p[1] <= Len(a), p[2] <= Len(b),
             \A q \in C : Left(a, b, q) < Left(a, b, p) => Bounds(q)
      PROVE  Bounds(p)
    <2>. DEFINE down == <<p[1] + 1, p[2]>>
                right == <<p[1], p[2] + 1>>
                next == <<p[1] + 1, p[2] + 1>>
    <2>1. Bounds(down) /\ Bounds(right) /\ Bounds(next)
        BY <1>3, CellsAfter
    <2>2. /\ p[1] \in Nat /\ p[2] \in Nat /\ Len(a) \in Nat /\ Len(b) \in Nat
          /\ ~ (p[1] > Len(a)) /\ ~ (p[2] > Len(b))
        BY <1>3, CellIs
    <2>3. /\ down[1] = p[1] + 1 /\ down[2] = p[2] /\ right[1] = p[1] /\ right[2] = p[2] + 1
          /\ next[1] = p[1] + 1 /\ next[2] = p[2] + 1
        OBVIOUS
    <2>. HIDE DEF down, right, next
    <2>4. ASSUME NEW m, Matches(a, b, p, m)
          PROVE  /\ m \in Diff!Matchings(a, b) /\ IsFiniteSet(m) /\ Cardinality(m) \in Nat
                 /\ \A q \in m : q[1] \in Nat /\ q[2] \in Nat /\ q[1] >= p[1] /\ q[2] >= p[2]
        <3>1. m \in Diff!Matchings(a, b) /\ \A q \in m : q[1] >= p[1] /\ q[2] >= p[2]
            BY <2>4 DEF Matches
        <3>2. IsFiniteSet(m) /\ \A q \in m : q[1] \in Nat /\ q[2] \in Nat
            BY <3>1, MatchingIs
        <3>. QED  BY <3>1, <3>2, FS_CardinalityType
    <2>5. CASE a[p[1]] = b[p[2]]
        <3>1. t[p] = t[next] + 1
            BY <1>1, <2>2, <2>5 DEF Cell, next
        <3>2. ASSUME NEW m, Matches(a, b, p, m) PROVE Cardinality(m) <= t[p]
            <4>1. CASE \E q \in m : q[1] = p[1] \/ q[2] = p[2]
                <5>1. PICK q \in m : q[1] = p[1] \/ q[2] = p[2]
                    BY <4>1
                <5>. DEFINE rest == m \ {q}
                <5>2. ASSUME NEW r \in rest PROVE r[1] >= next[1] /\ r[2] >= next[2]
                    <6>1. ~ (r[1] = p[1] \/ r[2] = p[2])
                        BY <3>2, <5>1, <5>2, FirstPair
                    <6>2. r[1] \in Nat /\ r[2] \in Nat /\ r[1] >= p[1] /\ r[2] >= p[2]
                        BY <2>4, <3>2, <5>2
                    <6>. QED  BY <2>2, <2>3, <6>1, <6>2
                <5>3. Matches(a, b, next, rest)
                    <6>1. rest \in Diff!Matchings(a, b)
                        BY <2>4, <3>2, MatchingIs
                    <6>. HIDE DEF rest
                    <6>. QED  BY <5>2, <6>1 DEF Matches
                <5>4. Cardinality(rest) <= t[next]
                    BY <2>1, <5>3
                <5>5. Cardinality(rest) = Cardinality(m) - 1
                    BY <2>4, <3>2, <5>1, FS_RemoveElement
                <5>6. Cardinality(m) \in Nat /\ t[next] \in Nat
                    BY <2>1, <2>4, <3>2
                <5>. QED  BY <3>1, <5>4, <5>5, <5>6
            <4>2. CASE \A q \in m : q[1] # p[1] /\ q[2] # p[2]
                <5>1. ASSUME NEW q \in m PROVE q[1] >= next[1] /\ q[2] >= next[2]
                    <6>1. q[1] \in Nat /\ q[2] \in Nat /\ q[1] >= p[1] /\ q[2] >= p[2]
                        BY <2>4, <3>2
                    <6>. QED  BY <2>2, <2>3, <4>2, <6>1
                <5>2. Cardinality(m) <= t[next]
                    BY <2>1, <2>4, <3>2, <5>1 DEF Matches
                <5>3. Cardinality(m) \in Nat /\ t[next] \in Nat
                    BY <2>1, <2>4, <3>2
                <5>. QED  BY <3>1, <5>2, <5>3
            <4>. QED  BY <4>1, <4>2
        <3>. QED  BY <2>1, <3>1, <3>2
    <2>6. CASE a[p[1]] # b[p[2]]
        <3>1. t[p] = Diff!Max({t[down], t[right]})
            BY <1>1, <2>2, <2>6 DEF Cell, down, right
        <3>2. t[p] \in Nat /\ t[p] >= t[down] /\ t[p] >= t[right]
            BY <2>1, <3>1, DiffMax
        <3>3. ASSUME NEW m, Matches(a, b, p, m) PROVE Cardinality(m) <= t[p]
            <4>1. CASE \A q \in m : q[1] # p[1]
                <5>1. ASSUME NEW q \in m PROVE q[1] >= down[1] /\ q[2] >= down[2]
                    <6>1. q[1] \in Nat /\ q[2] \in Nat /\ q[1] >= p[1] /\ q[2] >= p[2]
                        BY <2>4, <3>3
                    <6>. QED  BY <2>2, <2>3, <4>1, <6>1
                <5>2. Cardinality(m) <= t[down]
                    BY <2>1, <2>4, <3>3, <5>1 DEF Matches
                <5>3. Cardinality(m) \in Nat /\ t[down] \in Nat
                    BY <2>1, <2>4, <3>3
                <5>. QED  BY <3>2, <5>2, <5>3
            <4>2. CASE \A q \in m : q[2] # p[2]
                <5>1. ASSUME NEW q \in m PROVE q[1] >= right[1] /\ q[2] >= right[2]
                    <6>1. q[1] \in Nat /\ q[2] \in Nat /\ q[1] >= p[1] /\ q[2] >= p[2]
                        BY <2>4, <3>3
                    <6>. QED  BY <2>2, <2>3, <4>2, <6>1
                <5>2. Cardinality(m) <= t[right]
                    BY <2>1, <2>4, <3>3, <5>1 DEF Matches
                <5>3. Cardinality(m) \in Nat /\ t[right] \in Nat
                    BY <2>1, <2>4, <3>3
                <5>. QED  BY <3>2, <5>2, <5>3
            <4>3. ASSUME NEW q \in m, NEW r \in m, q[1] = p[1], r[2] = p[2] PROVE FALSE
                <5>1. q = r
                    BY <3>3, <4>3, FirstPair
                <5>2. a[q[1]] = b[q[2]]
                    BY <2>4, <3>3, MatchingIs
                <5>. QED  BY <2>6, <4>3, <5>1, <5>2
            <4>. QED  BY <4>1, <4>2, <4>3
        <3>. QED  BY <3>2, <3>3
    <2>. QED  BY <2>5, <2>6
<1>4. ASSUME NEW p \in C, \A q \in C : Left(a, b, q) < Left(a, b, p) => Bounds(q) PROVE Bounds(p)
    <2>1. p[1] \in Nat /\ p[2] \in Nat /\ Len(a) \in Nat /\ Len(b) \in Nat
        BY CellIs
    <2>2. p[1] > Len(a) \/ p[2] > Len(b) \/ (p[1] <= Len(a) /\ p[2] <= Len(b))
        BY <2>1
    <2>. HIDE DEF Bounds
    <2>. QED  BY <1>2, <1>3, <1>4, <2>2
<1>. HIDE DEF Bounds
<1>5. \A p \in C : Left(a, b, p) \in Nat
    BY CellIs
<1>6. 0 \in S
    <2>1. ASSUME NEW p \in C, Left(a, b, p) <= 0 PROVE Bounds(p)
        <3>1. \A q \in C : ~ (Left(a, b, q) < Left(a, b, p))
            BY <1>5, <2>1
        <3>. QED  BY <1>4, <3>1
    <2>. QED  BY <2>1
<1>7. ASSUME NEW n \in Nat, n \in S PROVE n + 1 \in S
    <2>1. ASSUME NEW p \in C, Left(a, b, p) <= n + 1 PROVE Bounds(p)
        <3>1. ASSUME NEW q \in C, Left(a, b, q) < Left(a, b, p) PROVE Bounds(q)
            <4>1. Left(a, b, q) <= n
                BY <1>5, <2>1, <3>1
            <4>. QED  BY <1>7, <4>1
        <3>. QED  BY <1>4, <3>1
    <2>. QED  BY <2>1
<1>8. Nat \subseteq S
    <2>. HIDE DEF S
    <2>. QED  BY <1>6, <1>7, SetInduction
<1>9. \A p \in C : Bounds(p)
    <2>1. ASSUME NEW p \in C PROVE Bounds(p)
        <3>1. Left(a, b, p) \in Nat /\ Left(a, b, p) <= Left(a, b, p)
            BY <1>5
        <3>. QED  BY <1>8, <3>1
    <2>. QED  BY <2>1
<1>. QED  BY <1>9 DEF Bounds, t

-----------------------------------------------------------------------------
(* The walk over the table                                                 *)

LEMMA ToldNothing ==
    ASSUME NEW side, NEW plan \in DiffLines PROVE Told(<<>>, side, <<>>, plan, 1)
<1>1. <<>> \in DiffLines /\ <<>> \o <<>> = <<>>
    BY ConcatEmptySeq DEF DiffLines
<1>2. SubSeq(plan, 1, 1 - 1) = <<>>
    BY SubSeqEmpty
<1>. QED  BY <1>1, <1>2, ReadsNothing DEF Told

LEMMA ToldTaken ==
    ASSUME NEW rows, NEW side, NEW pending \in DiffLines, NEW plan \in DiffLines,
           NEW n \in 1 .. Len(plan), Told(rows, side, pending, plan, n)
    PROVE  Told(rows, side, Append(pending, plan[n]), plan, n + 1)
<1>1. PICK p \in DiffLines : Diff!Reads(rows, side, p) /\ p \o pending = SubSeq(plan, 1, n - 1)
    BY DEF Told
<1>2. Len(plan) \in Nat /\ 1 \in 1 .. Len(plan) /\ n \in 1 .. Len(plan) /\ n + 1 - 1 = n /\ plan[n] \in Diff!Lines
    BY DEF DiffLines
<1>3. SubSeq(plan, 1, n) = SubSeq(plan, 1, n - 1) \o <<plan[n]>>
    BY <1>2, SubSeqRecursiveSecond DEF DiffLines
<1>4. Append(pending, plan[n]) = pending \o <<plan[n]>> /\ <<plan[n]>> \in DiffLines
    BY <1>2, AppendIsConcat DEF DiffLines
<1>5. p \o (pending \o <<plan[n]>>) = (p \o pending) \o <<plan[n]>>
    BY <1>4, ConcatAssociative DEF DiffLines
<1>6. p \o Append(pending, plan[n]) = SubSeq(plan, 1, n + 1 - 1)
    BY <1>1, <1>2, <1>3, <1>4, <1>5
<1>. QED  BY <1>1, <1>6 DEF Told

LEMMA ToldRest ==
    ASSUME NEW rows, NEW side, NEW pending \in DiffLines, NEW plan \in DiffLines,
           NEW n \in 1 .. Len(plan) + 1, Told(rows, side, pending, plan, n)
    PROVE  /\ pending \o SubSeq(plan, n, Len(plan)) \in DiffLines
           /\ Told(rows, side, pending \o SubSeq(plan, n, Len(plan)), plan, Len(plan) + 1)
<1>. DEFINE rest == SubSeq(plan, n, Len(plan))
<1>1. PICK p \in DiffLines : Diff!Reads(rows, side, p) /\ p \o pending = SubSeq(plan, 1, n - 1)
    BY DEF Told
<1>2. Len(plan) \in Nat
    BY DEF DiffLines
<1>3. rest \in DiffLines
    BY <1>2, SubSeqProperties DEF DiffLines
<1>4. SubSeq(plan, 1, n - 1) \o rest = SubSeq(plan, 1, Len(plan))
    <2>1. /\ 1 \in 1 .. Len(plan) + 1 /\ n - 1 \in 1 - 1 .. Len(plan) /\ Len(plan) \in n - 1 .. Len(plan)
          /\ n - 1 + 1 = n
        BY <1>2
    <2>. QED  BY <2>1, ConcatAdjacentSubSeq DEF DiffLines
<1>. HIDE DEF rest
<1>5. pending \o rest \in DiffLines /\ p \o (pending \o rest) = (p \o pending) \o rest
    BY <1>3, ConcatAssociative, ConcatProperties DEF DiffLines
<1>6. Len(plan) + 1 - 1 = Len(plan)
    BY <1>2
<1>7. p \o (pending \o rest) = SubSeq(plan, 1, Len(plan) + 1 - 1)
    BY <1>1, <1>4, <1>5, <1>6
<1>8. Told(rows, side, pending \o rest, plan, Len(plan) + 1)
    BY <1>1, <1>7 DEF Told
<1>. QED  BY <1>5, <1>8 DEF rest

LEMMA ToldFlushed ==
    ASSUME NEW rows \in Seq(DiffRows), NEW flushed \in Seq(DiffRows), NEW side,
           NEW pending \in DiffLines, NEW plan \in DiffLines, NEW n,
           Told(rows, side, pending, plan, n), Diff!Reads(flushed, side, pending)
    PROVE  Told(rows \o flushed, side, <<>>, plan, n)
<1>1. PICK p \in DiffLines : Diff!Reads(rows, side, p) /\ p \o pending = SubSeq(plan, 1, n - 1)
    BY DEF Told
<1>2. Diff!Reads(rows \o flushed, side, p \o pending)
    BY <1>1, ReadsJoin
<1>3. p \o pending \in DiffLines /\ (p \o pending) \o <<>> = p \o pending
    BY ConcatProperties, ConcatEmptySeq DEF DiffLines
<1>. QED  BY <1>1, <1>2, <1>3 DEF Told

LEMMA ToldSame ==
    ASSUME NEW rows \in Seq(DiffRows), NEW side \in Diff!Sides, NEW plan \in DiffLines,
           NEW n \in 1 .. Len(plan), Told(rows, side, <<>>, plan, n)
    PROVE  Told(rows \o <<Diff!Row("same", plan[n])>>, side, <<>>, plan, n + 1)
<1>. DEFINE row == Diff!Row("same", plan[n])
<1>1. PICK p \in DiffLines : Diff!Reads(rows, side, p) /\ p \o <<>> = SubSeq(plan, 1, n - 1)
    BY DEF Told
<1>2. Len(plan) \in Nat /\ 1 \in 1 .. Len(plan) /\ n \in 1 .. Len(plan) /\ n + 1 - 1 = n /\ plan[n] \in Diff!Lines
    BY DEF DiffLines
<1>3. row \in DiffRows /\ row.kind = "same" /\ row.line = plan[n]
    BY <1>2, RowType
<1>. HIDE DEF row
<1>4. row.kind \in Diff!Kinds(side) /\ Diff!Shows(row, side, plan[n])
    BY <1>3 DEF Diff!Kinds, Diff!Shows
<1>5. <<plan[n]>> \in DiffLines /\ <<row>> \in Seq(DiffRows) /\ Diff!Reads(<<row>>, side, <<plan[n]>>)
    BY <1>2, <1>3, <1>4, ReadsRow DEF DiffLines
<1>6. Diff!Reads(rows \o <<row>>, side, p \o <<plan[n]>>)
    BY <1>1, <1>5, ReadsJoin
<1>7. p \o <<>> = p /\ p \o <<plan[n]>> \in DiffLines /\ (p \o <<plan[n]>>) \o <<>> = p \o <<plan[n]>>
    BY <1>5, ConcatEmptySeq, ConcatProperties DEF DiffLines
<1>8. SubSeq(plan, 1, n) = SubSeq(plan, 1, n - 1) \o <<plan[n]>>
    BY <1>2, SubSeqRecursiveSecond DEF DiffLines
<1>9. (p \o <<plan[n]>>) \o <<>> = SubSeq(plan, 1, n + 1 - 1)
    BY <1>1, <1>2, <1>7, <1>8
<1>10. Told(rows \o <<row>>, side, <<>>, plan, n + 1)
    <2>. DEFINE q == p \o <<plan[n]>>
    <2>1. q \in DiffLines /\ Diff!Reads(rows \o <<row>>, side, q) /\ q \o <<>> = SubSeq(plan, 1, n + 1 - 1)
        BY <1>6, <1>7, <1>9
    <2>. HIDE DEF q
    <2>. QED  BY <2>1 DEF Told
<1>. QED  BY <1>10 DEF row

LEMMA ToldAll ==
    ASSUME NEW rows, NEW side, NEW plan \in DiffLines, Told(rows, side, <<>>, plan, Len(plan) + 1)
    PROVE  Diff!Reads(rows, side, plan)
<1>1. PICK p \in DiffLines : Diff!Reads(rows, side, p) /\ p \o <<>> = SubSeq(plan, 1, Len(plan) + 1 - 1)
    BY DEF Told
<1>2. Len(plan) \in Nat /\ Len(plan) + 1 - 1 = Len(plan)
    BY DEF DiffLines
<1>3. p \o <<>> = p /\ SubSeq(plan, 1, Len(plan)) = plan
    BY ConcatEmptySeq, SubSeqFull DEF DiffLines
<1>. QED  BY <1>1, <1>2, <1>3

\* More rows have as many common lines at least, and one more with a row of
\* a common line.
LEMMA SamesKept ==
    ASSUME NEW r \in Seq(DiffRows), NEW s \in Seq(DiffRows)
    PROVE  /\ Cardinality(Diff!SameRows(r)) \in Nat /\ Cardinality(Diff!SameRows(r \o s)) \in Nat
           /\ Cardinality(Diff!SameRows(r)) <= Cardinality(Diff!SameRows(r \o s))
<1>1. /\ DOMAIN r = 1 .. Len(r) /\ Len(r) \in Nat /\ Len(s) \in Nat
      /\ DOMAIN (r \o s) = 1 .. Len(r) + Len(s)
      /\ \A k \in 1 .. Len(r) : (r \o s)[k] = r[k]
    BY ConcatProperties
<1>2. Diff!SameRows(r) \subseteq Diff!SameRows(r \o s) /\ Diff!SameRows(r \o s) \subseteq 1 .. Len(r) + Len(s)
    BY <1>1 DEF Diff!SameRows
<1>3. IsFiniteSet(Diff!SameRows(r \o s))
    <2>1. IsFiniteSet(1 .. Len(r) + Len(s))
        BY <1>1, FS_Interval
    <2>. QED  BY <1>2, <2>1, FS_Subset
<1>. QED  BY <1>2, <1>3, FS_Subset, FS_CardinalityType

LEMMA SamesAdd ==
    ASSUME NEW r \in Seq(DiffRows), NEW row \in DiffRows, row.kind = "same"
    PROVE  Cardinality(Diff!SameRows(r \o <<row>>)) = Cardinality(Diff!SameRows(r)) + 1
<1>. DEFINE n == Len(r) + 1
            all == r \o <<row>>
<1>1. /\ DOMAIN r = 1 .. Len(r) /\ Len(r) \in Nat /\ DOMAIN all = 1 .. n
      /\ \A k \in 1 .. Len(r) : all[k] = r[k]
      /\ all[n] = row
    <2>1. Append(r, row) = all
        BY AppendIsConcat
    <2>2. /\ Append(r, row) \in Seq(DiffRows) /\ Len(Append(r, row)) = n
          /\ \A k \in 1 .. Len(r) : Append(r, row)[k] = r[k]
          /\ Append(r, row)[n] = row
        BY AppendProperties
    <2>3. DOMAIN r = 1 .. Len(r) /\ Len(r) \in Nat /\ DOMAIN Append(r, row) = 1 .. Len(Append(r, row))
        BY <2>2
    <2>. QED  BY <2>1, <2>2, <2>3
<1>. HIDE DEF all
<1>2. Diff!SameRows(all) = Diff!SameRows(r) \union {n} /\ n \notin Diff!SameRows(r)
    <2>1. \A k \in 1 .. n : k \in 1 .. Len(r) \/ k = n
        BY <1>1
    <2>2. n \in 1 .. n /\ n \notin 1 .. Len(r) /\ 1 .. Len(r) \subseteq 1 .. n
        BY <1>1
    <2>. HIDE DEF n
    <2>. QED  BY <1>1, <2>1, <2>2 DEF Diff!SameRows
<1>3. IsFiniteSet(Diff!SameRows(r))
    <2>1. IsFiniteSet(1 .. Len(r)) /\ Diff!SameRows(r) \subseteq 1 .. Len(r)
        BY <1>1, FS_Interval DEF Diff!SameRows
    <2>. QED  BY <2>1, FS_Subset
<1>4. Cardinality(Diff!SameRows(all)) = Cardinality(Diff!SameRows(r)) + 1
    BY <1>2, <1>3, FS_AddElement
<1>. QED  BY <1>4 DEF all

LEMMA DiffInitInv ==
    ASSUME Diff!Init PROVE DiffInv
<1>1. PICK a \in Diff!Plans, b \in Diff!Plans :
         calc = [a |-> a, b |-> b, dp |-> Diff!Table(a, b), i |-> 1, j |-> 1,
                 removed |-> <<>>, added |-> <<>>, rows |-> <<>>, done |-> FALSE]
    BY DEF Diff!Init
<1>2. /\ DOMAIN calc = DiffFields /\ calc.a = a /\ calc.b = b /\ calc.dp = Diff!Table(a, b)
      /\ calc.i = 1 /\ calc.j = 1 /\ calc.removed = <<>> /\ calc.added = <<>> /\ calc.rows = <<>>
      /\ calc.done = FALSE
    BY <1>1 DEF DiffFields
<1>3. a \in DiffLines /\ b \in DiffLines
    BY DEF Diff!Plans, Diff!BoundedSeq, Diff!SeqOf, DiffLines
<1>4. <<>> \in DiffLines /\ <<>> \in Seq(DiffRows) /\ Len(a) \in Nat /\ Len(b) \in Nat
    BY <1>3 DEF DiffLines
<1>5. Told(<<>>, "first", <<>>, a, 1) /\ Told(<<>>, "second", <<>>, b, 1)
    BY <1>3, ToldNothing
<1>6. <<1, 1>> \in Diff!Cells(a, b)
    BY <1>4 DEF Diff!Cells
<1>7. Diff!Table(a, b)[<<1, 1>>] \in Nat
    BY <1>3, <1>6, TableBounds
<1>8. Cardinality(Diff!SameRows(<<>>)) \in Nat
    BY <1>4, SamesKept
<1>9. Diff!Table(a, b)[<<1, 1>>] <= Cardinality(Diff!SameRows(<<>>)) + Diff!Table(a, b)[<<1, 1>>]
    BY <1>7, <1>8
<1>10. calc.i \in 1 .. Len(calc.a) + 1 /\ calc.j \in 1 .. Len(calc.b) + 1
    BY <1>2, <1>4
<1>11. calc.dp[<<1, 1>>] <= Cardinality(Diff!SameRows(calc.rows)) + calc.dp[<<calc.i, calc.j>>]
    BY <1>2, <1>9
<1>. QED  BY <1>2, <1>3, <1>4, <1>5, <1>10, <1>11 DEF DiffInv

\* What the table says of the next step.
LEMMA NextCell ==
    ASSUME DiffInv
    PROVE  LET i == calc.i
               j == calc.j
               t == calc.dp
           IN  /\ i \in 1 .. Len(calc.a) + 1 /\ j \in 1 .. Len(calc.b) + 1
               /\ Len(calc.a) \in Nat /\ Len(calc.b) \in Nat
               /\ t[<<1, 1>>] \in Nat /\ t[<<i, j>>] \in Nat
               /\ ~ Diff!Walking => t[<<i, j>>] = 0 /\ t[<<Len(calc.a) + 1, Len(calc.b) + 1>>] = 0
               /\ Diff!Walking =>
                    /\ i \in 1 .. Len(calc.a) /\ j \in 1 .. Len(calc.b)
                    /\ t[<<i + 1, j>>] \in Nat /\ t[<<i, j + 1>>] \in Nat
                    /\ calc.a[i] = calc.b[j] => t[<<i, j>>] = t[<<i + 1, j + 1>>] + 1
                    /\ calc.a[i] # calc.b[j] =>
                         t[<<i, j>>] = IF t[<<i + 1, j>>] >= t[<<i, j + 1>>] THEN t[<<i + 1, j>>] ELSE t[<<i, j + 1>>]
<1>. DEFINE a == calc.a
            b == calc.b
            i == calc.i
            j == calc.j
            t == Diff!Table(a, b)
            p == <<i, j>>
            end == <<Len(a) + 1, Len(b) + 1>>
            C == Diff!Cells(a, b)
<1>1. /\ a \in DiffLines /\ b \in DiffLines /\ Len(a) \in Nat /\ Len(b) \in Nat /\ calc.dp = t
      /\ i \in 1 .. Len(a) + 1 /\ j \in 1 .. Len(b) + 1
    BY DEF DiffInv, DiffLines
<1>2. p \in C /\ <<1, 1>> \in C /\ end \in C
    BY <1>1 DEF Diff!Cells
<1>3. p[1] = i /\ p[2] = j /\ end[1] = Len(a) + 1 /\ end[2] = Len(b) + 1
    OBVIOUS
<1>4. Diff!Walking <=> i <= Len(a) /\ j <= Len(b)
    BY DEF Diff!Walking
<1>. HIDE DEF t, p, end, a, b, i, j
<1>5. \A q \in C : t[q] \in Nat /\ t[q] = Cell(t, a, b, q)
    BY <1>1, TableIs, TableBounds DEF t
<1>6. ASSUME ~ Diff!Walking PROVE t[p] = 0 /\ t[end] = 0
    <2>1. (p[1] > Len(a) \/ p[2] > Len(b)) /\ (end[1] > Len(a) \/ end[2] > Len(b))
        BY <1>1, <1>3, <1>4, <1>6
    <2>2. Cell(t, a, b, p) = 0 /\ Cell(t, a, b, end) = 0
        BY <2>1 DEF Cell
    <2>. QED  BY <1>2, <1>5, <2>2
<1>7. ASSUME Diff!Walking
      PROVE  /\ i \in 1 .. Len(a) /\ j \in 1 .. Len(b)
             /\ t[<<i + 1, j>>] \in Nat /\ t[<<i, j + 1>>] \in Nat
             /\ a[i] = b[j] => t[p] = t[<<i + 1, j + 1>>] + 1
             /\ a[i] # b[j] =>
                  t[p] = IF t[<<i + 1, j>>] >= t[<<i, j + 1>>] THEN t[<<i + 1, j>>] ELSE t[<<i, j + 1>>]
    <2>1. i \in 1 .. Len(a) /\ j \in 1 .. Len(b) /\ ~ (p[1] > Len(a)) /\ ~ (p[2] > Len(b))
        BY <1>1, <1>3, <1>4, <1>7
    <2>2. <<i + 1, j>> \in C /\ <<i, j + 1>> \in C
        BY <1>1, <2>1 DEF Diff!Cells
    <2>3. t[<<i + 1, j>>] \in Nat /\ t[<<i, j + 1>>] \in Nat
        BY <1>5, <2>2
    <2>4. a[i] = b[j] => t[p] = t[<<i + 1, j + 1>>] + 1
        <3>1. a[i] = b[j] => Cell(t, a, b, p) = t[<<i + 1, j + 1>>] + 1
            BY <1>3, <2>1 DEF Cell
        <3>. QED  BY <1>2, <1>5, <3>1
    <2>5. a[i] # b[j] => t[p] = Diff!Max({t[<<i + 1, j>>], t[<<i, j + 1>>]})
        <3>1. a[i] # b[j] => Cell(t, a, b, p) = Diff!Max({t[<<i + 1, j>>], t[<<i, j + 1>>]})
            BY <1>3, <2>1 DEF Cell
        <3>. QED  BY <1>2, <1>5, <3>1
    <2>6. Diff!Max({t[<<i + 1, j>>], t[<<i, j + 1>>]})
              = IF t[<<i + 1, j>>] >= t[<<i, j + 1>>] THEN t[<<i + 1, j>>] ELSE t[<<i, j + 1>>]
        BY <2>3, DiffMax
    <2>. QED  BY <2>1, <2>3, <2>4, <2>5, <2>6
<1>8. t[<<1, 1>>] \in Nat /\ t[p] \in Nat
    BY <1>2, <1>5
<1>. QED  BY <1>1, <1>6, <1>7, <1>8 DEF a, b, i, j, p, end

LEMMA DiffSameInv ==
    ASSUME DiffInv, Diff!Same PROVE DiffInv'
<1>. DEFINE flushed == Diff!Flushed(calc.removed, calc.added)
            row == Diff!Row("same", Diff!LineB)
<1>1. /\ DOMAIN calc = DiffFields /\ calc.a \in DiffLines /\ calc.b \in DiffLines
      /\ calc.dp = Diff!Table(calc.a, calc.b)
      /\ calc.removed \in DiffLines /\ calc.added \in DiffLines
      /\ calc.rows \in Seq(DiffRows) /\ calc.done \in BOOLEAN
      /\ Told(calc.rows, "first", calc.removed, calc.a, calc.i)
      /\ Told(calc.rows, "second", calc.added, calc.b, calc.j)
    BY DEF DiffInv
<1>2. /\ DOMAIN calc' = DiffFields /\ calc'.a = calc.a /\ calc'.b = calc.b /\ calc'.dp = calc.dp
      /\ calc'.i = calc.i + 1 /\ calc'.j = calc.j + 1 /\ calc'.removed = <<>> /\ calc'.added = <<>>
      /\ calc'.rows = calc.rows \o flushed \o <<row>> /\ calc'.done = calc.done
    BY <1>1 DEF Diff!Same, Diff!Flush, DiffFields
<1>3. /\ Diff!Walking /\ calc.a[calc.i] = calc.b[calc.j] /\ Diff!LineB = calc.b[calc.j]
      /\ calc.i \in 1 .. Len(calc.a) /\ calc.j \in 1 .. Len(calc.b)
      /\ Len(calc.a) \in Nat /\ Len(calc.b) \in Nat
      /\ calc.dp[<<calc.i, calc.j>>] = calc.dp[<<calc.i + 1, calc.j + 1>>] + 1
    BY NextCell DEF Diff!Same, Diff!LineA, Diff!LineB
<1>4. /\ flushed \in Seq(DiffRows) /\ Diff!Reads(flushed, "first", calc.removed)
      /\ Diff!Reads(flushed, "second", calc.added)
    BY <1>1, ReadsFlushed
<1>5. row \in DiffRows /\ row.kind = "same"
    <2>1. Diff!LineB \in Diff!Lines
        BY <1>1, <1>3 DEF DiffLines
    <2>. QED  BY <2>1, RowType
<1>. DEFINE rows == calc.rows \o flushed
<1>. HIDE DEF flushed
<1>6. /\ rows \in Seq(DiffRows) /\ <<row>> \in Seq(DiffRows) /\ rows \o <<row>> \in Seq(DiffRows)
      /\ <<>> \in DiffLines
    BY <1>1, <1>4, <1>5, ConcatProperties DEF DiffLines
<1>7. Told(rows, "first", <<>>, calc.a, calc.i) /\ Told(rows, "second", <<>>, calc.b, calc.j)
    BY <1>1, <1>4, ToldFlushed
<1>8. /\ Cardinality(Diff!SameRows(calc.rows)) \in Nat /\ Cardinality(Diff!SameRows(rows)) \in Nat
      /\ Cardinality(Diff!SameRows(calc.rows)) <= Cardinality(Diff!SameRows(rows))
    BY <1>1, <1>4, SamesKept
<1>. HIDE DEF rows
<1>9. /\ Told(rows \o <<row>>, "first", <<>>, calc.a, calc.i + 1)
      /\ Told(rows \o <<row>>, "second", <<>>, calc.b, calc.j + 1)
    BY <1>1, <1>3, <1>6, <1>7, ToldSame DEF Diff!Sides
<1>10. Cardinality(Diff!SameRows(rows \o <<row>>)) = Cardinality(Diff!SameRows(rows)) + 1
    BY <1>5, <1>6, SamesAdd
<1>11. calc.dp[<<1, 1>>] <= Cardinality(Diff!SameRows(rows \o <<row>>)) + calc.dp[<<calc.i + 1, calc.j + 1>>]
    <2>1. calc.dp[<<1, 1>>] \in Nat /\ calc.dp[<<calc.i, calc.j>>] \in Nat
        BY NextCell
    <2>2. calc.dp[<<1, 1>>] <= Cardinality(Diff!SameRows(calc.rows)) + calc.dp[<<calc.i, calc.j>>]
        BY DEF DiffInv
    <2>3. calc.dp[<<calc.i + 1, calc.j + 1>>] \in Nat
        <3>1. <<calc.i + 1, calc.j + 1>> \in Diff!Cells(calc.a, calc.b)
            BY <1>3 DEF Diff!Cells
        <3>. QED  BY <1>1, <3>1, TableBounds
    <2>. DEFINE here == calc.dp[<<calc.i, calc.j>>]
                next == calc.dp[<<calc.i + 1, calc.j + 1>>]
                sames == Cardinality(Diff!SameRows(rows \o <<row>>))
    <2>4. /\ here \in Nat /\ next \in Nat /\ here = next + 1 /\ sames = Cardinality(Diff!SameRows(rows)) + 1
          /\ calc.dp[<<1, 1>>] \in Nat /\ calc.dp[<<1, 1>>] <= Cardinality(Diff!SameRows(calc.rows)) + here
        BY <1>3, <1>10, <2>1, <2>2, <2>3
    <2>. HIDE DEF here, next, sames
    <2>5. calc.dp[<<1, 1>>] <= sames + next
        BY <1>8, <2>4
    <2>. QED  BY <2>5 DEF sames, next
<1>12. ~ calc.done
    BY <1>3 DEF DiffInv
<1>13. calc'.rows = rows \o <<row>>
    BY <1>2 DEF rows
<1>. HIDE DEF row
<1>14. calc'.i \in 1 .. Len(calc'.a) + 1 /\ calc'.j \in 1 .. Len(calc'.b) + 1
    BY <1>2, <1>3
<1>. QED  BY <1>1, <1>2, <1>6, <1>9, <1>11, <1>12, <1>13, <1>14 DEF DiffInv

LEMMA DiffTakeInv ==
    ASSUME DiffInv, Diff!TakeRemoved \/ Diff!TakeAdded PROVE DiffInv'
<1>1. /\ DOMAIN calc = DiffFields /\ calc.a \in DiffLines /\ calc.b \in DiffLines
      /\ calc.dp = Diff!Table(calc.a, calc.b)
      /\ calc.removed \in DiffLines /\ calc.added \in DiffLines
      /\ calc.rows \in Seq(DiffRows) /\ calc.done \in BOOLEAN
      /\ Told(calc.rows, "first", calc.removed, calc.a, calc.i)
      /\ Told(calc.rows, "second", calc.added, calc.b, calc.j)
      /\ calc.dp[<<1, 1>>] <= Cardinality(Diff!SameRows(calc.rows)) + calc.dp[<<calc.i, calc.j>>]
    BY DEF DiffInv
<1>2. /\ Diff!Walking /\ calc.a[calc.i] # calc.b[calc.j]
      /\ calc.i \in 1 .. Len(calc.a) /\ calc.j \in 1 .. Len(calc.b)
      /\ Len(calc.a) \in Nat /\ Len(calc.b) \in Nat
      /\ calc.dp[<<calc.i + 1, calc.j>>] \in Nat /\ calc.dp[<<calc.i, calc.j + 1>>] \in Nat
      /\ calc.dp[<<calc.i, calc.j>>] =
           IF calc.dp[<<calc.i + 1, calc.j>>] >= calc.dp[<<calc.i, calc.j + 1>>]
           THEN calc.dp[<<calc.i + 1, calc.j>>] ELSE calc.dp[<<calc.i, calc.j + 1>>]
    BY NextCell DEF Diff!TakeRemoved, Diff!TakeAdded, Diff!LineA, Diff!LineB
<1>3. ~ calc.done
    BY <1>2 DEF DiffInv
<1>4. CASE Diff!TakeRemoved
    <2>1. /\ DOMAIN calc' = DiffFields /\ calc'.a = calc.a /\ calc'.b = calc.b /\ calc'.dp = calc.dp
          /\ calc'.i = calc.i + 1 /\ calc'.j = calc.j /\ calc'.added = calc.added
          /\ calc'.removed = Append(calc.removed, calc.a[calc.i])
          /\ calc'.rows = calc.rows /\ calc'.done = calc.done
        BY <1>1, <1>4 DEF Diff!TakeRemoved, Diff!LineA, DiffFields
    <2>2. calc.dp[<<calc.i, calc.j>>] = calc.dp[<<calc.i + 1, calc.j>>]
        BY <1>2, <1>4 DEF Diff!TakeRemoved
    <2>3. Told(calc.rows, "first", Append(calc.removed, calc.a[calc.i]), calc.a, calc.i + 1)
        BY <1>1, <1>2, ToldTaken
    <2>4. Append(calc.removed, calc.a[calc.i]) \in DiffLines
        BY <1>1, <1>2 DEF DiffLines
    <2>5. calc'.i \in 1 .. Len(calc'.a) + 1 /\ calc'.j \in 1 .. Len(calc'.b) + 1
        BY <1>2, <2>1
    <2>. QED  BY <1>1, <1>3, <2>1, <2>2, <2>3, <2>4, <2>5 DEF DiffInv
<1>5. CASE Diff!TakeAdded
    <2>1. /\ DOMAIN calc' = DiffFields /\ calc'.a = calc.a /\ calc'.b = calc.b /\ calc'.dp = calc.dp
          /\ calc'.i = calc.i /\ calc'.j = calc.j + 1 /\ calc'.removed = calc.removed
          /\ calc'.added = Append(calc.added, calc.b[calc.j])
          /\ calc'.rows = calc.rows /\ calc'.done = calc.done
        BY <1>1, <1>5 DEF Diff!TakeAdded, Diff!LineB, DiffFields
    <2>2. calc.dp[<<calc.i, calc.j>>] = calc.dp[<<calc.i, calc.j + 1>>]
        BY <1>2, <1>5 DEF Diff!TakeAdded
    <2>3. Told(calc.rows, "second", Append(calc.added, calc.b[calc.j]), calc.b, calc.j + 1)
        BY <1>1, <1>2, ToldTaken
    <2>4. Append(calc.added, calc.b[calc.j]) \in DiffLines
        BY <1>1, <1>2 DEF DiffLines
    <2>5. calc'.i \in 1 .. Len(calc'.a) + 1 /\ calc'.j \in 1 .. Len(calc'.b) + 1
        BY <1>2, <2>1
    <2>. QED  BY <1>1, <1>3, <2>1, <2>2, <2>3, <2>4, <2>5 DEF DiffInv
<1>. QED  BY <1>4, <1>5

LEMMA DiffFinishInv ==
    ASSUME DiffInv, Diff!Finish PROVE DiffInv'
<1>. DEFINE removed == calc.removed \o SubSeq(calc.a, calc.i, Len(calc.a))
            added == calc.added \o SubSeq(calc.b, calc.j, Len(calc.b))
            flushed == Diff!Flushed(removed, added)
            rows == calc.rows \o flushed
            end == <<Len(calc.a) + 1, Len(calc.b) + 1>>
<1>1. /\ DOMAIN calc = DiffFields /\ calc.a \in DiffLines /\ calc.b \in DiffLines
      /\ calc.dp = Diff!Table(calc.a, calc.b)
      /\ calc.i \in 1 .. Len(calc.a) + 1 /\ calc.j \in 1 .. Len(calc.b) + 1
      /\ calc.removed \in DiffLines /\ calc.added \in DiffLines
      /\ calc.rows \in Seq(DiffRows)
      /\ Told(calc.rows, "first", calc.removed, calc.a, calc.i)
      /\ Told(calc.rows, "second", calc.added, calc.b, calc.j)
      /\ calc.dp[<<1, 1>>] <= Cardinality(Diff!SameRows(calc.rows)) + calc.dp[<<calc.i, calc.j>>]
    BY DEF DiffInv
<1>2. /\ DOMAIN calc' = DiffFields /\ calc'.a = calc.a /\ calc'.b = calc.b /\ calc'.dp = calc.dp
      /\ calc'.i = Len(calc.a) + 1 /\ calc'.j = Len(calc.b) + 1
      /\ calc'.removed = <<>> /\ calc'.added = <<>>
      /\ calc'.rows = calc.rows \o flushed \o <<>> /\ calc'.done = TRUE
    BY <1>1 DEF Diff!Finish, Diff!Flush, DiffFields
<1>3. /\ removed \in DiffLines /\ Told(calc.rows, "first", removed, calc.a, Len(calc.a) + 1)
      /\ added \in DiffLines /\ Told(calc.rows, "second", added, calc.b, Len(calc.b) + 1)
    BY <1>1, ToldRest
<1>4. /\ calc.dp[<<1, 1>>] \in Nat /\ calc.dp[<<calc.i, calc.j>>] = 0 /\ calc.dp[end] = 0
      /\ Len(calc.a) \in Nat /\ Len(calc.b) \in Nat
    BY NextCell DEF Diff!Finish
<1>. HIDE DEF removed, added
<1>5. /\ flushed \in Seq(DiffRows) /\ Diff!Reads(flushed, "first", removed)
      /\ Diff!Reads(flushed, "second", added)
    BY <1>3, ReadsFlushed
<1>. HIDE DEF flushed, end
<1>6. rows \in Seq(DiffRows) /\ rows \o <<>> = rows /\ <<>> \in DiffLines
    BY <1>1, <1>5, ConcatProperties, ConcatEmptySeq DEF DiffLines
<1>7. /\ Told(rows, "first", <<>>, calc.a, Len(calc.a) + 1)
      /\ Told(rows, "second", <<>>, calc.b, Len(calc.b) + 1)
    BY <1>1, <1>3, <1>5, ToldFlushed
<1>8. /\ Cardinality(Diff!SameRows(calc.rows)) \in Nat /\ Cardinality(Diff!SameRows(rows)) \in Nat
      /\ Cardinality(Diff!SameRows(calc.rows)) <= Cardinality(Diff!SameRows(rows))
    BY <1>1, <1>5, SamesKept
<1>9. calc.dp[<<1, 1>>] <= Cardinality(Diff!SameRows(rows)) + calc.dp[end]
    BY <1>1, <1>4, <1>8
<1>10. calc'.rows = rows
    BY <1>2, <1>6
<1>. HIDE DEF rows
<1>11. calc'.i \in 1 .. Len(calc'.a) + 1 /\ calc'.j \in 1 .. Len(calc'.b) + 1
    BY <1>2, <1>4
<1>12. calc'.dp[<<1, 1>>] <= Cardinality(Diff!SameRows(calc'.rows)) + calc'.dp[<<calc'.i, calc'.j>>]
    BY <1>2, <1>9, <1>10 DEF end
<1>. QED  BY <1>1, <1>2, <1>6, <1>7, <1>10, <1>11, <1>12 DEF DiffInv

LEMMA DiffStepInv ==
    ASSUME DiffInv, Diff!Next PROVE DiffInv'
BY DiffSameInv, DiffTakeInv, DiffFinishInv DEF Diff!Next

LEMMA DiffHolds ==
    ASSUME DiffInv PROVE Diff!NothingIsLost /\ Diff!MostLinesAreCommon
<1>. SUFFICES ASSUME calc.done
              PROVE  /\ Diff!Reads(calc.rows, "first", calc.a) /\ Diff!Reads(calc.rows, "second", calc.b)
                     /\ \A m \in Diff!Matchings(calc.a, calc.b) :
                            Diff!Cardinality(m) <= Diff!Cardinality(Diff!SameRows(calc.rows))
    BY DEF Diff!NothingIsLost, Diff!MostLinesAreCommon
<1>1. /\ calc.a \in DiffLines /\ calc.b \in DiffLines /\ calc.rows \in Seq(DiffRows)
      /\ calc.dp = Diff!Table(calc.a, calc.b)
      /\ Told(calc.rows, "first", <<>>, calc.a, Len(calc.a) + 1)
      /\ Told(calc.rows, "second", <<>>, calc.b, Len(calc.b) + 1)
      /\ calc.i = Len(calc.a) + 1 /\ calc.j = Len(calc.b) + 1
      /\ calc.dp[<<1, 1>>] <= Cardinality(Diff!SameRows(calc.rows)) + calc.dp[<<calc.i, calc.j>>]
    BY DEF DiffInv
<1>2. Diff!Reads(calc.rows, "first", calc.a) /\ Diff!Reads(calc.rows, "second", calc.b)
    BY <1>1, ToldAll
<1>3. /\ Len(calc.a) \in Nat /\ Len(calc.b) \in Nat
      /\ calc.dp[<<1, 1>>] \in Nat /\ calc.dp[<<calc.i, calc.j>>] = 0
    BY <1>1, NextCell DEF Diff!Walking
<1>4. ASSUME NEW m \in Diff!Matchings(calc.a, calc.b)
      PROVE  Cardinality(m) <= Cardinality(Diff!SameRows(calc.rows))
    <2>1. \A q \in m : q[1] >= 1 /\ q[2] >= 1
        BY <1>1, <1>3, <1>4, MatchingIs
    <2>2. Matches(calc.a, calc.b, <<1, 1>>, m)
        BY <1>4, <2>1 DEF Matches
    <2>3. <<1, 1>> \in Diff!Cells(calc.a, calc.b)
        BY <1>3 DEF Diff!Cells
    <2>4. Cardinality(m) <= calc.dp[<<1, 1>>]
        BY <1>1, <2>2, <2>3, TableBounds
    <2>5. Cardinality(m) \in Nat
        BY <1>1, <1>4, MatchingIs, FS_CardinalityType
    <2>6. Cardinality(Diff!SameRows(calc.rows)) \in Nat
        BY <1>1, SamesKept
    <2>. QED  BY <1>1, <1>3, <2>4, <2>5, <2>6
<1>5. \A m : Diff!Cardinality(m) = Cardinality(m)
    BY DEF Diff!Cardinality, Cardinality
<1>. QED  BY <1>2, <1>4, <1>5

-----------------------------------------------------------------------------
(* Statements                                                              *)

Chars == {"x", "semicolon", "slash", "star", "dash", "space", "newline", "backslash"} \union Split!Quotes
SplitFields == {"text", "read", "sql", "i", "in", "depth", "current", "stmts"}
Trims == {Split!Trim(s) : s \in Seq(Chars)}
ReadStates == [in : Split!Quotes \union {"code"}, depth : Nat, stmts : Seq(Trims), current : Seq(Chars)]

\* A text with what has been read before each token, and at the end.
IsReading(text, read) ==
    /\ text \in Seq(Seq(Chars)) /\ read \in Seq(ReadStates) /\ Len(read) = Len(text) + 1
    /\ read[1] = Split!Start
    /\ \A n \in 1 .. Len(text) :
         /\ text[n] \in Split!Readable(read[n])
         /\ read[n + 1] = Split!After(read[n], text[n])

\* The characters of the first k tokens.
Before(text, k) == Split!FlattenSeq(SubSeq(text, 1, k))

Agrees(r) ==
    calc.in = r.in /\ calc.depth = r.depth /\ calc.current = r.current /\ calc.stmts = r.stmts

\* The loop is between two tokens; within a doubled quote, of which it has
\* closed the literal; within an escaped backslash of an identifier, which it
\* takes as two characters; at the end.
Between ==
    \E k \in 0 .. Len(calc.text) :
        calc.i = Len(Before(calc.text, k)) + 1 /\ Agrees(calc.read[k + 1])

Doubling ==
    \E k \in 0 .. Len(calc.text) - 1 : LET r == calc.read[k + 1] IN
        /\ r.in \in Split!Quotes /\ r.depth = 0 /\ calc.text[k + 1] = <<r.in, r.in>>
        /\ calc.i = Len(Before(calc.text, k)) + 2
        /\ calc.in = "code" /\ calc.depth = 0
        /\ calc.current = r.current \o <<r.in>> /\ calc.stmts = r.stmts

Escaping ==
    \E k \in 0 .. Len(calc.text) - 1 : LET r == calc.read[k + 1] IN
        /\ r.in = "backtick" /\ r.depth = 0 /\ calc.text[k + 1] = <<"backslash", "backslash">>
        /\ calc.i = Len(Before(calc.text, k)) + 2
        /\ calc.in = "backtick" /\ calc.depth = 0
        /\ calc.current = r.current \o <<"backslash">> /\ calc.stmts = r.stmts

Over == calc.i = Len(calc.sql) + 2 /\ calc.stmts = Split!Ended(calc.read[Len(calc.text) + 1])

SplitInv ==
    /\ DOMAIN calc = SplitFields
    /\ IsReading(calc.text, calc.read)
    /\ calc.read[Len(calc.text) + 1].in = "code" /\ calc.read[Len(calc.text) + 1].depth = 0
    /\ calc.sql = Before(calc.text, Len(calc.text))
    /\ \/ Split!QuoteOnQuote \/ Split!EscapedBacktick
       \/ Between \/ Doubling \/ Escaping \/ Over

-----------------------------------------------------------------------------
(* What a token does                                                       *)

LEMMA SplitFlatten == \A ss : Split!FlattenSeq(ss) = Diff!FlattenSeq(ss)
BY DEF Split!FlattenSeq, Diff!FlattenSeq

\* Sequences of different lengths differ; five characters are a sequence.
LEMMA Longer == \A a, b : Len(a) # Len(b) => a # b
OBVIOUS

LEMMA FiveOf ==
    ASSUME NEW S, NEW a \in S, NEW b \in S, NEW c \in S, NEW d \in S
    PROVE  /\ <<a, a, b, c, d>> \in Seq(S) /\ Len(<<a, a, b, c, d>>) = 5
           /\ <<a, a, b, c, d>>[1] = a /\ <<a, a, b, c, d>>[2] = a /\ <<a, a, b, c, d>>[3] = b
           /\ <<a, a, b, c, d>>[4] = c /\ <<a, a, b, c, d>>[5] = d
OBVIOUS

LEMMA CharsAre ==
    /\ "x" \in Chars /\ "semicolon" \in Chars /\ "slash" \in Chars /\ "star" \in Chars
    /\ "dash" \in Chars /\ "space" \in Chars /\ "newline" \in Chars /\ "backslash" \in Chars
    /\ Split!Quotes \subseteq Chars /\ "single" \in Split!Quotes
    /\ \A q \in Split!Quotes :
         q \notin {"x", "semicolon", "slash", "star", "dash", "newline", "backslash", "code"}
<1>1. \A q : q \in Split!Quotes <=> q = "single" \/ q = "double" \/ q = "backtick"
    BY DEF Split!Quotes
<1>. QED  BY <1>1 DEF Chars

LEMMA Lengths ==
    /\ Len(Split!Separator) = 1 /\ Len(Split!CommentStart) = 2
    /\ Len(Split!CommentEnd) = 2 /\ Len(Split!LineComment) = 5
    /\ \A q : Len(<<q>>) = 1
    /\ \A p, q : Len(<<p, q>>) = 2
BY DEF Split!Separator, Split!CommentStart, Split!CommentEnd, Split!LineComment

\* Tokens of one and of two characters are what they look like.
LEMMA OneChar ==
    ASSUME NEW c \in Chars
    PROVE  /\ <<c>> \in Seq(Chars) /\ Len(<<c>>) = 1 /\ <<c>>[1] = c
           /\ <<c>> # Split!CommentStart /\ <<c>> # Split!CommentEnd /\ <<c>> # Split!LineComment
           /\ <<c>> = Split!Separator <=> c = "semicolon"
           /\ <<c>> \in {<<q>> : q \in Split!Quotes} <=> c \in Split!Quotes
<1>1. <<c>> \in Seq(Chars) /\ Len(<<c>>) = 1 /\ <<c>>[1] = c
    OBVIOUS
<1>2. <<c>> = Split!Separator <=> c = "semicolon"
    BY DEF Split!Separator
<1>3. \A q : <<c>> = <<q>> <=> c = q
    OBVIOUS
<1>4. /\ Len(<<c>>) # Len(Split!CommentStart) /\ Len(<<c>>) # Len(Split!CommentEnd)
      /\ Len(<<c>>) # Len(Split!LineComment)
    BY Lengths
<1>5. <<c>> # Split!CommentStart /\ <<c>> # Split!CommentEnd /\ <<c>> # Split!LineComment
    BY <1>4, Longer, Zenon
<1>6. <<c>> \in {<<q>> : q \in Split!Quotes} <=> c \in Split!Quotes
    BY <1>3
<1>. QED  BY <1>1, <1>2, <1>5, <1>6

LEMMA TwoChars ==
    ASSUME NEW c \in Chars, NEW d \in Chars
    PROVE  /\ <<c, d>> \in Seq(Chars) /\ Len(<<c, d>>) = 2 /\ <<c, d>>[1] = c /\ <<c, d>>[2] = d
           /\ <<c, d>> = Split!CommentStart <=> c = "slash" /\ d = "star"
           /\ <<c, d>> = Split!CommentEnd <=> c = "star" /\ d = "slash"
           /\ <<c, d>> # Split!LineComment /\ <<c, d>> # Split!Separator
           /\ <<c, d>> \notin {<<q>> : q \in Split!Quotes}
<1>1. <<c, d>> \in Seq(Chars) /\ Len(<<c, d>>) = 2 /\ <<c, d>>[1] = c /\ <<c, d>>[2] = d
    OBVIOUS
<1>2. /\ <<c, d>> = Split!CommentStart <=> c = "slash" /\ d = "star"
      /\ <<c, d>> = Split!CommentEnd <=> c = "star" /\ d = "slash"
    BY DEF Split!CommentStart, Split!CommentEnd
<1>3. /\ Len(<<c, d>>) # Len(Split!LineComment) /\ Len(<<c, d>>) # Len(Split!Separator)
      /\ \A q : Len(<<c, d>>) # Len(<<q>>)
    BY Lengths
<1>4. <<c, d>> # Split!LineComment /\ <<c, d>> # Split!Separator /\ \A q : <<c, d>> # <<q>>
    BY <1>3, Longer, Zenon
<1>5. <<c, d>> \notin {<<q>> : q \in Split!Quotes}
    BY <1>4, Zenon
<1>. QED  BY <1>1, <1>2, <1>4, <1>5

LEMMA LineChars ==
    /\ Split!LineComment \in Seq(Chars) /\ Len(Split!LineComment) = 5
    /\ Split!LineComment[1] = "dash" /\ Split!LineComment[2] = "dash" /\ Split!LineComment[5] = "newline"
    /\ \A m \in 1 .. 4 : Split!LineComment[m] # "newline"
    /\ Split!LineComment # Split!CommentStart /\ Split!LineComment # Split!CommentEnd
    /\ Split!LineComment # Split!Separator
    /\ Split!LineComment \notin {<<q>> : q \in Split!Quotes}
<1>. DEFINE t == Split!LineComment
<1>1. t = <<"dash", "dash", "semicolon", "single", "newline">>
    BY DEF Split!LineComment
<1>2. /\ t \in Seq(Chars) /\ t[1] = "dash" /\ t[2] = "dash"
      /\ t[3] = "semicolon" /\ t[4] = "single" /\ t[5] = "newline"
    <2>. HIDE DEF t
    <2>1. "dash" \in Chars /\ "semicolon" \in Chars /\ "single" \in Chars /\ "newline" \in Chars
        BY CharsAre
    <2>. QED  BY <1>1, <2>1, FiveOf
<1>3. /\ Len(t) # Len(Split!CommentStart) /\ Len(t) # Len(Split!CommentEnd) /\ Len(t) # Len(Split!Separator)
      /\ \A q : Len(t) # Len(<<q>>)
    BY Lengths
<1>4. /\ t # Split!CommentStart /\ t # Split!CommentEnd /\ t # Split!Separator
      /\ \A q : t # <<q>>
    BY <1>3, Longer, Zenon
<1>5. t \notin {<<q>> : q \in Split!Quotes}
    BY <1>4, Zenon
<1>6. \A m \in 1 .. 4 : m = 1 \/ m = 2 \/ m = 3 \/ m = 4
    OBVIOUS
<1>7. \A m \in 1 .. 4 : t[m] # "newline"
    <2>. HIDE DEF t
    <2>. QED  BY <1>2, <1>6
<1>. QED  BY <1>2, <1>4, <1>5, <1>7, Lengths DEF t

\* What can be read, by where the reader is.
LEMMA ReadableIs ==
    ASSUME NEW r \in ReadStates, NEW t \in Split!Readable(r)
    PROVE  \/ /\ r.depth > 0
              /\ \/ \E c \in {"semicolon", "single"} : t = <<c>>
                 \/ t = <<"slash", "star">>
                 \/ t = <<"star", "slash">>
           \/ /\ r.depth = 0 /\ r.in = "code"
              /\ \/ \E c \in {"x", "semicolon"} \union Split!Quotes : t = <<c>>
                 \/ t = <<"slash", "star">>
                 \/ t = Split!LineComment
           \/ /\ r.depth = 0 /\ r.in \in Split!Quotes
              /\ \/ \E c \in {"semicolon"} \union Split!Quotes : t = <<c>>
                 \/ t = <<r.in, r.in>>
                 \/ \E c \in {r.in, "backslash"} : t = <<"backslash", c>>
<1>1. r.depth \in Nat /\ r.in \in Split!Quotes \union {"code"}
    BY DEF ReadStates
<1>2. CASE r.depth > 0
    BY <1>2 DEF Split!Readable, Split!CommentStart, Split!CommentEnd
<1>3. CASE r.depth = 0 /\ r.in = "code"
    <2>1. t \in {<<"x">>, Split!Separator, Split!CommentStart, Split!LineComment} \union {<<q>> : q \in Split!Quotes}
        BY <1>3 DEF Split!Readable
    <2>2. CASE t \in {<<q>> : q \in Split!Quotes}
        BY <1>3, <2>2
    <2>3. CASE t \in {<<"x">>, Split!Separator, Split!CommentStart, Split!LineComment}
        <3>1. Split!Separator = <<"semicolon">> /\ Split!CommentStart = <<"slash", "star">>
            BY DEF Split!Separator, Split!CommentStart
        <3>. QED  BY <1>3, <2>3, <3>1
    <2>. QED  BY <2>1, <2>2, <2>3
<1>4. CASE r.depth = 0 /\ r.in # "code"
    <2>1. \/ t \in {<<"semicolon">>} \/ t \in {<<q>> : q \in Split!Quotes}
          \/ t \in {<<r.in, r.in>>, <<"backslash", r.in>>, <<"backslash", "backslash">>}
        BY <1>4 DEF Split!Readable
    <2>. QED  BY <1>1, <1>4, <2>1
<1>. QED  BY <1>1, <1>2, <1>3, <1>4

LEMMA AfterOne ==
    ASSUME NEW r \in ReadStates, NEW c \in Chars
    PROVE  Split!After(r, <<c>>) =
               IF r.depth = 0 /\ r.in = "code" /\ c = "semicolon"
               THEN [r EXCEPT !.stmts = Split!Ended(r), !.current = <<>>]
               ELSE [r EXCEPT !.current = @ \o <<c>>,
                              !.in = IF r.depth > 0 \/ c \notin Split!Quotes THEN @
                                     ELSE IF @ = "code" THEN c ELSE IF @ = c THEN "code" ELSE @]
<1>. DEFINE t == <<c>>
<1>1. /\ t # Split!CommentStart /\ t # Split!CommentEnd /\ t # Split!LineComment
      /\ t = Split!Separator <=> c = "semicolon"
      /\ t \in {<<q>> : q \in Split!Quotes} <=> c \in Split!Quotes
      /\ t[1] = c
    BY OneChar
<1>. HIDE DEF t
<1>2. /\ DOMAIN r = {"in", "depth", "stmts", "current"} 
      /\ r = [in |-> r.in, depth |-> r.depth, stmts |-> r.stmts, current |-> r.current]
    BY DEF ReadStates
<1>3. Split!After(r, t) =
               IF r.depth = 0 /\ r.in = "code" /\ c = "semicolon"
               THEN [r EXCEPT !.stmts = Split!Ended(r), !.current = <<>>]
               ELSE [r EXCEPT !.current = @ \o t,
                              !.in = IF r.depth > 0 \/ c \notin Split!Quotes THEN @
                                     ELSE IF @ = "code" THEN c ELSE IF @ = c THEN "code" ELSE @]
    BY <1>1, <1>2 DEF Split!After
<1>. QED  BY <1>3 DEF t

LEMMA AfterTwo ==
    ASSUME NEW r \in ReadStates, NEW c \in Chars, NEW d \in Chars
    PROVE  Split!After(r, <<c, d>>) =
               [r EXCEPT !.current = @ \o <<c, d>>,
                         !.depth = IF c = "slash" /\ d = "star" THEN @ + 1
                                   ELSE IF c = "star" /\ d = "slash" THEN @ - 1 ELSE @]
<1>. DEFINE t == <<c, d>>
<1>1. /\ t = Split!CommentStart <=> c = "slash" /\ d = "star"
      /\ t = Split!CommentEnd <=> c = "star" /\ d = "slash"
      /\ t # Split!LineComment /\ t # Split!Separator /\ t \notin {<<q>> : q \in Split!Quotes}
    BY TwoChars
<1>. HIDE DEF t
<1>2. r = [in |-> r.in, depth |-> r.depth, stmts |-> r.stmts, current |-> r.current]
    BY DEF ReadStates
<1>3. Split!After(r, t) =
               [r EXCEPT !.current = @ \o t,
                         !.depth = IF c = "slash" /\ d = "star" THEN @ + 1
                                   ELSE IF c = "star" /\ d = "slash" THEN @ - 1 ELSE @]
    BY <1>1, <1>2 DEF Split!After
<1>. QED  BY <1>3 DEF t

LEMMA AfterLine ==
    ASSUME NEW r \in ReadStates
    PROVE  Split!After(r, Split!LineComment) = [r EXCEPT !.current = @ \o <<"space">>]
<1>. DEFINE t == Split!LineComment
<1>1. t # Split!CommentStart /\ t # Split!CommentEnd /\ t # Split!Separator /\ t \notin {<<q>> : q \in Split!Quotes}
    BY LineChars
<1>. HIDE DEF t
<1>2. r = [in |-> r.in, depth |-> r.depth, stmts |-> r.stmts, current |-> r.current]
    BY DEF ReadStates
<1>3. t = Split!LineComment
    BY DEF t
<1>4. Split!After(r, t) = [r EXCEPT !.current = @ \o <<"space">>]
    BY <1>1, <1>2, <1>3 DEF Split!After
<1>. QED  BY <1>4 DEF t

-----------------------------------------------------------------------------
(* The tokens of a text                                                    *)

LEMMA EndedType ==
    ASSUME NEW r, r.stmts \in Seq(Trims), r.current \in Seq(Chars)
    PROVE  /\ Split!Ended(r) \in Seq(Trims)
           /\ Split!Trim(r.current) \in Trims
<1>1. Split!Trim(r.current) \in Trims
    BY DEF Trims
<1>2. <<Split!Trim(r.current)>> \in Seq(Trims) /\ <<>> \in Seq(Trims)
    BY <1>1
<1>3. (IF Split!Trim(r.current) = <<>> THEN <<>> ELSE <<Split!Trim(r.current)>>) \in Seq(Trims)
    BY <1>2
<1>4. r.stmts \o (IF Split!Trim(r.current) = <<>> THEN <<>> ELSE <<Split!Trim(r.current)>>) \in Seq(Trims)
    BY <1>3, ConcatProperties, Zenon
<1>. QED  BY <1>1, <1>4 DEF Split!Ended

\* A reader that reads a token is one again, and tokens are of characters.
LEMMA AfterType ==
    ASSUME NEW r \in ReadStates, NEW t \in Split!Readable(r)
    PROVE  /\ t \in Seq(Chars) /\ Len(t) \in Nat \ {0}
           /\ Split!After(r, t) \in ReadStates
<1>1. /\ r.depth \in Nat /\ r.in \in Split!Quotes \union {"code"}
      /\ r.stmts \in Seq(Trims) /\ r.current \in Seq(Chars)
      /\ r = [in |-> r.in, depth |-> r.depth, stmts |-> r.stmts, current |-> r.current]
    BY DEF ReadStates
<1>2. <<>> \in Seq(Chars) /\ Split!Ended(r) \in Seq(Trims)
    BY <1>1, EndedType
<1>3. ASSUME NEW c \in Chars, t = <<c>> PROVE t \in Seq(Chars) /\ Len(t) \in Nat \ {0} /\ Split!After(r, t) \in ReadStates
    <2>1. t \in Seq(Chars) /\ Len(t) = 1
        BY <1>3
    <2>2. r.current \o <<c>> \in Seq(Chars)
        BY <1>1, <1>3, <2>1, ConcatProperties
    <2>3. Split!After(r, t) =
               IF r.depth = 0 /\ r.in = "code" /\ c = "semicolon"
               THEN [r EXCEPT !.stmts = Split!Ended(r), !.current = <<>>]
               ELSE [r EXCEPT !.current = @ \o <<c>>,
                              !.in = IF r.depth > 0 \/ c \notin Split!Quotes THEN @
                                     ELSE IF @ = "code" THEN c ELSE IF @ = c THEN "code" ELSE @]
        BY <1>3, AfterOne
    <2>4. Split!After(r, t) \in ReadStates
        BY <1>1, <1>2, <2>2, <2>3 DEF ReadStates
    <2>. QED  BY <2>1, <2>4
<1>4. ASSUME NEW c \in Chars, NEW d \in Chars, t = <<c, d>>, r.depth > 0 \/ ~ (c = "star" /\ d = "slash")
      PROVE  t \in Seq(Chars) /\ Len(t) \in Nat \ {0} /\ Split!After(r, t) \in ReadStates
    <2>1. t \in Seq(Chars) /\ Len(t) = 2
        BY <1>4
    <2>2. r.current \o <<c, d>> \in Seq(Chars)
        BY <1>1, <1>4, <2>1, ConcatProperties
    <2>3. Split!After(r, t) =
               [r EXCEPT !.current = @ \o <<c, d>>,
                         !.depth = IF c = "slash" /\ d = "star" THEN @ + 1
                                   ELSE IF c = "star" /\ d = "slash" THEN @ - 1 ELSE @]
        BY <1>4, AfterTwo
    <2>. DEFINE u == r.current \o <<c, d>>
                e == IF c = "slash" /\ d = "star" THEN r.depth + 1
                     ELSE IF c = "star" /\ d = "slash" THEN r.depth - 1 ELSE r.depth
    <2>4. Split!After(r, t) = [in |-> r.in, depth |-> e, stmts |-> r.stmts, current |-> u]
        BY <1>1, <2>3
    <2>5. e \in Nat /\ u \in Seq(Chars)
        BY <1>1, <1>4, <2>2
    <2>6. Split!After(r, t) \in ReadStates
        <3>. HIDE DEF e, u
        <3>. QED  BY <1>1, <2>4, <2>5 DEF ReadStates
    <2>. QED  BY <2>1, <2>6
<1>5. CASE t = Split!LineComment
    <2>1. <<"space">> \in Seq(Chars)
        BY CharsAre
    <2>2. r.current \o <<"space">> \in Seq(Chars)
        BY <1>1, <2>1, ConcatProperties
    <2>3. Split!After(r, t) = [r EXCEPT !.current = @ \o <<"space">>]
        BY <1>5, AfterLine
    <2>4. Split!After(r, t) \in ReadStates
        BY <1>1, <2>2, <2>3 DEF ReadStates
    <2>. QED  BY <1>5, <2>4, LineChars
<1>. QED  BY <1>1, <1>3, <1>4, <1>5, CharsAre, ReadableIs

\* The tokens of a reading, and what has been read before each.
LEMMA ReadingAt ==
    ASSUME NEW text, NEW read, IsReading(text, read)
    PROVE  /\ text \in Seq(Seq(Chars)) /\ Len(text) \in Nat
           /\ \A n \in 1 .. Len(text) + 1 : read[n] \in ReadStates
           /\ \A n \in 1 .. Len(text) : text[n] \in Seq(Chars) /\ Len(text[n]) \in Nat \ {0}
<1>1. text \in Seq(Seq(Chars)) /\ read \in Seq(ReadStates) /\ Len(read) = Len(text) + 1
    BY DEF IsReading
<1>2. /\ Len(text) \in Nat
      /\ \A n \in 1 .. Len(text) + 1 : read[n] \in ReadStates
    BY <1>1
<1>3. ASSUME NEW n \in 1 .. Len(text) PROVE text[n] \in Seq(Chars) /\ Len(text[n]) \in Nat \ {0}
    <2>1. text[n] \in Split!Readable(read[n]) /\ read[n] \in ReadStates
        BY <1>2 DEF IsReading
    <2>. QED  BY <2>1, AfterType
<1>. QED  BY <1>1, <1>2, <1>3

\* One token more of a text.
LEMMA BeforeNext ==
    ASSUME NEW text \in Seq(Seq(Chars)), NEW k \in 0 .. Len(text) - 1
    PROVE  /\ Before(text, k) \in Seq(Chars) /\ Before(text, k + 1) \in Seq(Chars)
           /\ Before(text, k + 1) = Before(text, k) \o text[k + 1]
           /\ Len(Before(text, k + 1)) = Len(Before(text, k)) + Len(text[k + 1])
           /\ \A j \in 1 .. Len(Before(text, k)) : Before(text, k + 1)[j] = Before(text, k)[j]
           /\ \A m \in 1 .. Len(text[k + 1]) :
                Before(text, k + 1)[Len(Before(text, k)) + m] = text[k + 1][m]
<1>. DEFINE p == SubSeq(text, 1, k)
            q == SubSeq(text, 1, k + 1)
            x == text[k + 1]
<1>1. /\ Len(text) \in Nat /\ k \in Nat /\ k + 1 \in 1 .. Len(text)
      /\ \A n \in 1 .. Len(text) : text[n] \in Seq(Chars)
    OBVIOUS
<1>2. x \in Seq(Chars)
    BY <1>1
<1>3. p \in Seq(Seq(Chars)) /\ q \in Seq(Seq(Chars))
    <2>1. 1 \in Int /\ k \in Int /\ k + 1 \in Int
        BY <1>1
    <2>2. (\A n \in 1 .. k : text[n] \in Seq(Chars)) /\ (\A n \in 1 .. k + 1 : text[n] \in Seq(Chars))
        BY <1>1
    <2>. QED  BY <2>1, <2>2, SubSeqProperties
<1>4. q = p \o <<x>>
    <2>1. 1 \in 1 .. Len(text) /\ k + 1 \in 1 .. Len(text) /\ k + 1 - 1 = k
        BY <1>1
    <2>. QED  BY <2>1, SubSeqRecursiveSecond
<1>5. q = Append(p, x)
    <2>. HIDE DEF p, q, x
    <2>. QED  BY <1>2, <1>3, <1>4, AppendIsConcat
<1>6. /\ Split!FlattenSeq(p) \in Seq(Chars)
      /\ Split!FlattenSeq(q) \in Seq(Chars)
      /\ Split!FlattenSeq(q) = Split!FlattenSeq(p) \o x
    <2>. HIDE DEF p, q, x
    <2>. QED  BY <1>2, <1>3, <1>5, FlattenAppend, SplitFlatten
<1>7. Before(text, k) = Split!FlattenSeq(p) /\ Before(text, k + 1) = Split!FlattenSeq(q)
    BY DEF Before
<1>8. ASSUME NEW a \in Seq(Chars), NEW b \in Seq(Chars)
      PROVE  /\ Len(a \o b) = Len(a) + Len(b)
             /\ \A j \in 1 .. Len(a) : (a \o b)[j] = a[j]
             /\ \A m \in 1 .. Len(b) : (a \o b)[Len(a) + m] = b[m]
    OBVIOUS
<1>9. /\ Before(text, k) \in Seq(Chars) /\ Before(text, k + 1) \in Seq(Chars)
      /\ Before(text, k + 1) = Before(text, k) \o x
    <2>. HIDE DEF p, q, x
    <2>. QED  BY <1>6, <1>7
<1>. DEFINE a == Before(text, k)
            b == Before(text, k + 1)
<1>10. a \in Seq(Chars) /\ b \in Seq(Chars) /\ b = a \o x
    BY <1>9
<1>11. /\ Len(b) = Len(a) + Len(x)
       /\ \A j \in 1 .. Len(a) : b[j] = a[j]
       /\ \A m \in 1 .. Len(x) : b[Len(a) + m] = x[m]
    <2>. HIDE DEF a, b, x
    <2>. QED  BY <1>2, <1>8, <1>10
<1>. QED  BY <1>10, <1>11

\* The text begins with its first tokens.
LEMMA BeforePrefix ==
    ASSUME NEW text \in Seq(Seq(Chars)), NEW k \in 0 .. Len(text), NEW n \in k .. Len(text)
    PROVE  /\ Len(Before(text, k)) <= Len(Before(text, n))
           /\ \A j \in 1 .. Len(Before(text, k)) : Before(text, n)[j] = Before(text, k)[j]
<1>. DEFINE P(m) == /\ Len(Before(text, k)) <= Len(Before(text, m))
                    /\ \A j \in 1 .. Len(Before(text, k)) : Before(text, m)[j] = Before(text, k)[j]
            S == {m \in Nat : k + m <= Len(text) => P(k + m)}
<1>1. Len(text) \in Nat /\ k \in Nat
    OBVIOUS
<1>2. \A m \in 0 .. Len(text) : Len(Before(text, m)) \in Nat
    <2>1. CASE Len(text) = 0
        <3>1. SubSeq(text, 1, 0) = <<>>
            BY SubSeqEmpty
        <3>2. Before(text, 0) = <<>>
            BY <3>1, FlattenEmpty, SplitFlatten DEF Before
        <3>3. \A m \in 0 .. Len(text) : m = 0
            BY <2>1
        <3>4. Len(Before(text, 0)) = 0
            BY <3>2
        <3>. QED  BY <3>3, <3>4
    <2>2. CASE Len(text) # 0
        <3>1. ASSUME NEW m \in 0 .. Len(text) PROVE Len(Before(text, m)) \in Nat
            <4>1. m \in 0 .. Len(text) - 1 \/ (m - 1 \in 0 .. Len(text) - 1 /\ m - 1 + 1 = m)
                BY <1>1, <2>2
            <4>2. Before(text, m) \in Seq(Chars)
                <5>1. CASE m \in 0 .. Len(text) - 1
                    BY <5>1, BeforeNext
                <5>2. CASE m - 1 \in 0 .. Len(text) - 1 /\ m - 1 + 1 = m
                    <6>1. Before(text, m - 1 + 1) \in Seq(Chars)
                        BY <5>2, BeforeNext
                    <6>. QED  BY <5>2, <6>1
                <5>. QED  BY <4>1, <5>1, <5>2
            <4>. QED  BY <4>2
        <3>. QED  BY <3>1
    <2>. QED  BY <2>1, <2>2
<1>3. 0 \in S
    <2>1. k + 0 = k /\ Len(Before(text, k)) \in Nat
        BY <1>1, <1>2
    <2>2. P(k)
        BY <2>1
    <2>. HIDE DEF P
    <2>. QED  BY <2>1, <2>2
<1>4. ASSUME NEW m \in Nat, m \in S PROVE m + 1 \in S
    <2>. SUFFICES ASSUME k + (m + 1) <= Len(text) PROVE P(k + (m + 1))
        OBVIOUS
    <2>1. PICK x \in Nat : x = k + m
        BY <1>1
    <2>2. x \in 0 .. Len(text) - 1 /\ k + (m + 1) = x + 1
        BY <1>1, <2>1
    <2>3. P(x)
        BY <1>1, <1>4, <2>1
    <2>4. /\ Len(Before(text, x + 1)) = Len(Before(text, x)) + Len(text[x + 1])
          /\ \A j \in 1 .. Len(Before(text, x)) : Before(text, x + 1)[j] = Before(text, x)[j]
        BY <2>2, BeforeNext
    <2>5. /\ Len(Before(text, k)) \in Nat /\ Len(Before(text, x)) \in Nat /\ Len(text[x + 1]) \in Nat
        <3>1. text[x + 1] \in Seq(Chars)
            BY <1>1, <2>2
        <3>. QED  BY <1>2, <2>2, <3>1
    <2>6. P(x + 1)
        BY <2>3, <2>4, <2>5
    <2>. HIDE DEF P
    <2>. QED  BY <2>2, <2>6
<1>5. PICK m \in Nat : n = k + m
    BY <1>1
<1>6. m \in S
    <2>. HIDE DEF S
    <2>. QED  BY <1>3, <1>4, SetInduction
<1>. QED  BY <1>5, <1>6

\* Where the characters of a token are in the text.
LEMMA CharAt ==
    ASSUME NEW text \in Seq(Seq(Chars)), NEW k \in 0 .. Len(text) - 1, NEW m \in 1 .. Len(text[k + 1])
    PROVE  /\ Before(text, Len(text))[Len(Before(text, k)) + m] = text[k + 1][m]
           /\ Len(Before(text, k)) + Len(text[k + 1]) <= Len(Before(text, Len(text)))
<1>1. Len(text) \in Nat /\ k + 1 \in 0 .. Len(text) /\ Len(text) \in k + 1 .. Len(text) /\ k + 1 \in 1 .. Len(text)
    OBVIOUS
<1>2. text[k + 1] \in Seq(Chars)
    BY <1>1
<1>3. /\ Before(text, k) \in Seq(Chars)
      /\ Len(Before(text, k + 1)) = Len(Before(text, k)) + Len(text[k + 1])
      /\ Before(text, k + 1)[Len(Before(text, k)) + m] = text[k + 1][m]
    BY BeforeNext
<1>4. /\ Len(Before(text, k + 1)) <= Len(Before(text, Len(text)))
      /\ \A j \in 1 .. Len(Before(text, k + 1)) : Before(text, Len(text))[j] = Before(text, k + 1)[j]
    BY <1>1, BeforePrefix
<1>5. Len(Before(text, k)) \in Nat /\ Len(text[k + 1]) \in Nat
    BY <1>2, <1>3
<1>6. Len(Before(text, k)) + m \in 1 .. Len(Before(text, k + 1))
    BY <1>3, <1>5
<1>. QED  BY <1>3, <1>4, <1>6

-----------------------------------------------------------------------------
(* The texts that there are                                                *)

\* A text of n tokens follows one of n - 1.
Continued(F, n) ==
    IF n = 0 THEN {[text |-> <<>>, read |-> <<Split!Start>>]}
    ELSE UNION {{[text |-> Append(p.text, t), read |-> Append(p.read, Split!After(p.read[n], t))] :
                 t \in Split!Readable(p.read[n])} : p \in F[n - 1]}

AreReadings(f) == f = [n \in 0 .. MaxTokens |-> Continued(f, n)]

LEMMA ReadingsIf ==
    ASSUME NEW F, \A n \in 0 .. MaxTokens : F[n] = Continued(F, n)
    PROVE  \E f : AreReadings(f)
<1>. DEFINE f == [n \in 0 .. MaxTokens |-> F[n]]
<1>1. ASSUME NEW n \in 0 .. MaxTokens PROVE f[n] = Continued(f, n)
    <2>1. n = 0 \/ n - 1 \in 0 .. MaxTokens
        BY TokensAssumption
    <2>2. f[n] = F[n] /\ (n = 0 \/ f[n - 1] = F[n - 1])
        BY <2>1
    <2>. HIDE DEF f
    <2>3. Continued(f, n) = Continued(F, n)
        BY <2>2 DEF Continued
    <2>. QED  BY <2>2, <2>3
<1>2. f = [n \in 0 .. MaxTokens |-> Continued(f, n)]
    BY <1>1
<1>3. AreReadings(f)
    <2>. HIDE DEF f
    <2>. QED  BY <1>2 DEF AreReadings
<1>. QED  BY <1>3

LEMMA ReadingsExist == \E f : AreReadings(f)
<1>. DEFINE Upto(F, n) == \A i \in 0 .. MaxTokens : i < n => F[i] = Continued(F, i)
            S == {n \in Nat : \E F : Upto(F, n)}
<1>1. 0 \in S
    OBVIOUS
<1>2. ASSUME NEW n \in Nat, n \in S PROVE n + 1 \in S
    <2>1. PICK F : Upto(F, n)
        BY <1>2
    <2>. DEFINE G == [i \in 0 .. MaxTokens |-> IF i = n THEN Continued(F, i) ELSE F[i]]
    <2>2. ASSUME NEW i \in 0 .. MaxTokens, i < n + 1 PROVE G[i] = Continued(G, i)
        <3>1. i = 0 \/ (i - 1 \in 0 .. MaxTokens /\ i - 1 # n)
            BY <2>2, TokensAssumption
        <3>2. i = 0 \/ G[i - 1] = F[i - 1]
            BY <3>1
        <3>3. G[i] = IF i = n THEN Continued(F, i) ELSE F[i]
            OBVIOUS
        <3>. HIDE DEF G
        <3>4. Continued(G, i) = Continued(F, i)
            BY <3>2 DEF Continued
        <3>5. i = n \/ F[i] = Continued(F, i)
            BY <2>1, <2>2
        <3>. QED  BY <3>3, <3>4, <3>5
    <2>3. Upto(G, n + 1)
        <3>. HIDE DEF G
        <3>. QED  BY <2>2
    <2>. HIDE DEF G, Upto
    <2>. QED  BY <2>3
<1>3. MaxTokens + 1 \in S
    <2>. HIDE DEF S
    <2>. QED  BY <1>1, <1>2, SetInduction, TokensAssumption
<1>4. PICK F : Upto(F, MaxTokens + 1)
    BY <1>3
<1>5. \A i \in 0 .. MaxTokens : i < MaxTokens + 1
    BY TokensAssumption
<1>. QED  BY <1>4, <1>5, ReadingsIf

LEMMA ReadingsAt ==
    ASSUME NEW n \in 0 .. MaxTokens PROVE Split!Readings[n] = Continued(Split!Readings, n)
<1>1. Split!Readings = CHOOSE f : AreReadings(f)
    BY DEF Split!Readings, AreReadings, Continued
<1>2. AreReadings(Split!Readings)
    BY <1>1, ReadingsExist
<1>. DEFINE R == Split!Readings
            h(k) == Continued(R, k)
<1>3. R = [k \in 0 .. MaxTokens |-> h(k)]
    <2>1. R = [k \in 0 .. MaxTokens |-> Continued(R, k)]
        <3>. HIDE DEF R
        <3>. QED  BY <1>2 DEF AreReadings, R
    <2>. QED  BY <2>1
<1>4. R[n] = h(n)
    <2>. HIDE DEF h, R
    <2>. QED  BY <1>3
<1>. QED  BY <1>4

LEMMA IsReadingGrows ==
    ASSUME NEW text, NEW read, IsReading(text, read), NEW n \in Nat, n = Len(text) + 1,
           NEW t \in Split!Readable(read[n])
    PROVE  IsReading(Append(text, t), Append(read, Split!After(read[n], t)))
<1>. DEFINE a == Split!After(read[n], t)
            tt == Append(text, t)
            rr == Append(read, a)
<1>1. /\ text \in Seq(Seq(Chars)) /\ read \in Seq(ReadStates) /\ Len(read) = Len(text) + 1 /\ Len(text) \in Nat
      /\ read[1] = Split!Start
      /\ \A i \in 1 .. Len(text) : text[i] \in Split!Readable(read[i]) /\ read[i + 1] = Split!After(read[i], text[i])
    BY DEF IsReading
<1>2. read[n] \in ReadStates
    BY <1>1
<1>3. t \in Seq(Chars) /\ a \in ReadStates
    BY <1>2, AfterType
<1>4. /\ tt \in Seq(Seq(Chars)) /\ Len(tt) = Len(text) + 1 /\ tt[n] = t
      /\ \A i \in 1 .. Len(text) : tt[i] = text[i]
    <2>. HIDE DEF a
    <2>. QED  BY <1>1, <1>3
<1>5. /\ rr \in Seq(ReadStates) /\ Len(rr) = Len(text) + 2 /\ rr[n + 1] = a
      /\ \A i \in 1 .. n : rr[i] = read[i]
    <2>. HIDE DEF a
    <2>. QED  BY <1>1, <1>3
<1>6. ASSUME NEW i \in 1 .. n PROVE tt[i] \in Split!Readable(rr[i]) /\ rr[i + 1] = Split!After(rr[i], tt[i])
    <2>1. CASE i = n
        <3>. HIDE DEF tt, rr
        <3>. QED  BY <1>4, <1>5, <2>1
    <2>2. CASE i # n
        <3>1. i \in 1 .. Len(text) /\ i \in 1 .. n /\ i + 1 \in 1 .. n
            BY <1>1, <2>2
        <3>2. tt[i] = text[i] /\ rr[i] = read[i] /\ rr[i + 1] = read[i + 1]
            <4>. HIDE DEF tt, rr
            <4>. QED  BY <1>4, <1>5, <3>1
        <3>. HIDE DEF tt, rr
        <3>. QED  BY <1>1, <3>1, <3>2
    <2>. QED  BY <2>1, <2>2
<1>7. rr[1] = Split!Start
    <2>. HIDE DEF rr
    <2>. QED  BY <1>1, <1>5
<1>8. IsReading(tt, rr)
    <2>. HIDE DEF tt, rr
    <2>. QED  BY <1>1, <1>4, <1>5, <1>6, <1>7 DEF IsReading
<1>. QED  BY <1>8

LEMMA ReadingsAre ==
    ASSUME NEW n \in 0 .. MaxTokens, NEW p \in Split!Readings[n]
    PROVE  IsReading(p.text, p.read) /\ Len(p.text) = n
<1>. DEFINE Fine(p0, k) == IsReading(p0.text, p0.read) /\ Len(p0.text) = k
            S == {k \in Nat : k \in 0 .. MaxTokens => \A p0 \in Split!Readings[k] : Fine(p0, k)}
<1>1. 0 \in S
    <2>. SUFFICES ASSUME NEW p0 \in Split!Readings[0], 0 \in 0 .. MaxTokens PROVE Fine(p0, 0)
        OBVIOUS
    <2>1. p0 = [text |-> <<>>, read |-> <<Split!Start>>]
        BY ReadingsAt DEF Continued
    <2>2. Split!Start \in ReadStates
        BY DEF Split!Start, ReadStates
    <2>3. /\ <<>> \in Seq(Seq(Chars)) /\ Len(<<>>) = 0
          /\ <<Split!Start>> \in Seq(ReadStates) /\ Len(<<Split!Start>>) = 1
          /\ <<Split!Start>>[1] = Split!Start
        BY <2>2
    <2>4. p0.text = <<>> /\ p0.read = <<Split!Start>>
        BY <2>1
    <2>. QED  BY <2>3, <2>4 DEF IsReading
<1>2. ASSUME NEW k \in Nat, k \in S PROVE k + 1 \in S
    <2>. SUFFICES ASSUME NEW p0 \in Split!Readings[k + 1], k + 1 \in 0 .. MaxTokens PROVE Fine(p0, k + 1)
        OBVIOUS
    <2>1. k \in 0 .. MaxTokens /\ k + 1 # 0 /\ k + 1 - 1 = k
        BY TokensAssumption
    <2>. PICK x \in 0 .. MaxTokens : x = k + 1
        OBVIOUS
    <2>2. p0 \in UNION {{[text |-> Append(q.text, t), read |-> Append(q.read, Split!After(q.read[x], t))] :
                         t \in Split!Readable(q.read[x])} : q \in Split!Readings[k]}
        <3>1. Split!Readings[x] = Continued(Split!Readings, x)
            BY ReadingsAt
        <3>2. Continued(Split!Readings, x) =
                 UNION {{[text |-> Append(q.text, t), read |-> Append(q.read, Split!After(q.read[x], t))] :
                         t \in Split!Readable(q.read[x])} : q \in Split!Readings[x - 1]}
            BY <2>1 DEF Continued
        <3>3. x - 1 = k /\ p0 \in Split!Readings[x]
            OBVIOUS
        <3>. QED  BY <3>1, <3>2, <3>3, Zenon
    <2>. PICK q \in Split!Readings[k] :
             p0 \in {[text |-> Append(q.text, t), read |-> Append(q.read, Split!After(q.read[x], t))] :
                     t \in Split!Readable(q.read[x])}
        BY <2>2
    <2>3. PICK t \in Split!Readable(q.read[x]) :
             p0 = [text |-> Append(q.text, t), read |-> Append(q.read, Split!After(q.read[x], t))]
        OBVIOUS
    <2>4. Fine(q, k)
        BY <1>2, <2>1
    <2>5. p0.text = Append(q.text, t) /\ p0.read = Append(q.read, Split!After(q.read[x], t))
        BY <2>3
    <2>6. q.text \in Seq(Seq(Chars)) /\ t \in Seq(Chars)
        <3>1. q.read[x] \in ReadStates
            <4>1. \A m \in 1 .. Len(q.text) + 1 : q.read[m] \in ReadStates
                BY <2>4, ReadingAt
            <4>2. x \in 1 .. Len(q.text) + 1
                BY <2>4
            <4>. QED  BY <4>1, <4>2
        <3>. QED  BY <2>4, <3>1, AfterType, ReadingAt
    <2>7. Len(p0.text) = k + 1
        BY <2>4, <2>5, <2>6
    <2>8. IsReading(p0.text, p0.read)
        BY <2>4, <2>5, IsReadingGrows
    <2>. QED  BY <2>7, <2>8
<1>3. n \in S
    <2>. HIDE DEF S
    <2>. QED  BY <1>1, <1>2, SetInduction
<1>. QED  BY <1>3

-----------------------------------------------------------------------------
(* An iteration of splitQueries                                            *)

\* The loop is at a character of the text.
LoopAt == DOMAIN calc = SplitFields /\ calc.sql \in Seq(Chars) /\ calc.i \in 1 .. Len(calc.sql) /\ calc.depth \in Nat

SameTexts == DOMAIN calc' = SplitFields /\ calc'.text = calc.text /\ calc'.read = calc.read /\ calc'.sql = calc.sql

\* The step takes what is next, as x, and is then in a literal and a comment.
Takes(x, in, depth) ==
    /\ SameTexts /\ calc'.stmts = calc.stmts
    /\ calc'.i = calc.i + Len(x) /\ calc'.current = calc.current \o x
    /\ calc'.in = in /\ calc'.depth = depth

LEMMA FollowingIs ==
    ASSUME LoopAt, Split!Following # "end"
    PROVE  calc.i + 1 \in 1 .. Len(calc.sql) /\ Split!Following = calc.sql[calc.i + 1]
BY DEF LoopAt, Split!Following

LEMMA TakeOne ==
    ASSUME LoopAt
    PROVE  Split!Take(1) = [calc EXCEPT !.current = @ \o <<Split!Ch>>, !.i = @ + 1]
<1>1. PICK i \in Nat : i = calc.i /\ i \in 1 .. Len(calc.sql)
    BY DEF LoopAt
<1>2. ASSUME NEW s \in Seq(Chars), i \in 1 .. Len(s) PROVE SubSeq(s, i, i) = <<s[i]>>
    <2>1. i \in i .. Len(s)
        BY <1>2
    <2>2. SubSeq(s, i, i) = <<s[i]>> \o SubSeq(s, i + 1, i)
        BY <1>2, <2>1, SubSeqRecursiveFirst
    <2>3. SubSeq(s, i + 1, i) = <<>>
        BY SubSeqEmpty
    <2>4. <<s[i]>> \in Seq(Chars)
        BY <1>2
    <2>. QED  BY <2>2, <2>3, <2>4, ConcatEmptySeq
<1>3. calc.i + 1 - 1 = i
    BY <1>1
<1>4. SubSeq(calc.sql, calc.i, calc.i + 1 - 1) = <<calc.sql[calc.i]>>
    BY <1>1, <1>2, <1>3 DEF LoopAt
<1>. QED  BY <1>4 DEF Split!Take, Split!Ch

LEMMA TakeTwo ==
    ASSUME LoopAt, Split!Following # "end"
    PROVE  Split!Take(2) = [calc EXCEPT !.current = @ \o <<Split!Ch, Split!Following>>, !.i = @ + 2]
<1>1. PICK i \in Nat : i = calc.i /\ i \in 1 .. Len(calc.sql) /\ i + 1 \in 1 .. Len(calc.sql)
    BY FollowingIs DEF LoopAt
<1>2. ASSUME NEW s \in Seq(Chars), i \in 1 .. Len(s), i + 1 \in 1 .. Len(s) PROVE SubSeq(s, i, i + 1) = <<s[i], s[i + 1]>>
    <2>1. i + 1 \in i .. Len(s) /\ i + 1 \in i + 1 .. Len(s) /\ 1 + i = i + 1
        BY <1>2
    <2>2. SubSeq(s, i, i + 1) = <<s[i]>> \o SubSeq(s, i + 1, i + 1)
        BY <1>2, <2>1, SubSeqRecursiveFirst
    <2>3. SubSeq(s, i + 1, i + 1) = <<s[i + 1]>> \o SubSeq(s, i + 2, i + 1)
        <3>1. PICK j \in Nat : j = i + 1 /\ j + 1 = i + 2
            OBVIOUS
        <3>2. SubSeq(s, j, j) = <<s[j]>> \o SubSeq(s, j + 1, j)
            BY <1>2, <2>1, <3>1, SubSeqRecursiveFirst
        <3>. QED  BY <3>1, <3>2
    <2>4. SubSeq(s, i + 2, i + 1) = <<>>
        BY SubSeqEmpty
    <2>5. <<s[i]>> \in Seq(Chars) /\ <<s[i + 1]>> \in Seq(Chars)
        BY <1>2
    <2>6. SubSeq(s, i + 1, i + 1) = <<s[i + 1]>>
        BY <2>3, <2>4, <2>5, ConcatEmptySeq
    <2>7. s[i] \in Chars /\ s[i + 1] \in Chars
        BY <1>2
    <2>8. <<s[i]>> \o <<s[i + 1]>> = <<s[i], s[i + 1]>>
        BY <2>7, TwoRows
    <2>. QED  BY <2>2, <2>6, <2>8
<1>3. calc.i + 2 - 1 = i + 1
    BY <1>1
<1>4. SubSeq(calc.sql, calc.i, calc.i + 2 - 1) = <<calc.sql[calc.i], calc.sql[calc.i + 1]>>
    BY <1>1, <1>2, <1>3 DEF LoopAt
<1>. QED  BY <1>4, FollowingIs DEF Split!Take, Split!Ch

LEMMA LoopStep ==
    ASSUME LoopAt, Split!Next
    PROVE  \/ Split!InComment \/ Split!Escape \/ Split!Quote \/ Split!OpenComment
           \/ Split!SkipLine \/ Split!Cut \/ Split!Other
<1>1. calc.i # Len(calc.sql) + 1
    BY DEF LoopAt
<1>. QED  BY <1>1 DEF Split!Next, Split!Finish

\* What a step does, by what is next.
LEMMA StepInComment ==
    ASSUME LoopAt, Split!Next, calc.depth > 0
    PROVE  IF Split!Marker
           THEN Takes(<<Split!Ch, Split!Following>>, calc.in, IF Split!Ch = "slash" THEN calc.depth + 1 ELSE calc.depth - 1)
           ELSE Takes(<<Split!Ch>>, calc.in, calc.depth)
<1>1. Split!InComment
    <2>1. calc.depth # 0
        BY DEF LoopAt
    <2>. QED  BY <2>1, LoopStep DEF Split!Escape, Split!Quote, Split!OpenComment, Split!SkipLine, Split!Cut,
                  Split!Other
<1>2. CASE Split!Marker
    <2>1. Split!Following # "end"
        BY <1>2 DEF Split!Marker
    <2>2. calc' = [calc EXCEPT !.current = @ \o <<Split!Ch, Split!Following>>, !.i = @ + 2,
                               !.depth = IF Split!Ch = "slash" THEN @ + 1 ELSE @ - 1]
        BY <1>1, <1>2, <2>1, TakeTwo DEF Split!InComment, Split!NestedComment, LoopAt, SplitFields
    <2>3. Len(<<Split!Ch, Split!Following>>) = 2
        OBVIOUS
    <2>. QED  BY <1>2, <2>2, <2>3 DEF Takes, SameTexts, LoopAt, SplitFields
<1>3. CASE ~ Split!Marker
    <2>1. calc' = [calc EXCEPT !.current = @ \o <<Split!Ch>>, !.i = @ + 1]
        BY <1>1, <1>3, TakeOne DEF Split!InComment
    <2>2. Len(<<Split!Ch>>) = 1
        OBVIOUS
    <2>. QED  BY <1>3, <2>1, <2>2 DEF Takes, SameTexts, LoopAt, SplitFields
<1>. QED  BY <1>2, <1>3

LEMMA StepEscape ==
    ASSUME LoopAt, Split!Next, calc.depth = 0, calc.in \in {"single", "double"},
           Split!Ch = "backslash", Split!Following # "end"
    PROVE  Takes(<<Split!Ch, Split!Following>>, calc.in, calc.depth)
<1>1. Split!Ch \notin Split!Quotes
    BY CharsAre
<1>2. Split!Escape
    BY <1>1, LoopStep DEF Split!InComment, Split!Quote, Split!OpenComment, Split!SkipLine, Split!Cut,
           Split!Other
<1>3. calc' = [calc EXCEPT !.current = @ \o <<Split!Ch, Split!Following>>, !.i = @ + 2]
    BY <1>2, TakeTwo DEF Split!Escape
<1>4. Len(<<Split!Ch, Split!Following>>) = 2
    OBVIOUS
<1>. QED  BY <1>3, <1>4 DEF Takes, SameTexts, LoopAt, SplitFields

LEMMA StepQuote ==
    ASSUME LoopAt, Split!Next, calc.depth = 0, Split!Ch \in Split!Quotes, calc.in \in {"code", Split!Ch},
           calc.in = "code" => Split!Ch = "backtick" \/ Split!Following # Split!Ch
    PROVE  Takes(<<Split!Ch>>, IF calc.in = Split!Ch THEN "code" ELSE Split!Ch, calc.depth)
<1>1. Split!Ch \notin {"backslash", "slash", "dash", "semicolon", "code"}
    BY CharsAre
<1>2. Split!Quote
    <2>1. ~ Split!InComment /\ ~ Split!Escape /\ ~ Split!OpenComment /\ ~ Split!Cut
        BY <1>1 DEF Split!InComment, Split!Escape, Split!OpenComment, Split!Cut
    <2>2. ~ Split!SkipLine
        BY <1>1 DEF Split!SkipLine
    <2>3. ~ Split!Other
        BY DEF Split!Other
    <2>. QED  BY <2>1, <2>2, <2>3, LoopStep
<1>3. calc' = IF calc.in = Split!Ch THEN [Split!Take(1) EXCEPT !.in = "code"] ELSE [Split!Take(1) EXCEPT !.in = Split!Ch]
    BY <1>1, <1>2 DEF Split!Quote
<1>4. DOMAIN calc = SplitFields
    BY DEF LoopAt
<1>5. calc' = [calc EXCEPT !.current = @ \o <<Split!Ch>>, !.i = @ + 1,
                           !.in = IF calc.in = Split!Ch THEN "code" ELSE Split!Ch]
    BY <1>3, <1>4, TakeOne DEF SplitFields
<1>6. Len(<<Split!Ch>>) = 1
    OBVIOUS
<1>. QED  BY <1>5, <1>6 DEF Takes, SameTexts, LoopAt, SplitFields

LEMMA StepOpen ==
    ASSUME LoopAt, Split!Next, calc.depth = 0, calc.in = "code", Split!Ch = "slash", Split!Following = "star"
    PROVE  Takes(<<Split!Ch, Split!Following>>, calc.in, calc.depth + 1)
<1>1. Split!Ch \notin Split!Quotes
    BY CharsAre
<1>2. Split!OpenComment
    BY <1>1, LoopStep DEF Split!InComment, Split!Escape, Split!Quote, Split!SkipLine, Split!Cut,
           Split!Other
<1>3. calc' = [calc EXCEPT !.current = @ \o <<Split!Ch, Split!Following>>, !.i = @ + 2, !.depth = @ + 1]
    BY <1>2, TakeTwo DEF Split!OpenComment, Split!NestedComment, LoopAt, SplitFields
<1>4. Len(<<Split!Ch, Split!Following>>) = 2
    OBVIOUS
<1>. QED  BY <1>3, <1>4 DEF Takes, SameTexts, LoopAt, SplitFields

LEMMA StepOther ==
    ASSUME LoopAt, Split!Next, calc.depth = 0, Split!Ch # "backslash" \/ calc.in = "backtick",
           ~ (Split!Ch \in Split!Quotes /\ calc.in \in {"code", Split!Ch}),
           calc.in = "code" => Split!Ch \notin {"slash", "dash", "semicolon"}
    PROVE  Takes(<<Split!Ch>>, calc.in, calc.depth)
<1>1. Split!Other
    <2>1. ~ Split!InComment /\ ~ Split!Escape /\ ~ Split!OpenComment /\ ~ Split!Cut
        BY DEF Split!InComment, Split!Escape, Split!OpenComment, Split!Cut
    <2>2. ~ Split!SkipLine
        BY DEF Split!SkipLine
    <2>3. ~ Split!Quote
        BY DEF Split!Quote
    <2>. QED  BY <2>1, <2>2, <2>3, LoopStep
<1>2. calc' = [calc EXCEPT !.current = @ \o <<Split!Ch>>, !.i = @ + 1]
    BY <1>1, TakeOne DEF Split!Other
<1>3. Len(<<Split!Ch>>) = 1
    OBVIOUS
<1>. QED  BY <1>2, <1>3 DEF Takes, SameTexts, LoopAt, SplitFields

\* A line comment ends with the first newline.
LEMMA StepSkip ==
    ASSUME LoopAt, Split!Next, calc.depth = 0, calc.in = "code", Split!Ch = "dash", Split!Following = "dash",
           calc.current \in Seq(Chars), calc.i + 4 <= Len(calc.sql), calc.sql[calc.i + 4] = "newline",
           \A m \in 0 .. 3 : calc.sql[calc.i + m] # "newline"
    PROVE  /\ SameTexts /\ calc'.stmts = calc.stmts /\ calc'.i = calc.i + 5
           /\ calc'.current = calc.current \o <<"space">>
           /\ calc'.in = calc.in /\ calc'.depth = calc.depth
<1>1. Split!Ch \notin Split!Quotes
    BY CharsAre
<1>2. Split!SkipLine
    BY <1>1, LoopStep DEF Split!InComment, Split!Escape, Split!Quote, Split!OpenComment, Split!Cut,
           Split!Other
<1>3. PICK i \in Nat : i = calc.i
    BY DEF LoopAt
<1>4. PICK n \in Nat : n = Len(calc.sql)
    BY DEF LoopAt
<1>5. PICK end \in i .. n + 1 :
         /\ \A j \in i .. end - 1 : calc.sql[j] # "newline"
         /\ end <= n => calc.sql[end] = "newline"
         /\ calc' = [calc EXCEPT !.current = Append(@, "space"), !.i = end + 1]
    BY <1>2, <1>3, <1>4 DEF Split!SkipLine
<1>6. end = i + 4
    <2>1. i + 4 <= n /\ calc.sql[i + 4] = "newline" /\ \A m \in 0 .. 3 : calc.sql[i + m] # "newline"
        BY <1>3, <1>4
    <2>2. ~ (end > i + 4)
        <3>1. SUFFICES ASSUME end > i + 4 PROVE FALSE
            OBVIOUS
        <3>2. i + 4 \in i .. end - 1
            BY <3>1
        <3>. QED  BY <1>5, <2>1, <3>2
    <2>3. ~ (end < i + 4)
        <3>1. SUFFICES ASSUME end < i + 4 PROVE FALSE
            OBVIOUS
        <3>2. PICK m \in 0 .. 3 : end = i + m
            <4>1. end - i \in 0 .. 3 /\ end = i + (end - i)
                BY <3>1
            <4>. QED  BY <4>1
        <3>3. calc.sql[end] = "newline" /\ calc.sql[end] # "newline"
            BY <1>5, <2>1, <3>1, <3>2
        <3>. QED  BY <3>3
    <2>. QED  BY <2>2, <2>3
<1>7. Append(calc.current, "space") = calc.current \o <<"space">>
    BY CharsAre, AppendIsConcat
<1>8. calc' = [calc EXCEPT !.current = Append(@, "space"), !.i = i + 5]
    <2>1. end + 1 = i + 5
        BY <1>6
    <2>. QED  BY <1>5, <2>1, Zenon
<1>9. DOMAIN calc = SplitFields
    BY DEF LoopAt
<1>. DEFINE c == Append(calc.current, "space")
<1>10. /\ SameTexts /\ calc'.stmts = calc.stmts /\ calc'.i = i + 5
       /\ calc'.current = c
       /\ calc'.in = calc.in /\ calc'.depth = calc.depth
    <2>1. calc' = [calc EXCEPT !.current = c, !.i = i + 5]
        BY <1>8, <1>9 DEF SplitFields
    <2>. HIDE DEF c
    <2>. QED  BY <1>9, <2>1 DEF SameTexts, SplitFields
<1>. QED  BY <1>3, <1>7, <1>10

LEMMA PushedIs ==
    ASSUME calc.stmts \in Seq(Trims), calc.current \in Seq(Chars)
    PROVE  Split!Pushed(calc) = Split!Ended(calc)
<1>1. Split!Trim(calc.current) \in Trims
    BY EndedType
<1>2. calc.stmts \o <<>> = calc.stmts
    BY ConcatEmptySeq
<1>3. Append(calc.stmts, Split!Trim(calc.current)) = calc.stmts \o <<Split!Trim(calc.current)>>
    BY <1>1, AppendIsConcat
<1>. QED  BY <1>2, <1>3, Zenon DEF Split!Pushed, Split!Ended

LEMMA StepCut ==
    ASSUME LoopAt, Split!Next, calc.depth = 0, calc.in = "code", Split!Ch = "semicolon"
    PROVE  /\ SameTexts /\ calc'.stmts = Split!Pushed(calc) /\ calc'.i = calc.i + 1 /\ calc'.current = <<>>
           /\ calc'.in = calc.in /\ calc'.depth = calc.depth
<1>1. Split!Ch \notin Split!Quotes
    BY CharsAre
<1>2. Split!Cut
    BY <1>1, LoopStep DEF Split!InComment, Split!Escape, Split!Quote, Split!OpenComment, Split!SkipLine,
           Split!Other
<1>. QED  BY <1>2 DEF Split!Cut, SameTexts, LoopAt, SplitFields

LEMMA StepFinish ==
    ASSUME Split!Next, DOMAIN calc = SplitFields, Len(calc.sql) \in Nat, calc.i = Len(calc.sql) + 1
    PROVE  SameTexts /\ calc'.stmts = Split!Pushed(calc) /\ calc'.i = calc.i + 1
<1>1. Split!Finish
    BY DEF Split!Next, Split!Reading
<1>. QED  BY <1>1 DEF Split!Finish, SameTexts, SplitFields

-----------------------------------------------------------------------------
(* A token at a time                                                       *)

\* What has been read after a token that does not end the statement.
LEMMA AfterOneIs ==
    ASSUME NEW r \in ReadStates, NEW c \in Chars,
           ~ (r.depth = 0 /\ r.in = "code" /\ c = "semicolon"), NEW a, a = Split!After(r, <<c>>)
    PROVE  /\ a.depth = r.depth /\ a.stmts = r.stmts /\ a.current = r.current \o <<c>>
           /\ a.in = IF r.depth > 0 \/ c \notin Split!Quotes THEN r.in
                     ELSE IF r.in = "code" THEN c ELSE IF r.in = c THEN "code" ELSE r.in
<1>1. a = IF r.depth = 0 /\ r.in = "code" /\ c = "semicolon"
          THEN [r EXCEPT !.stmts = Split!Ended(r), !.current = <<>>]
          ELSE [r EXCEPT !.current = @ \o <<c>>,
                         !.in = IF r.depth > 0 \/ c \notin Split!Quotes THEN @
                                ELSE IF @ = "code" THEN c ELSE IF @ = c THEN "code" ELSE @]
    BY AfterOne
<1>2. a = [r EXCEPT !.current = @ \o <<c>>,
                    !.in = IF r.depth > 0 \/ c \notin Split!Quotes THEN @
                           ELSE IF @ = "code" THEN c ELSE IF @ = c THEN "code" ELSE @]
    BY <1>1
<1>3. DOMAIN r = {"in", "depth", "stmts", "current"}
    BY DEF ReadStates
<1>. QED  BY <1>2, <1>3

LEMMA AfterTwoIs ==
    ASSUME NEW r \in ReadStates, NEW c \in Chars, NEW d \in Chars,
           NEW a, a = Split!After(r, <<c, d>>)
    PROVE  /\ a.in = r.in /\ a.stmts = r.stmts /\ a.current = r.current \o <<c, d>>
           /\ a.depth = IF c = "slash" /\ d = "star" THEN r.depth + 1
                        ELSE IF c = "star" /\ d = "slash" THEN r.depth - 1 ELSE r.depth
<1>1. a = [r EXCEPT !.current = @ \o <<c, d>>,
                    !.depth = IF c = "slash" /\ d = "star" THEN @ + 1
                              ELSE IF c = "star" /\ d = "slash" THEN @ - 1 ELSE @]
    BY AfterTwo
<1>2. DOMAIN r = {"in", "depth", "stmts", "current"}
    BY DEF ReadStates
<1>. QED  BY <1>1, <1>2

LEMMA TokenAt ==
    ASSUME IsReading(calc.text, calc.read), NEW k \in 0 .. Len(calc.text) - 1,
           NEW r, r = calc.read[k + 1], NEW t, t = calc.text[k + 1]
    PROVE  /\ r \in ReadStates /\ t \in Split!Readable(r) /\ t \in Seq(Chars) /\ Len(t) \in Nat \ {0}
           /\ Split!After(r, t) = calc.read[k + 2] /\ calc.read[k + 2] \in ReadStates
           /\ 1 \in 1 .. Len(t)
<1>1. PICK n \in 1 .. Len(calc.text) : n = k + 1 /\ n + 1 = k + 2
    BY ReadingAt
<1>2. /\ calc.text[n] \in Split!Readable(calc.read[n])
      /\ calc.read[n + 1] = Split!After(calc.read[n], calc.text[n])
    BY DEF IsReading
<1>3. calc.read[n] \in ReadStates
    BY ReadingAt
<1>4. /\ r \in ReadStates /\ t \in Split!Readable(r) /\ Split!After(r, t) = calc.read[k + 2]
    BY <1>1, <1>2, <1>3
<1>. QED  BY <1>4, AfterType

\* What the loop sees at a character of a token, and after it.
LEMMA AtToken ==
    ASSUME DOMAIN calc = SplitFields, IsReading(calc.text, calc.read), calc.depth \in Nat,
           calc.sql = Before(calc.text, Len(calc.text)),
           NEW k \in 0 .. Len(calc.text) - 1, NEW t, t = calc.text[k + 1],
           NEW m \in 1 .. Len(t), calc.i = Len(Before(calc.text, k)) + m
    PROVE  /\ LoopAt /\ Split!Ch = t[m]
           /\ m < Len(t) => Split!Following = t[m + 1]
           /\ m = Len(t) => \/ k + 1 < Len(calc.text) /\ Split!Following = calc.text[k + 2][1]
                            \/ Split!Following = "end"
<1>1. calc.text \in Seq(Seq(Chars)) /\ Len(calc.text) \in Nat /\ k + 1 \in 1 .. Len(calc.text)
    BY ReadingAt
<1>2. t \in Seq(Chars) /\ Len(t) \in Nat \ {0}
    BY <1>1, ReadingAt
<1>3. Before(calc.text, k) \in Seq(Chars)
    BY <1>1, BeforeNext
<1>4. PICK b \in Nat : b = Len(Before(calc.text, k))
    BY <1>3
<1>5. PICK l \in Nat : l = Len(t)
    BY <1>2
<1>6. PICK n \in Nat : n = Len(calc.sql) /\ calc.sql \in Seq(Chars)
    <2>1. CASE Len(calc.text) - 1 + 1 = Len(calc.text)
        <3>1. Len(calc.text) - 1 \in 0 .. Len(calc.text) - 1
            BY <1>1
        <3>2. Before(calc.text, Len(calc.text) - 1 + 1) \in Seq(Chars)
            BY <1>1, <3>1, BeforeNext
        <3>. QED  BY <2>1, <3>2
    <2>. QED  BY <1>1, <2>1
<1>7. ASSUME NEW j \in 1 .. l PROVE calc.sql[b + j] = t[j] /\ b + l <= n
    <2>1. j \in 1 .. Len(calc.text[k + 1])
        BY <1>5
    <2>2. /\ Before(calc.text, Len(calc.text))[Len(Before(calc.text, k)) + j] = calc.text[k + 1][j]
          /\ Len(Before(calc.text, k)) + Len(calc.text[k + 1]) <= Len(Before(calc.text, Len(calc.text)))
        BY <1>1, <2>1, CharAt
    <2>. QED  BY <1>4, <1>5, <1>6, <2>2
<1>8. m \in 1 .. l /\ calc.i = b + m
    BY <1>4, <1>5
<1>9. calc.sql[b + m] = t[m] /\ b + l <= n
    BY <1>7, <1>8
<1>10. LoopAt /\ Split!Ch = t[m]
    BY <1>6, <1>8, <1>9 DEF LoopAt, Split!Ch
<1>11. ASSUME m < Len(t) PROVE Split!Following = t[m + 1]
    <2>1. m + 1 \in 1 .. l /\ b + (m + 1) = calc.i + 1
        BY <1>5, <1>8, <1>11
    <2>2. calc.sql[calc.i + 1] = t[m + 1] /\ calc.i < n
        BY <1>7, <1>8, <2>1
    <2>. QED  BY <1>6, <2>2 DEF Split!Following
<1>12. ASSUME m = Len(t), k + 1 < Len(calc.text) PROVE Split!Following = calc.text[k + 2][1]
    <2>1. k + 1 \in 0 .. Len(calc.text) - 1 /\ k + 1 + 1 = k + 2 /\ k + 2 \in 1 .. Len(calc.text)
        BY <1>1, <1>12
    <2>2. Len(calc.text[k + 2]) \in Nat \ {0}
        BY <2>1, ReadingAt
    <2>3. 1 \in 1 .. Len(calc.text[k + 1 + 1])
        BY <2>1, <2>2
    <2>4. /\ Before(calc.text, Len(calc.text))[Len(Before(calc.text, k + 1)) + 1] = calc.text[k + 1 + 1][1]
          /\ Len(Before(calc.text, k + 1)) + Len(calc.text[k + 1 + 1]) <= Len(Before(calc.text, Len(calc.text)))
        BY <1>1, <2>1, <2>3, CharAt
    <2>5. Len(Before(calc.text, k + 1)) = b + l
        BY <1>1, <1>4, <1>5, BeforeNext
    <2>6. calc.i = b + l
        BY <1>5, <1>8, <1>12
    <2>7. PICK e \in Nat \ {0} : e = Len(calc.text[k + 2])
        BY <2>2
    <2>8. Len(calc.text[k + 1 + 1]) = e /\ calc.text[k + 1 + 1][1] = calc.text[k + 2][1]
        BY <2>1, <2>7
    <2>9. calc.sql[b + l + 1] = calc.text[k + 2][1]
        BY <2>4, <2>5, <2>8
    <2>10. b + l + e <= n
        BY <1>6, <2>4, <2>5, <2>8
    <2>11. b + l < n
        BY <2>10
    <2>. QED  BY <1>6, <2>6, <2>9, <2>11 DEF Split!Following
<1>13. ASSUME m = Len(t), ~ (k + 1 < Len(calc.text)) PROVE Split!Following = "end"
    <2>1. k + 1 = Len(calc.text)
        BY <1>1, <1>13
    <2>2. Len(Before(calc.text, k + 1)) = b + l
        BY <1>1, <1>4, <1>5, BeforeNext
    <2>3. Before(calc.text, k + 1) = calc.sql
        BY <2>1
    <2>4. Len(calc.sql) = b + l
        BY <2>2, <2>3
    <2>5. calc.i = b + l
        BY <1>5, <1>8, <1>13
    <2>6. ~ (calc.i < Len(calc.sql))
        BY <2>4, <2>5
    <2>. QED  BY <2>6 DEF Split!Following
<1>. QED  BY <1>10, <1>11, <1>12, <1>13

\* A token that the loop takes as ClickHouse reads it.
LEMMA MovesOn ==
    ASSUME IsReading(calc.text, calc.read), NEW k \in 0 .. Len(calc.text) - 1, SameTexts,
           calc'.i = Len(Before(calc.text, k + 1)) + 1,
           NEW a, a = calc.read[k + 2], calc'.in = a.in, calc'.depth = a.depth,
           calc'.current = a.current, calc'.stmts = a.stmts
    PROVE  Between'
<1>1. k + 1 \in 0 .. Len(calc.text) /\ k + 1 + 1 = k + 2
    BY ReadingAt
<1>. QED  BY <1>1 DEF SameTexts, Between, Agrees

LEMMA Joins ==
    ASSUME IsReading(calc.text, calc.read), NEW k \in 0 .. Len(calc.text) - 1,
           NEW r, r = calc.read[k + 1], NEW t, t = calc.text[k + 1],
           calc.i = Len(Before(calc.text, k)) + 1, Agrees(r), NEW in, NEW depth, Takes(t, in, depth),
           NEW a, a = Split!After(r, t), a.in = in, a.depth = depth, a.stmts = r.stmts, a.current = r.current \o t
    PROVE  Between'
<1>1. /\ calc.text \in Seq(Seq(Chars)) /\ k + 1 \in 1 .. Len(calc.text) /\ k + 1 + 1 = k + 2
      /\ t \in Seq(Chars)
    BY ReadingAt
<1>2. a = calc.read[k + 2]
    BY <1>1 DEF IsReading
<1>3. /\ Len(Before(calc.text, k + 1)) = Len(Before(calc.text, k)) + Len(t)
      /\ Before(calc.text, k) \in Seq(Chars)
    BY <1>1, BeforeNext
<1>4. calc'.i = Len(Before(calc.text, k + 1)) + 1
    <2>1. PICK b \in Nat : b = Len(Before(calc.text, k))
        BY <1>3
    <2>2. PICK l \in Nat : l = Len(t)
        BY <1>1
    <2>3. calc'.i = calc.i + l
        BY <2>2 DEF Takes
    <2>4. calc'.i = b + l + 1
        BY <2>1, <2>3
    <2>. QED  BY <1>3, <2>1, <2>2, <2>4
<1>. QED  BY <1>2, <1>4, MovesOn DEF Takes, Agrees

\* From a token of a comment the loop comes to the next token.
LEMMA CommentToken ==
    ASSUME DOMAIN calc = SplitFields, IsReading(calc.text, calc.read),
           calc.sql = Before(calc.text, Len(calc.text)), Split!Next,
           NEW k \in 0 .. Len(calc.text) - 1, calc.i = Len(Before(calc.text, k)) + 1,
           Agrees(calc.read[k + 1]), calc.depth > 0
    PROVE  Between'
<1>. DEFINE r == calc.read[k + 1]
            t == calc.text[k + 1]
            a == Split!After(r, t)
<1>1. r \in ReadStates /\ t \in Split!Readable(r) /\ Len(t) \in Nat \ {0}
    BY TokenAt
<1>2. calc.in = r.in /\ calc.depth = r.depth /\ r.depth \in Nat /\ r.depth > 0
    BY <1>1 DEF Agrees, ReadStates
<1>. HIDE DEF r, t, a
<1>3. r = calc.read[k + 1] /\ t = calc.text[k + 1] /\ a = Split!After(r, t) /\ Agrees(r)
    BY DEF r, t, a
<1>4. /\ LoopAt /\ Split!Ch = t[1]
      /\ 1 < Len(t) => Split!Following = t[2]
    <2>1. 1 \in 1 .. Len(t) /\ 1 + 1 = 2
        BY <1>1
    <2>. QED  BY <1>2, <1>3, <2>1, AtToken
<1>5. ASSUME NEW c \in {"semicolon", "single"}, t = <<c>> PROVE Between'
    <2>1. Split!Ch = c
        BY <1>4, <1>5
    <2>2. ~ Split!Marker
        BY <2>1 DEF Split!Marker
    <2>3. Takes(t, calc.in, calc.depth)
        BY <1>4, <1>5, <2>1, <2>2, StepInComment
    <2>4. c \in Chars
        BY CharsAre
    <2>5. /\ a.depth = r.depth /\ a.stmts = r.stmts /\ a.current = r.current \o <<c>>
          /\ a.in = IF r.depth > 0 \/ c \notin Split!Quotes THEN r.in
                    ELSE IF r.in = "code" THEN c ELSE IF r.in = c THEN "code" ELSE r.in
        <3>1. a = Split!After(r, <<c>>)
            BY <1>3, <1>5
        <3>2. ~ (r.depth = 0 /\ r.in = "code" /\ c = "semicolon")
            BY <1>2
        <3>. QED  BY <1>1, <2>4, <3>1, <3>2, AfterOneIs
    <2>6. a.in = calc.in /\ a.depth = calc.depth /\ a.stmts = r.stmts /\ a.current = r.current \o t
        BY <1>2, <1>5, <2>5
    <2>. QED  BY <1>3, <2>3, <2>6, Joins
<1>6. ASSUME NEW c \in {"slash", "star"}, NEW d \in {"slash", "star"}, c # d, t = <<c, d>> PROVE Between'
    <2>1. Split!Ch = c /\ Split!Following = d
        BY <1>4, <1>6
    <2>2. Split!Marker
        BY <1>6, <2>1 DEF Split!Marker
    <2>3. Takes(t, calc.in, IF c = "slash" THEN calc.depth + 1 ELSE calc.depth - 1)
        BY <1>4, <1>6, <2>1, <2>2, StepInComment
    <2>4. c \in Chars /\ d \in Chars
        BY CharsAre
    <2>. DEFINE e == IF c = "slash" THEN calc.depth + 1 ELSE calc.depth - 1
    <2>5. /\ a.in = r.in /\ a.stmts = r.stmts /\ a.current = r.current \o <<c, d>>
          /\ a.depth = IF c = "slash" /\ d = "star" THEN r.depth + 1
                       ELSE IF c = "star" /\ d = "slash" THEN r.depth - 1 ELSE r.depth
        <3>1. a = Split!After(r, <<c, d>>)
            BY <1>3, <1>6
        <3>. QED  BY <1>1, <2>4, <3>1, AfterTwoIs
    <2>6. a.in = calc.in /\ a.depth = e /\ a.stmts = r.stmts /\ a.current = r.current \o t
        BY <1>2, <1>6, <2>5
    <2>. HIDE DEF e
    <2>7. Takes(t, calc.in, e)
        BY <2>3 DEF e
    <2>. QED  BY <1>3, <2>6, <2>7, Joins
<1>. QED  BY <1>1, <1>2, <1>5, <1>6, ReadableIs

\* Where no quote is beside a quote, none follows one that opens or is doubled.
LEMMA NoneFollows ==
    ASSUME IsReading(calc.text, calc.read), ~ Split!QuoteOnQuote,
           NEW k \in 0 .. Len(calc.text) - 1, NEW q \in Split!Quotes \ {"backtick"},
           calc.text[k + 1][1] = q, calc.read[k + 2].in = q, NEW following,
           \/ k + 1 < Len(calc.text) /\ following = calc.text[k + 2][1]
           \/ following = "end"
    PROVE  following # q
<1>1. q \in {"single", "double"}
    BY DEF Split!Quotes
<1>2. CASE following = "end"
    BY <1>1, <1>2
<1>3. CASE k + 1 < Len(calc.text) /\ following = calc.text[k + 2][1]
    <2>1. PICK n \in 1 .. Len(calc.text) - 1 : n = k + 1 /\ n + 1 = k + 2
        BY <1>3, ReadingAt
    <2>2. ~ (/\ calc.read[n + 1].in \in {"single", "double"}
             /\ calc.text[n][1] = calc.read[n + 1].in /\ calc.text[n + 1][1] = calc.read[n + 1].in)
        BY DEF Split!QuoteOnQuote
    <2>3. calc.read[n + 1].in = q /\ calc.text[n][1] = q
        BY <2>1
    <2>4. calc.text[n + 1][1] # q
        BY <1>1, <2>2, <2>3
    <2>. QED  BY <1>3, <2>1, <2>4
<1>. QED  BY <1>2, <1>3

\* From a token of code the loop comes to the next token.
LEMMA CodeToken ==
    ASSUME DOMAIN calc = SplitFields, IsReading(calc.text, calc.read), ~ Split!QuoteOnQuote,
           calc.sql = Before(calc.text, Len(calc.text)), Split!Next,
           NEW k \in 0 .. Len(calc.text) - 1, calc.i = Len(Before(calc.text, k)) + 1,
           Agrees(calc.read[k + 1]), calc.depth = 0, calc.in = "code"
    PROVE  Between'
<1>. DEFINE r == calc.read[k + 1]
            t == calc.text[k + 1]
            a == Split!After(r, t)
<1>1. /\ r \in ReadStates /\ t \in Split!Readable(r) /\ t \in Seq(Chars) /\ Len(t) \in Nat \ {0}
      /\ a = calc.read[k + 2] /\ a \in ReadStates /\ 1 \in 1 .. Len(t)
    BY TokenAt
<1>2. calc.in = r.in /\ calc.depth = r.depth /\ r.depth = 0 /\ r.in = "code"
    BY DEF Agrees
<1>. HIDE DEF r, t, a
<1>3. r = calc.read[k + 1] /\ t = calc.text[k + 1] /\ a = Split!After(r, t) /\ Agrees(r)
    BY DEF r, t, a
<1>4. /\ LoopAt /\ Split!Ch = t[1]
      /\ 1 < Len(t) => Split!Following = t[2]
      /\ 1 = Len(t) => \/ k + 1 < Len(calc.text) /\ Split!Following = calc.text[k + 2][1]
                       \/ Split!Following = "end"
    <2>1. PICK m \in 1 .. Len(t) : m = 1 /\ m + 1 = 2
        BY <1>1
    <2>2. calc.depth \in Nat /\ calc.i = Len(Before(calc.text, k)) + m
        BY <2>1
    <2>3. /\ LoopAt /\ Split!Ch = t[m]
          /\ m < Len(t) => Split!Following = t[m + 1]
          /\ m = Len(t) => \/ k + 1 < Len(calc.text) /\ Split!Following = calc.text[k + 2][1]
                           \/ Split!Following = "end"
        BY <1>3, <2>2, AtToken
    <2>. QED  BY <2>1, <2>3
<1>5. CASE t = <<"x">>
    <2>1. Split!Ch = "x" /\ "x" \in Chars /\ "x" \notin Split!Quotes
        BY <1>4, <1>5, CharsAre
    <2>2. Takes(<<Split!Ch>>, calc.in, calc.depth)
        BY <1>4, <2>1, StepOther
    <2>3. Takes(t, calc.in, calc.depth)
        BY <1>5, <2>1, <2>2
    <2>4. PICK c \in Chars : c = "x" /\ t = <<c>> /\ c \notin Split!Quotes
        BY <1>5, <2>1
    <2>5. /\ a.depth = r.depth /\ a.stmts = r.stmts /\ a.current = r.current \o <<c>>
          /\ a.in = IF r.depth > 0 \/ c \notin Split!Quotes THEN r.in
                    ELSE IF r.in = "code" THEN c ELSE IF r.in = c THEN "code" ELSE r.in
        <3>1. a = Split!After(r, <<c>>)
            BY <1>3, <2>4
        <3>2. ~ (r.depth = 0 /\ r.in = "code" /\ c = "semicolon")
            BY <2>4
        <3>. QED  BY <1>1, <3>1, <3>2, AfterOneIs
    <2>6. a.in = calc.in /\ a.depth = calc.depth /\ a.stmts = r.stmts /\ a.current = r.current \o t
        BY <1>2, <2>4, <2>5
    <2>. QED  BY <1>3, <2>3, <2>6, Joins
<1>6. ASSUME NEW q \in Split!Quotes, t = <<q>> PROVE Between'
    <2>1. Split!Ch = q /\ q \in Chars /\ q # "semicolon" /\ q # "code" /\ Len(t) = 1 /\ t[1] = q
        BY <1>4, <1>6, CharsAre
    <2>2. /\ a.depth = r.depth /\ a.stmts = r.stmts /\ a.current = r.current \o <<q>>
          /\ a.in = IF r.depth > 0 \/ q \notin Split!Quotes THEN r.in
                    ELSE IF r.in = "code" THEN q ELSE IF r.in = q THEN "code" ELSE r.in
        <3>1. a = Split!After(r, <<q>>)
            BY <1>3, <1>6
        <3>2. ~ (r.depth = 0 /\ r.in = "code" /\ q = "semicolon")
            BY <2>1
        <3>. QED  BY <1>1, <2>1, <3>1, <3>2, AfterOneIs
    <2>3. a.in = q /\ a.depth = calc.depth /\ a.stmts = r.stmts /\ a.current = r.current \o t
        BY <1>2, <1>6, <2>2
    <2>4. q = "backtick" \/ Split!Following # q
        <3>1. calc.text[k + 1][1] = q /\ calc.read[k + 2].in = q
            BY <1>1, <1>3, <2>1, <2>3
        <3>. QED  BY <1>4, <2>1, <3>1, NoneFollows
    <2>5. Takes(<<Split!Ch>>, IF calc.in = Split!Ch THEN "code" ELSE Split!Ch, calc.depth)
        BY <1>4, <2>1, <2>4, StepQuote
    <2>6. Takes(t, q, calc.depth)
        BY <1>6, <2>1, <2>5
    <2>. QED  BY <1>3, <2>3, <2>6, Joins
<1>7. CASE t = <<"slash", "star">>
    <2>1. Split!Ch = "slash" /\ Split!Following = "star" /\ "slash" \in Chars /\ "star" \in Chars
        BY <1>4, <1>7, CharsAre
    <2>2. Takes(<<Split!Ch, Split!Following>>, calc.in, calc.depth + 1)
        BY <1>4, <2>1, StepOpen
    <2>. DEFINE e == calc.depth + 1
    <2>3. Takes(t, calc.in, e)
        BY <1>7, <2>1, <2>2
    <2>4. PICK c \in Chars, d \in Chars : c = "slash" /\ d = "star" /\ t = <<c, d>>
        BY <1>7, <2>1
    <2>5. /\ a.in = r.in /\ a.stmts = r.stmts /\ a.current = r.current \o <<c, d>>
          /\ a.depth = IF c = "slash" /\ d = "star" THEN r.depth + 1
                       ELSE IF c = "star" /\ d = "slash" THEN r.depth - 1 ELSE r.depth
        <3>1. a = Split!After(r, <<c, d>>)
            BY <1>3, <2>4
        <3>. QED  BY <1>1, <3>1, AfterTwoIs
    <2>6. a.in = calc.in /\ a.depth = e /\ a.stmts = r.stmts /\ a.current = r.current \o t
        BY <1>2, <2>4, <2>5
    <2>. HIDE DEF e
    <2>. QED  BY <1>3, <2>3, <2>6, Joins
<1>8. CASE t = <<"semicolon">>
    <2>1. Split!Ch = "semicolon" /\ "semicolon" \in Chars /\ Len(t) = 1
        BY <1>4, <1>8, CharsAre
    <2>2. /\ SameTexts /\ calc'.stmts = Split!Pushed(calc) /\ calc'.i = calc.i + 1 /\ calc'.current = <<>>
          /\ calc'.in = calc.in /\ calc'.depth = calc.depth
        BY <1>4, <2>1, StepCut
    <2>3. a = [r EXCEPT !.stmts = Split!Ended(r), !.current = <<>>]
        <3>1. PICK c \in Chars : c = "semicolon" /\ t = <<c>>
            BY <1>8, <2>1
        <3>2. Split!After(r, <<c>>) =
               IF r.depth = 0 /\ r.in = "code" /\ c = "semicolon"
               THEN [r EXCEPT !.stmts = Split!Ended(r), !.current = <<>>]
               ELSE [r EXCEPT !.current = @ \o <<c>>,
                              !.in = IF r.depth > 0 \/ c \notin Split!Quotes THEN @
                                     ELSE IF @ = "code" THEN c ELSE IF @ = c THEN "code" ELSE @]
            BY <1>1, AfterOne
        <3>3. a = Split!After(r, <<c>>)
            BY <1>3, <3>1
        <3>. QED  BY <1>2, <3>1, <3>2, <3>3
    <2>4. a.in = r.in /\ a.depth = r.depth /\ a.current = <<>> /\ a.stmts = Split!Ended(r)
        BY <1>1, <2>3 DEF ReadStates
    <2>5. Split!Pushed(calc) = Split!Ended(r)
        <3>1. calc.stmts = r.stmts /\ calc.current = r.current /\ calc.stmts \in Seq(Trims) /\ calc.current \in Seq(Chars)
            BY <1>1, <1>3 DEF Agrees, ReadStates
        <3>. QED  BY <3>1, PushedIs DEF Split!Ended
    <2>6. calc'.i = Len(Before(calc.text, k + 1)) + 1
        <3>1. Before(calc.text, k) \in Seq(Chars) /\ Len(Before(calc.text, k + 1)) = Len(Before(calc.text, k)) + Len(t)
            BY <1>3, BeforeNext, ReadingAt
        <3>2. PICK b \in Nat : b = Len(Before(calc.text, k))
            BY <3>1
        <3>. QED  BY <2>1, <2>2, <3>1, <3>2
    <2>. QED  BY <1>1, <1>2, <2>2, <2>4, <2>5, <2>6, MovesOn
<1>9. CASE t = Split!LineComment
    <2>1. /\ Len(t) = 5 /\ t[1] = "dash" /\ t[2] = "dash" /\ t[5] = "newline"
          /\ \A m \in 1 .. 4 : t[m] # "newline"
        BY <1>9, LineChars
    <2>2. Split!Ch = "dash" /\ Split!Following = "dash"
        BY <1>4, <2>1
    <2>3. /\ Before(calc.text, k) \in Seq(Chars) /\ Len(Before(calc.text, k + 1)) = Len(Before(calc.text, k)) + Len(t)
          /\ calc.text \in Seq(Seq(Chars))
        BY <1>3, BeforeNext, ReadingAt
    <2>4. PICK b \in Nat : b = Len(Before(calc.text, k)) /\ calc.i = b + 1
        BY <2>3
    <2>5. PICK n \in Nat : n = Len(calc.sql)
        BY <1>4 DEF LoopAt
    <2>6. ASSUME NEW m \in 1 .. 5 PROVE calc.sql[b + m] = t[m] /\ b + 5 <= n
        <3>1. m \in 1 .. Len(calc.text[k + 1])
            BY <1>3, <2>1
        <3>2. /\ Before(calc.text, Len(calc.text))[Len(Before(calc.text, k)) + m] = calc.text[k + 1][m]
              /\ Len(Before(calc.text, k)) + Len(calc.text[k + 1]) <= Len(Before(calc.text, Len(calc.text)))
            BY <2>3, <3>1, CharAt
        <3>. QED  BY <1>3, <2>1, <2>4, <2>5, <3>2
    <2>7. calc.i + 4 <= Len(calc.sql) /\ calc.sql[calc.i + 4] = "newline"
        <3>1. 5 \in 1 .. 5 /\ calc.i + 4 = b + 5
            BY <2>4
        <3>. QED  BY <2>1, <2>5, <2>6, <3>1
    <2>8. ASSUME NEW m \in 0 .. 3 PROVE calc.sql[calc.i + m] # "newline"
        <3>1. m + 1 \in 1 .. 5 /\ m + 1 \in 1 .. 4 /\ calc.i + m = b + (m + 1)
            BY <2>4
        <3>. QED  BY <2>1, <2>6, <3>1
    <2>9. calc.current = r.current /\ r.current \in Seq(Chars)
        BY <1>1, <1>3 DEF Agrees, ReadStates
    <2>10. /\ SameTexts /\ calc'.stmts = calc.stmts /\ calc'.i = calc.i + 5
           /\ calc'.current = calc.current \o <<"space">>
           /\ calc'.in = calc.in /\ calc'.depth = calc.depth
        BY <1>4, <2>2, <2>7, <2>8, <2>9, StepSkip
    <2>11. a = [r EXCEPT !.current = @ \o <<"space">>]
        BY <1>1, <1>3, <1>9, AfterLine
    <2>12. a.in = r.in /\ a.depth = r.depth /\ a.current = r.current \o <<"space">> /\ a.stmts = r.stmts
        BY <1>1, <2>11 DEF ReadStates
    <2>13. calc'.i = Len(Before(calc.text, k + 1)) + 1
        BY <2>1, <2>3, <2>4, <2>10
    <2>14. calc'.stmts = a.stmts /\ calc'.current = a.current
        BY <1>3, <2>9, <2>10, <2>12 DEF Agrees
    <2>. QED  BY <1>1, <1>2, <2>10, <2>12, <2>13, <2>14, MovesOn
<1>10. \/ t = <<"x">> \/ t = <<"semicolon">> \/ \E q \in Split!Quotes : t = <<q>>
       \/ t = <<"slash", "star">> \/ t = Split!LineComment
    <2>1. r.in \notin Split!Quotes /\ ~ (r.depth > 0)
        BY <1>2, CharsAre
    <2>2. \/ \E c \in {"x", "semicolon"} \union Split!Quotes : t = <<c>>
          \/ t = <<"slash", "star">>
          \/ t = Split!LineComment
        BY <1>1, <2>1, ReadableIs
    <2>. QED  BY <2>2
<1>. QED  BY <1>5, <1>6, <1>7, <1>8, <1>9, <1>10

\* From a token of a literal it comes to the next token, into a doubled quote,
\* or into an escaped backslash.
LEMMA LiteralToken ==
    ASSUME DOMAIN calc = SplitFields, IsReading(calc.text, calc.read), ~ Split!EscapedBacktick,
           calc.sql = Before(calc.text, Len(calc.text)), Split!Next,
           NEW k \in 0 .. Len(calc.text) - 1, calc.i = Len(Before(calc.text, k)) + 1,
           Agrees(calc.read[k + 1]), calc.depth = 0, calc.in \in Split!Quotes
    PROVE  Between' \/ Doubling' \/ Escaping'
<1>. DEFINE r == calc.read[k + 1]
            t == calc.text[k + 1]
            a == Split!After(r, t)
<1>1. /\ r \in ReadStates /\ t \in Split!Readable(r) /\ t \in Seq(Chars) /\ Len(t) \in Nat \ {0}
      /\ a = calc.read[k + 2] /\ a \in ReadStates /\ 1 \in 1 .. Len(t)
    BY TokenAt
<1>2. calc.in = r.in /\ calc.depth = r.depth /\ r.depth = 0 /\ r.in \in Split!Quotes
    BY DEF Agrees
<1>. HIDE DEF r, t, a
<1>3. r = calc.read[k + 1] /\ t = calc.text[k + 1] /\ a = Split!After(r, t) /\ Agrees(r)
    BY DEF r, t, a
<1>a. ASSUME NEW in, NEW depth, Takes(t, in, depth), a.in = in, a.depth = depth,
              a.stmts = r.stmts, a.current = r.current \o t
       PROVE  Between'
    <2>1. IsReading(calc.text, calc.read) /\ calc.i = Len(Before(calc.text, k)) + 1
        OBVIOUS
    <2>. QED  BY <1>3, <1>a, <2>1, Joins, ZenonT(60)
<1>4. /\ LoopAt /\ Split!Ch = t[1]
      /\ 1 < Len(t) => Split!Following = t[2]
    <2>1. PICK m \in 1 .. Len(t) : m = 1 /\ m + 1 = 2
        BY <1>1
    <2>2. calc.depth \in Nat /\ calc.i = Len(Before(calc.text, k)) + m
        BY <2>1
    <2>3. LoopAt /\ Split!Ch = t[m] /\ (m < Len(t) => Split!Following = t[m + 1])
        BY <1>3, <2>2, AtToken
    <2>. QED  BY <2>1, <2>3
<1>5. r.in # "code" /\ r.in # "semicolon" /\ r.in # "slash" /\ r.in # "dash" /\ r.in # "backslash"
    BY <1>2, CharsAre
<1>6. ASSUME NEW c \in {"semicolon"} \union Split!Quotes, t = <<c>> PROVE Between'
    <2>1. Split!Ch = c /\ c \in Chars /\ c # "backslash"
        BY <1>4, <1>6, CharsAre
    <2>2. /\ a.depth = r.depth /\ a.stmts = r.stmts /\ a.current = r.current \o <<c>>
          /\ a.in = IF r.depth > 0 \/ c \notin Split!Quotes THEN r.in
                    ELSE IF r.in = "code" THEN c ELSE IF r.in = c THEN "code" ELSE r.in
        <3>1. a = Split!After(r, <<c>>)
            BY <1>3, <1>6
        <3>2. ~ (r.depth = 0 /\ r.in = "code" /\ c = "semicolon")
            BY <1>5
        <3>. QED  BY <1>1, <2>1, <3>1, <3>2, AfterOneIs
    <2>3. a.depth = calc.depth /\ a.stmts = r.stmts /\ a.current = r.current \o t
        BY <1>2, <1>6, <2>2
    <2>4. CASE c = r.in
        <3>1. a.in = "code"
            BY <1>2, <1>5, <2>2, <2>4
        <3>2. Takes(<<Split!Ch>>, IF calc.in = Split!Ch THEN "code" ELSE Split!Ch, calc.depth)
            BY <1>2, <1>4, <1>5, <2>1, <2>4, StepQuote
        <3>3. Takes(t, "code", calc.depth)
            BY <1>2, <1>6, <2>1, <2>4, <3>2
        <3>. QED  BY <1>a, <2>3, <3>1, <3>3
    <2>5. CASE c # r.in
        <3>1. a.in = calc.in
            BY <1>2, <1>5, <2>2, <2>5
        <3>2. Takes(<<Split!Ch>>, calc.in, calc.depth)
            BY <1>2, <1>4, <1>5, <2>1, <2>5, StepOther
        <3>3. Takes(t, calc.in, calc.depth)
            BY <1>6, <2>1, <3>2
        <3>. QED  BY <1>a, <2>3, <3>1, <3>3
    <2>. QED  BY <2>4, <2>5
<1>7. CASE t = <<r.in, r.in>>
    <2>1. Split!Ch = r.in /\ Len(t) = 2
        BY <1>4, <1>7
    <2>2. Takes(<<Split!Ch>>, IF calc.in = Split!Ch THEN "code" ELSE Split!Ch, calc.depth)
        BY <1>2, <1>4, <1>5, <2>1, StepQuote
    <2>3. Takes(<<r.in>>, "code", 0)
        BY <1>2, <2>1, <2>2
    <2>4. Len(<<r.in>>) = 1
        OBVIOUS
    <2>5. calc'.i = Len(Before(calc.text, k)) + 2
        <3>1. Before(calc.text, k) \in Seq(Chars)
            BY BeforeNext, ReadingAt
        <3>2. PICK b \in Nat : b = Len(Before(calc.text, k))
            BY <3>1
        <3>. QED  BY <2>3, <2>4, <3>2 DEF Takes
    <2>7. calc'.current = r.current \o <<r.in>> /\ calc'.stmts = r.stmts
        BY <1>3, <2>3 DEF Agrees, Takes
    <2>8. SameTexts /\ calc'.in = "code" /\ calc'.depth = 0
        BY <2>3 DEF Takes
    <2>9. calc'.text = calc.text /\ r = calc'.read[k + 1] /\ t = calc'.text[k + 1]
        BY <1>3, <2>8 DEF SameTexts
    <2>10. Doubling'
        BY <1>2, <1>7, <2>5, <2>7, <2>8, <2>9 DEF Doubling
    <2>. QED  BY <2>10
<1>8. ASSUME r.in # "backtick", NEW c \in {r.in, "backslash"}, t = <<"backslash", c>> PROVE Between'
    <2>1. Split!Ch = "backslash" /\ Split!Following = c /\ c \in Chars /\ "backslash" \in Chars
        BY <1>2, <1>4, <1>8, CharsAre
    <2>2. c # "end" /\ c # "slash" /\ r.in \in {"single", "double"}
        BY <1>2, <1>8 DEF Split!Quotes
    <2>3. Takes(<<Split!Ch, Split!Following>>, calc.in, calc.depth)
        BY <1>2, <1>4, <2>1, <2>2, StepEscape
    <2>4. Takes(t, calc.in, calc.depth)
        BY <1>8, <2>1, <2>3
    <2>5. PICK b \in Chars : b = "backslash" /\ t = <<b, c>>
        BY <1>8, <2>1
    <2>6. /\ a.in = r.in /\ a.stmts = r.stmts /\ a.current = r.current \o <<b, c>>
          /\ a.depth = IF b = "slash" /\ c = "star" THEN r.depth + 1
                       ELSE IF b = "star" /\ c = "slash" THEN r.depth - 1 ELSE r.depth
        <3>1. a = Split!After(r, <<b, c>>)
            BY <1>3, <2>5
        <3>. QED  BY <1>1, <2>1, <3>1, AfterTwoIs
    <2>7. a.in = calc.in /\ a.depth = calc.depth /\ a.stmts = r.stmts /\ a.current = r.current \o t
        BY <1>2, <2>2, <2>5, <2>6
    <2>. QED  BY <1>a, <2>4, <2>7
<1>9. ASSUME r.in = "backtick", NEW c \in {r.in, "backslash"}, t = <<"backslash", c>> PROVE Escaping'
    <2>1. c = "backslash"
        <3>. SUFFICES ASSUME c = "backtick" PROVE FALSE
            BY <1>9
        <3>1. k + 1 \in DOMAIN calc.text
            BY ReadingAt
        <3>2. t = <<"backslash", "backtick">>
            BY <1>9
        <3>. QED  BY <1>3, <3>1, <3>2 DEF Split!EscapedBacktick
    <2>2. Split!Ch = "backslash" /\ "backslash" \in Chars /\ "backslash" \notin Split!Quotes
        BY <1>4, <1>9, CharsAre
    <2>3. Takes(<<Split!Ch>>, calc.in, calc.depth)
        BY <1>2, <1>4, <1>5, <1>9, <2>2, StepOther
    <2>4. Takes(<<"backslash">>, "backtick", 0)
        BY <1>2, <1>9, <2>2, <2>3
    <2>5. calc'.i = Len(Before(calc.text, k)) + 2
        <3>1. Before(calc.text, k) \in Seq(Chars)
            BY BeforeNext, ReadingAt
        <3>2. PICK b \in Nat : b = Len(Before(calc.text, k))
            BY <3>1
        <3>3. Len(<<"backslash">>) = 1
            OBVIOUS
        <3>. QED  BY <2>4, <3>2, <3>3 DEF Takes
    <2>6. calc'.current = r.current \o <<"backslash">> /\ calc'.stmts = r.stmts
        BY <1>3, <2>4 DEF Agrees, Takes
    <2>7. SameTexts /\ calc'.in = "backtick" /\ calc'.depth = 0
        BY <2>4 DEF Takes
    <2>8. calc'.text = calc.text /\ r = calc'.read[k + 1] /\ t = calc'.text[k + 1]
        BY <1>3, <2>7 DEF SameTexts
    <2>9. t = <<"backslash", "backslash">>
        BY <1>9, <2>1
    <2>. QED  BY <1>2, <1>9, <2>5, <2>6, <2>7, <2>8, <2>9 DEF Escaping
<1>10. \/ \E c \in {"semicolon"} \union Split!Quotes : t = <<c>>
       \/ t = <<r.in, r.in>>
       \/ \E c \in {r.in, "backslash"} : t = <<"backslash", c>>
    <2>1. ~ (r.depth > 0)
        BY <1>2
    <2>. QED  BY <1>1, <1>5, <2>1, ReadableIs
<1>. QED  BY <1>6, <1>7, <1>8, <1>9, <1>10

\* A doubled quote, of which the second half opens the literal again.
LEMMA DoublingStep ==
    ASSUME DOMAIN calc = SplitFields, IsReading(calc.text, calc.read), ~ Split!QuoteOnQuote,
           calc.sql = Before(calc.text, Len(calc.text)), Split!Next, Doubling
    PROVE  Between'
<1>1. PICK k \in 0 .. Len(calc.text) - 1 : LET r == calc.read[k + 1] IN
         /\ r.in \in Split!Quotes /\ r.depth = 0 /\ calc.text[k + 1] = <<r.in, r.in>>
         /\ calc.i = Len(Before(calc.text, k)) + 2
         /\ calc.in = "code" /\ calc.depth = 0
         /\ calc.current = r.current \o <<r.in>> /\ calc.stmts = r.stmts
    BY DEF Doubling
<1>. DEFINE r == calc.read[k + 1]
            t == calc.text[k + 1]
            a == Split!After(r, t)
            q == r.in
<1>2. r \in ReadStates /\ t \in Seq(Chars) /\ a = calc.read[k + 2]
    BY TokenAt
<1>3. q \in Split!Quotes /\ r.depth = 0 /\ r.current \in Seq(Chars)
    BY <1>1, <1>2 DEF ReadStates
<1>4. /\ t = <<q, q>> /\ calc.i = Len(Before(calc.text, k)) + 2
      /\ calc.in = "code" /\ calc.depth = 0
      /\ calc.current = r.current \o <<q>> /\ calc.stmts = r.stmts
    BY <1>1
<1>. HIDE DEF q, r, t, a
<1>5. r = calc.read[k + 1] /\ t = calc.text[k + 1] /\ a = Split!After(r, t) /\ r.in = q
    BY DEF q, r, t, a
<1>6. q \in Chars /\ q # "slash" /\ q # "star" /\ q # "code"
    BY <1>3, CharsAre
<1>7. Len(t) = 2 /\ t[1] = q /\ t[2] = q
    BY <1>4
<1>8. /\ LoopAt /\ Split!Ch = q
      /\ \/ k + 1 < Len(calc.text) /\ Split!Following = calc.text[k + 2][1]
         \/ Split!Following = "end"
    <2>1. PICK m \in 1 .. Len(t) : m = 2 /\ m = Len(t)
        BY <1>7
    <2>2. calc.depth \in Nat /\ calc.i = Len(Before(calc.text, k)) + m
        BY <1>4, <2>1
    <2>3. /\ LoopAt /\ Split!Ch = t[m]
          /\ m = Len(t) => \/ k + 1 < Len(calc.text) /\ Split!Following = calc.text[k + 2][1]
                           \/ Split!Following = "end"
        BY <1>5, <2>2, AtToken
    <2>. QED  BY <1>7, <2>1, <2>3
<1>9. /\ a.in = r.in /\ a.stmts = r.stmts /\ a.current = r.current \o <<q, q>> /\ a.depth = r.depth
    <2>1. a = Split!After(r, <<q, q>>)
        BY <1>4, <1>5
    <2>2. /\ a.in = r.in /\ a.stmts = r.stmts /\ a.current = r.current \o <<q, q>>
          /\ a.depth = IF q = "slash" /\ q = "star" THEN r.depth + 1
                       ELSE IF q = "star" /\ q = "slash" THEN r.depth - 1 ELSE r.depth
        BY <1>2, <1>6, <2>1, AfterTwoIs
    <2>. QED  BY <1>6, <2>2
<1>10. q = "backtick" \/ Split!Following # q
    <2>1. calc.text[k + 1][1] = q /\ calc.read[k + 2].in = q
        BY <1>2, <1>5, <1>7, <1>9
    <2>. QED  BY <1>3, <1>8, <2>1, NoneFollows
<1>11. Takes(<<q>>, q, 0)
    <2>1. Takes(<<Split!Ch>>, IF calc.in = Split!Ch THEN "code" ELSE Split!Ch, calc.depth)
        BY <1>3, <1>4, <1>6, <1>8, <1>10, StepQuote
    <2>. QED  BY <1>4, <1>6, <1>8, <2>1
<1>12. calc'.current = a.current
    <2>1. <<q>> \in Seq(Chars) /\ <<q>> \o <<q>> = <<q, q>>
        BY <1>6, TwoRows
    <2>2. (r.current \o <<q>>) \o <<q>> = r.current \o (<<q>> \o <<q>>)
        BY <1>3, <2>1, ConcatAssociative
    <2>3. calc'.current = (r.current \o <<q>>) \o <<q>>
        BY <1>4, <1>11 DEF Takes
    <2>. QED  BY <1>9, <2>1, <2>2, <2>3
<1>13. calc'.i = Len(Before(calc.text, k + 1)) + 1
    <2>1. Before(calc.text, k) \in Seq(Chars) /\ Len(Before(calc.text, k + 1)) = Len(Before(calc.text, k)) + Len(t)
        BY <1>5, BeforeNext, ReadingAt
    <2>2. PICK b \in Nat : b = Len(Before(calc.text, k))
        BY <2>1
    <2>3. Len(<<q>>) = 1
        OBVIOUS
    <2>4. calc'.i = b + 2 + 1
        BY <1>4, <1>11, <2>2, <2>3 DEF Takes
    <2>. QED  BY <1>7, <2>1, <2>2, <2>4
<1>14. SameTexts /\ calc'.in = a.in /\ calc'.depth = a.depth /\ calc'.stmts = a.stmts
    BY <1>3, <1>4, <1>5, <1>9, <1>11 DEF Takes
<1>. QED  BY <1>2, <1>12, <1>13, <1>14, MovesOn

\* An escaped backslash of an identifier, of which the second half is taken.
LEMMA EscapingStep ==
    ASSUME DOMAIN calc = SplitFields, IsReading(calc.text, calc.read),
           calc.sql = Before(calc.text, Len(calc.text)), Split!Next, Escaping
    PROVE  Between'
<1>1. PICK k \in 0 .. Len(calc.text) - 1 : LET r == calc.read[k + 1] IN
         /\ r.in = "backtick" /\ r.depth = 0 /\ calc.text[k + 1] = <<"backslash", "backslash">>
         /\ calc.i = Len(Before(calc.text, k)) + 2
         /\ calc.in = "backtick" /\ calc.depth = 0
         /\ calc.current = r.current \o <<"backslash">> /\ calc.stmts = r.stmts
    BY DEF Escaping
<1>. DEFINE r == calc.read[k + 1]
            t == calc.text[k + 1]
            a == Split!After(r, t)
<1>2. r \in ReadStates /\ t \in Seq(Chars) /\ a = calc.read[k + 2]
    BY TokenAt
<1>3. r.in = "backtick" /\ r.depth = 0 /\ r.current \in Seq(Chars)
    BY <1>1, <1>2 DEF ReadStates
<1>4. PICK b \in Chars : b = "backslash"
    BY CharsAre
<1>5. /\ t = <<b, b>> /\ calc.i = Len(Before(calc.text, k)) + 2
      /\ calc.in = "backtick" /\ calc.depth = 0
      /\ calc.current = r.current \o <<b>> /\ calc.stmts = r.stmts
    BY <1>1, <1>4
<1>. HIDE DEF r, t, a
<1>6. r = calc.read[k + 1] /\ t = calc.text[k + 1] /\ a = Split!After(r, t)
    BY DEF r, t, a
<1>7. Len(t) = 2 /\ t[1] = b /\ t[2] = b
    BY <1>5
<1>8. LoopAt /\ Split!Ch = b
    <2>1. PICK m \in 1 .. Len(t) : m = 2 /\ m = Len(t)
        BY <1>7
    <2>2. calc.depth \in Nat /\ calc.i = Len(Before(calc.text, k)) + m
        BY <1>5, <2>1
    <2>3. LoopAt /\ Split!Ch = t[m]
        BY <1>6, <2>2, AtToken
    <2>. QED  BY <1>7, <2>1, <2>3
<1>9. /\ a.in = r.in /\ a.stmts = r.stmts /\ a.current = r.current \o <<b, b>> /\ a.depth = r.depth
    <2>1. a = Split!After(r, <<b, b>>)
        BY <1>5, <1>6
    <2>2. /\ a.in = r.in /\ a.stmts = r.stmts /\ a.current = r.current \o <<b, b>>
          /\ a.depth = IF b = "slash" /\ b = "star" THEN r.depth + 1
                       ELSE IF b = "star" /\ b = "slash" THEN r.depth - 1 ELSE r.depth
        BY <1>2, <2>1, AfterTwoIs
    <2>. QED  BY <1>4, <2>2
<1>10. Takes(<<b>>, "backtick", 0)
    <2>1. Split!Ch \notin Split!Quotes /\ calc.in # "code"
        BY <1>4, <1>5, <1>8, CharsAre
    <2>2. Takes(<<Split!Ch>>, calc.in, calc.depth)
        BY <1>5, <1>8, <2>1, StepOther
    <2>. QED  BY <1>5, <1>8, <2>2
<1>11. calc'.current = a.current
    <2>1. <<b>> \in Seq(Chars) /\ <<b>> \o <<b>> = <<b, b>>
        BY TwoRows
    <2>2. (r.current \o <<b>>) \o <<b>> = r.current \o (<<b>> \o <<b>>)
        BY <1>3, <2>1, ConcatAssociative
    <2>3. calc'.current = (r.current \o <<b>>) \o <<b>>
        BY <1>5, <1>10 DEF Takes
    <2>. QED  BY <1>9, <2>1, <2>2, <2>3
<1>12. calc'.i = Len(Before(calc.text, k + 1)) + 1
    <2>1. Before(calc.text, k) \in Seq(Chars) /\ Len(Before(calc.text, k + 1)) = Len(Before(calc.text, k)) + Len(t)
        BY <1>6, BeforeNext, ReadingAt
    <2>2. PICK n \in Nat : n = Len(Before(calc.text, k))
        BY <2>1
    <2>3. Len(<<b>>) = 1
        OBVIOUS
    <2>4. calc'.i = n + 2 + 1
        BY <1>5, <1>10, <2>2, <2>3 DEF Takes
    <2>. QED  BY <1>7, <2>1, <2>2, <2>4
<1>13. SameTexts /\ calc'.in = a.in /\ calc'.depth = a.depth /\ calc'.stmts = a.stmts
    BY <1>3, <1>5, <1>9, <1>10 DEF Takes
<1>. QED  BY <1>2, <1>11, <1>12, <1>13, MovesOn

\* At the end of the text the last statement is ended.
LEMMA LastStep ==
    ASSUME DOMAIN calc = SplitFields, IsReading(calc.text, calc.read),
           calc.sql = Before(calc.text, Len(calc.text)), calc.sql \in Seq(Chars), Split!Next,
           calc.i = Len(Before(calc.text, Len(calc.text))) + 1, Agrees(calc.read[Len(calc.text) + 1])
    PROVE  Over'
<1>. DEFINE r == calc.read[Len(calc.text) + 1]
<1>1. r \in ReadStates
    BY ReadingAt
<1>2. calc.stmts = r.stmts /\ calc.current = r.current /\ r.stmts \in Seq(Trims) /\ r.current \in Seq(Chars)
    BY <1>1 DEF Agrees, ReadStates
<1>3. SameTexts /\ calc'.stmts = Split!Pushed(calc) /\ calc'.i = calc.i + 1
    BY StepFinish
<1>4. Split!Pushed(calc) = Split!Ended(r)
    <2>. HIDE DEF r
    <2>. QED  BY <1>2, PushedIs DEF Split!Ended
<1>5. PICK n \in Nat : n = Len(calc.sql)
    OBVIOUS
<1>6. calc'.i = Len(calc.sql) + 2
    BY <1>3, <1>5
<1>. QED  BY <1>3, <1>4, <1>6 DEF Over, SameTexts

LEMMA SplitFrame ==
    ASSUME DOMAIN calc = SplitFields, Split!Next PROVE SameTexts
<1>1. \A n : LET c == Split!Take(n) IN
        /\ DOMAIN c = SplitFields /\ c.text = calc.text /\ c.read = calc.read /\ c.sql = calc.sql
    BY DEF Split!Take, SplitFields
<1>2. LET c == Split!NestedComment IN
        /\ DOMAIN c = SplitFields /\ c.text = calc.text /\ c.read = calc.read /\ c.sql = calc.sql
    BY <1>1 DEF Split!NestedComment, SplitFields
<1>3. CASE Split!InComment
    BY <1>1, <1>2, <1>3 DEF Split!InComment, SameTexts
<1>4. CASE Split!Escape
    BY <1>1, <1>4 DEF Split!Escape, SameTexts
<1>5. CASE Split!Quote
    BY <1>1, <1>5 DEF Split!Quote, SameTexts, SplitFields
<1>6. CASE Split!OpenComment
    BY <1>2, <1>6 DEF Split!OpenComment, SameTexts
<1>7. CASE Split!SkipLine
    BY <1>7 DEF Split!SkipLine, SameTexts, SplitFields
<1>8. CASE Split!Cut
    BY <1>8 DEF Split!Cut, SameTexts, SplitFields
<1>9. CASE Split!Other
    BY <1>1, <1>9 DEF Split!Other, SameTexts
<1>10. CASE Split!Finish
    BY <1>10 DEF Split!Finish, SameTexts, SplitFields
<1>. QED  BY <1>3, <1>4, <1>5, <1>6, <1>7, <1>8, <1>9, <1>10 DEF Split!Next

LEMMA TextIs ==
    ASSUME NEW text \in Seq(Seq(Chars)), NEW sql, sql = Before(text, Len(text))
    PROVE  sql \in Seq(Chars)
<1>1. CASE Len(text) = 0
    <2>1. SubSeq(text, 1, 0) = <<>>
        BY SubSeqEmpty
    <2>2. Before(text, 0) = <<>>
        BY <2>1, FlattenEmpty, SplitFlatten DEF Before
    <2>3. sql = <<>>
        BY <1>1, <2>2
    <2>. QED  BY <2>3
<1>2. CASE Len(text) # 0
    <2>1. Len(text) - 1 \in 0 .. Len(text) - 1 /\ Len(text) - 1 + 1 = Len(text)
        BY <1>2
    <2>2. Before(text, Len(text) - 1 + 1) \in Seq(Chars)
        BY <2>1, BeforeNext
    <2>. QED  BY <2>1, <2>2
<1>. QED  BY <1>1, <1>2

LEMMA SplitInitInv == ASSUME Split!Init PROVE SplitInv
<1>. PICK n \in 0 .. MaxTokens : \E p \in Split!Readings[n] :
        /\ p.read[n + 1].in = "code" /\ p.read[n + 1].depth = 0
        /\ calc = [text |-> p.text, read |-> p.read, sql |-> Split!FlattenSeq(p.text), i |-> 1,
                   in |-> "code", depth |-> 0, current |-> <<>>, stmts |-> <<>>]
    BY DEF Split!Init
<1>1. PICK p \in Split!Readings[n] :
        /\ p.read[n + 1].in = "code" /\ p.read[n + 1].depth = 0
        /\ calc = [text |-> p.text, read |-> p.read, sql |-> Split!FlattenSeq(p.text), i |-> 1,
                   in |-> "code", depth |-> 0, current |-> <<>>, stmts |-> <<>>]
    OBVIOUS
<1>2. IsReading(p.text, p.read) /\ Len(p.text) = n
    BY ReadingsAre
<1>3. /\ DOMAIN calc = SplitFields /\ calc.text = p.text /\ calc.read = p.read
      /\ calc.sql = Split!FlattenSeq(p.text) /\ calc.i = 1
      /\ calc.in = "code" /\ calc.depth = 0 /\ calc.current = <<>> /\ calc.stmts = <<>>
    BY <1>1 DEF SplitFields
<1>4. Before(calc.text, Len(calc.text)) = calc.sql
    <2>1. p.text \in Seq(Seq(Chars))
        BY <1>2, ReadingAt
    <2>2. SubSeq(p.text, 1, Len(p.text)) = p.text
        BY <2>1, SubSeqFull
    <2>. QED  BY <1>3, <2>2 DEF Before
<1>5. Between
    <2>1. SubSeq(calc.text, 1, 0) = <<>>
        BY SubSeqEmpty
    <2>2. Len(Before(calc.text, 0)) = 0
        <3>1. Before(calc.text, 0) = <<>>
            BY <2>1, FlattenEmpty, SplitFlatten, Zenon DEF Before
        <3>. QED  BY <3>1
    <2>3. calc.read[1] = Split!Start /\ 0 \in 0 .. Len(calc.text)
        BY <1>2, <1>3, ReadingAt DEF IsReading
    <2>4. Agrees(calc.read[0 + 1])
        BY <1>3, <2>3 DEF Agrees, Split!Start
    <2>5. calc.i = Len(Before(calc.text, 0)) + 1
        BY <1>3, <2>2
    <2>. QED  BY <2>3, <2>4, <2>5 DEF Between
<1>. QED  BY <1>1, <1>2, <1>3, <1>4, <1>5 DEF SplitInv

LEMMA SplitStepInv == ASSUME SplitInv, Split!Next PROVE SplitInv'
<1>1. /\ DOMAIN calc = SplitFields /\ IsReading(calc.text, calc.read)
      /\ calc.sql = Before(calc.text, Len(calc.text))
    BY DEF SplitInv
<1>2. SameTexts
    BY <1>1, SplitFrame
<1>3. calc.text \in Seq(Seq(Chars)) /\ Len(calc.text) \in Nat /\ calc.sql \in Seq(Chars)
    BY <1>1, ReadingAt, TextIs
<1>4. (Split!QuoteOnQuote \/ Split!EscapedBacktick \/ Between \/ Doubling \/ Escaping \/ Over)'
    <2>1. CASE Split!QuoteOnQuote
        BY <1>2, <2>1 DEF Split!QuoteOnQuote, SameTexts
    <2>0. CASE Split!EscapedBacktick
        BY <1>2, <2>0 DEF Split!EscapedBacktick, SameTexts
    <2>2. CASE ~ Split!QuoteOnQuote /\ ~ Split!EscapedBacktick /\ Between
        <3>1. PICK k \in 0 .. Len(calc.text) :
                 calc.i = Len(Before(calc.text, k)) + 1 /\ Agrees(calc.read[k + 1])
            BY <2>2 DEF Between
        <3>2. CASE k = Len(calc.text)
            <4>1. Over'
                BY <1>1, <1>3, <3>1, <3>2, LastStep
            <4>. QED  BY <4>1
        <3>3. CASE k # Len(calc.text)
            <4>1. k \in 0 .. Len(calc.text) - 1
                BY <1>3, <3>3
            <4>2. calc.read[k + 1] \in ReadStates
                BY <1>1, <4>1, TokenAt
            <4>3. calc.depth \in Nat /\ calc.in \in Split!Quotes \union {"code"}
                BY <3>1, <4>2 DEF Agrees, ReadStates
            <4>4. CASE calc.depth > 0
                BY <1>1, <3>1, <4>1, <4>4, CommentToken
            <4>5. CASE calc.depth = 0 /\ calc.in = "code"
                BY <1>1, <2>2, <3>1, <4>1, <4>5, CodeToken
            <4>6. CASE calc.depth = 0 /\ calc.in \in Split!Quotes
                BY <1>1, <2>2, <3>1, <4>1, <4>6, LiteralToken
            <4>. QED  BY <4>3, <4>4, <4>5, <4>6
        <3>. QED  BY <3>2, <3>3
    <2>3. CASE ~ Split!QuoteOnQuote /\ Doubling
        BY <1>1, <2>3, DoublingStep
    <2>5. CASE Escaping
        BY <1>1, <2>5, EscapingStep
    <2>4. CASE Over
        <3>1. calc.i = Len(calc.sql) + 2 /\ Len(calc.sql) \in Nat
            BY <1>3, <2>4 DEF Over
        <3>2. ~ (calc.i <= Len(calc.sql)) /\ calc.i # Len(calc.sql) + 1
            BY <3>1
        <3>. QED  BY <3>2 DEF Split!Next, Split!Reading, Split!Finish
    <2>. QED  BY <2>0, <2>1, <2>2, <2>3, <2>4, <2>5 DEF SplitInv
<1>. QED  BY <1>2, <1>4 DEF SplitInv, SameTexts

LEMMA SplitSameInv == ASSUME SplitInv, UNCHANGED calc PROVE SplitInv'
BY DEF SplitInv, Split!QuoteOnQuote, Split!EscapedBacktick, Between, Doubling, Escaping, Over, Agrees

\* Only at the end is the call over.
LEMMA SplitHolds == ASSUME SplitInv PROVE Split!StatementsAreMeant
<1>. SUFFICES ASSUME calc.i > Len(calc.sql) + 1, ~ Split!QuoteOnQuote, ~ Split!EscapedBacktick
              PROVE  calc.stmts = Split!Ended(Split!Last(calc.read))
    BY DEF Split!StatementsAreMeant
<1>1. /\ IsReading(calc.text, calc.read) /\ calc.sql = Before(calc.text, Len(calc.text))
    BY DEF SplitInv
<1>2. calc.text \in Seq(Seq(Chars)) /\ Len(calc.text) \in Nat /\ calc.sql \in Seq(Chars)
    BY <1>1, ReadingAt, TextIs
<1>3. PICK n \in Nat : n = Len(calc.sql)
    BY <1>2
<1>4. ~ Between
    <2>. SUFFICES ASSUME NEW k \in 0 .. Len(calc.text), calc.i = Len(Before(calc.text, k)) + 1 PROVE FALSE
        BY DEF Between
    <2>1. Len(Before(calc.text, k)) <= Len(Before(calc.text, Len(calc.text)))
        <3>1. Len(calc.text) \in k .. Len(calc.text)
            BY <1>2
        <3>. QED  BY <1>2, <3>1, BeforePrefix
    <2>2. Len(Before(calc.text, k)) \in Nat
        <3>1. CASE k = Len(calc.text)
            BY <1>1, <1>2, <3>1
        <3>2. CASE k # Len(calc.text)
            <4>1. k \in 0 .. Len(calc.text) - 1
                BY <1>2, <3>2
            <4>2. Before(calc.text, k) \in Seq(Chars)
                BY <1>2, <4>1, BeforeNext
            <4>. QED  BY <4>2
        <3>. QED  BY <3>1, <3>2
    <2>3. PICK b \in Nat : b = Len(Before(calc.text, k))
        BY <2>2
    <2>. QED  BY <1>1, <1>3, <2>1, <2>3
<1>5. ~ Doubling /\ ~ Escaping
    <2>. SUFFICES ASSUME NEW k \in 0 .. Len(calc.text) - 1, NEW q, calc.text[k + 1] = <<q, q>>,
                         calc.i = Len(Before(calc.text, k)) + 2
                  PROVE  FALSE
        BY DEF Doubling, Escaping
    <2>1. Len(calc.text[k + 1]) = 2
        BY Lengths
    <2>2. 1 \in 1 .. Len(calc.text[k + 1])
        BY <2>1
    <2>3. Len(Before(calc.text, k)) + Len(calc.text[k + 1]) <= Len(Before(calc.text, Len(calc.text)))
        BY <1>2, <2>2, CharAt
    <2>4. Before(calc.text, k) \in Seq(Chars)
        BY <1>2, BeforeNext
    <2>5. PICK b \in Nat : b = Len(Before(calc.text, k))
        BY <2>4
    <2>. QED  BY <1>1, <1>3, <2>1, <2>3, <2>5
<1>6. Over
    BY <1>4, <1>5 DEF SplitInv
<1>7. Split!Last(calc.read) = calc.read[Len(calc.text) + 1]
    <2>1. Len(calc.read) = Len(calc.text) + 1
        BY <1>1 DEF IsReading
    <2>. QED  BY <2>1 DEF Split!Last
<1>. QED  BY <1>6, <1>7 DEF Over

-----------------------------------------------------------------------------
(* A tree of steps                                                         *)

PlanFields == {"text", "cls", "indexesAt", "stack", "block", "tree"}
PlanLines == [text : {"none", "step", "value", "io", "stage", "processor", "indexes", "word"},
              indent : Nat, path : Seq(Nat), item : {"none", "value", "io", "indexes"}, entry : Nat]

\* Each line follows the one ahead of it.
Ahead(text, k) == IF k = 1 THEN Plan!Nothing ELSE text[k - 1]
IsPrinted(text) ==
    /\ text \in Seq(PlanLines)
    /\ \A k \in 1 .. Len(text) : text[k] \in Plan!Follows(Ahead(text, k), k)

\* What the first pass makes of a line, and where it then has a header open.
KindOf(line) ==
    IF line.text \in {"step", "io", "stage", "processor"} THEN line.text ELSE "attr"
HeaderAt(line) == IF line.item = "indexes" THEN Plan!BodyAt(line.path) ELSE -1

BlockOf(line, c) ==
    [owner |-> line.path[Len(line.path)], indent |-> Plan!BodyAt(line.path), current |-> c]

\* The passes are in step with what was printed: the stack is the path of the
\* line ahead, and a block that is open is the one that the line is in.
PlanInv ==
    /\ DOMAIN calc = PlanFields
    /\ IsPrinted(calc.text)
    /\ calc.cls \in Seq({"step", "io", "stage", "processor", "attr"}) /\ Len(calc.cls) <= Len(calc.text)
    /\ \A k \in 1 .. Len(calc.cls) : calc.cls[k] = KindOf(calc.text[k])
    /\ calc.indexesAt = HeaderAt(Ahead(calc.text, Len(calc.cls) + 1))
    /\ calc.tree \in Seq([part : Nat, entry : Nat]) /\ Len(calc.tree) <= Len(calc.text)
    /\ Plan!Classifying => calc.tree = <<>>
    /\ Plan!At <= Len(calc.text) => Plan!Current.text # "processor"
    /\ LET line == Ahead(calc.text, Plan!At)
       IN  /\ calc.stack = line.path
           /\ calc.block = {} \/ \E c \in Nat : calc.block = {BlockOf(line, c)}
           /\ line.item = "indexes" => calc.block = {BlockOf(line, line.entry)}
    /\ Plan!TreeIsMeant

\* The lines that may follow one.
StepLine(line, next, n) ==
    /\ next.text = "step" /\ next.item = "none" /\ next.entry = 0
    /\ \E d \in 0 .. Len(line.path) :
         /\ d = 0 => line.path = <<>>
         /\ next.indent = Plan!StepAt(d) /\ next.path = Append(SubSeq(line.path, 1, d), n)

ItemLine(line, next) ==
    /\ next.text \in {"value", "io", "indexes"} /\ next.item = next.text /\ next.entry = 0
    /\ next.indent = Plan!BodyAt(line.path) /\ next.path = line.path
    /\ line.path = <<>> => next.text = "value"

WorkLine(line, next) ==
    /\ line.item = "io" /\ next.item = "io" /\ next.entry = 0 /\ next.path = line.path
    /\ next.indent > Plan!BodyAt(line.path)
    /\ next.text = "stage" \/ (next.text = "processor" /\ line.text = "stage")

IndexLine(line, next, n) ==
    /\ line.item = "indexes" /\ next.item = "indexes" /\ next.path = line.path
    /\ next.indent > Plan!BodyAt(line.path)
    /\ \/ next.text = "word" /\ next.entry = n
       \/ next.text = "value" /\ next.entry = line.entry /\ line.entry # 0

LEMMA FollowsIs ==
    ASSUME NEW line \in PlanLines, NEW n \in Nat, NEW next \in Plan!Follows(line, n)
    PROVE  /\ next \in PlanLines
           /\ StepLine(line, next, n) \/ ItemLine(line, next) \/ WorkLine(line, next) \/ IndexLine(line, next, n)
<1>1. /\ DOMAIN line = {"text", "indent", "path", "item", "entry"}
      /\ line.path \in Seq(Nat) /\ Len(line.path) \in Nat /\ line.entry \in Nat
    BY DEF PlanLines
<1>2. PICK body \in Nat : body = Plan!BodyAt(line.path)
    BY <1>1 DEF Plan!BodyAt
<1>3. CASE next \in Plan!Steps(line, n)
    <2>1. PICK d \in IF line.path = <<>> THEN {0} ELSE 1 .. Len(line.path) :
            next = [text |-> "step", indent |-> Plan!StepAt(d), path |-> Append(SubSeq(line.path, 1, d), n),
                    item |-> "none", entry |-> 0]
        BY <1>3 DEF Plan!Steps
    <2>2. d \in 0 .. Len(line.path) /\ (d = 0 => line.path = <<>>)
        <3>1. CASE line.path = <<>>
            BY <1>1, <3>1
        <3>2. CASE line.path # <<>>
            BY <1>1, <3>2
        <3>. QED  BY <3>1, <3>2
    <2>3. SubSeq(line.path, 1, d) \in Seq(Nat)
        <3>1. \A i \in 1 .. d : line.path[i] \in Nat
            BY <1>1, <2>2
        <3>. QED  BY <2>2, <3>1, SubSeqProperties
    <2>4. Append(SubSeq(line.path, 1, d), n) \in Seq(Nat)
        BY <2>3
    <2>5. Plan!StepAt(d) \in Nat
        BY <2>2 DEF Plan!StepAt
    <2>6. StepLine(line, next, n)
        BY <2>1, <2>2 DEF StepLine
    <2>7. next \in PlanLines
        BY <2>1, <2>4, <2>5 DEF PlanLines
    <2>. QED  BY <2>6, <2>7
<1>4. CASE next \in Plan!Items(line)
    <2>1. PICK t \in IF line.path = <<>> THEN {"value"} ELSE {"value", "io", "indexes"} :
            next = [text |-> t, indent |-> body, path |-> line.path, item |-> t, entry |-> 0]
        BY <1>2, <1>4 DEF Plan!Items
    <2>2. next \in PlanLines
        BY <1>1, <2>1 DEF PlanLines
    <2>3. ItemLine(line, next)
        BY <1>2, <2>1 DEF ItemLine
    <2>. QED  BY <2>2, <2>3
<1>5. CASE next \in Plan!Details(line, n)
    <2>. DEFINE Detail(text, deeper, entry) ==
                    [line EXCEPT !.text = text, !.indent = body + deeper, !.entry = entry]
    <2>1. \/ line.item = "io" /\ next = Detail("stage", 2, 0)
          \/ line.item = "io" /\ line.text = "stage" /\ next = Detail("processor", 4, 0)
          \/ line.item = "indexes" /\ next = Detail("word", 2, n)
          \/ line.item = "indexes" /\ line.entry # 0 /\ next = Detail("value", 4, line.entry)
        BY <1>2, <1>5 DEF Plan!Details
    <2>2. ASSUME NEW text \in {"stage", "processor", "word", "value"}, NEW deeper \in {2, 4}, NEW entry \in Nat
          PROVE  LET d == Detail(text, deeper, entry)
                 IN  /\ d \in PlanLines /\ d.text = text /\ d.indent > body /\ d.entry = entry
                     /\ d.path = line.path /\ d.item = line.item
        <3>1. PICK indent \in Nat : indent = body + deeper /\ indent > body
            OBVIOUS
        <3>2. Detail(text, deeper, entry) = [line EXCEPT !.text = text, !.indent = indent, !.entry = entry]
            BY <3>1
        <3>. HIDE DEF Detail
        <3>. QED  BY <1>1, <3>1, <3>2 DEF PlanLines
    <2>3. PICK text \in {"stage", "processor", "word", "value"}, deeper \in {2, 4}, entry \in Nat :
            /\ next = Detail(text, deeper, entry)
            /\ \/ line.item = "io" /\ text = "stage" /\ entry = 0
               \/ line.item = "io" /\ line.text = "stage" /\ text = "processor" /\ entry = 0
               \/ line.item = "indexes" /\ text = "word" /\ entry = n
               \/ line.item = "indexes" /\ line.entry # 0 /\ text = "value" /\ entry = line.entry
        <3>. HIDE DEF Detail
        <3>. QED  BY <1>1, <2>1
    <2>. HIDE DEF Detail
    <2>4. /\ next \in PlanLines /\ next.text = text /\ next.indent > body /\ next.entry = entry
          /\ next.path = line.path /\ next.item = line.item
        BY <2>2, <2>3
    <2>5. WorkLine(line, next) \/ IndexLine(line, next, n)
        BY <1>2, <2>3, <2>4 DEF WorkLine, IndexLine
    <2>. QED  BY <2>4, <2>5
<1>. QED  BY <1>3, <1>4, <1>5 DEF Plan!Follows

LEMMA NothingIs == Plan!Nothing \in PlanLines
<1>. QED  BY EmptySeq DEF Plan!Nothing, PlanLines

\* A line of a text, and the one ahead of it.
LEMMA LineIs ==
    ASSUME NEW text, IsPrinted(text), NEW k \in 1 .. Len(text)
    PROVE  /\ text[k] \in PlanLines /\ Ahead(text, k) \in PlanLines /\ k \in Nat \ {0}
           /\ \/ StepLine(Ahead(text, k), text[k], k) \/ ItemLine(Ahead(text, k), text[k])
              \/ WorkLine(Ahead(text, k), text[k]) \/ IndexLine(Ahead(text, k), text[k], k)
<1>1. text \in Seq(PlanLines) /\ Len(text) \in Nat
    BY DEF IsPrinted
<1>2. Ahead(text, k) \in PlanLines
    <2>1. k = 1 \/ k - 1 \in 1 .. Len(text)
        BY <1>1
    <2>. QED  BY <1>1, <2>1, NothingIs DEF Ahead
<1>3. text[k] \in Plan!Follows(Ahead(text, k), k)
    BY DEF IsPrinted
<1>. QED  BY <1>1, <1>2, <1>3, FollowsIs

\* A path is of steps that were printed, each a level deeper than the one
\* before, and the details of an item are of a step.
Rooted(text, k) ==
    LET line == text[k] IN
    /\ \A i \in 1 .. Len(line.path) :
         line.path[i] \in 1 .. k /\ text[line.path[i]].indent = Plan!StepAt(i - 1)
    /\ line.item \in {"io", "indexes"} => line.path # <<>>

LEMMA PathUpto ==
    ASSUME NEW path \in Seq(Nat), NEW d \in 0 .. Len(path), NEW s, s = SubSeq(path, 1, d)
    PROVE  s \in Seq(Nat) /\ Len(s) = d /\ \A i \in 1 .. d : s[i] = path[i]
<1>. PICK n \in Int : n = d
    OBVIOUS
<1>1. \A i \in 1 .. n : path[i] \in Nat
    OBVIOUS
<1>2. /\ SubSeq(path, 1, n) \in Seq(Nat) /\ Len(SubSeq(path, 1, n)) = (IF 1 <= n THEN n - 1 + 1 ELSE 0)
      /\ \A i \in 1 .. n - 1 + 1 : SubSeq(path, 1, n)[i] = path[1 + i - 1]
    BY <1>1, SubSeqProperties
<1>3. s = SubSeq(path, 1, n)
    OBVIOUS
<1>4. /\ s \in Seq(Nat) /\ Len(s) = (IF 1 <= n THEN n - 1 + 1 ELSE 0)
      /\ \A i \in 1 .. n - 1 + 1 : s[i] = path[1 + i - 1]
    BY <1>2, <1>3
<1>5. n - 1 + 1 = n /\ \A i \in 1 .. n : 1 + i - 1 = i
    OBVIOUS
<1>6. Len(s) = n
    BY <1>4, <1>5
<1>7. \A i \in 1 .. n : s[i] = path[i]
    BY <1>4, <1>5
<1>. QED  BY <1>4, <1>6, <1>7

LEMMA Deeper ==
    ASSUME NEW path \in Seq(Nat), NEW d \in 0 .. Len(path), NEW n \in Nat,
           NEW p, p = Append(SubSeq(path, 1, d), n)
    PROVE  /\ p \in Seq(Nat) /\ Len(p) = d + 1 /\ p[d + 1] = n /\ p # <<>>
           /\ \A i \in 1 .. d : p[i] = path[i]
           /\ SubSeq(p, 1, Len(p) - 1) = SubSeq(path, 1, d)
<1>. PICK s : s = SubSeq(path, 1, d)
    OBVIOUS
<1>1. s \in Seq(Nat) /\ Len(s) = d /\ \A i \in 1 .. d : s[i] = path[i]
    BY PathUpto
<1>2. p = Append(s, n)
    OBVIOUS
<1>3. /\ p \in Seq(Nat) /\ Len(p) = Len(s) + 1 /\ p[Len(s) + 1] = n
      /\ \A i \in 1 .. Len(s) : p[i] = s[i]
    BY <1>1, <1>2, AppendProperties
<1>4. p # <<>>
    BY <1>1, <1>2, AppendProperties
<1>5. SubSeq(p, 1, d) = s
    <2>. PICK t : t = SubSeq(p, 1, d)
        OBVIOUS
    <2>1. d \in 0 .. Len(p)
        BY <1>1, <1>3
    <2>2. t \in Seq(Nat) /\ Len(t) = d /\ \A i \in 1 .. d : t[i] = p[i]
        BY <1>3, <2>1, PathUpto
    <2>3. Len(t) = Len(s) /\ \A i \in 1 .. Len(s) : t[i] = s[i]
        BY <1>1, <1>3, <2>2
    <2>4. t = s
        BY <1>1, <2>2, <2>3, SeqEqual
    <2>. QED  BY <2>4
<1>6. Len(p) - 1 = d
    BY <1>1, <1>3
<1>. QED  BY <1>1, <1>3, <1>4, <1>5, <1>6

LEMMA RootedAt ==
    ASSUME NEW text, IsPrinted(text), NEW k \in 1 .. Len(text)
    PROVE  Rooted(text, k)
<1>. DEFINE S == {n \in Nat : \A i \in 1 .. Len(text) : i <= n => Rooted(text, i)}
<1>0. text \in Seq(PlanLines) /\ Len(text) \in Nat
    BY DEF IsPrinted
<1>1. 0 \in S
    OBVIOUS
<1>2. ASSUME NEW n \in Nat, n \in S PROVE n + 1 \in S
    <2>. SUFFICES ASSUME n + 1 \in 1 .. Len(text) PROVE Rooted(text, n + 1)
        BY <1>0, <1>2
    <2>. PICK m \in 1 .. Len(text) : m = n + 1
        OBVIOUS
    <2>. PICK line \in PlanLines : line = Ahead(text, m)
        BY LineIs
    <2>. PICK next \in PlanLines : next = text[m]
        BY LineIs
    <2>1. StepLine(line, next, m) \/ ItemLine(line, next) \/ WorkLine(line, next) \/ IndexLine(line, next, m)
        BY LineIs
    <2>2. line.path \in Seq(Nat) /\ Len(line.path) \in Nat
        BY DEF PlanLines
    <2>3. /\ \A i \in 1 .. Len(line.path) :
               line.path[i] \in 1 .. n /\ text[line.path[i]].indent = Plan!StepAt(i - 1)
          /\ line.item \in {"io", "indexes"} => line.path # <<>>
        <3>1. CASE n = 0
            <4>1. line = Plan!Nothing
                BY <3>1 DEF Ahead
            <4>2. line.path = <<>> /\ line.item = "none"
                BY <4>1 DEF Plan!Nothing
            <4>. QED  BY <4>2
        <3>2. CASE n # 0
            <4>1. line = text[n] /\ n \in 1 .. Len(text)
                BY <1>0, <3>2 DEF Ahead
            <4>2. Rooted(text, n)
                BY <1>2, <4>1
            <4>. QED  BY <4>1, <4>2 DEF Rooted
        <3>. QED  BY <3>1, <3>2
    <2>4. CASE StepLine(line, next, m)
        <3>1. PICK d \in 0 .. Len(line.path) :
                /\ next.indent = Plan!StepAt(d) /\ next.path = Append(SubSeq(line.path, 1, d), m)
            BY <2>4 DEF StepLine
        <3>2. /\ Len(next.path) = d + 1 /\ next.path[d + 1] = m
              /\ \A i \in 1 .. d : next.path[i] = line.path[i]
            BY <2>2, <3>1, Deeper
        <3>3. ASSUME NEW i \in 1 .. Len(next.path)
              PROVE  next.path[i] \in 1 .. m /\ text[next.path[i]].indent = Plan!StepAt(i - 1)
            <4>1. CASE i = d + 1
                <5>1. i - 1 = d
                    BY <4>1
                <5>. QED  BY <3>1, <3>2, <4>1, <5>1
            <4>2. CASE i # d + 1
                <5>1. i \in 1 .. d /\ i \in 1 .. Len(line.path)
                    BY <3>2, <4>2
                <5>2. PICK x : x = line.path[i]
                    OBVIOUS
                <5>3. x \in 1 .. n /\ text[x].indent = Plan!StepAt(i - 1) /\ next.path[i] = x
                    BY <2>3, <3>2, <5>1, <5>2
                <5>4. x \in 1 .. m
                    BY <5>3
                <5>. QED  BY <5>3, <5>4
            <4>. QED  BY <4>1, <4>2
        <3>4. next.item = "none"
            BY <2>4 DEF StepLine
        <3>. QED  BY <3>3, <3>4 DEF Rooted
    <2>5. CASE ~ StepLine(line, next, m)
        <3>1. next.path = line.path
            BY <2>1, <2>5 DEF ItemLine, WorkLine, IndexLine
        <3>2. next.item \in {"io", "indexes"} => next.path # <<>>
            BY <2>1, <2>3, <2>5 DEF ItemLine, WorkLine, IndexLine
        <3>3. \A i \in 1 .. Len(next.path) :
                 next.path[i] \in 1 .. m /\ text[next.path[i]].indent = Plan!StepAt(i - 1)
            BY <2>3, <3>1
        <3>. QED  BY <3>2, <3>3 DEF Rooted
    <2>. QED  BY <2>4, <2>5
<1>3. k \in S
    <2>. HIDE DEF S
    <2>. QED  BY <1>0, <1>1, <1>2, SetInduction
<1>. QED  BY <1>3

LEMMA PlanMax ==
    ASSUME NEW S, NEW m \in S, S \subseteq Int, \A i \in S : i <= m
    PROVE  Plan!Max(S) = m
<1>1. \E z \in S : \A w \in S : z >= w
    OBVIOUS
<1>2. Plan!Max(S) \in S /\ \A w \in S : Plan!Max(S) >= w
    BY <1>1 DEF Plan!Max
<1>3. PICK x : x = Plan!Max(S)
    OBVIOUS
<1>4. x \in Int /\ m \in Int /\ x >= m /\ x <= m
    BY <1>2, <1>3
<1>5. x = m
    BY <1>4
<1>. QED  BY <1>3, <1>5

\* Popping to a depth leaves the path to the step that is there.
LEMMA PoppedIs ==
    ASSUME IsPrinted(calc.text), NEW path \in Seq(Nat),
           \A i \in 1 .. Len(path) : calc.text[path[i]].indent = Plan!StepAt(i - 1),
           NEW d \in 0 .. Len(path), d = 0 => path = <<>>
    PROVE  Plan!Popped(path, Plan!StepAt(d)) = SubSeq(path, 1, d)
<1>. DEFINE S == {0} \union {i \in DOMAIN path : calc.text[path[i]].indent < Plan!StepAt(d)}
<1>1. DOMAIN path = 1 .. Len(path) /\ Len(path) \in Nat
    OBVIOUS
<1>2. ASSUME NEW i \in 1 .. Len(path) PROVE (Plan!StepAt(i - 1) < Plan!StepAt(d)) <=> i <= d
    <2>1. d # 0
        BY <1>1
    <2>2. CASE i = 1
        BY <2>1, <2>2 DEF Plan!StepAt
    <2>3. CASE i # 1
        BY <2>1, <2>3 DEF Plan!StepAt
    <2>. QED  BY <2>2, <2>3
<1>3. S = 0 .. d
    <2>1. S \subseteq 0 .. d
        BY <1>1, <1>2
    <2>2. 0 .. d \subseteq S
        BY <1>1, <1>2
    <2>. QED  BY <2>1, <2>2
<1>4. Plan!Max(S) = d
    <2>. HIDE DEF S
    <2>1. d \in S /\ S \subseteq Int /\ \A i \in S : i <= d
        BY <1>3
    <2>. QED  BY <2>1, PlanMax
<1>. QED  BY <1>4 DEF Plan!Popped

\* What n lines print continues what n - 1 do.
Extended(F, n) ==
    IF n = 0 THEN {<<>>}
    ELSE UNION {{Append(text, l) : l \in Plan!Follows(Plan!LastLine(text), n)} : text \in F[n - 1]}

ArePrints(f) == f = [n \in 0 .. MaxPrinted |-> Extended(f, n)]

LEMMA PrintsIf ==
    ASSUME NEW F, \A n \in 0 .. MaxPrinted : F[n] = Extended(F, n)
    PROVE  \E f : ArePrints(f)
<1>. DEFINE f == [n \in 0 .. MaxPrinted |-> F[n]]
<1>1. ASSUME NEW n \in 0 .. MaxPrinted PROVE f[n] = Extended(f, n)
    <2>1. n = 0 \/ n - 1 \in 0 .. MaxPrinted
        BY PrintedAssumption
    <2>2. f[n] = F[n] /\ (n = 0 \/ f[n - 1] = F[n - 1])
        BY <2>1
    <2>. HIDE DEF f
    <2>3. Extended(f, n) = Extended(F, n)
        BY <2>2 DEF Extended
    <2>. QED  BY <2>2, <2>3
<1>2. f = [n \in 0 .. MaxPrinted |-> Extended(f, n)]
    BY <1>1
<1>3. ArePrints(f)
    <2>. HIDE DEF f
    <2>. QED  BY <1>2 DEF ArePrints
<1>. QED  BY <1>3

LEMMA PrintsExist == \E f : ArePrints(f)
<1>. DEFINE Upto(F, n) == \A i \in 0 .. MaxPrinted : i < n => F[i] = Extended(F, i)
            S == {n \in Nat : \E F : Upto(F, n)}
<1>1. 0 \in S
    OBVIOUS
<1>2. ASSUME NEW n \in Nat, n \in S PROVE n + 1 \in S
    <2>1. PICK F : Upto(F, n)
        BY <1>2
    <2>. DEFINE G == [i \in 0 .. MaxPrinted |-> IF i = n THEN Extended(F, i) ELSE F[i]]
    <2>2. ASSUME NEW i \in 0 .. MaxPrinted, i < n + 1 PROVE G[i] = Extended(G, i)
        <3>1. i = 0 \/ (i - 1 \in 0 .. MaxPrinted /\ i - 1 # n)
            BY <2>2, PrintedAssumption
        <3>2. i = 0 \/ G[i - 1] = F[i - 1]
            BY <3>1
        <3>3. G[i] = IF i = n THEN Extended(F, i) ELSE F[i]
            OBVIOUS
        <3>. HIDE DEF G
        <3>4. Extended(G, i) = Extended(F, i)
            BY <3>2 DEF Extended
        <3>5. i = n \/ F[i] = Extended(F, i)
            BY <2>1, <2>2
        <3>. QED  BY <3>3, <3>4, <3>5
    <2>3. Upto(G, n + 1)
        <3>. HIDE DEF G
        <3>. QED  BY <2>2
    <2>. HIDE DEF G, Upto
    <2>. QED  BY <2>3
<1>3. MaxPrinted + 1 \in S
    <2>. HIDE DEF S
    <2>. QED  BY <1>1, <1>2, SetInduction, PrintedAssumption
<1>4. PICK F : Upto(F, MaxPrinted + 1)
    BY <1>3
<1>5. \A i \in 0 .. MaxPrinted : i < MaxPrinted + 1
    BY PrintedAssumption
<1>. QED  BY <1>4, <1>5, PrintsIf

LEMMA PrintsAt ==
    ASSUME NEW n \in 0 .. MaxPrinted PROVE Plan!Prints[n] = Extended(Plan!Prints, n)
<1>1. Plan!Prints = CHOOSE f : ArePrints(f)
    BY DEF Plan!Prints, ArePrints, Extended
<1>2. ArePrints(Plan!Prints)
    BY <1>1, PrintsExist
<1>. DEFINE R == Plan!Prints
            h(k) == Extended(R, k)
<1>3. R = [k \in 0 .. MaxPrinted |-> h(k)]
    <2>1. R = [k \in 0 .. MaxPrinted |-> Extended(R, k)]
        <3>. HIDE DEF R
        <3>. QED  BY <1>2 DEF ArePrints, R
    <2>. QED  BY <2>1
<1>4. R[n] = h(n)
    <2>. HIDE DEF h, R
    <2>. QED  BY <1>3
<1>. QED  BY <1>4

LEMMA IsPrintedGrows ==
    ASSUME NEW text, IsPrinted(text), NEW n \in Nat, n = Len(text) + 1,
           NEW l \in Plan!Follows(Plan!LastLine(text), n)
    PROVE  IsPrinted(Append(text, l)) /\ Len(Append(text, l)) = n
<1>1. text \in Seq(PlanLines) /\ Len(text) \in Nat
    BY DEF IsPrinted
<1>2. Plan!LastLine(text) = Ahead(text, n)
    <2>1. CASE text = <<>>
        <3>1. n = 1
            BY <2>1
        <3>. QED  BY <2>1, <3>1 DEF Plan!LastLine, Ahead
    <2>2. CASE text # <<>>
        <3>1. n # 1 /\ n - 1 = Len(text)
            BY <1>1, <2>2
        <3>. QED  BY <2>2, <3>1 DEF Plan!LastLine, Plan!Last, Ahead
    <2>. QED  BY <2>1, <2>2
<1>3. Ahead(text, n) \in PlanLines
    <2>1. n = 1 \/ n - 1 \in 1 .. Len(text)
        BY <1>1
    <2>. QED  BY <1>1, <2>1, NothingIs DEF Ahead
<1>4. l \in PlanLines
    BY <1>2, <1>3, FollowsIs
<1>. PICK tt : tt = Append(text, l)
    OBVIOUS
<1>5. /\ tt \in Seq(PlanLines) /\ Len(tt) = Len(text) + 1 /\ tt[n] = l
      /\ \A i \in 1 .. Len(text) : tt[i] = text[i]
    BY <1>1, <1>4, AppendProperties
<1>6. ASSUME NEW i \in 1 .. Len(tt) PROVE tt[i] \in Plan!Follows(Ahead(tt, i), i)
    <2>1. Ahead(tt, i) = Ahead(text, i)
        <3>1. i = 1 \/ i - 1 \in 1 .. Len(text)
            BY <1>1, <1>5
        <3>. QED  BY <1>5, <3>1 DEF Ahead
    <2>2. CASE i = n
        BY <1>2, <1>5, <2>1, <2>2
    <2>3. CASE i # n
        <3>1. i \in 1 .. Len(text)
            BY <1>1, <1>5, <2>3
        <3>. QED  BY <1>5, <2>1, <3>1 DEF IsPrinted
    <2>. QED  BY <2>2, <2>3
<1>. QED  BY <1>5, <1>6 DEF IsPrinted

LEMMA PrintsAre ==
    ASSUME NEW n \in 0 .. MaxPrinted, NEW text \in Plan!Prints[n]
    PROVE  IsPrinted(text) /\ Len(text) = n
<1>. DEFINE S == {k \in Nat : k \in 0 .. MaxPrinted =>
                    \A t \in Plan!Prints[k] : IsPrinted(t) /\ Len(t) = k}
<1>1. 0 \in S
    <2>. SUFFICES ASSUME NEW t \in Plan!Prints[0], 0 \in 0 .. MaxPrinted PROVE IsPrinted(t) /\ Len(t) = 0
        OBVIOUS
    <2>1. t = <<>>
        BY PrintsAt DEF Extended
    <2>2. <<>> \in Seq(PlanLines) /\ Len(<<>>) = 0
        OBVIOUS
    <2>. QED  BY <2>1, <2>2 DEF IsPrinted
<1>2. ASSUME NEW k \in Nat, k \in S PROVE k + 1 \in S
    <2>. SUFFICES ASSUME NEW t \in Plan!Prints[k + 1], k + 1 \in 0 .. MaxPrinted
                  PROVE  IsPrinted(t) /\ Len(t) = k + 1
        OBVIOUS
    <2>1. k \in 0 .. MaxPrinted
        BY PrintedAssumption
    <2>. PICK x \in 0 .. MaxPrinted : x = k + 1
        OBVIOUS
    <2>2. t \in UNION {{Append(q, l) : l \in Plan!Follows(Plan!LastLine(q), x)} : q \in Plan!Prints[k]}
        <3>1. Plan!Prints[x] = Extended(Plan!Prints, x)
            BY PrintsAt
        <3>2. x # 0 /\ x - 1 = k /\ t \in Plan!Prints[x]
            OBVIOUS
        <3>3. Extended(Plan!Prints, x) =
                 UNION {{Append(q, l) : l \in Plan!Follows(Plan!LastLine(q), x)} : q \in Plan!Prints[x - 1]}
            BY <3>2 DEF Extended
        <3>. QED  BY <3>1, <3>2, <3>3, Zenon
    <2>. PICK q \in Plan!Prints[k] : t \in {Append(q, l) : l \in Plan!Follows(Plan!LastLine(q), x)}
        BY <2>2
    <2>. PICK l \in Plan!Follows(Plan!LastLine(q), x) : t = Append(q, l)
        OBVIOUS
    <2>3. IsPrinted(q) /\ Len(q) = k
        BY <1>2, <2>1
    <2>4. x \in Nat /\ x = Len(q) + 1
        BY <2>3
    <2>. QED  BY <2>3, <2>4, IsPrintedGrows
<1>3. n \in S
    <2>. HIDE DEF S
    <2>. QED  BY <1>1, <1>2, SetInduction
<1>. QED  BY <1>3

\* A processor line follows its stage.
LEMMA ProcessorFollows ==
    ASSUME NEW text, IsPrinted(text), NEW k \in 1 .. Len(text), text[k].text = "processor"
    PROVE  Ahead(text, k).text = "stage" /\ k # 1
<1>1. \/ StepLine(Ahead(text, k), text[k], k) \/ ItemLine(Ahead(text, k), text[k])
      \/ WorkLine(Ahead(text, k), text[k]) \/ IndexLine(Ahead(text, k), text[k], k)
    BY LineIs
<1>2. Ahead(text, k).text = "stage"
    BY <1>1 DEF StepLine, ItemLine, WorkLine, IndexLine
<1>3. k # 1
    BY <1>2 DEF Ahead, Plan!Nothing
<1>. QED  BY <1>2, <1>3

LEMMA PlanInitInv == ASSUME Plan!Init PROVE PlanInv
<1>. PICK n \in 0 .. MaxPrinted : \E text \in Plan!Prints[n] :
        calc = [text |-> text, cls |-> <<>>, indexesAt |-> -1,
                stack |-> <<>>, block |-> {}, tree |-> <<>>]
    BY DEF Plan!Init
<1>. PICK text \in Plan!Prints[n] :
        calc = [text |-> text, cls |-> <<>>, indexesAt |-> -1,
                stack |-> <<>>, block |-> {}, tree |-> <<>>]
    OBVIOUS
<1>1. IsPrinted(text) /\ text \in Seq(PlanLines) /\ Len(text) \in Nat
    BY PrintsAre DEF IsPrinted
<1>2. /\ DOMAIN calc = PlanFields /\ calc.text = text /\ calc.cls = <<>> /\ calc.indexesAt = -1
      /\ calc.stack = <<>> /\ calc.block = {} /\ calc.tree = <<>>
    BY DEF PlanFields
<1>3. /\ Len(calc.cls) = 0 /\ Len(calc.tree) = 0 /\ DOMAIN calc.tree = {} /\ Plan!At = 1
    BY <1>2 DEF Plan!At
<1>4. Plan!At <= Len(calc.text) => Plan!Current.text # "processor"
    <2>1. CASE Len(text) = 0
        BY <1>2, <1>3, <2>1
    <2>2. CASE Len(text) # 0
        <3>1. 1 \in 1 .. Len(text)
            BY <1>1, <2>2
        <3>2. text[1].text # "processor"
            BY <1>1, <3>1, ProcessorFollows
        <3>. QED  BY <1>2, <1>3, <3>2 DEF Plan!Current
    <2>. QED  BY <2>1, <2>2
<1>5. Ahead(calc.text, Len(calc.cls) + 1) = Plan!Nothing /\ Ahead(calc.text, Plan!At) = Plan!Nothing
    BY <1>3 DEF Ahead
<1>6. Plan!Nothing.path = <<>> /\ Plan!Nothing.item = "none"
    BY DEF Plan!Nothing
<1>7. calc.indexesAt = HeaderAt(Ahead(calc.text, Len(calc.cls) + 1))
    BY <1>2, <1>5, <1>6 DEF HeaderAt
<1>8. LET line == Ahead(calc.text, Plan!At)
      IN  /\ calc.stack = line.path
          /\ calc.block = {} \/ \E c \in Nat : calc.block = {BlockOf(line, c)}
          /\ line.item = "indexes" => calc.block = {BlockOf(line, line.entry)}
    BY <1>2, <1>5, <1>6
<1>9. Plan!TreeIsMeant
    BY <1>3 DEF Plan!TreeIsMeant
<1>10. /\ calc.cls \in Seq({"step", "io", "stage", "processor", "attr"}) /\ Len(calc.cls) <= Len(calc.text)
       /\ calc.tree \in Seq([part : Nat, entry : Nat]) /\ Len(calc.tree) <= Len(calc.text)
    BY <1>1, <1>2, <1>3
<1>11. \A k \in 1 .. Len(calc.cls) : calc.cls[k] = KindOf(calc.text[k])
    BY <1>3
<1>. QED  BY <1>1, <1>2, <1>4, <1>7, <1>8, <1>9, <1>10, <1>11 DEF PlanInv

\* The first pass takes a line for what it is.
LEMMA KindIs ==
    ASSUME NEW text, IsPrinted(text), NEW k \in 1 .. Len(text), NEW line, line = text[k],
           NEW at, at = HeaderAt(Ahead(text, k)),
           NEW open, open = IF line.indent <= at THEN -1 ELSE at
    PROVE  /\ Plan!Kind(line, open) = KindOf(line)
           /\ HeaderAt(line) = IF line.text = "indexes" THEN line.indent ELSE open
<1>. PICK above \in PlanLines : above = Ahead(text, k)
    BY LineIs
<1>1. /\ line \in PlanLines
      /\ StepLine(above, line, k) \/ ItemLine(above, line) \/ WorkLine(above, line) \/ IndexLine(above, line, k)
    BY LineIs
<1>2. line.indent \in Nat /\ Len(above.path) \in Nat /\ above.path \in Seq(Nat)
    BY <1>1 DEF PlanLines
<1>3. PICK body \in Nat : body = Plan!BodyAt(above.path) /\ body = 3 * Len(above.path)
    BY <1>2 DEF Plan!BodyAt
<1>4. at = IF above.item = "indexes" THEN body ELSE -1
    BY <1>3 DEF HeaderAt
<1>5. CASE StepLine(above, line, k)
    <2>1. line.indent <= body
        <3>1. PICK d \in 0 .. Len(above.path) : line.indent = Plan!StepAt(d)
            BY <1>5 DEF StepLine
        <3>. QED  BY <1>2, <1>3, <3>1 DEF Plan!StepAt
    <2>2. open = -1
        BY <1>2, <1>3, <1>4, <2>1
    <2>3. line.text = "step" /\ line.item = "none"
        BY <1>5 DEF StepLine
    <2>. QED  BY <2>2, <2>3 DEF Plan!Kind, KindOf, HeaderAt
<1>6. CASE ItemLine(above, line)
    <2>1. /\ line.text \in {"value", "io", "indexes"} /\ line.item = line.text
          /\ line.indent = body /\ line.path = above.path
        BY <1>3, <1>6 DEF ItemLine
    <2>2. open = -1
        BY <1>3, <1>4, <2>1
    <2>3. Plan!Kind(line, open) = KindOf(line)
        BY <2>1, <2>2 DEF Plan!Kind, KindOf
    <2>. QED  BY <1>3, <2>1, <2>2, <2>3 DEF HeaderAt
<1>7. CASE WorkLine(above, line)
    <2>1. above.item = "io" /\ line.item = "io" /\ line.text \in {"stage", "processor"}
        BY <1>7 DEF WorkLine
    <2>2. open = -1
        BY <1>4, <2>1
    <2>. QED  BY <2>1, <2>2 DEF Plan!Kind, KindOf, HeaderAt
<1>8. CASE IndexLine(above, line, k)
    <2>1. /\ above.item = "indexes" /\ line.item = "indexes" /\ line.path = above.path
          /\ line.indent > body /\ line.text \in {"word", "value"}
        BY <1>3, <1>8 DEF IndexLine
    <2>2. open = body /\ open # -1 /\ line.indent > open
        BY <1>2, <1>3, <1>4, <2>1
    <2>3. Plan!Kind(line, open) = KindOf(line)
        BY <2>1, <2>2 DEF Plan!Kind, KindOf
    <2>. QED  BY <1>3, <2>1, <2>2, <2>3 DEF HeaderAt
<1>. QED  BY <1>1, <1>5, <1>6, <1>7, <1>8

LEMMA ClassifyInv == ASSUME PlanInv, Plan!Classify PROVE PlanInv'
<1>. PICK text : text = calc.text
    OBVIOUS
<1>. PICK cls : cls = calc.cls
    OBVIOUS
<1>. PICK n : n = Len(cls) + 1
    OBVIOUS
<1>1. /\ DOMAIN calc = PlanFields /\ IsPrinted(text) /\ text \in Seq(PlanLines) /\ Len(text) \in Nat
      /\ cls \in Seq({"step", "io", "stage", "processor", "attr"}) /\ Len(cls) \in Nat
      /\ \A k \in 1 .. Len(cls) : cls[k] = KindOf(text[k])
      /\ calc.indexesAt = HeaderAt(Ahead(text, n))
    BY DEF PlanInv, IsPrinted
<1>2. n \in 1 .. Len(text) /\ n \in Nat \ {0} /\ Plan!Classifying
    BY <1>1 DEF Plan!Classify, Plan!Classifying
<1>. PICK line \in PlanLines : line = text[n]
    BY <1>1, <1>2, LineIs
<1>. PICK open : open = IF line.indent <= calc.indexesAt THEN -1 ELSE calc.indexesAt
    OBVIOUS
<1>3. /\ Plan!Kind(line, open) = KindOf(line)
      /\ HeaderAt(line) = IF line.text = "indexes" THEN line.indent ELSE open
    BY <1>1, <1>2, KindIs
<1>4. calc' = [calc EXCEPT !.cls = Append(@, KindOf(line)), !.indexesAt = HeaderAt(line)]
    BY <1>3 DEF Plan!Classify
<1>. PICK grown : grown = Append(cls, KindOf(line))
    OBVIOUS
<1>5. KindOf(line) \in {"step", "io", "stage", "processor", "attr"}
    BY DEF KindOf
<1>6. /\ grown \in Seq({"step", "io", "stage", "processor", "attr"})
      /\ Len(grown) = n /\ grown[n] = KindOf(line) /\ \A k \in 1 .. Len(cls) : grown[k] = cls[k]
    BY <1>1, <1>5, AppendProperties
<1>7. /\ DOMAIN calc' = PlanFields /\ calc'.text = text /\ calc'.cls = grown /\ calc'.indexesAt = HeaderAt(line)
      /\ calc'.stack = calc.stack /\ calc'.block = calc.block /\ calc'.tree = calc.tree
    BY <1>1, <1>4 DEF PlanFields
<1>8. \A k \in 1 .. Len(grown) : grown[k] = KindOf(text[k])
    <2>. TAKE k \in 1 .. Len(grown)
    <2>1. k = n \/ k \in 1 .. Len(cls)
        BY <1>1, <1>6
    <2>. QED  BY <1>1, <1>6, <2>1
<1>9. line = Ahead(text, Len(grown) + 1)
    BY <1>2, <1>6 DEF Ahead
<1>10. calc.tree = <<>> /\ Len(calc.tree) <= Len(text)
    BY <1>2 DEF PlanInv
<1>11. Plan!At' = Plan!At /\ Plan!Current' = Plan!Current
    BY <1>7 DEF Plan!At, Plan!Current
<1>12. /\ calc'.tree \in Seq([part : Nat, entry : Nat]) /\ Len(calc'.tree) <= Len(text)
       /\ Plan!At' <= Len(calc'.text) => Plan!Current'.text # "processor"
    BY <1>7, <1>11 DEF PlanInv
<1>13. LET above == Ahead(calc'.text, Plan!At')
       IN  /\ calc'.stack = above.path
           /\ calc'.block = {} \/ \E c \in Nat : calc'.block = {BlockOf(above, c)}
           /\ above.item = "indexes" => calc'.block = {BlockOf(above, above.entry)}
    BY <1>7, <1>11 DEF PlanInv
<1>14. Plan!TreeIsMeant'
    BY <1>7 DEF PlanInv, Plan!TreeIsMeant
<1>15. Plan!Classifying' => calc'.tree = <<>>
    BY <1>7, <1>10
<1>16. Len(grown) <= Len(text)
    BY <1>2, <1>6
<1>. QED  BY <1>1, <1>6, <1>7, <1>8, <1>9, <1>12, <1>13, <1>14, <1>15, <1>16 DEF PlanInv

\* What the second pass stands on: the line it is at, and the one ahead.
LEMMA BuildingIs ==
    ASSUME PlanInv, Plan!Building, NEW n, n = Plan!At, NEW line, line = Ahead(calc.text, n),
           NEW next, next = Plan!Current
    PROVE  /\ n \in 1 .. Len(calc.text) /\ n \in Nat \ {0} /\ n = Len(calc.tree) + 1
           /\ line \in PlanLines /\ next \in PlanLines /\ next = calc.text[n] /\ next.text # "processor"
           /\ calc.cls[n] = KindOf(next) /\ calc.stack = line.path
           /\ \/ StepLine(line, next, n) \/ ItemLine(line, next)
              \/ WorkLine(line, next) \/ IndexLine(line, next, n)
           /\ Len(calc.cls) = Len(calc.text)
<1>1. /\ IsPrinted(calc.text) /\ calc.text \in Seq(PlanLines) /\ Len(calc.text) \in Nat
      /\ Len(calc.cls) \in Nat /\ Len(calc.tree) \in Nat /\ Len(calc.cls) <= Len(calc.text)
    BY DEF PlanInv, IsPrinted
<1>2. n = Len(calc.tree) + 1 /\ n <= Len(calc.text) /\ ~ (Len(calc.cls) < Len(calc.text))
    BY DEF Plan!Building, Plan!At, Plan!Classifying
<1>3. n \in 1 .. Len(calc.text) /\ n \in Nat \ {0} /\ Len(calc.cls) = Len(calc.text)
    BY <1>1, <1>2
<1>4. next = calc.text[n]
    BY DEF Plan!Current
<1>5. /\ line \in PlanLines /\ next \in PlanLines
      /\ StepLine(line, next, n) \/ ItemLine(line, next) \/ WorkLine(line, next) \/ IndexLine(line, next, n)
    BY <1>1, <1>3, <1>4, LineIs
<1>6. next.text # "processor" /\ calc.stack = line.path
    BY <1>2 DEF PlanInv
<1>7. calc.cls[n] = KindOf(next)
    BY <1>3, <1>4 DEF PlanInv
<1>. QED  BY <1>2, <1>3, <1>4, <1>5, <1>6, <1>7

\* The tree so far is right, and stands for lines of the text.
RightUpto(tree, text) ==
    /\ tree \in Seq([part : Nat, entry : Nat])
    /\ \A k \in DOMAIN tree : tree[k] = Plan!Node(Plan!Above(text[k]), text[k].entry)

\* A line's own step is one that was printed.
LEMMA OwnerIs ==
    ASSUME NEW line \in PlanLines
    PROVE  /\ Plan!Above(line) \in Nat
           /\ line.text # "step" => Plan!Above(line) = IF line.path = <<>> THEN 0 ELSE line.path[Len(line.path)]
<1>1. line.path \in Seq(Nat)
    BY DEF PlanLines
<1>. DEFINE path == line.path
<1>2. ASSUME NEW p \in Seq(Nat) PROVE (IF p = <<>> THEN 0 ELSE Plan!Last(p)) \in Nat
    <2>1. p # <<>> => Len(p) \in 1 .. Len(p)
        OBVIOUS
    <2>. QED  BY <2>1 DEF Plan!Last
<1>3. CASE line.text = "step"
    <2>. PICK p : p = Plan!Front(line.path)
        OBVIOUS
    <2>1. p = SubSeq(line.path, 1, Len(line.path) - 1)
        BY DEF Plan!Front
    <2>2. p \in Seq(Nat)
        <3>1. CASE line.path = <<>>
            <4>1. p = <<>>
                BY <2>1, <3>1
            <4>. QED  BY <4>1
        <3>2. CASE line.path # <<>>
            <4>1. Len(line.path) - 1 \in 0 .. Len(line.path)
                BY <1>1, <3>2
            <4>. QED  BY <1>1, <2>1, <4>1, PathUpto
        <3>. QED  BY <3>1, <3>2
    <2>. QED  BY <1>2, <1>3, <2>2 DEF Plan!Above
<1>4. CASE line.text # "step"
    BY <1>1, <1>2, <1>4 DEF Plan!Above, Plan!Last
<1>. QED  BY <1>3, <1>4

LEMMA TreeGrows ==
    ASSUME NEW text \in Seq(PlanLines), NEW tree, RightUpto(tree, text), Len(tree) + 1 <= Len(text),
           NEW part, part = Plan!Above(text[Len(tree) + 1]), NEW entry, entry = text[Len(tree) + 1].entry
    PROVE  /\ RightUpto(Append(tree, Plan!Node(part, entry)), text)
           /\ Len(Append(tree, Plan!Node(part, entry))) = Len(tree) + 1
<1>. PICK node : node = Plan!Node(part, entry)
    OBVIOUS
<1>. PICK t : t = Append(tree, node)
    OBVIOUS
<1>1. tree \in Seq([part : Nat, entry : Nat]) /\ Len(tree) \in Nat /\ Len(text) \in Nat
    BY DEF RightUpto
<1>. PICK line : line = text[Len(tree) + 1]
    OBVIOUS
<1>2. line \in PlanLines
    BY <1>1
<1>3. node \in [part : Nat, entry : Nat]
    <2>1. Plan!Above(line) \in Nat /\ line.entry \in Nat
        BY <1>2, OwnerIs DEF PlanLines
    <2>. QED  BY <2>1 DEF Plan!Node
<1>4. /\ t \in Seq([part : Nat, entry : Nat]) /\ Len(t) = Len(tree) + 1 /\ t[Len(tree) + 1] = node
      /\ \A k \in 1 .. Len(tree) : t[k] = tree[k]
    BY <1>1, <1>3, AppendProperties
<1>5. ASSUME NEW k \in DOMAIN t PROVE t[k] = Plan!Node(Plan!Above(text[k]), text[k].entry)
    <2>1. k = Len(tree) + 1 \/ k \in 1 .. Len(tree)
        BY <1>1, <1>4
    <2>2. CASE k = Len(tree) + 1
        BY <1>4, <2>2
    <2>3. CASE k \in 1 .. Len(tree)
        BY <1>1, <1>4, <2>3 DEF RightUpto
    <2>. QED  BY <2>1, <2>2, <2>3
<1>. QED  BY <1>4, <1>5 DEF RightUpto

StandsFor(line, part, entry) == part = Plan!Above(line) /\ entry = line.entry

LEMMA TreeGrowsByTwo ==
    ASSUME NEW text \in Seq(PlanLines), NEW tree, RightUpto(tree, text), Len(tree) + 2 <= Len(text),
           NEW part, NEW entry,
           StandsFor(text[Len(tree) + 1], part, entry), StandsFor(text[Len(tree) + 2], part, entry)
    PROVE  /\ RightUpto(Append(Append(tree, Plan!Node(part, entry)), Plan!Node(part, entry)), text)
           /\ Len(Append(Append(tree, Plan!Node(part, entry)), Plan!Node(part, entry))) = Len(tree) + 2
<1>. PICK t : t = Append(tree, Plan!Node(part, entry))
    OBVIOUS
<1>1. Len(tree) \in Nat /\ Len(text) \in Nat
    BY DEF RightUpto
<1>2. RightUpto(t, text) /\ Len(t) = Len(tree) + 1
    <2>1. Len(tree) + 1 <= Len(text) /\ part = Plan!Above(text[Len(tree) + 1]) /\ entry = text[Len(tree) + 1].entry
        BY <1>1 DEF StandsFor
    <2>. QED  BY <2>1, TreeGrows
<1>3. Len(t) + 1 = Len(tree) + 2
    BY <1>1, <1>2
<1>4. /\ RightUpto(Append(t, Plan!Node(part, entry)), text)
      /\ Len(Append(t, Plan!Node(part, entry))) = Len(t) + 1
    <2>1. Len(t) + 1 <= Len(text) /\ part = Plan!Above(text[Len(t) + 1]) /\ entry = text[Len(t) + 1].entry
        BY <1>3 DEF StandsFor
    <2>. QED  BY <1>2, <2>1, TreeGrows
<1>. QED  BY <1>3, <1>4

\* A step of the second pass that reads on to a line.
ReadsOnTo(line) ==
    /\ DOMAIN calc' = PlanFields
    /\ calc'.text = calc.text /\ calc'.cls = calc.cls /\ calc'.indexesAt = calc.indexesAt
    /\ RightUpto(calc'.tree, calc.text)
    /\ Len(calc'.tree) \in 1 .. Len(calc.text) /\ line = calc.text[Len(calc'.tree)]
    /\ calc'.stack = line.path
    /\ calc'.block = {} \/ \E c \in Nat : calc'.block = {BlockOf(line, c)}
    /\ line.item = "indexes" => calc'.block = {BlockOf(line, line.entry)}
    /\ Len(calc'.tree) + 1 <= Len(calc.text) => calc.text[Len(calc'.tree) + 1].text # "processor"

LEMMA PlanMoves ==
    ASSUME PlanInv, Plan!Building, NEW line, ReadsOnTo(line)
    PROVE  PlanInv'
<1>. PICK n : n = Len(calc'.tree)
    OBVIOUS
<1>. PICK text : text = calc.text
    OBVIOUS
<1>1. /\ DOMAIN calc' = PlanFields /\ calc'.text = text /\ calc'.cls = calc.cls /\ calc'.indexesAt = calc.indexesAt
      /\ RightUpto(calc'.tree, text) /\ n \in 1 .. Len(text) /\ line = text[n]
    BY DEF ReadsOnTo
<1>2. n \in Nat \ {0} /\ text \in Seq(PlanLines) /\ Len(text) \in Nat
    BY <1>1 DEF PlanInv, IsPrinted
<1>3. Plan!At' = n + 1 /\ Plan!Current' = text[n + 1]
    BY <1>1 DEF Plan!At, Plan!Current
<1>4. Ahead(text, n + 1) = line
    BY <1>1, <1>2 DEF Ahead
<1>5. LET above == Ahead(calc'.text, Plan!At')
      IN  /\ calc'.stack = above.path
          /\ calc'.block = {} \/ \E c \in Nat : calc'.block = {BlockOf(above, c)}
          /\ above.item = "indexes" => calc'.block = {BlockOf(above, above.entry)}
    BY <1>1, <1>3, <1>4 DEF ReadsOnTo
<1>6. Plan!At' <= Len(calc'.text) => Plan!Current'.text # "processor"
    BY <1>1, <1>3 DEF ReadsOnTo
<1>7. ~ Plan!Classifying'
    BY <1>1 DEF Plan!Building, Plan!Classifying
<1>8. Plan!TreeIsMeant'
    BY <1>1 DEF RightUpto, Plan!TreeIsMeant
<1>9. calc'.tree \in Seq([part : Nat, entry : Nat]) /\ Len(calc'.tree) <= Len(text)
    BY <1>1, <1>2 DEF RightUpto
<1>10. /\ calc'.cls \in Seq({"step", "io", "stage", "processor", "attr"}) /\ Len(calc'.cls) <= Len(calc'.text)
       /\ \A k \in 1 .. Len(calc'.cls) : calc'.cls[k] = KindOf(calc'.text[k])
       /\ calc'.indexesAt = HeaderAt(Ahead(calc'.text, Len(calc'.cls) + 1))
    BY <1>1 DEF PlanInv
<1>11. IsPrinted(calc'.text)
    BY <1>1 DEF PlanInv
<1>. QED  BY <1>1, <1>5, <1>6, <1>7, <1>8, <1>9, <1>10, <1>11 DEF PlanInv

\* A line that is put into the tree by itself, under its step.
IsPut(part, entry) ==
    /\ DOMAIN calc' = PlanFields
    /\ calc'.text = calc.text /\ calc'.cls = calc.cls /\ calc'.indexesAt = calc.indexesAt
    /\ calc'.tree = Append(calc.tree, Plan!Node(part, entry))

LEMMA PlanPuts ==
    ASSUME PlanInv, Plan!Building, NEW line, line = Plan!Current, IsPut(Plan!Above(line), line.entry),
           calc'.stack = line.path,
           calc'.block = {} \/ \E c \in Nat : calc'.block = {BlockOf(line, c)},
           line.item = "indexes" => calc'.block = {BlockOf(line, line.entry)},
           \/ line.text # "stage"
           \/ Plan!At + 1 <= Len(calc.text) => calc.text[Plan!At + 1].text # "processor"
    PROVE  PlanInv'
<1>. PICK n : n = Plan!At
    OBVIOUS
<1>1. n \in 1 .. Len(calc.text) /\ n \in Nat \ {0} /\ n = Len(calc.tree) + 1 /\ line = calc.text[n]
    BY BuildingIs
<1>2. RightUpto(calc.tree, calc.text) /\ calc.text \in Seq(PlanLines) /\ Len(calc.text) \in Nat /\ IsPrinted(calc.text)
    <2>1. IsPrinted(calc.text) /\ calc.text \in Seq(PlanLines) /\ Len(calc.text) \in Nat
        BY DEF PlanInv, IsPrinted
    <2>2. Plan!TreeIsMeant /\ calc.tree \in Seq([part : Nat, entry : Nat])
        BY DEF PlanInv
    <2>. QED  BY <2>1, <2>2, Zenon DEF Plan!TreeIsMeant, RightUpto
<1>3. RightUpto(calc'.tree, calc.text) /\ Len(calc'.tree) = n
    <2>1. Len(calc.tree) + 1 <= Len(calc.text) /\ line = calc.text[Len(calc.tree) + 1]
        BY <1>1, <1>2
    <2>. PICK tree : tree = Append(calc.tree, Plan!Node(Plan!Above(line), line.entry))
        OBVIOUS
    <2>2. RightUpto(tree, calc.text) /\ Len(tree) = Len(calc.tree) + 1
        BY <1>2, <2>1, TreeGrows
    <2>3. calc'.tree = tree
        BY DEF IsPut
    <2>. QED  BY <1>1, <2>2, <2>3
<1>4. /\ DOMAIN calc' = PlanFields
      /\ calc'.text = calc.text /\ calc'.cls = calc.cls /\ calc'.indexesAt = calc.indexesAt
    BY DEF IsPut
<1>5. n + 1 <= Len(calc.text) => calc.text[n + 1].text # "processor"
    <2>. SUFFICES ASSUME n + 1 <= Len(calc.text), calc.text[n + 1].text = "processor" PROVE FALSE
        OBVIOUS
    <2>1. n + 1 \in 1 .. Len(calc.text)
        BY <1>1, <1>2
    <2>2. Ahead(calc.text, n + 1).text = "stage"
        BY <1>2, <2>1, ProcessorFollows
    <2>3. Ahead(calc.text, n + 1) = line
        BY <1>1 DEF Ahead
    <2>. QED  BY <2>2, <2>3
<1>6. ReadsOnTo(line)
    BY <1>1, <1>3, <1>4, <1>5 DEF ReadsOnTo
<1>. QED  BY <1>6, PlanMoves

\* The steps that the line ahead is under were printed, at their indents.
LEMMA AheadIsRooted ==
    ASSUME NEW text, IsPrinted(text), NEW n \in 1 .. Len(text), NEW line, line = Ahead(text, n)
    PROVE  /\ \A i \in 1 .. Len(line.path) : text[line.path[i]].indent = Plan!StepAt(i - 1)
           /\ line.item \in {"io", "indexes"} => line.path # <<>>
<1>1. CASE n = 1
    BY <1>1 DEF Ahead, Plan!Nothing
<1>2. CASE n # 1
    <2>1. n - 1 \in 1 .. Len(text) /\ line = text[n - 1]
        BY <1>2 DEF Ahead, IsPrinted
    <2>2. Rooted(text, n - 1)
        BY <2>1, RootedAt
    <2>. QED  BY <2>1, <2>2 DEF Rooted
<1>. QED  BY <1>1, <1>2

\* The step that holds the line ahead.
LEMMA HolderIs ==
    ASSUME NEW line \in PlanLines, calc.stack = line.path
    PROVE  /\ Plan!Owned <=> line.path # <<>>
           /\ Plan!Holder = line.path[Len(line.path)]
           /\ \A next \in PlanLines :
                next.text # "step" /\ next.path = line.path /\ Plan!Owned => Plan!Above(next) = Plan!Holder
<1>1. Plan!Owned <=> line.path # <<>>
    BY DEF Plan!Owned
<1>2. Plan!Holder = line.path[Len(line.path)]
    BY DEF Plan!Holder, Plan!Last
<1>. QED  BY <1>1, <1>2, OwnerIs

\* What is still open where a line stands.
LEMMA InsideIs ==
    ASSUME PlanInv, NEW line \in PlanLines, line = Ahead(calc.text, Plan!At), NEW next \in PlanLines, next = Plan!Current
    PROVE  /\ ItemLine(line, next) => Plan!Inside = {}
           /\ next.indent > Plan!BodyAt(line.path) /\ line.item = "indexes" =>
                /\ Plan!Inside = {BlockOf(line, line.entry)}
                /\ calc.block = {BlockOf(line, line.entry)}
<1>1. /\ calc.stack = line.path
      /\ calc.block = {} \/ \E c \in Nat : calc.block = {BlockOf(line, c)}
      /\ line.item = "indexes" => calc.block = {BlockOf(line, line.entry)}
    BY DEF PlanInv
<1>2. Plan!Holder = line.path[Len(line.path)]
    <2>1. calc.stack = line.path
        BY <1>1
    <2>. QED  BY <2>1 DEF Plan!Holder, Plan!Last
<1>. PICK body \in Nat : body = Plan!BodyAt(line.path)
    BY DEF Plan!BodyAt, PlanLines
<1>3. \A c : BlockOf(line, c).indent = body /\ BlockOf(line, c).owner = Plan!Holder
    BY <1>2 DEF BlockOf
<1>4. ASSUME ItemLine(line, next) PROVE Plan!Inside = {}
    <2>1. next.indent = body
        BY <1>4 DEF ItemLine
    <2>2. \A b \in calc.block : b.indent = body
        BY <1>1, <1>3
    <2>3. ~ body > body
        OBVIOUS
    <2>. QED  BY <2>1, <2>2, <2>3 DEF Plan!Inside
<1>5. ASSUME next.indent > body, line.item = "indexes"
      PROVE  Plan!Inside = {BlockOf(line, line.entry)} /\ calc.block = {BlockOf(line, line.entry)}
    BY <1>1, <1>3, <1>5 DEF Plan!Inside
<1>. QED  BY <1>4, <1>5

LEMMA StepInv == ASSUME PlanInv, Plan!Step PROVE PlanInv'
<1>. PICK n : n = Plan!At
    OBVIOUS
<1>. PICK line : line = Ahead(calc.text, n)
    OBVIOUS
<1>. PICK next : next = Plan!Current
    OBVIOUS
<1>0. Plan!Building /\ IsPrinted(calc.text)
    BY DEF Plan!Step, PlanInv
<1>1. /\ n \in 1 .. Len(calc.text) /\ n \in Nat \ {0} /\ n = Len(calc.tree) + 1
      /\ line \in PlanLines /\ next \in PlanLines /\ next = calc.text[n]
      /\ calc.cls[n] = KindOf(next) /\ calc.stack = line.path
      /\ StepLine(line, next, n) \/ ItemLine(line, next) \/ WorkLine(line, next) \/ IndexLine(line, next, n)
    BY <1>0, BuildingIs
<1>2. next.text = "step"
    BY <1>1 DEF Plan!Step, KindOf
<1>3. StepLine(line, next, n)
    BY <1>1, <1>2 DEF ItemLine, WorkLine, IndexLine
<1>4. PICK d \in 0 .. Len(line.path) :
        /\ d = 0 => line.path = <<>>
        /\ next.indent = Plan!StepAt(d) /\ next.path = Append(SubSeq(line.path, 1, d), n)
    BY <1>3 DEF StepLine
<1>. PICK above : above = SubSeq(line.path, 1, d)
    OBVIOUS
<1>5. line.path \in Seq(Nat)
    BY <1>1 DEF PlanLines
<1>6. SubSeq(next.path, 1, Len(next.path) - 1) = above
    <2>1. n \in Nat
        BY <1>1
    <2>. QED  BY <1>4, <1>5, <2>1, Deeper
<1>7. Plan!Popped(calc.stack, next.indent) = above
    <2>1. \A i \in 1 .. Len(line.path) : calc.text[line.path[i]].indent = Plan!StepAt(i - 1)
        <3>1. n \in 1 .. Len(calc.text)
            BY <1>1
        <3>. QED  BY <1>0, <3>1, AheadIsRooted
    <2>2. Plan!Popped(line.path, Plan!StepAt(d)) = above
        BY <1>0, <1>4, <1>5, <2>1, PoppedIs
    <2>. QED  BY <1>1, <1>4, <2>2
<1>8. Plan!Above(next) = IF above = <<>> THEN 0 ELSE Plan!Last(above)
    BY <1>2, <1>6 DEF Plan!Above, Plan!Front
<1>. PICK tree : tree = Append(calc.tree, Plan!Node(Plan!Above(next), 0))
    OBVIOUS
<1>9. calc' = [[calc EXCEPT !.tree = tree] EXCEPT !.stack = Append(above, n), !.block = {}]
    BY <1>7, <1>8 DEF Plan!Step, Plan!Put
<1>10. DOMAIN calc = PlanFields
    BY DEF PlanInv
<1>11. /\ DOMAIN calc' = PlanFields
       /\ calc'.text = calc.text /\ calc'.cls = calc.cls /\ calc'.indexesAt = calc.indexesAt
       /\ calc'.tree = tree /\ calc'.stack = Append(above, n) /\ calc'.block = {}
    BY <1>9, <1>10 DEF PlanFields
<1>12. next.entry = 0 /\ next.item = "none"
    BY <1>3 DEF StepLine
<1>13. IsPut(Plan!Above(next), next.entry)
    BY <1>11, <1>12 DEF IsPut
<1>14. calc'.stack = next.path /\ next.text # "stage"
    BY <1>2, <1>4, <1>11
<1>. QED  BY <1>0, <1>11, <1>12, <1>13, <1>14, PlanPuts

LEMMA StrayInv == ASSUME PlanInv, Plan!Stray PROVE PlanInv'
<1>. PICK n : n = Plan!At
    OBVIOUS
<1>. PICK line : line = Ahead(calc.text, n)
    OBVIOUS
<1>. PICK next : next = Plan!Current
    OBVIOUS
<1>0. Plan!Building /\ IsPrinted(calc.text)
    BY DEF Plan!Stray, PlanInv
<1>1. /\ n \in 1 .. Len(calc.text) /\ n \in Nat \ {0} /\ n = Len(calc.tree) + 1
      /\ line \in PlanLines /\ next \in PlanLines /\ next = calc.text[n] /\ next.text # "processor"
      /\ calc.cls[n] = KindOf(next) /\ calc.stack = line.path
      /\ StepLine(line, next, n) \/ ItemLine(line, next) \/ WorkLine(line, next) \/ IndexLine(line, next, n)
    BY <1>0, BuildingIs
<1>2. KindOf(next) # "step" /\ KindOf(next) # "processor"
    BY <1>1 DEF Plan!Stray, KindOf
<1>3. line.path = <<>>
    BY <1>1, <1>2, HolderIs DEF Plan!Stray
<1>4. ItemLine(line, next)
    <2>1. ~ StepLine(line, next, n)
        BY <1>2 DEF StepLine, KindOf
    <2>2. line.item \notin {"io", "indexes"}
        BY <1>0, <1>1, <1>3, AheadIsRooted
    <2>. QED  BY <1>1, <2>1, <2>2 DEF WorkLine, IndexLine
<1>5. next.text = "value" /\ next.item = "value" /\ next.entry = 0 /\ next.path = line.path
    BY <1>3, <1>4 DEF ItemLine
<1>6. Plan!Above(next) = 0
    BY <1>1, <1>3, <1>5, OwnerIs
<1>. PICK tree : tree = Append(calc.tree, Plan!Node(0, 0))
    OBVIOUS
<1>7. calc' = [calc EXCEPT !.tree = tree] /\ DOMAIN calc = PlanFields
    BY DEF Plan!Stray, Plan!Put, PlanInv
<1>8. /\ DOMAIN calc' = PlanFields
      /\ calc'.text = calc.text /\ calc'.cls = calc.cls /\ calc'.indexesAt = calc.indexesAt
      /\ calc'.tree = tree /\ calc'.stack = calc.stack /\ calc'.block = calc.block
    BY <1>7 DEF PlanFields
<1>9. IsPut(Plan!Above(next), next.entry)
    BY <1>5, <1>6, <1>8 DEF IsPut
<1>10. calc'.block = {} \/ \E c \in Nat : calc'.block = {BlockOf(next, c)}
    <2>1. calc.block = {} \/ \E c \in Nat : calc.block = {BlockOf(line, c)}
        BY DEF PlanInv
    <2>2. \A c : BlockOf(line, c) = BlockOf(next, c)
        BY <1>5 DEF BlockOf
    <2>. QED  BY <1>8, <2>1, <2>2
<1>11. calc'.stack = next.path
    BY <1>1, <1>5, <1>8
<1>. QED  BY <1>0, <1>5, <1>9, <1>10, <1>11, PlanPuts

LEMMA WorkInv == ASSUME PlanInv, Plan!Work PROVE PlanInv'
<1>. PICK n : n = Plan!At
    OBVIOUS
<1>. PICK line : line = Ahead(calc.text, n)
    OBVIOUS
<1>. PICK next : next = Plan!Current
    OBVIOUS
<1>0. Plan!Building /\ Plan!Owned
    BY DEF Plan!Work
<1>1. /\ n \in 1 .. Len(calc.text) /\ n \in Nat \ {0}
      /\ line \in PlanLines /\ next \in PlanLines /\ next = calc.text[n]
      /\ calc.cls[n] = KindOf(next) /\ calc.stack = line.path
      /\ StepLine(line, next, n) \/ ItemLine(line, next) \/ WorkLine(line, next) \/ IndexLine(line, next, n)
    BY <1>0, BuildingIs
<1>2. next.text = "io"
    BY <1>1 DEF Plan!Work, KindOf
<1>3. next.item = "io" /\ next.entry = 0 /\ next.path = line.path
    BY <1>1, <1>2 DEF StepLine, ItemLine, WorkLine, IndexLine
<1>4. Plan!Above(next) = Plan!Holder
    BY <1>0, <1>1, <1>2, <1>3, HolderIs
<1>. PICK tree : tree = Append(calc.tree, Plan!Node(Plan!Holder, 0))
    OBVIOUS
<1>5. calc' = [calc EXCEPT !.tree = tree] /\ DOMAIN calc = PlanFields
    BY DEF Plan!Work, Plan!Put, PlanInv
<1>6. /\ DOMAIN calc' = PlanFields
      /\ calc'.text = calc.text /\ calc'.cls = calc.cls /\ calc'.indexesAt = calc.indexesAt
      /\ calc'.tree = tree /\ calc'.stack = calc.stack /\ calc'.block = calc.block
    BY <1>5 DEF PlanFields
<1>7. IsPut(Plan!Above(next), next.entry)
    BY <1>3, <1>4, <1>6 DEF IsPut
<1>8. calc'.block = {} \/ \E c \in Nat : calc'.block = {BlockOf(next, c)}
    <2>1. calc.block = {} \/ \E c \in Nat : calc.block = {BlockOf(line, c)}
        BY DEF PlanInv
    <2>2. \A c : BlockOf(line, c) = BlockOf(next, c)
        BY <1>3 DEF BlockOf
    <2>. QED  BY <1>6, <2>1, <2>2
<1>9. calc'.stack = next.path
    BY <1>1, <1>3, <1>6
<1>. QED  BY <1>0, <1>2, <1>3, <1>7, <1>8, <1>9, PlanPuts

\* A line of the first pass's attributes is an item's, or of the indexes.
LEMMA AttrLine ==
    ASSUME PlanInv, Plan!Attr, NEW n, n = Plan!At, NEW line, line = Ahead(calc.text, n),
           NEW next, next = Plan!Current
    PROVE  /\ Plan!Building /\ Plan!Owned /\ n \in Nat /\ line \in PlanLines /\ next \in PlanLines
           /\ calc.stack = line.path /\ next.path = line.path
           /\ Plan!Above(next) = Plan!Holder
           /\ next.text \in {"value", "indexes", "word"}
           /\ ItemLine(line, next) \/ IndexLine(line, next, n)
<1>0. Plan!Building /\ Plan!Owned
    BY DEF Plan!Attr
<1>1. /\ n \in 1 .. Len(calc.text) /\ n \in Nat \ {0}
      /\ line \in PlanLines /\ next \in PlanLines
      /\ calc.cls[n] = KindOf(next) /\ calc.stack = line.path
      /\ StepLine(line, next, n) \/ ItemLine(line, next) \/ WorkLine(line, next) \/ IndexLine(line, next, n)
    BY <1>0, BuildingIs
<1>2. next.text \notin {"step", "io", "stage", "processor"}
    BY <1>1 DEF Plan!Attr, KindOf
<1>3. ItemLine(line, next) \/ IndexLine(line, next, n)
    BY <1>1, <1>2 DEF StepLine, WorkLine
<1>4. next.text \in {"value", "indexes", "word"} /\ next.path = line.path
    BY <1>2, <1>3 DEF ItemLine, IndexLine
<1>5. Plan!Above(next) = Plan!Holder
    BY <1>0, <1>1, <1>4, HolderIs
<1>. QED  BY <1>0, <1>1, <1>3, <1>4, <1>5

LEMMA IndexesHeaderInv == ASSUME PlanInv, Plan!IndexesHeader PROVE PlanInv'
<1>. PICK n : n = Plan!At
    OBVIOUS
<1>. PICK line : line = Ahead(calc.text, n)
    OBVIOUS
<1>. PICK next : next = Plan!Current
    OBVIOUS
<1>0. Plan!Attr /\ next.text = "indexes"
    BY DEF Plan!IndexesHeader
<1>1. /\ Plan!Building /\ n \in Nat /\ line \in PlanLines /\ next \in PlanLines
      /\ calc.stack = line.path /\ next.path = line.path /\ Plan!Above(next) = Plan!Holder
      /\ ItemLine(line, next) \/ IndexLine(line, next, n)
    BY <1>0, AttrLine
<1>2. next.item = "indexes" /\ next.entry = 0 /\ next.indent = Plan!BodyAt(next.path)
    BY <1>0, <1>1 DEF ItemLine, IndexLine
<1>3. [owner |-> Plan!Holder, indent |-> next.indent, current |-> 0] = BlockOf(next, 0)
    <2>1. Plan!Holder = next.path[Len(next.path)]
        <3>1. calc.stack = next.path
            BY <1>1
        <3>. QED  BY <3>1 DEF Plan!Holder, Plan!Last
    <2>. QED  BY <1>2, <2>1 DEF BlockOf
<1>. PICK tree : tree = Append(calc.tree, Plan!Node(Plan!Holder, 0))
    OBVIOUS
<1>4. calc' = [[calc EXCEPT !.tree = tree] EXCEPT !.block = {BlockOf(next, 0)}] /\ DOMAIN calc = PlanFields
    BY <1>3 DEF Plan!IndexesHeader, Plan!Put, PlanInv
<1>5. /\ DOMAIN calc' = PlanFields
      /\ calc'.text = calc.text /\ calc'.cls = calc.cls /\ calc'.indexesAt = calc.indexesAt
      /\ calc'.tree = tree /\ calc'.stack = calc.stack /\ calc'.block = {BlockOf(next, 0)}
    BY <1>4 DEF PlanFields
<1>6. IsPut(Plan!Above(next), next.entry)
    BY <1>1, <1>2, <1>5 DEF IsPut
<1>7. calc'.stack = next.path /\ calc'.block = {BlockOf(next, next.entry)} /\ next.entry \in Nat
    BY <1>1, <1>2, <1>5
<1>. QED  BY <1>0, <1>1, <1>6, <1>7, PlanPuts

\* A block is the same for all that it holds.
LEMMA BlockSame ==
    ASSUME NEW line, NEW next, next.path = line.path, NEW c PROVE BlockOf(next, c) = BlockOf(line, c)
BY DEF BlockOf

LEMMA IndexEntryInv == ASSUME PlanInv, Plan!IndexEntry PROVE PlanInv'
<1>. PICK n : n = Plan!At
    OBVIOUS
<1>. PICK line : line = Ahead(calc.text, n)
    OBVIOUS
<1>. PICK next : next = Plan!Current
    OBVIOUS
<1>0. Plan!Attr /\ next.text = "word"
    BY DEF Plan!IndexEntry
<1>1. /\ Plan!Building /\ n \in Nat /\ line \in PlanLines /\ next \in PlanLines
      /\ calc.stack = line.path /\ next.path = line.path /\ Plan!Above(next) = Plan!Holder
      /\ ItemLine(line, next) \/ IndexLine(line, next, n)
    BY <1>0, AttrLine
<1>2. IndexLine(line, next, n)
    BY <1>0, <1>1 DEF ItemLine
<1>3. next.item = "indexes" /\ line.item = "indexes" /\ next.entry = n /\ next.indent > Plan!BodyAt(line.path)
    BY <1>0, <1>2 DEF IndexLine
<1>4. calc.block = {BlockOf(line, line.entry)}
    BY <1>1, <1>3, InsideIs
<1>5. {[b EXCEPT !.current = n] : b \in calc.block} = {BlockOf(next, n)}
    <2>1. [BlockOf(line, line.entry) EXCEPT !.current = n] = BlockOf(line, n)
        BY DEF BlockOf
    <2>2. BlockOf(line, n) = BlockOf(next, n)
        BY <1>1, BlockSame
    <2>. QED  BY <1>4, <2>1, <2>2
<1>. PICK tree : tree = Append(calc.tree, Plan!Node(Plan!Holder, n))
    OBVIOUS
<1>. PICK block : block = {[b EXCEPT !.current = n] : b \in calc.block}
    OBVIOUS
<1>6. calc' = [[calc EXCEPT !.tree = tree] EXCEPT !.block = block] /\ DOMAIN calc = PlanFields
    <2>1. calc' = [Plan!Put(calc, Plan!Holder, n) EXCEPT !.block = {[b EXCEPT !.current = n] : b \in @}]
        BY DEF Plan!IndexEntry
    <2>2. Plan!Put(calc, Plan!Holder, n) = [calc EXCEPT !.tree = tree] /\ DOMAIN calc = PlanFields
        BY DEF Plan!Put, PlanInv
    <2>. PICK put : put = [calc EXCEPT !.tree = tree]
        OBVIOUS
    <2>3. put.block = calc.block
        BY <2>2 DEF PlanFields
    <2>4. calc' = [put EXCEPT !.block = {[b EXCEPT !.current = n] : b \in put.block}]
        BY <2>1, <2>2
    <2>5. calc' = [put EXCEPT !.block = block]
        BY <2>3, <2>4
    <2>. QED  BY <2>2, <2>5
<1>7. /\ DOMAIN calc' = PlanFields
      /\ calc'.text = calc.text /\ calc'.cls = calc.cls /\ calc'.indexesAt = calc.indexesAt
      /\ calc'.tree = tree /\ calc'.stack = calc.stack /\ calc'.block = block
    BY <1>6 DEF PlanFields
<1>8. IsPut(Plan!Above(next), next.entry)
    BY <1>1, <1>3, <1>7 DEF IsPut
<1>9. calc'.stack = next.path /\ calc'.block = {BlockOf(next, next.entry)} /\ next.entry \in Nat
    BY <1>1, <1>3, <1>5, <1>7
<1>. QED  BY <1>0, <1>1, <1>8, <1>9, PlanPuts

LEMMA IndexValueInv == ASSUME PlanInv, Plan!IndexValue PROVE PlanInv'
<1>. PICK n : n = Plan!At
    OBVIOUS
<1>. PICK line : line = Ahead(calc.text, n)
    OBVIOUS
<1>. PICK next : next = Plan!Current
    OBVIOUS
<1>0. Plan!Attr /\ next.text \notin {"indexes", "word"}
    BY DEF Plan!IndexValue
<1>1. /\ Plan!Building /\ n \in Nat /\ line \in PlanLines /\ next \in PlanLines
      /\ calc.stack = line.path /\ next.path = line.path /\ Plan!Above(next) = Plan!Holder
      /\ next.text \in {"value", "indexes", "word"}
      /\ ItemLine(line, next) \/ IndexLine(line, next, n)
    BY <1>0, AttrLine
<1>2. PICK b \in Plan!Inside : b.current # 0 /\ calc' = Plan!Put(calc, Plan!Holder, b.current)
    BY DEF Plan!IndexValue
<1>3. IndexLine(line, next, n)
    <2>1. ItemLine(line, next) => Plan!Inside = {}
        BY <1>1, InsideIs
    <2>. QED  BY <1>1, <1>2, <2>1
<1>4. /\ next.item = "indexes" /\ line.item = "indexes" /\ next.entry = line.entry
      /\ next.indent > Plan!BodyAt(line.path)
    BY <1>0, <1>1, <1>3 DEF IndexLine
<1>5. calc.block = {BlockOf(line, line.entry)} /\ b = BlockOf(line, line.entry)
    BY <1>1, <1>2, <1>4, InsideIs
<1>6. b.current = next.entry
    BY <1>4, <1>5 DEF BlockOf
<1>. PICK tree : tree = Append(calc.tree, Plan!Node(Plan!Holder, next.entry))
    OBVIOUS
<1>7. calc' = [calc EXCEPT !.tree = tree] /\ DOMAIN calc = PlanFields
    <2>1. calc' = Plan!Put(calc, Plan!Holder, next.entry)
        BY <1>2, <1>6
    <2>. QED  BY <2>1 DEF Plan!Put, PlanInv
<1>8. /\ DOMAIN calc' = PlanFields
      /\ calc'.text = calc.text /\ calc'.cls = calc.cls /\ calc'.indexesAt = calc.indexesAt
      /\ calc'.tree = tree /\ calc'.stack = calc.stack /\ calc'.block = calc.block
    BY <1>7 DEF PlanFields
<1>9. IsPut(Plan!Above(next), next.entry)
    BY <1>1, <1>8 DEF IsPut
<1>10. calc'.stack = next.path /\ calc'.block = {BlockOf(next, next.entry)} /\ next.entry \in Nat
    <2>1. BlockOf(next, next.entry) = BlockOf(line, line.entry)
        BY <1>1, <1>4, BlockSame
    <2>2. next.entry \in Nat
        BY <1>1 DEF PlanLines
    <2>. QED  BY <1>1, <1>5, <1>8, <2>1, <2>2
<1>. QED  BY <1>0, <1>1, <1>9, <1>10, PlanPuts

LEMMA AttributeInv == ASSUME PlanInv, Plan!Attribute PROVE PlanInv'
<1>. PICK n : n = Plan!At
    OBVIOUS
<1>. PICK line : line = Ahead(calc.text, n)
    OBVIOUS
<1>. PICK next : next = Plan!Current
    OBVIOUS
<1>0. Plan!Attr /\ next.text # "indexes" /\ \A b \in Plan!Inside : b.current = 0 /\ next.text # "word"
    BY DEF Plan!Attribute
<1>1. /\ Plan!Building /\ n \in Nat /\ line \in PlanLines /\ next \in PlanLines
      /\ calc.stack = line.path /\ next.path = line.path /\ Plan!Above(next) = Plan!Holder
      /\ next.text \in {"value", "indexes", "word"}
      /\ ItemLine(line, next) \/ IndexLine(line, next, n)
    BY <1>0, AttrLine
<1>2. ItemLine(line, next)
    <2>. SUFFICES ASSUME IndexLine(line, next, n) PROVE FALSE
        BY <1>1
    <2>1. line.item = "indexes" /\ next.indent > Plan!BodyAt(line.path)
        BY DEF IndexLine
    <2>2. BlockOf(line, line.entry) \in Plan!Inside
        BY <1>1, <2>1, InsideIs
    <2>3. BlockOf(line, line.entry).current = line.entry
        BY DEF BlockOf
    <2>4. line.entry = 0 /\ next.text # "word"
        BY <1>0, <2>2, <2>3
    <2>. QED  BY <2>4 DEF IndexLine
<1>3. Plan!Inside = {}
    BY <1>1, <1>2, InsideIs
<1>4. next.item # "indexes" /\ next.entry = 0 /\ next.text # "stage"
    BY <1>0, <1>2 DEF ItemLine
<1>. PICK tree : tree = Append(calc.tree, Plan!Node(Plan!Holder, 0))
    OBVIOUS
<1>5. calc' = [[calc EXCEPT !.tree = tree] EXCEPT !.block = {}] /\ DOMAIN calc = PlanFields
    BY <1>3 DEF Plan!Attribute, Plan!Put, PlanInv
<1>6. /\ DOMAIN calc' = PlanFields
      /\ calc'.text = calc.text /\ calc'.cls = calc.cls /\ calc'.indexesAt = calc.indexesAt
      /\ calc'.tree = tree /\ calc'.stack = calc.stack /\ calc'.block = {}
    BY <1>5 DEF PlanFields
<1>7. IsPut(Plan!Above(next), next.entry)
    BY <1>1, <1>4, <1>6 DEF IsPut
<1>8. calc'.stack = next.path
    BY <1>1, <1>6
<1>. QED  BY <1>1, <1>4, <1>6, <1>7, <1>8, PlanPuts

\* A stage, with the processor line behind it if there is one.
LEMMA StageInv == ASSUME PlanInv, Plan!Stage PROVE PlanInv'
<1>. PICK n : n = Plan!At
    OBVIOUS
<1>. PICK line : line = Ahead(calc.text, n)
    OBVIOUS
<1>. PICK next : next = Plan!Current
    OBVIOUS
<1>. PICK text : text = calc.text
    OBVIOUS
<1>0. Plan!Building /\ Plan!Owned /\ IsPrinted(text) /\ text \in Seq(PlanLines) /\ Len(text) \in Nat
    BY DEF Plan!Stage, PlanInv, IsPrinted
<1>1. /\ n \in 1 .. Len(text) /\ n \in Nat \ {0} /\ n = Len(calc.tree) + 1
      /\ line \in PlanLines /\ next \in PlanLines /\ next = text[n]
      /\ calc.cls[n] = KindOf(next) /\ calc.stack = line.path /\ Len(calc.cls) = Len(text)
      /\ StepLine(line, next, n) \/ ItemLine(line, next) \/ WorkLine(line, next) \/ IndexLine(line, next, n)
    BY <1>0, BuildingIs
<1>2. next.text = "stage"
    BY <1>1 DEF Plan!Stage, KindOf
<1>3. next.item = "io" /\ next.entry = 0 /\ next.path = line.path
    BY <1>1, <1>2 DEF StepLine, ItemLine, WorkLine, IndexLine
<1>4. Plan!Above(next) = Plan!Holder
    BY <1>0, <1>1, <1>2, <1>3, HolderIs
<1>5. \A k \in 1 .. Len(text) : calc.cls[k] = KindOf(text[k])
    BY <1>1 DEF PlanInv
<1>6. /\ DOMAIN calc = PlanFields
      /\ calc.block = {} \/ \E c \in Nat : calc.block = {BlockOf(line, c)}
    BY DEF PlanInv
<1>. PICK tree : tree = Append(calc.tree, Plan!Node(Plan!Holder, 0))
    OBVIOUS
<1>7. CASE n < Len(text) /\ calc.cls[n + 1] = "processor"
    <2>. PICK last : last = text[n + 1]
        OBVIOUS
    <2>1. n + 1 \in 1 .. Len(text) /\ last.text = "processor" /\ last \in PlanLines
        <3>1. n + 1 \in 1 .. Len(text)
            BY <1>0, <1>1, <1>7
        <3>2. KindOf(last) = "processor"
            BY <1>5, <1>7, <3>1
        <3>. QED  BY <1>0, <3>1, <3>2 DEF KindOf
    <2>2. Ahead(text, n + 1) = next
        BY <1>1 DEF Ahead
    <2>3. WorkLine(next, last)
        <3>1. \/ StepLine(next, last, n + 1) \/ ItemLine(next, last)
              \/ WorkLine(next, last) \/ IndexLine(next, last, n + 1)
            BY <1>0, <2>1, <2>2, LineIs
        <3>. QED  BY <2>1, <3>1 DEF StepLine, ItemLine, IndexLine
    <2>4. last.item = "io" /\ last.entry = 0 /\ last.path = line.path
        BY <1>3, <2>3 DEF WorkLine
    <2>5. Plan!Above(last) = Plan!Holder
        BY <1>0, <1>1, <2>1, <2>4, HolderIs
    <2>. PICK both : both = Append(tree, Plan!Node(Plan!Holder, 0))
        OBVIOUS
    <2>6. calc' = [[calc EXCEPT !.tree = tree] EXCEPT !.tree = both]
        <3>1. calc' = Plan!Put(Plan!Put(calc, Plan!Holder, 0), Plan!Holder, 0)
            BY <1>7 DEF Plan!Stage
        <3>. PICK put : put = [calc EXCEPT !.tree = tree]
            OBVIOUS
        <3>2. Plan!Put(calc, Plan!Holder, 0) = put /\ put.tree = tree
            BY <1>6 DEF Plan!Put, PlanFields
        <3>3. Plan!Put(put, Plan!Holder, 0) = [put EXCEPT !.tree = both]
            BY <3>2 DEF Plan!Put
        <3>. QED  BY <3>1, <3>2, <3>3
    <2>7. /\ DOMAIN calc' = PlanFields
          /\ calc'.text = text /\ calc'.cls = calc.cls /\ calc'.indexesAt = calc.indexesAt
          /\ calc'.tree = both /\ calc'.stack = calc.stack /\ calc'.block = calc.block
        BY <1>6, <2>6 DEF PlanFields
    <2>8. RightUpto(calc.tree, text) /\ Len(calc.tree) \in Nat
        <3>1. Plan!TreeIsMeant /\ calc.tree \in Seq([part : Nat, entry : Nat])
            BY DEF PlanInv
        <3>2. RightUpto(calc.tree, text)
            BY <3>1, Zenon DEF Plan!TreeIsMeant, RightUpto
        <3>. QED  BY <3>1, <3>2
    <2>9. RightUpto(both, text) /\ Len(both) = n + 1
        <3>1. Len(calc.tree) + 1 = n /\ Len(calc.tree) + 2 = n + 1
            BY <1>1, <2>8
        <3>2. Len(calc.tree) + 2 <= Len(text)
            BY <2>1, <3>1
        <3>3. /\ Plan!Holder = Plan!Above(text[n]) /\ 0 = text[n].entry
              /\ Plan!Holder = Plan!Above(text[n + 1]) /\ 0 = text[n + 1].entry
            BY <1>1, <1>3, <1>4, <2>4, <2>5
        <3>4. text \in Seq(PlanLines) /\ RightUpto(calc.tree, text)
            BY <1>0, <2>8
        <3>5. /\ StandsFor(text[Len(calc.tree) + 1], Plan!Holder, 0)
              /\ StandsFor(text[Len(calc.tree) + 2], Plan!Holder, 0)
            BY <3>1, <3>3 DEF StandsFor
        <3>6. /\ RightUpto(Append(Append(calc.tree, Plan!Node(Plan!Holder, 0)), Plan!Node(Plan!Holder, 0)), text)
              /\ Len(Append(Append(calc.tree, Plan!Node(Plan!Holder, 0)), Plan!Node(Plan!Holder, 0)))
                    = Len(calc.tree) + 2
            BY <3>2, <3>4, <3>5, TreeGrowsByTwo
        <3>. QED  BY <3>1, <3>6
    <2>11. n + 1 + 1 <= Len(text) => text[n + 1 + 1].text # "processor"
        <3>. SUFFICES ASSUME n + 1 + 1 <= Len(text), text[n + 1 + 1].text = "processor" PROVE FALSE
            OBVIOUS
        <3>. PICK m \in 1 .. Len(text) : m = n + 1 + 1
            BY <1>0, <1>1
        <3>1. Ahead(text, m).text = "stage"
            BY <1>0, ProcessorFollows
        <3>2. Ahead(text, m) = last
            BY <1>1 DEF Ahead
        <3>. QED  BY <2>1, <3>1, <3>2
    <2>12. calc'.block = {} \/ \E c \in Nat : calc'.block = {BlockOf(last, c)}
        <3>1. \A c : BlockOf(line, c) = BlockOf(last, c)
            BY <2>4 DEF BlockOf
        <3>. QED  BY <1>6, <2>7, <3>1
    <2>13. ReadsOnTo(last)
        BY <1>1, <2>1, <2>4, <2>7, <2>9, <2>11, <2>12 DEF ReadsOnTo
    <2>. QED  BY <1>0, <2>13, PlanMoves
<1>8. CASE ~ (n < Len(text) /\ calc.cls[n + 1] = "processor")
    <2>1. n + 1 <= Len(text) => text[n + 1].text # "processor"
        <3>. SUFFICES ASSUME n + 1 <= Len(text), text[n + 1].text = "processor" PROVE FALSE
            OBVIOUS
        <3>1. n < Len(text) /\ n + 1 \in 1 .. Len(text)
            BY <1>0, <1>1
        <3>2. calc.cls[n + 1] = "processor"
            BY <1>5, <3>1 DEF KindOf
        <3>. QED  BY <1>8, <3>1, <3>2
    <2>2. calc' = [calc EXCEPT !.tree = tree]
        BY <1>8 DEF Plan!Stage, Plan!Put
    <2>3. /\ DOMAIN calc' = PlanFields
          /\ calc'.text = text /\ calc'.cls = calc.cls /\ calc'.indexesAt = calc.indexesAt
          /\ calc'.tree = tree /\ calc'.stack = calc.stack /\ calc'.block = calc.block
        BY <1>6, <2>2 DEF PlanFields
    <2>4. IsPut(Plan!Above(next), next.entry)
        BY <1>3, <1>4, <2>3 DEF IsPut
    <2>5. calc'.block = {} \/ \E c \in Nat : calc'.block = {BlockOf(next, c)}
        <3>1. \A c : BlockOf(line, c) = BlockOf(next, c)
            BY <1>3 DEF BlockOf
        <3>. QED  BY <1>6, <2>3, <3>1
    <2>6. calc'.stack = next.path
        BY <1>1, <1>3, <2>3
    <2>. QED  BY <1>0, <1>3, <2>1, <2>4, <2>5, <2>6, PlanPuts
<1>. QED  BY <1>7, <1>8

LEMMA PlanStepInv == ASSUME PlanInv, Plan!Next PROVE PlanInv'
BY ClassifyInv, StepInv, StrayInv, WorkInv, StageInv, IndexesHeaderInv, IndexEntryInv, IndexValueInv,
   AttributeInv DEF Plan!Next

LEMMA PlanSameInv == ASSUME PlanInv, UNCHANGED calc PROVE PlanInv'
<1>1. /\ Plan!At' = Plan!At /\ Plan!Current' = Plan!Current /\ (Plan!Classifying' <=> Plan!Classifying)
      /\ (Plan!TreeIsMeant' <=> Plan!TreeIsMeant)
    BY DEF Plan!At, Plan!Current, Plan!Classifying, Plan!TreeIsMeant
<1>. QED  BY <1>1 DEF PlanInv

LEMMA PlanHolds == ASSUME PlanInv PROVE Plan!TreeIsMeant
BY DEF PlanInv

-----------------------------------------------------------------------------
(* The calls                                                               *)

\* What the calls keep, of whichever is under way.
CallsInv ==
    /\ route = "splitQueries" => SplitInv
    /\ route = "diffPlans" => DiffInv
    /\ route = "parseAnalyzePlan" => PlanInv
    /\ route = "serverString" => ClockInv

LEMMA CallsStartInv == ASSUME CallStarts PROVE CallsInv
<1>1. /\ route = "splitQueries" => Split!Init
      /\ route = "diffPlans" => Diff!Init
      /\ route = "parseAnalyzePlan" => Plan!Init
      /\ route = "serverString" => Clock!Init
    BY DEF CallStarts
<1>. QED  BY <1>1, SplitInitInv, DiffInitInv, PlanInitInv, ClockInitInv DEF CallsInv

LEMMA CallsStepInv == ASSUME CallsInv, CallSteps PROVE CallsInv'
<1>1. route' = route
    BY DEF CallSteps
<1>2. /\ route = "splitQueries" => Split!Next
      /\ route = "diffPlans" => Diff!Next
      /\ route = "parseAnalyzePlan" => Plan!Next
      /\ route = "serverString" => Clock!Next
    BY DEF CallSteps
<1>. QED  BY <1>1, <1>2, SplitStepInv, DiffStepInv, PlanStepInv, ClockStepInv DEF CallsInv

LEMMA CallsSameInv == ASSUME CallsInv, UNCHANGED <<route, calc>> PROVE CallsInv'
<1>1. route' = route /\ calc' = calc
    OBVIOUS
<1>2. DiffInv => DiffInv'
    BY <1>1 DEF DiffInv
<1>3. ClockInv => ClockInv'
    BY <1>1 DEF ClockInv, Clock!Converts
<1>4. SplitInv => SplitInv'
    BY <1>1, SplitSameInv
<1>5. PlanInv => PlanInv'
    BY <1>1, PlanSameInv
<1>. QED  BY <1>1, <1>2, <1>3, <1>4, <1>5 DEF CallsInv

LEMMA CallsHold == ASSUME CallsInv PROVE TextsAreMeant
BY SplitHolds, DiffHolds, PlanHolds, ClockHolds DEF CallsInv, TextsAreMeant
=============================================================================
