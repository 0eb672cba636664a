------------------------------ MODULE PlanDiff ------------------------------
(***************************************************************************)
(* diffPlans (web/src/lib/planDiff.ts), which QueryCompare shows for two   *)
(* EXPLAIN outputs: the table of longest common subsequences, and the walk *)
(* over it, one iteration to a step.  A line is what normalizePlanLine     *)
(* leaves of it: a text and the numbers in it.                             *)
(***************************************************************************)
EXTENDS Naturals, Sequences, FiniteSets, SequencesExt, FiniteSetsExt

CONSTANTS
    Texts,  \* of lines, without their numbers
    Values, \* numbers in lines
    MaxLines \* bound: lines of a plan

VARIABLE calc \* the call under way

vars == <<calc>>

Lines == [text : Texts, value : Values]
Plans == BoundedSeq(Lines, MaxLines)

-----------------------------------------------------------------------------
(* The table                                                               *)

Cells(a, b) == (1 .. Len(a) + 1) \X (1 .. Len(b) + 1)

\* Mutant: the neighbour below a difference, whatever the one beside it has.
TableOfColumn(a, b) ==
    LET dp[p \in Cells(a, b)] ==
            IF p[1] > Len(a) \/ p[2] > Len(b) THEN 0
            ELSE IF a[p[1]] = b[p[2]] THEN dp[<<p[1] + 1, p[2] + 1>>] + 1
            ELSE dp[<<p[1] + 1, p[2]>>]
    IN  dp

\* The length of a longest common subsequence of what is left of the plans.
Table(a, b) ==
    LET dp[p \in Cells(a, b)] ==
            IF p[1] > Len(a) \/ p[2] > Len(b) THEN 0
            ELSE IF a[p[1]] = b[p[2]] THEN dp[<<p[1] + 1, p[2] + 1>>] + 1
            ELSE Max({dp[<<p[1] + 1, p[2]>>], dp[<<p[1], p[2] + 1>>]})
    IN  dp

Init ==
    \E a, b \in Plans :
        calc = [a |-> a, b |-> b, dp |-> Table(a, b), i |-> 1, j |-> 1,
                removed |-> <<>>, added |-> <<>>, rows |-> <<>>, done |-> FALSE]

-----------------------------------------------------------------------------
(* The walk                                                                *)

Row(kind, line) == [kind |-> kind, line |-> line]
Rows(kind, lines) == [k \in DOMAIN lines |-> Row(kind, lines[k])]

\* Lines that differ only in their numbers.
Changed(r, s) == r.text = s.text /\ r.value # s.value

\* Mutant: the lines of one side that have no partner are lost.
FlushPairs(removed, added) ==
    FlattenSeq([k \in 1 .. Min({Len(removed), Len(added)}) |->
        IF Changed(removed[k], added[k]) THEN <<Row("changed", added[k])>>
        ELSE <<Row("removed", removed[k]), Row("added", added[k])>>])

\* The rows of a pair: of a line that moved, of one whose numbers changed, of
\* two lines.
Pair(r, s) ==
    IF r = s THEN <<Row("same", s)>>
    ELSE IF Changed(r, s) THEN <<Row("changed", s)>>
    ELSE <<Row("removed", r), Row("added", s)>>

\* flushReplaceBlock: what was removed and added since the last common line,
\* in pairs, and then what one side has more of.
Flushed(removed, added) ==
    LET paired == Min({Len(removed), Len(added)})
        rest(s) == SubSeq(s, paired + 1, Len(s))
    IN  FlattenSeq([k \in 1 .. paired |-> Pair(removed[k], added[k])])
        \o Rows("removed", rest(removed)) \o Rows("added", rest(added))

Flush(c, last) ==
    [c EXCEPT !.rows = @ \o Flushed(c.removed, c.added) \o last, !.removed = <<>>, !.added = <<>>]

Walking == calc.i <= Len(calc.a) /\ calc.j <= Len(calc.b)
LineA == calc.a[calc.i]
LineB == calc.b[calc.j]

Same ==
    /\ Walking /\ LineA = LineB
    /\ calc' = [Flush(calc, <<Row("same", LineB)>>) EXCEPT !.i = @ + 1, !.j = @ + 1]

TakeRemoved ==
    /\ Walking /\ LineA # LineB
    /\ calc.dp[<<calc.i + 1, calc.j>>] >= calc.dp[<<calc.i, calc.j + 1>>]
    /\ calc' = [calc EXCEPT !.removed = Append(@, LineA), !.i = @ + 1]

TakeAdded ==
    /\ Walking /\ LineA # LineB
    /\ calc.dp[<<calc.i + 1, calc.j>>] < calc.dp[<<calc.i, calc.j + 1>>]
    /\ calc' = [calc EXCEPT !.added = Append(@, LineB), !.j = @ + 1]

\* What is left of either plan.
Finish ==
    /\ ~ Walking /\ ~ calc.done
    /\ calc' = [Flush([calc EXCEPT !.removed = @ \o SubSeq(calc.a, calc.i, Len(calc.a)),
                                   !.added = @ \o SubSeq(calc.b, calc.j, Len(calc.b))], <<>>)
                EXCEPT !.i = Len(calc.a) + 1, !.j = Len(calc.b) + 1, !.done = TRUE]

Next == Same \/ TakeRemoved \/ TakeAdded \/ Finish

Spec == Init /\ [][Next]_vars

-----------------------------------------------------------------------------
(* Properties                                                              *)

Sides == {"first", "second"}
Kinds(side) == {"same", "changed"} \union {IF side = "first" THEN "removed" ELSE "added"}

\* A row shows a line; the text of a changed one is the second plan's.
Shows(row, side, line) ==
    IF side = "first" /\ row.kind = "changed" THEN Changed(line, row.line) ELSE row.line = line

\* The rows of a side read as a plan, in its order: at says at which row.
Reads(rows, side, plan) ==
    \E at \in [DOMAIN plan -> DOMAIN rows] :
        /\ \A k, l \in DOMAIN plan : k < l => at[k] < at[l]
        /\ \A r \in DOMAIN rows : rows[r].kind \in Kinds(side) <=> \E k \in DOMAIN plan : at[k] = r
        /\ \A k \in DOMAIN plan : Shows(rows[at[k]], side, plan[k])

\* Nothing of either plan is lost, repeated or put in another order: the
\* rows without the added ones read as the first plan, but for the numbers
\* of changed lines, and those without the removed ones as the second.
NothingIsLost == calc.done => Reads(calc.rows, "first", calc.a) /\ Reads(calc.rows, "second", calc.b)

\* Pairs of equal lines, which a diff can have as common lines all at once.
Matchings(a, b) ==
    {m \in SUBSET {p \in (DOMAIN a) \X (DOMAIN b) : a[p[1]] = b[p[2]]} :
        \A p, q \in m :
            \/ p = q
            \/ p[1] < q[1] /\ p[2] < q[2]
            \/ p[1] > q[1] /\ p[2] > q[2]}

SameRows(rows) == {k \in DOMAIN rows : rows[k].kind = "same"}

\* No way to match lines of the plans, in their order, has more of them in
\* common than the rows.  (There may be a diff with fewer rows: Flushed pairs a
\* removed line with an added one by their places, not by what they say.)
MostLinesAreCommon ==
    calc.done =>
        \A m \in Matchings(calc.a, calc.b) : Cardinality(m) <= Cardinality(SameRows(calc.rows))
=============================================================================
