---------------------------- MODULE AnalyzePlan ----------------------------
(***************************************************************************)
(* parseAnalyzePlan (web/src/components/AnalyzePlanTree.tsx): the text of  *)
(* EXPLAIN ANALYZE, in two passes of a line to a step.  A line is its kind *)
(* of text and its indent, as stepIndent counts it; what it is part of,    *)
(* which ClickHouse knew when it printed it, is there for the property.    *)
(***************************************************************************)
EXTENDS Integers, Sequences, SequencesExt, FiniteSetsExt

CONSTANT MaxPrinted \* bound: lines of a plan

VARIABLE calc \* the call under way

vars == <<calc>>

-----------------------------------------------------------------------------
(* What ClickHouse prints                                                  *)

\* Where a step under a number of steps stands, and the items of its body,
\* behind their connectors.
StepAt(depth) == IF depth = 0 THEN 0 ELSE 3 * depth - 2
BodyAt(path) == 3 * Len(path)

\* A line has the path of steps down to its own, which are known by their
\* lines, the item of the body that it is in, and the line of the index's
\* name, if it is of an index.
Nothing == [text |-> "none", indent |-> 0, path |-> <<>>, item |-> "none", entry |-> 0]

\* The n-th line may be a step, under the last one or one above it.
Steps(line, n) ==
    {[text |-> "step", indent |-> StepAt(d), path |-> Append(SubSeq(line.path, 1, d), n),
      item |-> "none", entry |-> 0] : d \in IF line.path = <<>> THEN {0} ELSE 1 .. Len(line.path)}

\* Or an item of the step: an attribute, its work, or the indexes of a read.
\* Ahead of the steps there may be a summary without its heading.
Items(line) ==
    {[text |-> t, indent |-> BodyAt(line.path), path |-> line.path, item |-> t, entry |-> 0] :
        t \in IF line.path = <<>> THEN {"value"} ELSE {"value", "io", "indexes"}}

\* Or a detail of the item: the work has stages, which may be by thread, and
\* the indexes have a bare name each, as steps have, and values.
Details(line, n) ==
    LET Detail(text, deeper, entry) ==
            [line EXCEPT !.text = text, !.indent = BodyAt(line.path) + deeper, !.entry = entry]
    IN  CASE line.item = "io" ->
               {Detail("stage", 2, 0)} \union
               (IF line.text = "stage" THEN {Detail("processor", 4, 0)} ELSE {})
          [] line.item = "indexes" ->
               {Detail("word", 2, n)} \union
               (IF line.entry # 0 THEN {Detail("value", 4, line.entry)} ELSE {})
          [] OTHER -> {}

\* Of what is only a heading there are details.
IsHeading(line) == line.text \in {"io", "indexes", "word"}

Follows(line, n) ==
    Details(line, n) \union (IF IsHeading(line) THEN {} ELSE Steps(line, n) \union Items(line))

LastLine(text) == IF text = <<>> THEN Nothing ELSE Last(text)

\* What is printed with a number of lines.
Prints[n \in 0 .. MaxPrinted] ==
    IF n = 0 THEN {<<>>}
    ELSE UNION {{Append(text, l) : l \in Follows(LastLine(text), n)} : text \in Prints[n - 1]}

Init ==
    \E n \in 0 .. MaxPrinted : \E text \in Prints[n] :
        /\ ~ IsHeading(LastLine(text))
        /\ calc = [text |-> text, cls |-> <<>>, indexesAt |-> -1,
                   stack |-> <<>>, block |-> {}, tree |-> <<>>]

-----------------------------------------------------------------------------
(* First pass: what each line is                                           *)

\* Mutant: a bare capitalized name is a step, wherever it stands.
KindByName(line, at) ==
    CASE line.text \in {"io", "stage", "processor"} -> line.text
      [] line.text \in {"indexes", "value"} -> "attr"
      [] OTHER -> "step"

\* What a line is; below an "Indexes:" header that stands at an indent, a
\* bare capitalized name is an entry's and not a step's.
Kind(line, at) ==
    CASE line.text \in {"io", "stage", "processor"} -> line.text
      [] line.text \in {"indexes", "value"} -> "attr"
      [] at # -1 /\ line.indent > at -> "attr"
      [] OTHER -> "step"

Classifying == Len(calc.cls) < Len(calc.text)

Classify ==
    /\ Classifying
    /\ LET line == calc.text[Len(calc.cls) + 1]
           open == IF line.indent <= calc.indexesAt THEN -1 ELSE calc.indexesAt
       IN  calc' = [calc EXCEPT
               !.cls = Append(@, Kind(line, open)),
               !.indexesAt = IF line.text = "indexes" THEN line.indent ELSE open]

-----------------------------------------------------------------------------
(* Second pass: the tree                                                   *)

At == Len(calc.tree) + 1
Building == ~ Classifying /\ At <= Len(calc.text)
Current == calc.text[At]
Holder == Last(calc.stack)
Owned == calc.stack # <<>>

Node(part, entry) == [part |-> part, entry |-> entry]
Put(c, part, entry) == [c EXCEPT !.tree = Append(@, Node(part, entry))]

\* Mutant: a step of the same depth stays on the stack.
PoppedBelow(stack, indent) ==
    SubSeq(stack, 1, Max({0} \union {i \in DOMAIN stack : calc.text[stack[i]].indent <= indent}))

\* The steps above a new one: what is popped is behind the last shallower one.
Popped(stack, indent) ==
    SubSeq(stack, 1, Max({0} \union {i \in DOMAIN stack : calc.text[stack[i]].indent < indent}))

Step ==
    /\ Building /\ calc.cls[At] = "step"
    /\ LET above == Popped(calc.stack, Current.indent)
       IN  calc' = [Put(calc, IF above = <<>> THEN 0 ELSE Last(above), 0) EXCEPT
               !.stack = Append(above, At), !.block = {}]

\* A line before any step, and a processor line without its stage.
Stray ==
    /\ Building /\ calc.cls[At] # "step"
    /\ ~ Owned \/ calc.cls[At] = "processor"
    /\ calc' = Put(calc, 0, 0)

Work ==
    /\ Building /\ Owned /\ calc.cls[At] = "io"
    /\ calc' = Put(calc, Holder, 0)

\* A stage takes the processor line that follows with it.
Stage ==
    /\ Building /\ Owned /\ calc.cls[At] = "stage"
    /\ calc' = IF At < Len(calc.text) /\ calc.cls[At + 1] = "processor"
               THEN Put(Put(calc, Holder, 0), Holder, 0) ELSE Put(calc, Holder, 0)

Attr == Building /\ Owned /\ calc.cls[At] = "attr"

IndexesHeader ==
    /\ Attr /\ Current.text = "indexes"
    /\ calc' = [Put(calc, Holder, 0) EXCEPT
           !.block = {[owner |-> Holder, indent |-> Current.indent, current |-> 0]}]

\* The block of the owner that this line is still inside.
Inside == {b \in calc.block : b.owner = Holder /\ Current.indent > b.indent}

IndexEntry ==
    /\ Attr /\ Current.text = "word" /\ Inside # {}
    /\ calc' = [Put(calc, Holder, At) EXCEPT !.block = {[b EXCEPT !.current = At] : b \in @}]

IndexValue ==
    /\ Attr /\ Current.text \notin {"indexes", "word"}
    /\ \E b \in Inside : b.current # 0 /\ calc' = Put(calc, Holder, b.current)

\* What is left is a total or an attribute of the step; a line that is out
\* of the block closes it.
Attribute ==
    /\ Attr /\ Current.text # "indexes"
    /\ \A b \in Inside : b.current = 0 /\ Current.text # "word"
    /\ calc' = [Put(calc, Holder, 0) EXCEPT !.block = Inside]

Next ==
    \/ Classify \/ Step \/ Stray \/ Work \/ Stage
    \/ IndexesHeader \/ IndexEntry \/ IndexValue \/ Attribute

Spec == Init /\ [][Next]_vars

-----------------------------------------------------------------------------
(* Properties                                                              *)

\* What a line is part of.
Above(line) ==
    LET above == IF line.text = "step" THEN Front(line.path) ELSE line.path
    IN  IF above = <<>> THEN 0 ELSE Last(above)

\* Each step is put under the step it was printed under, and each measure
\* under the step, and the index entry, that it is a measure of.
TreeIsMeant ==
    \A k \in DOMAIN calc.tree :
        calc.tree[k] = Node(Above(calc.text[k]), calc.text[k].entry)
=============================================================================
