---------------------------- MODULE ResultTable ----------------------------
(***************************************************************************)
(* A result below the editor, web/src/pages/editor/ResultTable.tsx: the    *)
(* table with its filters and order, the count on demand, and the chart.   *)
(* The editor keys the tables by their position alone (QueryEditor.tsx:    *)
(* 1252), so one table shows many results: those of later runs, of other   *)
(* pages, and of other tabs.                                               *)
(***************************************************************************)
EXTENDS Naturals, FiniteSets

CONSTANTS
    Columns,  \* names of columns
    Ids,      \* of results
    RowNumber, \* no column: the axis of row numbers
    AxisKey   \* the column, if any, that is named "x"

VARIABLES
    connected, \* of no matter to what is shown
    ui,        \* the component's state
    req        \* requests under way

vars == <<connected, ui, req>>

\* A result: its columns and which of them isNumericType accepts, whether it
\* has rows to plot, and whether the server counted its total.
Results ==
    {r \in [id : Ids, columns : SUBSET Columns, numeric : SUBSET Columns,
            several : BOOLEAN, totalKnown : BOOLEAN] : r.numeric \subseteq r.columns}

-----------------------------------------------------------------------------
(* The chart                                                               *)

\* Text has no columns.
ChartEligible(r) == r.several /\ r.numeric # {}

\* defaultXColumn: one that is not numeric, if there is one.
XColumns(r) == IF r.numeric = r.columns THEN {RowNumber} ELSE r.columns \ r.numeric

\* The axes of a chart that is mounted, none where no chart is.
NoAxes == {}
FirstAxes(r) ==
    {a \in [x : Columns \union {RowNumber}, y : SUBSET Columns] :
        a.x \in XColumns(r) /\ a.y \subseteq r.numeric /\ Cardinality(a.y) = 1}

\* buildChartPoints: what the record of a row holds under each key.  The axis
\* is under "x", unless a plotted column of that name takes its place.
Points(a) == [k \in a.y \union {AxisKey} |-> IF k \in a.y THEN k ELSE a.x]

\* The lines that are drawn, and the columns whose values they show.
Lines(a) == {<<c, Points(a)[c]>> : c \in a.y}

Charts(view, r) == view = "chart" /\ ChartEligible(r)

\* Mutant: the chart is not keyed, and keeps its axes for the next result.
AxesKept(u, view, r) ==
    IF ~ Charts(view, r) THEN {NoAxes}
    ELSE IF u.axes # NoAxes THEN {u.axes} ELSE {{a} : a \in FirstAxes(r)}

\* What axes a render leaves: ChartView is keyed by the result, and starts
\* over for another one as when it is shown again.
Axes(u, view, r) ==
    IF ~ Charts(view, r) THEN {NoAxes}
    ELSE IF u.axes # NoAxes /\ r = u.result THEN {u.axes} ELSE {{a} : a \in FirstAxes(r)}

-----------------------------------------------------------------------------
(* The table                                                               *)

NoCount == [loading |-> FALSE, value |-> {}, error |-> FALSE]

Init ==
    /\ connected = TRUE
    /\ \E r \in Results :
         ui = [result |-> r, filters |-> {}, sort |-> {}, ascending |-> TRUE,
               count |-> NoCount, view |-> "table", axes |-> NoAxes]
    /\ req = {}

\* The editor renders another result in this place: all but the chart stays.
Show ==
    /\ \E r \in Results : \E axes \in Axes(ui, ui.view, r) :
         ui' = [ui EXCEPT !.result = r, !.axes = axes]
    /\ UNCHANGED <<connected, req>>

\* An error, or a tab without results, takes its place; its requests go on,
\* and nobody hears of them.
Unmount ==
    /\ ui' = [ui EXCEPT !.filters = {}, !.sort = {}, !.ascending = TRUE,
                         !.count = NoCount, !.view = "table", !.axes = NoAxes]
    /\ req' = {}
    /\ UNCHANGED connected

SetView ==
    /\ ChartEligible(ui.result)
    /\ \E v \in {"table", "chart"} : \E axes \in Axes(ui, v, ui.result) :
         ui' = [ui EXCEPT !.view = v, !.axes = axes]
    /\ UNCHANGED <<connected, req>>

Charted == Charts(ui.view, ui.result)
Tabled == ui.result.columns # {} /\ ~ Charted

SetX ==
    /\ Charted
    /\ \E a \in ui.axes, x \in ui.result.columns \union
                  (IF XColumns(ui.result) = {RowNumber} THEN {RowNumber} ELSE {}) :
         ui' = [ui EXCEPT !.axes = {[a EXCEPT !.x = x]}]
    /\ UNCHANGED <<connected, req>>

ToggleY ==
    /\ Charted
    /\ \E a \in ui.axes, c \in ui.result.numeric :
         ui' = [ui EXCEPT !.axes =
                   {[a EXCEPT !.y = IF c \in @ THEN @ \ {c} ELSE @ \union {c}]}]
    /\ UNCHANGED <<connected, req>>

\* The columns with a filter; one is typed or erased, or all are cleared.
Filter ==
    /\ \/ /\ Tabled /\ ui.result.several
          /\ \E c \in ui.result.columns, fs \in SUBSET Columns :
               /\ fs \in {ui.filters \union {c}, ui.filters \ {c}}
               /\ ui' = [ui EXCEPT !.filters = fs]
       \/ ui.filters # {} /\ ui' = [ui EXCEPT !.filters = {}]
    /\ UNCHANGED <<connected, req>>

\* toggleSort: ascending, descending, not at all.
ToggleSort ==
    /\ Tabled
    /\ \E c \in ui.result.columns :
         ui' = IF ui.sort # {c} THEN [ui EXCEPT !.sort = {c}, !.ascending = TRUE]
               ELSE IF ui.ascending THEN [ui EXCEPT !.ascending = FALSE]
               ELSE [ui EXCEPT !.sort = {}, !.ascending = TRUE]
    /\ UNCHANGED <<connected, req>>

-----------------------------------------------------------------------------
(* The count                                                               *)

\* countAllRows, offered until there is a value, whatever it is a count of.
CountAllRows ==
    /\ ~ ui.result.totalKnown /\ ui.count.value = {} /\ ~ ui.count.loading
    /\ ui' = [ui EXCEPT !.count = [NoCount EXCEPT !.loading = TRUE]]
    /\ req' = req \union {ui.result.id}
    /\ UNCHANGED connected

CountArrives ==
    /\ \E r \in req :
         /\ ui' = [ui EXCEPT !.count = [NoCount EXCEPT !.value = {r}]]
         /\ req' = req \ {r}
    /\ UNCHANGED connected

CountFails ==
    /\ \E r \in req :
         /\ ui' = [ui EXCEPT !.count = [NoCount EXCEPT !.error = TRUE]]
         /\ req' = req \ {r}
    /\ UNCHANGED connected

Next ==
    \/ Show \/ Unmount \/ SetView \/ SetX \/ ToggleY \/ Filter \/ ToggleSort
    \/ CountAllRows \/ CountArrives \/ CountFails

Spec == Init /\ [][Next]_vars

-----------------------------------------------------------------------------
(* Properties                                                              *)

\* The lines and the axis of the chart are columns of the plotted result, also
\* when it has come to the place of one with other columns: "axis selections
\* reset when a new result arrives" (ResultTable.tsx:90-95).
ChartIsOwn ==
    \A a \in ui.axes :
        /\ \A line \in Lines(a) : line[2] \in ui.result.numeric
        /\ a.x \in ui.result.columns \union {RowNumber}

\* A count that is said to be running is.
CountEnds == ui.count.loading => req # {}
=============================================================================
