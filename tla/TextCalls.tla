----------------------------- MODULE TextCalls -----------------------------
(***************************************************************************)
(* The functions that pages call to read and to compare texts, one call at *)
(* a time: each works on what it is given and on nothing else.             *)
(***************************************************************************)
EXTENDS Naturals, FiniteSets

CONSTANTS MaxTokens, Texts, Values, MaxLines, MaxPrinted, MaxOffset, Horizon, NoZone

ASSUME TokensAssumption == MaxTokens \in Nat
ASSUME PrintedAssumption == MaxPrinted \in Nat
ASSUME ClockAssumption == MaxOffset \in Nat /\ Horizon \in Nat

VARIABLES
    route, \* what is shown, or which function is called
    calc   \* a function's call under way

Split == INSTANCE SplitQueries
Diff == INSTANCE PlanDiff
Plan == INSTANCE AnalyzePlan
Clock == INSTANCE WallClock

CallStarts ==
    \/ route = "splitQueries" /\ Split!Init
    \/ route = "diffPlans" /\ Diff!Init
    \/ route = "parseAnalyzePlan" /\ Plan!Init
    \/ route = "serverString" /\ Clock!Init

CallSteps ==
    /\ \/ route = "splitQueries" /\ Split!Next
       \/ route = "diffPlans" /\ Diff!Next
       \/ route = "parseAnalyzePlan" /\ Plan!Next
       \/ route = "serverString" /\ Clock!Next
    /\ UNCHANGED route

-----------------------------------------------------------------------------
(* Properties                                                              *)

\* The statements that are run are those of the text as ClickHouse reads it,
\* but for texts with an empty literal, a quote next to another, or an escaped
\* backtick (StatementsAreMeant names them); a diff of two plans loses nothing
\* and has as many lines in common as the plans have; a plan's tree is the one
\* that was printed; and a time of the server's clock is converted to the
\* browser's of the same instant.
TextsAreMeant ==
    /\ route = "splitQueries" => Split!StatementsAreMeant
    /\ route = "diffPlans" => Diff!NothingIsLost /\ Diff!MostLinesAreCommon
    /\ route = "parseAnalyzePlan" => Plan!TreeIsMeant
    /\ route = "serverString" => Clock!InstantIsRight
=============================================================================
