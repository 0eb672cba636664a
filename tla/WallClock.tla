----------------------------- MODULE WallClock -----------------------------
(***************************************************************************)
(* serverStringToBrowserString (web/src/hooks/useAppSettings.ts): the      *)
(* instant of a wall clock of the server's zone, by guessing it to be UTC  *)
(* and correcting it twice, and what the browser's zone shows of it.       *)
(* Times are in hours; a zone changes its offset once in the times here.   *)
(***************************************************************************)
EXTENDS Integers, FiniteSets

CONSTANTS
    MaxOffset, \* bound: hours of a zone from UTC, either way
    Horizon,   \* bound: the instants, from 0
    NoZone     \* what detection leaves when it fails

VARIABLE calc \* the call under way

vars == <<calc>>

-----------------------------------------------------------------------------
(* Zones                                                                   *)

Offsets == -MaxOffset .. MaxOffset

\* Clocks are put forward or back by an hour, or left alone.
Zones == {z \in [before : Offsets, after : Offsets, at : 0 .. Horizon] :
            z.after - z.before \in {-1, 0, 1}}

\* offsetAt
OffsetAt(t, zone) == IF t < zone.at THEN zone.before ELSE zone.after

Wall(t, zone) == t + OffsetAt(t, zone)

-----------------------------------------------------------------------------
(* The conversion                                                          *)

\* The wall clock of some instant of the server, or what the reader typed.
Init ==
    \E zone \in Zones \union {NoZone}, browser \in Zones, wall \in 0 .. Horizon,
       display \in {"server", "browser"} :
        calc = [wall |-> wall, zone |-> zone, browser |-> browser, display |-> display,
                utc |-> wall, passes |-> 0, out |-> {}]

\* useDisplayDateTime: only for the browser's zone, when the server's is
\* known, is there anything to convert.
Converts == calc.display = "browser" /\ calc.zone # NoZone

\* The string is shown as stored.
Keep ==
    /\ calc.out = {} /\ ~ Converts
    /\ calc' = [calc EXCEPT !.out = {calc.wall}]

\* Mutant: one pass is taken to be enough.
Once == 1

Passes == 2

Correct ==
    /\ Converts /\ calc.passes < Passes
    /\ calc' = [calc EXCEPT !.utc = calc.wall - OffsetAt(@, calc.zone), !.passes = @ + 1]

Render ==
    /\ Converts /\ calc.passes = Passes /\ calc.out = {}
    /\ calc' = [calc EXCEPT !.out = {Wall(calc.utc, calc.browser)}]

Next == Keep \/ Correct \/ Render

Spec == Init /\ [][Next]_vars

-----------------------------------------------------------------------------
(* Properties                                                              *)

\* The instants at which the server's clocks read what is converted: none in
\* the hour that is skipped, two in the hour that is repeated.
Instants(wall, zone) == {t \in -MaxOffset .. Horizon + MaxOffset : Wall(t, zone) = wall}

\* What is shown is the browser's clock at an instant at which the server's
\* clock read what was stored, also next to a change of offset, where the
\* guess may lie on the other side of the change ("the second pass is what
\* makes the result correct across DST boundaries", useAppSettings.ts:71-75).
InstantIsRight ==
    calc.out # {} /\ Converts /\ Instants(calc.wall, calc.zone) # {} =>
        \E t \in Instants(calc.wall, calc.zone) : calc.out = {Wall(t, calc.browser)}
=============================================================================
