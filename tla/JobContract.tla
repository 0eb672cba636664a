----------------------------- MODULE JobContract ----------------------------
(***************************************************************************)
(* What a detached job (internal/api/jobs.go) promises to the browser that *)
(* polls it: it runs until it ends in exactly one way, it is canceled only *)
(* if somebody asked, and it is forgotten only once it has ended.          *)
(***************************************************************************)
CONSTANT Jobs

VARIABLES
    phase,  \* what a poll reports: "none" before the start, then job.Status
    asked,  \* jobs whose cancellation somebody requested
    kept    \* jobs a poll can find

vars == <<phase, asked, kept>>

Ended == {"done", "error", "canceled"}

Init ==
    /\ phase = [j \in Jobs |-> "none"]
    /\ asked = {}
    /\ kept = {}

Start(j) ==
    /\ phase[j] = "none"
    /\ phase' = [phase EXCEPT ![j] = "running"]
    /\ kept' = kept \union {j}
    /\ UNCHANGED asked

\* A job that has ended may be forgotten, one that runs never.
Forget(j) ==
    /\ phase[j] \in Ended
    /\ kept' = kept \ {j}
    /\ UNCHANGED <<phase, asked>>

Ask(j) ==
    /\ phase[j] # "none"
    /\ asked' = asked \union {j}
    /\ UNCHANGED <<phase, kept>>

End(j, p) ==
    /\ phase[j] = "running"
    /\ p = "canceled" => j \in asked
    /\ phase' = [phase EXCEPT ![j] = p]
    /\ UNCHANGED <<asked, kept>>

Next == \E j \in Jobs : Start(j) \/ Forget(j) \/ Ask(j) \/ \E p \in Ended : End(j, p)

Spec == Init /\ [][Next]_vars
=============================================================================
