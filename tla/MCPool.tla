------------------------------- MODULE MCPool -------------------------------
(* Three callers, two of which share a server.                             *)
EXTENDS Pool, TLC

CONSTANTS k1, k2, u1, u2, u3

SharedKeyOf == (u1 :> k1) @@ (u2 :> k1) @@ (u3 :> k2)
=============================================================================
