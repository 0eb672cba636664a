------------------------------ MODULE MCPages ------------------------------
(***************************************************************************)
(* Pages with two of most things: two queries of two users, two servers.   *)
(***************************************************************************)
EXTENDS Pages

CONSTANTS q1, q2, u1, u2

MCQueries == {q1, q2}
MCOwner == [q \in MCQueries |-> IF q = q1 THEN u1 ELSE u2]
=============================================================================
