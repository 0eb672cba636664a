------------------------------- MODULE MCJobs -------------------------------
(* Three jobs in a store with room for two and one request at a time; two  *)
(* jobs, two requests and room for one where something must end.           *)
EXTENDS Jobs, TLC

Symmetry == Permutations(Jobs) \union Permutations(Requests)
=============================================================================
