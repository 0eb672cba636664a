---------------------------- MODULE MCExecStream ----------------------------
(* One execution, from every kind of start: first page or a later one, a   *)
(* result that JSON can represent or one that it cannot.                   *)
EXTENDS ExecStream
=============================================================================
