---------------------------- MODULE MCEditorRuns ----------------------------
(* Two tabs and two runs of two statements each: two lists that overlap in *)
(* one tab or in two, or a list and a page that meets one of its results.  *)
EXTENDS EditorRuns
=============================================================================
