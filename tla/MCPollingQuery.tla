--------------------------- MODULE MCPollingQuery ---------------------------
(* Two filters and three loads: enough for a run to be overtaken by two    *)
(* later ones, of the same filter and of the other.                        *)
EXTENDS MonitorPages
=============================================================================
