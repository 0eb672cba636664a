-------------------------- MODULE MCDetachedPolls ---------------------------
(* Two tabs, two starts in the same tab or in one each, two overlapping    *)
(* polls of each, of which the first that fails gives the job up.          *)
EXTENDS DetachedPolls
=============================================================================
