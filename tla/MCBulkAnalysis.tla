--------------------------- MODULE MCBulkAnalysis ---------------------------
(* Two databases, of which only the second has tables; two analyses.       *)
EXTENDS BulkAnalysis

CONSTANTS d1, d2

DatabaseList == <<d1, d2>>
TwoInSecond == {[d \in {d1, d2} |-> IF d = d1 THEN 0 ELSE 2]}
=============================================================================
