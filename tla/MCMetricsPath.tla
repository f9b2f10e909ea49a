--------------------------- MODULE MCMetricsPath ----------------------------
(***************************************************************************)
(* Small instances of MetricsPath.                                         *)
(***************************************************************************)
EXTENDS MetricsPath

OneSecond == {1}
TwoWindows == {1, 2}
LongWindows == {1, 3}

OneEdge == [scale \in Scales |-> IF scale = "io" THEN <<10>> ELSE << >>]
=============================================================================
