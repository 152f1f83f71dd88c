--------------------------- MODULE MCAddOneServer ---------------------------
(* A small instance of AddOneServer for TLC.                               *)
EXTENDS AddOneServer

CONSTANTS w1, w2, l1, l2, other, a, b, c

TwoWorkers == {w1, w2}
ThreeProducers == {l1, l2, other}
TwoLoops == {l1, l2}
ThreeTasks == {a, b, c}
=============================================================================
