------------------------- MODULE MCEventLoopThread -------------------------
(* A small instance of EventLoopThread for TLC.                            *)
EXTENDS EventLoopThread

CONSTANTS owner, worker, a, b, x

TwoThreads == {owner, worker}
TwoTasks == {a, b}
OneChannel == {x}

=============================================================================
