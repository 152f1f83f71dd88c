---------------------------- MODULE MCEventLoop ----------------------------
(* A small instance of EventLoop for TLC.                                  *)
EXTENDS EventLoop

CONSTANTS main, t1, t2, a, b, x, y

ThreeThreads == {main, t1, t2}
TwoTasks == {a, b}
TwoChannels == {x, y}
=============================================================================
