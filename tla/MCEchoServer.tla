---------------------------- MODULE MCEchoServer ----------------------------
(* A small instance of EchoServer for TLC.                                 *)
EXTENDS EchoServer

CONSTANT loop

NoOps == [th \in {loop} |-> {}]
NoCalls == [th \in {loop} |-> 0]
=============================================================================
