---------------------------- MODULE MCTcpServer ----------------------------
(***************************************************************************)
(* TcpServer for TLC.                                                      *)
(***************************************************************************)
EXTENDS TcpServer

OneFd == {7}
=============================================================================
