---------------------------- MODULE MCTcpClient ----------------------------
(* A small instance of TcpClient for TLC.                                  *)
EXTENDS TcpClient, TLC

CONSTANTS once, every2

TwoTimers == {once, every2}
TwoIntervals == (once :> 0 @@ every2 :> 2)
TwoFds == {7, 8}
OnlyInProgress == {"EINPROGRESS"}
AnyResult == {"EINPROGRESS", "0", "error"}
=============================================================================
