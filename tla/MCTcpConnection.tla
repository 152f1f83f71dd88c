-------------------------- MODULE MCTcpConnection --------------------------
(* Small instances of TcpConnection for TLC.                               *)
EXTENDS TcpConnection

CONSTANTS loop, u1

OneUser == {u1}
Calls22 == [th \in Threads |-> 2]
Calls12 == [th \in Threads |-> IF th = loop THEN 1 ELSE 2]

(* The loop thread uses every operation, other threads only send.          *)
OpsSend == [th \in Threads |-> IF th = loop THEN AllOps ELSE {"send"}]

(* The loop thread sends, another thread uses every operation.             *)
OpsUserAny == [th \in Threads |-> IF th = loop THEN {"send"} ELSE AllOps]
=============================================================================
