\* Liveness of disconnecting, with every operation called from another thread.
\* The program may stop: FATAL aborts it when the connection is closed twice.
CONSTANTS
  loop = loop  u1 = u1
  LoopThread = loop
  Users <- OneUser
  Ops <- OpsUserAny
  MaxCalls <- Calls12
  MsgLen = 1
  HighWaterMark = 2
  MaxRcv = 1
SPECIFICATION FairSpec
INVARIANT EpollAgrees
PROPERTIES DisconnectingEnds ResetCloses
CHECK_DEADLOCK FALSE
