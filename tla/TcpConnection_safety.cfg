\* Every operation in the loop thread, sends from another thread.
\* The program may stop: FATAL aborts it when an urgent byte makes it close twice.
CONSTANTS
  loop = loop  u1 = u1
  LoopThread = loop
  Users <- OneUser
  Ops <- OpsSend
  MaxCalls <- Calls22
  MsgLen = 2
  HighWaterMark = 2
  MaxRcv = 1
SPECIFICATION Spec
INVARIANTS OutputIntact SendOrder WritingIffOutput ClosedOnce
  ActiveChannelAlive GracefulShutdown
CHECK_DEADLOCK FALSE
