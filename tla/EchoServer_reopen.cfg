\* A timeout and a drained output in the same iteration.
CONSTANTS
  loop = loop
  LoopThread = loop
  Users = {}
  Ops <- NoOps
  MaxCalls <- NoCalls
  MsgLen = 2
  HighWaterMark = 3
  MaxRcv = 1
  MaxRequests = 2
  MaxUrgent = 0
SPECIFICATION EchoSpec
INVARIANT ReadOnlyWhileOpen
