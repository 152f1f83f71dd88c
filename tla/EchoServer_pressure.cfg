\* Back-pressure with four requests and two urgent bytes.
\* The program may stop: FATAL aborts it when a reopened connection closes again.
CONSTANTS
  loop = loop
  LoopThread = loop
  Users = {}
  Ops <- NoOps
  MaxCalls <- NoCalls
  MsgLen = 2
  HighWaterMark = 3
  MaxRcv = 2
  MaxRequests = 4
  MaxUrgent = 2
SPECIFICATION EchoSpec
INVARIANTS OutputBounded OpenIsTimed
PROPERTY ReadingResumes
CHECK_DEADLOCK FALSE
