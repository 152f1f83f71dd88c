\* One owner, one worker, two tasks, one other channel.
CONSTANTS
  owner = owner  worker = worker  a = a  b = b  x = x
  Threads <- TwoThreads
  LoopThread = worker
  Owner = owner
  Tasks <- TwoTasks
  Channels <- OneChannel
  Wakeup = wakeup
  InitEvents = 1
  EventfdMax = 2
SPECIFICATION ThreadSpec
INVARIANT StartLoopReturnsLoop
PROPERTY DestructorJoinsRunningLoop
