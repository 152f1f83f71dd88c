\* Three threads, two tasks, two other channels; events_ starts with room for one.
CONSTANTS
  main = main  t1 = t1  t2 = t2  a = a  b = b  x = x  y = y
  Threads <- ThreeThreads
  LoopThread = main
  Tasks <- TwoTasks
  Channels <- TwoChannels
  Wakeup = wakeup
  InitEvents = 1
  EventfdMax = 1
SPECIFICATION FairSpec
INVARIANTS TasksInOrderOnce NoLostWakeup
PROPERTIES BatchNeverGrows RefinesTaskQueue QueuedTaskStarts QuitHonoured ReadyChannelServed
