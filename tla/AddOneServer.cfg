\* Two workers, two loops and another thread, three tasks, a queue of one.
CONSTANTS
  w1 = w1  w2 = w2  l1 = l1  l2 = l2  other = other  a = a  b = b  c = c
  Workers <- TwoWorkers
  Producers <- ThreeProducers
  Loops <- TwoLoops
  Tasks <- ThreeTasks
  maxQueueSize_ = 1
  Nobody = Nobody
SPECIFICATION ServerSpec
INVARIANTS PoppedInOrderOnce NoSleepAfterStop FramesAlive
PROPERTIES StopReturns RequestAnswered
