\* Two loops, room for one connection on each, one descriptor for both.
CONSTANTS
  numThreads_ = 2
  MaxConns = 1
  Fds <- OneFd
  MaxBacklog = 1
SPECIFICATION FairSpec
INVARIANTS NoThreadOutlivesServer DescriptorsOwned
PROPERTIES StartCompletes DestructorReturns RequestAccepted
