\* A client whose server is remote, with a one-shot and a repeating timer.
CONSTANTS
  once = once  every2 = every2
  Timers <- TwoTimers
  Interval <- TwoIntervals
  MaxDelay = 2
  MaxLate = 2
  None = None
  Fds <- TwoFds
  ConnectResults <- OnlyInProgress
SPECIFICATION ClientFairSpec
INVARIANTS TimersOwned ArmedForEarliest RetryTimerOwned SocketsOwned
PROPERTIES TimerRuns OneConnection ClientConnects
