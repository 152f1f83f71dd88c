\* A server whose connect() may return at once.
CONSTANTS
  once = once  every2 = every2
  Timers <- TwoTimers
  Interval <- TwoIntervals
  MaxDelay = 2
  MaxLate = 1
  None = None
  Fds <- TwoFds
  ConnectResults <- AnyResult
SPECIFICATION ClientSpec
INVARIANT BatchTimersExist
