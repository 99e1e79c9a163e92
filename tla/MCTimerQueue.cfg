SPECIFICATION FairSpec
CONSTANTS
  once = once
  other = other
  repeating = repeating
  Timers <- MCTimers
  Interval <- MCInterval
  Delays <- MCDelays
  MaxTime = 4
  AnyCancel = FALSE
INVARIANT TimersFiled
PROPERTIES NeverEarly WaitingTimersRun
CHECK_DEADLOCK FALSE
