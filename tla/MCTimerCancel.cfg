SPECIFICATION Spec
CONSTANTS
  once = once
  other = other
  repeating = repeating
  Timers <- MCTimers
  Interval <- MCInterval
  Delays <- MCDelays
  MaxTime = 3
  AnyCancel = TRUE
INVARIANT CancelIsDeferred
CHECK_DEADLOCK FALSE
