SPECIFICATION ThreadSpec
CONSTANTS
  Functors = {f1, f2}
  Threads = {main, user}
  Owner = main
INVARIANT NothingDangles
PROPERTY OwnersWaitsEnd
CHECK_DEADLOCK FALSE
