SPECIFICATION Spec
CONSTANTS
  Functors = {f1, f2}
  Threads = {t1}
INVARIANT NeverBlocksWithFunctors
CHECK_DEADLOCK FALSE
