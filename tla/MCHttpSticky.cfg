SPECIFICATION Spec
CONSTANTS
  Sent <- MCSent
INVARIANT NoRequestLeftBehind
CHECK_DEADLOCK FALSE
