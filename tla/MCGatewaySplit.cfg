SPECIFICATION Spec
CONSTANTS
  a = a
  b = b
  Clients = {a, b}
  Plan <- MCPlan
  HasDefault = FALSE
  MaxIdle = 1
  MaxRemotes = 4
  MaxEnds = 1
INVARIANT BodyHasClient
\* When everybody has what he asked for, nothing need happen any more.
CHECK_DEADLOCK FALSE
