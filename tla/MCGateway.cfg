SPECIFICATION FairSpec
CONSTANTS
  a = a
  b = b
  Clients = {a, b}
  Plan <- MCPlan
  HasDefault = TRUE
  MaxIdle = 1
  MaxRemotes = 4
  MaxEnds = 1
INVARIANTS AnswersInOrder RequestsWhole LentOrIdle
PROPERTIES RequestsSettled
\* When everybody has what he asked for, nothing need happen any more.
CHECK_DEADLOCK FALSE
