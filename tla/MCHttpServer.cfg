SPECIFICATION FairSpec
CONSTANTS
  Sent <- MCSent
INVARIANT RequestsAsSent
PROPERTY RequestsAreAnswered
\* When every message was sent and read nothing is left to do.
CHECK_DEADLOCK FALSE
