SPECIFICATION FairSpec
CONSTANTS
  Retrying = TRUE
  Reporting = FALSE
  Fds = {1, 2, 3, 4, 5}
  MaxUp = 3
  MaxDown = 2
  MaxConns = 3
INVARIANTS StreamsKept OneEndeavour
PROPERTIES NoConnectionForNobody EndsArePassedOn PutOffIsSent
\* Once the client has gone, nothing need happen any more.
CHECK_DEADLOCK FALSE
