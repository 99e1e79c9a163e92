SPECIFICATION FairSpec
CONSTANTS
  Retrying = FALSE
  Reporting = TRUE
  Fds <- MCFds
  SuccessStandard = 3
  FailStandard = 2
  Punctual = TRUE
  MaxProbes = 6
INVARIANTS AttemptsAreWanted OneVerdictPerProbe
PROPERTIES FlipsNeedARow ProbesEnd
