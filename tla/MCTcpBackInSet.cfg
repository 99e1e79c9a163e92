SPECIFICATION Spec
CONSTANTS
  m1 = m1
  m2 = m2
  Messages <- MCOneMessage
  Threads = {t1}
  ThreadCalls = {"shutdown", "forceClose"}
  MaxCloses = 1
INVARIANT DisconnectedHasLeft
CHECK_DEADLOCK FALSE
