SPECIFICATION Spec
CONSTANTS
  m1 = m1
  m2 = m2
  Messages <- MCOneMessage
  Threads = {t1, t2}
  ThreadCalls = {"send", "shutdown", "forceClose"}
  MaxCloses = 2
INVARIANTS StreamInOrder EventsAsWanted DownOnce
CHECK_DEADLOCK FALSE
