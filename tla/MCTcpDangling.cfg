SPECIFICATION Spec
CONSTANTS
  m1 = m1
  m2 = m2
  Messages <- MCOneMessage
  Threads = {t1}
  ThreadCalls = {"shutdown"}
  MaxCloses = 1
INVARIANT NoDanglingFunctor
CHECK_DEADLOCK FALSE
