SPECIFICATION FairSpec
CONSTANTS
  m1 = m1
  m2 = m2
  Messages <- MCMessages
  Threads = {t1}
  ThreadCalls = {"send", "shutdown", "forceClose"}
  MaxCloses = 1
INVARIANTS StreamInOrder EventsAsWanted DownOnce
PROPERTIES ClosesComplete PeerEndNoticed
\* Once the server is gone and the queue is empty nothing is left to do.
CHECK_DEADLOCK FALSE
