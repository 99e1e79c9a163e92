SPECIFICATION ThreadSpec
CONSTANTS
  Functors = {f1}
  Threads = {main}
  Owner = main
PROPERTY QuitIsHeard
CHECK_DEADLOCK FALSE
