SPECIFICATION SupervisedFairSpec
CONSTANTS
  d1 = d1
  d2 = d2
  Daemons <- MCDaemons
  None = none
  Link = link
  Engine = engine
  MaxRestarts = 1
  Plans <- MCPlans
INVARIANTS
  NothingLeft
  CrashLoopEnds
PROPERTIES
  StopIsFinal
  SocketComesBack
  NoDaemonOutlivesApp
\* Every daemon may have ended.
CHECK_DEADLOCK FALSE
