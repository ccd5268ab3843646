SPECIFICATION FairSpec
CONSTANTS
  Daemons = {d1, d2}
  None = none
  Link = link
  Engine = engine
PROPERTY SocketRepaired
CHECK_DEADLOCK FALSE
