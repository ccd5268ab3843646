\* Two records kept and three made, with one event, or two made, with two.
SPECIFICATION Spec
CONSTANTS
  MaxBuilds = 2
  MaxRows = 1
  MaxMade = 3
  MaxEvents = 2
  MaxTotal = 4
INVARIANTS
  FilesAreCurrent
  OwnOutcome
  RunningHasJob
PROPERTIES
  DetailsKept
CHECK_DEADLOCK FALSE
