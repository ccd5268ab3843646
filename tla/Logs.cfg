\* Two connections, so two stream objects and two goroutines at most; three lines.
SPECIFICATION Spec
CONSTANTS
  Subscribers = {c1, c2}
  MaxStreams = 2
  MaxRuns = 2
  MaxLines = 3
  LogTailLineCount = 1
  Buffer = 1
SYMMETRY Symmetry
INVARIANTS
  OneRunPerStream
  JoinedIsServed
  NoSilentLoss
  NoLineTwice
CHECK_DEADLOCK FALSE
