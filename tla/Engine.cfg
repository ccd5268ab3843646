\* Two launches, two stops and a status call beside the start.
SPECIFICATION FairSpec
CONSTANTS
  Starter = start
  Stoppers = {s1, s2}
  Probers = {q1}
  MaxVMs = 3
INVARIANTS
  OneVM
  NoStrayVM
PROPERTY
  StatusRecovers
