SPECIFICATION FairSpec
CONSTANTS
  Containers = {c1}
  Reader = ui
  Sampler = sampler
  Watchers = {w1, w2}
  Callers = {ui, sampler, w1, w2}
  None = none
  MaxChanges = 1
  Plans <- MCPlans
INVARIANTS
  RecordIsReal
PROPERTIES
  ListSettles
  ListenersSettle
  HistoryForgets
