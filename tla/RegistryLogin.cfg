\* A login session and another caller over the native runtime.
SPECIFICATION LoginFairSpec
CONSTANTS
  c1 = c1
  c2 = c2
  l1 = l1
  l2 = l2
  Callers = {c1, c2, l1, l2}
  Sessions = {l1, l2}
  Stoppers = {s1}
  MaxFlights = 2
  MaxFaults = 1
  MaxMisses = 2
  Plans <- MCPlans
  Native = TRUE
INVARIANTS
  SignedInIsStored
PROPERTIES
  ImplementsSingleFlight
  EveryCallReturns
  CancelIsHonoured
  DialogCloses
