\* One wake over the guest, beside a list call, a stop handler and a crash, or a config change.
SPECIFICATION SaverFairSpec
CONSTANTS
  Callers = {c1}
  Stoppers = {s1}
  MaxFlights = 1
  MaxFaults = 1
  Native = FALSE
  Containers = {k1}
  Listers = {l1}
  IdleAfter = 1
  Workloads <- MCWorkloads
INVARIANTS
  ActiveMeansStopped
PROPERTIES
  HeldSnapshotIsKept
  IdleEngineStops
