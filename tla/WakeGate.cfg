\* More connections than slots.
SPECIFICATION GateFairSpec
CONSTANTS
  Conns = {c1, c2, c3}
  Slots = 2
INVARIANTS
  GateBalanced
PROPERTIES
  ImplementsPool
  EveryCallEnds
