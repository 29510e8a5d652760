SPECIFICATION Spec
CONSTANTS
  MaxTtl = 2
  NProbes = 1
  Hops = 1
  MaxForeign = 1
INVARIANTS OwnResultV6
CHECK_DEADLOCK FALSE
