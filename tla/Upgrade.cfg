SPECIFICATION FairSpec
CONSTANTS
  a1 = a1
  a2 = a2
  Addrs = {a1, a2}
  Start = {a1, a2}
  MaxUpgrades = 3
  MaxEdits = 2
  BusCap = 3
  Burst = 1
  MaxBursts = 2
CHECK_DEADLOCK FALSE
INVARIANTS
  AlwaysOpen
PROPERTIES
  HandoverEnds
