SPECIFICATION FairSpec
CONSTANTS
  s1 = s1
  s2 = s2
  r1 = r1
  r2 = r2
  r3 = r3
  Servers = {s1, s2}
  Requests = {r1, r2}
  Limited = {r1}
  Drained = {s2}
  MaxReloads = 0
  Weight <- Weights
  Enabled <- AlwaysOn
  Ratio = 50
  MinRequests = 1
  Window = 1
  OpenDuration = 1
  MaxFails = 1
  FailTimeout = 1
  ActiveCheck = TRUE
  Attempts = 2
  CounterMax = 1
INVARIANTS
  RefusedOnlyBlocked
PROPERTIES
  Unblocks
