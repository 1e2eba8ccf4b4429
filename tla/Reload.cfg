SPECIFICATION ReloadSpec
CONSTANTS
  s1 = s1
  s2 = s2
  r1 = r1
  r2 = r2
  r3 = r3
  Servers = {s1}
  Requests = {r1, r2, r3}
  Limited = {}
  Drained = {}
  MaxReloads = 1
  Weight <- Weights
  Enabled <- AlwaysOn
  Ratio = 50
  MinRequests = 2
  Window = 1
  OpenDuration = 1
  MaxFails = 1
  FailTimeout = 1
  ActiveCheck = FALSE
  Attempts = 1
  CounterMax = 2
INVARIANTS
  TypeOK
  OneTrial
  ActiveCounts
PROPERTIES
  TrialDecides
