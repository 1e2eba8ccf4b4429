SPECIFICATION FairSpec
CONSTANTS
  a1 = a1
  a2 = a2
  d1 = d1
  d2 = d2
  d3 = d3
  t1 = t1
  t2 = t2
  Apps = {a1}
  Deployments = {d1, d2}
  Targets = {t1}
  AppOf <- OneApp
  TargetsOf <- AllTargets
  SpecTargets <- AllOfApp
  Git = {d1, d2}
  HostPort = {d1, d2}
  Approval = {}
  Holds = {}
  Cancels = {}
  Refresh = refresh
  Faults = {}
  MaxBuilds = 1
  MaxRestarts = 0
INVARIANTS
  IdleServes
PROPERTIES
  TaskEnds
  QueuedRuns
