SPECIFICATION Spec
CONSTANTS
  a1 = a1
  a2 = a2
  d1 = d1
  d2 = d2
  d3 = d3
  t1 = t1
  t2 = t2
  Apps = {a1}
  Deployments = {d1, d2, d3}
  Targets = {t1}
  AppOf <- OneApp
  TargetsOf <- AllTargets
  SpecTargets <- AllOfApp
  Git = {d1}
  HostPort = {}
  Approval = {d1}
  Holds = {a1}
  Cancels = {}
  Refresh = refresh
  Faults = {}
  MaxBuilds = 1
  MaxRestarts = 1
INVARIANTS
  OnePipeline
  ActiveHasTask
PROPERTIES
  FinishedStays
  ImplementsService
SYMMETRY Alike
