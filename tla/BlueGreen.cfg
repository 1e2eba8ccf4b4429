SPECIFICATION Spec
CONSTANTS
  a1 = a1
  a2 = a2
  d1 = d1
  d2 = d2
  d3 = d3
  t1 = t1
  t2 = t2
  Apps = {a1}
  Deployments = {d2, d3}
  Targets = {t1, t2}
  AppOf <- OneApp
  TargetsOf <- AllTargets
  SpecTargets <- AllOfApp
  Git = {}
  HostPort = {}
  Approval = {}
  Holds = {}
  Cancels = {}
  Refresh = refresh
  Faults = {"store", "runtime", "inspect"}
  MaxBuilds = 1
  MaxRestarts = 0
INVARIANTS
  RunningServes
SYMMETRY AlikeHosts
