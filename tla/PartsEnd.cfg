SPECIFICATION FairPartsSpec
CONSTANTS
  c1 = c1
  c2 = c2
  x = x
  y = y
  e = e
  a = a
  d = d
  q1 = q1
  q2 = q2
  AcmeEntries = {e}
  EntryOf <- OneEntry
  OwnTargets = {x}
  Leader = TRUE
  EnvRows = {a}
  DnsRows = {d}
  Callers = {}
  Keep = 1
  RestoreTest = TRUE
  Places = {x, y}
  Names = {e}
  Nameservers = {x, y}
  TargetLists <- OneOrTwo
  AcmeTargets = {x, y}
  MaxBatches = 1
  Rotations = {q1}
  MaxOutages = 0
  MaxConns = 2
  MaxCerts = 1
  Follows = {"docker", "etcd"}
  MaxRevision = 1
  MaxGeneration = 1
  MaxErrors = 1
  ChannelCap = 1
  Clients = {c1, c2}
  MaxVersion = 1
  Peers = {c1}
  MaxPackets = 1
  MaxSessions = 1
  MaxSettings = 1
  MaxEdits = 0
  MaxRetries = 2
  MaxBackups = 4
  MaxDays = 2
  MaxDeletes = 0
  MaxStops = 0
  MaxSlots = 2
  MaxRuns = 2
  MaxKills = 0
  MaxDeployments = 0
  MaxBreaks = 0
  MaxEvents = 0
  MaxPreviews = 0
  MaxTroubles = 0
  Held = {}
  MaxAnswers = 1
  MaxFails = 1
  MaxChanges = 2
  N = 1
  MaxWeight = 1
  Parts = {"acme", "agent", "discovery", "cache", "backup", "command",
           "srv"}
PROPERTIES
  
  DeadLeaves
  ProxiesFollow
  RequestEnds
  SlotSettled
  DueRuns
  SrvFollows
CHECK_DEADLOCK FALSE
