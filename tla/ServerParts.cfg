SPECIFICATION PartsSpec
CONSTANTS
  c1 = c1
  c2 = c2
  x = x
  y = y
  e = e
  a = a
  d = d
  q1 = q1
  q2 = q2
  AcmeEntries = {e}
  EntryOf <- OneEntry
  OwnTargets = {x}
  Leader = TRUE
  EnvRows = {a}
  DnsRows = {d}
  Callers = {q1}
  Keep = 1
  RestoreTest = TRUE
  Places = {x, y}
  Names = {e}
  Nameservers = {x, y}
  TargetLists <- OneOrTwo
  AcmeTargets = {x, y}
  MaxBatches = 1
  Rotations = {q1, q2}
  MaxOutages = 1
  MaxConns = 1
  MaxCerts = 1
  Follows = {"docker", "etcd"}
  MaxRevision = 1
  MaxGeneration = 1
  MaxErrors = 1
  ChannelCap = 1
  Clients = {c1, c2}
  MaxVersion = 1
  Peers = {c1}
  MaxPackets = 1
  MaxSessions = 1
  MaxSettings = 1
  MaxEdits = 0
  MaxRetries = 2
  MaxBackups = 2
  MaxDays = 1
  MaxDeletes = 1
  MaxStops = 1
  MaxSlots = 2
  MaxRuns = 3
  MaxKills = 1
  MaxDeployments = 3
  MaxBreaks = 1
  MaxEvents = 3
  MaxPreviews = 2
  MaxTroubles = 1
  Held = {2}
  MaxAnswers = 1
  MaxFails = 1
  MaxChanges = 2
  N = 1
  MaxWeight = 1
  Parts = {"keys", "backup", "command", "compose", "preview"}
INVARIANTS
  SealedOpens
  BackupsKept
  NeverTwice
  ComposeKept
  PreviewFollows
CHECK_DEADLOCK FALSE
