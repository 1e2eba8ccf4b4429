SPECIFICATION PartsSpec
CONSTANTS
  c1 = c1
  c2 = c2
  x = x
  y = y
  e = e
  a = a
  d = d
  q1 = q1
  q2 = q2
  AcmeEntries = {e}
  EntryOf <- OneEntry
  OwnTargets = {x}
  Leader = TRUE
  EnvRows = {a}
  DnsRows = {d}
  Callers = {q1}
  Keep = 1
  RestoreTest = TRUE
  Places = {x, y}
  Names = {e}
  Nameservers = {x, y}
  TargetLists <- OneOrTwo
  AcmeTargets = {x, y}
  MaxBatches = 2
  Rotations = {q1}
  MaxOutages = 0
  MaxConns = 3
  MaxCerts = 2
  Follows = {"docker", "etcd"}
  MaxRevision = 2
  MaxGeneration = 2
  MaxErrors = 1
  ChannelCap = 2
  Clients = {c1, c2}
  MaxVersion = 2
  Peers = {c1, c2}
  MaxPackets = 3
  MaxSessions = 1
  MaxSettings = 2
  MaxEdits = 1
  MaxRetries = 1
  MaxBackups = 2
  MaxDays = 1
  MaxDeletes = 1
  MaxStops = 0
  MaxSlots = 2
  MaxRuns = 2
  MaxKills = 0
  MaxDeployments = 0
  MaxBreaks = 0
  MaxEvents = 0
  MaxPreviews = 0
  MaxTroubles = 0
  Held = {}
  MaxAnswers = 2
  MaxFails = 1
  MaxChanges = 3
  N = 3
  MaxWeight = 2
  Parts = {"cache", "udp", "srv", "robin", "acme", "agent",
           "discovery"}
INVARIANTS
  OneFlightPerKey
  SessionsHold
  NamesRefreshed
  FairPicks
  OrdersApart
  SessionsAgree
  DiscoveryCurrent
CHECK_DEADLOCK FALSE
