SPECIFICATION StartsSpec
CONSTANTS
  MaxWorkers = 3
  MaxCrashes = 2
  MaxConf = 1
  IpcCap = 3
  EventCap = 3
  MaxLate = 1
  EarlyFails = TRUE
CHECK_DEADLOCK FALSE
INVARIANTS
  OneWorker
PROPERTIES
  WorkerReturns
  HungReported
  DeadUnlisted
