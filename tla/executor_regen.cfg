SPECIFICATION FairSpec
CONSTANTS
  Ops = {a, b}
  Workers = {w1}
  MaxJobs = 4
  MaxTx = 6
  MaxAttempts = 2
  MaxStalled = 1
  Faulty = {b}
  Failing = {}
  Expiring = {b}
  SyncMode = TRUE
  GasOverride = TRUE
  RpcFaults = 1
  QueueFaults = 1
  Crashes = 1
CONSTRAINT TwoFaults
CHECK_DEADLOCK FALSE
PROPERTIES EveryOpFinishes
