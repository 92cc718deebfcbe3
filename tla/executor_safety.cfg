SPECIFICATION Spec
CONSTANTS
  Ops = {a, b}
  Workers = {w1, w2}
  MaxJobs = 4
  MaxTx = 4
  MaxAttempts = 2
  MaxStalled = 1
  Faulty = {}
  Failing = {b}
  Expiring = {}
  SyncMode = FALSE
  GasOverride = FALSE
  RpcFaults = 1
  QueueFaults = 1
  Crashes = 1
SYMMETRY WorkerSymmetry
CONSTRAINT OneFault
CHECK_DEADLOCK FALSE
INVARIANTS TypeOK NoFutureNonce SuccessIsReal OpInOneJob
PROPERTIES ConfirmedIsFinal
