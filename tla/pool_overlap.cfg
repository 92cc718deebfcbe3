SPECIFICATION Spec
CONSTANTS
  Master = m
  e1 = e1
  e2 = e2
  Extra <- TwoExtra
  WorkerCount = 2
  MaxPending = 2
  Changes = 0
  RpcFaults = 0
  RedisFaults = 0
  Crashes = 0
CHECK_DEADLOCK FALSE
INVARIANT OneWorkerPerEoa
