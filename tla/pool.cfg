SPECIFICATION FairSpec
CONSTANTS
  Master = m
  e1 = e1
  e2 = e2
  Extra <- TwoExtra
  WorkerCount = 2
  MaxPending = 2
  Changes = 2
  RpcFaults = 1
  RedisFaults = 1
  Crashes = 1
CONSTRAINT TwoFaults
CHECK_DEADLOCK FALSE
INVARIANTS TypeOK OneWorkerUnlessOverlap QueuesFollowHealth
PROPERTIES RegisteredFollow
