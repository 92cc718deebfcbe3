SPECIFICATION RpcFairSpec
CONSTANTS
  p1 = p1
  p2 = p2
  Providers <- Two
  Listed <- InOrder
  Workers = {t1, api1}
  Cluster = {api1}
  None = None
  FailureThreshold = 2
  MinimumRequests = 2
  PromotionThreshold = 95
  Errors <- SomeErrors
  MaxRounds = 2
  MaxExits = 1
  MaxRequests = 1
CHECK_DEADLOCK FALSE
INVARIANTS RpcTypeOK FailureIsThorough CopiesFollow
PROPERTIES ThreadsConfigured
