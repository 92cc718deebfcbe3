SPECIFICATION FairSpec
CONSTANTS
  Ops = {0, 1}
  ChainOf <- TwoChains
  r1 = r1
  r2 = r2
  q1 = q1
  q2 = q2
  Requests = {r1, r2}
  Queries = {q1, q2}
  None = None
  WaitConfirmations = 2
  Asked = {2, 3}
  LowBlockTime = TRUE
  Lag = 1
  Scenarios <- Four
CHECK_DEADLOCK FALSE
INVARIANTS TypeOK ConfirmedIsDeep AnswersStay QueuedOnce
PROPERTIES AcceptedEnds
