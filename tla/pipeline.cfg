SPECIFICATION FairSpec
CONSTANTS
  o1 = o1
  o2 = o2
  o3 = o3
  o4 = o4
  Ops = {o1, o2, o4}
  Requests = {r1}
  Quotes <- SomeQuotes
  MaxSims = 4
  Concurrency = 2
  MaxAttempts = 2
  MaxStalled = 1
  Gas <- GasOf
  GasCap = 3
  MaxBlocks = 3
CHECK_DEADLOCK FALSE
INVARIANTS TypeOK NothingLost BlocksFit
PROPERTIES KeepsPromise 
