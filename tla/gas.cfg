SPECIFICATION Spec
CONSTANTS
  up = up
  down = down
  Chains = {up, down}
  First = up
  Mode <- Modes
  Eip1559 = {up}
  LeastFee <- Floors
  L1Of <- Below
  Quotes <- Prices3
  Histories <- Blocks
  Tips <- SomeTips
  Null = null
  Gwei = 3
  Api = api
  Threads = {up, down}
  MaxHistory = 4
  Attempts = 3
  Budgets <- Scenarios
CHECK_DEADLOCK FALSE
INVARIANTS TypeOK FeesInRange CopyKnows
PROPERTIES KnownStays
