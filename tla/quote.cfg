SPECIFICATION Spec
CONSTANTS
  NoTrigger = none
  Native = native
  Null = null
  Requests <- SomeRequests
  Traces <- SomeTraces
  PayTraces <- SomePayTraces
  NoAction = noaction
  Blocks <- SomeBlocks
  ChainType <- SomeChains
  GasPrices <- SomeGas
  L1Answers <- SomeL1
  TokenPrices = {0, 4}
  GluexRates = {0, 2}
  Configured <- SomeTokens
  TestChains = {3}
  Retries = 2
CHECK_DEADLOCK FALSE
INVARIANTS TypeOK AcceptedRan GasCovers FundingIsThere ChargedWhatItSigned CommittedVerifies OwnTransfers
