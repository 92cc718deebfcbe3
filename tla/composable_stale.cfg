SPECIFICATION Spec
CONSTANTS
  a1 = a1
  a2 = a2
  g1 = g1
  s1 = s1
  Accounts = {a1}
  Module = module
  SlotNames = {s1}
  Getters = {g1}
  Words = {0, 1, 2}
  Unset = unset
  Returns <- ShortReturns
  Batches <- CaptureBatches
  MaxWords = 2
  MaxDepth = 1
  MaxBatches = 2
CHECK_DEADLOCK FALSE
INVARIANTS ReadsAreFresh
