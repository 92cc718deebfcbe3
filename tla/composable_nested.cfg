SPECIFICATION Spec
CONSTANTS
  a1 = a1
  a2 = a2
  g1 = g1
  s1 = s1
  Accounts = {a1, a2}
  Module = module
  SlotNames = {s1}
  Getters = {g1}
  Words = {0, 1}
  Unset = unset
  Returns <- NestedReturns
  Batches <- CaptureBatches
  MaxWords = 1
  MaxDepth = 3
  MaxBatches = 3
CHECK_DEADLOCK FALSE
INVARIANTS TypeOK CapturesStay
