SPECIFICATION Spec
CONSTANTS
  Token = token
  Impl = impl
  Store2 = store
  Null = null
  c1 = c1
  c2 = c2
  c3 = c3
  Calls = {c1, c2, c3}
  Scenarios <- SomeScenarios
INVARIANTS TypeOK RecordsHold
PROPERTIES EveryCallEnds
