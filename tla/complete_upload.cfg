SPECIFICATION Spec
CONSTANTS
  k1 = k1
  k2 = k2
  c1 = c1
  c2 = c2
  c3 = c3
  c4 = c4
  Keys <- TwoKeys
  Calls <- FourCalls
  Overlapping <- OneKey
INVARIANTS NeverDropped
PROPERTIES ContractKept
CHECK_DEADLOCK FALSE
