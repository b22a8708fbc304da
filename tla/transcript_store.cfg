SPECIFICATION Spec
CONSTANTS
  w1 = w1
  n1 = n1
  u1 = u1
  Drainers <- OneDrainer
  Nows <- OneNow
  Users <- OneUser
  MaxStores = 3
  MaxCrashes = 1
INVARIANTS SettledText TextOfOneRun TitleKept StatusSettles
CHECK_DEADLOCK FALSE
