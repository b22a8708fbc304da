SPECIFICATION FairSpec
CONSTANTS
  i1 = i1
  i2 = i2
  f1 = f1
  f2 = f2
  Items <- TwoItems
  Queued <- OneItem
  Imported <- OneItem
  Failing <- OtherItem
  Flushes <- TwoFlushes
  MaxOutages = 0
  MaxFailures = 1
  MaxKills = 1
INVARIANTS NothingLost DuplicatesExplained
PROPERTIES OutboxDrains
CHECK_DEADLOCK FALSE
