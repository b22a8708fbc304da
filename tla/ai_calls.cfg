SPECIFICATION FairSpec
CONSTANTS
  MaxRetries = 2
  Cap = 3
  Hints <- HintValues
  ChunkLength = 2
  BatchSize = 2
  Audios <- Files
  MaxTexts = 3
  MaxFrames = 2
INVARIANTS RetryInv SpikesAbsorbed WholeOrNothing PartialsNumbered
PROPERTIES RefusalIsFinal CallsEnd
CHECK_DEADLOCK FALSE
