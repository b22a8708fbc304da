SPECIFICATION FairSpec
CONSTANTS
  w1 = w1
  r1 = r1
  r2 = r2
  Workers <- OneWorker
  Recordings <- TwoRecordings
  Deletable <- None
  MaxJobs = 3
  MaxAttempts = 1
  BatchSize = 2
  StaleAfter = 1
  RateLimitBase = 1
  RateLimitMax = 2
  RetryCap = 1
  RetryHints <- NoHint
  CanThrottle <- ChatOnly
  MaxCrashes = 0
  MaxFaults = 0
PROPERTY EveryClipTranscribed
