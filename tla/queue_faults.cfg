SPECIFICATION FairSpec
CONSTANTS
  w1 = w1
  r1 = r1
  r2 = r2
  Workers <- OneWorker
  Recordings <- OneRecording
  Deletable <- OneRecording
  MaxJobs = 3
  MaxAttempts = 2
  BatchSize = 2
  StaleAfter = 1
  RateLimitBase = 1
  RateLimitMax = 2
  RetryCap = 1
  RetryHints <- Hints
  CanThrottle <- Both
  MaxCrashes = 1
  MaxFaults = 1
INVARIANTS RetryBudget QueueInv
PROPERTIES CompletedReopenedOnlyByChain LedgerKept QueueDrains
