SPECIFICATION Spec
CONSTANTS
  w1 = w1
  r1 = r1
  r2 = r2
  Workers <- OneWorker
  Recordings <- TwoRecordings
  Deletable <- OneRecording
  MaxJobs = 4
  MaxAttempts = 2
  BatchSize = 2
  StaleAfter = 1
  RateLimitBase = 1
  RateLimitMax = 2
  RetryCap = 1
  RetryHints <- NoHint
  CanThrottle <- WhisperOnly
  MaxCrashes = 0
  MaxFaults = 0
INVARIANTS NoStrandedRecording AnalysisChained AttemptsAccounted
