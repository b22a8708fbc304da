SPECIFICATION ElectionFairSpec
CONSTANTS
  p1 = p1
  p2 = p2
  s1 = s1
  Web <- TwoWeb
  Services <- OneService
  EnvFiles <- AnyEnvFile
  UnitSetting = "false"
  Posix = TRUE
  ConnectTries = 2
  MaxKills = 1
INVARIANT OneElected
PROPERTIES QueueServed Reconnected
