SPECIFICATION FairSpec
CONSTANTS
  s1 = s1
  s2 = s2
  Nobody = Nobody
  Subs = {s1, s2}
  MetaOnly = {}
  MaxAttempts = 2
  Backoff <- MCBackoff
  BatchSize = 1
  Lag = 1
  MaxCrashes = 1
  MaxFaults = 0
PROPERTIES
  LogFairSpec
  QueuedSettles
