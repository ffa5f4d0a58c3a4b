SPECIFICATION CliSpec
CONSTANTS
  s1 = s1
  Nobody = Nobody
  Subs = {s1}
  MetaOnly = {}
  MaxAttempts = 2
  Backoff <- MCBackoff
  BatchSize = 1
  Lag = 1
  MaxCrashes = 0
  MaxFaults = 0
  MaxOpens = 1
INVARIANT DuplicatesNeedCrash
