SPECIFICATION Spec
CONSTANTS
  s1 = s1
  s2 = s2
  Nobody = Nobody
  Subs = {s1, s2}
  MetaOnly = {s2}
  MaxAttempts = 2
  Backoff <- MCBackoff
  BatchSize = 2
  Lag = 1
  MaxCrashes = 1
  MaxFaults = 1
INVARIANTS
  TypeOK
  SingleSender
  TablesAgree
  AcknowledgedKept
  FullLadder
  CleanRunSendsOnce
  RefusalIsFinal
PROPERTIES
  SettledStaysSettled
  LogSpec
