SPECIFICATION FairSpec
CONSTANTS
  Absent = Absent
  MaxKeys = 2
  DefaultCsrfTTL = 6
  DefaultPobTTL = 4
  DefaultCacheTTL = 1
  DefaultCaptchaTimeout = 2
  DefaultLookupTimeout = 1
  DefaultMaxBody = 4
  DefaultMaxCount = 2
  DefaultMaxTotal = 4
  Ids = {1, 2, 3, 4}
  Cases <- MCCases
  Callers = {"a", "b", "c", "key"}
  Keys = {"k"}
  Second = 2
  AuthBudget = 1
  AuthInterval = 2
INVARIANTS RateHeld NeverOvercharged NothingUnchecked TokenTimely OpinionFresh
PROPERTY Answered
