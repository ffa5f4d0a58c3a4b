SPECIFICATION Spec
CONSTANTS
  r1 = r1  r2 = r2  r3 = r3  k1 = k1
  Reqs = {r1, r2, r3}
  Keys = {k1}
  KeyOf <- MCKeyOf
  NoOne = NoOne
  Ttl = 2
  MaxCrashes = 0
  MaxFaults = 0
INVARIANT QueuedReplays
CHECK_DEADLOCK FALSE
