SPECIFICATION Spec
CONSTANTS
  r1 = r1  r2 = r2  r3 = r3  r4 = r4  k1 = k1  k2 = k2
  Reqs = {r1, r2, r3, r4}
  Keys = {k1, k2}
  KeyOf <- MCKeyOf
  NoOne = NoOne
  Ttl = 2
  MaxCrashes = 1
  Capacity = 1
INVARIANTS TypeOK ClaimsMatchHandlers ReplayFaithful SentOnce
PROPERTY ContractSpec
CHECK_DEADLOCK FALSE
