SPECIFICATION FairSpec
CONSTANTS
  c1 = c1  c2 = c2  c3 = c3  r1 = r1  a = a  b = b
  Conns = {c1, c2, c3}
  IpOf <- MCIpOf
  Reqs = {r1}
  Addrs = {a, b}
  Nobody = Nobody
  Configs <- MCConfigs
  DefaultRcpts = 2
  DefaultConns = 2
  DefaultPerIP = 1
  AuthBudget = 1
  MaxRefills = 1
  Deadline = 2
  SendMax = 1
  Cases <- MCCases
INVARIANTS SlotsExact RelayedAuthorised EnvelopeKept GuessesBounded DrainOutlastsSends ExitHonest
PROPERTIES DrainEnds SlotsComeBack
CHECK_DEADLOCK FALSE
