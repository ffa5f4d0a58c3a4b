SPECIFICATION FairSpec
CONSTANTS
  m1 = m1  m2 = m2  p1 = p1  p2 = p2  a = a  A = A  b = b
  Mails = {m1, m2}
  Posts = {p1, p2}
  Addrs = {a, A, b}
  Norm <- MCNorm
  RcptsOf <- MCRcptsOf
  EndpointOf <- MCEndpointOf
  Raws <- MCRaws
  Cases <- MCCases
  Nobody = Nobody
  MaxAttempts = 2
  Backoff <- MCBackoff
  BatchSize = 1
  Lag = 0
  MaxSends = 1
INVARIANTS DeadAddressSpared ForwardKept ForwardedOnce
PROPERTY ForwardsSettle
CHECK_DEADLOCK FALSE
