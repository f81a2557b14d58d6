SPECIFICATION Spec
CONSTANTS
  alice = alice  bob = bob  k1 = k1  k2 = k2  f1 = f1  f2 = f2  p1 = p1  p2 = p2  s1 = s1  s2 = s2
  Sessions = {s1, s2}
  Findings = {f1, f2}
  Proposals = {p1, p2}
  Requests <- MCRequests
  Ttl = 1
  Horizon = 1
  MaxEvents <- MCMaxEvents
  MaxScans <- MCMaxScans
  None = none
INVARIANTS AnswersAreOwn
PROPERTIES ApprovedWhileCurrent AuthoritySpec
CHECK_DEADLOCK FALSE
SYMMETRY Symmetric
