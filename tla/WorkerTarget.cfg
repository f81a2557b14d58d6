SPECIFICATION WSpec
CONSTANTS
  a = a  b = b  c = c  t1 = t1  t2 = t2  w1 = w1  w2 = w2
  Execs = {a, b}
  NoExec = none
  Targets = {t1}
  TargetOf <- MCTargetOf
  ProposalExpiry <- MCProposalExpiry
  Capacity = 1
  Window = 2
  LeaseTime = 1
  ReadbackTime = 1
  MaxReads = 2
  MaxReadbacks = 1
  Horizon = 4
  Workers = {w1}
  MaxCrashes = 1
INVARIANTS OutstandingWriteHoldsTarget ReservationMatchesPhase
PROPERTIES WriteAuthoritySpec
CHECK_DEADLOCK FALSE
