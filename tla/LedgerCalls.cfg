SPECIFICATION Spec
CONSTANTS
  a = a  b = b  c = c  t1 = t1  t2 = t2
  Execs = {a, c}
  NoExec = none
  Targets = {t1, t2}
  TargetOf <- MCTargetOf
  ProposalExpiry <- MCProposalExpiry
  Capacity = 1
  Window = 2
  LeaseTime = 1
  ReadbackTime = 1
  MaxReads = 2
  MaxReadbacks = 1
  Horizon = 4
INVARIANTS ClaimMatchesJournal CapacityRespected
CHECK_DEADLOCK FALSE
