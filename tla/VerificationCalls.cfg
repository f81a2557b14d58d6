SPECIFICATION Spec
CONSTANTS
  e1 = e1  k1 = k1  k2 = k2
  Callers = {a, b}
  Runners = {w}
  Executions = {e1}
  Documents <- MCDocuments
  BaselineAt <- MCBaselineAt
  MaxAttempts = 2
  Nobody = nobody
  NoDocument = nodocument
  NoTime = notime
  Horizon = 1
  MaxFaults = 1
SYMMETRY MCSymmetry
INVARIANTS SealedIffEnded VerifiedMeansOn ReadsNeverConflict
PROPERTIES AttemptsSpec
CHECK_DEADLOCK FALSE
