SPECIFICATION Spec
CONSTANTS
  s1 = s1  s2 = s2  s3 = s3  s4 = s4  s5 = s5
  Scans = {s1, s2, s3, s4}
  Jobs = {j1, j2, j3, j4}
  NoScan = noscan
  NoJob = nojob
  Startup = startup
  Pool = pool
  Backlog = {s1, s2, s3}
  StartedAt <- MCStartedAt
  MaxWorkers = 2
  MaxOutstanding = 2
  QueriesFail = FALSE
  MaxOrphans = 0
  MaxRestarts = 1
SYMMETRY MCSymmetry
INVARIANTS OneJobPerScan NoSlotLeaks BacklogIsRemembered
PROPERTIES TerminalIsFinal
CHECK_DEADLOCK FALSE
