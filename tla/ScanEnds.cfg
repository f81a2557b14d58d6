SPECIFICATION FairSpec
CONSTANTS
  s1 = s1  s2 = s2  s3 = s3  s4 = s4  s5 = s5
  Scans = {s1, s2, s3}
  Jobs = {j1, j2, j3}
  NoScan = noscan
  NoJob = nojob
  Startup = startup
  Pool = pool
  Backlog = {s1}
  StartedAt <- MCStartedAt
  MaxWorkers = 1
  MaxOutstanding = 2
  QueriesFail = TRUE
  MaxOrphans = 1
  MaxRestarts = 1
INVARIANTS NoScanIsStranded
PROPERTIES ScheduledScanEnds
CHECK_DEADLOCK FALSE
