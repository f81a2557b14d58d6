SPECIFICATION Spec
CONSTANTS
  s1 = s1  s2 = s2  s3 = s3  s4 = s4
  k1 = k1  k2 = k2  k3 = k3
  Scans = {s1, s2, s3, s4}
  Resources = {1, 2}
  Keys = {k1}
  ResourceOf <- MCResourceOf
  ObservedAt <- MCObservedAt
  Manual = {"OPEN", "ACKNOWLEDGED"}
  NoScan = noscan
  Null = null
INVARIANTS FindingsMatchHistory ScansNeverDeadlock
PROPERTIES ScansKeepDispositions
SYMMETRY MCSymmetry
CHECK_DEADLOCK FALSE
