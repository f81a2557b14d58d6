SPECIFICATION BucketSpec
CONSTANTS
  Buckets = {"b1", "b2"}
  KeyIds = {"k1"}
  Missing = Missing
  Accounts <- MCAccounts
  Rewrites <- MCRewrites
  KeyRegion <- MCKeyRegion
  MaxRefusals = 1
  MaxUpheavals = 1
  Approvals <- MCApprovals
  SensitiveTags = {"secret"}
  Declared <- MCDeclared
INVARIANT GraphIsAccepted
CHECK_DEADLOCK FALSE
