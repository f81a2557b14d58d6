SPECIFICATION InventorySpec
CONSTANTS
  Mine = mine
  Theirs = theirs
  Unread = Unread
  None = None
  NoId = NoId
  Anyone = Anyone
  NoSnapshot = NoSnapshot
  Account = Account
  Holdings <- MCHoldings
  MaxRepeats = 1
  MaxFaults = 1
  ApprovedPublic <- MCApprovedPublic
  RiskyPorts <- MCRiskyPorts
  RequiredEnvironments <- MCRequiredEnvironments
  AcceptedTraffic <- MCAcceptedTraffic
  Buckets = {"b1", "b2"}
  KeyIds = {"k1"}
  Missing = Missing
  Accounts <- MCAccounts
  Rewrites <- MCRewrites
  KeyRegion <- MCKeyRegion
  MaxRefusals = 1
  MaxUpheavals = 1
  Approvals <- MCApprovals
  SensitiveTags = {"secret"}
  Declared <- MCDeclared
  NotListed = NotListed
  Directories <- MCDirectories
  Turns <- MCTurns
  AwsManaged = {"aws:limit"}
  NoValue = NoValue
  MaxMishaps = 1
  ObservedAt = 3
  StaleKeyDays = 2
  MaxUnusedKeyDays = 1
  Trails = {"t1", "t2", "t3", "o1"}
  ForeignTrails = {"o1"}
  HomeRegionOf <- MCHomeRegionOf
  TrailAccounts <- MCTrailAccounts
  TrailRewrites <- MCTrailRewrites
  TagBatchSize = 2
  Unset = Unset
  MaxTroubles = 2
INVARIANTS
  VerdictsAreTrue
  NothingIsOverlooked
  SnapshotIsAdmissible
  StatusIsTrue
  RelationshipsAreTrue
  OnlyOrphansRefuse
  BucketVerdictsAreTrue
  NoBucketIsOverlooked
  IdentityGraphStands
  IdentityVerdictsAreTrue
  NoIdentityIsOverlooked
  TrailGraphStands
  TrailVerdictsAreTrue
CHECK_DEADLOCK FALSE
