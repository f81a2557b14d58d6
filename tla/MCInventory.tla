---------------------------- MODULE MCInventory ----------------------------
(***************************************************************************)
(* One account of the four services: its network is collected, its buckets, its *)
(* identities or its trails, while the other three are empty.                    *)
(***************************************************************************)
EXTENDS MCNetworkInventory, MCBuckets, MCIdentities, MCTrails

CONSTANT NotListed   \* the stage of a service that is not collected

NoAccount == CHOOSE a \in Accounts : \A b \in Buckets : a.buckets[b] = Missing

BucketsAside ==
  /\ cloud = NoAccount.buckets /\ shield = NoAccount.shield
  /\ keyVersion = [k \in KeyIds |-> 0]
  /\ spoiled = {} /\ refusals = 0 /\ upheavals = 0
  /\ stage = NotListed /\ listing = NothingListed /\ account = Missing
  /\ records = [b \in Buckets |-> Missing] /\ lookups = <<>>

IdentitiesAside ==
  /\ directory = Nobody /\ touched = {} /\ mishaps = 0
  /\ phase = NotListed /\ tasks = {} /\ graph = EmptyGraph

NoTrailsListed == TrailsRead(TrailPages(<<>>, Unset))

TrailsAside ==
  /\ trails = NoTrails.trails /\ storage = NoTrails.storage
  /\ altered = {} /\ troubles = 0
  /\ discovery = NoTrailsListed /\ alone = {} /\ sources = <<>>

NetworkAside == Init /\ held = Empty

InventoryInit ==
  \/ Init /\ BucketsAside /\ IdentitiesAside /\ TrailsAside
  \/ NetworkAside /\ BucketInit /\ IdentitiesAside /\ TrailsAside
  \/ NetworkAside /\ BucketsAside /\ IdentityInit /\ TrailsAside
  \/ NetworkAside /\ BucketsAside /\ IdentitiesAside /\ TrailInit

\* No other service is collected.
NetworkOnly == stage = NotListed /\ phase = NotListed /\ discovery = NoTrailsListed
TrailsOnly == stage = NotListed /\ phase = NotListed /\ held = Empty

InventoryNext ==
  \/ NetworkOnly /\ Next /\ UNCHANGED <<bucketVars, identityVars, trailVars>>
  \/ stage # NotListed /\ BucketNext /\ UNCHANGED <<vars, identityVars, trailVars>>
  \/ phase # NotListed /\ IdentityNext /\ UNCHANGED <<vars, bucketVars, trailVars>>
  \/ TrailsOnly /\ TrailNext /\ UNCHANGED <<vars, bucketVars, identityVars>>

InventorySpec == InventoryInit /\ [][InventoryNext]_<<vars, bucketVars, identityVars, trailVars>>
=============================================================================
