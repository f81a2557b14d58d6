---------------------------- MODULE MCIdentities ----------------------------
(***************************************************************************)
(* Accounts of two users with devices and keys, and one with a user, a group    *)
(* and a role that share policies; what they may turn into; one mishap.         *)
(***************************************************************************)
EXTENDS IdentityControls

AccessKey(id, status, created, used) == [id |-> id, status |-> status, created |-> created, used |-> used]

Someone(kind, id) ==
  [kind |-> kind, id |-> id, devices |-> {}, keys |-> {}, members |-> {}, attached |-> {},
   boundary |-> NoValue, inline |-> <<>>]
User(id) == Someone("user", id)

Directory(principals, policies) == [principals |-> principals, policies |-> policies, root |-> {"mfa"}]
NoPolicies == <<>>

\* Each has two devices; ann has a key that is too old, bob one used while it was scanned.
Ann == [User("A1") EXCEPT !.devices = {"m1", "m3"}, !.keys = {AccessKey("k1", "Active", 0, NoValue)}]
Bob == [User("B1") EXCEPT !.devices = {"m2", "m4"}, !.keys = {AccessKey("k2", "Active", 2, 2)}]

People == Directory([ann |-> Ann, bob |-> Bob], NoPolicies)
PeopleLater ==
  {Directory([ann |-> Bob, bob |-> Ann], NoPolicies),
   Directory([ann |-> [Ann EXCEPT !.devices = {"m2", "m3"}], bob |-> [Bob EXCEPT !.devices = {"m1", "m4"}]], NoPolicies),
   Directory([ann |-> [Ann EXCEPT !.id = "A2"], bob |-> Bob], NoPolicies),
   Directory([ann |-> Ann], NoPolicies),
   [People EXCEPT !.root = {"keys"}]}

\* Every key one control tells from another.
KeyAccounts ==
  {Directory([ann |-> [User("A1") EXCEPT !.keys = {AccessKey("k1", s, c, u), AccessKey("k2", "Inactive", 0, 0)}]], NoPolicies) :
     s \in {"Active", "Expired"}, c \in {0, 2, 4}, u \in {NoValue, 1, 2, 4}}

Document(version, document) == [version |-> version, document |-> document]
Team ==
  Directory([ann |-> [User("A1") EXCEPT !.boundary = "aws:limit", !.inline = [own |-> "admin"]],
           ops |-> [Someone("group", "G1") EXCEPT !.members = {"A1"}, !.attached = {"local"}],
           job |-> [Someone("role", "R1") EXCEPT !.attached = {"local"}, !.inline = [own |-> "odd"]]],
          [p \in {"local", "spare", "aws:limit"} |-> Document("v1", IF p = "aws:limit" THEN "admin" ELSE "narrow")])
TeamLater ==
  {[Team EXCEPT !.policies = [@ EXCEPT !["local"] = Document("v2", "admin")]],
   [Team EXCEPT !.principals = [@ EXCEPT !.job.attached = {"local", "aws:limit"}]],
   [Team EXCEPT !.principals = [@ EXCEPT !.ann.id = "A2", !.ops.members = {"A2"}]],
   [Team EXCEPT !.principals = [@ EXCEPT !.ops.id = "G2"]],
   Directory([ann |-> Team.principals.ann], [p \in {"aws:limit"} |-> Document("v1", "admin")])}

Nobody == Directory(<<>>, NoPolicies)

MCDirectories == {People, Team, Nobody} \cup PeopleLater \cup TeamLater \cup KeyAccounts
MCTurns == [d \in MCDirectories |-> IF d = People THEN PeopleLater ELSE IF d = Team THEN TeamLater ELSE {}]
=============================================================================
