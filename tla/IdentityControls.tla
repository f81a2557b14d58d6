-------------------------- MODULE IdentityControls --------------------------
(***************************************************************************)
(* The IAM controls over a finished identity graph: IAM-001 trusts each user's *)
(* devices, IAM-002 and IAM-003 prove the keys of a user, IAM-004 the whole    *)
(* population of permissions policies, IAM-005 and IAM-006 the summary.        *)
(***************************************************************************)
EXTENDS IdentityCollection

CONSTANTS
  ObservedAt,     \* collected_at: times are days
  StaleKeyDays, MaxUnusedKeyDays

-----------------------------------------------------------------------------
(* AssessmentEvidenceReader.resolve_source                                   *)

OutcomesFor(kind, about) == OutcomesOf(graph, kind, about)

\* One outcome, in a state that completes the source; nothing was discarded then.
CompleteAs(states, kind, about) ==
  Cardinality(OutcomesFor(kind, about)) = 1 /\ \A o \in OutcomesFor(kind, about) : o.state \in states
Completed(kind, about) == CompleteAs({"PRESENT"}, kind, about)

SaidBy(kind, about) == UNION {o.says : o \in OutcomesFor(kind, about)}

\* The listing is complete and names the resources there are.
PopulationKnown(type, things) ==
  Completed(type, Everything) /\ SaidBy(type, Everything) = Ids(things)

LinksFrom(type, source) == {l \in graph.links : l.type = type /\ l.source = source}
TargetsOf(links) == {l.target : l \in links}

\* A source, and exactly the relationships it announces.
LinkedAs(type, kind, source, targets) ==
  /\ Completed(kind, source)
  /\ TargetsOf(LinksFrom(type, source)) = targets
  /\ \A l \in LinksFrom(type, source) : l.by = [kind |-> kind, about |-> source]

-----------------------------------------------------------------------------
(* IAM-001                                                                   *)

\* collection_status_for: every outcome of iam_users.
UsersCollectorSucceeded ==
  \A o \in graph.outcomes : o.kind # "summary" => o.state \in {"PRESENT", "EXPECTED_ABSENCE"}

DeviceResult(user) ==
  IF ~UsersCollectorSucceeded /\ ~\E o \in OutcomesFor("device", user) : o.state = "PRESENT"
  THEN "INSUFFICIENT"
  ELSE IF SaidBy("device", user) = {} THEN "FAIL" ELSE "PASS"

DiscoverySucceeded == \E o \in OutcomesFor("user", Everything) : o.state = "PRESENT"

-----------------------------------------------------------------------------
(* IAM-002 and IAM-003: iam_key_proof                                          *)

KeysOf(user) == {k \in OfType("key") : graph.things[k].owner = Head(user.id)}
ActiveKeys(user) == {k \in KeysOf(user) : graph.things[k].status = "Active"}

KeyIsIdentified(k) ==
  /\ Completed("identity", k)
  /\ graph.things[k].status \in {"Active", "Inactive"}
  /\ graph.things[k].status = "Active" => graph.things[k].created <= ObservedAt

KeysAreProven(user) ==
  /\ PopulationKnown("user", OfType("user"))
  /\ Completed("identity", user) /\ Completed("key", user)
  /\ SaidBy("key", user) = Ids(KeysOf(user))
  /\ TargetsOf(LinksFrom("key", user)) = KeysOf(user)
  /\ \A l \in LinksFrom("key", user) : l.by = [kind |-> "identity", about |-> l.target]
  /\ \A k \in KeysOf(user) : KeyIsIdentified(k)

\* Mutant of UsageIsProven: a call that failed stands for a key never used.
UsageIsAsked(k) == OutcomesFor("usage", k) # {}

UsageIsProven(k) ==
  /\ CompleteAs({"PRESENT", "EXPECTED_ABSENCE"}, "usage", k)
  /\ graph.things[k].used # NoValue =>
       graph.things[k].created <= graph.things[k].used /\ graph.things[k].used <= ObservedAt

\* The day the age of a key counts from.
Anchor(control, created, used) ==
  IF control = "IAM-003" /\ used # NoValue THEN used ELSE created

Threshold(control) == IF control = "IAM-002" THEN StaleKeyDays ELSE MaxUnusedKeyDays
IsStale(control, created, used) == ObservedAt - Anchor(control, created, used) > Threshold(control)

KeyResult(control, user) ==
  IF ~KeysAreProven(user) THEN "INSUFFICIENT"
  ELSE IF ActiveKeys(user) = {} THEN "N/A"
  ELSE IF control = "IAM-003" /\ \E k \in ActiveKeys(user) : ~UsageIsProven(k) THEN "INSUFFICIENT"
  ELSE IF \E k \in ActiveKeys(user) : IsStale(control, graph.things[k].created, graph.things[k].used)
  THEN "FAIL" ELSE "PASS"

-----------------------------------------------------------------------------
(* IAM-004: _coverage, policy_targets, iam_policy_proof                         *)

Principals == OfType("user") \cup OfType("group") \cup OfType("role")
PoliciesOf(arns) == {Thing("policy", <<a>>) : a \in arns}
InlineOf(owner) == {Inline(owner, n) : n \in SaidBy("inline", owner)}
IsLocal(policy) == Head(policy.id) \notin AwsManaged

\* The members of a group point to it.
MembersAreProven(group) ==
  LET links == {l \in graph.links : l.type = "member" /\ l.target = group}
  IN /\ Completed("members", group)
     /\ {Head(l.source.id) : l \in links} = SaidBy("members", group)
     /\ \A l \in links : l.by = [kind |-> "members", about |-> group]

\* Everything a principal uses is known.
OwnerIsCovered(owner) ==
  /\ Completed("identity", owner)
  /\ owner.type = "group" => MembersAreProven(owner)
  /\ LinkedAs("attached", "attached", owner, PoliciesOf(SaidBy("attached", owner)))
  /\ owner.type # "group" => LinkedAs("boundary", "profile", owner, PoliciesOf(SaidBy("profile", owner)))
  /\ LinkedAs("inline", "inline", owner, InlineOf(owner))

\* Mutant of Covered: the policies that are used are the population.
UsedPoliciesAreCovered ==
  /\ \A type \in {"user", "group", "role"} : Completed(type, Everything)
  /\ \A owner \in Principals : OwnerIsCovered(owner)

UsedBy(type) == UNION {TargetsOf(LinksFrom(type, owner)) : owner \in Principals}

Covered ==
  /\ \A type \in {"user", "group", "role"} : PopulationKnown(type, OfType(type))
  /\ PopulationKnown("policy", {p \in OfType("policy") : IsLocal(p)})
  /\ \A owner \in Principals : OwnerIsCovered(owner)
  /\ OfType("policy") = PoliciesOf(SaidBy("policy", Everything)) \cup UsedBy("attached") \cup UsedBy("boundary")
  /\ OfType("inline") = UsedBy("inline")

\* A policy whose default version is missing stands for its document.
PolicyTargets ==
  OfType("version") \cup OfType("inline")
  \cup {p \in OfType("policy") : VersionOf(Head(p.id), graph.things[p].version) \notin Things}

\* The version is the one its policy selects.
IsSelected(version) ==
  LET policy == Thing("policy", <<Head(version.id)>>)
  IN /\ version = VersionOf(Head(version.id), graph.things[policy].version)
     /\ SaidBy("metadata", policy) = {graph.things[policy].version}
     /\ LinkedAs("default", "metadata", policy, {version})

\* _statements refuses documents whose syntax it does not know.
PolicyResult(target) ==
  LET document == SaidBy("document", target)
  IN IF \/ ~Covered \/ target.type = "policy"
        \/ target.type = "version" /\ ~IsSelected(target)
        \/ ~Completed("document", target) \/ "odd" \in document
     THEN "INSUFFICIENT"
     ELSE IF "admin" \in document THEN "FAIL" ELSE "PASS"

-----------------------------------------------------------------------------
(* Verdicts                                                                  *)

SummaryResult(control) ==
  IF ~Completed("summary", Everything) THEN "INSUFFICIENT"
  ELSE CASE control = "IAM-005" -> IF "keys" \in SaidBy("summary", Everything) THEN "FAIL" ELSE "PASS"
         [] control = "IAM-006" -> IF "mfa" \in SaidBy("summary", Everything) THEN "PASS" ELSE "FAIL"

IdentityControlIds == {"IAM-001", "IAM-002", "IAM-003", "IAM-004", "IAM-005", "IAM-006"}

\* Without targets the account is assessed; IAM-001 needs the listing of users first.
IdentityTargets(control) ==
  LET found == CASE control = "IAM-001" ->
                      IF UsersCollectorSucceeded \/ DiscoverySucceeded THEN OfType("user") ELSE {}
                 [] control \in {"IAM-002", "IAM-003"} -> OfType("user")
                 [] control = "IAM-004" -> PolicyTargets
                 [] OTHER -> {}
  IN IF found = {} THEN {Everything} ELSE found

AccountResult(control) ==
  CASE control = "IAM-001" -> IF UsersCollectorSucceeded \/ DiscoverySucceeded THEN "N/A" ELSE "INSUFFICIENT"
    [] control \in {"IAM-002", "IAM-003"} ->
         IF PopulationKnown("user", {}) /\ OfType("user") = {} THEN "N/A" ELSE "INSUFFICIENT"
    [] control = "IAM-004" -> IF Covered THEN "N/A" ELSE "INSUFFICIENT"
    [] OTHER -> SummaryResult(control)

IdentityResult(control, target) ==
  IF target = Everything THEN AccountResult(control)
  ELSE CASE control = "IAM-001" -> DeviceResult(target)
         [] control \in {"IAM-002", "IAM-003"} -> KeyResult(control, target)
         [] OTHER -> PolicyResult(target)

IdentityVerdicts ==
  IF ~IdentitiesCollected THEN {}
  ELSE UNION {{[control |-> c, target |-> t, result |-> IdentityResult(c, t)] :
                 t \in IdentityTargets(c)} : c \in IdentityControlIds}

-----------------------------------------------------------------------------
(* Properties                                                                *)

\* What the validators of the evidence graph require: every outcome and every
\* relationship is about resources of the scan, no source has two outcomes, and a
\* relationship rests on one that is complete. A device or key that is related is announced
\* by its user's source: complete, or in conflict because of another child of the user. A
\* child that two users were seen with leaves no trace but their two conflicts.
IdentityGraphStands ==
  IdentitiesCollected =>
    /\ \A o \in graph.outcomes :
         /\ o.about \in Things \cup {Everything}
         /\ OutcomesFor(o.kind, o.about) = {o}
    /\ \A t \in Things : Completed("identity", t)
    /\ \A l \in graph.links :
         /\ {l.source, l.target} \subseteq Things
         /\ Completed(l.by.kind, l.by.about)
         /\ l.type \in {"device", "key"} =>
              /\ CompleteAs({"PRESENT", "CONFLICT"}, l.type, l.source)
              /\ Head(l.target.id) \in SaidBy(l.type, l.source)
    /\ \A c \in graph.contested :
         /\ c \notin Things
         /\ \E u, w \in OfType("user") :
              u # w /\ \A p \in {u, w} : CompleteAs({"CONFLICT"}, c.type, p)

\* Nothing about the principal or the policy changed during the scan.
Untouched(thing) ==
  CASE thing.type = "version" -> Head(thing.id) \notin touched
    [] thing.type = "inline" -> NameOf(graph.things[thing].owner) \notin touched
    [] thing = Everything -> "root" \notin touched
    [] OTHER -> NameOf(thing) \notin touched

HeldActive(user) == {k \in Named(user).keys : k.status = "Active"}

\* The account deserves the verdict PASS.
IsSafe(control, target) ==
  CASE control = "IAM-001" -> Named(target).devices # {}
    [] control \in {"IAM-002", "IAM-003"} ->
         \A k \in HeldActive(target) : ~IsStale(control, k.created, k.used)
    [] control = "IAM-004" /\ target.type = "version" -> directory.policies[Head(target.id)].document # "admin"
    [] control = "IAM-004" /\ target.type = "inline" ->
         Named(graph.things[target].owner).inline[target.id[3]] # "admin"
    [] control = "IAM-005" -> "keys" \notin directory.root
    [] control = "IAM-006" -> "mfa" \in directory.root

\* A verdict on an identity that nobody touched during the scan is what its devices,
\* keys and documents deserve: calls that fail, children that appear under two users
\* and principals that exchange their names never make it PASS or FAIL wrongly.
IdentityVerdictsAreTrue ==
  \A v \in IdentityVerdicts :
    (v.result \in {"PASS", "FAIL"} /\ Untouched(v.target)) =>
      (v.result = "PASS" <=> IsSafe(v.control, v.target))

\* The principals and documents a control is about, of those nobody touched.
Answerable(control) ==
  LET steady == DOMAIN directory.principals \ touched
  IN CASE control \in {"IAM-001", "IAM-002", "IAM-003"} ->
            {Thing("user", <<directory.principals[n].id>>) : n \in NamesOf("user") \cap steady}
       [] control = "IAM-004" ->
            {VersionOf(a, directory.policies[a].version) :
               a \in (LocalPolicies \cup (UNION {directory.principals[n].attached : n \in steady})
                                 \cup ({directory.principals[n].boundary : n \in steady} \ {NoValue})) \ touched}
            \cup UNION {{Inline(Thing(directory.principals[n].kind, <<directory.principals[n].id>>), i) :
                           i \in DOMAIN directory.principals[n].inline} : n \in steady}
       [] OTHER -> {}

\* A control that concludes anything concludes about every user, or every document,
\* of the account: a listing that lost one leaves no conclusion anywhere.
NoIdentityIsOverlooked ==
  LET verdicts == IdentityVerdicts
  IN \A v \in verdicts : v.result # "INSUFFICIENT" =>
       \A t \in Answerable(v.control) :
         \E o \in verdicts :
           o.control = v.control /\ (o.target = t \/ (t.type = "version" /\ o.target = Thing("policy", <<Head(t.id)>>)))
=============================================================================
