-------------------------- MODULE NetworkInventory --------------------------
(***************************************************************************)
(* What InventoryService makes of the evidence the collectors return, and     *)
(* what the EC2 and network controls decide on it: references between         *)
(* resources are resolved, resources of other accounts are admitted only at    *)
(* an end of a resolved relationship, the graph is validated, and each control *)
(* decides every target, or says that its evidence is insufficient.           *)
(***************************************************************************)
EXTENDS PagedCollection

CONSTANTS
  Anyone, NoSnapshot, Account,
  \* the assessment profile
  ApprovedPublic, RiskyPorts, RequiredEnvironments, AcceptedTraffic

VARIABLES
  snapshot,   \* the InventorySnapshot: resources, edges, gaps and status
  verdicts    \* what RuleEngine.assess returned

vars == <<collectionVars, snapshot, verdicts>>

Init == CollectionInit /\ snapshot = NoSnapshot /\ verdicts = {}

OfKind(s, R) == {r \in R : r.kind = s}
Names(r, kind, id) == [kind |-> kind, id |-> id] \in r.refs

-----------------------------------------------------------------------------
(* The references the collectors return                                     *)

Reference(from, kind, id, owner) == [from |-> from, to |-> [kind |-> kind, id |-> id, owner |-> owner]]

\* Only a volume is known to belong to the account of the instance.
InstanceReferences ==
  UNION {{Reference(i, r.kind, r.id, IF r.kind = "volumes" THEN Mine ELSE Anyone) : r \in i.refs} :
           i \in Kept("instances")}

GroupReferences ==
  UNION {{Reference(g, "vpcs", r.id, Anyone) : r \in g.refs} : g \in Kept("groups")}

\* A subnet joins the VPC of its own owner, a flow log one of this account.
TopologyReferences ==
  UNION {{Reference(v, "subnets", s.id, s.owner) :
            s \in {s \in Kept("subnets") : Names(s, "vpcs", v.id) /\ s.owner = v.owner}}
         \cup {Reference(v, "flow_logs", l.id, Mine) :
            l \in {l \in Kept("flow_logs") : Names(l, "vpcs", v.id) /\ v.owner = Mine}} :
           v \in Kept("vpcs")}

References == InstanceReferences \cup GroupReferences \cup TopologyReferences

-----------------------------------------------------------------------------
(* InventoryService                                                        *)

Targets(ref, R) ==
  {r \in OfKind(ref.to.kind, R) : r.id = ref.to.id /\ ref.to.owner \in {Anyone, r.owner}}

\* _unresolved_target_reason: what the target's own discovery says.
MissingTarget(kind) ==
  CASE StateOf(kind) \in {"PRESENT", "EXPECTED_ABSENCE"} -> "NOT_COLLECTED"
    [] StateOf(kind) = "UNAVAILABLE" /\ "denied" \in source[kind].errors -> "ACCESS_DENIED"
    [] OTHER -> "EVIDENCE_INCOMPLETE"

\* Mutant of Resolution: a target that is missing was not collected.
ResolutionUnread(ref, R) == IF Targets(ref, R) # {} THEN "RESOLVED" ELSE "NOT_COLLECTED"

\* A reference without an owner needs exactly one candidate.
Resolution(ref, R) ==
  IF ref.to.owner = Anyone
  THEN IF Cardinality(Targets(ref, R)) = 1 THEN "RESOLVED" ELSE "IDENTITY_INCOMPLETE"
  ELSE IF Targets(ref, R) # {} THEN "RESOLVED" ELSE MissingTarget(ref.to.kind)

Edges(refs, R) ==
  {[from |-> ref.from, to |-> ref.to, resolution |-> Resolution(ref, R)] : ref \in refs}

Ends(edges, R) ==
  UNION {{e.from} \cup Targets(e, R) : e \in {e \in edges : e.resolution = "RESOLVED"}}

Observed == UNION {Kept(s) : s \in Sources}

\* Mutant of Unadmitted: every resource is admitted.
AllAdmitted == {}

\* Resources of another account that no resolved relationship touches.
Unadmitted == {r \in Observed : r.owner # Mine} \ Ends(Edges(References, Observed), Observed)

\* Mutant of Status: what was not admitted leaves no gap.
StatusOfDiscoveries(c) == RollUp({StateOf(s) : s \in SourcesOf[c]})

\* _record_unadmitted_discovery_resources: the discovery names them.
UnadmittedOf(s) == OfKind(s, Unadmitted)

\* _admission_projection_is_incomplete
AdmissionGap(c) == \E s \in SourcesOf[c] : UnadmittedOf(s) # {}

\* graph_collection_status_for what was retained: a gap in the admission is
\* never SUCCEEDED.
Status(c) ==
  LET retained == (UNION {Kept(s) : s \in SourcesOf[c]}) \ Unadmitted
      rolled == RollUp({StateOf(s) : s \in SourcesOf[c]} \cup {"PRESENT" : r \in retained})
  IN IF rolled = "SUCCEEDED" /\ AdmissionGap(c) THEN "PARTIAL" ELSE rolled

\* References from or to what was removed go with it.
Retained ==
  {ref \in References :
     ref.from \notin Unadmitted /\ (ref.to.owner = Anyone \/ Targets(ref, Unadmitted) = {})}

Assembled ==
  LET R == Observed \ Unadmitted
  IN [resources |-> R, edges |-> Edges(Retained, R), unadmitted |-> Unadmitted,
      status |-> [c \in DOMAIN SourcesOf |-> Status(c)]]

Assemble ==
  /\ Collected /\ snapshot = NoSnapshot
  /\ snapshot' = Assembled
  /\ UNCHANGED <<collectionVars, verdicts>>

\* validate_graph_resources: one resource per snapshot identity, and both ends
\* of a resolved relationship among the resources.
IdentityIsUnique(r, R) == \A q \in R : q.kind = r.kind /\ q.id = r.id /\ q.owner = r.owner => q = r
EndpointsArePresent(e, R) ==
  e.from \in R /\ (e.resolution = "RESOLVED" => Targets(e, R) # {})

\* _validate_resource_admission
OwnerIsAdmitted(r, snap) == r.owner # Mine => r \in Ends(snap.edges, snap.resources)

\* A graph that does not validate refuses the whole scan.
Admissible(snap) ==
  /\ \A r \in snap.resources : IdentityIsUnique(r, snap.resources) /\ OwnerIsAdmitted(r, snap)
  /\ \A e \in snap.edges : EndpointsArePresent(e, snap.resources)

-----------------------------------------------------------------------------
(* AssessmentEvidenceReader                                                *)

\* _citation: the source is complete, nothing was discarded and every
\* resource was admitted.
Cited(s) ==
  /\ StateOf(s) = "PRESENT" /\ Complete(s)
  /\ source[s].discarded = 0
  /\ OfKind(s, snapshot.unadmitted) = {}

\* _population and ec2_facts: the discovery lists what the inventory holds.
Population(s) ==
  Cited(s) /\ {i.id : i \in Kept(s)} = {r.id : r \in OfKind(s, snapshot.resources)}

EdgesOf(r, kind) == {e \in snapshot.edges : e.from = r /\ e.to.kind = kind}

\* security_group_proof
GroupProof(g) ==
  /\ Population("groups") /\ Population("vpcs")
  /\ Cardinality(EdgesOf(g, "vpcs")) = 1
  /\ \A e \in EdgesOf(g, "vpcs") :
       /\ e.resolution = "RESOLVED"
       /\ \A v \in Targets(e, snapshot.resources) : v.owner = g.owner /\ Names(g, "vpcs", v.id)

LogsOf(v) == {l \in OfKind("flow_logs", snapshot.resources) : Names(l, "vpcs", v.id)}

\* flow_log_proof: the edges of a VPC are the flow logs that name it.
FlowLogProof(v) ==
  /\ Population("vpcs") /\ v.owner = Mine /\ Population("flow_logs")
  /\ Cardinality(EdgesOf(v, "flow_logs")) = Cardinality(LogsOf(v))
  /\ \A e \in EdgesOf(v, "flow_logs") :
       e.resolution = "RESOLVED" /\ Targets(e, snapshot.resources) \subseteq LogsOf(v)

-----------------------------------------------------------------------------
(* The controls                                                            *)

KindOf == [EC2_001 |-> "instances", EC2_002 |-> "instances", EC2_003 |-> "volumes",
           EC2_004 |-> "default", NET_003 |-> "groups", NET_004 |-> "groups",
           NET_005 |-> "groups", NET_006 |-> "vpcs"]
Controls == DOMAIN KindOf

Decide(fails) == IF fails THEN "FAIL" ELSE "PASS"

\* ec2_facts: options that are pending are no evidence.
MetadataReads(m) ==
  /\ m.state = "applied"
  /\ m.endpoint \in {"enabled", "disabled"} /\ m.tokens \in {"required", "optional"}

\* EC2Rule.assess for instances
InstanceResult(control, i) ==
  IF ~Population("instances") THEN "INSUFFICIENT"
  ELSE IF control = "EC2_002" THEN Decide(i.public # {} /\ i.id \notin ApprovedPublic)
  ELSE IF ~MetadataReads(i.metadata) THEN "INSUFFICIENT"
  ELSE IF i.metadata.endpoint = "disabled" THEN "NOT_APPLICABLE"
  ELSE Decide(i.metadata.tokens # "required")

VolumeResult(v) == IF Population("volumes") THEN Decide(~v.encrypted) ELSE "INSUFFICIENT"

DefaultResult ==
  IF Cited("default") THEN Decide(\A d \in source["default"].kept : ~d.encrypted)
  ELSE "INSUFFICIENT"

\* permissions: a rule for TCP must say its ports.
PortsRead(rules) == \A r \in rules : r.protocol = "tcp" => r.first \in Nat /\ r.first <= r.last

Risky(r) ==
  r.protocol \in {"-1", "6"} \/ (r.protocol = "tcp" /\ RiskyPorts \cap (r.first..r.last) # {})

\* network_result
GroupResult(control, g) ==
  IF ~GroupProof(g) THEN "INSUFFICIENT"
  ELSE IF control = "NET_003" THEN Decide(\E r \in g.ingress : r.protocol = "-1" /\ r.public)
  ELSE IF ~PortsRead(g.ingress) THEN "INSUFFICIENT"
  ELSE IF control = "NET_004" THEN Decide(\E r \in g.ingress : r.public /\ Risky(r))
  ELSE IF ~PortsRead(g.egress) THEN "INSUFFICIENT"
  ELSE IF ~g.is_default THEN "NOT_APPLICABLE"
  ELSE Decide(g.ingress \cup g.egress # {})

\* flow_log_result
FlowLogResult(v) ==
  IF ~FlowLogProof(v) \/ v.environment = None THEN "INSUFFICIENT"
  ELSE IF v.environment \notin RequiredEnvironments THEN "NOT_APPLICABLE"
  ELSE Decide(\A l \in LogsOf(v) : l.traffic \notin AcceptedTraffic)

\* Mutant of EmptyResult: no target, nothing to decide.
EmptyWithoutProof(control) == "NOT_APPLICABLE"

\* A control without a target decides the account by the discovery alone.
EmptyResult(control) ==
  IF Population(KindOf[control]) THEN "NOT_APPLICABLE" ELSE "INSUFFICIENT"

Result(control, target) ==
  IF control = "EC2_004" THEN DefaultResult
  ELSE IF target = Account THEN EmptyResult(control)
  ELSE CASE control \in {"EC2_001", "EC2_002"} -> InstanceResult(control, target)
         [] control = "EC2_003" -> VolumeResult(target)
         [] control = "NET_006" -> FlowLogResult(target)
         [] OTHER -> GroupResult(control, target)

AssessmentTargets(control) ==
  LET family == OfKind(KindOf[control], snapshot.resources)
  IN IF family = {} THEN {Account} ELSE family

Verdicts ==
  UNION {{[control |-> c, target |-> t, result |-> Result(c, t)] : t \in AssessmentTargets(c)} :
           c \in Controls}

Assess ==
  /\ snapshot # NoSnapshot /\ Admissible(snapshot) /\ verdicts = {}
  /\ verdicts' = Verdicts
  /\ UNCHANGED <<collectionVars, snapshot>>

Next ==
  \/ Collect /\ UNCHANGED <<snapshot, verdicts>>
  \/ Assemble
  \/ Assess

Spec == Init /\ [][Next]_vars

-----------------------------------------------------------------------------
(* Properties                                                              *)

\* The fields hold what they should: a snapshot has resources of the account
\* or admitted ones, and verdicts only follow a snapshot.
TypeOK ==
  /\ CollectionTypeOK
  /\ snapshot # NoSnapshot =>
       /\ Collected /\ snapshot.resources \subseteq Observed
       /\ snapshot.unadmitted \cap snapshot.resources = {}
       /\ \A c \in DOMAIN SourcesOf : snapshot.status[c] \in {"SUCCEEDED", "PARTIAL", "FAILED"}
  /\ verdicts # {} => snapshot # NoSnapshot

\* What a control means, said of the items AWS holds.
Passes(control, i) ==
  CASE control = "EC2_001" -> i.metadata.tokens = "required"
    [] control = "EC2_002" -> i.id \in ApprovedPublic
                              \/ UNION ({i.addresses} \cup {n.addresses : n \in i.interfaces}) = {}
    [] control = "EC2_003" -> i.encrypted
    [] control = "NET_003" -> ~\E r \in i.ingress : r.public /\ r.protocol = "-1"
    [] control = "NET_004" -> ~\E r \in i.ingress : r.public /\ Risky(r)
    [] control = "NET_005" -> i.ingress = {} /\ i.egress = {}
    [] control = "NET_006" -> \E l \in held["flow_logs"] :
                                l.resource = i.id /\ l.status = "ACTIVE" /\ l.traffic \in AcceptedTraffic

\* A control passes or fails a resource only as AWS held it throughout the
\* scan: no other version of it was held, and what the control means is true,
\* or false, of it and of everything it was joined with.  Every path from a page
\* that repeats, contradicts itself, does not normalize or is never read ends at
\* the proofs of flow_log_evidence, security_group_evidence and ec2_evidence.
VerdictsAreTrue ==
  \A x \in verdicts : x.result \in {"PASS", "FAIL"} =>
    IF x.target = Account
    THEN \E d \in held["default"] : (x.result = "PASS") <=> d.encrypted
    ELSE LET versions == {i \in held[x.target.kind] : i.id = x.target.id}
         IN /\ versions # {}
            /\ \A i \in versions : /\ Normalizes(i) /\ Normalized(i) = x.target
                                   /\ (x.result = "PASS") <=> Passes(x.control, i)

\* A control that decides anything has seen everything: each item AWS held of
\* its kind has a verdict, and "not applicable" to the account says there was
\* none (assessment_targets and the admission of other owners).
NothingIsOverlooked ==
  \A x \in verdicts : x.result # "INSUFFICIENT" /\ x.control # "EC2_004" =>
    \A i \in held[KindOf[x.control]] :
      Normalizes(i) /\ \E y \in verdicts : y.control = x.control /\ y.target = Normalized(i)

\* The snapshot a scan assembles is one that the graph validation accepts:
\* pruning owners (_prune_unadmitted_external_resources) and validating
\* admission (_validate_resource_admission) agree.
SnapshotIsAdmissible == snapshot # NoSnapshot => Admissible(snapshot)

\* A collector that succeeded brought everything AWS held into the
\* inventory, and one that failed brought nothing (collection_status_for,
\* graph_collection_status_for).
StatusIsTrue ==
  snapshot # NoSnapshot =>
    \A c \in DOMAIN SourcesOf, s \in Sources \ Settings : s \in SourcesOf[c] =>
      /\ snapshot.status[c] = "SUCCEEDED" =>
           \A i \in held[s] : Normalizes(i) /\ Normalized(i) \in snapshot.resources
      /\ snapshot.status[c] = "FAILED" => OfKind(s, snapshot.resources) = {}

\* A resolved relationship joins two resources one of which names the other; a
\* volume or other owned target that was "not collected" was not there to collect
\* (_resolve_relationships).
RelationshipsAreTrue ==
  snapshot # NoSnapshot =>
    \A e \in snapshot.edges :
      /\ e.resolution = "RESOLVED" =>
           \E t \in snapshot.resources :
             /\ t.kind = e.to.kind /\ t.id = e.to.id
             /\ Names(e.from, t.kind, t.id) \/ Names(t, e.from.kind, e.from.id)
      /\ e.resolution = "NOT_COLLECTED" => \A t \in held[e.to.kind] : t.id # e.to.id
=============================================================================
