---------------------------- MODULE NetworkItems ----------------------------
(***************************************************************************)
(* What one item of an EC2 listing becomes.  A raw item is the record AWS      *)
(* delivers, reduced to the members that some reference or control reads.      *)
(* Unread is a member that is missing, has the wrong type or holds such a      *)
(* member; None is one that may be missing and is.  A normalizer either         *)
(* returns a resource or refuses the item (CollectorEvidenceError).          *)
(***************************************************************************)
EXTENDS Integers, FiniteSets, Sequences

CONSTANTS
  Mine,       \* the account that is scanned
  Unread,     \* a member that does not read
  None        \* an optional member that is not there

Readable(item) == \A f \in DOMAIN item : item[f] # Unread

To(kind, id) == [kind |-> kind, id |-> id]
ToOptional(kind, id) == IF id = None THEN {} ELSE {To(kind, id)}

\* _normalize_instance: groups and public addresses of the instance and of
\* every network interface; the owner is the scanned account.
Instance(i) ==
  [kind |-> "instances", id |-> i.id, owner |-> Mine,
   metadata |-> i.metadata,
   public |-> i.addresses \cup UNION {n.addresses : n \in i.interfaces},
   refs |-> {To("groups", g) : g \in i.groups \cup UNION {n.groups : n \in i.interfaces}}
            \cup {To("volumes", v) : v \in i.devices}
            \cup ToOptional("subnets", i.subnet) \cup ToOptional("vpcs", i.vpc)]

\* _normalize_volume: an attachment without an instance belongs to a service.
VolumeReads(v) == \A a \in v.attachments : a.instance # None \/ a.service
Volume(v) == [kind |-> "volumes", id |-> v.id, owner |-> Mine, encrypted |-> v.encrypted, refs |-> {}]

\* _collect_graph_resources and _normalize_security_group
GroupReads(g) == g.owner # None /\ g.arn \in {None, g.owner}
Group(g) ==
  [kind |-> "groups", id |-> g.id, owner |-> g.owner, refs |-> {To("vpcs", g.vpc)},
   is_default |-> g.name = "default", ingress |-> g.ingress, egress |-> g.egress]

\* _normalize_vpc
Vpc(v) == [kind |-> "vpcs", id |-> v.id, owner |-> v.owner, environment |-> v.environment, refs |-> {}]

\* _normalize_subnet: an ARN must name the owner the item names.
SubnetReads(s) == s.arn \in {None, s.owner}
Subnet(s) == [kind |-> "subnets", id |-> s.id, owner |-> s.owner, refs |-> {To("vpcs", s.vpc)}]

\* _normalize_flow_log: only an active log with a destination is one.
FlowLogReads(l) ==
  /\ l.status = "ACTIVE" /\ l.traffic \in {"ACCEPT", "REJECT", "ALL"}
  /\ l.type \in {"cloud-watch-logs", "s3", "kinesis-data-firehose"}
  /\ l.target # None \/ (l.type = "cloud-watch-logs" /\ l.group # None)
FlowLog(l) ==
  [kind |-> "flow_logs", id |-> l.id, owner |-> Mine, traffic |-> l.traffic,
   refs |-> {To("vpcs", l.resource)}]

Normalizes(item) ==
  /\ Readable(item)
  /\ CASE item.kind = "volumes" -> VolumeReads(item)
       [] item.kind = "groups" -> GroupReads(item)
       [] item.kind = "subnets" -> SubnetReads(item)
       [] item.kind = "flow_logs" -> FlowLogReads(item)
       [] OTHER -> TRUE

Normalized(item) ==
  CASE item.kind = "instances" -> Instance(item)
    [] item.kind = "volumes" -> Volume(item)
    [] item.kind = "groups" -> Group(item)
    [] item.kind = "vpcs" -> Vpc(item)
    [] item.kind = "subnets" -> Subnet(item)
    [] item.kind = "flow_logs" -> FlowLog(item)
    [] OTHER -> item

\* The resources among the items.
Resources(items) == {Normalized(i) : i \in {j \in items : Normalizes(j)}}
=============================================================================
