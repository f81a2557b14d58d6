------------------------- MODULE MCNetworkInventory -------------------------
(***************************************************************************)
(* Accounts in which two or three sources hold up to two items each, out of    *)
(* versions that contradict each other, items that do not normalize and         *)
(* resources of another account, while the other sources are empty.             *)
(***************************************************************************)
EXTENDS NetworkInventory

CONSTANT Theirs

UpToTwo(items) == {few \in SUBSET items : Cardinality(few) <= 2}

Default(encrypted) ==
  {[kind |-> "default", id |-> "default", owner |-> Mine, refs |-> {}, encrypted |-> encrypted]}
Key == {[kind |-> "key", id |-> "key", owner |-> Mine, refs |-> {}]}
Empty == [s \in Sources |-> IF s = "default" THEN Default(TRUE) ELSE {}]

RawVpc(id, owner, environment) ==
  [kind |-> "vpcs", id |-> id, owner |-> owner, environment |-> environment]
Vpcs == {RawVpc("v1", Mine, "prod"), RawVpc("v1", Theirs, None),
         RawVpc("v2", Mine, "lab"), RawVpc("v2", Unread, "prod")}

RawLog(id, vpc, status, traffic) ==
  [kind |-> "flow_logs", id |-> id, resource |-> vpc, status |-> status, traffic |-> traffic,
   type |-> "s3", group |-> None, target |-> "bucket"]
Logs == {RawLog("l1", "v1", "ACTIVE", "ALL"), RawLog("l1", "v1", "ACTIVE", "ACCEPT"),
         RawLog("l2", "v2", "ACTIVE", "REJECT"), RawLog("l2", "v1", "FAILED", "ALL"),
         RawLog(NoId, "v1", "ACTIVE", "ALL")}

RawSubnet(id, owner) == [kind |-> "subnets", id |-> id, owner |-> owner, arn |-> owner, vpc |-> "v1"]

Rule(protocol, first, last) ==
  [protocol |-> protocol, first |-> first, last |-> last, public |-> TRUE]
RawGroup(id, owner, name, vpc, ingress) ==
  [kind |-> "groups", id |-> id, owner |-> owner, arn |-> None, name |-> name, vpc |-> vpc,
   ingress |-> ingress, egress |-> {}]
Groups == {RawGroup("g1", Mine, "default", "v1", {Rule("-1", -1, -1)}),
           RawGroup("g1", Mine, "web", "v1", {Rule("tcp", 20, 30)}),
           RawGroup("g1", Theirs, "web", "v1", {Rule("tcp", -1, 30)}),
           RawGroup("g2", Theirs, "default", "v2", {}),
           RawGroup("g2", Mine, "default", "v1", Unread)}

RawInstance(id, devices, groups, state, tokens, addresses) ==
  [kind |-> "instances", id |-> id, devices |-> devices, groups |-> groups, addresses |-> addresses,
   metadata |-> [state |-> state, endpoint |-> "enabled", tokens |-> tokens],
   interfaces |-> {[groups |-> {}, addresses |-> {}]}, subnet |-> "s1", vpc |-> None]
Instances == {RawInstance("i1", {"d1"}, {"g2"}, "applied", "required", {"ip"}),
              RawInstance("i1", {"d1"}, {}, "pending", "required", {}),
              RawInstance("i2", {"d2"}, {}, "applied", "optional", {}),
              RawInstance("i2", Unread, {}, "applied", "optional", {}),
              RawInstance(NoId, {}, {}, "applied", "required", {})}

RawVolume(id, encrypted, service) ==
  [kind |-> "volumes", id |-> id, encrypted |-> encrypted,
   attachments |-> {[instance |-> None, service |-> service]}]
Volumes == {RawVolume("d1", TRUE, TRUE), RawVolume("d1", FALSE, TRUE), RawVolume("d2", TRUE, FALSE)}

MCHoldings ==
  {[Empty EXCEPT !["vpcs"] = v, !["flow_logs"] = l, !["subnets"] = s] :
     v \in UpToTwo(Vpcs), l \in UpToTwo(Logs), s \in {{}, {RawSubnet("s2", Mine)}}}
  \cup {[Empty EXCEPT !["groups"] = g, !["vpcs"] = v, !["subnets"] = s] :
     g \in UpToTwo(Groups), v \in UpToTwo(Vpcs), s \in {{RawSubnet("s1", Theirs)}}}
  \cup {[Empty EXCEPT !["instances"] = i, !["volumes"] = d, !["default"] = Default(FALSE),
                      !["key"] = k, !["groups"] = {g \in Groups : i # {} /\ g.id = "g2" /\ g.owner = Theirs}] :
     i \in UpToTwo(Instances), d \in UpToTwo(Volumes), k \in {{}, Key}}

MCApprovedPublic == {}
MCRiskyPorts == {22}
MCRequiredEnvironments == {"prod"}
MCAcceptedTraffic == {"REJECT", "ALL"}
=============================================================================
