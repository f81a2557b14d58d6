--------------------------- MODULE BucketControls ---------------------------
(***************************************************************************)
(* The S3 controls over an accepted graph: S3-001 to S3-004, which prove the   *)
(* whole population first, and S3-900, which trusts the older collector.       *)
(***************************************************************************)
EXTENDS BucketEvidence

CONSTANTS
  Approvals,      \* whom the policy of the deployment approves, by bucket
  SensitiveTags,  \* the tags of the classifier's rules
  Declared        \* the bucket named sensitive or harmless, or neither

ASSUME ControlsAssumption ==
  /\ Approvals \in [Buckets -> SUBSET {"everyone", "partner"}]
  /\ Declared \in [Buckets -> {"sensitive", "harmless", "neither"}]

-----------------------------------------------------------------------------
(* What the controls read of the graph                                        *)

\* Mutant of PopulationProven: any listing is the population.
PopulationListed == {r.id : r \in InventoriedBuckets} = AdmittedNames

\* s3_configuration_proof: a complete listing, and one resource for each name.
PopulationProven ==
  /\ DiscoveryState = "PRESENT"
  /\ {r.id : r \in InventoriedBuckets} = AdmittedNames
  /\ \A r, o \in InventoriedBuckets : r.id = o.id => r = o

\* The flags the account or the bucket sets.
FlagsOn(b) == UsableFlags(account) \cup UsableFlags(Record(b).block)

\* The flags both of them are known to leave off.
FlagsOff(b) ==
  IF Usable(account) /\ Usable(Record(b).block) THEN Flags \ FlagsOn(b) ELSE {}

\* A disappearance in any call invalidates the snapshot of the bucket.
Vanished(b) == \E call \in EnrichmentCalls : Record(b)[call].state = "RESOURCE_DISAPPEARED"

-----------------------------------------------------------------------------
(* S3-002: the channel of the policy and the channel of the ACL                *)

\* _combine
Combined(channels) ==
  IF "UNAPPROVED" \in channels THEN "UNAPPROVED"
  ELSE IF "UNKNOWN" \in channels THEN "UNKNOWN"
  ELSE IF "APPROVED" \in channels THEN "APPROVED" ELSE "NONE"

\* _grant
Grant(b, token) == IF token \in Approvals[b] THEN "APPROVED" ELSE "UNAPPROVED"

OwnershipConflict(r) == r.ownership.value = "enforced" /\ r.acl.value # {"owner"}

AclIsRead(r) == r.acl.state \in {"PRESENT", "CONFLICT"}

\* _policy_principals, of the policies a bucket may have.
PolicyTokens(b, policy) ==
  CASE policy = "external" ->
         {IF AclIsRead(Record(b)) /\ ~OwnershipConflict(Record(b)) THEN Grant(b, "partner")
          ELSE "UNKNOWN"}
    [] policy = "odd" -> {"UNKNOWN"}
    [] OTHER -> {}

PolicyChannel(b) ==
  LET body == Record(b).policy
      status == Record(b).policy_status
      public == status.value.public
  IN IF "CONFLICT" \in {body.state, status.state} \/ ~Usable(status) THEN "UNKNOWN"
     ELSE IF body.state = "EXPECTED_ABSENCE" THEN IF public THEN "UNKNOWN" ELSE "NONE"
     ELSE IF public /\ "restrict" \in FlagsOff(b) /\ "everyone" \notin Approvals[b] THEN "UNAPPROVED"
     ELSE IF body.state # "PRESENT" THEN "UNKNOWN"
     ELSE IF public /\ "restrict" \in FlagsOn(b) THEN "NONE"
     ELSE IF public /\ "restrict" \notin FlagsOff(b) THEN "UNKNOWN"
     ELSE Combined(PolicyTokens(b, body.value)
                            \cup (IF public THEN {Grant(b, "everyone")} ELSE {}))

\* Every grant of an ACL that nothing contradicts, or only the account's block.
AclChannel(b) ==
  LET r == Record(b)
  IN IF ~AclIsRead(r) \/ OwnershipConflict(r) THEN "UNKNOWN"
     ELSE Combined({IF grantee = "everyone" /\ "ignore" \in FlagsOn(b) THEN "UNKNOWN"
                    ELSE Grant(b, grantee) : grantee \in r.acl.value \ {"owner"}})

ExposureResult(b) ==
  LET exposure == Combined({PolicyChannel(b), AclChannel(b)})
  IN IF Vanished(b) \/ exposure = "UNKNOWN" THEN "INSUFFICIENT"
     ELSE IF exposure = "UNAPPROVED" THEN "FAIL" ELSE "PASS"

-----------------------------------------------------------------------------
(* S3-001, S3-003, S3-004 and S3-900                                          *)

BlockResult(b) ==
  IF FlagsOff(b) # {} THEN "FAIL" ELSE IF FlagsOn(b) = Flags THEN "PASS" ELSE "INSUFFICIENT"

\* A Deny the evaluator does not support hides whether transport is secure.
TransportResult(b) ==
  LET policy == Record(b).policy
  IN IF policy.state = "EXPECTED_ABSENCE" THEN "FAIL"
     ELSE IF policy.state # "PRESENT" \/ policy.value = "odd" THEN "INSUFFICIENT"
     ELSE IF policy.value = "deny" THEN "PASS" ELSE "FAIL"

\* _key_proof: this very lookup, in the Region of the bucket, with its edge.
KeyIsProven(b, reference) ==
  LET l == [region |-> LookupRegion(reference, DirectRegion(records[b])), reference |-> reference]
  IN l \in Presented /\ l.region = DirectRegion(records[b]) /\ KeyOf(l) \in EdgeTargets(l)

\* classify: a declaration goes before the tags.
Sensitivity(b) ==
  LET tags == Record(b).tags
  IN IF Declared[b] # "neither" THEN Declared[b]
     ELSE IF ~Usable(tags) THEN "unknown"
     ELSE IF tags.value \cap SensitiveTags # {} THEN "sensitive" ELSE "harmless"

DefaultKeyResult(b) ==
  LET encryption == Record(b).encryption
      algorithm == encryption.value.algorithm
  IN IF encryption.state = "EXPECTED_ABSENCE" THEN "FAIL"
     ELSE IF encryption.state # "PRESENT" THEN "INSUFFICIENT"
     ELSE IF algorithm \in {"none", "aes"} THEN "FAIL"
     ELSE IF algorithm # "kms" THEN "INSUFFICIENT"
     ELSE IF ReferenceOf(encryption.value) = Missing \/ KeyIsProven(b, ReferenceOf(encryption.value))
     THEN "PASS" ELSE "INSUFFICIENT"

SensitiveResult(b) ==
  IF Vanished(b) \/ Sensitivity(b) = "unknown" THEN "INSUFFICIENT"
  ELSE IF Sensitivity(b) = "harmless" THEN "N/A" ELSE DefaultKeyResult(b)

\* The configuration of the resource, as the older collector projected it.
LegacyResult(b) ==
  LET encryption == DefaultEncryption(b)
  IN IF encryption = Missing THEN "FAIL"
     ELSE IF encryption.algorithm = "none" THEN "INSUFFICIENT" ELSE "PASS"

-----------------------------------------------------------------------------
(* Verdicts: one for each bucket of the graph, or one for the account          *)

BucketResult(control, b) ==
  CASE control = "S3-001" -> BlockResult(b)
    [] control = "S3-002" -> ExposureResult(b)
    [] control = "S3-003" -> TransportResult(b)
    [] control = "S3-004" -> SensitiveResult(b)
    [] control = "S3-900" -> LegacyResult(b)

BucketControlIds == {"S3-001", "S3-002", "S3-003", "S3-004", "S3-900"}

\* The account stands for the buckets when there are none.
BucketTargets(control) ==
  IF InventoriedBuckets = {} \/ (control = "S3-900" /\ LegacyStatus # "SUCCEEDED")
  THEN {Missing} ELSE {r.id : r \in InventoriedBuckets}

Proven(control, target) ==
  IF control = "S3-900" THEN LegacyStatus = "SUCCEEDED"
  ELSE PopulationProven /\ target \in Located \cup {Missing}

BucketVerdict(control, target) ==
  IF ~Proven(control, target) THEN "INSUFFICIENT"
  ELSE IF target = Missing THEN "N/A" ELSE BucketResult(control, target)

BucketVerdicts ==
  IF ~(stage = "done" /\ Accepted) THEN {}
  ELSE UNION {{[control |-> c, target |-> t, result |-> BucketVerdict(c, t)] :
                 t \in BucketTargets(c)} : c \in BucketControlIds}

-----------------------------------------------------------------------------
(* Properties                                                                *)

InForce(s) == BlockOf(s.block) \cup BlockOf(shield)

\* Whom a bucket is open to.
OpenTo(s) ==
  (IF s.policy = "public" /\ "restrict" \notin InForce(s) THEN {"everyone"} ELSE {})
  \cup (IF s.policy = "external" THEN {"partner"} ELSE {})
  \cup (EffectiveGrants(s) \ {"owner"})

IsSensitive(b) ==
  \/ Declared[b] = "sensitive"
  \/ Declared[b] = "neither" /\ cloud[b].tags \cap SensitiveTags # {}

\* The default of the bucket names a key it can use, or the key of the service.
HasUsableKey(s) ==
  /\ s.encryption # Missing /\ s.encryption.algorithm = "kms"
  /\ s.encryption.reference # Missing => KeyRegion[s.encryption.reference.key] = s.region

Meant(control, b) ==
  LET s == cloud[b]
  IN CASE control = "S3-001" -> InForce(s) = Flags
       [] control = "S3-002" -> OpenTo(s) \subseteq Approvals[b]
       [] control = "S3-003" -> s.policy = "deny"
       [] control = "S3-004" -> HasUsableKey(s)
       [] control = "S3-900" -> s.encryption # Missing

\* A verdict on a bucket that nobody touched during the scan is what its settings
\* deserve: calls that failed, answers that contradict each other and keys read
\* twice make it INSUFFICIENT_EVIDENCE, never PASS or FAIL.
BucketVerdictsAreTrue ==
  \A v \in BucketVerdicts : v.target \in Buckets \ spoiled =>
    /\ v.result = "PASS" => Meant(v.control, v.target)
    /\ v.result = "FAIL" => ~Meant(v.control, v.target)
    /\ v.control = "S3-004" /\ v.result # "INSUFFICIENT" =>
         (v.result # "N/A" <=> IsSensitive(v.target))

\* A control that concludes anything concludes over every bucket of the account:
\* one that a listing dropped, contradicted or never reached leaves each of its
\* controls without a conclusion.
NoBucketIsOverlooked ==
  LET drawn == BucketVerdicts
  IN \A v \in drawn : v.result # "INSUFFICIENT" =>
       \A b \in Buckets \ spoiled : cloud[b] # Missing =>
         \E o \in drawn : o.control = v.control /\ o.target = b
=============================================================================
