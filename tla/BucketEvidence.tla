--------------------------- MODULE BucketEvidence ---------------------------
(***************************************************************************)
(* What a finished bundle becomes: the resources of both S3 collectors, the   *)
(* state of every source, the edges to the keys, and what the validators of   *)
(* the evidence graph require of them. A scan whose graph they refuse fails.  *)
(***************************************************************************)
EXTENDS BucketCollection

-----------------------------------------------------------------------------
(* Resources                                                                 *)

BucketAt(b, region) == [kind |-> "bucket", id |-> b, region |-> region]
KeyAt(k, region) == [kind |-> "key", id |-> k, region |-> region]

Record(b) == Settled(records[b])

\* evidence_resource: buckets whose location stands.
Located == {b \in Seen : DirectRegion(records[b]) # Missing}

\* resource: the older collector knew a Region, from the listing or HeadBucket.
HasResource(b) == b \in Seen \cap AdmittedNames /\ LegacyRegion(records[b]) # Missing
ResourceOf(b) == BucketAt(b, LegacyRegion(records[b]))

\* _legacy_encryption
DefaultEncryption(b) == IF Answered(Record(b).encryption) THEN Record(b).encryption.raw ELSE Missing

\* bucket_resources: all or none.
LegacyResources ==
  IF LegacyStatus = "SUCCEEDED" THEN {ResourceOf(b) : b \in {b \in Seen : HasResource(b)}} ELSE {}

EvidenceResources == {BucketAt(b, DirectRegion(records[b])) : b \in Located}

Presented == {l \in DOMAIN lookups : LookupSource(l).state = "PRESENT"}

KeyOf(l) == KeyAt(LookupSource(l).value.key, l.region)
KeyResources == {KeyOf(l) : l \in Presented}

InventoriedBuckets == LegacyResources \cup EvidenceResources

-----------------------------------------------------------------------------
(* Sources                                                                   *)

EnrichmentCalls == Range(Calls) \ {"location", "region"}

Gone(b) == Record(b).location.state = "RESOURCE_DISAPPEARED"

\* Without a resource to be the subject, the listing and the call disagree.
LocationState(b) ==
  IF Gone(b) /\ ~HasResource(b) THEN "CONFLICT" ELSE Record(b).location.state

\* The resources the location outcome of an admitted bucket is about; none when
\* it is about the account.
LocationSubjects(b) ==
  IF b \in Located THEN {BucketAt(b, DirectRegion(records[b]))}
  ELSE IF LocationState(b) = "RESOURCE_DISAPPEARED" THEN {ResourceOf(b)} ELSE {}

AskedFor(l) == {b \in Located : l \in Wanted(records[b])}

\* A lookup is about its key, or about a bucket that asked for it.
LookupSubjects(l) ==
  IF l \in Presented THEN {KeyOf(l)} ELSE {BucketAt(b, DirectRegion(records[b])) : b \in AskedFor(l)}

SourceStates ==
  {DiscoveryState, account.state}
  \cup {LocationState(b) : b \in AdmittedNames}
  \cup {Record(b)[call].state : b \in Located, call \in EnrichmentCalls}
  \cup {LookupSource(l).state : l \in DOMAIN lookups}

-----------------------------------------------------------------------------
(* Edges                                                                     *)

\* _refine_unresolved_target: the ARN of a key that another lookup brought.
EdgeTargets(l) ==
  IF l \in Presented THEN {KeyOf(l)}
  ELSE {k \in KeyResources : l.reference.form = "arn" /\ k = KeyAt(l.reference.key, l.region)}

\* What the validator derives from the retained lookups.
ExpectedTargets(l) ==
  {KeyAt(lookups[o].value.key, o.region) :
     o \in {o \in Presented : o = l \/ /\ l \notin Presented /\ l.reference.form = "arn"
                                       /\ o.region = l.region
                                       /\ lookups[o].value.key = l.reference.key}}

-----------------------------------------------------------------------------
(* The validators                                                            *)

\* reconstruct_s3_bucket_region_evidence: one location for every listed bucket,
\* and nothing discarded by a listing that claims to be complete.
ListingIsWhole ==
  /\ DiscoveryState = "PRESENT" => Discarded = 0
  /\ AdmittedNames \subseteq Seen

\* A location that stands agrees with the Region that was listed; one that is
\* gone names the bucket of the older collector.
LocationIsIdentified(b) ==
  /\ LocationState(b) = "PRESENT" => /\ b \in Located
                                     /\ HasResource(b) => ResourceOf(b) \in LocationSubjects(b)
  /\ LocationState(b) = "RESOURCE_DISAPPEARED" => HasResource(b) /\ b \notin Located
  /\ LocationState(b) # "EXPECTED_ABSENCE"

AllowedStates(call) ==
  {"PRESENT", "UNAVAILABLE", "MALFORMED", "RESOURCE_DISAPPEARED"}
  \cup (IF call = "acl" THEN {} ELSE {"EXPECTED_ABSENCE"})
  \cup (IF call \in {"policy", "policy_status", "acl"} THEN {"CONFLICT"} ELSE {})

AbsentValue(call) ==
  CASE call \in {"tags", "block"} -> {}
    [] call = "policy_status" -> [present |-> FALSE, public |-> FALSE]
    [] OTHER -> Missing

RetainsFailure(call, s) ==
  \/ call = "encryption" /\ s.state = "MALFORMED"
  \/ call \in {"policy", "policy_status", "acl"} /\ s.state = "CONFLICT"

\* validate_s3_source_state, validate_s3_bucket_evidence_value
SourceIsAllowed(call, s) ==
  /\ s.state \in AllowedStates(call)
  /\ s.state = "EXPECTED_ABSENCE" => s.value = AbsentValue(call)
  /\ s.state = "PRESENT" => s.value # Missing
  /\ s.state = "PRESENT" /\ call = "policy_status" => s.value.present
  /\ ~Usable(s) => s.value = Missing \/ RetainsFailure(call, s)

HasInvalidReference(encryption) ==
  encryption = Missing \/ (IF encryption.reference = Missing THEN FALSE
                           ELSE encryption.reference.form = "bad")

\* The projection for the older collector: of encryption and of the block only.
ProjectionIsAllowed(call, s) ==
  /\ s.raw # Missing => call \in {"encryption", "block"} /\ s.state \in {"PRESENT", "MALFORMED"}
  /\ call \in {"encryption", "block"} /\ s.state = "PRESENT" => s.raw = s.value
  /\ call = "encryption" /\ s.state = "MALFORMED" => HasInvalidReference(s.value)

\* validate_s3_policy_source_coherence
PoliciesCohere(r) ==
  IF "CONFLICT" \in {r.policy.state, r.policy_status.state}
  THEN /\ r.policy.state = r.policy_status.state
       /\ PoliciesConflict(r.policy.value, r.policy_status.value)
  ELSE Usable(r.policy) /\ Usable(r.policy_status)
       => ~PoliciesConflict(r.policy.value, r.policy_status.value)

\* validate_s3_acl_source_coherence
GrantsCohere(r) ==
  r.acl.value # Missing =>
    (r.acl.state = "CONFLICT" <=>
       GrantsConflict(r.acl.value, UsableFlags(account) \cup UsableFlags(r.block),
                      IF Usable(r.ownership) THEN r.ownership.value ELSE Missing))

\* The eight sources of a bucket whose location stands.
EnrichmentIsAllowed(r) ==
  /\ \A call \in EnrichmentCalls : SourceIsAllowed(call, r[call]) /\ ProjectionIsAllowed(call, r[call])
  /\ PoliciesCohere(r) /\ GrantsCohere(r)

\* Each reference of a bucket was looked up, and a key has one reading.
LookupsAreKnown ==
  /\ DOMAIN lookups = UNION {Wanted(records[b]) : b \in Located}
  /\ \A l \in DOMAIN lookups :
       LookupSource(l).state \in {"PRESENT", "UNAVAILABLE", "MALFORMED", "CONFLICT"}
  /\ \A l, o \in Presented : KeyOf(l) = KeyOf(o) => LookupSource(l).value = LookupSource(o).value

EdgesAreExpected == \A l \in DOMAIN lookups : EdgeTargets(l) = ExpectedTargets(l)

\* _require_resource_subject
SubjectsArePresent ==
  (UNION {LocationSubjects(b) : b \in AdmittedNames})
  \cup (UNION {LookupSubjects(l) : l \in DOMAIN lookups})
  \subseteq InventoriedBuckets \cup KeyResources

\* _validate_resource_admission: the Region of a bucket is the one that was
\* located, and a key is known by an edge from a bucket that asked for it.
ResourcesAreAdmitted ==
  /\ \A r \in InventoriedBuckets : r.id \in Located => r.region = DirectRegion(records[r.id])
  /\ \A k \in KeyResources : \E l \in Presented : k \in EdgeTargets(l) /\ AskedFor(l) # {}

\* graph_collection_status_for: the collector never claims more than its bundle.
RollUpAgrees ==
  (\A state \in SourceStates : state \in {"PRESENT", "EXPECTED_ABSENCE"}) =>
     DiscoveryState = "PRESENT" /\ AdmittedNames \subseteq Located

Accepted ==
  /\ ListingIsWhole
  /\ \A b \in AdmittedNames : LocationIsIdentified(b)
  /\ account.state \in AllowedStates("block")
  /\ \A b \in Located : EnrichmentIsAllowed(Record(b))
  /\ LookupsAreKnown /\ EdgesAreExpected
  /\ SubjectsArePresent
  /\ ResourcesAreAdmitted
  /\ RollUpAgrees

-----------------------------------------------------------------------------
(* Properties                                                                *)

\* Deleted before it was located, while the older collector had already failed.
Orphaned(b) ==
  /\ HasResource(b) /\ LocationState(b) = "RESOURCE_DISAPPEARED"
  /\ LegacyStatus # "SUCCEEDED"

\* What S3EvidenceCollector emits is accepted by InventoryService and by the
\* validators of the evidence graph, whatever AWS answered, except for the
\* buckets that vanish between ListBuckets and GetBucketLocation.
OnlyOrphansRefuse ==
  stage = "done" /\ ~Accepted => \E b \in AdmittedNames : Orphaned(b)

\* docs/controls/s3-002-exposure-aggregation.md: a bucket that vanishes during the
\* scan makes its verdict INSUFFICIENT_EVIDENCE; it does not fail the scan.
GraphIsAccepted == stage = "done" => Accepted
=============================================================================
