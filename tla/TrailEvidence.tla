---------------------------- MODULE TrailEvidence ----------------------------
(***************************************************************************)
(* What becomes of the collected trails: the two CloudTrail collectors, the    *)
(* resolution of their relationships, the admission of foreign trails by       *)
(* InventoryService, and the validators of the evidence graph.                  *)
(***************************************************************************)
EXTENDS TrailCollection

TrailSource(kind, arn) == sources[<<kind, arn>>]
IsPresent(kind, arn) == TrailSource(kind, arn).state = "PRESENT"

-----------------------------------------------------------------------------
(* Relationships: a reference to a bucket by its name, to a key by its ARN      *)

TrailReference(arn, type, target) == [source |-> arn, type |-> type, target |-> target]

\* A configuration that is complete announces the bucket and the key it names.
Announced(arn) ==
  IF ~IsPresent("configuration", arn) THEN {}
  ELSE LET c == TrailSource("configuration", arn).value
       IN {TrailReference(arn, "bucket", n) : n \in {c.bucket} \ {Unset}}
          \cup {TrailReference(arn, "key", k) : k \in {c.key} \ {Unset}}

\* The keys among the resources of the scan: what the lookups of the S3 collectors
\* identified, by whatever reference a bucket gave.
KeysHeld == {storage.keys[r].key : r \in {r \in DOMAIN storage.keys : storage.keys[r].state = "PRESENT"}}

\* _unresolved_target_reason: the lookup of the same reference, else the collector.
UnresolvedReason(arn) ==
  IF arn \in DOMAIN storage.keys
  THEN CASE storage.keys[arn].state = "PRESENT" -> "NOT_COLLECTED"
         [] storage.keys[arn].state = "DENIED" -> "ACCESS_DENIED"
         [] OTHER -> "INCOMPLETE"
  ELSE IF storage.whole THEN "NOT_COLLECTED" ELSE "INCOMPLETE"

\* _resolve_relationships: only a bucket whose location was read is authoritative.
ResolutionOf(r) ==
  CASE r.type = "bucket" -> IF r.target \in storage.buckets THEN "RESOLVED" ELSE "IDENTITY_INCOMPLETE"
    [] r.type = "key" -> IF r.target \in KeysHeld THEN "RESOLVED" ELSE UnresolvedReason(r.target)

-----------------------------------------------------------------------------
(* Admission                                                                 *)

\* Mutant of TrailRetained: a foreign trail stays if it announces anything at all.
AnnouncedRetained(arn) == arn \notin ForeignTrails \/ Announced(arn) # {}

\* A foreign trail stays only as the source of a relationship that is resolved.
TrailRetained(arn) ==
  arn \notin ForeignTrails \/ \E r \in Announced(arn) : ResolutionOf(r) = "RESOLVED"

AdmittedTrails == {a \in discovery.arns : TrailRetained(a)}
AdmissionComplete == AdmittedTrails = discovery.arns

\* The evidence collector: an outcome about the discovery, the identity of each trail
\* that was listed, and each source of it. Those about a pruned trail are dropped.
TrailOutcome(kind, about, state) == [kind |-> kind, about |-> about, state |-> state]

DiscoveryOutcome == TrailOutcome("discovery", Unset, discovery.state)
IdentityOutcome(arn) == TrailOutcome("identity", arn, "PRESENT")
SourceOutcome(kind, arn) == TrailOutcome(kind, arn, TrailSource(kind, arn).state)

CollectedOutcomes ==
  {DiscoveryOutcome} \cup {IdentityOutcome(a) : a \in discovery.arns}
  \cup {SourceOutcome(x[1], x[2]) : x \in DOMAIN sources}

RetainedOutcomes == {o \in CollectedOutcomes : o.about \in AdmittedTrails \cup {Unset}}

TrailLinks ==
  UNION {{[reference |-> r, resolution |-> ResolutionOf(r)] : r \in Announced(a)} : a \in AdmittedTrails}

-----------------------------------------------------------------------------
(* The two collectors                                                        *)

\* collection_status_for and _legacy_status agree on states they have in common.
TrailRollUp(states) ==
  CASE states = {"PRESENT"} -> "SUCCEEDED"
    [] states = {"UNAVAILABLE"} -> "FAILED"
    [] OTHER -> "PARTIAL"

\* cloudtrail_trails: tags and selectors do not count; a pruned trail does.
LegacyKinds == {"discovery", "configuration", "status"}
TrailsStatus ==
  IF AdmissionComplete THEN TrailRollUp({o.state : o \in {o \in CollectedOutcomes : o.kind \in LegacyKinds}})
  ELSE "PARTIAL"

\* cloudtrail_evidence
TrailEvidenceStatus ==
  LET status == TrailRollUp({o.state : o \in RetainedOutcomes})
  IN IF status = "SUCCEEDED" /\ ~AdmissionComplete THEN "PARTIAL" ELSE status

\* _trail_resource: a fact is taken from the value of its source, if there is one.
TrailFact(arn, fact) ==
  LET value == TrailSource("configuration", arn).value
  IN IF value = Unset THEN Unset ELSE value[fact]

-----------------------------------------------------------------------------
(* The validators                                                            *)

TrailSourceStates == {"PRESENT", "UNAVAILABLE", "MALFORMED", "CONFLICT"}

\* _validate_cloudtrail_manifest: the discovery, then the sources of each trail.
DiscoveryIsAllowed ==
  /\ discovery.state \in TrailSourceStates
  /\ discovery.state = "PRESENT" => discovery.discarded = 0
  /\ discovery.arns \ AdmittedTrails \subseteq ForeignTrails

\* The validators of values
ConfigurationIsAllowed(c) == c.key # Alias
StatusIsAllowed(logging) == logging \in BOOLEAN
SelectorsAreAllowed(s) ==
  /\ (s.basic = {}) # (s.advanced = {})
  /\ \A b \in s.basic : b.excluded \subseteq Excludable
  /\ \A a \in s.advanced : a # {} /\ \A f \in a : FieldIsReadable(f)

\* _validate_cloudtrail_enrichment_payload
TrailSourceIsAllowed(kind, arn) ==
  LET s == TrailSource(kind, arn)
  IN /\ s.state \in TrailSourceStates \cup {"RESOURCE_DISAPPEARED"}
     /\ s.state = "PRESENT" <=> s.value # Unset
     /\ s.value # Unset =>
          CASE kind = "configuration" -> ConfigurationIsAllowed(s.value)
            [] kind = "status" -> StatusIsAllowed(s.value)
            [] kind = "selectors" -> SelectorsAreAllowed(s.value)
            [] kind = "tags" -> TRUE

\* One outcome of each kind for each trail that stays, and none about another.
TrailManifestIsWhole ==
  LET about == RetainedOutcomes \ {DiscoveryOutcome}
  IN /\ {<<o.kind, o.about>> : o \in about} = (Kinds \cup {"identity"}) \X AdmittedTrails
     /\ \A a \in AdmittedTrails : IdentityOutcome(a) \in about

\* _validate_cloudtrail_resource_readback rebuilds each trail from its outcomes, and
\* goes by their states where _trail_resource went by the values.
RebuiltFact(arn, fact) ==
  IF IsPresent("configuration", arn) THEN TrailSource("configuration", arn).value[fact] ELSE Unset

TrailsAreRebuilt ==
  \A a \in AdmittedTrails : \A fact \in {"org", "multi", "validation", "bucket", "key"} :
    TrailFact(a, fact) = RebuiltFact(a, fact)

\* Only an organization's trail is seen from another account.
OwnerIsExplained(arn) ==
  arn \in ForeignTrails /\ IsPresent("configuration", arn) => TrailFact(arn, "org") = TRUE

\* _cloudtrail_kms_resolution_from_outcomes reconstructs the resolution from the
\* outcomes of the S3 collectors alone, and refuses a lookup that succeeded without
\* identifying the key it was asked for.
ReconstructedKey(arn) ==
  LET known == \E r \in DOMAIN storage.keys : storage.keys[r].state = "PRESENT" /\ storage.keys[r].key = arn
  IN CASE known -> "RESOLVED"
       [] ~known /\ arn \in DOMAIN storage.keys ->
            (CASE storage.keys[arn].state = "PRESENT" -> "REFUSED"
               [] storage.keys[arn].state = "DENIED" -> "ACCESS_DENIED"
               [] OTHER -> "INCOMPLETE")
       [] OTHER -> IF storage.whole THEN "NOT_COLLECTED" ELSE "INCOMPLETE"

\* _validate_cloudtrail_relationship_manifest
TrailLinksAreExpected ==
  /\ {l.reference : l \in TrailLinks} = UNION {Announced(a) : a \in AdmittedTrails}
  /\ \A l \in TrailLinks :
       CASE l.reference.type = "bucket" -> l.resolution \in {"RESOLVED", "IDENTITY_INCOMPLETE"}
         [] l.reference.type = "key" -> l.resolution = ReconstructedKey(l.reference.target)

\* _validate_resource_admission: a foreign resource needs a resolved relationship.
TrailsAreAdmissible ==
  \A a \in AdmittedTrails \cap ForeignTrails :
    \E l \in TrailLinks : l.reference.source = a /\ l.resolution = "RESOLVED"

TrailsAreAccepted ==
  /\ DiscoveryIsAllowed
  /\ TrailManifestIsWhole
  /\ \A a \in AdmittedTrails : \A k \in Kinds : TrailSourceIsAllowed(k, a)
  /\ \A a \in AdmittedTrails : OwnerIsExplained(a)
  /\ TrailsAreRebuilt
  /\ TrailLinksAreExpected
  /\ TrailsAreAdmissible

-----------------------------------------------------------------------------
(* Properties                                                                *)

\* What the CloudTrail collectors emit is accepted by InventoryService and by the
\* validators of the evidence graph, whatever AWS answered and the S3 collectors
\* retained; a trail that was left out leaves neither collector SUCCEEDED.
TrailGraphStands ==
  TrailsCollected =>
    /\ TrailsAreAccepted
    /\ ~AdmissionComplete => "SUCCEEDED" \notin {TrailsStatus, TrailEvidenceStatus}
=============================================================================
