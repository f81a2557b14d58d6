-------------------------- MODULE BucketCollection --------------------------
(***************************************************************************)
(* S3CollectionBundle: one pass over the buckets of the account, one AWS call *)
(* after the other, while the account may change between two calls. A source  *)
(* keeps the answer of its call; what the bundle makes of the answers that    *)
(* contradict each other is derived from them.                                *)
(***************************************************************************)
EXTENDS Integers, SequencesExt

CONSTANTS
  Buckets, KeyIds, Missing,
  Accounts,       \* the accounts a scan may meet: settings by bucket, account block
  Rewrites,       \* the settings a bucket may be given during the scan
  KeyRegion,      \* the Region of each key
  MaxRefusals,    \* bound: calls that AWS denies or answers badly
  MaxUpheavals    \* bound: buckets or keys changed during the scan

VARIABLES
  cloud,      \* the settings of each bucket, Missing without the bucket
  shield,     \* the public access block of the account, Missing without one
  keyVersion, \* changes whenever the metadata of the key does
  spoiled,    \* buckets changed or deleted during the scan
  refusals, upheavals,
  stage,      \* of _collect: list, account, buckets, keys, done
  listing,    \* what ListBuckets delivered: items, and the error that ended it
  account,    \* the source of the account's block
  records,    \* the _BucketRecord of each summary
  lookups     \* the answer of each DescribeKey

world == <<cloud, shield, keyVersion, spoiled, upheavals>>
collected == <<stage, listing, account, records, lookups>>
bucketVars == <<world, refusals, collected>>

Flags == {"ignore", "restrict"}

Grantees == {"owner", "everyone", "partner"}
PublicBlocks == (SUBSET Flags) \cup {Missing}
Encryptions ==
  [algorithm : STRING,
   reference : [form : {"arn", "alias", "bad"}, key : KeyIds, region : STRING \cup {Missing}] \cup {Missing}]

\* The settings of a bucket: what the API accepts and returns.
BucketForms ==
  [region : STRING, tags : SUBSET STRING, encryption : Encryptions \cup {Missing},
   block : PublicBlocks, policy : {"public", "external", "odd", "deny", Missing},
   grants : SUBSET Grantees, ownership : {"enforced", "writer", Missing}]
AreBucketSettings(s) == s \in BucketForms /\ s.tags # Missing

ASSUME BucketsAssumption ==
  /\ IsFiniteSet(Buckets) /\ KeyRegion \in [KeyIds -> STRING]
  /\ MaxRefusals \in Nat /\ MaxUpheavals \in Nat
  /\ \A a \in Accounts :
       /\ DOMAIN a.buckets = Buckets /\ a.shield \in PublicBlocks
       /\ \A b \in Buckets : a.buckets[b] = Missing \/ AreBucketSettings(a.buckets[b])
  /\ \A s \in Rewrites : AreBucketSettings(s)

\* The calls about one bucket, in the order of _collect.
Calls == <<"location", "region", "tags", "encryption", "block", "policy", "policy_status",
           "acl", "versioning", "ownership">>

-----------------------------------------------------------------------------
(* Answers: _SourceValue with its _source_state; raw is details.legacy_value   *)
(* and stops the status _legacy_source_error would end the older collector with *)

Present(value) ==
  [state |-> "PRESENT", value |-> value, raw |-> Missing, stops |-> Missing]

Absent(value) == [Present(value) EXCEPT !.state = "EXPECTED_ABSENCE"]

Failed(error) ==
  LET state == [gone |-> "RESOURCE_DISAPPEARED", denied |-> "UNAVAILABLE",
                malformed |-> "MALFORMED", conflict |-> "CONFLICT"]
  IN [state |-> state[error], value |-> Missing, raw |-> Missing,
      stops |-> IF error \in {"gone", "denied"} THEN "FAILED" ELSE "PARTIAL"]

\* Missing is no name, no setting, no error and no source.
ASSUME MissingAssumption ==
  /\ Missing \notin Buckets /\ Missing \notin STRING
  /\ \A grants \in SUBSET Grantees : grants # Missing
  /\ Missing \notin [present : BOOLEAN, public : BOOLEAN]
  /\ Missing \notin {"public", "external", "odd", "deny", "denied", "malformed", "FAILED", "PARTIAL"}
  /\ Missing # Failed("conflict")

Optional(value, absent) == IF value = Missing THEN Absent(absent) ELSE Present(value)

\* The legacy validator accepted the mapping: it is retained beside the value.
Retaining(answer) ==
  IF answer.state = "PRESENT" THEN [answer EXCEPT !.raw = answer.value] ELSE answer

\* The stricter normalizer refuses what the legacy validator accepted.
Refused(answer) == [Failed("malformed") EXCEPT !.raw = answer.raw, !.stops = Missing]

Usable(answer) == answer.state \in {"PRESENT", "EXPECTED_ABSENCE"}

-----------------------------------------------------------------------------
(* AWS                                                                       *)

BlockOf(flags) == IF flags = Missing THEN {} ELSE flags

\* GetBucketAcl returns the permissions in force.
EffectiveGrants(s) ==
  IF s.ownership = "enforced" THEN {"owner"}
  ELSE IF "ignore" \in BlockOf(s.block) \cup BlockOf(shield) THEN s.grants \ {"everyone"}
  ELSE s.grants

Said(s, call) ==
  CASE call = "location" -> Present(s.region)
    [] call = "region" -> Present(s.region)
    [] call = "tags" -> IF s.tags = {} THEN Absent({}) ELSE Present(s.tags)
    [] call = "encryption" -> Retaining(Optional(s.encryption, Missing))
    [] call = "block" -> Retaining(Optional(s.block, {}))
    [] call = "policy" -> Optional(s.policy, Missing)
    [] call = "policy_status" ->
         IF s.policy = Missing THEN Absent([present |-> FALSE, public |-> FALSE])
         ELSE Present([present |-> TRUE, public |-> s.policy = "public"])
    [] call = "acl" -> Present(EffectiveGrants(s))
    [] call = "versioning" -> Absent(Missing)
    [] call = "ownership" -> Optional(s.ownership, Missing)

\* What may come back instead of what AWS holds.
Spoilt(answer, call) ==
  {Failed("denied"), Failed("malformed")}
  \cup (IF call \in {"encryption", "block"} /\ answer.state = "PRESENT"
        THEN {Refused(answer)} ELSE {})

\* _collect_optional_mapping and its siblings, for a bucket that may be gone.
Answers(b, call) ==
  IF cloud[b] = Missing THEN {Failed("gone")}
  ELSE {Said(cloud[b], call)}
       \cup (IF refusals < MaxRefusals THEN Spoilt(Said(cloud[b], call), call) ELSE {})

Refusal(answer) == IF answer.state \in {"UNAVAILABLE", "MALFORMED"} THEN 1 ELSE 0

-----------------------------------------------------------------------------
(* Discovery                                                                 *)

Summary(b, region, created) == [name |-> b, region |-> region, created |-> created]

\* An item that cannot be read is Missing.
Page(items, error) == [items |-> items, error |-> error]
NothingListed == Page(<<>>, Missing)

\* _collect_bucket_summaries, by positions: the first item of a name is a summary, and
\* one that differs from an earlier one of its name contradicts it.
Items == listing.items
Legible == {i \in DOMAIN Items : Items[i] # Missing}
Summaries == {i \in Legible : \A j \in Legible : j < i => Items[j].name # Items[i].name}
Contradictions ==
  {i \in Legible : \E j \in Legible : j < i /\ Items[j].name = Items[i].name /\ Items[j] # Items[i]}

\* Neither version of a bucket that is listed twice is admitted, nor is any later item of its name.
Blocked == {Items[i].name : i \in Contradictions}
IsAdmitted(i) == i \in Summaries /\ Items[i].name \notin Blocked
AdmittedNames == {Items[i].name : i \in Summaries} \ Blocked
Late == {i \in Legible : \E j \in Contradictions : j <= i /\ Items[j].name = Items[i].name}
Discarded == Cardinality(DOMAIN Items \ Legible) + Cardinality(Blocked) + Cardinality(Late)

ListingErrors ==
  {"conflict" : i \in Contradictions} \cup {"malformed" : i \in DOMAIN Items \ Legible}
  \cup ({listing.error} \ {Missing})

\* What ListBuckets may deliver for the buckets that exist.
Existing == {b \in Buckets : cloud[b] # Missing}
ItemOf(b, regional, created) == Summary(b, IF regional THEN cloud[b].region ELSE Missing, created)
EveryBucket(regional) ==
  LET order == SetToSeq(Existing) IN [i \in DOMAIN order |-> ItemOf(order[i], regional, 0)]
Again(b, regional) ==
  {<<ItemOf(b, regional, 1)>>, <<ItemOf(b, regional, 1), ItemOf(b, regional, 0)>>}

\* A listing ends in an error, or holds an item that cannot be read or a bucket that it
\* listed before.
BadPages(whole, regional) ==
  {Page(SubSeq(whole, 1, n), e) : n \in 0..Len(whole), e \in {"denied", "malformed"}}
  \cup {Page(Append(whole, Missing), Missing)}
  \cup UNION {{Page(whole \o extra, Missing) : extra \in Again(b, regional)} : b \in Existing}

Pages(regional) ==
  LET whole == EveryBucket(regional)
  IN {Page(whole, Missing)} \cup (IF refusals = MaxRefusals THEN {} ELSE BadPages(whole, regional))

\* _preferred_error
DiscoveryState ==
  IF ListingErrors = {} THEN "PRESENT"
  ELSE IF "conflict" \in ListingErrors THEN "CONFLICT"
  ELSE Failed(IF "malformed" \in ListingErrors THEN "malformed" ELSE "denied").state

-----------------------------------------------------------------------------
(* One bucket: _collect decides each call by what the earlier ones answered    *)

\* The Region is listed or asked for; a bucket that is not admitted is not asked
\* for its location.
NewRecord(i) ==
  [call \in Range(Calls) |->
     CASE call = "location" /\ ~IsAdmitted(i) -> Failed("conflict")
       [] call = "region" /\ Items[i].region # Missing -> Present(Items[i].region)
       [] OTHER -> Missing]

Answered(answer) == answer # Missing

\* The value of a call that answered with one.
Stated(answer) ==
  IF Answered(answer) /\ answer.state = "PRESENT" THEN answer.value ELSE Missing

LegacyRegion(r) == Stated(r.region)

\* The two Regions agree, or there is no direct one.
DirectRegion(r) ==
  IF LegacyRegion(r) \in {Missing, Stated(r.location)} THEN Stated(r.location) ELSE Missing

Unstopped(answer) == Answered(answer) /\ answer.stops = Missing

\* Whether the call is made at all.
Applies(r, call, admitted) ==
  CASE call \in {"location", "region"} -> TRUE
    [] call = "tags" -> {DirectRegion(r), LegacyRegion(r)} # {Missing}
    [] call = "encryption" -> Answered(r.tags) /\ (admitted \/ Unstopped(r.tags))
    [] call = "block" -> Answered(r.tags) /\ (admitted \/ Unstopped(r.encryption))
    [] OTHER -> DirectRegion(r) # Missing

\* Positions in Calls of those still to be made for a summary.
RecordOf(i) == IF records[Items[i].name] = Missing THEN NewRecord(i) ELSE records[Items[i].name]
Remaining(i) ==
  LET r == RecordOf(i)
      admitted == IsAdmitted(i)
  IN {k \in DOMAIN Calls : ~Answered(r[Calls[k]]) /\ Applies(r, Calls[k], admitted)}
Pending == {i \in Summaries : Remaining(i) # {}}

\* What is taken up first of a set of positions.
IsNext(n, positions) == n \in positions /\ \A m \in positions : n <= m

-----------------------------------------------------------------------------
(* What the bundle makes of contradictory answers                             *)

Contradictory(answer) == [answer EXCEPT !.state = "CONFLICT", !.stops = "PARTIAL"]

\* s3_policy_evidence_conflicts
PoliciesConflict(policy, status) ==
  \/ policy = Missing /\ status.public
  \/ policy # Missing /\ ~status.present
  \/ policy = "public" /\ ~status.public

\* s3_acl_public_access_conflicts and s3_acl_ownership_conflicts
GrantsConflict(grants, blocked, ownership) ==
  \/ "everyone" \in grants /\ "ignore" \in blocked
  \/ ownership = "enforced" /\ grants # {"owner"}

UsableFlags(answer) == IF Usable(answer) THEN answer.value ELSE {}

\* _reconcile_policy_sources
Policies(r) ==
  IF Usable(r.policy) /\ Usable(r.policy_status)
     /\ PoliciesConflict(r.policy.value, r.policy_status.value)
  THEN [r EXCEPT !.policy = Contradictory(@), !.policy_status = Contradictory(@)] ELSE r

\* _reconcile_acl_sources
AclSource(r) ==
  IF Usable(r.acl)
     /\ GrantsConflict(r.acl.value, UsableFlags(account) \cup UsableFlags(r.block), r.ownership.value)
  THEN [r EXCEPT !.acl = Contradictory(@)] ELSE r

\* The reference of a default KMS rule, if the bucket has one.
ReferenceOf(encryption) == IF encryption = Missing THEN Missing ELSE encryption.reference

\* A reference that names no Region closes the outcome and keeps the rule.
EncryptionSource(r) ==
  IF r.encryption.state = "PRESENT" /\ ReferenceOf(r.encryption.value) # Missing
     /\ r.encryption.value.reference.form = "bad"
  THEN [r EXCEPT !.encryption.state = "MALFORMED"] ELSE r

\* The record as _collect appends it.
Settled(r) ==
  IF DirectRegion(r) # Missing THEN EncryptionSource(AclSource(Policies(r)))
  ELSE IF r.location.state = "PRESENT" THEN [r EXCEPT !.location = Failed("conflict")]
  ELSE r

\* _kms_reference_region: an ARN carries its own Region.
LookupRegion(reference, region) == IF reference.form = "arn" THEN reference.region ELSE region

\* The DescribeKey lookups the bucket asks for: none or one.
Wanted(r) ==
  IF DirectRegion(r) = Missing \/ Settled(r).encryption.state # "PRESENT" THEN {}
  ELSE {[region |-> LookupRegion(ref, DirectRegion(r)), reference |-> ref] :
          ref \in {ReferenceOf(r.encryption.value)} \ {Missing}}

Seen == {b \in Buckets : records[b] # Missing}
AllWanted == UNION {Wanted(records[b]) : b \in Seen}

Described == {l \in DOMAIN lookups : lookups[l].state = "PRESENT"}

\* Mutant of LookupSource: a key read twice keeps both readings.
LookupAlone(l) == lookups[l]

\* Two readings of one key that differ make every lookup of it a conflict.
LookupSource(l) ==
  IF l \in Described
     /\ \E o \in Described : /\ lookups[o].value.key = lookups[l].value.key
                             /\ lookups[o].value # lookups[l].value
  THEN Failed("conflict") ELSE lookups[l]

-----------------------------------------------------------------------------
(* The status of the older collector, replayed over the same answers            *)

StopsOf(answer) == IF Answered(answer) THEN answer.stops ELSE "PARTIAL"

\* The first failure the older collector would have met in this bucket.
FirstStop(r) ==
  IF r.region.stops # Missing THEN r.region.stops
  ELSE IF StopsOf(r.tags) # Missing THEN StopsOf(r.tags)
  ELSE IF StopsOf(r.encryption) # Missing THEN StopsOf(r.encryption)
  ELSE StopsOf(r.block)

ItemStop(i) ==
  IF i \in Summaries THEN FirstStop(Settled(records[Items[i].name]))
  ELSE IF i \notin Legible \/ i \in Contradictions THEN "PARTIAL" ELSE Missing

\* Mutant of LegacyStatus: a failure in a bucket does not end the collection.
LegacyStatusOfDiscovery == IF ListingErrors = {} THEN "SUCCEEDED" ELSE "PARTIAL"

\* _legacy_first_error, _legacy_collection_status
LegacyStatus ==
  LET stopping == {i \in DOMAIN Items : ItemStop(i) # Missing}
  IN IF stopping # {}
     THEN IF \E i \in stopping : IsNext(i, stopping) /\ ItemStop(i) = "FAILED" THEN "FAILED" ELSE "PARTIAL"
     ELSE IF listing.error # Missing THEN Failed(listing.error).stops ELSE "SUCCEEDED"

-----------------------------------------------------------------------------

BucketInit ==
  /\ \E a \in Accounts : cloud = a.buckets /\ shield = a.shield
  /\ keyVersion = [k \in KeyIds |-> 0]
  /\ spoiled = {} /\ refusals = 0 /\ upheavals = 0
  /\ stage = "list" /\ listing = NothingListed /\ account = Missing
  /\ records = [b \in Buckets |-> Missing] /\ lookups = <<>>

ListBuckets ==
  /\ stage = "list"
  /\ \E regional \in BOOLEAN : listing' \in Pages(regional)
  /\ refusals' = refusals + (IF ListingErrors' = {} THEN 0 ELSE 1)
  /\ stage' = "account"
  /\ UNCHANGED <<world, account, records, lookups>>

\* No block in the account: NoSuchPublicAccessBlockConfiguration.
ReadAccountBlock ==
  /\ stage = "account"
  /\ \E answer \in {Optional(shield, {})}
                   \cup (IF refusals < MaxRefusals THEN {Failed("denied"), Failed("malformed")} ELSE {}) :
       account' = answer /\ refusals' = refusals + Refusal(answer)
  /\ stage' = "buckets"
  /\ UNCHANGED <<world, listing, records, lookups>>

\* The next call about the first bucket that is not finished.
AskBucket ==
  /\ stage = "buckets"
  /\ \E i \in Pending : \E k \in Remaining(i) :
       /\ IsNext(i, Pending) /\ IsNext(k, Remaining(i))
       /\ \E answer \in Answers(Items[i].name, Calls[k]) :
            /\ records' = [records EXCEPT ![Items[i].name] = [RecordOf(i) EXCEPT ![Calls[k]] = answer]]
            /\ refusals' = refusals + Refusal(answer)
  /\ UNCHANGED <<world, stage, listing, account, lookups>>

BucketsCollected ==
  /\ stage = "buckets" /\ Pending = {}
  /\ stage' = IF AllWanted = {} THEN "done" ELSE "keys"
  /\ UNCHANGED <<world, refusals, listing, account, records, lookups>>

\* A reference names a key of the Region it is looked up in, or AWS knows none.
KeySaid(l) ==
  IF KeyRegion[l.reference.key] = l.region
  THEN Present([key |-> l.reference.key, version |-> keyVersion[l.reference.key]])
  ELSE Failed("denied")

\* One DescribeKey for every reference and Region.
DescribeKey ==
  /\ stage = "keys"
  /\ \E l \in AllWanted \ DOMAIN lookups :
       \E answer \in {KeySaid(l)} \cup (IF refusals < MaxRefusals
                                        THEN {Failed("denied"), Failed("malformed")} ELSE {}) :
         /\ lookups' = [o \in DOMAIN lookups \cup {l} |-> IF o = l THEN answer ELSE lookups[o]]
         /\ refusals' = refusals + (IF answer = KeySaid(l) THEN 0 ELSE 1)
  /\ stage' = IF DOMAIN lookups' = AllWanted THEN "done" ELSE "keys"
  /\ UNCHANGED <<world, listing, account, records>>

\* A bucket that is still to be asked is deleted, or given other settings: also
\* those of a bucket created again under the name.
ChangeBucket ==
  /\ stage = "buckets" /\ upheavals < MaxUpheavals
  /\ \E i \in Pending, s \in Rewrites \cup {Missing} :
       LET b == Items[i].name
       IN /\ cloud[b] \notin {Missing, s}
          /\ cloud' = [cloud EXCEPT ![b] = s]
          /\ spoiled' = spoiled \cup {b}
  /\ upheavals' = upheavals + 1
  /\ UNCHANGED <<shield, keyVersion, refusals, collected>>

ChangeKey ==
  /\ stage = "keys" /\ upheavals < MaxUpheavals
  /\ \E k \in KeyIds : keyVersion' = [keyVersion EXCEPT ![k] = @ + 1]
  /\ upheavals' = upheavals + 1
  /\ UNCHANGED <<cloud, shield, spoiled, refusals, collected>>

BucketNext ==
  \/ ListBuckets
  \/ ReadAccountBlock
  \/ AskBucket
  \/ BucketsCollected
  \/ DescribeKey
  \/ ChangeBucket
  \/ ChangeKey

BucketSpec == BucketInit /\ [][BucketNext]_bucketVars
=============================================================================
