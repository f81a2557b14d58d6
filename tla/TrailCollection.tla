--------------------------- MODULE TrailCollection ---------------------------
(***************************************************************************)
(* CloudTrailCollectionBundle: ListTrails, three calls about every trail that  *)
(* was listed, then its tags in batches of one Region. Trails may be rewritten *)
(* or deleted between two calls. An ARN names the Region and the owner of its  *)
(* trail: a foreign one is the shadow of an organization's trail.              *)
(***************************************************************************)
EXTENDS Integers, SequencesExt

CONSTANTS
  Trails,         \* ARNs
  ForeignTrails,  \* those that name another account
  HomeRegionOf,
  TrailAccounts,  \* the accounts a scan may meet: trails by ARN, and their storage
  TrailRewrites,  \* settings that may replace those of a trail
  TagBatchSize,
  Unset,
  MaxTroubles     \* bound: calls that go wrong, and changes of trails

ASSUME TrailsAssumption ==
  /\ IsFiniteSet(Trails) /\ ForeignTrails \subseteq Trails
  /\ TagBatchSize \in Nat \ {0} /\ MaxTroubles \in Nat

VARIABLES
  trails,    \* the settings of each trail, by ARN
  storage,   \* what the S3 collectors retained of buckets and keys
  altered,   \* ARNs of trails changed during the scan
  troubles,
  alone,     \* trails whose tags are asked for one by one
  discovery, \* what _collect_discovery returned
  sources    \* the answer to each call about a trail

trailVars == <<trails, storage, altered, troubles, alone, discovery, sources>>

-----------------------------------------------------------------------------
(* Settings of a trail: what the API accepts and returns                       *)

Alias == "alias"   \* a key that is not named by its ARN

OptionalFlag == BOOLEAN \cup {Unset}
OptionalName == STRING \cup {Unset}
BasicForms ==
  [management : OptionalFlag, mode : {"All", "ReadOnly", "WriteOnly", Unset}, excluded : SUBSET STRING]
FieldForms ==
  [field : {"eventCategory", "readOnly", "eventSource"}, equals : SUBSET STRING, others : SUBSET STRING]
SelectorForms == [basic : Seq(BasicForms), advanced : Seq(SUBSET FieldForms)]

SettingForms ==
  [org |-> OptionalFlag, multi |-> OptionalFlag, validation |-> OptionalFlag,
   bucket |-> OptionalName, key |-> OptionalName,
   cloudwatch |-> {"none", "half", "both"}, logging |-> BOOLEAN, selectors |-> SelectorForms]

\* A settings record holds all of them, a change some.
Fit(t) == DOMAIN t \subseteq DOMAIN SettingForms /\ \A f \in DOMAIN t : t[f] \in SettingForms[f]
AreSettings(t) == Fit(t) /\ DOMAIN t = DOMAIN SettingForms

\* A lookup by the ARN of a key that succeeds identifies this key.
ASSUME AccountsAssumption ==
  /\ \A a \in TrailAccounts :
       /\ DOMAIN a.trails \subseteq Trails
       /\ \A arn \in DOMAIN a.trails : AreSettings(a.trails[arn])
       /\ \A r \in DOMAIN a.storage.keys \ {Alias} :
            a.storage.keys[r].state = "PRESENT" => a.storage.keys[r].key = r
  /\ \A r \in TrailRewrites : Fit(r)

\* Values of sources
Configurations ==
  [org : OptionalFlag, multi : OptionalFlag, validation : OptionalFlag,
   bucket : OptionalName, key : OptionalName]
SelectorValues ==
  [basic : SUBSET [management : BOOLEAN, mode : {"All", "ReadOnly", "WriteOnly"}, excluded : SUBSET STRING],
   advanced : SUBSET (SUBSET FieldForms)]

ASSUME UnsetAssumption ==
  /\ Unset \notin Trails /\ Unset \notin BOOLEAN /\ Unset # {}
  /\ Unset \notin {"UNAVAILABLE", "MALFORMED", "CONFLICT", "All", "ReadOnly", "WriteOnly"}
  /\ Unset \notin Configurations /\ Unset \notin SelectorValues

-----------------------------------------------------------------------------
(* Sources: _SourceValue with its _state_for                                  *)

Sourced(value) == [state |-> "PRESENT", value |-> value]
Unsourced(state) == [state |-> state, value |-> Unset]

\* TrailNotFoundException, for every call about one trail.
NoSuchTrail == Unsourced("RESOURCE_DISAPPEARED")

\* _preferred_error and source_failure, over the states of the single errors.
PreferredState(errors) ==
  IF errors = {} THEN "PRESENT"
  ELSE IF "CONFLICT" \in errors THEN "CONFLICT"
  ELSE IF "MALFORMED" \in errors THEN "MALFORMED"
  ELSE "UNAVAILABLE"

Smooth == troubles < MaxTroubles

\* The source of one call about a trail: AWS may deny it, or answer it badly.
Spoiling(answer, states) ==
  {answer} \cup (IF Smooth /\ answer # NoSuchTrail THEN {Unsourced(s) : s \in states} ELSE {})

-----------------------------------------------------------------------------
(* Discovery                                                                 *)

TrailItem(arn, outcome) == [arn |-> arn, reading |-> outcome]
TrailPages(items, error) == [items |-> items, error |-> error]

InOrder(arns) == LET order == SetToSeq(arns) IN [i \in DOMAIN order |-> TrailItem(order[i], "plain")]

\* The pages break off, or contain an item that does not read: in place of the first
\* that does, before it, after it, or between two copies of it.
SpoiltPages(whole) ==
  LET first == IF whole = <<>> THEN <<>> ELSE <<Head(whole)>>
      garbled == {TrailItem(whole[i].arn, "garbled") : i \in DOMAIN whole} \cup {TrailItem(Unset, "garbled")}
  IN {TrailPages(SubSeq(whole, 1, n), e) : n \in 0..Len(whole), e \in {"UNAVAILABLE", "MALFORMED"}}
     \cup UNION {{TrailPages(<<g>> \o SubSeq(whole, Len(first) + 1, Len(whole)), Unset),
                  TrailPages(<<g>> \o whole, Unset),
                  TrailPages(whole \o <<g>> \o first, Unset)} : g \in garbled}

PagesOf(arns) ==
  {TrailPages(InOrder(arns), Unset)} \cup (IF Smooth THEN SpoiltPages(InOrder(arns)) ELSE {})

\* _collect_discovery, by positions: an item is compared with an earlier one of its ARN that was
\* read, before it is read itself.
Compared(items, i) ==
  \E j \in DOMAIN items : j < i /\ items[j].arn = items[i].arn /\ items[j].reading = "plain"

\* Two that differ are both discarded, and so is every later item of their ARN.
TrailsRead(listed) ==
  LET items == listed.items
      plain == {i \in DOMAIN items : items[i].reading = "plain"}
      conflicts == {i \in DOMAIN items \ plain : Compared(items, i)}
      malformed == DOMAIN items \ (plain \cup conflicts)
      contested == {items[i].arn : i \in conflicts}
      late == {i \in DOMAIN items : \E j \in conflicts : j <= i /\ items[j].arn = items[i].arn}
  IN [arns |-> {items[i].arn : i \in plain} \ contested,
      discarded |-> Cardinality(malformed) + Cardinality(contested) + Cardinality(late),
      state |-> PreferredState({"CONFLICT" : i \in conflicts} \cup {"MALFORMED" : i \in malformed}
                               \cup ({listed.error} \ {Unset}))]

-----------------------------------------------------------------------------
(* GetTrail: _normalize_trail_configuration                                   *)

\* The first check that the settings of a trail do not pass, Unset if they pass all.
SettingsError(arn, t) ==
  CASE t.cloudwatch = "half" -> "CONFLICT"
    [] t.cloudwatch # "half" /\ t.key = Alias -> "MALFORMED"
    [] t.cloudwatch # "half" /\ t.key # Alias /\ arn \in ForeignTrails /\ t.org # TRUE ->
         IF t.org = Unset THEN "MALFORMED" ELSE "CONFLICT"
    [] OTHER -> Unset

Configuration(arn, t) ==
  IF SettingsError(arn, t) = Unset
  THEN Sourced([org |-> t.org, multi |-> t.multi, validation |-> t.validation,
                bucket |-> t.bucket, key |-> t.key])
  ELSE Unsourced(SettingsError(arn, t))

-----------------------------------------------------------------------------
(* GetEventSelectors: _normalize_event_selectors                              *)

\* The sources of management events that a basic selector may exclude.
Excludable == {"kms", "rdsdata"}
OrElse(value, default) == IF value = Unset THEN default ELSE value

BasicSelector(s) ==
  [management |-> OrElse(s.management, TRUE), mode |-> OrElse(s.mode, "All"), excluded |-> s.excluded]

BasicIsReadable(selector) == selector.excluded \subseteq Excludable

\* A field compares with at least one value, in one of its operators.
FieldIsReadable(f) == f.equals # {} \/ f.others # {}
AdvancedIsReadable(selector) == selector # {} /\ \A f \in selector : FieldIsReadable(f)

SelectorsError(s) ==
  IF (s.basic = <<>>) <=> (s.advanced = <<>>) THEN "CONFLICT"
  ELSE IF \E i \in DOMAIN s.basic : ~BasicIsReadable(s.basic[i]) THEN "MALFORMED"
  ELSE IF \E i \in DOMAIN s.advanced : ~AdvancedIsReadable(s.advanced[i]) THEN "MALFORMED"
  ELSE IF ~IsInjective(s.basic) \/ ~IsInjective(s.advanced) THEN "CONFLICT"
  ELSE Unset

Selectors(s) ==
  IF SelectorsError(s) = Unset
  THEN Sourced([basic |-> {BasicSelector(s.basic[i]) : i \in DOMAIN s.basic},
                advanced |-> ToSet(s.advanced)])
  ELSE Unsourced(SelectorsError(s))

-----------------------------------------------------------------------------
(* Calls                                                                     *)

Kinds == {"configuration", "status", "selectors", "tags"}
Unasked(kind) == {a \in discovery.arns : <<kind, a>> \notin DOMAIN sources}
TrailsCollected == discovery # Unset /\ \A kind \in Kinds : Unasked(kind) = {}

\* _collect asks for three things of a trail, then of the next one.
NextTrail ==
  CHOOSE a \in Unasked("selectors") :
    a \in Unasked("configuration") => Unasked("selectors") \subseteq Unasked("configuration")
NextKind ==
  CASE NextTrail \in Unasked("configuration") -> "configuration"
    [] NextTrail \notin Unasked("configuration") /\ NextTrail \in Unasked("status") -> "status"
    [] OTHER -> "selectors"

\* _collect_tags asks in batches of trails with one home Region, in some order.
IsBatch(batch) ==
  IF alone # {} THEN \E a \in alone : batch = {a}
  ELSE \E region \in {HomeRegionOf[a] : a \in Unasked("tags")} :
         LET there == {a \in Unasked("tags") : HomeRegionOf[a] = region}
         IN batch \subseteq there /\ Cardinality(batch) = Min({Cardinality(there), TagBatchSize})

Updated(old, new) ==
  [x \in DOMAIN old \cup DOMAIN new |-> IF x \in DOMAIN new THEN new[x] ELSE old[x]]

Spent(wrong) == troubles' = troubles + (IF wrong THEN 1 ELSE 0)

TrailInit ==
  /\ \E a \in TrailAccounts : trails = a.trails /\ storage = a.storage
  /\ altered = {} /\ troubles = 0 /\ sources = <<>>
  /\ discovery = Unset /\ alone = {}

ListTrails ==
  /\ discovery = Unset
  /\ \E listed \in PagesOf(DOMAIN trails) :
       /\ discovery' = TrailsRead(listed)
       /\ Spent(listed # TrailPages(InOrder(DOMAIN trails), Unset))
  /\ UNCHANGED <<trails, storage, altered, alone, sources>>

\* What AWS answers to one of the three calls about a trail that there is.
Held(kind, arn) ==
  CASE kind = "configuration" -> Configuration(arn, trails[arn])
    [] kind = "status" -> Sourced(trails[arn].logging)
    [] kind = "selectors" -> Selectors(trails[arn].selectors)

\* The answers that are refused: GetTrail and GetEventSelectors name the trail they
\* are about, and another one is a conflict.
Refusals(kind) ==
  {"UNAVAILABLE", "MALFORMED"} \cup (IF kind = "status" THEN {} ELSE {"CONFLICT"})

GetTrail ==
  /\ discovery # Unset /\ Unasked("selectors") # {}
  /\ LET stored == IF NextTrail \in DOMAIN trails THEN Held(NextKind, NextTrail) ELSE NoSuchTrail
     IN \E answer \in Spoiling(stored, Refusals(NextKind)) :
          /\ sources' = Updated(sources, [x \in {<<NextKind, NextTrail>>} |-> answer])
          /\ Spent(answer # stored)
  /\ UNCHANGED <<trails, storage, altered, alone, discovery>>

\* The tags themselves decide nothing here.
TagSources(batch, answer) == [x \in {"tags"} \X batch |-> answer]

\* A page that names a stranger, or nobody, spoils the batch; one that repeats a trail, leaves it
\* out or spells its tags badly spoils this trail only.
SpoiltTags(batch) ==
  {TagSources(batch, Unsourced(s)) : s \in {"UNAVAILABLE", "MALFORMED", "CONFLICT"}}
  \cup {[TagSources(batch, Sourced({})) EXCEPT ![<<"tags", a>>] = Unsourced(s)] :
          a \in batch, s \in {"CONFLICT", "MALFORMED"}}

\* _collect_tag_batch: one trail that vanished fails its whole batch, which is then
\* asked for trail by trail.
ListTags ==
  /\ discovery # Unset /\ Unasked("selectors") = {}
  /\ \E batch \in SUBSET Unasked("tags") :
       /\ IsBatch(batch)
       /\ LET whole == TagSources(batch, Sourced({}))
          IN \/ /\ batch \subseteq DOMAIN trails
                /\ \E read \in {whole} \cup (IF Smooth THEN SpoiltTags(batch) ELSE {}) :
                     sources' = Updated(sources, read) /\ Spent(read # whole)
                /\ alone' = alone \ batch
             \/ /\ ~(batch \subseteq DOMAIN trails) /\ Cardinality(batch) > 1
                /\ alone' = batch
                /\ UNCHANGED <<sources, troubles>>
             \/ /\ ~(batch \subseteq DOMAIN trails) /\ Cardinality(batch) = 1
                /\ sources' = Updated(sources, TagSources(batch, NoSuchTrail))
                /\ alone' = alone \ batch
                /\ UNCHANGED troubles
  /\ UNCHANGED <<trails, storage, altered, discovery>>

\* A trail is deleted, or its settings are rewritten, while the scan is under way.
AlterTrail ==
  /\ Smooth /\ ~TrailsCollected
  /\ \E a \in DOMAIN trails :
       /\ \/ trails' = [b \in DOMAIN trails \ {a} |-> trails[b]]
          \/ \E rewritten \in TrailRewrites : trails' = [trails EXCEPT ![a] = Updated(@, rewritten)]
       /\ trails' # trails
       /\ altered' = altered \cup {a}
  /\ Spent(TRUE)
  /\ UNCHANGED <<storage, alone, discovery, sources>>

TrailNext ==
  \/ ListTrails
  \/ GetTrail
  \/ ListTags
  \/ AlterTrail

TrailSpec == TrailInit /\ [][TrailNext]_trailVars
=============================================================================
