---------------------------- MODULE TrailControls ----------------------------
(***************************************************************************)
(* The CloudTrail controls over the admitted trails: LOG-001 asks whether some *)
(* trail is logging, LOG-002 whether one proves that all management events are  *)
(* recorded, LOG-003 whether each validates its log files.                      *)
(***************************************************************************)
EXTENDS TrailEvidence

-----------------------------------------------------------------------------
(* LOG-001                                                                   *)

IsLogging(arn) == TrailSource("status", arn).value = TRUE

LoggingResult ==
  CASE TrailsStatus # "SUCCEEDED" -> "INSUFFICIENT"
    [] \E a \in AdmittedTrails : ~IsPresent("status", a) -> "INSUFFICIENT"
    [] OTHER -> IF \E a \in AdmittedTrails : IsLogging(a) THEN "PASS" ELSE "FAIL"

-----------------------------------------------------------------------------
(* selector_coverage: which of the read and write events are recorded whole     *)

ManagementReads == {"All", "ReadOnly"}
ManagementWrites == {"All", "WriteOnly"}

\* No source of events is excluded by all of the selectors.
ExclusionsMeet(selectors) ==
  selectors # {} /\ {x \in Excludable : \A s \in selectors : x \in s.excluded} = {}

BasicCoverage(selectors) ==
  LET Including(modes) == {s \in selectors : s.management /\ s.mode \in modes}
  IN {d \in {"read", "write"} :
        ExclusionsMeet(Including(IF d = "read" THEN ManagementReads ELSE ManagementWrites))}

\* A selector of management events, and of nothing but equalities about them.
CategoryFields(selector) == {f \in selector : f.field = "eventCategory"}
ModeFields(selector) == {f \in selector : f.field = "readOnly"}
Restrictions(selector) == selector \ (CategoryFields(selector) \cup ModeFields(selector))

IsProvable(selector) ==
  /\ CategoryFields(selector) # {}
  /\ \A f \in CategoryFields(selector) : f.others = {} /\ f.equals = {"Management"}
  /\ \A f \in ModeFields(selector) : f.others = {} /\ f.equals # {} /\ f.equals \subseteq {"read", "write"}

SelectedModes(selector) == {d \in {"read", "write"} : \A f \in ModeFields(selector) : d \in f.equals}

\* "unknown" if a restricted selector might record what the others do not.
Coverage(value) ==
  LET free == {s \in value.advanced : Restrictions(s) = {}}
      covered == UNION {SelectedModes(s) : s \in free}
  IN IF value.advanced = {} THEN BasicCoverage(value.basic)
     ELSE IF covered # {"read", "write"} /\ free # value.advanced THEN {"unknown"} ELSE covered

-----------------------------------------------------------------------------
(* cloudtrail_proof                                                          *)

\* Mutant of DiscoveryIsProven: trails that were not admitted do not matter.
DiscoveryIsPresent == discovery.state = "PRESENT"

DiscoveryIsProven == discovery.state = "PRESENT" /\ AdmissionComplete

\* The account's proof needs every source of every trail.
CoverageIsProven(arn) ==
  /\ \A k \in {"configuration", "status", "selectors"} : IsPresent(k, arn)
  /\ TrailFact(arn, "multi") \in BOOLEAN /\ TrailFact(arn, "org") \in BOOLEAN
  /\ \A s \in TrailSource("selectors", arn).value.advanced : IsProvable(s)

TrailCoverage(arn) == Coverage(TrailSource("selectors", arn).value)
Qualifies(arn) ==
  IsLogging(arn) /\ TrailFact(arn, "multi") = TRUE /\ TrailCoverage(arn) = {"read", "write"}

CoverageResult ==
  IF ~DiscoveryIsProven \/ \E a \in AdmittedTrails : ~CoverageIsProven(a) THEN "INSUFFICIENT"
  ELSE IF \E a \in AdmittedTrails : Qualifies(a) THEN "PASS"
  ELSE IF \E a \in AdmittedTrails : TrailCoverage(a) = {"unknown"} THEN "INSUFFICIENT"
  ELSE "FAIL"

ValidationResult(arn) ==
  CASE ~DiscoveryIsProven \/ TrailFact(arn, "validation") \notin BOOLEAN -> "INSUFFICIENT"
    [] OTHER -> IF TrailFact(arn, "validation") THEN "PASS" ELSE "FAIL"

-----------------------------------------------------------------------------
(* Verdicts: Unset stands for the account                                     *)

TrailVerdict(control, target, result) == [control |-> control, target |-> target, result |-> result]

TrailVerdicts ==
  IF ~TrailsCollected THEN {}
  ELSE {TrailVerdict("LOG-001", Unset, LoggingResult), TrailVerdict("LOG-002", Unset, CoverageResult)}
       \cup {TrailVerdict("LOG-003", a, ValidationResult(a)) : a \in AdmittedTrails}
       \cup {TrailVerdict("LOG-003", Unset, IF DiscoveryIsProven THEN "N/A" ELSE "INSUFFICIENT") :
               x \in IF AdmittedTrails = {} THEN {Unset} ELSE {}}

-----------------------------------------------------------------------------
(* Properties                                                                *)

\* The events of one service, and whether CloudTrail records them: a basic selector
\* takes them unless it excludes their source, an advanced one if every field agrees.
Events == {"read", "write"} \X (Excludable \cup {"other"})

FieldAgrees(field, event) ==
  LET value == [eventCategory |-> "Management", readOnly |-> event[1], eventSource |-> event[2]]
  IN (field.equals # {} => value[field.field] \in field.equals) /\ value[field.field] \notin field.others

Records(selectors, event) ==
  \/ \E i \in DOMAIN selectors.basic :
       LET s == selectors.basic[i]
       IN /\ s.management # FALSE
          /\ event[1] = "read" => s.mode # "WriteOnly"
          /\ event[1] = "write" => s.mode # "ReadOnly"
          /\ event[2] \notin s.excluded
  \/ \E i \in DOMAIN selectors.advanced : \A f \in selectors.advanced[i] : FieldAgrees(f, event)

\* What the account deserves for a trail as it is now.
Deserves(control, arn) ==
  CASE control = "LOG-001" -> trails[arn].logging
    [] control = "LOG-002" ->
         trails[arn].logging /\ trails[arn].multi = TRUE /\ \A e \in Events : Records(trails[arn].selectors, e)
    [] control = "LOG-003" -> trails[arn].validation = TRUE

Steady == DOMAIN trails \ altered

\* A verdict on the account passes only for a trail that deserves it or that changed
\* during the scan, and fails only if no steady trail deserves it, whether or not the
\* trail was listed, read or admitted. A verdict on a steady trail is what the trail
\* deserves; and once LOG-003 concludes on one, it has a verdict on every steady one.
TrailVerdictsAreTrue ==
  \A v \in TrailVerdicts :
    /\ v.target = Unset /\ v.result = "PASS" =>
         altered # {} \/ \E a \in Steady : Deserves(v.control, a)
    /\ v.target = Unset /\ v.result = "FAIL" => \A a \in Steady : ~Deserves(v.control, a)
    /\ v.target \in Steady /\ v.result \in {"PASS", "FAIL"} =>
         (v.result = "PASS" <=> Deserves(v.control, v.target))
    /\ v.control = "LOG-003" /\ v.result # "INSUFFICIENT" =>
         (IF v.target = Unset THEN Steady = {}
          ELSE \A a \in Steady : \E o \in TrailVerdicts : o.control = "LOG-003" /\ o.target = a)
=============================================================================
