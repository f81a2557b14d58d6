------------------------------- MODULE MCTrails -------------------------------
(***************************************************************************)
(* Accounts with trails of their own, of an organization, or of both; what the  *)
(* S3 collectors may have retained; one mishap or one change of a trail.         *)
(***************************************************************************)
EXTENDS TrailControls

MCHomeRegionOf == [t \in Trails |-> IF t = "t2" THEN "eu" ELSE "us"]

Basic(management, mode, excluded) == [management |-> management, mode |-> mode, excluded |-> excluded]
Field(name, equals, others) == [field |-> name, equals |-> equals, others |-> others]
OfBasic(items) == [basic |-> items, advanced |-> <<>>]
OfAdvanced(items) == [basic |-> <<>>, advanced |-> items]

Category == Field("eventCategory", {"Management"}, {})
Modes(modes) == Field("readOnly", modes, {})
NotFromKms == Field("eventSource", {}, {"kms"})

DefaultSelectors == OfBasic(<<Basic(Unset, Unset, {})>>)
WriteOnly == OfBasic(<<Basic(TRUE, "WriteOnly", {})>>)

\* Selectors that record everything, that do not, or of which nobody can tell.
SelectorShapes ==
  {DefaultSelectors, WriteOnly,
   OfBasic(<<Basic(TRUE, "ReadOnly", {"kms"}), Basic(TRUE, "All", {"rdsdata"}), Basic(TRUE, "ReadOnly", {})>>),
   OfBasic(<<Basic(TRUE, "All", {"kms"}), Basic(TRUE, "All", {"rdsdata"})>>),
   OfBasic(<<Basic(TRUE, "All", {"kms"}), Basic(FALSE, "All", {})>>),
   OfBasic(<<Basic(TRUE, "All", {"kms"}), Basic(TRUE, "All", {"kms"})>>),
   OfBasic(<<Basic(TRUE, "All", {"sts"})>>),
   OfBasic(<<>>),
   [basic |-> <<Basic(TRUE, "All", {})>>, advanced |-> <<{Category}>>],
   OfAdvanced(<<{Category}>>),
   OfAdvanced(<<{Category, Modes({"read"})}, {Category, Modes({"write"})}>>),
   OfAdvanced(<<{Category, Modes({"read"})}>>),
   OfAdvanced(<<{Category, NotFromKms}>>),
   OfAdvanced(<<{Category, NotFromKms}, {Category}>>),
   OfAdvanced(<<{Category, NotFromKms}, {Category, Modes({"write"})}>>),
   OfAdvanced(<<{Category}, {Field("eventCategory", {"Data"}, {})}>>),
   OfAdvanced(<<{Category, Field("readOnly", {}, {"read"})}>>),
   OfAdvanced(<<{Category}, {Category}>>),
   OfAdvanced(<<{}>>)}

Trail ==
  [org |-> FALSE, multi |-> TRUE, validation |-> TRUE, bucket |-> Unset, key |-> Unset,
   cloudwatch |-> "none", logging |-> TRUE, selectors |-> DefaultSelectors]

\* What single settings of a trail may be.
SettingShapes ==
  {[Trail EXCEPT !.selectors = s] : s \in SelectorShapes}
  \cup {[Trail EXCEPT !.multi = m, !.validation = v, !.org = o] :
          m \in {TRUE, FALSE, Unset}, v \in {TRUE, FALSE, Unset}, o \in {FALSE, Unset}}
  \cup {[Trail EXCEPT !.logging = FALSE], [Trail EXCEPT !.cloudwatch = "half"],
        [Trail EXCEPT !.cloudwatch = "both"], [Trail EXCEPT !.key = Alias]}

Looked(state, key) == [state |-> state, key |-> key]
Storage(buckets, keys, whole) == [buckets |-> buckets, keys |-> keys, whole |-> whole]
NoStorage == Storage({}, <<>>, TRUE)

Storages ==
  {NoStorage, Storage({}, <<>>, FALSE), Storage({"logs"}, <<>>, TRUE),
   Storage({"logs"}, "k1" :> Looked("PRESENT", "k1"), FALSE),
   Storage({}, "k1" :> Looked("DENIED", Unset), FALSE), Storage({}, "k1" :> Looked("MALFORMED", Unset), FALSE),
   Storage({}, Alias :> Looked("PRESENT", "k1"), TRUE)}

InAccount(held, stored) == [trails |-> held, storage |-> stored]

\* An organization's trail that delivers to a bucket and uses a key of its own account.
Shadow == [Trail EXCEPT !.org = TRUE, !.bucket = "logs", !.key = "k1", !.validation = FALSE]
Local == [Trail EXCEPT !.bucket = "logs", !.key = "k1", !.logging = FALSE]

NoTrails == InAccount(<<>>, NoStorage)

MCTrailAccounts ==
  {NoTrails}
  \cup {InAccount("t1" :> t, NoStorage) : t \in SettingShapes}
  \cup {InAccount("o1" :> Shadow, s) : s \in Storages}
  \cup {InAccount("o1" :> [Shadow EXCEPT !.org = o], Storage({"logs"}, <<>>, TRUE)) : o \in {FALSE, Unset}}
  \cup {InAccount("t1" :> Local @@ "o1" :> Shadow, s) : s \in Storages}
  \cup {InAccount("t1" :> Local @@ "t2" :> Trail @@ "t3" :> Trail, NoStorage)}

MCTrailRewrites ==
  {"logging" :> FALSE, "logging" :> TRUE, "validation" :> FALSE, "selectors" :> WriteOnly,
   "bucket" :> "others", "key" :> Unset}
=============================================================================
