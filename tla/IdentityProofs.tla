---------------------------- MODULE IdentityProofs ----------------------------
(***************************************************************************)
(* Proofs about the collection of the IAM identities and the controls over    *)
(* them: for every account and everything it may turn into during a scan, and  *)
(* any number of calls that go wrong. The invariant says what each resource,   *)
(* source, relationship and conflict of the graph rests on, what each call     *)
(* still to be made may rely on, and what a complete source says of whatever   *)
(* nobody touched.                                                             *)
(***************************************************************************)
EXTENDS IdentityControls, FiniteSetTheorems, SequenceTheorems, TLAPS

-----------------------------------------------------------------------------
(* Identities: the invariant                                                  *)

Kinds == {"user", "group", "role"}
ChildKinds == {"device", "key"}
Listed == {"user", "group", "role", "policy"}
OfPrincipals == {"device", "key", "profile", "attached", "inline"}

\* Some source was answered, in such a state.
Said(g, kind, about, states) == \E o \in g.outcomes : o.kind = kind /\ o.about = about /\ o.state \in states
Unsaid(g, kind, about) == \A o \in g.outcomes : ~(o.kind = kind /\ o.about = about)
Announced(g, kind, about, id) == \E o \in g.outcomes : o.kind = kind /\ o.about = about /\ id \in o.says

TheUser(id) == Thing("user", <<id>>)
ThePolicy(arn) == Thing("policy", <<arn>>)

\* The identities, and what must have been said when they were put there.
ThingFits(g, t) ==
  /\ t.type \in Listed \cup ChildKinds \cup {"inline", "version"}
  /\ t.type \in Listed \cup ChildKinds => t = Thing(t.type, <<Head(t.id)>>)
  /\ t.type \in ChildKinds =>
       /\ TheUser(g.things[t].owner) \in DOMAIN g.things
       /\ Announced(g, t.type, TheUser(g.things[t].owner), Head(t.id))
  /\ t.type = "inline" =>
       /\ g.things[t].owner \in DOMAIN g.things /\ g.things[t].owner.type \in Kinds
       /\ t = Inline(g.things[t].owner, t.id[3]) /\ ~Unsaid(g, "inline", g.things[t].owner)
  /\ t.type = "version" =>
       /\ t = VersionOf(t.id[1], t.id[2]) /\ t.id[2] # NoValue
       /\ ~Unsaid(g, "metadata", ThePolicy(t.id[1]))

OutcomeFits(g, o) ==
  /\ o = Outcome(o.kind, o.about, o.state, o.says)
  /\ o.about \in DOMAIN g.things \cup {Everything}
  /\ o.state = "EXPECTED_ABSENCE" => o.kind = "usage"
  /\ o.kind = "tags" /\ o.about.type = "policy" => ~Unsaid(g, "metadata", o.about)

LinkFits(g, l) ==
  /\ l.source \in DOMAIN g.things /\ l.target \in DOMAIN g.things
  /\ l.by.about \in {l.source, l.target} /\ l.by.kind \notin ChildKinds
  /\ Said(g, l.by.kind, l.by.about, {"PRESENT"})
  /\ l.type \in ChildKinds =>
       /\ l.target.type = l.type /\ l.source = TheUser(g.things[l.target].owner)
       /\ Said(g, l.type, l.source, {"PRESENT", "CONFLICT"})

ContestFits(g, c) ==
  /\ c \notin DOMAIN g.things /\ c.type \in ChildKinds
  /\ \E u, w \in DOMAIN g.things :
       /\ u # w /\ u.type = "user" /\ w.type = "user"
       /\ Said(g, c.type, u, {"CONFLICT"}) /\ Said(g, c.type, w, {"CONFLICT"})

MentionFits(g, m) ==
  /\ m.owner \in DOMAIN g.things /\ m.owner.type \in Kinds
  /\ m.type \in {"boundary", "attached"}
  /\ m.by = "PRESENT" => Said(g, IF m.type = "boundary" THEN "profile" ELSE "attached", m.owner, {"PRESENT"})

IsGraph(g) ==
  /\ g = [things |-> g.things, outcomes |-> g.outcomes, links |-> g.links,
          mentions |-> g.mentions, contested |-> g.contested]
  /\ g.things = [t \in DOMAIN g.things |-> g.things[t]]

\* No source has two outcomes.
Unique(g) == \A o, p \in g.outcomes : o.kind = p.kind /\ o.about = p.about => o = p

GraphFits(g) ==
  /\ IsGraph(g) /\ Unique(g)
  /\ \A t \in DOMAIN g.things : ThingFits(g, t) /\ Outcome("identity", t, "PRESENT", {}) \in g.outcomes
  /\ \A o \in g.outcomes : OutcomeFits(g, o)
  /\ \A l \in g.links : LinkFits(g, l)
  /\ \A c \in g.contested : ContestFits(g, c)
  /\ \A m \in g.mentions : MentionFits(g, m)

-----------------------------------------------------------------------------
(* What is known of an account d of which nothing but c changed.                *)

\* The key with these facts is one of the principal.
IsKeyOf(p, id, facts) == \E k \in p.keys : k.id = id /\ k.status = facts.status /\ k.created = facts.created

PrincipalIsTrue(d, c, g, t) ==
  LET name == g.things[t].name
  IN /\ name \notin c =>
          name \in DOMAIN d.principals /\ d.principals[name].kind = t.type /\ d.principals[name].id = Head(t.id)
     /\ \A n \in DOMAIN d.principals \ c : d.principals[n].id = Head(t.id) => name = n

KeyIsTrue(d, c, g, t) ==
  LET name == g.things[TheUser(g.things[t].owner)].name
  IN name \notin c => IsKeyOf(d.principals[name], Head(t.id), g.things[t])

PolicyIsTrue(d, c, g, t) ==
  LET version == g.things[t].version
  IN Head(t.id) \notin c /\ version # NoValue => Head(t.id) \in DOMAIN d.policies /\ version = d.policies[Head(t.id)].version

ThingIsTrue(d, c, g, t) ==
  /\ t.type \in Kinds => PrincipalIsTrue(d, c, g, t)
  /\ t.type = "key" => KeyIsTrue(d, c, g, t)
  /\ t.type = "policy" => PolicyIsTrue(d, c, g, t)

\* What a source of a principal says when it is complete.
Holds(p, kind) ==
  CASE kind = "device" -> p.devices
    [] kind = "key" -> {k.id : k \in p.keys}
    [] kind = "profile" -> {p.boundary} \ {NoValue}
    [] kind = "attached" -> p.attached
    [] kind = "inline" -> DOMAIN p.inline

\* A complete source says what there is, as far as nobody touched it.
SummaryIsTrue(d, c, o) == "root" \in c \/ o.says = d.root
ListingIsTrue(d, c, o) ==
  IF o.kind = "policy" THEN (DOMAIN d.policies \ AwsManaged) \ c \subseteq o.says
  ELSE \A n \in DOMAIN d.principals \ c : d.principals[n].kind = o.kind => d.principals[n].id \in o.says
HoldingIsTrue(d, c, g, o) ==
  LET name == g.things[o.about].name IN name \notin c => o.says = Holds(d.principals[name], o.kind)
VersionIsTrue(d, c, o) ==
  LET arn == Head(o.about.id) IN arn \notin c => arn \in DOMAIN d.policies /\ o.says = {d.policies[arn].document}
InlineIsTrue(d, c, g, o) ==
  LET name == g.things[g.things[o.about].owner].name
      policies == d.principals[name].inline
  IN name \notin c => o.about.id[3] \in DOMAIN policies /\ o.says = {policies[o.about.id[3]]}
UsageIsTrue(d, c, g, o) ==
  LET name == g.things[TheUser(g.things[o.about].owner)].name
  IN name \notin c => \A k \in d.principals[name].keys : k.id = Head(o.about.id) => k.used = g.things[o.about].used

SourceIsTrue(d, c, g, o) ==
  /\ o.kind = "summary" => o.about = Everything
  /\ o.kind \in Listed => o.about = Everything /\ \A id \in o.says : Thing(o.kind, <<id>>) \in DOMAIN g.things
  /\ o.kind \in OfPrincipals => o.about \in DOMAIN g.things /\ o.about.type \in Kinds
  /\ o.kind = "document" => o.about \in DOMAIN g.things /\ o.about.type \in {"version", "inline"}
  /\ o.kind = "usage" => o.about \in DOMAIN g.things /\ o.about.type = "key"
  /\ o.state = "PRESENT" =>
       /\ o.kind = "summary" => SummaryIsTrue(d, c, o)
       /\ o.kind \in Listed => ListingIsTrue(d, c, o)
       /\ o.kind \in OfPrincipals => HoldingIsTrue(d, c, g, o)
       /\ o.kind = "document" /\ o.about.type = "version" => VersionIsTrue(d, c, o)
       /\ o.kind = "document" /\ o.about.type = "inline" => InlineIsTrue(d, c, g, o)
  /\ o.kind = "usage" /\ o.state \in {"PRESENT", "EXPECTED_ABSENCE"} => UsageIsTrue(d, c, g, o)

GraphIsTrue(d, c, g) ==
  /\ \A t \in DOMAIN g.things : ThingIsTrue(d, c, g, t)
  /\ \A o \in g.outcomes : SourceIsTrue(d, c, g, o)

GraphStands(d, c, g) == GraphFits(g) /\ GraphIsTrue(d, c, g)

-----------------------------------------------------------------------------
(* The calls still to be made                                                  *)

\* The source a call will add.
KindOf(call) == IF call = "version" THEN "document" ELSE call
Calls == {"summary", "tags", "device", "key", "usage", "profile", "attached", "inline", "document",
          "members", "metadata", "version"} \cup Listed

AreFacts(f) ==
  f = [name |-> f.name, owner |-> f.owner, status |-> f.status, created |-> f.created,
       used |-> f.used, version |-> f.version]

UsageFits(g, t) ==
  /\ t.about = Thing("key", <<Head(t.about.id)>>) /\ t.about \notin DOMAIN g.things \cup g.contested
  /\ t.of = TheUser(t.facts.owner) /\ t.of \in DOMAIN g.things
  /\ t.facts.name = g.things[t.of].name
  /\ Announced(g, "key", t.of, Head(t.about.id))
DocumentFits(g, t) ==
  /\ t.of \in DOMAIN g.things /\ t.of.type \in Kinds
  /\ t.about = Inline(t.of, t.about.id[3]) /\ t.about \notin DOMAIN g.things
  /\ t.facts.owner = t.of /\ ~Unsaid(g, "inline", t.of)

\* What a call that is still to be made may rely on.
TaskFits(g, t) ==
  /\ t = Task(t.call, t.about, t.of, t.facts) /\ AreFacts(t.facts)
  /\ t.call \in Calls
  /\ Unsaid(g, KindOf(t.call), t.about)
  /\ t.call \in {"summary"} \cup Listed => t.about = Everything /\ t.of = Everything
  /\ t.call \in Listed => \A x \in DOMAIN g.things : x.type # t.call
  /\ t.call \in OfPrincipals \cup {"tags", "members", "metadata"} =>
       /\ t.of = t.about /\ t.about \in DOMAIN g.things
       /\ t.about.type \in Kinds \cup (IF t.call \in {"tags", "metadata"} THEN {"policy"} ELSE {})
       /\ t.call \in ChildKinds => t.about.type = "user"
       /\ t.call = "tags" /\ t.about.type = "policy" => ~Unsaid(g, "metadata", t.about)
       /\ t.call = "metadata" => t.about.type = "policy"
  /\ t.call = "usage" => UsageFits(g, t)
  /\ t.call = "document" => DocumentFits(g, t)
  /\ t.call = "version" =>
       /\ t.about \in DOMAIN g.things /\ t.about.type = "version"
       /\ t.of = ThePolicy(Head(t.about.id)) /\ ~Unsaid(g, "metadata", t.of)

OneTaskEach(ts) == \A t, u \in ts : t.call = u.call /\ t.about = u.about => t = u
TasksFit(g, ts) == OneTaskEach(ts) /\ \A t \in ts : TaskFits(g, t)

\* Principals first, then policies.
PhaseFits(p, g, ts) ==
  /\ p = "principals" =>
       /\ \A o \in g.outcomes : o.kind # "metadata"
       /\ \A t \in ts : t.call \notin {"metadata", "version"}
  /\ p = "policies" => \A t \in ts : t.call \in {"metadata", "tags", "version"} /\ t.of.type = "policy"

\* Nobody forgets to ask for the users, or for the devices of one.
NothingIsForgotten(g, ts) ==
  /\ ~Unsaid(g, "user", Everything) \/ \E t \in ts : t.call = "user"
  /\ \A u \in DOMAIN g.things : u.type = "user" =>
       ~Unsaid(g, "device", u) \/ \E t \in ts : t.call = "device" /\ t.about = u

\* What is remembered of a key is so.
TaskIsTrue(d, c, t) ==
  t.call = "usage" /\ t.facts.name \notin c => IsKeyOf(d.principals[t.facts.name], Head(t.about.id), t.facts)

IdentityTypes == directory \in Directories /\ phase \in {"principals", "policies"}

\* Nobody else's keys wait for their last use.
UsageIsNext == \A t \in tasks : t.call = "usage" => t.of = Current

IdentityInv ==
  /\ IdentityTypes /\ GraphStands(directory, touched, graph)
  /\ TasksFit(graph, tasks) /\ PhaseFits(phase, graph, tasks) /\ NothingIsForgotten(graph, tasks)
  /\ \A t \in tasks : TaskIsTrue(directory, touched, t)
  /\ UsageIsNext
-----------------------------------------------------------------------------
(* Identities: what the builder's operations do to a graph                       *)

LEMMA HeadOfOne == \A x : Head(<<x>>) = x /\ <<x>>[1] = x
OBVIOUS

LEMMA HeadOfTwo == \A x, y : Head(<<x, y>>) = x /\ <<x, y>>[1] = x /\ <<x, y>>[2] = y
OBVIOUS

LEMMA HeadOfThree == \A x, y, z : LET s == <<x, y, z>> IN Head(s) = x /\ s[1] = x /\ s[2] = y /\ s[3] = z
OBVIOUS

LEMMA ThingIsTyped == \A type, id : Thing(type, id).type = type /\ Thing(type, id).id = id
BY DEF Thing

LEMMA EmptyIsGraph == IsGraph(EmptyGraph) /\ DOMAIN EmptyGraph.things = {}
BY DEF IsGraph, EmptyGraph

LEMMA PutFields ==
  ASSUME NEW g, IsGraph(g), NEW facts
  PROVE  LET h == Put(g, facts) IN
         /\ IsGraph(h) /\ DOMAIN h.things = DOMAIN g.things \cup DOMAIN facts
         /\ \A t \in DOMAIN facts : h.things[t] = facts[t]
         /\ \A t \in DOMAIN g.things : t \notin DOMAIN facts => h.things[t] = g.things[t]
         /\ h.outcomes = g.outcomes /\ h.links = g.links
         /\ h.mentions = g.mentions /\ h.contested = g.contested
<1> DEFINE h == Put(g, facts)
           things == [t \in DOMAIN g.things \cup DOMAIN facts |-> IF t \in DOMAIN facts THEN facts[t] ELSE g.things[t]]
<1>1. h = [things |-> things, outcomes |-> g.outcomes, links |-> g.links,
           mentions |-> g.mentions, contested |-> g.contested]
  BY DEF IsGraph, Put
<1> HIDE DEF h
<1>2. /\ h.things = things /\ h.outcomes = g.outcomes /\ h.links = g.links
      /\ h.mentions = g.mentions /\ h.contested = g.contested
  BY <1>1
<1>3. IsGraph(h)
  BY <1>1, <1>2 DEF IsGraph
<1>4. QED
  BY <1>2, <1>3 DEF h

LEMMA AdmittedFields ==
  ASSUME NEW g, IsGraph(g), NEW facts
  PROVE  LET h == Admitted(g, facts) IN
         /\ IsGraph(h) /\ DOMAIN h.things = DOMAIN g.things \cup DOMAIN facts
         /\ \A t \in DOMAIN facts : h.things[t] = facts[t]
         /\ \A t \in DOMAIN g.things : t \notin DOMAIN facts => h.things[t] = g.things[t]
         /\ h.outcomes = g.outcomes \cup {Outcome("identity", t, "PRESENT", {}) : t \in DOMAIN facts}
         /\ h.links = g.links /\ h.mentions = g.mentions /\ h.contested = g.contested
<1> DEFINE p == Put(g, facts)
           h == Admitted(g, facts)
           identified == {Outcome("identity", t, "PRESENT", {}) : t \in DOMAIN facts}
<1>1. /\ IsGraph(p) /\ DOMAIN p.things = DOMAIN g.things \cup DOMAIN facts
      /\ \A t \in DOMAIN facts : p.things[t] = facts[t]
      /\ \A t \in DOMAIN g.things : t \notin DOMAIN facts => p.things[t] = g.things[t]
      /\ p.outcomes = g.outcomes /\ p.links = g.links
      /\ p.mentions = g.mentions /\ p.contested = g.contested
  BY PutFields
<1>2. h = [p EXCEPT !.outcomes = @ \cup identified]
  BY DEF Admitted
<1> HIDE DEF p, identified, h
<1>3. h = [things |-> p.things, outcomes |-> p.outcomes \cup identified, links |-> p.links,
           mentions |-> p.mentions, contested |-> p.contested]
  BY <1>1, <1>2 DEF IsGraph
<1>4. /\ h.things = p.things /\ h.outcomes = p.outcomes \cup identified /\ h.links = p.links
      /\ h.mentions = p.mentions /\ h.contested = p.contested
  BY <1>3
<1>5. IsGraph(h)
  BY <1>1, <1>3, <1>4 DEF IsGraph
<1>6. QED
  BY <1>1, <1>4, <1>5 DEF h, identified

LEMMA SayFields ==
  ASSUME NEW g, IsGraph(g), NEW kind, NEW about, NEW state, NEW says
  PROVE  LET h == Say(g, kind, about, state, says) IN
         /\ IsGraph(h) /\ h.outcomes = g.outcomes \cup {Outcome(kind, about, state, says)}
         /\ h.things = g.things /\ h.links = g.links /\ h.mentions = g.mentions /\ h.contested = g.contested
<1> DEFINE h == Say(g, kind, about, state, says)
           o == Outcome(kind, about, state, says)
<1>1. h = [g EXCEPT !.outcomes = @ \cup {o}]
  BY DEF Say
<1> HIDE DEF h, o
<1>2. h = [things |-> g.things, outcomes |-> g.outcomes \cup {o}, links |-> g.links,
           mentions |-> g.mentions, contested |-> g.contested]
  BY <1>1 DEF IsGraph
<1>3. /\ h.things = g.things /\ h.outcomes = g.outcomes \cup {o} /\ h.links = g.links
      /\ h.mentions = g.mentions /\ h.contested = g.contested
  BY <1>2
<1>4. IsGraph(h)
  BY <1>2, <1>3 DEF IsGraph
<1>5. QED
  BY <1>3, <1>4 DEF h, o

LEMMA RelateFields ==
  ASSUME NEW g, IsGraph(g), NEW links
  PROVE  LET h == Relate(g, links) IN
         /\ IsGraph(h) /\ h.links = g.links \cup links
         /\ h.things = g.things /\ h.outcomes = g.outcomes /\ h.mentions = g.mentions /\ h.contested = g.contested
<1> DEFINE h == Relate(g, links)
<1>1. h = [things |-> g.things, outcomes |-> g.outcomes, links |-> g.links \cup links,
           mentions |-> g.mentions, contested |-> g.contested]
  BY DEF IsGraph, Relate
<1> HIDE DEF h
<1>2. /\ h.things = g.things /\ h.outcomes = g.outcomes /\ h.links = g.links \cup links
      /\ h.mentions = g.mentions /\ h.contested = g.contested
  BY <1>1
<1>3. IsGraph(h)
  BY <1>1, <1>2 DEF IsGraph
<1>4. QED
  BY <1>2, <1>3 DEF h

LEMMA MentionFields ==
  ASSUME NEW g, IsGraph(g), NEW mentions
  PROVE  LET h == [g EXCEPT !.mentions = @ \cup mentions] IN
         /\ IsGraph(h) /\ h.mentions = g.mentions \cup mentions
         /\ h.things = g.things /\ h.outcomes = g.outcomes /\ h.links = g.links /\ h.contested = g.contested
<1> DEFINE h == [g EXCEPT !.mentions = @ \cup mentions]
<1>1. h = [things |-> g.things, outcomes |-> g.outcomes, links |-> g.links,
           mentions |-> g.mentions \cup mentions, contested |-> g.contested]
  BY DEF IsGraph
<1> HIDE DEF h
<1>2. /\ h.things = g.things /\ h.outcomes = g.outcomes /\ h.links = g.links
      /\ h.mentions = g.mentions \cup mentions /\ h.contested = g.contested
  BY <1>1
<1>3. IsGraph(h)
  BY <1>1, <1>2 DEF IsGraph
<1>4. QED
  BY <1>2, <1>3 DEF h

-----------------------------------------------------------------------------
(* Identities: listings                                                        *)

\* AWS answers with what there is: an item that reads is one of these, and all are
\* listed unless an error says otherwise.
IsListingOf(listed, ids) ==
  /\ \A i \in Understood(listed.items) : listed.items[i].id \in ids
  /\ listed.errors = {} => \A x \in ids : \E i \in DOMAIN listed.items : listed.items[i] = Item(x, "plain")

LEMMA NoListingAtAll == \A ids : IsListingOf(NotFound, ids)
BY DEF IsListingOf, NotFound, Listing, Understood

\* Two sequences in a row have the items of both.
LEMMA ConcatKeeps ==
  ASSUME NEW S, NEW p \in Seq(S), NEW q \in Seq(S)
  PROVE  /\ \A j \in DOMAIN p : \E i \in DOMAIN (p \o q) : (p \o q)[i] = p[j]
         /\ \A j \in DOMAIN q : \E i \in DOMAIN (p \o q) : (p \o q)[i] = q[j]
<1>1. /\ Len(p) \in Nat /\ Len(q) \in Nat /\ DOMAIN p = 1..Len(p) /\ DOMAIN q = 1..Len(q)
      /\ p \o q \in Seq(S) /\ Len(p \o q) = Len(p) + Len(q)
      /\ \A i \in 1..(Len(p) + Len(q)) : (p \o q)[i] = IF i <= Len(p) THEN p[i] ELSE q[i - Len(p)]
  BY ConcatProperties, LenProperties
<1>2. DOMAIN (p \o q) = 1..(Len(p) + Len(q))
  BY <1>1, LenProperties
<1>3. ASSUME NEW j \in DOMAIN p PROVE \E i \in DOMAIN (p \o q) : (p \o q)[i] = p[j]
  BY <1>1, <1>2
<1>4. ASSUME NEW j \in DOMAIN q PROVE \E i \in DOMAIN (p \o q) : (p \o q)[i] = q[j]
  <2>1. j + Len(p) \in DOMAIN (p \o q) /\ (p \o q)[j + Len(p)] = q[j]
    BY <1>1, <1>2
  <2>2. QED
    BY <2>1
<1>5. QED
  BY <1>3, <1>4

\* SetToSeq lists each element of a finite set once.
LEMMA OrderIsWhole ==
  ASSUME NEW arns, IsFiniteSet(arns)
  PROVE  /\ Cardinality(arns) \in Nat
         /\ SetToSeq(arns) \in [1..Cardinality(arns) -> arns]
         /\ \A i, j \in 1..Cardinality(arns) : SetToSeq(arns)[i] = SetToSeq(arns)[j] => i = j
         /\ \A a \in arns : \E i \in 1..Cardinality(arns) : SetToSeq(arns)[i] = a
<1> DEFINE n == Cardinality(arns)
<1>1. n \in Nat /\ Bijection(1..n, arns) # {}
  BY FS_CardinalityType DEF ExistsBijection
<1>2. \E f \in [1..n -> arns] : IsInjective(f)
  BY <1>1 DEF Bijection, Injection
<1>3. SetToSeq(arns) \in [1..n -> arns] /\ IsInjective(SetToSeq(arns))
  BY <1>2 DEF SetToSeq
<1>4. SetToSeq(arns) \in Injection(1..n, arns)
  BY <1>3 DEF Injection
<1>5. Cardinality(1..n) = n
  BY <1>1, FS_Interval
<1>6. SetToSeq(arns) \in Surjection(1..n, arns)
  BY <1>4, <1>5, FS_Injection
<1>7. \A i, j \in 1..n : SetToSeq(arns)[i] = SetToSeq(arns)[j] => i = j
  BY <1>3 DEF IsInjective
<1>8. QED
  BY <1>1, <1>3, <1>6, <1>7 DEF Surjection

\* The items a listing may have.
ItemsOf(ids) == {x \in [id : ids \cup {NoValue}, reading : {"plain", "other", "garbled"}] :
                   x.reading # "garbled" => x.id \in ids}

LEMMA ListingsAreOf ==
  ASSUME NEW ids, IsFiniteSet(ids), NEW listed \in Listings(ids)
  PROVE  IsListingOf(listed, ids)
<1> DEFINE n == Cardinality(ids)
           whole == [i \in 1..n |-> Item(SetToSeq(ids)[i], "plain")]
           I == ItemsOf(ids)
           first == IF whole = <<>> THEN NoValue ELSE Head(whole).id
           extras == {<<Item(first, "garbled")>>}
                     \cup (IF whole = <<>> THEN {}
                           ELSE {<<Item(first, "garbled"), Head(whole)>>, <<Item(first, "other")>>,
                                 <<Item(first, "other"), Head(whole)>>})
<1>1. n \in Nat /\ SetToSeq(ids) \in [1..n -> ids] /\ \A x \in ids : \E i \in 1..n : SetToSeq(ids)[i] = x
  BY OrderIsWhole
<1>2. \A x \in ids : Item(x, "plain") \in I /\ Item(x, "plain").id = x
  BY DEF Item, ItemsOf
<1>3. whole \in [1..n -> I]
  BY <1>1, <1>2
<1>4. whole \in Seq(I) /\ Len(whole) = n /\ DOMAIN whole = 1..n
  BY <1>1, <1>3
<1>5. \A x \in ids : \E i \in DOMAIN whole : whole[i] = Item(x, "plain")
  BY <1>1, <1>4
<1>6. whole # <<>> => Head(whole) \in I /\ first \in ids
  <2>1. \A i \in DOMAIN whole : whole[i].id \in ids /\ whole[i] \in I
    BY <1>1, <1>2, <1>3, <1>4
  <2> HIDE DEF whole
  <2>2. whole # <<>> => Len(whole) # 0
    BY <1>4, EmptySeq
  <2>3. whole # <<>> => 1 \in DOMAIN whole
    BY <1>1, <1>4, <2>2
  <2>4. whole # <<>> => Head(whole) = whole[1]
    BY <1>4, HeadTailProperties
  <2>5. QED
    BY <2>1, <2>3, <2>4
<1>7. Item(first, "garbled") \in I
  BY <1>6 DEF Item, ItemsOf
<1>8. whole # <<>> => Item(first, "other") \in I
  BY <1>6 DEF Item, ItemsOf
<1>9. \A e \in extras : e \in Seq(I)
  <2> HIDE DEF whole, first, I
  <2>1. <<Item(first, "garbled")>> \in Seq(I)
    BY <1>7
  <2>2. whole # <<>> => /\ <<Item(first, "garbled"), Head(whole)>> \in Seq(I)
                        /\ <<Item(first, "other")>> \in Seq(I)
                        /\ <<Item(first, "other"), Head(whole)>> \in Seq(I)
    BY <1>6, <1>7, <1>8
  <2>3. QED
    BY <2>1, <2>2
<1> HIDE DEF whole, first, I
<1>10. <<Item(first, "garbled")>> \in Seq(I)
  BY <1>7
<1>11. ASSUME NEW q \in Seq(I), NEW errors, listed = Listing(q, errors),
              errors = {} => \A j \in DOMAIN whole : \E i \in DOMAIN q : q[i] = whole[j]
       PROVE  IsListingOf(listed, ids)
  <2>1. listed.items = q /\ listed.errors = errors
    BY <1>11 DEF Listing
  <2>2. \A i \in DOMAIN q : q[i] \in I
    BY <1>11
  <2>3. \A i \in Understood(q) : q[i].id \in ids
    BY <2>2 DEF Understood, I, ItemsOf
  <2>4. QED
    BY <2>1, <2>3, <1>5, <1>11 DEF IsListingOf
<1>12. CASE listed = Listing(whole, {})
  BY <1>4, <1>11, <1>12
<1>13. ASSUME NEW m \in 0..Len(whole), listed = Listing(SubSeq(whole, 1, m), {"denied"})
       PROVE  IsListingOf(listed, ids)
  <2>1. SubSeq(whole, 1, m) \in Seq(I)
    <3>1. \A i \in 1..m : whole[i] \in I
      BY <1>3, <1>4, <1>1, <1>13
    <3>2. QED
      BY <1>1, <1>4, <1>13, <3>1, SubSeqProperties
  <2>2. QED
    BY <2>1, <1>11, <1>13
<1>14. ASSUME NEW e \in Seq(I), listed = Listing(whole \o e, {})
       PROVE  IsListingOf(listed, ids)
  <2>1. whole \o e \in Seq(I)
    BY <1>4, <1>14, ConcatProperties
  <2>2. \A j \in DOMAIN whole : \E i \in DOMAIN (whole \o e) : (whole \o e)[i] = whole[j]
    BY <1>4, <1>14, ConcatKeeps
  <2>3. QED
    BY <2>1, <2>2, <1>11, <1>14
<1>15. ASSUME NEW e \in Seq(I), listed = Listing(e \o whole, {})
       PROVE  IsListingOf(listed, ids)
  <2>1. e \o whole \in Seq(I)
    BY <1>4, <1>15, ConcatProperties
  <2>2. \A j \in DOMAIN whole : \E i \in DOMAIN (e \o whole) : (e \o whole)[i] = whole[j]
    <3>1. whole \in Seq(I)
      BY <1>4
    <3>2. \A S : \A p, q \in Seq(S) : \A j \in DOMAIN q : \E i \in DOMAIN (p \o q) : (p \o q)[i] = q[j]
      BY ConcatKeeps
    <3>3. QED
      BY <3>1, <3>2, <1>15
  <2>3. QED
    BY <2>1, <2>2, <1>11, <1>15
<1>16. listed \in {Listing(whole, {})} \cup TroubledListings(whole)
  BY DEF Listings, whole
<1>17. \/ listed = Listing(whole, {})
       \/ \E m \in 0..Len(whole) : listed = Listing(SubSeq(whole, 1, m), {"denied"})
       \/ \E e \in extras : listed = Listing(whole \o e, {})
       \/ listed = Listing(<<Item(first, "garbled")>> \o whole, {})
  BY <1>16, Zenon DEF TroubledListings, first
<1>18. QED
  BY <1>9, <1>10, <1>12, <1>13, <1>14, <1>15, <1>17

\* What is retained of a listing is there, and is all there is when nothing went wrong.
IsReadOf(read, ids) == read.kept \subseteq ids /\ (read.errors = {} => read.kept = ids)

LEMMA HeardIsRead ==
  ASSUME NEW listed, NEW ids, IsListingOf(listed, ids), NEW retained, NEW quarrels, NEW garbled,
         retained \subseteq Understood(listed.items),
         (quarrels = {} /\ garbled = {}) =>
           \A i \in DOMAIN listed.items : listed.items[i].reading = "plain" => i \in retained
  PROVE  IsReadOf(Heard(listed, retained, quarrels, garbled), ids)
<1> DEFINE read == Heard(listed, retained, quarrels, garbled)
<1>1. /\ read.kept = IdsAt(listed.items, retained) \ IdsAt(listed.items, quarrels)
      /\ read.errors = {"conflict" : i \in quarrels} \cup {"malformed" : i \in garbled} \cup listed.errors
  BY DEF Heard
<1>2. read.kept \subseteq ids
  BY <1>1 DEF IdsAt, IsListingOf
<1>3. ASSUME read.errors = {} PROVE read.kept = ids
  <2>1. quarrels = {} /\ garbled = {} /\ listed.errors = {}
    BY <1>1, <1>3
  <2>2. ASSUME NEW x \in ids PROVE x \in IdsAt(listed.items, retained)
    <3>1. PICK i \in DOMAIN listed.items : listed.items[i] = Item(x, "plain")
      BY <2>1 DEF IsListingOf
    <3>2. i \in retained /\ listed.items[i].id = x
      BY <2>1, <3>1 DEF Item
    <3>3. QED
      BY <3>2 DEF IdsAt
  <2>3. IdsAt(listed.items, quarrels) = {}
    BY <2>1 DEF IdsAt
  <2>4. QED
    BY <1>1, <1>2, <2>2, <2>3
<1>4. QED
  BY <1>2, <1>3 DEF IsReadOf

LEMMA DiscoverIsRead ==
  ASSUME NEW listed, NEW ids, IsListingOf(listed, ids)
  PROVE  IsReadOf(Discover(listed), ids)
<1> DEFINE items == listed.items
           known == {i \in DOMAIN items : Earlier(items, i) \cap Understood(items) # {}}
           quarrels == {i \in known : items[i].reading # "plain"}
           garbled == DOMAIN items \ (Understood(items) \cup known)
<1>1. \A i \in DOMAIN items : items[i].reading = "plain" => i \in Understood(items)
  BY DEF Understood
<1>2. IsReadOf(Heard(listed, Understood(items), quarrels, garbled), ids)
  <2> HIDE DEF quarrels, garbled
  <2>1. QED
    BY <1>1, HeardIsRead
<1>3. QED
  BY <1>2 DEF Discover

LEMMA ChildrenAreRead ==
  ASSUME NEW listed
  PROVE  /\ \A ids : IsListingOf(listed, ids) => IsReadOf(ReadChildren(listed), ids)
         /\ ReadChildren(listed).kept \subseteq IdsAt(listed.items, Understood(listed.items))
<1> DEFINE items == listed.items
           known == {i \in DOMAIN items : \E j \in Earlier(items, i) \cap Understood(items) :
                                       Earlier(items, i) \ Understood(items) \subseteq 1..j}
           quarrels == {i \in known : items[i].reading = "other"}
           dropping == {i \in DOMAIN items \ Understood(items) : Earlier(items, i) \cap quarrels = {}}
           retained == {i \in Understood(items) : \A d \in dropping : i \notin Earlier(items, d)}
<1>1. ReadChildren(listed) = Heard(listed, retained, quarrels, dropping)
  BY DEF ReadChildren
<1>2. retained \subseteq Understood(items)
  OBVIOUS
<1>3. dropping = {} => \A i \in DOMAIN items : items[i].reading = "plain" => i \in retained
  <2> HIDE DEF dropping
  <2>1. QED
    BY DEF Understood
<1> HIDE DEF known, quarrels, dropping, retained
<1>4. ASSUME NEW ids, IsListingOf(listed, ids) PROVE IsReadOf(Heard(listed, retained, quarrels, dropping), ids)
  BY <1>2, <1>3, <1>4, HeardIsRead
<1>5. Heard(listed, retained, quarrels, dropping).kept \subseteq IdsAt(items, Understood(items))
  BY <1>2 DEF Heard, IdsAt
<1>6. QED
  BY <1>1, <1>4, <1>5

LEMMA LabelsAreRead ==
  ASSUME NEW listed, NEW ids, IsListingOf(listed, ids)
  PROVE  IsReadOf(ReadLabels(listed), ids)
<1> DEFINE plain == {i \in DOMAIN listed.items : listed.items[i].reading = "plain"}
<1>1. plain \subseteq Understood(listed.items)
  BY DEF Understood
<1>2. IsReadOf(Heard(listed, plain, {}, DOMAIN listed.items \ plain), ids)
  BY <1>1, HeardIsRead
<1>3. QED
  BY <1>2 DEF ReadLabels

LEMMA StateOfErrors ==
  /\ \A errors : OutcomeState(errors) = "PRESENT" <=> errors = {}
  /\ \A errors : "conflict" \in errors => OutcomeState(errors) = "CONFLICT"
  /\ \A errors : OutcomeState(errors) # "EXPECTED_ABSENCE"
BY DEF OutcomeState

-----------------------------------------------------------------------------
(* Identities: graphs that grow                                                *)

\* h has all that g has; only what is known of a policy may be known better.
Grows(g, h) ==
  /\ IsGraph(h)
  /\ DOMAIN g.things \subseteq DOMAIN h.things
  /\ \A t \in DOMAIN g.things : t.type # "policy" => h.things[t] = g.things[t]
  /\ g.outcomes \subseteq h.outcomes /\ g.links \subseteq h.links /\ g.mentions \subseteq h.mentions
  /\ h.contested = g.contested

LEMMA SaidStays ==
  ASSUME NEW g, NEW h, g.outcomes \subseteq h.outcomes
  PROVE  /\ \A kind, about, states : Said(g, kind, about, states) => Said(h, kind, about, states)
         /\ \A kind, about : ~Unsaid(g, kind, about) => ~Unsaid(h, kind, about)
         /\ \A kind, about, id : Announced(g, kind, about, id) => Announced(h, kind, about, id)
<1>1. \A kind, about, states : Said(g, kind, about, states) => Said(h, kind, about, states)
  BY DEF Said
<1>2. \A kind, about : ~Unsaid(g, kind, about) => ~Unsaid(h, kind, about)
  BY DEF Unsaid
<1>3. \A kind, about, id : Announced(g, kind, about, id) => Announced(h, kind, about, id)
  BY DEF Announced
<1>4. QED
  BY <1>1, <1>2, <1>3

\* What fits a graph fits one that has grown.
LEMMA FitsStay ==
  ASSUME NEW g, NEW h, Grows(g, h)
  PROVE  /\ \A t \in DOMAIN g.things : ThingFits(g, t) => ThingFits(h, t)
         /\ \A o \in g.outcomes : OutcomeFits(g, o) => OutcomeFits(h, o)
         /\ \A l \in g.links : LinkFits(g, l) => LinkFits(h, l)
         /\ \A c \in g.contested : ContestFits(g, c) /\ c \notin DOMAIN h.things => ContestFits(h, c)
         /\ \A m \in g.mentions : MentionFits(g, m) => MentionFits(h, m)
<1>1. /\ \A kind, about, states : Said(g, kind, about, states) => Said(h, kind, about, states)
      /\ \A kind, about : ~Unsaid(g, kind, about) => ~Unsaid(h, kind, about)
      /\ \A kind, about, id : Announced(g, kind, about, id) => Announced(h, kind, about, id)
  BY SaidStays DEF Grows
<1>2. DOMAIN g.things \subseteq DOMAIN h.things /\ \A t \in DOMAIN g.things : t.type # "policy" => h.things[t] = g.things[t]
  BY DEF Grows
<1>3. ASSUME NEW t \in DOMAIN g.things, ThingFits(g, t) PROVE ThingFits(h, t)
  <2>1. CASE t.type = "policy"
    BY <1>1, <1>2, <1>3, <2>1 DEF ThingFits, ChildKinds
  <2>2. CASE t.type # "policy"
    <3>1. h.things[t] = g.things[t]
      BY <1>2, <2>2
    <3>2. QED
      BY <1>1, <1>2, <1>3, <3>1 DEF ThingFits
  <2>3. QED
    BY <2>1, <2>2
<1>4. ASSUME NEW o \in g.outcomes, OutcomeFits(g, o) PROVE OutcomeFits(h, o)
  BY <1>1, <1>2, <1>4 DEF OutcomeFits
<1>5. ASSUME NEW l \in g.links, LinkFits(g, l) PROVE LinkFits(h, l)
  <2>1. l.type \in ChildKinds => h.things[l.target] = g.things[l.target]
    BY <1>2, <1>5 DEF LinkFits, ChildKinds
  <2>2. QED
    BY <1>1, <1>2, <1>5, <2>1 DEF LinkFits
<1>6. ASSUME NEW c \in g.contested, ContestFits(g, c), c \notin DOMAIN h.things PROVE ContestFits(h, c)
  BY <1>1, <1>2, <1>6 DEF ContestFits
<1>7. ASSUME NEW m \in g.mentions, MentionFits(g, m) PROVE MentionFits(h, m)
  BY <1>1, <1>2, <1>7 DEF MentionFits
<1>8. QED
  BY <1>3, <1>4, <1>5, <1>6, <1>7

\* What is true of an account stays true in a graph that has grown.
LEMMA TruthStays ==
  ASSUME NEW d, NEW c, NEW g, NEW h, GraphFits(g), Grows(g, h)
  PROVE  /\ \A t \in DOMAIN g.things : ThingIsTrue(d, c, g, t) /\ h.things[t] = g.things[t] => ThingIsTrue(d, c, h, t)
         /\ \A o \in g.outcomes : SourceIsTrue(d, c, g, o) => SourceIsTrue(d, c, h, o)
<1>1. DOMAIN g.things \subseteq DOMAIN h.things /\ \A t \in DOMAIN g.things : t.type # "policy" => h.things[t] = g.things[t]
  BY DEF Grows
<1>2. \A t \in DOMAIN g.things : t.type \in ChildKinds =>
        /\ h.things[t] = g.things[t] /\ TheUser(g.things[t].owner) \in DOMAIN g.things
        /\ h.things[TheUser(g.things[t].owner)] = g.things[TheUser(g.things[t].owner)]
  BY <1>1 DEF GraphFits, ThingFits, ChildKinds, TheUser, Thing
<1>3. \A t \in DOMAIN g.things : t.type = "inline" =>
        /\ h.things[t] = g.things[t] /\ h.things[g.things[t].owner] = g.things[g.things[t].owner]
  BY <1>1 DEF GraphFits, ThingFits, Kinds
<1>4. ASSUME NEW t \in DOMAIN g.things, ThingIsTrue(d, c, g, t), h.things[t] = g.things[t] PROVE ThingIsTrue(d, c, h, t)
  <2>1. t.type = "key" => KeyIsTrue(d, c, h, t)
    BY <1>2, <1>4 DEF ThingIsTrue, KeyIsTrue, ChildKinds
  <2>2. QED
    BY <1>4, <2>1 DEF ThingIsTrue, PrincipalIsTrue, PolicyIsTrue
<1>5. ASSUME NEW o \in g.outcomes, SourceIsTrue(d, c, g, o) PROVE SourceIsTrue(d, c, h, o)
  <2>1. o.kind \in OfPrincipals /\ HoldingIsTrue(d, c, g, o) => HoldingIsTrue(d, c, h, o)
    BY <1>1, <1>5 DEF SourceIsTrue, HoldingIsTrue, Kinds
  <2>2. o.kind = "document" /\ o.about.type = "inline" /\ InlineIsTrue(d, c, g, o) => InlineIsTrue(d, c, h, o)
    BY <1>3, <1>5 DEF SourceIsTrue, InlineIsTrue
  <2>3. o.kind = "usage" /\ UsageIsTrue(d, c, g, o) => UsageIsTrue(d, c, h, o)
    BY <1>2, <1>5 DEF SourceIsTrue, UsageIsTrue, ChildKinds
  <2>4. QED
    BY <1>1, <1>5, <2>1, <2>2, <2>3 DEF SourceIsTrue
<1>6. QED
  BY <1>4, <1>5

\* A graph that grows stands if what is new fits and is true.
LEMMA GraphGrows ==
  ASSUME NEW d, NEW c, NEW g, NEW h, GraphStands(d, c, g), Grows(g, h),
         \A t \in DOMAIN h.things \ DOMAIN g.things :
           ThingFits(h, t) /\ t \notin g.contested /\ Outcome("identity", t, "PRESENT", {}) \in h.outcomes,
         \A t \in DOMAIN h.things : t \notin DOMAIN g.things \/ h.things[t] # g.things[t] => ThingIsTrue(d, c, h, t),
         \A o \in h.outcomes \ g.outcomes :
           /\ OutcomeFits(h, o) /\ SourceIsTrue(d, c, h, o)
           /\ \A p \in h.outcomes : p.kind = o.kind /\ p.about = o.about => p = o,
         \A l \in h.links \ g.links : LinkFits(h, l),
         \A m \in h.mentions \ g.mentions : MentionFits(h, m)
  PROVE  GraphStands(d, c, h)
<1>1. GraphFits(g) /\ GraphIsTrue(d, c, g)
  BY DEF GraphStands
<1>2. /\ \A t \in DOMAIN g.things : ThingFits(g, t) => ThingFits(h, t)
      /\ \A o \in g.outcomes : OutcomeFits(g, o) => OutcomeFits(h, o)
      /\ \A l \in g.links : LinkFits(g, l) => LinkFits(h, l)
      /\ \A x \in g.contested : ContestFits(g, x) /\ x \notin DOMAIN h.things => ContestFits(h, x)
      /\ \A m \in g.mentions : MentionFits(g, m) => MentionFits(h, m)
  BY FitsStay
<1>3. /\ \A t \in DOMAIN g.things : ThingIsTrue(d, c, g, t) /\ h.things[t] = g.things[t] => ThingIsTrue(d, c, h, t)
      /\ \A o \in g.outcomes : SourceIsTrue(d, c, g, o) => SourceIsTrue(d, c, h, o)
  BY <1>1, TruthStays
<1>4. \A t \in DOMAIN h.things : ThingFits(h, t) /\ Outcome("identity", t, "PRESENT", {}) \in h.outcomes
  BY <1>1, <1>2 DEF GraphFits, Grows
<1>5. \A o \in h.outcomes : OutcomeFits(h, o)
  BY <1>1, <1>2 DEF GraphFits
<1>6. \A l \in h.links : LinkFits(h, l)
  BY <1>1, <1>2 DEF GraphFits
<1>7. \A x \in h.contested : ContestFits(h, x)
  <2>1. h.contested = g.contested /\ \A x \in g.contested : ContestFits(g, x) /\ x \notin DOMAIN g.things
    BY <1>1 DEF GraphFits, Grows, ContestFits
  <2>2. QED
    BY <1>2, <2>1
<1>8. \A m \in h.mentions : MentionFits(h, m)
  BY <1>1, <1>2 DEF GraphFits
<1>9. Unique(h)
  BY <1>1 DEF GraphFits, Unique, Grows
<1>10. IsGraph(h)
  BY DEF Grows
<1>11. GraphFits(h)
  BY <1>4, <1>5, <1>6, <1>7, <1>8, <1>9, <1>10 DEF GraphFits
<1>12. GraphIsTrue(d, c, h)
  <2>1. \A t \in DOMAIN h.things : ThingIsTrue(d, c, h, t)
    BY <1>1, <1>3 DEF GraphIsTrue
  <2>2. \A o \in h.outcomes : SourceIsTrue(d, c, h, o)
    BY <1>1, <1>3 DEF GraphIsTrue
  <2>3. QED
    BY <2>1, <2>2 DEF GraphIsTrue
<1>13. QED
  BY <1>11, <1>12 DEF GraphStands

\* A call that is still to be made can rely on a graph that has grown by something else.
LEMMA TaskStays ==
  ASSUME NEW g, NEW h, Grows(g, h), NEW t, TaskFits(g, t), Unsaid(h, KindOf(t.call), t.about),
         t.call \in Listed => \A x \in DOMAIN h.things \ DOMAIN g.things : x.type # t.call,
         t.call \in {"usage", "document"} => t.about \notin DOMAIN h.things
  PROVE  TaskFits(h, t)
<1>1. /\ \A kind, about : ~Unsaid(g, kind, about) => ~Unsaid(h, kind, about)
      /\ \A kind, about, id : Announced(g, kind, about, id) => Announced(h, kind, about, id)
  BY SaidStays DEF Grows
<1>2. DOMAIN g.things \subseteq DOMAIN h.things /\ \A x \in DOMAIN g.things : x.type # "policy" => h.things[x] = g.things[x]
  BY DEF Grows
<1>3. t.call = "usage" => UsageFits(h, t)
  <2>1. ASSUME t.call = "usage" PROVE UsageFits(h, t)
    <3>1. UsageFits(g, t)
      BY <2>1 DEF TaskFits
    <3>2. h.things[t.of] = g.things[t.of]
      BY <1>2, <3>1 DEF UsageFits, TheUser, Thing
    <3>3. QED
      BY <1>1, <1>2, <2>1, <3>1, <3>2 DEF UsageFits, Grows
  <2>2. QED
    BY <2>1
<1>4. t.call = "document" => DocumentFits(h, t)
  BY <1>1, <1>2 DEF TaskFits, DocumentFits
<1>5. t.call \in Listed => \A x \in DOMAIN h.things : x.type # t.call
  BY DEF TaskFits
<1>6. QED
  BY <1>1, <1>2, <1>3, <1>4, <1>5 DEF TaskFits

\* A call adds one source, and identifies resources.
Adds(g, h, call, about) ==
  \A o \in h.outcomes \ g.outcomes : o.kind = "identity" \/ (o.kind = KindOf(call) /\ o.about = about)

LEMMA OtherTasksStay ==
  ASSUME NEW g, NEW h, NEW ts, NEW task \in ts, TasksFit(g, ts), Grows(g, h), Adds(g, h, task.call, task.about),
         \A x \in DOMAIN h.things \ DOMAIN g.things :
           /\ x.type \in Listed => x.type = task.call
           /\ x.type \in {"key", "inline"} => x = task.about
  PROVE  \A t \in ts \ {task} : TaskFits(h, t)
<1> SUFFICES ASSUME NEW t \in ts \ {task} PROVE TaskFits(h, t)
  OBVIOUS
<1>1. TaskFits(g, t) /\ TaskFits(g, task) /\ OneTaskEach(ts)
  BY DEF TasksFit
<1>2. t.call = task.call => t.about # task.about
  BY <1>1 DEF OneTaskEach
<1>3. /\ t.call = "usage" => t.about.type = "key"
      /\ t.call = "document" => t.about.type = "inline"
      /\ t.call = "version" => t.about.type = "version"
      /\ task.call = "document" => task.about.type = "inline"
      /\ task.call = "version" => task.about.type = "version"
  BY <1>1 DEF TaskFits, UsageFits, DocumentFits, Thing, Inline
<1>4. KindOf(t.call) = KindOf(task.call) => t.about # task.about
  <2>1. KindOf(t.call) = KindOf(task.call) =>
          t.call = task.call \/ {t.call, task.call} \subseteq {"document", "version"}
    BY DEF KindOf
  <2>2. QED
    BY <1>2, <1>3, <2>1
<1>5. t.call \in Calls
  BY <1>1 DEF TaskFits
<1>6. Unsaid(h, KindOf(t.call), t.about)
  <2>1. Unsaid(g, KindOf(t.call), t.about)
    BY <1>1 DEF TaskFits
  <2>2. KindOf(t.call) # "identity"
    BY <1>5 DEF Calls, KindOf, Listed
  <2>3. QED
    BY <1>4, <2>1, <2>2 DEF Unsaid, Adds
<1>7. ASSUME NEW x \in DOMAIN h.things \ DOMAIN g.things, t.call \in Listed PROVE x.type # t.call
  <2>1. x.type = t.call => t.call = task.call
    BY <1>7
  <2>2. t.call = task.call => t.about = Everything /\ task.about = Everything
    BY <1>1, <1>7 DEF TaskFits
  <2>3. QED
    BY <1>2, <2>1, <2>2
<1>8. ASSUME t.call \in {"usage", "document"} PROVE t.about \notin DOMAIN h.things
  <2>1. t.about \notin DOMAIN g.things
    BY <1>1, <1>8 DEF TaskFits, UsageFits, DocumentFits
  <2>2. ASSUME t.about \in DOMAIN h.things PROVE FALSE
    <3>1. t.about = task.about /\ task.about \notin DOMAIN g.things
      BY <1>3, <1>8, <2>1, <2>2
    <3>2. task.call \in {"usage", "document"}
      <4>1. task.call \in Calls
        BY <1>1 DEF TaskFits
      <4>2. task.call \in {"summary"} \cup Listed => task.about.type = "account"
        BY <1>1 DEF TaskFits, Everything, Thing
      <4>3. task.call \in OfPrincipals \cup {"tags", "members", "metadata", "version"} => task.about \in DOMAIN g.things
        BY <1>1 DEF TaskFits
      <4>4. QED
        BY <1>3, <1>8, <3>1, <4>1, <4>2, <4>3 DEF Calls, OfPrincipals
    <3>3. task.call = "usage" => task.about.type = "key"
      BY <1>1 DEF TaskFits, UsageFits, Thing
    <3>4. QED
      BY <1>2, <1>3, <1>8, <3>1, <3>2, <3>3
  <2>3. QED
    BY <2>2
<1>9. QED
  BY <1>1, <1>6, <1>7, <1>8, TaskStays

\* What is due.
LEMMA DueIsWaiting ==
  ASSUME IdentityInv, NEW call, NEW task \in Due(call)
  PROVE  /\ task \in tasks /\ task.call = call /\ task.of = Current
         /\ GraphStands(directory, touched, graph) /\ GraphFits(graph) /\ IsGraph(graph)
         /\ TasksFit(graph, tasks) /\ TaskFits(graph, task) /\ Unsaid(graph, KindOf(call), task.about)
         /\ directory \in Directories
         /\ call \notin {"metadata", "tags", "version"} => phase = "principals"
         /\ call \in {"metadata", "version"} => phase = "policies"
<1>1. task \in tasks /\ task.call = call /\ task.of = Current
  BY DEF Due
<1>2. TaskFits(graph, task)
  BY <1>1 DEF IdentityInv, TasksFit
<1>3. QED
  BY <1>1, <1>2 DEF IdentityInv, IdentityTypes, GraphStands, GraphFits, TaskFits, PhaseFits

\* Everything a call must leave as the others expect it.
LEMMA CallIsMade ==
  ASSUME IdentityInv, NEW call, NEW task \in Due(call), NEW h, NEW calls, NEW wrong, Made(task, h, calls, wrong),
         GraphStands(directory, touched, h),
         \A t \in tasks \ {task} : TaskFits(h, t),
         \A t \in calls : TaskFits(h, t) /\ TaskIsTrue(directory, touched, t),
         OneTaskEach(calls),
         \A t \in tasks \ {task}, u \in calls : ~(t.call = u.call /\ t.about = u.about),
         \A o \in h.outcomes : o.kind \in {p.kind : p \in graph.outcomes} \cup {"identity", KindOf(call)},
         phase = "principals" => \A t \in calls : t.call \notin {"metadata", "version"},
         phase = "policies" => \A t \in calls : t.call \in {"metadata", "tags", "version"} /\ t.of.type = "policy",
         \A kind \in {"user", "device"} : \A about : ~Unsaid(graph, kind, about) => ~Unsaid(h, kind, about),
         ~Unsaid(h, KindOf(call), task.about),
         \A u \in DOMAIN h.things \ DOMAIN graph.things :
           u.type = "user" => \E t \in calls : t.call = "device" /\ t.about = u,
         \/ \A t \in calls : t.of = task.of
         \/ \A t \in tasks \cup calls : t.call # "usage"
  PROVE  IdentityInv'
<1> DEFINE ts == (tasks \ {task}) \cup calls
<1>1. /\ task \in tasks /\ task.call = call /\ task.of = Current
      /\ TasksFit(graph, tasks) /\ TaskFits(graph, task)
      /\ call \in {"metadata", "version"} => phase = "policies"
  BY DueIsWaiting
<1>2. /\ graph' = h /\ tasks' = ts /\ directory' = directory /\ touched' = touched /\ phase' = phase
  BY DEF Made
<1>3. IdentityTypes'
  BY <1>2 DEF IdentityInv, IdentityTypes
<1>4. GraphStands(directory, touched, graph)'
  BY <1>2
<1>5. TasksFit(h, ts)
  <2>1. OneTaskEach(ts)
    BY <1>1 DEF TasksFit, OneTaskEach
  <2>2. QED
    BY <2>1 DEF TasksFit
<1>6. PhaseFits(phase, h, ts)
  <2>1. PhaseFits(phase, graph, tasks)
    BY DEF IdentityInv
  <2>2. phase = "principals" => call # "metadata"
    BY <1>1
  <2>3. phase = "principals" => \A o \in h.outcomes : o.kind # "metadata"
    BY <2>1, <2>2 DEF PhaseFits, KindOf
  <2>4. QED
    BY <2>1, <2>3 DEF PhaseFits
<1>7. NothingIsForgotten(h, ts)
  <2>1. NothingIsForgotten(graph, tasks)
    BY DEF IdentityInv
  <2>2. call = "user" => task.about = Everything /\ KindOf(call) = "user"
    BY <1>1 DEF TaskFits, Listed, KindOf
  <2>3. ~Unsaid(h, "user", Everything) \/ \E t \in ts : t.call = "user"
    <3>1. CASE ~Unsaid(graph, "user", Everything)
      BY <3>1
    <3>2. ASSUME NEW t \in tasks, t.call = "user" PROVE ~Unsaid(h, "user", Everything) \/ \E u \in ts : u.call = "user"
      <4>1. CASE t = task
        BY <4>1, <1>1, <2>2, <3>2
      <4>2. CASE t # task
        BY <4>2, <3>2
      <4>3. QED
        BY <4>1, <4>2
    <3>3. QED
      BY <2>1, <3>1, <3>2 DEF NothingIsForgotten
  <2>4. ASSUME NEW u \in DOMAIN h.things, u.type = "user"
        PROVE  ~Unsaid(h, "device", u) \/ \E t \in ts : t.call = "device" /\ t.about = u
    <3>1. CASE u \notin DOMAIN graph.things
      BY <3>1, <2>4
    <3>2. CASE u \in DOMAIN graph.things /\ ~Unsaid(graph, "device", u)
      BY <3>2
    <3>3. ASSUME NEW t \in tasks, t.call = "device", t.about = u
          PROVE  ~Unsaid(h, "device", u) \/ \E k \in ts : k.call = "device" /\ k.about = u
      <4>1. CASE t = task
        BY <4>1, <1>1, <3>3 DEF KindOf
      <4>2. CASE t # task
        BY <4>2, <3>3
      <4>3. QED
        BY <4>1, <4>2
    <3>4. QED
      BY <2>1, <2>4, <3>1, <3>2, <3>3 DEF NothingIsForgotten
  <2>5. QED
    BY <2>3, <2>4 DEF NothingIsForgotten
<1>8. \A t \in ts : TaskIsTrue(directory, touched, t)
  BY DEF IdentityInv
<1>9. UsageIsNext'
  <2>1. CASE \A t \in ts : t.call # "usage"
    BY <2>1, <1>2 DEF UsageIsNext
  <2>2. ASSUME NEW u \in ts, u.call = "usage" PROVE UsageIsNext'
    <3>1. \A t \in calls : t.of = Current
      BY <1>1, <2>2
    <3>2. u.of = Current
      BY <2>2, <3>1 DEF IdentityInv, UsageIsNext
    <3>3. {t.of : t \in ts} = {t.of : t \in tasks}
      BY <1>1, <2>2, <3>1, <3>2
    <3>4. Waiting' = Waiting
      BY <1>2, <3>3 DEF Waiting
    <3>5. Current' = Current
      BY <3>4 DEF Current
    <3>6. \A t \in ts : t.call = "usage" => t.of = Current
      BY <3>1 DEF IdentityInv, UsageIsNext
    <3>7. QED
      BY <1>2, <3>5, <3>6 DEF UsageIsNext
  <2>3. QED
    BY <2>1, <2>2
<1> HIDE DEF ts
<1>10. /\ TasksFit(graph, tasks)' /\ PhaseFits(phase, graph, tasks)' /\ NothingIsForgotten(graph, tasks)'
  BY <1>2, <1>5, <1>6, <1>7
<1>11. (\A t \in tasks : TaskIsTrue(directory, touched, t))'
  BY <1>2, <1>8
<1>12. QED
  BY <1>3, <1>4, <1>9, <1>10, <1>11 DEF IdentityInv

\* The outcomes of a graph to which resources and one source were added.
Outcomes(g, h, kind, about, state, says) ==
  g.outcomes \cup {Outcome("identity", t, "PRESENT", {}) : t \in DOMAIN h.things \ DOMAIN g.things}
  \cup {Outcome(kind, about, state, says)}

LEMMA SourceIsAdded ==
  ASSUME NEW d, NEW c, NEW g, NEW h, GraphStands(d, c, g), Grows(g, h),
         NEW kind, NEW about, NEW state, NEW says, Unsaid(g, kind, about), kind # "identity",
         h.outcomes = Outcomes(g, h, kind, about, state, says),
         \A t \in DOMAIN h.things \ DOMAIN g.things : ThingFits(h, t) /\ t \notin g.contested,
         \A t \in DOMAIN h.things : t \notin DOMAIN g.things \/ h.things[t] # g.things[t] => ThingIsTrue(d, c, h, t),
         OutcomeFits(h, Outcome(kind, about, state, says)), SourceIsTrue(d, c, h, Outcome(kind, about, state, says)),
         \A l \in h.links \ g.links : LinkFits(h, l),
         \A m \in h.mentions \ g.mentions : MentionFits(h, m)
  PROVE  GraphStands(d, c, h)
<1> DEFINE said == Outcome(kind, about, state, says)
           new == DOMAIN h.things \ DOMAIN g.things
           Identified(t) == Outcome("identity", t, "PRESENT", {})
<1>1. GraphFits(g)
  BY DEF GraphStands
<1>2. \A o \in g.outcomes : o.about \in DOMAIN g.things \cup {Everything}
  BY <1>1 DEF GraphFits, OutcomeFits
<1>3. \A t \in new : t # Everything
  BY DEF ThingFits, Listed, ChildKinds, Everything, Thing
<1>4. \A o \in h.outcomes \ g.outcomes : o = said \/ \E t \in new : o = Identified(t)
  BY DEF Outcomes
<1>5. \A t \in new : Identified(t) \in h.outcomes
  BY DEF Outcomes
<1>6. \A t \in new : OutcomeFits(h, Identified(t)) /\ SourceIsTrue(d, c, h, Identified(t))
  <2>1. \A t : LET o == Identified(t) IN o.kind = "identity" /\ o.about = t /\ o.state = "PRESENT" /\ o.says = {}
    BY DEF Outcome
  <2>2. ASSUME NEW o, o.kind = "identity" PROVE SourceIsTrue(d, c, h, o)
    BY <2>2 DEF SourceIsTrue, Listed, OfPrincipals
  <2>3. \A t \in new : OutcomeFits(h, Identified(t))
    BY DEF OutcomeFits, Outcome
  <2>4. QED
    BY <2>1, <2>2, <2>3
<1>7. ASSUME NEW o \in h.outcomes \ g.outcomes, NEW p \in h.outcomes, p.kind = o.kind, p.about = o.about
      PROVE  p = o
  <2>1. /\ said.kind = kind /\ said.about = about
        /\ \A t : Identified(t).kind = "identity" /\ Identified(t).about = t
    BY DEF Outcome
  <2>2. CASE o = said
    <3>1. p \notin g.outcomes
      BY <1>7, <2>1, <2>2 DEF Unsaid
    <3>2. QED
      BY <1>4, <1>7, <2>1, <2>2, <3>1
  <2>3. ASSUME NEW t \in new, o = Identified(t) PROVE p = o
    <3>1. p.kind = "identity" /\ p.about = t
      BY <1>7, <2>1, <2>3
    <3>2. p \notin g.outcomes
      BY <1>2, <1>3, <3>1
    <3>3. QED
      BY <1>4, <2>1, <2>3, <3>1, <3>2
  <2>4. QED
    BY <1>4, <2>2, <2>3
<1>8. \A o \in h.outcomes \ g.outcomes :
        /\ OutcomeFits(h, o) /\ SourceIsTrue(d, c, h, o)
        /\ \A p \in h.outcomes : p.kind = o.kind /\ p.about = o.about => p = o
  BY <1>4, <1>6, <1>7
<1> HIDE DEF Identified
<1>9. \A t \in new : ThingFits(h, t) /\ t \notin g.contested /\ Outcome("identity", t, "PRESENT", {}) \in h.outcomes
  BY <1>5 DEF Identified
<1>10. QED
  BY <1>8, <1>9, GraphGrows

\* The calls that may be added: they fit, and nobody makes them yet.
AreNewCalls(calls, task, h) ==
  /\ \A t \in calls : TaskFits(h, t) /\ TaskIsTrue(directory, touched, t)
  /\ OneTaskEach(calls)
  /\ \A t \in tasks \ {task}, u \in calls : ~(t.call = u.call /\ t.about = u.about)
  /\ phase = "principals" => \A t \in calls : t.call \notin {"metadata", "version"}
  /\ phase = "policies" => \A t \in calls : t.call \in {"metadata", "tags", "version"} /\ t.of.type = "policy"
  /\ (\A t \in calls : t.of = task.of) \/ (\A t \in tasks \cup calls : t.call # "usage")

LEMMA NoCallsAreNew == \A task, h : AreNewCalls({}, task, h)
BY DEF AreNewCalls, OneTaskEach

\* A call that makes the graph grow.
LEMMA CallGrows ==
  ASSUME IdentityInv, NEW call, NEW task \in Due(call), NEW h, NEW calls, NEW wrong, Made(task, h, calls, wrong),
         NEW state, NEW says, Grows(graph, h),
         h.outcomes = Outcomes(graph, h, KindOf(call), task.about, state, says),
         \A t \in DOMAIN h.things \ DOMAIN graph.things :
           /\ ThingFits(h, t) /\ t \notin graph.contested
           /\ t.type \in Listed => t.type = call
           /\ t.type \in {"key", "inline"} => t = task.about
           /\ t.type = "user" => \E u \in calls : u.call = "device" /\ u.about = t,
         \A t \in DOMAIN h.things :
           t \notin DOMAIN graph.things \/ h.things[t] # graph.things[t] => ThingIsTrue(directory, touched, h, t),
         OutcomeFits(h, Outcome(KindOf(call), task.about, state, says)),
         SourceIsTrue(directory, touched, h, Outcome(KindOf(call), task.about, state, says)),
         \A l \in h.links \ graph.links : LinkFits(h, l),
         \A m \in h.mentions \ graph.mentions : MentionFits(h, m),
         AreNewCalls(calls, task, h)
  PROVE  IdentityInv'
<1> DEFINE said == Outcome(KindOf(call), task.about, state, says)
<1>1. /\ task \in tasks /\ task.call = call /\ GraphStands(directory, touched, graph)
      /\ TasksFit(graph, tasks) /\ TaskFits(graph, task) /\ Unsaid(graph, KindOf(call), task.about)
  BY DueIsWaiting
<1>2. KindOf(call) # "identity"
  BY <1>1 DEF TaskFits, Calls, KindOf, Listed
<1>3. said.kind = KindOf(call) /\ said.about = task.about /\ said \in h.outcomes
  BY DEF Outcome, Outcomes
<1>4. GraphStands(directory, touched, h)
  BY <1>1, <1>2, SourceIsAdded
<1>5. Adds(graph, h, task.call, task.about)
  <2>1. \A o \in h.outcomes \ graph.outcomes : o = said \/ \E t : o = Outcome("identity", t, "PRESENT", {})
    BY DEF Outcomes
  <2>2. \A t : Outcome("identity", t, "PRESENT", {}).kind = "identity"
    BY DEF Outcome
  <2>3. \A o \in h.outcomes \ graph.outcomes : o = said \/ o.kind = "identity"
    BY <2>1, <2>2
  <2>4. \A o \in h.outcomes \ graph.outcomes : o.kind = "identity" \/ (o.kind = KindOf(task.call) /\ o.about = task.about)
    BY <1>1, <1>3, <2>3
  <2>5. QED
    BY <2>4 DEF Adds
<1>6. \A t \in tasks \ {task} : TaskFits(h, t)
  <2>1. \A x \in DOMAIN h.things \ DOMAIN graph.things :
           /\ x.type \in Listed => x.type = task.call
           /\ x.type \in {"key", "inline"} => x = task.about
    BY <1>1
  <2>2. QED
    BY <1>1, <1>5, <2>1, OtherTasksStay
<1>7. \A o \in h.outcomes : o.kind \in {p.kind : p \in graph.outcomes} \cup {"identity", KindOf(call)}
  BY <1>1, <1>5 DEF Adds
<1>8. \A kind \in {"user", "device"} : \A about : ~Unsaid(graph, kind, about) => ~Unsaid(h, kind, about)
  BY SaidStays DEF Grows
<1>9. ~Unsaid(h, KindOf(call), task.about)
  BY <1>3 DEF Unsaid
<1> HIDE DEF said
<1>10. QED
  BY <1>4, <1>6, <1>7, <1>8, <1>9, CallIsMade DEF AreNewCalls

\* A call that brings nothing but a source, relationships and mentions.
LEMMA CallSays ==
  ASSUME IdentityInv, NEW call, NEW task \in Due(call), NEW h, NEW calls, NEW wrong, Made(task, h, calls, wrong),
         NEW state, NEW says, IsGraph(h), h.things = graph.things, h.contested = graph.contested,
         h.outcomes = graph.outcomes \cup {Outcome(KindOf(call), task.about, state, says)},
         graph.links \subseteq h.links, graph.mentions \subseteq h.mentions,
         OutcomeFits(h, Outcome(KindOf(call), task.about, state, says)),
         SourceIsTrue(directory, touched, h, Outcome(KindOf(call), task.about, state, says)),
         \A l \in h.links \ graph.links : LinkFits(h, l),
         \A m \in h.mentions \ graph.mentions : MentionFits(h, m),
         AreNewCalls(calls, task, h)
  PROVE  IdentityInv'
<1>1. Grows(graph, h)
  BY DEF Grows
<1>2. h.outcomes = Outcomes(graph, h, KindOf(call), task.about, state, says)
  BY DEF Outcomes
<1>3. QED
  BY <1>1, <1>2, CallGrows

\* A call that brings nothing but a source, about something that is in the graph.
LEMMA CallOnlySays ==
  ASSUME IdentityInv, NEW call, NEW task \in Due(call), NEW calls, NEW wrong, NEW state, NEW says,
         Made(task, Say(graph, KindOf(call), task.about, state, says), calls, wrong),
         state # "EXPECTED_ABSENCE", task.about \in DOMAIN graph.things \cup {Everything},
         SourceIsTrue(directory, touched, graph, Outcome(KindOf(call), task.about, state, says)),
         AreNewCalls(calls, task, Say(graph, KindOf(call), task.about, state, says))
  PROVE  IdentityInv'
<1> DEFINE h == Say(graph, KindOf(call), task.about, state, says)
           said == Outcome(KindOf(call), task.about, state, says)
<1>1. /\ task.call = call /\ GraphStands(directory, touched, graph) /\ GraphFits(graph) /\ IsGraph(graph) /\ TaskFits(graph, task)
  BY DueIsWaiting
<1>2. /\ IsGraph(h) /\ h.outcomes = graph.outcomes \cup {said} /\ h.things = graph.things
      /\ h.links = graph.links /\ h.mentions = graph.mentions /\ h.contested = graph.contested
  BY <1>1, SayFields
<1> HIDE DEF h
<1>3. said = Outcome(said.kind, said.about, said.state, said.says) /\ said.kind = KindOf(call)
      /\ said.about = task.about /\ said.state = state /\ said.says = says
  BY DEF Outcome
<1>4. Grows(graph, h)
  BY <1>2 DEF Grows
<1>5. OutcomeFits(h, said)
  <2>1. KindOf(call) = "tags" /\ task.about.type = "policy" => ~Unsaid(graph, "metadata", task.about)
    BY <1>1 DEF TaskFits, KindOf
  <2>2. \A kind, about : ~Unsaid(graph, kind, about) => ~Unsaid(h, kind, about)
    BY <1>4, SaidStays DEF Grows
  <2> HIDE DEF said
  <2>3. QED
    BY <1>2, <1>3, <2>1, <2>2 DEF OutcomeFits
<1>6. SourceIsTrue(directory, touched, h, said)
  <2> HIDE DEF said
  <2>1. SourceIsTrue(directory, touched, graph, said)
    BY DEF said
  <2>2. QED
    BY <1>2, <2>1 DEF SourceIsTrue, HoldingIsTrue, InlineIsTrue, UsageIsTrue
<1>7. Made(task, h, calls, wrong) /\ AreNewCalls(calls, task, h)
  BY DEF h
<1>8. QED
  BY <1>2, <1>5, <1>6, <1>7, CallSays DEF said

LEMMA SummaryIsRead ==
  ASSUME IdentityInv, ReadSummary
  PROVE  IdentityInv'
<1>1. PICK task \in Due("summary") : \E errors \in Errors :
        Made(task, Say(graph, "summary", Everything, OutcomeState(errors), IF errors = {} THEN directory.root ELSE {}),
             {}, errors # {})
  BY DEF ReadSummary
<1>2. PICK errors \in Errors :
        Made(task, Say(graph, "summary", Everything, OutcomeState(errors), IF errors = {} THEN directory.root ELSE {}),
             {}, errors # {})
  BY <1>1
<1> DEFINE state == OutcomeState(errors)
           says == IF errors = {} THEN directory.root ELSE {}
           said == Outcome("summary", Everything, state, says)
<1>3. task.about = Everything
  BY DueIsWaiting DEF TaskFits
<1>4. /\ said.kind = "summary" /\ said.about = Everything /\ said.state = state /\ said.says = says
  BY DEF Outcome
<1>5. (state = "PRESENT" <=> errors = {}) /\ state # "EXPECTED_ABSENCE"
  BY StateOfErrors
<1>6. SourceIsTrue(directory, touched, graph, said)
  <2> HIDE DEF said, state
  <2>1. QED
    BY <1>4, <1>5 DEF SourceIsTrue, SummaryIsTrue, Listed, OfPrincipals
<1>7. KindOf("summary") = "summary"
  BY DEF KindOf
<1>8. QED
  BY <1>2, <1>3, <1>5, <1>6, <1>7, NoCallsAreNew, CallOnlySays

LEMMA TagsAreRead ==
  ASSUME IdentityInv, ReadTags
  PROVE  IdentityInv'
<1>1. PICK task \in Due("tags") : \E errors :
        Made(task, Say(graph, "tags", task.about, OutcomeState(errors), {}), {}, Exists(task.about) /\ errors # {})
  BY DEF ReadTags
<1>2. PICK errors :
        Made(task, Say(graph, "tags", task.about, OutcomeState(errors), {}), {}, Exists(task.about) /\ errors # {})
  BY <1>1
<1> DEFINE state == OutcomeState(errors)
           said == Outcome("tags", task.about, state, {})
<1>3. task.about \in DOMAIN graph.things
  BY DueIsWaiting DEF TaskFits
<1>4. said.kind = "tags"
  BY DEF Outcome
<1>5. state # "EXPECTED_ABSENCE"
  BY StateOfErrors
<1>6. SourceIsTrue(directory, touched, graph, said)
  <2> HIDE DEF said
  <2>1. QED
    BY <1>4 DEF SourceIsTrue, Listed, OfPrincipals
<1>7. KindOf("tags") = "tags"
  BY DEF KindOf
<1>8. QED
  BY <1>2, <1>3, <1>5, <1>6, <1>7, NoCallsAreNew, CallOnlySays

LEMMA VersionIsRead ==
  ASSUME IdentityInv, ReadVersion
  PROVE  IdentityInv'
<1> DEFINE Arn(task) == Head(task.about.id)
           Current0(task) == Arn(task) \in DOMAIN directory.policies
                             /\ task.about = VersionOf(Arn(task), directory.policies[Arn(task)].version)
           Says(task, errors) == IF errors = {} THEN {directory.policies[Arn(task)].document} ELSE {}
           Reads(task, errors) ==
             Made(task, Say(graph, "document", task.about, OutcomeState(errors), Says(task, errors)), {},
                  Current0(task) /\ errors # {})
<1>1. PICK task \in Due("version") : \E errors \in (IF Current0(task) THEN Errors ELSE {{"denied"}, {"malformed"}}) : Reads(task, errors)
  BY DEF ReadVersion
<1>2. PICK errors \in (IF Current0(task) THEN Errors ELSE {{"denied"}, {"malformed"}}) : Reads(task, errors)
  BY <1>1
<1> DEFINE state == OutcomeState(errors)
           says == Says(task, errors)
           said == Outcome("document", task.about, state, says)
<1>3. task.about \in DOMAIN graph.things /\ task.about.type = "version"
  BY DueIsWaiting DEF TaskFits
<1>4. /\ said.kind = "document" /\ said.about = task.about /\ said.state = state /\ said.says = says
  BY DEF Outcome
<1>5. (state = "PRESENT" <=> errors = {}) /\ state # "EXPECTED_ABSENCE"
  BY StateOfErrors
<1>6. errors = {} => Arn(task) \in DOMAIN directory.policies /\ says = {directory.policies[Arn(task)].document}
  BY <1>2
<1>7. SourceIsTrue(directory, touched, graph, said)
  <2> HIDE DEF said, state, says
  <2>1. QED
    BY <1>3, <1>4, <1>5, <1>6 DEF SourceIsTrue, VersionIsTrue, Listed, OfPrincipals
<1>8. KindOf("version") = "document"
  BY DEF KindOf
<1>9. Made(task, Say(graph, "document", task.about, state, says), {}, Current0(task) /\ errors # {})
  BY <1>2
<1> HIDE DEF state, says
<1>10. QED
  BY <1>3, <1>5, <1>7, <1>8, <1>9, NoCallsAreNew, CallOnlySays

-----------------------------------------------------------------------------
(* Identities: the calls about a principal that bring no new resource            *)

LEMMA ListingsAreListings ==
  \A ids : \A listed \in Listings(ids) : listed = Listing(listed.items, listed.errors)
<1>1. \A items, errors : Listing(items, errors) = Listing(Listing(items, errors).items, Listing(items, errors).errors)
  BY DEF Listing
<1>2. ASSUME NEW ids, NEW listed \in Listings(ids) PROVE \E items, errors : listed = Listing(items, errors)
  <2> DEFINE whole == [i \in 1..Cardinality(ids) |-> Item(SetToSeq(ids)[i], "plain")]
  <2>1. listed \in {Listing(whole, {})} \cup TroubledListings(whole)
    BY DEF Listings
  <2> HIDE DEF whole
  <2>2. listed \in TroubledListings(whole) => \E items, errors : listed = Listing(items, errors)
    BY Zenon DEF TroubledListings
  <2>3. QED
    BY <2>1, <2>2
<1>3. QED
  BY <1>1, <1>2

\* A member that was read is a user that was listed.
LEMMA MembersAreKnown ==
  ASSUME NEW listed, listed = Listing(listed.items, listed.errors)
  PROVE  \A id \in ReadChildren(Recognized(listed)).kept : Thing("user", <<id>>) \in Things
<1> DEFINE r == Recognized(listed)
           seen == [i \in DOMAIN listed.items |->
                      IF IsKnown(listed.items[i].id) THEN listed.items[i] ELSE Item(listed.items[i].id, "garbled")]
<1>1. r.items = seen
  BY DEF Recognized, Listing
<1> HIDE DEF r
<1>2. ReadChildren(r).kept \subseteq IdsAt(seen, Understood(seen))
  BY <1>1, ChildrenAreRead
<1>3. ASSUME NEW i \in Understood(seen) PROVE IsKnown(seen[i].id)
  BY <1>3 DEF Understood, Item
<1>4. \A id \in ReadChildren(r).kept : IsKnown(id)
  BY <1>2, <1>3 DEF IdsAt
<1>5. QED
  BY <1>4 DEF IsKnown, r

LEMMA MembersAreRead ==
  ASSUME IdentityInv, ReadMembers
  PROVE  IdentityInv'
<1> DEFINE Same(group) == Exists(group) /\ Named(group).id = Head(group.id)
           Answers(group) ==
             IF Same(group) THEN Listings(Named(group).members)
             ELSE {Listing(<<>>, {IF Exists(group) THEN "malformed" ELSE "denied"})}
           State(listed) == OutcomeState(ReadChildren(Recognized(listed)).errors)
           Kept(listed) == ReadChildren(Recognized(listed)).kept
           SaidOf(group, listed) == Say(graph, "members", group, State(listed), Kept(listed))
           Related(group, listed) ==
             {Relation("member", Thing("user", <<id>>), group, "members", group) : id \in Kept(listed)}
           After(group, listed) ==
             IF State(listed) = "PRESENT" THEN Relate(SaidOf(group, listed), Related(group, listed)) ELSE SaidOf(group, listed)
<1>1. PICK task \in Due("members") : \E listed \in Answers(task.about) : \E wrong :
        Made(task, After(task.about, listed), {}, wrong)
  BY DEF ReadMembers
<1>2. PICK listed \in Answers(task.about) : \E wrong : Made(task, After(task.about, listed), {}, wrong)
  BY <1>1
<1>3. PICK wrong : Made(task, After(task.about, listed), {}, wrong)
  BY <1>2
<1> DEFINE group == task.about
           state == State(listed)
           said == Outcome("members", group, state, Kept(listed))
           g == SaidOf(group, listed)
           h == After(group, listed)
<1>4. /\ group \in DOMAIN graph.things /\ IsGraph(graph)
  BY DueIsWaiting DEF TaskFits
<1>5. \A id \in Kept(listed) : Thing("user", <<id>>) \in Things
  <2>1. listed = Listing(listed.items, listed.errors)
    <3>1. CASE Same(group)
      BY <1>2, <3>1, ListingsAreListings
    <3>2. CASE ~Same(group)
      BY <1>2, <3>2 DEF Listing
    <3>3. QED
      BY <3>1, <3>2
  <2>2. QED
    BY <2>1, MembersAreKnown
<1> HIDE DEF State, Kept
<1>6. /\ IsGraph(g) /\ g.outcomes = graph.outcomes \cup {said} /\ g.things = graph.things
      /\ g.links = graph.links /\ g.mentions = graph.mentions /\ g.contested = graph.contested
  BY <1>4, SayFields
<1>7. /\ IsGraph(h) /\ h.outcomes = g.outcomes /\ h.things = g.things /\ h.mentions = g.mentions /\ h.contested = g.contested
      /\ h.links = g.links \cup (IF state = "PRESENT" THEN Related(group, listed) ELSE {})
  <2>1. CASE state = "PRESENT"
    BY <2>1, <1>6, RelateFields
  <2>2. CASE state # "PRESENT"
    BY <2>2, <1>6
  <2>3. QED
    BY <2>1, <2>2
<1>8. /\ said = Outcome(said.kind, said.about, said.state, said.says)
      /\ said.kind = "members" /\ said.about = group /\ said.state = state
  BY DEF Outcome
<1>9. said \in h.outcomes
  BY <1>6, <1>7
<1> HIDE DEF said, g, h
<1>10. OutcomeFits(h, said)
  <2>1. state # "EXPECTED_ABSENCE"
    BY StateOfErrors DEF State
  <2>2. QED
    BY <1>4, <1>6, <1>7, <1>8, <2>1 DEF OutcomeFits
<1>11. SourceIsTrue(directory, touched, h, said)
  BY <1>8 DEF SourceIsTrue, Listed, OfPrincipals
<1>12. ASSUME NEW l \in h.links \ graph.links PROVE LinkFits(h, l)
  <2>1. state = "PRESENT" /\ l \in Related(group, listed)
    BY <1>6, <1>7
  <2>2. PICK id \in Kept(listed) : l = Relation("member", Thing("user", <<id>>), group, "members", group)
    BY <2>1
  <2>3. l.type = "member" /\ l.source = Thing("user", <<id>>) /\ l.target = group /\ l.by = [kind |-> "members", about |-> group]
    BY <2>2 DEF Relation
  <2>4. l.source \in DOMAIN h.things /\ l.target \in DOMAIN h.things
    BY <1>4, <1>5, <1>6, <1>7, <2>3 DEF Things
  <2>5. Said(h, "members", group, {"PRESENT"})
    BY <1>8, <1>9, <2>1 DEF Said
  <2>6. QED
    BY <2>3, <2>4, <2>5 DEF LinkFits, ChildKinds
<1>13. /\ h.outcomes = graph.outcomes \cup {Outcome(KindOf("members"), group, state, Kept(listed))}
       /\ said = Outcome(KindOf("members"), group, state, Kept(listed))
  BY <1>6, <1>7 DEF KindOf, said
<1>14. Made(task, h, {}, wrong)
  BY <1>3 DEF h
<1>15. /\ h.things = graph.things /\ h.contested = graph.contested /\ graph.links \subseteq h.links
       /\ graph.mentions \subseteq h.mentions /\ \A m \in h.mentions \ graph.mentions : MentionFits(h, m)
  BY <1>6, <1>7
<1>16. OutcomeFits(h, Outcome(KindOf("members"), group, state, Kept(listed)))
       /\ SourceIsTrue(directory, touched, h, Outcome(KindOf("members"), group, state, Kept(listed)))
  BY <1>10, <1>11, <1>13
<1>17. AreNewCalls({}, task, h)
  BY NoCallsAreNew
<1> HIDE DEF state
<1>18. QED
  BY <1>7, <1>12, <1>13, <1>14, <1>15, <1>16, <1>17, CallSays

\* A principal that nobody touched is there, under the name it was listed with.
LEMMA PrincipalIsThere ==
  ASSUME IdentityInv, NEW owner \in Things, owner.type \in Kinds, NameOf(owner) \notin touched
  PROVE  /\ Exists(owner) /\ NameOf(owner) \in DOMAIN directory.principals /\ Named(owner).id = Head(owner.id)
<1>1. PrincipalIsTrue(directory, touched, graph, owner)
  BY DEF IdentityInv, GraphStands, GraphIsTrue, ThingIsTrue, Things
<1>2. owner.type # "policy"
  BY DEF Kinds
<1>3. QED
  BY <1>1, <1>2 DEF PrincipalIsTrue, Exists, NameOf, Named

\* The values of a function on a finite set are finite.
LEMMA ImageIsFinite ==
  ASSUME NEW f, f = [x \in DOMAIN f |-> f[x]], IsFiniteSet(DOMAIN f)
  PROVE  IsFiniteSet({f[x] : x \in DOMAIN f})
<1> DEFINE T == {f[x] : x \in DOMAIN f}
<1>1. f \in [DOMAIN f -> T]
  OBVIOUS
<1>2. f \in Surjection(DOMAIN f, T)
  BY <1>1 DEF Surjection
<1> HIDE DEF T
<1>3. QED
  BY <1>2, FS_Surjection DEF T

LEMMA PrincipalsAreFinite ==
  ASSUME IdentityInv
  PROVE  \A n \in DOMAIN directory.principals : LET p == directory.principals[n] IN
           /\ p.kind \in Kinds
           /\ \A m \in DOMAIN directory.principals : directory.principals[m].id = p.id => m = n
           /\ IsFiniteSet(p.devices) /\ IsFiniteSet(p.keys) /\ IsFiniteSet({k.id : k \in p.keys})
           /\ IsFiniteSet(p.members) /\ IsFiniteSet(p.attached) /\ IsFiniteSet(DOMAIN p.inline)
           /\ \A k, l \in p.keys : k.id = l.id => k = l
           /\ p.kind = "group" => p.boundary = NoValue
<1> SUFFICES ASSUME NEW n \in DOMAIN directory.principals
             PROVE  LET p == directory.principals[n] IN
           /\ p.kind \in Kinds
           /\ \A m \in DOMAIN directory.principals : directory.principals[m].id = p.id => m = n
           /\ IsFiniteSet(p.devices) /\ IsFiniteSet(p.keys) /\ IsFiniteSet({k.id : k \in p.keys})
           /\ IsFiniteSet(p.members) /\ IsFiniteSet(p.attached) /\ IsFiniteSet(DOMAIN p.inline)
           /\ \A k, l \in p.keys : k.id = l.id => k = l
           /\ p.kind = "group" => p.boundary = NoValue
  OBVIOUS
<1> DEFINE p == directory.principals[n]
<1>1. directory \in Directories
  BY DEF IdentityInv, IdentityTypes
<1>2. /\ p.kind \in {"user", "group", "role"}
      /\ \A m \in DOMAIN directory.principals : directory.principals[m].id = p.id => m = n
      /\ \A listed \in {p.devices, p.keys, p.members, p.attached, DOMAIN p.inline} : IsFiniteSet(listed)
      /\ \A k, l \in p.keys : k.id = l.id => k = l
      /\ p.kind = "group" => p.boundary = NoValue
  BY <1>1, DirectoriesAssumption, Zenon
<1>3. IsFiniteSet(p.keys)
  BY <1>2
<1>4. IsFiniteSet({k.id : k \in p.keys})
  <2> DEFINE f == [k \in p.keys |-> k.id]
  <2>1. \A k \in p.keys : f[k] = k.id
    OBVIOUS
  <2>2. DOMAIN f = p.keys /\ f = [k \in DOMAIN f |-> f[k]]
    OBVIOUS
  <2>3. IsFiniteSet({f[k] : k \in DOMAIN f})
    <3> HIDE DEF f
    <3>1. QED
      BY <1>3, <2>2, ImageIsFinite
  <2>4. {f[k] : k \in DOMAIN f} = {k.id : k \in p.keys}
    BY <2>1, <2>2
  <2>5. QED
    BY <2>3, <2>4
<1> HIDE DEF p
<1>5. QED
  BY <1>2, <1>4 DEF p, Kinds

\* A listing of what a principal has.
LEMMA ListingOfPrincipal ==
  ASSUME NEW owner, NEW ids, Exists(owner) => IsFiniteSet(ids), NEW listed \in ListingsOf(owner, ids)
  PROVE  Exists(owner) => IsListingOf(listed, ids)
BY ListingsAreOf DEF ListingsOf

LEMMA ExistingIsNamed ==
  ASSUME NEW owner, owner.type \in Kinds, Exists(owner)
  PROVE  /\ NameOf(owner) \in DOMAIN directory.principals
         /\ directory.principals[NameOf(owner)] = Named(owner) /\ Named(owner).kind = owner.type
BY DEF Exists, Named, Kinds

LEMMA ProfileIsRead ==
  ASSUME IdentityInv, ReadProfile
  PROVE  IdentityInv'
<1> DEFINE Boundary(owner, errors) == IF errors = {} THEN {Named(owner).boundary} \ {NoValue} ELSE {}
           SaidOf(owner, errors) == Say(graph, "profile", owner, OutcomeState(errors), Boundary(owner, errors))
           Mentions(owner, errors) == {Mention("boundary", owner, a, "PRESENT") : a \in Boundary(owner, errors)}
           After(owner, errors) == [SaidOf(owner, errors) EXCEPT !.mentions = @ \cup Mentions(owner, errors)]
<1>1. PICK task \in Due("profile") : \E errors, wrong : Made(task, After(task.about, errors), {}, wrong)
  BY DEF ReadProfile
<1>2. PICK errors, wrong : Made(task, After(task.about, errors), {}, wrong)
  BY <1>1
<1> DEFINE owner == task.about
           state == OutcomeState(errors)
           says == Boundary(owner, errors)
           said == Outcome("profile", owner, state, says)
           g == SaidOf(owner, errors)
           h == After(owner, errors)
<1>3. owner \in DOMAIN graph.things /\ owner.type \in Kinds /\ IsGraph(graph)
  BY DueIsWaiting DEF TaskFits, OfPrincipals
<1>4. /\ IsGraph(g) /\ g.outcomes = graph.outcomes \cup {said} /\ g.things = graph.things
      /\ g.links = graph.links /\ g.mentions = graph.mentions /\ g.contested = graph.contested
  BY <1>3, SayFields
<1>5. /\ IsGraph(h) /\ h.outcomes = g.outcomes /\ h.things = g.things /\ h.links = g.links /\ h.contested = g.contested
      /\ h.mentions = g.mentions \cup Mentions(owner, errors)
  BY <1>4, MentionFields
<1>6. /\ said = Outcome(said.kind, said.about, said.state, said.says)
      /\ said.kind = "profile" /\ said.about = owner /\ said.state = state /\ said.says = says
  BY DEF Outcome
<1>7. (state = "PRESENT" <=> errors = {}) /\ state # "EXPECTED_ABSENCE"
  BY StateOfErrors
<1> HIDE DEF said, g, h, state
<1>8. OutcomeFits(h, said)
  BY <1>3, <1>4, <1>5, <1>6, <1>7 DEF OutcomeFits
<1>9. state = "PRESENT" => HoldingIsTrue(directory, touched, h, said)
  <2>1. state = "PRESENT" => says = {directory.principals[NameOf(owner)].boundary} \ {NoValue}
    BY <1>7 DEF Named
  <2>2. h.things[said.about].name = NameOf(owner)
    BY <1>4, <1>5, <1>6 DEF NameOf
  <2> HIDE DEF says
  <2>3. Holds(directory.principals[NameOf(owner)], "profile") = {directory.principals[NameOf(owner)].boundary} \ {NoValue}
    BY DEF Holds
  <2>4. QED
    BY <1>6, <2>1, <2>2, <2>3 DEF HoldingIsTrue
<1>10. SourceIsTrue(directory, touched, h, said)
  BY <1>3, <1>4, <1>5, <1>6, <1>9 DEF SourceIsTrue, Listed, OfPrincipals
<1>11. ASSUME NEW m \in h.mentions \ graph.mentions PROVE MentionFits(h, m)
  <2>1. m \in Mentions(owner, errors)
    BY <1>4, <1>5
  <2>2. PICK a \in says : m = Mention("boundary", owner, a, "PRESENT")
    BY <2>1
  <2>3. errors = {}
    BY <2>2
  <2>4. Said(h, "profile", owner, {"PRESENT"})
    BY <1>4, <1>5, <1>6, <1>7, <2>3 DEF Said
  <2>5. m.type = "boundary" /\ m.owner = owner
    BY <2>2 DEF Mention
  <2>6. QED
    BY <1>3, <1>4, <1>5, <2>4, <2>5 DEF MentionFits
<1> HIDE DEF says
<1>12. /\ said = Outcome(KindOf("profile"), owner, state, says)
       /\ h.outcomes = graph.outcomes \cup {Outcome(KindOf("profile"), owner, state, says)}
  BY <1>4, <1>5 DEF KindOf, said
<1>13. Made(task, h, {}, wrong)
  BY <1>2 DEF h
<1>14. /\ h.things = graph.things /\ h.contested = graph.contested /\ graph.links \subseteq h.links
       /\ graph.mentions \subseteq h.mentions /\ \A l \in h.links \ graph.links : LinkFits(h, l)
  BY <1>4, <1>5
<1>15. /\ OutcomeFits(h, Outcome(KindOf("profile"), owner, state, says))
       /\ SourceIsTrue(directory, touched, h, Outcome(KindOf("profile"), owner, state, says))
  BY <1>8, <1>10, <1>12
<1>16. AreNewCalls({}, task, h)
  BY NoCallsAreNew
<1>17. QED
  BY <1>5, <1>11, <1>12, <1>13, <1>14, <1>15, <1>16, CallSays

LEMMA AttachedAreRead ==
  ASSUME IdentityInv, ReadAttached
  PROVE  IdentityInv'
<1> DEFINE State(listed) == OutcomeState(ReadLabels(listed).errors)
           Kept(listed) == ReadLabels(listed).kept
           SaidOf(owner, listed) == Say(graph, "attached", owner, State(listed), Kept(listed))
           Mentions(owner, listed) == {Mention("attached", owner, a, State(listed)) : a \in Kept(listed)}
           After(owner, listed) == [SaidOf(owner, listed) EXCEPT !.mentions = @ \cup Mentions(owner, listed)]
<1>1. PICK task \in Due("attached") : \E listed \in ListingsOf(task.about, Named(task.about).attached) : \E wrong :
        Made(task, After(task.about, listed), {}, wrong)
  BY DEF ReadAttached
<1>2. PICK listed \in ListingsOf(task.about, Named(task.about).attached) : \E wrong :
        Made(task, After(task.about, listed), {}, wrong)
  BY <1>1
<1>3. PICK wrong : Made(task, After(task.about, listed), {}, wrong)
  BY <1>2
<1> DEFINE owner == task.about
           state == State(listed)
           says == Kept(listed)
           said == Outcome("attached", owner, state, says)
           g == SaidOf(owner, listed)
           h == After(owner, listed)
<1>4. owner \in DOMAIN graph.things /\ owner.type \in Kinds /\ IsGraph(graph)
  BY DueIsWaiting DEF TaskFits, OfPrincipals
<1>5. (state = "PRESENT" <=> ReadLabels(listed).errors = {}) /\ state # "EXPECTED_ABSENCE"
  BY StateOfErrors
<1>6. Exists(owner) => IsReadOf(ReadLabels(listed), Named(owner).attached)
  <2>1. Exists(owner) => IsFiniteSet(Named(owner).attached)
    BY <1>4, ExistingIsNamed, PrincipalsAreFinite, Zenon
  <2>2. Exists(owner) => IsListingOf(listed, Named(owner).attached)
    BY <1>2, <2>1, ListingOfPrincipal
  <2>3. QED
    BY <2>2, LabelsAreRead
<1> HIDE DEF State, Kept
<1>7. /\ IsGraph(g) /\ g.outcomes = graph.outcomes \cup {said} /\ g.things = graph.things
      /\ g.links = graph.links /\ g.mentions = graph.mentions /\ g.contested = graph.contested
  BY <1>4, SayFields
<1>8. /\ IsGraph(h) /\ h.outcomes = g.outcomes /\ h.things = g.things /\ h.links = g.links /\ h.contested = g.contested
      /\ h.mentions = g.mentions \cup Mentions(owner, listed)
  BY <1>7, MentionFields
<1>9. /\ said = Outcome(said.kind, said.about, said.state, said.says)
      /\ said.kind = "attached" /\ said.about = owner /\ said.state = state /\ said.says = says
  BY DEF Outcome
<1> HIDE DEF said, g, h
<1>10. OutcomeFits(h, said)
  BY <1>4, <1>5, <1>7, <1>8, <1>9 DEF OutcomeFits
<1>11. state = "PRESENT" => HoldingIsTrue(directory, touched, h, said)
  <2>1. state = "PRESENT" /\ NameOf(owner) \notin touched => says = directory.principals[NameOf(owner)].attached
    BY <1>4, <1>5, <1>6, PrincipalIsThere DEF IsReadOf, Named, Things, Kept
  <2>2. h.things[said.about].name = NameOf(owner)
    BY <1>7, <1>8, <1>9 DEF NameOf
  <2>3. Holds(directory.principals[NameOf(owner)], "attached") = directory.principals[NameOf(owner)].attached
    BY DEF Holds
  <2> HIDE DEF state, says
  <2>4. QED
    BY <1>9, <2>1, <2>2, <2>3 DEF HoldingIsTrue
<1>12. SourceIsTrue(directory, touched, h, said)
  BY <1>4, <1>7, <1>8, <1>9, <1>11 DEF SourceIsTrue, Listed, OfPrincipals
<1>13. ASSUME NEW m \in h.mentions \ graph.mentions PROVE MentionFits(h, m)
  <2>1. m \in Mentions(owner, listed)
    BY <1>7, <1>8
  <2>2. PICK a \in says : m = Mention("attached", owner, a, state)
    BY <2>1
  <2>3. state = "PRESENT" => Said(h, "attached", owner, {"PRESENT"})
    BY <1>7, <1>8, <1>9 DEF Said
  <2>4. m.type = "attached" /\ m.owner = owner /\ m.by = state
    BY <2>2 DEF Mention
  <2>5. QED
    BY <1>4, <1>7, <1>8, <2>3, <2>4 DEF MentionFits
<1>14. /\ said = Outcome(KindOf("attached"), owner, state, says)
       /\ h.outcomes = graph.outcomes \cup {Outcome(KindOf("attached"), owner, state, says)}
  BY <1>7, <1>8 DEF KindOf, said
<1>15. Made(task, h, {}, wrong)
  BY <1>3 DEF h
<1>16. /\ h.things = graph.things /\ h.contested = graph.contested /\ graph.links \subseteq h.links
       /\ graph.mentions \subseteq h.mentions /\ \A l \in h.links \ graph.links : LinkFits(h, l)
  BY <1>7, <1>8
<1>17. /\ OutcomeFits(h, Outcome(KindOf("attached"), owner, state, says))
       /\ SourceIsTrue(directory, touched, h, Outcome(KindOf("attached"), owner, state, says))
  BY <1>10, <1>12, <1>14
<1>18. AreNewCalls({}, task, h)
  BY NoCallsAreNew
<1> HIDE DEF state, says
<1>19. QED
  BY <1>8, <1>13, <1>14, <1>15, <1>16, <1>17, <1>18, CallSays

\* An inline policy is that of one principal, under one name.
LEMMA InlineIsOfOne ==
  /\ \A o, m : Inline(o, m).type = "inline" /\ Inline(o, m).id[3] = m
  /\ \A o, p, m, n : Inline(o, m) = Inline(p, n) => o.type = p.type /\ Head(o.id) = Head(p.id) /\ m = n
<1>1. \A o, m : Inline(o, m).type = "inline" /\ Inline(o, m).id = <<o.type, Head(o.id), m>>
  BY DEF Inline, Thing
<1>2. \A a, b, c : <<a, b, c>>[1] = a /\ <<a, b, c>>[2] = b /\ <<a, b, c>>[3] = c
  OBVIOUS
<1>3. ASSUME NEW o, NEW p, NEW m, NEW n, Inline(o, m) = Inline(p, n)
      PROVE  o.type = p.type /\ Head(o.id) = Head(p.id) /\ m = n
  <2>1. <<o.type, Head(o.id), m>> = <<p.type, Head(p.id), n>>
    BY <1>1, <1>3
  <2>2. QED
    BY <1>2, <2>1
<1>4. QED
  BY <1>1, <1>2, <1>3

LEMMA PrincipalsHaveOneId ==
  ASSUME NEW g, GraphFits(g)
  PROVE  \A o \in DOMAIN g.things : o.type \in Listed \cup ChildKinds => o = Thing(o.type, <<Head(o.id)>>)
BY DEF GraphFits, ThingFits

LEMMA NothingSaidOfOthers ==
  ASSUME NEW g, GraphFits(g), NEW t, t \notin DOMAIN g.things, t # Everything
  PROVE  \A kind : Unsaid(g, kind, t)
BY DEF GraphFits, OutcomeFits, Unsaid

LEMMA InlineNamesAreRead ==
  ASSUME IdentityInv, ReadInlineNames
  PROVE  IdentityInv'
<1> DEFINE State(listed) == OutcomeState(ReadLabels(listed).errors)
           Kept(listed) == ReadLabels(listed).kept
           Document(owner, n) == Task("document", Inline(owner, n), owner, [Facts EXCEPT !.owner = owner])
           Documents(owner, listed) == {Document(owner, n) : n \in Kept(listed)}
           After(owner, listed) == Say(graph, "inline", owner, State(listed), Kept(listed))
<1>1. PICK task \in Due("inline") : \E listed \in ListingsOf(task.about, DOMAIN Named(task.about).inline) : \E wrong :
        Made(task, After(task.about, listed), Documents(task.about, listed), wrong)
  BY DEF ReadInlineNames
<1>2. PICK listed \in ListingsOf(task.about, DOMAIN Named(task.about).inline) : \E wrong :
        Made(task, After(task.about, listed), Documents(task.about, listed), wrong)
  BY <1>1
<1>3. PICK wrong : Made(task, After(task.about, listed), Documents(task.about, listed), wrong)
  BY <1>2
<1> DEFINE owner == task.about
           state == State(listed)
           says == Kept(listed)
           said == Outcome("inline", owner, state, says)
           h == After(owner, listed)
           calls == Documents(owner, listed)
<1>4. /\ owner \in DOMAIN graph.things /\ owner.type \in Kinds /\ IsGraph(graph) /\ GraphFits(graph)
      /\ Unsaid(graph, "inline", owner) /\ task.of = owner /\ phase = "principals"
  BY DueIsWaiting DEF TaskFits, OfPrincipals, KindOf
<1>5. (state = "PRESENT" <=> ReadLabels(listed).errors = {}) /\ state # "EXPECTED_ABSENCE"
  BY StateOfErrors
<1>6. Exists(owner) => IsReadOf(ReadLabels(listed), DOMAIN Named(owner).inline)
  <2>1. Exists(owner) => IsFiniteSet(DOMAIN Named(owner).inline)
    BY <1>4, ExistingIsNamed, PrincipalsAreFinite, Zenon
  <2>2. Exists(owner) => IsListingOf(listed, DOMAIN Named(owner).inline)
    BY <1>2, <2>1, ListingOfPrincipal
  <2>3. QED
    BY <2>2, LabelsAreRead
<1>7. /\ said.kind = "inline" /\ said.about = owner /\ said.state = state /\ said.says = says
  BY DEF Outcome
<1>8. state = "PRESENT" => HoldingIsTrue(directory, touched, graph, said)
  <2>1. state = "PRESENT" /\ NameOf(owner) \notin touched => says = DOMAIN directory.principals[NameOf(owner)].inline
    BY <1>4, <1>5, <1>6, PrincipalIsThere DEF IsReadOf, Named, Things
  <2>2. graph.things[said.about].name = NameOf(owner)
    BY <1>7 DEF NameOf
  <2>3. Holds(directory.principals[NameOf(owner)], "inline") = DOMAIN directory.principals[NameOf(owner)].inline
    BY DEF Holds
  <2> HIDE DEF state, says, said
  <2>4. QED
    BY <1>7, <2>1, <2>2, <2>3 DEF HoldingIsTrue
<1> HIDE DEF State, Kept
<1>9. SourceIsTrue(directory, touched, graph, said)
  <2> HIDE DEF said
  <2>1. QED
    BY <1>4, <1>7, <1>8 DEF SourceIsTrue, Listed, OfPrincipals
<1>10. /\ IsGraph(h) /\ h.outcomes = graph.outcomes \cup {said} /\ h.things = graph.things
  BY <1>4, SayFields
<1> HIDE DEF said, h
<1>11. ASSUME NEW o \in DOMAIN graph.things, o.type \in Kinds, NEW m, NEW n, Inline(o, m) = Inline(owner, n) PROVE o = owner
  <2>1. o = Thing(o.type, <<Head(o.id)>>) /\ owner = Thing(owner.type, <<Head(owner.id)>>)
    BY <1>4, <1>11, PrincipalsHaveOneId DEF Kinds, Listed
  <2>2. QED
    BY <1>11, <2>1, InlineIsOfOne
<1>12. \A n : Inline(owner, n) \notin DOMAIN graph.things
  <2> SUFFICES ASSUME NEW n, Inline(owner, n) \in DOMAIN graph.things PROVE FALSE
    OBVIOUS
  <2> DEFINE t == Inline(owner, n)
             o == graph.things[t].owner
  <2>1. ThingFits(graph, t) /\ t.type = "inline"
    BY <1>4, InlineIsOfOne DEF GraphFits
  <2>2. o \in DOMAIN graph.things /\ o.type \in Kinds /\ t = Inline(o, t.id[3]) /\ ~Unsaid(graph, "inline", o)
    BY <2>1 DEF ThingFits
  <2>3. o = owner
    BY <1>11, <2>2
  <2>4. QED
    BY <1>4, <2>2, <2>3
<1>13. ASSUME NEW n \in Kept(listed) PROVE TaskFits(h, Document(owner, n))
  <2> DEFINE t == Document(owner, n)
             about == Inline(owner, n)
             facts == [Facts EXCEPT !.owner = owner]
  <2>1. t.call = "document" /\ t.about = about /\ t.of = owner /\ t.facts = facts /\ t = Task(t.call, t.about, t.of, t.facts)
    BY DEF Task
  <2>2. AreFacts(facts) /\ facts.owner = owner
    BY DEF AreFacts, Facts
  <2>3. about.type = "inline" /\ about.id[3] = n
    BY InlineIsOfOne
  <2>4. about # Everything
    BY <2>3 DEF Everything, Thing
  <2>5. Unsaid(graph, "document", about)
    BY <1>4, <1>12, <2>4, NothingSaidOfOthers
  <2>6. Unsaid(h, "document", about)
    BY <1>7, <1>10, <2>5 DEF Unsaid
  <2>7. ~Unsaid(h, "inline", owner)
    BY <1>7, <1>10 DEF Unsaid
  <2>8. about \notin DOMAIN h.things /\ owner \in DOMAIN h.things
    BY <1>4, <1>10, <1>12
  <2> HIDE DEF t, about, facts
  <2>9. DocumentFits(h, t)
    BY <1>4, <2>1, <2>2, <2>3, <2>7, <2>8 DEF DocumentFits, about
  <2>10. TaskFits(h, t)
    BY <2>1, <2>2, <2>6, <2>9 DEF TaskFits, KindOf, Calls, Listed, OfPrincipals
  <2>11. QED
    BY <2>10 DEF t
<1>14. \A t \in calls : \E n \in Kept(listed) : t = Document(owner, n)
  OBVIOUS
<1>15. \A n : LET t == Document(owner, n) IN t.call = "document" /\ t.about = Inline(owner, n) /\ t.of = owner
  BY DEF Task
<1> HIDE DEF Document, calls
<1>16. AreNewCalls(calls, task, h)
  <2>1. \A t \in calls : TaskFits(h, t)
    BY <1>13, <1>14
  <2>2. \A t \in calls : t.call = "document" /\ t.of = task.of
    BY <1>4, <1>14, <1>15
  <2>3. OneTaskEach(calls)
    <3>1. ASSUME NEW t \in calls, NEW u \in calls, t.about = u.about PROVE t = u
      <4>1. PICK n \in Kept(listed) : t = Document(owner, n)
        BY <1>14
      <4>2. PICK m \in Kept(listed) : u = Document(owner, m)
        BY <1>14
      <4>3. Inline(owner, n) = Inline(owner, m)
        BY <1>15, <3>1, <4>1, <4>2
      <4>4. n = m
        BY <4>3, InlineIsOfOne
      <4>5. QED
        BY <4>1, <4>2, <4>4
    <3>2. QED
      BY <3>1 DEF OneTaskEach
  <2>4. ASSUME NEW t \in tasks, NEW u \in calls PROVE ~(t.call = u.call /\ t.about = u.about)
    <3> SUFFICES ASSUME t.call = u.call, t.about = u.about PROVE FALSE
      OBVIOUS
    <3>1. PICK n \in Kept(listed) : u = Document(owner, n)
      BY <1>14
    <3>2. t.call = "document" /\ t.about = Inline(owner, n)
      BY <1>15, <3>1
    <3>3. DocumentFits(graph, t)
      BY <3>2 DEF IdentityInv, TasksFit, TaskFits
    <3>4. t.of = owner
      BY <1>11, <3>2, <3>3 DEF DocumentFits
    <3>5. QED
      BY <1>4, <3>3, <3>4 DEF DocumentFits
  <2>5. \A t \in calls : TaskIsTrue(directory, touched, t)
    BY <2>2 DEF TaskIsTrue
  <2>6. QED
    BY <1>4, <2>1, <2>2, <2>3, <2>4, <2>5 DEF AreNewCalls
<1>17. KindOf("inline") = "inline"
  BY DEF KindOf
<1>18. Made(task, Say(graph, KindOf("inline"), task.about, state, says), calls, wrong)
  BY <1>3, <1>17 DEF calls
<1>19. AreNewCalls(calls, task, Say(graph, KindOf("inline"), task.about, state, says))
  BY <1>16, <1>17 DEF h
<1>20. SourceIsTrue(directory, touched, graph, Outcome(KindOf("inline"), task.about, state, says))
  BY <1>9, <1>17 DEF said
<1> HIDE DEF state, says
<1>21. QED
  BY <1>4, <1>5, <1>18, <1>19, <1>20, CallOnlySays

-----------------------------------------------------------------------------
(* Identities: the calls that put resources into the graph                       *)

\* Resources that are put into a graph, related and spoken about.
IsGrown(g, h, facts, links, kind, about, state, says) ==
  /\ Grows(g, h) /\ IsGraph(h) /\ DOMAIN h.things \ DOMAIN g.things = DOMAIN facts
  /\ \A t \in DOMAIN g.things : h.things[t] = g.things[t]
  /\ \A t \in DOMAIN facts : h.things[t] = facts[t]
  /\ h.outcomes = Outcomes(g, h, kind, about, state, says)
  /\ h.links = g.links \cup links /\ h.mentions = g.mentions

LEMMA AdmittedGrows ==
  ASSUME NEW g, IsGraph(g), NEW facts, DOMAIN facts \cap DOMAIN g.things = {}, NEW links,
         NEW kind, NEW about, NEW state, NEW says
  PROVE  IsGrown(g, Say(Relate(Admitted(g, facts), links), kind, about, state, says), facts, links, kind, about, state, says)
<1> DEFINE a == Admitted(g, facts)
           r == Relate(a, links)
           h == Say(r, kind, about, state, says)
<1>1. /\ IsGraph(a) /\ DOMAIN a.things = DOMAIN g.things \cup DOMAIN facts
      /\ \A t \in DOMAIN facts : a.things[t] = facts[t]
      /\ \A t \in DOMAIN g.things : t \notin DOMAIN facts => a.things[t] = g.things[t]
      /\ a.outcomes = g.outcomes \cup {Outcome("identity", t, "PRESENT", {}) : t \in DOMAIN facts}
      /\ a.links = g.links /\ a.mentions = g.mentions /\ a.contested = g.contested
  BY AdmittedFields
<1>2. /\ IsGraph(r) /\ r.links = a.links \cup links
      /\ r.things = a.things /\ r.outcomes = a.outcomes /\ r.mentions = a.mentions /\ r.contested = a.contested
  BY <1>1, RelateFields
<1>3. /\ IsGraph(h) /\ h.outcomes = r.outcomes \cup {Outcome(kind, about, state, says)}
      /\ h.things = r.things /\ h.links = r.links /\ h.mentions = r.mentions /\ h.contested = r.contested
  BY <1>2, SayFields
<1> HIDE DEF a, r, h
<1>4. DOMAIN h.things \ DOMAIN g.things = DOMAIN facts
  BY <1>1, <1>2, <1>3
<1>5. /\ \A t \in DOMAIN g.things : h.things[t] = g.things[t]
      /\ \A t \in DOMAIN facts : h.things[t] = facts[t]
  BY <1>1, <1>2, <1>3
<1>6. Grows(g, h)
  BY <1>1, <1>2, <1>3, <1>5 DEF Grows
<1>7. h.outcomes = Outcomes(g, h, kind, about, state, says)
  BY <1>1, <1>2, <1>3, <1>4 DEF Outcomes
<1>8. h.links = g.links \cup links /\ h.mentions = g.mentions
  BY <1>1, <1>2, <1>3
<1>9. QED
  BY <1>3, <1>4, <1>5, <1>6, <1>7, <1>8 DEF IsGrown, h, r, a

LEMMA InlineDocumentIsRead ==
  ASSUME IdentityInv, ReadInlineDocument
  PROVE  IdentityInv'
<1> DEFINE Known(task) == Exists(task.of) /\ task.about.id[3] \in DOMAIN Named(task.of).inline
           Names(task) == \E o \in OutcomesOf(graph, "inline", task.of) : o.state = "PRESENT"
           Links(task) == IF Names(task) THEN {Relation("inline", task.of, task.about, "inline", task.of)} ELSE {}
           FactsBy(task) == [p \in {task.about} |-> task.facts]
           Says(task, errors) == IF errors = {} THEN {Named(task.of).inline[task.about.id[3]]} ELSE {}
           After(task, errors) ==
             Say(Relate(Admitted(graph, FactsBy(task)), Links(task)), "document", task.about,
                 OutcomeState(errors), Says(task, errors))
<1>1. PICK task \in Due("document") : \E errors \in (IF Known(task) THEN Errors ELSE {{"denied"}}) : \E wrong :
        Made(task, After(task, errors), {}, wrong)
  BY DEF ReadInlineDocument
<1>2. PICK errors \in (IF Known(task) THEN Errors ELSE {{"denied"}}) : \E wrong : Made(task, After(task, errors), {}, wrong)
  BY <1>1
<1>3. PICK wrong : Made(task, After(task, errors), {}, wrong)
  BY <1>2
<1> DEFINE policy == task.about
           owner == task.of
           state == OutcomeState(errors)
           says == Says(task, errors)
           said == Outcome("document", policy, state, says)
           h == After(task, errors)
<1>4. /\ TaskFits(graph, task) /\ task.call = "document" /\ DocumentFits(graph, task)
      /\ IsGraph(graph) /\ GraphFits(graph)
  BY DueIsWaiting DEF TaskFits
<1>5. /\ owner \in DOMAIN graph.things /\ owner.type \in Kinds /\ policy = Inline(owner, policy.id[3])
      /\ policy \notin DOMAIN graph.things /\ task.facts.owner = owner /\ ~Unsaid(graph, "inline", owner)
  BY <1>4 DEF DocumentFits
<1>6. policy.type = "inline"
  BY <1>5, InlineIsOfOne
<1>7. (state = "PRESENT" <=> errors = {}) /\ state # "EXPECTED_ABSENCE"
  BY StateOfErrors
<1>8. errors = {} => policy.id[3] \in DOMAIN Named(owner).inline /\ says = {Named(owner).inline[policy.id[3]]}
  BY <1>2
<1>9. /\ said = Outcome(said.kind, said.about, said.state, said.says)
      /\ said.kind = "document" /\ said.about = policy /\ said.state = state /\ said.says = says
  BY DEF Outcome
<1>10. /\ Grows(graph, h) /\ IsGraph(h) /\ DOMAIN h.things \ DOMAIN graph.things = {policy}
       /\ \A t \in DOMAIN graph.things : h.things[t] = graph.things[t]
       /\ h.things[policy] = task.facts
       /\ h.outcomes = Outcomes(graph, h, "document", policy, state, says)
       /\ h.links = graph.links \cup Links(task) /\ h.mentions = graph.mentions
  <2> DEFINE facts == FactsBy(task)
             links == Links(task)
  <2>1. DOMAIN facts = {policy} /\ facts[policy] = task.facts
    OBVIOUS
  <2>2. DOMAIN facts \cap DOMAIN graph.things = {}
    BY <1>5, <2>1
  <2>3. h = Say(Relate(Admitted(graph, facts), links), "document", policy, state, says)
    OBVIOUS
  <2> HIDE DEF facts, links, h, state, says
  <2>4. /\ Grows(graph, h) /\ IsGraph(h) /\ DOMAIN h.things \ DOMAIN graph.things = DOMAIN facts
        /\ \A t \in DOMAIN graph.things : h.things[t] = graph.things[t]
        /\ \A t \in DOMAIN facts : h.things[t] = facts[t]
        /\ h.outcomes = Outcomes(graph, h, "document", policy, state, says)
        /\ h.links = graph.links \cup links /\ h.mentions = graph.mentions
    <3>1. IsGrown(graph, h, facts, links, "document", policy, state, says)
      BY <1>4, <2>2, <2>3, AdmittedGrows
    <3>2. QED
      BY <3>1 DEF IsGrown
  <2>5. QED
    BY <2>1, <2>4 DEF links
<1>11. said \in h.outcomes
  BY <1>10 DEF Outcomes
<1> HIDE DEF h, said, state, says
<1>12. \A kind, about : ~Unsaid(graph, kind, about) => ~Unsaid(h, kind, about)
  BY <1>10, SaidStays DEF Grows
<1>13. ThingFits(h, policy)
  BY <1>5, <1>6, <1>10, <1>12 DEF ThingFits, Listed, ChildKinds, Grows
<1>14. policy \notin graph.contested
  BY <1>4, <1>6 DEF GraphFits, ContestFits, ChildKinds
<1>15. ThingIsTrue(directory, touched, h, policy)
  BY <1>6 DEF ThingIsTrue, Kinds
<1>16. OutcomeFits(h, said)
  BY <1>7, <1>9, <1>10 DEF OutcomeFits
<1>17. state = "PRESENT" => InlineIsTrue(directory, touched, h, said)
  <2>1. h.things[h.things[said.about].owner].name = NameOf(owner)
    BY <1>5, <1>9, <1>10 DEF NameOf
  <2>2. Named(owner) = directory.principals[NameOf(owner)]
    BY DEF Named
  <2>3. QED
    BY <1>7, <1>8, <1>9, <2>1, <2>2 DEF InlineIsTrue
<1>18. SourceIsTrue(directory, touched, h, said)
  BY <1>6, <1>9, <1>10, <1>17 DEF SourceIsTrue, Listed, OfPrincipals
<1>19. ASSUME NEW l \in h.links \ graph.links PROVE LinkFits(h, l)
  <2>1. Names(task) /\ l = Relation("inline", owner, policy, "inline", owner)
    BY <1>10
  <2>2. l.type = "inline" /\ l.source = owner /\ l.target = policy /\ l.by = [kind |-> "inline", about |-> owner]
    BY <2>1 DEF Relation
  <2>3. Said(graph, "inline", owner, {"PRESENT"})
    BY <2>1 DEF OutcomesOf, Said
  <2>4. Said(h, "inline", owner, {"PRESENT"})
    BY <1>10, <2>3, SaidStays DEF Grows
  <2>5. QED
    BY <1>5, <1>10, <2>2, <2>4 DEF LinkFits, ChildKinds, Grows
<1>20. KindOf("document") = "document"
  BY DEF KindOf
<1>21. \A t \in DOMAIN h.things \ DOMAIN graph.things :
         /\ ThingFits(h, t) /\ t \notin graph.contested
         /\ t.type \in Listed => t.type = "document"
         /\ t.type \in {"key", "inline"} => t = task.about
         /\ t.type = "user" => \E u \in {} : u.call = "device" /\ u.about = t
  BY <1>6, <1>10, <1>13, <1>14 DEF Listed
<1>22. \A t \in DOMAIN h.things :
         t \notin DOMAIN graph.things \/ h.things[t] # graph.things[t] => ThingIsTrue(directory, touched, h, t)
  BY <1>10, <1>15
<1>23. \A m \in h.mentions \ graph.mentions : MentionFits(h, m)
  BY <1>10
<1>24. /\ h.outcomes = Outcomes(graph, h, KindOf("document"), task.about, state, says)
       /\ OutcomeFits(h, Outcome(KindOf("document"), task.about, state, says))
       /\ SourceIsTrue(directory, touched, h, Outcome(KindOf("document"), task.about, state, says))
  BY <1>10, <1>16, <1>18, <1>20 DEF said
<1>25. Made(task, h, {}, wrong) /\ AreNewCalls({}, task, h)
  BY <1>3, NoCallsAreNew DEF h
<1>26. QED
  BY <1>10, <1>19, <1>21, <1>22, <1>23, <1>24, <1>25, CallGrows

\* The devices or keys that are put into a graph are announced, and theirs.
LEMMA ChildLinksFit ==
  ASSUME NEW g, NEW h, Grows(g, h), NEW kind \in ChildKinds, NEW user \in DOMAIN g.things,
         NEW c \in DOMAIN h.things, c.type = kind, user = TheUser(h.things[c].owner),
         \E o \in OutcomesOf(g, kind, user) : o.state = "PRESENT",
         Outcome("identity", c, "PRESENT", {}) \in h.outcomes
  PROVE  LinkFits(h, Relation(kind, user, c, "identity", c))
<1> DEFINE l == Relation(kind, user, c, "identity", c)
           o == Outcome("identity", c, "PRESENT", {})
<1>1. l.type = kind /\ l.source = user /\ l.target = c /\ l.by.kind = "identity" /\ l.by.about = c
  BY DEF Relation
<1>2. o.kind = "identity" /\ o.about = c /\ o.state = "PRESENT"
  BY DEF Outcome
<1>3. Said(h, "identity", c, {"PRESENT"})
  BY <1>2 DEF Said
<1>4. Said(g, kind, user, {"PRESENT", "CONFLICT"})
  BY DEF OutcomesOf, Said
<1>5. Said(h, kind, user, {"PRESENT", "CONFLICT"}) /\ user \in DOMAIN h.things
  BY <1>4, SaidStays DEF Grows
<1> HIDE DEF l
<1>6. LinkFits(h, l)
  BY <1>1, <1>3, <1>5 DEF LinkFits, ChildKinds
<1>7. QED
  BY <1>6 DEF l

LEMMA KeyUsageIsRead ==
  ASSUME IdentityInv, ReadKeyUsage
  PROVE  IdentityInv'
<1> DEFINE Holders(task) == {n \in NamesOf("user") :
                               \E k \in directory.principals[n].keys : k.id = Head(task.about.id)}
           Inherent(task) == IF Holders(task) = {} THEN {"denied"}
                             ELSE IF task.facts.name \notin Holders(task) THEN {"malformed"} ELSE {}
           Used(task, errors) == IF errors # {} THEN NoValue
             ELSE (CHOOSE k \in directory.principals[task.facts.name].keys : k.id = Head(task.about.id)).used
           State(task, errors) ==
             IF errors = {} /\ Used(task, errors) = NoValue THEN "EXPECTED_ABSENCE" ELSE OutcomeState(errors)
           FactsBy(task, errors) == [k \in {task.about} |-> [task.facts EXCEPT !.used = Used(task, errors)]]
           After(task, errors) ==
             Say(Adopted(graph, "key", task.of, FactsBy(task, errors)), "usage", task.about, State(task, errors), {})
<1>1. PICK task \in Due("usage") : \E errors \in (IF Inherent(task) = {} THEN Errors ELSE {Inherent(task)}) : \E wrong :
        Made(task, After(task, errors), {}, wrong)
  BY DEF ReadKeyUsage
<1>2. PICK errors \in (IF Inherent(task) = {} THEN Errors ELSE {Inherent(task)}) : \E wrong :
        Made(task, After(task, errors), {}, wrong)
  BY <1>1
<1>3. PICK wrong : Made(task, After(task, errors), {}, wrong)
  BY <1>2
<1> DEFINE key == task.about
           user == task.of
           used == Used(task, errors)
           facts == [task.facts EXCEPT !.used = used]
           state == State(task, errors)
           said == Outcome("usage", key, state, {})
           h == After(task, errors)
           complete == \E o \in OutcomesOf(graph, "key", user) : o.state = "PRESENT"
           links == IF complete THEN {Relation("key", user, c, "identity", c) : c \in {key}} ELSE {}
<1>4. /\ task \in tasks /\ TaskFits(graph, task) /\ task.call = "usage" /\ UsageFits(graph, task)
      /\ IsGraph(graph) /\ GraphFits(graph) /\ AreFacts(task.facts)
  BY DueIsWaiting DEF TaskFits
<1>5. /\ key = Thing("key", <<Head(key.id)>>) /\ key \notin DOMAIN graph.things /\ key \notin graph.contested
      /\ user = TheUser(task.facts.owner) /\ user \in DOMAIN graph.things
      /\ task.facts.name = graph.things[user].name
      /\ Announced(graph, "key", user, Head(key.id))
  BY <1>4 DEF UsageFits
<1>6. key.type = "key"
  BY <1>5, ThingIsTyped, Zenon
<1>7. /\ facts.name = task.facts.name /\ facts.owner = task.facts.owner /\ facts.status = task.facts.status
      /\ facts.created = task.facts.created /\ facts.used = used
  <2> HIDE DEF used
  <2>1. QED
    BY <1>4 DEF AreFacts
<1>8. state \in {"PRESENT", "EXPECTED_ABSENCE"} => errors = {}
  BY StateOfErrors
<1>9. errors = {} => task.facts.name \in Holders(task)
  BY <1>2
<1>10. ASSUME state \in {"PRESENT", "EXPECTED_ABSENCE"}, task.facts.name \notin touched,
              NEW k \in directory.principals[task.facts.name].keys, k.id = Head(key.id)
       PROVE  k.used = used
  <2>1. errors = {}
    BY <1>8, <1>10
  <2>2. task.facts.name \in DOMAIN directory.principals
    BY <1>9, <2>1 DEF NamesOf
  <2>3. \A l \in directory.principals[task.facts.name].keys : l.id = k.id => l = k
    BY <2>2, <1>10, PrincipalsAreFinite, Zenon
  <2>4. k = CHOOSE l \in directory.principals[task.facts.name].keys : l.id = Head(key.id)
    BY <1>10, <2>3
  <2>5. used = (CHOOSE l \in directory.principals[task.facts.name].keys : l.id = Head(key.id)).used
    BY <2>1
  <2>6. QED
    BY <2>4, <2>5
<1>11. /\ said = Outcome(said.kind, said.about, said.state, said.says)
       /\ said.kind = "usage" /\ said.about = key /\ said.state = state /\ said.says = {}
  BY DEF Outcome
<1>12. IsGrown(graph, h, FactsBy(task, errors), links, "usage", key, state, {})
  <2> DEFINE kf == FactsBy(task, errors)
  <2>1. DOMAIN kf = {key}
    OBVIOUS
  <2>2. DOMAIN kf \cap DOMAIN graph.things = {}
    BY <1>5, <2>1
  <2>3. h = Say(Relate(Admitted(graph, kf), links), "usage", key, state, {})
    <3>1. {Relation("key", user, c, "identity", c) : c \in DOMAIN kf} = {Relation("key", user, c, "identity", c) : c \in {key}}
      BY <2>1
    <3> HIDE DEF kf, state
    <3>2. QED
      BY <3>1 DEF Adopted, kf, state
  <2> HIDE DEF kf, links, h, state
  <2>4. IsGrown(graph, h, kf, links, "usage", key, state, {})
    BY <1>4, <2>2, <2>3, AdmittedGrows
  <2>5. QED
    BY <2>4 DEF kf
<1>13. FactsBy(task, errors)[key] = facts /\ DOMAIN FactsBy(task, errors) = {key}
  OBVIOUS
<1> HIDE DEF FactsBy
<1>14. /\ Grows(graph, h) /\ IsGraph(h) /\ DOMAIN h.things \ DOMAIN graph.things = {key}
       /\ \A t \in DOMAIN graph.things : h.things[t] = graph.things[t]
       /\ h.things[key] = facts
       /\ h.outcomes = Outcomes(graph, h, "usage", key, state, {})
       /\ h.links = graph.links \cup links /\ h.mentions = graph.mentions
  <2> HIDE DEF h, facts, links, state
  <2>1. QED
    BY <1>12, <1>13 DEF IsGrown
<1>15. TaskIsTrue(directory, touched, task)
  BY <1>4 DEF IdentityInv
<1>16. user = TheUser(facts.owner) /\ h.things[user].name = task.facts.name /\ user \in DOMAIN h.things
  BY <1>5, <1>7, <1>14 DEF Grows
<1> HIDE DEF h, said, state, facts, used, links
<1>17. said \in h.outcomes
  BY <1>14 DEF Outcomes, said
<1>18. ThingFits(h, key)
  <2>1. Announced(h, "key", user, Head(key.id))
    BY <1>5, <1>14, SaidStays DEF Grows
  <2>2. QED
    BY <1>5, <1>6, <1>14, <1>16, <2>1 DEF ThingFits, Listed, ChildKinds
<1>19. ThingIsTrue(directory, touched, h, key)
  <2>1. task.facts.name \notin touched => IsKeyOf(directory.principals[task.facts.name], Head(key.id), facts)
    BY <1>4, <1>7, <1>15 DEF TaskIsTrue, IsKeyOf
  <2>2. KeyIsTrue(directory, touched, h, key)
    BY <1>14, <1>16, <2>1 DEF KeyIsTrue
  <2>3. QED
    BY <1>6, <2>2 DEF ThingIsTrue, Kinds
<1>20. OutcomeFits(h, said)
  BY <1>11, <1>14 DEF OutcomeFits
<1>21. state \in {"PRESENT", "EXPECTED_ABSENCE"} => UsageIsTrue(directory, touched, h, said)
  BY <1>7, <1>10, <1>11, <1>14, <1>16 DEF UsageIsTrue
<1>22. SourceIsTrue(directory, touched, h, said)
  BY <1>6, <1>11, <1>14, <1>21 DEF SourceIsTrue, Listed, OfPrincipals
<1>23. ASSUME NEW l \in h.links \ graph.links PROVE LinkFits(h, l)
  <2>1. complete /\ l = Relation("key", user, key, "identity", key)
    BY <1>14 DEF links
  <2>2. Outcome("identity", key, "PRESENT", {}) \in h.outcomes
    BY <1>14 DEF Outcomes
  <2>3. key \in DOMAIN h.things /\ user = TheUser(h.things[key].owner)
    BY <1>14, <1>16
  <2>4. "key" \in ChildKinds
    BY DEF ChildKinds
  <2>5. QED
    BY <1>5, <1>6, <1>14, <2>1, <2>2, <2>3, <2>4, ChildLinksFit
<1>24. KindOf("usage") = "usage"
  BY DEF KindOf
<1>25. \A t \in DOMAIN h.things \ DOMAIN graph.things :
         /\ ThingFits(h, t) /\ t \notin graph.contested
         /\ t.type \in Listed => t.type = "usage"
         /\ t.type \in {"key", "inline"} => t = task.about
         /\ t.type = "user" => \E u \in {} : u.call = "device" /\ u.about = t
  BY <1>5, <1>6, <1>14, <1>18 DEF Listed
<1>26. \A t \in DOMAIN h.things :
         t \notin DOMAIN graph.things \/ h.things[t] # graph.things[t] => ThingIsTrue(directory, touched, h, t)
  BY <1>14, <1>19
<1>27. \A m \in h.mentions \ graph.mentions : MentionFits(h, m)
  BY <1>14
<1>28. /\ h.outcomes = Outcomes(graph, h, KindOf("usage"), task.about, state, {})
       /\ OutcomeFits(h, Outcome(KindOf("usage"), task.about, state, {}))
       /\ SourceIsTrue(directory, touched, h, Outcome(KindOf("usage"), task.about, state, {}))
  BY <1>14, <1>20, <1>22, <1>24 DEF said
<1>29. Made(task, h, {}, wrong) /\ AreNewCalls({}, task, h)
  BY <1>3, NoCallsAreNew DEF h
<1>30. QED
  BY <1>14, <1>23, <1>25, <1>26, <1>27, <1>28, <1>29, CallGrows

\* The calls made for every principal.
LEMMA EnrichmentIs ==
  /\ Enrichment("user") = {"tags", "device", "key", "profile", "attached", "inline"}
  /\ Enrichment("group") = {"members", "attached", "inline"}
  /\ Enrichment("role") = {"tags", "profile", "attached", "inline"}
  /\ Enrichment("policy") = {}
<1>1. /\ Agenda["user"] = <<"tags", "device", "key", "usage", "profile", "attached", "inline", "document">>
      /\ Agenda["group"] = <<"members", "attached", "inline", "document">>
      /\ Agenda["role"] = <<"profile", "tags", "attached", "inline", "document">>
  BY DEF Agenda
<1>2. Range(Agenda["user"]) = {"tags", "device", "key", "usage", "profile", "attached", "inline", "document"}
  BY <1>1 DEF Range
<1>3. Range(Agenda["group"]) = {"members", "attached", "inline", "document"}
  BY <1>1 DEF Range
<1>4. Range(Agenda["role"]) = {"profile", "tags", "attached", "inline", "document"}
  BY <1>1 DEF Range
<1>5. QED
  BY <1>2, <1>3, <1>4 DEF Enrichment

LEMMA EnrichmentFits ==
  /\ \A type \in Listed : \A c \in Enrichment(type) :
       /\ type \in Kinds /\ c \in OfPrincipals \cup {"tags", "members"}
       /\ c \in ChildKinds => type = "user"
  /\ "device" \in Enrichment("user")
BY EnrichmentIs DEF Listed, Kinds, OfPrincipals, ChildKinds

LEMMA RelateNothing ==
  ASSUME NEW g, IsGraph(g)
  PROVE  Relate(g, {}) = g
BY DEF IsGraph, Relate

\* What a listing of principals or policies is about.
ListedIds(type) == IF type = "policy" THEN LocalPolicies ELSE IdsOf(NamesOf(type))

LEMMA ListedAreFinite ==
  ASSUME IdentityInv
  PROVE  \A type : IsFiniteSet(ListedIds(type))
<1>1. IsFiniteSet(DOMAIN directory.principals) /\ IsFiniteSet(DOMAIN directory.policies)
  BY DirectoriesAssumption DEF IdentityInv, IdentityTypes
<1>2. IsFiniteSet(LocalPolicies)
  BY <1>1, FS_Subset DEF LocalPolicies
<1>3. ASSUME NEW type PROVE IsFiniteSet(IdsOf(NamesOf(type)))
  <2> DEFINE f == [n \in NamesOf(type) |-> directory.principals[n].id]
  <2>1. DOMAIN f = NamesOf(type) /\ f = [n \in DOMAIN f |-> f[n]]
    OBVIOUS
  <2>2. {f[n] : n \in DOMAIN f} = IdsOf(NamesOf(type))
    BY DEF IdsOf
  <2>3. IsFiniteSet(NamesOf(type))
    BY <1>1, FS_Subset DEF NamesOf
  <2>4. IsFiniteSet({f[n] : n \in DOMAIN f})
    <3> HIDE DEF f
    <3>1. QED
      BY <2>1, <2>3, ImageIsFinite
  <2>5. QED
    BY <2>2, <2>4
<1>4. QED
  BY <1>2, <1>3 DEF ListedIds

\* What was listed is true.
LEMMA ListedIsTrue ==
  ASSUME IdentityInv, NEW type \in Listed, NEW id \in ListedIds(type), NEW h, NEW t,
         t = Thing(type, <<id>>), h.things[t] = FactsOf(type, id)
  PROVE  ThingIsTrue(directory, touched, h, t)
<1>1. t.type = type /\ Head(t.id) = id
  BY ThingIsTyped, HeadOfOne
<1>2. CASE type = "policy"
  <2>1. id \in DOMAIN directory.policies /\ h.things[t].version = directory.policies[id].version
    BY <1>2 DEF ListedIds, LocalPolicies, FactsOf, Facts
  <2>2. PolicyIsTrue(directory, touched, h, t)
    BY <1>1, <2>1 DEF PolicyIsTrue
  <2>3. QED
    BY <1>1, <1>2, <2>2 DEF ThingIsTrue, Kinds
<1>3. CASE type # "policy"
  <2> DEFINE name == CHOOSE n \in NamesOf(type) : directory.principals[n].id = id
  <2>1. \E n \in NamesOf(type) : directory.principals[n].id = id
    BY <1>3 DEF ListedIds, IdsOf
  <2>2. name \in NamesOf(type) /\ directory.principals[name].id = id
    BY <2>1
  <2>3. h.things[t].name = name
    BY <1>3 DEF FactsOf, Facts
  <2> HIDE DEF name
  <2>4. name \in DOMAIN directory.principals /\ directory.principals[name].kind = type
    BY <2>2 DEF NamesOf
  <2>5. \A n \in DOMAIN directory.principals : directory.principals[n].id = id => n = name
    BY <2>2, <2>4, PrincipalsAreFinite, Zenon
  <2>6. PrincipalIsTrue(directory, touched, h, t)
    BY <1>1, <2>2, <2>3, <2>4, <2>5 DEF PrincipalIsTrue
  <2>7. QED
    BY <1>1, <1>3, <2>6 DEF ThingIsTrue, Listed
<1>4. QED
  BY <1>2, <1>3

LEMMA IdentitiesAreListed ==
  ASSUME IdentityInv, ListIdentities
  PROVE  IdentityInv'
<1> DEFINE Kept(listed) == Discover(listed).kept
           State(listed) == OutcomeState(Discover(listed).errors)
           Found(type, listed) == {Thing(type, <<id>>) : id \in Kept(listed)}
           FactsFor(type, listed) == [t \in Found(type, listed) |-> FactsOf(type, Head(t.id))]
           NewCalls(type, listed) == UNION {Ask(Enrichment(type), t) : t \in Found(type, listed)}
           After(type, listed) == Say(Admitted(graph, FactsFor(type, listed)), type, Everything, State(listed), Kept(listed))
<1>1. PICK type \in Listed : \E task \in Due(type) : \E listed \in Listings(ListedIds(type)) : \E wrong :
        Made(task, After(type, listed), NewCalls(type, listed), wrong)
  BY DEF ListIdentities, Listed, ListedIds
<1>2. PICK task \in Due(type) : \E listed \in Listings(ListedIds(type)) : \E wrong :
        Made(task, After(type, listed), NewCalls(type, listed), wrong)
  BY <1>1
<1>3. PICK listed \in Listings(ListedIds(type)) : \E wrong :
        Made(task, After(type, listed), NewCalls(type, listed), wrong)
  BY <1>2
<1>4. PICK wrong : Made(task, After(type, listed), NewCalls(type, listed), wrong)
  BY <1>3
<1> DEFINE ids == ListedIds(type)
           kept == Kept(listed)
           state == State(listed)
           found == Found(type, listed)
           facts == FactsFor(type, listed)
           calls == NewCalls(type, listed)
           said == Outcome(type, Everything, state, kept)
           h == After(type, listed)
<1>5. /\ task \in tasks /\ TaskFits(graph, task) /\ task.call = type /\ task.of = Current
      /\ IsGraph(graph) /\ GraphFits(graph) /\ TasksFit(graph, tasks)
  BY DueIsWaiting
<1>6. phase = "principals"
  BY DueIsWaiting DEF Listed
<1>7. task.about = Everything /\ task.of = Everything /\ \A x \in DOMAIN graph.things : x.type # type
  BY <1>5 DEF TaskFits
<1>8. IsReadOf(Discover(listed), ids)
  BY <1>3, ListedAreFinite, ListingsAreOf, DiscoverIsRead
<1>9. kept \subseteq ids /\ (state = "PRESENT" => kept = ids) /\ state # "EXPECTED_ABSENCE"
  BY <1>8, StateOfErrors DEF IsReadOf
<1> HIDE DEF Kept, State
<1>10. ASSUME NEW t \in found PROVE t.type = type /\ Head(t.id) \in kept /\ t = Thing(type, <<Head(t.id)>>)
  <2>1. PICK id \in kept : t = Thing(type, <<id>>)
    BY DEF found, kept
  <2>2. t.type = type /\ Head(t.id) = id
    BY <2>1, ThingIsTyped, HeadOfOne
  <2>3. QED
    BY <2>1, <2>2
<1>11. DOMAIN facts = found /\ \A t \in found : facts[t] = FactsOf(type, Head(t.id))
  OBVIOUS
<1>12. IsGrown(graph, h, facts, {}, type, Everything, state, kept)
  <2>1. DOMAIN facts \cap DOMAIN graph.things = {}
    BY <1>7, <1>10, <1>11
  <2>2. IsGraph(Admitted(graph, facts))
    <3> HIDE DEF facts
    <3>1. QED
      BY <1>5, AdmittedFields
  <2>3. h = Say(Relate(Admitted(graph, facts), {}), type, Everything, state, kept)
    BY <2>2, RelateNothing
  <2> HIDE DEF facts, h, state, kept
  <2>4. QED
    BY <1>5, <2>1, <2>3, AdmittedGrows
<1> HIDE DEF found, facts, h, said, state, kept, ids
<1>13. /\ Grows(graph, h) /\ DOMAIN h.things \ DOMAIN graph.things = found
       /\ \A t \in DOMAIN graph.things : h.things[t] = graph.things[t]
       /\ \A t \in found : h.things[t] = FactsOf(type, Head(t.id))
       /\ h.outcomes = Outcomes(graph, h, type, Everything, state, kept)
       /\ h.links = graph.links /\ h.mentions = graph.mentions
  BY <1>11, <1>12 DEF IsGrown
<1>14. /\ said = Outcome(said.kind, said.about, said.state, said.says)
       /\ said.kind = type /\ said.about = Everything /\ said.state = state /\ said.says = kept
  BY DEF Outcome, said
<1>15. \A t \in found : ThingFits(h, t)
  BY <1>10 DEF ThingFits, Listed, ChildKinds
<1>16. \A t \in found : t \notin graph.contested
  BY <1>5, <1>10 DEF GraphFits, ContestFits, ChildKinds, Listed
<1>17. \A t \in found : ThingIsTrue(directory, touched, h, t)
  BY <1>9, <1>10, <1>13, ListedIsTrue DEF ids
<1>18. OutcomeFits(h, said)
  BY <1>9, <1>14 DEF OutcomeFits, Listed
<1>19. state = "PRESENT" => ListingIsTrue(directory, touched, said)
  <2>1. ASSUME state = "PRESENT", type = "policy" PROVE ListingIsTrue(directory, touched, said)
    BY <1>9, <1>14, <2>1 DEF ListingIsTrue, ids, ListedIds, LocalPolicies
  <2>2. ASSUME state = "PRESENT", type # "policy" PROVE ListingIsTrue(directory, touched, said)
    BY <1>9, <1>14, <2>2 DEF ListingIsTrue, ids, ListedIds, IdsOf, NamesOf
  <2>3. QED
    BY <2>1, <2>2
<1>20. SourceIsTrue(directory, touched, h, said)
  <2>1. \A id \in kept : Thing(type, <<id>>) \in DOMAIN h.things
    BY <1>13 DEF found, kept
  <2>2. QED
    BY <1>14, <1>19, <2>1 DEF SourceIsTrue, Listed, OfPrincipals
<1>21. KindOf(type) = type
  BY DEF KindOf, Listed
<1>22. \A u \in calls : \E t \in found : \E c \in Enrichment(type) : u = Task(c, t, t, Facts)
  BY DEF Ask, found
<1>23. \A t \in found : \A c \in Enrichment(type) : Task(c, t, t, Facts) \in calls
  BY DEF Ask, found
<1>24. \A c, t : LET u == Task(c, t, t, Facts) IN
         u.call = c /\ u.about = t /\ u.of = t /\ u.facts = Facts /\ u = Task(u.call, u.about, u.of, u.facts)
  BY DEF Task
<1> HIDE DEF calls
<1>25. ASSUME NEW u \in calls PROVE TaskFits(h, u)
  <2>1. PICK t \in found : \E c \in Enrichment(type) : u = Task(c, t, t, Facts)
    BY <1>22
  <2>2. PICK c \in Enrichment(type) : u = Task(c, t, t, Facts)
    BY <2>1
  <2>3. u.call = c /\ u.about = t /\ u.of = t /\ u.facts = Facts /\ u = Task(u.call, u.about, u.of, u.facts)
    BY <1>24, <2>2
  <2>4. type \in Kinds /\ c \in OfPrincipals \cup {"tags", "members"} /\ (c \in ChildKinds => type = "user")
    BY EnrichmentFits
  <2>5. t \notin DOMAIN graph.things /\ t \in DOMAIN h.things /\ t.type = type
    BY <1>10, <1>13
  <2>6. t # Everything
    BY <2>5 DEF Everything, Thing, Listed
  <2>7. Unsaid(graph, c, t)
    BY <1>5, <2>5, <2>6, NothingSaidOfOthers
  <2>8. Unsaid(h, c, t)
    <3>1. \A o \in h.outcomes : o \in graph.outcomes \/ o.kind = "identity" \/ o.about = Everything
      BY <1>13 DEF Outcomes, Outcome
    <3>2. c # "identity"
      BY <2>4 DEF OfPrincipals
    <3>3. QED
      BY <2>6, <2>7, <3>1, <3>2 DEF Unsaid
  <2>9. AreFacts(Facts)
    BY DEF AreFacts, Facts
  <2>10. KindOf(c) = c
    BY <2>4 DEF KindOf, OfPrincipals
  <2>11. c \in OfPrincipals \cup {"tags", "members", "metadata"} /\ c \in Calls /\ c \notin {"summary"} \cup Listed
         /\ c \notin {"usage", "document", "version", "metadata"}
    BY <2>4 DEF OfPrincipals, Calls, Listed
  <2>12. QED
    BY <2>3, <2>4, <2>5, <2>8, <2>9, <2>10, <2>11 DEF TaskFits, Kinds
<1>26. \A u \in calls : u.call \in OfPrincipals \cup {"tags", "members"} /\ u.about \in found
  BY <1>22, <1>24, EnrichmentFits
<1>27. AreNewCalls(calls, task, h)
  <2>1. \A u \in calls : TaskIsTrue(directory, touched, u)
    BY <1>26 DEF TaskIsTrue, OfPrincipals
  <2>2. OneTaskEach(calls)
    BY <1>22, <1>24 DEF OneTaskEach
  <2>3. ASSUME NEW t \in tasks, NEW u \in calls, t.call = u.call, t.about = u.about PROVE FALSE
    <3>1. TaskFits(graph, t)
      BY <1>5 DEF TasksFit
    <3>2. t.about \in DOMAIN graph.things
      BY <1>26, <2>3, <3>1 DEF TaskFits
    <3>3. QED
      BY <1>13, <1>26, <2>3, <3>2
  <2>4. \A t \in tasks \cup calls : t.call # "usage"
    <3>1. ASSUME NEW t \in tasks, t.call = "usage" PROVE FALSE
      <4>1. t.of = Everything
        BY <1>5, <1>7, <3>1 DEF IdentityInv, UsageIsNext
      <4>2. t.of = TheUser(t.facts.owner)
        BY <1>5, <3>1 DEF TasksFit, TaskFits, UsageFits
      <4>3. TheUser(t.facts.owner).type = "user" /\ Everything.type = "account"
        BY ThingIsTyped DEF TheUser, Everything
      <4>4. QED
        BY <4>1, <4>2, <4>3
    <3>2. QED
      BY <1>26, <3>1 DEF OfPrincipals
  <2>5. \A u \in calls : u.call \notin {"metadata", "version"}
    BY <1>26 DEF OfPrincipals
  <2>6. QED
    BY <1>6, <1>25, <2>1, <2>2, <2>3, <2>4, <2>5 DEF AreNewCalls
<1>28. \A t \in DOMAIN h.things \ DOMAIN graph.things :
         /\ ThingFits(h, t) /\ t \notin graph.contested
         /\ t.type \in Listed => t.type = type
         /\ t.type \in {"key", "inline"} => t = task.about
         /\ t.type = "user" => \E u \in calls : u.call = "device" /\ u.about = t
  <2>1. ASSUME NEW t \in found, t.type = "user" PROVE \E u \in calls : u.call = "device" /\ u.about = t
    <3>1. Task("device", t, t, Facts) \in calls
      BY <1>10, <1>23, <2>1, EnrichmentFits
    <3>2. QED
      BY <1>24, <3>1
  <2>2. \A t \in found : t.type \notin {"key", "inline"} /\ t.type = type
    BY <1>10 DEF Listed
  <2>3. QED
    BY <1>13, <1>15, <1>16, <2>1, <2>2
<1>29. \A t \in DOMAIN h.things :
         t \notin DOMAIN graph.things \/ h.things[t] # graph.things[t] => ThingIsTrue(directory, touched, h, t)
  BY <1>13, <1>17
<1>30. /\ \A l \in h.links \ graph.links : LinkFits(h, l)
       /\ \A m \in h.mentions \ graph.mentions : MentionFits(h, m)
  BY <1>13
<1>31. /\ h.outcomes = Outcomes(graph, h, KindOf(type), task.about, state, kept)
       /\ OutcomeFits(h, Outcome(KindOf(type), task.about, state, kept))
       /\ SourceIsTrue(directory, touched, h, Outcome(KindOf(type), task.about, state, kept))
  BY <1>7, <1>13, <1>18, <1>20, <1>21 DEF said
<1>32. Made(task, h, calls, wrong)
  BY <1>4 DEF h, calls
<1>33. QED
  BY <1>2, <1>13, <1>27, <1>28, <1>29, <1>30, <1>31, <1>32, CallGrows


-----------------------------------------------------------------------------
(* Identities: managed policies                                                 *)

\* The resource is identified, and nothing else is said of it.
LEMMA IdentityFits ==
  ASSUME NEW d, NEW c, NEW h, NEW t \in DOMAIN h.things
  PROVE  LET o == Outcome("identity", t, "PRESENT", {}) IN
         /\ o.kind = "identity" /\ o.about = t /\ OutcomeFits(h, o) /\ SourceIsTrue(d, c, h, o)
<1> DEFINE o == Outcome("identity", t, "PRESENT", {})
<1>1. o = Outcome(o.kind, o.about, o.state, o.says) /\ o.kind = "identity" /\ o.about = t /\ o.state = "PRESENT"
  BY DEF Outcome
<1> HIDE DEF o
<1>2. OutcomeFits(h, o)
  BY <1>1 DEF OutcomeFits
<1>3. SourceIsTrue(d, c, h, o)
  BY <1>1 DEF SourceIsTrue, Listed, OfPrincipals
<1>4. QED
  BY <1>1, <1>2, <1>3 DEF o

LEMMA PoliciesAreMaterialized ==
  ASSUME IdentityInv, MaterializePolicies
  PROVE  IdentityInv'
<1> DEFINE mentioned == {Thing("policy", <<m.arn>>) : m \in graph.mentions}
           By(m) == IF m.type = "boundary" THEN "profile" ELSE "attached"
           whole == {m \in graph.mentions : m.by = "PRESENT"}
           facts == [t \in mentioned \ Things |-> Facts]
           links == {Relation(m.type, m.owner, Thing("policy", <<m.arn>>), By(m), m.owner) : m \in whole}
           calls == UNION {Ask({"metadata"}, t) : t \in mentioned \cup OfType("policy")}
           a == Admitted(graph, facts)
           h == Relate(a, links)
           Identified(t) == Outcome("identity", t, "PRESENT", {})
<1>1. /\ phase = "principals" /\ tasks = {} /\ phase' = "policies"
      /\ graph' = h /\ tasks' = calls /\ directory' = directory /\ touched' = touched
  BY DEF MaterializePolicies
<1>2. /\ GraphStands(directory, touched, graph) /\ GraphFits(graph) /\ IsGraph(graph)
      /\ PhaseFits(phase, graph, tasks) /\ NothingIsForgotten(graph, tasks) /\ IdentityTypes
  BY DEF IdentityInv, GraphStands, GraphFits
<1>3. DOMAIN facts = mentioned \ Things /\ \A t \in mentioned \ Things : facts[t] = Facts
  OBVIOUS
<1> HIDE DEF facts, links
<1>4. /\ IsGraph(a) /\ DOMAIN a.things = DOMAIN graph.things \cup DOMAIN facts
      /\ \A t \in DOMAIN facts : a.things[t] = facts[t]
      /\ \A t \in DOMAIN graph.things : t \notin DOMAIN facts => a.things[t] = graph.things[t]
      /\ a.outcomes = graph.outcomes \cup {Identified(t) : t \in DOMAIN facts}
      /\ a.links = graph.links /\ a.mentions = graph.mentions /\ a.contested = graph.contested
  BY <1>2, AdmittedFields
<1> HIDE DEF a
<1>5. /\ IsGraph(h) /\ h.links = a.links \cup links
      /\ h.things = a.things /\ h.outcomes = a.outcomes /\ h.mentions = a.mentions /\ h.contested = a.contested
  BY <1>4, RelateFields
<1> HIDE DEF h, mentioned
<1>6. /\ DOMAIN h.things \ DOMAIN graph.things = mentioned \ Things /\ DOMAIN graph.things \subseteq DOMAIN h.things
      /\ \A t \in DOMAIN graph.things : h.things[t] = graph.things[t]
      /\ \A t \in mentioned \ Things : h.things[t] = Facts
      /\ h.outcomes = graph.outcomes \cup {Identified(t) : t \in mentioned \ Things}
      /\ h.links = graph.links \cup links /\ h.mentions = graph.mentions
  BY <1>3, <1>4, <1>5 DEF Things
<1>7. Grows(graph, h)
  BY <1>4, <1>5, <1>6 DEF Grows
<1>8. ASSUME NEW t \in mentioned PROVE t.type = "policy" /\ t = Thing("policy", <<Head(t.id)>>)
  <2>1. PICK m \in graph.mentions : t = Thing("policy", <<m.arn>>)
    BY DEF mentioned
  <2>2. t.type = "policy" /\ Head(t.id) = m.arn
    BY <2>1, ThingIsTyped, HeadOfOne
  <2>3. QED
    BY <2>1, <2>2
<1>9. \A t \in mentioned \ Things : Identified(t) \in h.outcomes
  BY <1>6
<1>10. \A t : Identified(t).kind = "identity" /\ Identified(t).about = t
  BY DEF Outcome
<1>11. \A t \in mentioned \ Things : OutcomeFits(h, Identified(t)) /\ SourceIsTrue(directory, touched, h, Identified(t))
  BY <1>6, IdentityFits
<1> HIDE DEF Identified
<1>12. \A t \in mentioned \ Things : ThingFits(h, t) /\ t \notin graph.contested /\ ThingIsTrue(directory, touched, h, t)
  <2>1. ASSUME NEW t \in mentioned \ Things PROVE ThingFits(h, t) /\ t \notin graph.contested
    BY <1>2, <1>8 DEF ThingFits, Listed, ChildKinds, GraphFits, ContestFits
  <2>2. ASSUME NEW t \in mentioned \ Things PROVE ThingIsTrue(directory, touched, h, t)
    <3>1. h.things[t].version = NoValue
      BY <1>6 DEF Facts
    <3>2. QED
      BY <1>8, <3>1 DEF ThingIsTrue, PolicyIsTrue, Kinds
  <2>3. QED
    BY <2>1, <2>2
<1>13. ASSUME NEW o \in h.outcomes \ graph.outcomes
       PROVE  /\ o.kind = "identity" /\ OutcomeFits(h, o) /\ SourceIsTrue(directory, touched, h, o)
              /\ \A p \in h.outcomes : p.kind = o.kind /\ p.about = o.about => p = o
  <2>1. PICK t \in mentioned \ Things : o = Identified(t)
    BY <1>6
  <2>2. \A p \in graph.outcomes : p.about \in DOMAIN graph.things \cup {Everything}
    BY <1>2 DEF GraphFits, OutcomeFits
  <2>3. t # Everything
    BY <1>8 DEF Everything, Thing
  <2>4. \A p \in graph.outcomes : p.about # t
    BY <2>2, <2>3 DEF Things
  <2>5. QED
    BY <1>6, <1>10, <1>11, <2>1, <2>4
<1>14. ASSUME NEW l \in h.links \ graph.links PROVE LinkFits(h, l)
  <2>1. PICK m \in whole : l = Relation(m.type, m.owner, Thing("policy", <<m.arn>>), By(m), m.owner)
    BY <1>6 DEF links
  <2>2. /\ l.type = m.type /\ l.source = m.owner /\ l.target = Thing("policy", <<m.arn>>)
        /\ l.by.kind = By(m) /\ l.by.about = m.owner
    BY <2>1 DEF Relation
  <2>3. /\ m.owner \in DOMAIN graph.things /\ m.type \in {"boundary", "attached"}
        /\ Said(graph, By(m), m.owner, {"PRESENT"})
    BY <1>2, <2>1 DEF GraphFits, MentionFits
  <2>4. Said(h, By(m), m.owner, {"PRESENT"})
    BY <1>7, <2>3, SaidStays DEF Grows
  <2>5. l.target \in DOMAIN h.things
    BY <1>6, <2>2 DEF mentioned, Things
  <2>6. By(m) \notin ChildKinds /\ l.type \notin ChildKinds
    BY <2>2, <2>3 DEF ChildKinds
  <2>7. QED
    BY <1>6, <2>2, <2>3, <2>4, <2>5, <2>6 DEF LinkFits
<1>15. GraphStands(directory, touched, h)
  <2>1. \A t \in DOMAIN h.things \ DOMAIN graph.things :
           ThingFits(h, t) /\ t \notin graph.contested /\ Outcome("identity", t, "PRESENT", {}) \in h.outcomes
    BY <1>6, <1>9, <1>12 DEF Identified
  <2>2. \A t \in DOMAIN h.things :
          t \notin DOMAIN graph.things \/ h.things[t] # graph.things[t] => ThingIsTrue(directory, touched, h, t)
    BY <1>6, <1>12
  <2>3. \A m \in h.mentions \ graph.mentions : MentionFits(h, m)
    BY <1>6
  <2>4. QED
    BY <1>2, <1>7, <1>13, <1>14, <2>1, <2>2, <2>3, GraphGrows
<1>16. ASSUME NEW u \in calls
       PROVE  /\ u.call = "metadata" /\ u.about.type = "policy" /\ u.of = u.about /\ u.about \in DOMAIN h.things
              /\ u = Task("metadata", u.about, u.about, Facts)
  <2>1. PICK t \in mentioned \cup OfType("policy") : u \in Ask({"metadata"}, t)
    OBVIOUS
  <2>2. u = Task("metadata", t, t, Facts)
    BY <2>1 DEF Ask
  <2>3. u.call = "metadata" /\ u.about = t /\ u.of = t
    BY <2>2 DEF Task
  <2>4. t.type = "policy" /\ t \in DOMAIN h.things
    BY <1>6, <1>8 DEF OfType, Things
  <2>5. QED
    BY <2>2, <2>3, <2>4
<1> HIDE DEF calls
<1>17. \A o \in h.outcomes : o.kind # "metadata"
  BY <1>1, <1>2, <1>13 DEF PhaseFits
<1>18. ASSUME NEW u \in calls PROVE TaskFits(h, u)
  <2>1. Unsaid(h, "metadata", u.about)
    BY <1>17 DEF Unsaid
  <2>2. u = Task(u.call, u.about, u.of, u.facts) /\ u.facts = Facts
    BY <1>16 DEF Task
  <2>3. AreFacts(u.facts)
    BY <2>2 DEF AreFacts, Facts
  <2>4. QED
    BY <1>16, <2>1, <2>2, <2>3 DEF TaskFits, KindOf, Calls, Listed, OfPrincipals, ChildKinds
<1>19. TasksFit(h, calls)
  <2>1. OneTaskEach(calls)
    BY <1>16, Zenon DEF OneTaskEach
  <2>2. QED
    BY <1>18, <2>1 DEF TasksFit
<1>20. PhaseFits("policies", h, calls)
  BY <1>16 DEF PhaseFits
<1>21. NothingIsForgotten(h, calls)
  <2>1. \A kind, about : ~Unsaid(graph, kind, about) => ~Unsaid(h, kind, about)
    BY <1>7, SaidStays DEF Grows
  <2>2. \A t \in DOMAIN h.things : t.type = "user" => t \in DOMAIN graph.things
    BY <1>6, <1>8
  <2>3. QED
    BY <1>1, <1>2, <2>1, <2>2 DEF NothingIsForgotten
<1>22. \A u \in calls : u.call # "usage"
  BY <1>16
<1>23. /\ IdentityTypes' /\ GraphStands(directory, touched, graph)'
       /\ TasksFit(graph, tasks)' /\ PhaseFits(phase, graph, tasks)' /\ NothingIsForgotten(graph, tasks)'
       /\ (\A t \in tasks : TaskIsTrue(directory, touched, t))' /\ UsageIsNext'
  <2>1. IdentityTypes'
    BY <1>1, <1>2 DEF IdentityTypes
  <2>2. GraphStands(directory, touched, graph)' /\ TasksFit(graph, tasks)'
    BY <1>1, <1>15, <1>19
  <2>3. PhaseFits(phase, graph, tasks)' /\ NothingIsForgotten(graph, tasks)'
    BY <1>1, <1>20, <1>21
  <2>4. (\A t \in tasks : TaskIsTrue(directory, touched, t))' /\ UsageIsNext'
    BY <1>1, <1>22 DEF TaskIsTrue, UsageIsNext
  <2>5. QED
    BY <2>1, <2>2, <2>3, <2>4
<1>24. QED
  BY <1>23 DEF IdentityInv

\* A policy that is read is asked for its tags, and its version for its document.
LEMMA PolicyCallsAreNew ==
  ASSUME IdentityInv, NEW task \in Due("metadata"), NEW h, Grows(graph, h), ~Unsaid(h, "metadata", task.about),
         \A o \in h.outcomes \ graph.outcomes : o.kind \in {"identity", "metadata"},
         NEW calls,
         \A u \in calls :
           \/ u = Task("tags", task.about, task.about, Facts)
           \/ \E v \in DOMAIN h.things \ DOMAIN graph.things :
                v.type = "version" /\ ThePolicy(Head(v.id)) = task.about /\ u = Task("version", v, task.about, Facts)
  PROVE  AreNewCalls(calls, task, h)
<1> DEFINE policy == task.about
<1>1. /\ task \in tasks /\ TasksFit(graph, tasks) /\ GraphFits(graph) /\ phase = "policies"
      /\ policy \in DOMAIN graph.things /\ policy.type = "policy" /\ task.of = policy
      /\ Unsaid(graph, "metadata", policy)
  BY DueIsWaiting DEF TaskFits, KindOf
<1>2. policy \in DOMAIN h.things
  BY <1>1 DEF Grows
<1>3. \A o \in graph.outcomes : o.about \in DOMAIN graph.things \cup {Everything} /\ ~(o.kind = "tags" /\ o.about = policy)
  BY <1>1 DEF GraphFits, OutcomeFits
<1>4. Unsaid(h, "tags", policy)
  BY <1>3 DEF Unsaid
<1>5. \A v \in DOMAIN h.things \ DOMAIN graph.things : v.type = "version" => Unsaid(h, "document", v)
  <2>1. Everything.type = "account"
    BY ThingIsTyped DEF Everything
  <2>2. QED
    BY <1>3, <2>1 DEF Unsaid
<1>6. ASSUME NEW u \in calls
      PROVE  /\ u = Task(u.call, u.about, u.of, u.facts) /\ u.facts = Facts /\ u.of = policy
             /\ \/ u.call = "tags" /\ u.about = policy
                \/ /\ u.call = "version" /\ u.about \in DOMAIN h.things \ DOMAIN graph.things
                   /\ u.about.type = "version" /\ ThePolicy(Head(u.about.id)) = policy
  <2>1. CASE u = Task("tags", policy, policy, Facts)
    BY <2>1 DEF Task
  <2>2. ASSUME NEW v \in DOMAIN h.things \ DOMAIN graph.things, v.type = "version", ThePolicy(Head(v.id)) = policy,
               u = Task("version", v, policy, Facts)
        PROVE  /\ u = Task(u.call, u.about, u.of, u.facts) /\ u.facts = Facts /\ u.of = policy
               /\ u.call = "version" /\ u.about = v
    BY <2>2 DEF Task
  <2>3. QED
    BY <2>1, <2>2
<1>7. AreFacts(Facts)
  BY DEF AreFacts, Facts
<1>8. ASSUME NEW u \in calls PROVE TaskFits(h, u) /\ TaskIsTrue(directory, touched, u)
  <2>1. CASE u.call = "tags"
    BY <1>1, <1>2, <1>4, <1>6, <1>7, <2>1
       DEF TaskFits, TaskIsTrue, KindOf, Calls, Listed, OfPrincipals, ChildKinds
  <2>2. CASE u.call = "version"
    BY <1>5, <1>6, <1>7, <2>2 DEF TaskFits, TaskIsTrue, KindOf, Calls, Listed, OfPrincipals, ChildKinds
  <2>3. QED
    BY <1>6, <2>1, <2>2
<1>9. OneTaskEach(calls)
  <2>1. \A u, t \in calls : u.call = t.call /\ u.about = t.about =>
          Task(u.call, u.about, u.of, u.facts) = Task(t.call, t.about, t.of, t.facts)
    BY <1>6
  <2>2. QED
    BY <1>6, <2>1, Zenon DEF OneTaskEach
<1>10. ASSUME NEW t \in tasks, NEW u \in calls, t.call = u.call, t.about = u.about PROVE FALSE
  <2>1. TaskFits(graph, t)
    BY <1>1 DEF TasksFit
  <2>2. t.call = "tags" /\ t.about.type = "policy" => ~Unsaid(graph, "metadata", t.about)
    BY <2>1 DEF TaskFits
  <2>3. t.call = "version" => t.about \in DOMAIN graph.things
    BY <2>1 DEF TaskFits
  <2>4. QED
    BY <1>1, <1>6, <1>10, <2>2, <2>3
<1>11. \A u \in calls : u.call \in {"metadata", "tags", "version"} /\ u.of.type = "policy" /\ u.of = task.of
  BY <1>1, <1>6
<1>12. QED
  BY <1>1, <1>8, <1>9, <1>10, <1>11 DEF AreNewCalls

LEMMA PolicyMetadataIsRead ==
  ASSUME IdentityInv, ReadPolicyMetadata
  PROVE  IdentityInv'
<1> DEFINE Arn(task) == Head(task.about.id)
           Tags(task) == IF Arn(task) \in AwsManaged THEN {} ELSE Ask({"tags"}, task.about)
           Default(task) == directory.policies[Arn(task)].version
           Version(task) == VersionOf(Arn(task), Default(task))
           Read(task) == Put(Say(graph, "metadata", task.about, "PRESENT", {Default(task)}),
                             [p \in {task.about} |-> [Facts EXCEPT !.version = Default(task)]])
           After(task) == Relate(Admitted(Read(task), [v \in {Version(task)} |-> Facts]),
                                 {Relation("default", task.about, Version(task), "metadata", task.about)})
           Calls0(task) == Tags(task) \cup {Task("version", Version(task), task.about, Facts)}
<1>1. PICK task \in Due("metadata") :
        \/ Exists(task.about) /\ Made(task, After(task), Calls0(task), FALSE)
        \/ \E errors \in (IF Exists(task.about) THEN Errors \ {{}} ELSE {{"denied"}}) :
             Made(task, Say(graph, "metadata", task.about, OutcomeState(errors), {}), Tags(task), Exists(task.about))
  BY DEF ReadPolicyMetadata
<1> DEFINE policy == task.about
           version == Version(task)
           current == Default(task)
           said == Outcome("metadata", policy, "PRESENT", {current})
<1>2. /\ task \in tasks /\ TaskFits(graph, task) /\ TasksFit(graph, tasks) /\ GraphFits(graph) /\ IsGraph(graph)
      /\ phase = "policies" /\ directory \in Directories
      /\ policy \in DOMAIN graph.things /\ policy.type = "policy" /\ task.of = policy
      /\ Unsaid(graph, "metadata", policy)
  BY DueIsWaiting DEF TaskFits, KindOf
<1>3. policy = ThePolicy(Arn(task))
  BY <1>2 DEF GraphFits, ThingFits, Listed, ThePolicy
<1>4. KindOf("metadata") = "metadata"
  BY DEF KindOf
<1>5. \A u \in Tags(task) : u = Task("tags", policy, policy, Facts)
  BY DEF Ask
<1> HIDE DEF Tags
<1>6. ASSUME NEW errors, errors # {},
             Made(task, Say(graph, "metadata", policy, OutcomeState(errors), {}), Tags(task), Exists(policy))
      PROVE  IdentityInv'
  <2> DEFINE state == OutcomeState(errors)
             o == Outcome("metadata", policy, state, {})
             h == Say(graph, "metadata", policy, state, {})
  <2>1. state \notin {"PRESENT", "EXPECTED_ABSENCE"}
    BY <1>6, StateOfErrors
  <2>2. o.kind = "metadata" /\ o.about = policy
    BY DEF Outcome
  <2>3. /\ IsGraph(h) /\ h.outcomes = graph.outcomes \cup {o}
        /\ h.things = graph.things /\ h.links = graph.links /\ h.mentions = graph.mentions /\ h.contested = graph.contested
    BY <1>2, SayFields
  <2> HIDE DEF o, h, state
  <2>4. Grows(graph, h)
    BY <2>3 DEF Grows
  <2>5. SourceIsTrue(directory, touched, graph, o)
    BY <2>2 DEF SourceIsTrue, Listed, OfPrincipals
  <2>6. ~Unsaid(h, "metadata", policy)
    BY <2>2, <2>3 DEF Unsaid
  <2>7. AreNewCalls(Tags(task), task, h)
    BY <1>5, <2>2, <2>3, <2>4, <2>6, PolicyCallsAreNew
  <2>8. /\ Made(task, Say(graph, KindOf("metadata"), task.about, state, {}), Tags(task), Exists(policy))
        /\ SourceIsTrue(directory, touched, graph, Outcome(KindOf("metadata"), task.about, state, {}))
        /\ AreNewCalls(Tags(task), task, Say(graph, KindOf("metadata"), task.about, state, {}))
    BY <1>4, <1>6, <2>5, <2>7 DEF state, o, h
  <2>9. QED
    BY <1>2, <2>1, <2>8, CallOnlySays
<1>7. ASSUME Exists(policy), Made(task, After(task), Calls0(task), FALSE)
      PROVE  IdentityInv'
  <2> DEFINE s == Say(graph, "metadata", policy, "PRESENT", {current})
             pf == [p \in {policy} |-> [Facts EXCEPT !.version = current]]
             vf == [v \in {version} |-> Facts]
             link == Relation("default", policy, version, "metadata", policy)
             p1 == Put(s, pf)
             a == Admitted(p1, vf)
             h == Relate(a, {link})
             calls == Calls0(task)
  <2>1. Made(task, h, calls, FALSE)
    BY <1>7
  <2>2. Arn(task) \in DOMAIN directory.policies /\ current # NoValue
    BY <1>2, <1>7, DirectoriesAssumption DEF Exists
  <2>3. /\ version.type = "version" /\ Head(version.id) = Arn(task) /\ version.id[1] = Arn(task)
        /\ version.id[2] = current /\ version = VersionOf(Arn(task), current)
    BY ThingIsTyped, HeadOfTwo DEF VersionOf
  <2>4. DOMAIN pf = {policy} /\ pf[policy].version = current /\ DOMAIN vf = {version} /\ vf[version] = Facts
    BY DEF Facts
  <2>5. /\ link.type = "default" /\ link.source = policy /\ link.target = version
        /\ link.by.kind = "metadata" /\ link.by.about = policy
    BY DEF Relation
  <2>6. said = Outcome(said.kind, said.about, said.state, said.says)
        /\ said.kind = "metadata" /\ said.about = policy /\ said.state = "PRESENT"
    BY DEF Outcome
  <2> HIDE DEF Version, Default, Arn, pf, vf, link
  <2>7. /\ IsGraph(s) /\ s.outcomes = graph.outcomes \cup {said}
        /\ s.things = graph.things /\ s.links = graph.links /\ s.mentions = graph.mentions /\ s.contested = graph.contested
    BY <1>2, SayFields
  <2> HIDE DEF said, s
  <2>8. /\ IsGraph(p1) /\ DOMAIN p1.things = DOMAIN s.things \cup DOMAIN pf
        /\ \A t \in DOMAIN pf : p1.things[t] = pf[t]
        /\ \A t \in DOMAIN s.things : t \notin DOMAIN pf => p1.things[t] = s.things[t]
        /\ p1.outcomes = s.outcomes /\ p1.links = s.links
        /\ p1.mentions = s.mentions /\ p1.contested = s.contested
    BY <2>7, PutFields
  <2> HIDE DEF p1
  <2>9. /\ IsGraph(a) /\ DOMAIN a.things = DOMAIN p1.things \cup DOMAIN vf
        /\ \A t \in DOMAIN vf : a.things[t] = vf[t]
        /\ \A t \in DOMAIN p1.things : t \notin DOMAIN vf => a.things[t] = p1.things[t]
        /\ a.outcomes = p1.outcomes \cup {Outcome("identity", t, "PRESENT", {}) : t \in DOMAIN vf}
        /\ a.links = p1.links /\ a.mentions = p1.mentions /\ a.contested = p1.contested
    BY <2>8, AdmittedFields
  <2> HIDE DEF a
  <2>10. /\ IsGraph(h) /\ h.links = a.links \cup {link}
         /\ h.things = a.things /\ h.outcomes = a.outcomes /\ h.mentions = a.mentions /\ h.contested = a.contested
    BY <2>9, RelateFields
  <2> HIDE DEF h
  <2>11. version \notin DOMAIN graph.things
    <3>1. ~ThingFits(graph, version)
      BY <1>2, <1>3, <2>3 DEF ThingFits
    <3>2. QED
      BY <1>2, <3>1 DEF GraphFits
  <2>12. /\ DOMAIN h.things \ DOMAIN graph.things = {version} /\ DOMAIN graph.things \subseteq DOMAIN h.things
         /\ version # policy /\ h.things[policy].version = current
         /\ \A t \in DOMAIN graph.things : t # policy => h.things[t] = graph.things[t]
    BY <1>2, <2>3, <2>4, <2>7, <2>8, <2>9, <2>10, <2>11
  <2>13. h.outcomes = graph.outcomes \cup {said} \cup {Outcome("identity", t, "PRESENT", {}) : t \in {version}}
    BY <2>4, <2>7, <2>8, <2>9, <2>10
  <2>14. h.outcomes = Outcomes(graph, h, "metadata", policy, "PRESENT", {current})
    BY <2>12, <2>13 DEF Outcomes, said
  <2>15. h.links = graph.links \cup {link} /\ h.mentions = graph.mentions /\ h.contested = graph.contested
    BY <2>7, <2>8, <2>9, <2>10
  <2>16. Grows(graph, h)
    BY <1>2, <2>10, <2>12, <2>13, <2>15 DEF Grows
  <2>17. said \in h.outcomes /\ ~Unsaid(h, "metadata", policy) /\ Said(h, "metadata", policy, {"PRESENT"})
    BY <2>6, <2>13 DEF Unsaid, Said
  <2>18. ThingFits(h, version) /\ version \notin graph.contested
    BY <1>2, <1>3, <2>2, <2>3, <2>17 DEF ThingFits, Listed, ChildKinds, GraphFits, ContestFits
  <2>19. ThingIsTrue(directory, touched, h, version)
    BY <2>3 DEF ThingIsTrue, Kinds
  <2>20. ThingIsTrue(directory, touched, h, policy)
    <3>1. PolicyIsTrue(directory, touched, h, policy)
      BY <2>2, <2>12 DEF PolicyIsTrue, Default, Arn
    <3>2. QED
      BY <1>2, <3>1 DEF ThingIsTrue, Kinds
  <2>21. OutcomeFits(h, said)
    BY <1>2, <2>6, <2>12 DEF OutcomeFits
  <2>22. SourceIsTrue(directory, touched, h, said)
    BY <2>6 DEF SourceIsTrue, Listed, OfPrincipals
  <2>23. \A l \in h.links \ graph.links : LinkFits(h, l)
    <3>1. LinkFits(h, link)
      BY <1>2, <2>5, <2>12, <2>17 DEF LinkFits, ChildKinds
    <3>2. QED
      BY <2>15, <3>1
  <2>24. AreNewCalls(calls, task, h)
    <3>1. \A o \in h.outcomes \ graph.outcomes : o.kind \in {"identity", "metadata"}
      BY <2>6, <2>13 DEF Outcome
    <3>2. ASSUME NEW u \in calls
          PROVE  \/ u = Task("tags", policy, policy, Facts)
                 \/ \E v \in DOMAIN h.things \ DOMAIN graph.things :
                      v.type = "version" /\ ThePolicy(Head(v.id)) = policy /\ u = Task("version", v, policy, Facts)
      BY <1>3, <1>5, <2>3, <2>12
    <3> HIDE DEF calls
    <3>3. QED
      BY <2>16, <2>17, <3>1, <3>2, PolicyCallsAreNew
  <2>25. \A t \in DOMAIN h.things \ DOMAIN graph.things :
           /\ ThingFits(h, t) /\ t \notin graph.contested
           /\ t.type \in Listed => t.type = "metadata"
           /\ t.type \in {"key", "inline"} => t = task.about
           /\ t.type = "user" => \E u \in calls : u.call = "device" /\ u.about = t
    BY <2>3, <2>12, <2>18 DEF Listed
  <2>26. \A t \in DOMAIN h.things :
           t \notin DOMAIN graph.things \/ h.things[t] # graph.things[t] => ThingIsTrue(directory, touched, h, t)
    BY <2>12, <2>19, <2>20
  <2>27. \A m \in h.mentions \ graph.mentions : MentionFits(h, m)
    BY <2>15
  <2>28. /\ h.outcomes = Outcomes(graph, h, KindOf("metadata"), task.about, "PRESENT", {current})
         /\ OutcomeFits(h, Outcome(KindOf("metadata"), task.about, "PRESENT", {current}))
         /\ SourceIsTrue(directory, touched, h, Outcome(KindOf("metadata"), task.about, "PRESENT", {current}))
    BY <1>4, <2>14, <2>21, <2>22 DEF said
  <2> HIDE DEF calls
  <2>29. QED
    BY <2>1, <2>16, <2>23, <2>24, <2>25, <2>26, <2>27, <2>28, CallGrows
<1>8. QED
  <2>1. \A errors \in (IF Exists(policy) THEN Errors \ {{}} ELSE {{"denied"}}) : errors # {}
    OBVIOUS
  <2> HIDE DEF After, Calls0
  <2>2. QED
    BY <1>1, <1>6, <1>7, <2>1

-----------------------------------------------------------------------------
(* Identities: devices and keys that two users have                               *)

\* The graph h has a new source, and lost resources that are contested now: so are
\* the sources of the users they were seen with.
IsContested(g, h, gone, said) ==
  /\ IsGraph(h) /\ Unique(h)
  /\ gone \subseteq DOMAIN g.things /\ \A c \in gone : c.type = said.kind
  /\ DOMAIN h.things = DOMAIN g.things \ gone /\ \A t \in DOMAIN h.things : h.things[t] = g.things[t]
  /\ said \in h.outcomes
  /\ \A o \in h.outcomes :
       o = said \/ \E p \in g.outcomes :
                     /\ o.kind = p.kind /\ o.about = p.about /\ p.about \notin gone
                     /\ \/ o = p
                        \/ o.kind = said.kind /\ o.state = "CONFLICT" /\ o = Outcome(o.kind, o.about, o.state, o.says)
  /\ \A p \in g.outcomes :
       p.about \notin gone =>
         \E o \in h.outcomes :
           /\ o.kind = p.kind /\ o.about = p.about
           /\ o = p \/ (/\ o.kind = said.kind /\ o.state = "CONFLICT"
                        /\ \A id \in p.says : Thing(said.kind, <<id>>) \notin gone => id \in o.says)
  /\ \A c \in gone : Said(h, said.kind, TheUser(g.things[c].owner), {"CONFLICT"})
  /\ \A l \in h.links : l \in g.links /\ l.source \notin gone /\ l.target \notin gone
  /\ h.mentions = g.mentions /\ h.contested = g.contested \cup gone

LEMMA ContestIs ==
  ASSUME GraphFits(graph), NEW kind \in ChildKinds, NEW gone \in SUBSET Things, \A c \in gone : c.type = kind,
         NEW user \in Things, user.type = "user", Unsaid(graph, kind, user), NEW state, NEW says
  PROVE  IsContested(graph, Say(Contest(kind, gone), kind, user, state, says), gone, Outcome(kind, user, state, says))
<1> DEFINE users == {UserOf(c) : c \in gone}
           said == {o \in graph.outcomes : o.kind = kind /\ o.about \in users}
           Left(o) == o.says \ Ids({c \in gone : UserOf(c) = o.about})
           Refused(o) == Outcome(kind, o.about, "CONFLICT", Left(o))
           things == [t \in Things \ gone |-> graph.things[t]]
           outcomes == {o \in graph.outcomes \ said : o.about \notin gone} \cup {Refused(o) : o \in said}
           links == {l \in graph.links : l.source \notin gone /\ l.target \notin gone}
           contested == graph.contested \cup gone
           new == Outcome(kind, user, state, says)
           g == Contest(kind, gone)
           h == Say(g, kind, user, state, says)
<1>1. IsGraph(graph) /\ Unique(graph) /\ \A t \in Things : ThingFits(graph, t)
  BY DEF GraphFits, Things
<1>2. g = [graph EXCEPT !.things = things, !.outcomes = outcomes, !.links = links, !.contested = contested]
  BY DEF Contest
<1>3. /\ DOMAIN things = Things \ gone /\ \A t \in Things \ gone : things[t] = graph.things[t]
      /\ things = [t \in DOMAIN things |-> things[t]]
  OBVIOUS
<1> HIDE DEF g, things, outcomes, links, contested, Refused
<1>4. g = [things |-> things, outcomes |-> outcomes, links |-> links, mentions |-> graph.mentions, contested |-> contested]
  BY <1>1, <1>2 DEF IsGraph
<1>5. /\ g.things = things /\ g.outcomes = outcomes /\ g.links = links
      /\ g.mentions = graph.mentions /\ g.contested = contested
  BY <1>4
<1>6. IsGraph(g)
  BY <1>3, <1>4, <1>5 DEF IsGraph
<1>7. /\ IsGraph(h) /\ h.outcomes = outcomes \cup {new}
      /\ h.things = things /\ h.links = links /\ h.mentions = graph.mentions /\ h.contested = contested
  BY <1>5, <1>6, SayFields
<1> HIDE DEF h
<1>8. \A o : LET r == Refused(o) IN r.kind = kind /\ r.about = o.about /\ r.state = "CONFLICT" /\ r.says = Left(o)
                                   /\ r = Outcome(r.kind, r.about, r.state, r.says)
  BY DEF Refused, Outcome
<1>9. new.kind = kind /\ new.about = user
  BY DEF Outcome
<1>10. \A c \in gone : c.type = kind /\ c = Thing(kind, <<Head(c.id)>>) /\ UserOf(c) = TheUser(graph.things[c].owner)
                       /\ UserOf(c).type = "user" /\ Announced(graph, kind, UserOf(c), Head(c.id))
  <2>1. \A c \in gone : ThingFits(graph, c) /\ c.type = kind
    BY <1>1
  <2>2. \A c : UserOf(c) = TheUser(graph.things[c].owner) /\ UserOf(c).type = "user"
    BY ThingIsTyped DEF UserOf, TheUser
  <2>3. QED
    BY <2>1, <2>2 DEF ThingFits
<1>11. \A o \in said : o.about \notin gone
  BY <1>10 DEF ChildKinds
<1> HIDE DEF new
<1>12. Unique(h)
  <2>1. \A o \in graph.outcomes : ~(o.kind = kind /\ o.about = user)
    BY DEF Unsaid
  <2>2. \A o \in outcomes : ~(o.kind = kind /\ o.about = user)
    BY <1>8, <2>1 DEF outcomes
  <2>3. ASSUME NEW o \in outcomes, NEW p \in outcomes, o.kind = p.kind, o.about = p.about PROVE o = p
    <3>1. CASE o \in graph.outcomes \ said /\ p \in graph.outcomes \ said
      BY <1>1, <2>3, <3>1 DEF Unique
    <3>2. ASSUME NEW q \in said, o = Refused(q) PROVE o = p
      <4>1. ~(p \in graph.outcomes \ said)
        BY <1>8, <2>3, <3>2
      <4>2. PICK r \in said : p = Refused(r)
        BY <4>1, <2>3 DEF outcomes
      <4>3. q = r
        BY <1>1, <1>8, <2>3, <3>2, <4>2 DEF Unique
      <4>4. QED
        BY <3>2, <4>2, <4>3
    <3>3. ASSUME NEW q \in said, p = Refused(q) PROVE o = p
      <4>1. ~(o \in graph.outcomes \ said)
        BY <1>8, <2>3, <3>3
      <4>2. PICK r \in said : o = Refused(r)
        BY <4>1, <2>3 DEF outcomes
      <4>3. q = r
        BY <1>1, <1>8, <2>3, <3>3, <4>2 DEF Unique
      <4>4. QED
        BY <3>3, <4>2, <4>3
    <3>4. QED
      BY <2>3, <3>1, <3>2, <3>3 DEF outcomes
  <2>4. QED
    BY <1>7, <1>9, <2>2, <2>3 DEF Unique
<1>13. ASSUME NEW o \in h.outcomes, o # new
       PROVE  \E p \in graph.outcomes :
                 /\ o.kind = p.kind /\ o.about = p.about /\ p.about \notin gone
                 /\ \/ o = p
                    \/ o.kind = new.kind /\ o.state = "CONFLICT" /\ o = Outcome(o.kind, o.about, o.state, o.says)
  <2>1. CASE o \in graph.outcomes \ said /\ o.about \notin gone
    BY <2>1
  <2>2. ASSUME NEW q \in said, o = Refused(q)
        PROVE  /\ o.kind = q.kind /\ o.about = q.about /\ q.about \notin gone
               /\ o.kind = new.kind /\ o.state = "CONFLICT" /\ o = Outcome(o.kind, o.about, o.state, o.says)
    BY <1>8, <1>9, <1>11, <2>2
  <2>3. QED
    BY <1>7, <1>13, <2>1, <2>2 DEF outcomes
<1>14. ASSUME NEW p \in graph.outcomes, p.about \notin gone
       PROVE  \E o \in h.outcomes :
                 /\ o.kind = p.kind /\ o.about = p.about
                 /\ o = p \/ (/\ o.kind = new.kind /\ o.state = "CONFLICT"
                              /\ \A id \in p.says : Thing(new.kind, <<id>>) \notin gone => id \in o.says)
  <2>1. CASE p \notin said
    BY <1>7, <1>14, <2>1 DEF outcomes
  <2>2. CASE p \in said
    <3>1. Refused(p) \in h.outcomes
      BY <1>7, <2>2 DEF outcomes
    <3>2. ASSUME NEW id \in p.says, Thing(new.kind, <<id>>) \notin gone PROVE id \in Left(p)
      <4>1. id \notin Ids(gone)
        BY <1>9, <1>10, <3>2 DEF Ids
      <4>2. QED
        BY <4>1 DEF Ids
    <3>3. QED
      BY <1>8, <1>9, <2>2, <3>1, <3>2
  <2>3. QED
    BY <2>1, <2>2
<1>15. ASSUME NEW c \in gone PROVE Said(h, new.kind, TheUser(graph.things[c].owner), {"CONFLICT"})
  <2>1. PICK o \in graph.outcomes : o.kind = kind /\ o.about = UserOf(c)
    BY <1>10 DEF Announced
  <2>2. o \in said
    BY <2>1
  <2>3. Refused(o) \in h.outcomes
    BY <1>7, <2>2 DEF outcomes
  <2>4. QED
    BY <1>8, <1>9, <1>10, <2>1, <2>3 DEF Said
<1>16. new \in h.outcomes
  BY <1>7
<1>17. /\ DOMAIN h.things = DOMAIN graph.things \ gone /\ \A t \in DOMAIN h.things : h.things[t] = graph.things[t]
       /\ gone \subseteq DOMAIN graph.things /\ \A c \in gone : c.type = new.kind
  BY <1>3, <1>7, <1>9, <1>10 DEF Things
<1>18. /\ \A l \in h.links : l \in graph.links /\ l.source \notin gone /\ l.target \notin gone
       /\ h.mentions = graph.mentions /\ h.contested = graph.contested \cup gone
  BY <1>7 DEF links, contested
<1>19. IsContested(graph, h, gone, new)
  BY <1>7, <1>12, <1>13, <1>14, <1>15, <1>16, <1>17, <1>18 DEF IsContested
<1>20. QED
  BY <1>19 DEF h, g, new

\* What was said is still said, if not that it is complete.
LEMMA ContestedIsSaid ==
  ASSUME NEW g, NEW h, NEW gone, NEW said, IsContested(g, h, gone, said)
  PROVE  /\ \A kind, about, states :
              /\ Said(g, kind, about, states) /\ about \notin gone
              /\ kind # said.kind \/ "CONFLICT" \in states
              => Said(h, kind, about, states)
         /\ \A kind, about : ~Unsaid(g, kind, about) /\ about \notin gone => ~Unsaid(h, kind, about)
         /\ \A kind, about : Unsaid(g, kind, about) /\ ~(kind = said.kind /\ about = said.about) => Unsaid(h, kind, about)
         /\ \A kind, about, id :
              /\ Announced(g, kind, about, id) /\ about \notin gone
              /\ kind = said.kind => Thing(said.kind, <<id>>) \notin gone
              => Announced(h, kind, about, id)
<1>1. \A p \in g.outcomes :
       p.about \notin gone =>
         \E o \in h.outcomes :
           /\ o.kind = p.kind /\ o.about = p.about
           /\ o = p \/ (/\ o.kind = said.kind /\ o.state = "CONFLICT"
                        /\ \A id \in p.says : Thing(said.kind, <<id>>) \notin gone => id \in o.says)
  BY DEF IsContested
<1>2. \A o \in h.outcomes : o = said \/ \E p \in g.outcomes : o.kind = p.kind /\ o.about = p.about
  BY DEF IsContested
<1>3. ASSUME NEW kind, NEW about, NEW states, Said(g, kind, about, states), about \notin gone,
             kind # said.kind \/ "CONFLICT" \in states
      PROVE  Said(h, kind, about, states)
  BY <1>1, <1>3 DEF Said
<1>4. ASSUME NEW kind, NEW about, ~Unsaid(g, kind, about), about \notin gone PROVE ~Unsaid(h, kind, about)
  BY <1>1, <1>4 DEF Unsaid
<1>5. ASSUME NEW kind, NEW about, Unsaid(g, kind, about), ~(kind = said.kind /\ about = said.about)
      PROVE  Unsaid(h, kind, about)
  BY <1>2, <1>5 DEF Unsaid
<1>6. ASSUME NEW kind, NEW about, NEW id, Announced(g, kind, about, id), about \notin gone,
             kind = said.kind => Thing(said.kind, <<id>>) \notin gone
      PROVE  Announced(h, kind, about, id)
  <2>1. PICK p \in g.outcomes : p.kind = kind /\ p.about = about /\ id \in p.says
    BY <1>6 DEF Announced
  <2>2. PICK o \in h.outcomes :
          /\ o.kind = p.kind /\ o.about = p.about
          /\ o = p \/ (/\ o.kind = said.kind /\ o.state = "CONFLICT"
                       /\ \A i \in p.says : Thing(said.kind, <<i>>) \notin gone => i \in o.says)
    BY <1>1, <1>6, <2>1
  <2>3. id \in o.says
    BY <1>6, <2>1, <2>2
  <2>4. QED
    BY <2>1, <2>2, <2>3 DEF Announced
<1>7. QED
  BY <1>3, <1>4, <1>5, <1>6

\* The new source is that of a user, and refused if a child of it is contested.
IsChildSource(g, gone, said) ==
  /\ said = Outcome(said.kind, said.about, said.state, said.says)
  /\ said.kind \in ChildKinds /\ said.about \in DOMAIN g.things /\ said.about.type = "user"
  /\ Unsaid(g, said.kind, said.about) /\ said.state # "EXPECTED_ABSENCE"
  /\ gone # {} => said.state = "CONFLICT"

LEMMA ContestedFits ==
  ASSUME NEW g, NEW h, NEW gone, NEW said, GraphFits(g), IsContested(g, h, gone, said), IsChildSource(g, gone, said)
  PROVE  GraphFits(h)
<1>1. /\ \A kind, about, states :
              /\ Said(g, kind, about, states) /\ about \notin gone
              /\ kind # said.kind \/ "CONFLICT" \in states
              => Said(h, kind, about, states)
      /\ \A kind, about : ~Unsaid(g, kind, about) /\ about \notin gone => ~Unsaid(h, kind, about)
      /\ \A kind, about, id :
              /\ Announced(g, kind, about, id) /\ about \notin gone
              /\ kind = said.kind => Thing(said.kind, <<id>>) \notin gone
              => Announced(h, kind, about, id)
  BY ContestedIsSaid
<1>2. /\ \A t \in DOMAIN g.things : ThingFits(g, t) /\ Outcome("identity", t, "PRESENT", {}) \in g.outcomes
      /\ \A o \in g.outcomes : OutcomeFits(g, o)
      /\ \A l \in g.links : LinkFits(g, l)
      /\ \A c \in g.contested : ContestFits(g, c)
      /\ \A m \in g.mentions : MentionFits(g, m)
  BY DEF GraphFits
<1>3. /\ DOMAIN h.things = DOMAIN g.things \ gone /\ \A t \in DOMAIN h.things : h.things[t] = g.things[t]
      /\ gone \subseteq DOMAIN g.things /\ \A c \in gone : c.type = said.kind /\ c.type \in ChildKinds
      /\ said \in h.outcomes /\ IsGraph(h) /\ Unique(h)
      /\ \A l \in h.links : l \in g.links /\ l.source \notin gone /\ l.target \notin gone
      /\ h.mentions = g.mentions /\ h.contested = g.contested \cup gone
  BY DEF IsContested, IsChildSource
<1>4. \A t \in DOMAIN g.things : t.type \notin ChildKinds => t \in DOMAIN h.things /\ t \notin gone
  BY <1>3
<1>5. \A id : TheUser(id).type \notin ChildKinds /\ TheUser(id).type = "user" /\ ThePolicy(id).type \notin ChildKinds
  BY ThingIsTyped DEF TheUser, ThePolicy, ChildKinds
<1>6. ASSUME NEW t \in DOMAIN h.things PROVE ThingFits(h, t)
  <2>1. ThingFits(g, t) /\ t \in DOMAIN g.things /\ t \notin gone /\ h.things[t] = g.things[t]
    BY <1>2, <1>3
  <2>2. ASSUME t.type \in ChildKinds
        PROVE  /\ TheUser(h.things[t].owner) \in DOMAIN h.things
               /\ Announced(h, t.type, TheUser(h.things[t].owner), Head(t.id))
    <3>1. /\ t = Thing(t.type, <<Head(t.id)>>) /\ TheUser(g.things[t].owner) \in DOMAIN g.things
          /\ Announced(g, t.type, TheUser(g.things[t].owner), Head(t.id))
      BY <2>1, <2>2 DEF ThingFits
    <3>2. TheUser(g.things[t].owner) \in DOMAIN h.things /\ TheUser(g.things[t].owner) \notin gone
      BY <1>4, <1>5, <3>1
    <3>3. t.type = said.kind => Thing(said.kind, <<Head(t.id)>>) \notin gone
      BY <2>1, <3>1
    <3>4. QED
      BY <1>1, <2>1, <3>1, <3>2, <3>3
  <2>3. ASSUME t.type = "inline"
        PROVE  /\ h.things[t].owner \in DOMAIN h.things /\ h.things[t].owner.type \in Kinds
               /\ t = Inline(h.things[t].owner, t.id[3]) /\ ~Unsaid(h, "inline", h.things[t].owner)
    BY <1>1, <1>4, <2>1, <2>3 DEF ThingFits, Kinds, ChildKinds
  <2>4. ASSUME t.type = "version" PROVE ~Unsaid(h, "metadata", ThePolicy(t.id[1]))
    <3>1. ~Unsaid(g, "metadata", ThePolicy(t.id[1])) /\ ThePolicy(t.id[1]) \notin gone
      BY <1>3, <1>5, <2>1, <2>4 DEF ThingFits
    <3>2. QED
      BY <1>1, <3>1
  <2>5. QED
    BY <2>1, <2>2, <2>3, <2>4 DEF ThingFits
<1>7. ASSUME NEW t \in DOMAIN h.things PROVE Outcome("identity", t, "PRESENT", {}) \in h.outcomes
  <2> DEFINE i == Outcome("identity", t, "PRESENT", {})
  <2>1. i \in g.outcomes /\ i.kind = "identity" /\ i.about = t /\ t \notin gone
    BY <1>2, <1>3 DEF Outcome
  <2>2. said.kind # "identity"
    BY DEF IsChildSource, ChildKinds
  <2> HIDE DEF i
  <2>3. i \in h.outcomes
    BY <2>1, <2>2 DEF IsContested
  <2>4. QED
    BY <2>3 DEF i
<1>8. ASSUME NEW o \in h.outcomes PROVE OutcomeFits(h, o)
  <2>1. CASE o = said
    BY <1>4, <2>1 DEF IsChildSource, OutcomeFits, ChildKinds
  <2>2. CASE o # said
    <3>1. PICK p \in g.outcomes :
            /\ o.kind = p.kind /\ o.about = p.about /\ p.about \notin gone
            /\ \/ o = p
               \/ o.kind = said.kind /\ o.state = "CONFLICT" /\ o = Outcome(o.kind, o.about, o.state, o.says)
      BY <2>2 DEF IsContested
    <3>2. OutcomeFits(g, p) /\ (o.kind = "tags" /\ o.about.type = "policy" => ~Unsaid(g, "metadata", o.about))
      BY <1>2, <3>1 DEF OutcomeFits
    <3>3. o = Outcome(o.kind, o.about, o.state, o.says) /\ (o.state = "EXPECTED_ABSENCE" => o.kind = "usage")
      BY <3>1, <3>2 DEF OutcomeFits
    <3>4. o.about \in DOMAIN h.things \cup {Everything}
      BY <1>3, <3>1, <3>2 DEF OutcomeFits
    <3>5. o.kind = "tags" /\ o.about.type = "policy" => ~Unsaid(h, "metadata", o.about)
      BY <1>1, <3>1, <3>2
    <3>6. QED
      BY <3>3, <3>4, <3>5 DEF OutcomeFits
  <2>3. QED
    BY <2>1, <2>2
<1>9. ASSUME NEW l \in h.links PROVE LinkFits(h, l)
  <2>1. LinkFits(g, l) /\ l.source \notin gone /\ l.target \notin gone
    BY <1>2, <1>3
  <2>2. l.source \in DOMAIN h.things /\ l.target \in DOMAIN h.things /\ l.by.about \notin gone
    BY <1>3, <2>1 DEF LinkFits
  <2>3. Said(h, l.by.kind, l.by.about, {"PRESENT"})
    BY <1>1, <2>1, <2>2 DEF LinkFits, IsChildSource
  <2>4. l.type \in ChildKinds => Said(h, l.type, l.source, {"PRESENT", "CONFLICT"})
    BY <1>1, <2>1 DEF LinkFits
  <2>5. h.things[l.target] = g.things[l.target]
    BY <1>3, <2>2
  <2>6. QED
    BY <2>1, <2>2, <2>3, <2>4, <2>5 DEF LinkFits
<1>10. ASSUME NEW c \in h.contested PROVE ContestFits(h, c)
  <2>1. CASE c \in g.contested
    <3>1. ContestFits(g, c)
      BY <1>2, <2>1
    <3>2. PICK u \in DOMAIN g.things : \E w \in DOMAIN g.things :
            /\ u # w /\ u.type = "user" /\ w.type = "user"
            /\ Said(g, c.type, u, {"CONFLICT"}) /\ Said(g, c.type, w, {"CONFLICT"})
      BY <3>1 DEF ContestFits
    <3>3. PICK w \in DOMAIN g.things :
            /\ u # w /\ u.type = "user" /\ w.type = "user"
            /\ Said(g, c.type, u, {"CONFLICT"}) /\ Said(g, c.type, w, {"CONFLICT"})
      BY <3>2
    <3>4. u \in DOMAIN h.things /\ w \in DOMAIN h.things /\ u \notin gone /\ w \notin gone
      BY <1>4, <3>3 DEF ChildKinds
    <3>5. Said(h, c.type, u, {"CONFLICT"}) /\ Said(h, c.type, w, {"CONFLICT"})
      BY <1>1, <3>3, <3>4
    <3>6. c \notin DOMAIN h.things /\ c.type \in ChildKinds
      BY <1>3, <3>1 DEF ContestFits
    <3>7. QED
      BY <3>3, <3>4, <3>5, <3>6 DEF ContestFits
  <2>2. CASE c \in gone
    <3> DEFINE u == TheUser(g.things[c].owner)
    <3>1. ThingFits(g, c) /\ c.type = said.kind /\ c.type \in ChildKinds
      BY <1>2, <1>3, <2>2
    <3>2. u \in DOMAIN g.things /\ Announced(g, said.kind, u, Head(c.id)) /\ u.type = "user"
      BY <1>5, <3>1 DEF ThingFits
    <3>3. u # said.about
      BY <3>2 DEF Announced, IsChildSource, Unsaid
    <3>4. Said(h, said.kind, u, {"CONFLICT"})
      BY <2>2 DEF IsContested
    <3>5. Said(h, said.kind, said.about, {"CONFLICT"})
      BY <1>3, <2>2 DEF Said, IsChildSource
    <3>6. said.about.type = "user" /\ said.about \in DOMAIN h.things /\ u \in DOMAIN h.things
      BY <1>4, <3>2 DEF IsChildSource, ChildKinds
    <3>7. c \notin DOMAIN h.things
      BY <1>3, <2>2
    <3> HIDE DEF u
    <3>8. QED
      BY <3>1, <3>2, <3>3, <3>4, <3>5, <3>6, <3>7 DEF ContestFits
  <2>3. QED
    BY <1>3, <2>1, <2>2
<1>11. ASSUME NEW m \in h.mentions PROVE MentionFits(h, m)
  <2>1. MentionFits(g, m)
    BY <1>2, <1>3
  <2>2. m.owner \in DOMAIN h.things /\ m.owner \notin gone
    BY <1>4, <2>1 DEF MentionFits, Kinds, ChildKinds
  <2>3. QED
    BY <1>1, <2>1, <2>2 DEF MentionFits, IsChildSource, ChildKinds
<1>12. QED
  BY <1>3, <1>6, <1>7, <1>8, <1>9, <1>10, <1>11 DEF GraphFits

LEMMA ContestedStands ==
  ASSUME NEW d, NEW c, NEW g, NEW h, NEW gone, NEW said, GraphStands(d, c, g),
         IsContested(g, h, gone, said), IsChildSource(g, gone, said),
         said.state = "PRESENT" => HoldingIsTrue(d, c, g, said)
  PROVE  GraphStands(d, c, h)
<1>1. GraphFits(g) /\ GraphIsTrue(d, c, g)
  BY DEF GraphStands
<1>2. GraphFits(h)
  BY <1>1, ContestedFits
<1>3. /\ DOMAIN h.things = DOMAIN g.things \ gone /\ \A t \in DOMAIN h.things : h.things[t] = g.things[t]
      /\ \A x \in gone : x.type \in ChildKinds
  BY DEF IsContested, IsChildSource
<1>4. \A t \in DOMAIN h.things : ThingFits(h, t) /\ ThingIsTrue(d, c, g, t)
  BY <1>1, <1>2, <1>3 DEF GraphFits, GraphIsTrue
<1>5. ASSUME NEW t \in DOMAIN h.things PROVE ThingIsTrue(d, c, h, t)
  <2>1. t.type = "key" => h.things[TheUser(h.things[t].owner)] = g.things[TheUser(g.things[t].owner)]
    BY <1>3, <1>4 DEF ThingFits, ChildKinds
  <2>2. t.type = "key" => KeyIsTrue(d, c, h, t)
    BY <1>3, <1>4, <2>1 DEF ThingIsTrue, KeyIsTrue
  <2>3. QED
    BY <1>3, <1>4, <2>2 DEF ThingIsTrue, PrincipalIsTrue, PolicyIsTrue
<1>6. ASSUME NEW o \in g.outcomes, o.about \notin gone, NEW p,
             p = o \/ (p.kind = o.kind /\ p.about = o.about /\ p.state = "CONFLICT" /\ p.kind \in ChildKinds)
      PROVE  SourceIsTrue(d, c, h, p)
  <2>1. SourceIsTrue(d, c, g, o)
    BY <1>1 DEF GraphIsTrue
  <2>2. o.about \in DOMAIN g.things => o.about \in DOMAIN h.things /\ h.things[o.about] = g.things[o.about]
    BY <1>3, <1>6
  <2>3. CASE p = o
    <3>1. \A type \in Listed : \A id : Thing(type, <<id>>) \in DOMAIN g.things => Thing(type, <<id>>) \in DOMAIN h.things
      <4>1. \A type, id : Thing(type, <<id>>).type = type
        BY ThingIsTyped
      <4>2. QED
        BY <1>3, <4>1 DEF Listed, ChildKinds
    <3>2. o.kind \in OfPrincipals /\ HoldingIsTrue(d, c, g, o) => HoldingIsTrue(d, c, h, o)
      BY <2>1, <2>2 DEF SourceIsTrue, HoldingIsTrue
    <3>3. o.kind = "document" /\ o.about.type = "inline" /\ InlineIsTrue(d, c, g, o) => InlineIsTrue(d, c, h, o)
      <4>1. o.kind = "document" /\ o.about.type = "inline" =>
              h.things[h.things[o.about].owner] = g.things[g.things[o.about].owner]
        BY <1>3, <1>4, <2>1, <2>2 DEF SourceIsTrue, ThingFits
      <4>2. QED
        BY <2>1, <2>2, <4>1 DEF SourceIsTrue, InlineIsTrue
    <3>4. o.kind = "usage" /\ UsageIsTrue(d, c, g, o) => UsageIsTrue(d, c, h, o)
      <4>1. o.kind = "usage" =>
              h.things[TheUser(h.things[o.about].owner)] = g.things[TheUser(g.things[o.about].owner)]
        BY <1>3, <1>4, <2>1, <2>2 DEF SourceIsTrue, ThingFits, ChildKinds
      <4>2. QED
        BY <2>1, <2>2, <4>1 DEF SourceIsTrue, UsageIsTrue
    <3>5. QED
      BY <2>1, <2>2, <2>3, <3>1, <3>2, <3>3, <3>4 DEF SourceIsTrue
  <2>4. CASE p.kind = o.kind /\ p.about = o.about /\ p.state = "CONFLICT" /\ p.kind \in ChildKinds
    BY <2>1, <2>2, <2>4 DEF SourceIsTrue, ChildKinds, Listed, OfPrincipals
  <2>5. QED
    BY <1>6, <2>3, <2>4
<1>7. ASSUME NEW o \in h.outcomes, o # said PROVE SourceIsTrue(d, c, h, o)
  <2>1. PICK p \in g.outcomes :
          /\ o.kind = p.kind /\ o.about = p.about /\ p.about \notin gone
          /\ \/ o = p
             \/ o.kind = said.kind /\ o.state = "CONFLICT" /\ o = Outcome(o.kind, o.about, o.state, o.says)
    BY <1>7 DEF IsContested
  <2>2. QED
    BY <1>6, <2>1 DEF IsChildSource
<1>8. SourceIsTrue(d, c, h, said)
  <2>1. said.about \in DOMAIN h.things /\ h.things[said.about] = g.things[said.about] /\ said.about.type \in Kinds
    BY <1>3 DEF IsChildSource, ChildKinds, Kinds
  <2>2. said.state = "PRESENT" => HoldingIsTrue(d, c, h, said)
    BY <2>1 DEF HoldingIsTrue
  <2>3. QED
    BY <2>1, <2>2 DEF IsChildSource, SourceIsTrue, ChildKinds, Listed, OfPrincipals
<1>9. QED
  BY <1>2, <1>5, <1>7, <1>8 DEF GraphStands, GraphIsTrue

\* The other calls can rely on the graph that is left.
LEMMA ContestedTasks ==
  ASSUME NEW g, NEW h, NEW gone, NEW said, IsContested(g, h, gone, said), IsChildSource(g, gone, said), GraphFits(g),
         NEW t, TaskFits(g, t), ~(t.call = said.kind /\ t.about = said.about)
  PROVE  TaskFits(h, t)
<1>1. /\ \A kind, about : ~Unsaid(g, kind, about) /\ about \notin gone => ~Unsaid(h, kind, about)
      /\ \A kind, about : Unsaid(g, kind, about) /\ ~(kind = said.kind /\ about = said.about) => Unsaid(h, kind, about)
      /\ \A kind, about, id :
              /\ Announced(g, kind, about, id) /\ about \notin gone
              /\ kind = said.kind => Thing(said.kind, <<id>>) \notin gone
              => Announced(h, kind, about, id)
  BY ContestedIsSaid
<1>2. /\ DOMAIN h.things = DOMAIN g.things \ gone /\ \A x \in DOMAIN h.things : h.things[x] = g.things[x]
      /\ \A x \in gone : x.type \in ChildKinds /\ x \in DOMAIN g.things
      /\ h.contested = g.contested \cup gone
  BY DEF IsContested, IsChildSource
<1>3. Unsaid(h, KindOf(t.call), t.about)
  <2>1. Unsaid(g, KindOf(t.call), t.about)
    BY DEF TaskFits
  <2>2. KindOf(t.call) = said.kind => t.call = said.kind
    BY DEF KindOf, IsChildSource, ChildKinds
  <2>3. QED
    BY <1>1, <2>1, <2>2
<1>4. \A x \in DOMAIN g.things : x.type \notin ChildKinds => x \in DOMAIN h.things /\ x \notin gone
  BY <1>2
<1>5. t.call = "usage" => UsageFits(h, t)
  <2>1. ASSUME t.call = "usage" PROVE UsageFits(h, t)
    <3>1. UsageFits(g, t)
      BY <2>1 DEF TaskFits
    <3>2. t.of.type = "user"
      BY <3>1, ThingIsTyped DEF UsageFits, TheUser
    <3>3. t.of \in DOMAIN h.things /\ t.of \notin gone
      BY <1>4, <3>1, <3>2 DEF UsageFits, ChildKinds
    <3>4. Thing("key", <<Head(t.about.id)>>) \notin gone
      BY <1>2, <3>1 DEF UsageFits
    <3>5. Announced(h, "key", t.of, Head(t.about.id))
      <4>1. "key" = said.kind => Thing(said.kind, <<Head(t.about.id)>>) \notin gone
        BY <3>4
      <4>2. Announced(g, "key", t.of, Head(t.about.id))
        BY <3>1 DEF UsageFits
      <4>3. QED
        BY <1>1, <3>3, <4>1, <4>2
    <3>6. t.about \notin DOMAIN h.things \cup h.contested
      BY <1>2, <3>1 DEF UsageFits
    <3>7. QED
      BY <1>2, <3>1, <3>3, <3>5, <3>6 DEF UsageFits
  <2>2. QED
    BY <2>1
<1>6. t.call = "document" => DocumentFits(h, t)
  BY <1>1, <1>2, <1>4 DEF TaskFits, DocumentFits, Kinds, ChildKinds
<1>7. t.call \in Listed => \A x \in DOMAIN h.things : x.type # t.call
  BY <1>2 DEF TaskFits
<1>8. t.call \in OfPrincipals \cup {"tags", "members", "metadata"} =>
        t.about \in DOMAIN h.things /\ (t.call = "tags" /\ t.about.type = "policy" => ~Unsaid(h, "metadata", t.about))
  BY <1>1, <1>4 DEF TaskFits, Kinds, ChildKinds
<1>9. t.call = "version" => t.about \in DOMAIN h.things /\ ~Unsaid(h, "metadata", t.of)
  <2>1. t.call = "version" => t.about \in DOMAIN h.things
    BY <1>4 DEF TaskFits, ChildKinds
  <2>2. t.call = "version" => t.of.type = "policy"
    BY ThingIsTyped DEF TaskFits, ThePolicy
  <2>3. t.call = "version" => t.of \notin gone
    BY <1>2, <2>2 DEF ChildKinds
  <2>4. QED
    BY <1>1, <2>1, <2>3 DEF TaskFits
<1>10. QED
  BY <1>3, <1>5, <1>6, <1>7, <1>8, <1>9 DEF TaskFits

\* A listing of the devices or keys of a user was read, but the children that are the
\* user's own are still to be put into the graph.
ChildrenAreSaid(kind, task, read, own, h) ==
  /\ GraphStands(directory, touched, h) /\ IsGraph(h)
  /\ \A t \in tasks \ {task} : TaskFits(h, t)
  /\ DOMAIN h.things \subseteq DOMAIN graph.things /\ task.about \in DOMAIN h.things
  /\ \A t \in DOMAIN graph.things : t.type # kind => t \in DOMAIN h.things
  /\ \A t \in DOMAIN h.things : h.things[t] = graph.things[t]
  /\ \A o \in h.outcomes : o.kind \in {p.kind : p \in graph.outcomes} \cup {kind}
  /\ \A k \in {"user", "device"} : \A about : ~Unsaid(graph, k, about) => ~Unsaid(h, k, about)
  /\ ~Unsaid(h, kind, task.about)
  /\ \A c \in own :
       /\ c = Thing(kind, <<Head(c.id)>>) /\ c.type = kind /\ Head(c.id) \in read.kept
       /\ c \notin DOMAIN graph.things \cup h.contested
       /\ Announced(h, kind, task.about, Head(c.id)) /\ Unsaid(h, "usage", c)

LEMMA ChildrenAreSaidOnce ==
  ASSUME IdentityInv, NEW kind \in ChildKinds, NEW task \in Due(kind), NEW read,
         read.errors = {} /\ NameOf(task.about) \notin touched => read.kept = Holds(Named(task.about), kind)
  PROVE  ChildrenAreSaid(kind, task, read, Children(kind, task.about, read).own, Children(kind, task.about, read).graph)
<1> DEFINE user == task.about
           children == {Thing(kind, <<id>>) : id \in read.kept}
           known == children \cap Things
           own == children \ (known \cup graph.contested)
           errors == read.errors \cup (IF own = children THEN {} ELSE {"conflict"})
           state == OutcomeState(errors)
           said == Outcome(kind, user, state, Ids(own))
           h == Say(Contest(kind, known), kind, user, state, Ids(own))
<1>1. /\ task \in tasks /\ task.call = kind /\ TaskFits(graph, task) /\ TasksFit(graph, tasks)
      /\ GraphStands(directory, touched, graph) /\ GraphFits(graph)
  BY DueIsWaiting
<1>2. KindOf(kind) = kind
  BY DEF KindOf, ChildKinds
<1>3. user \in Things /\ user.type = "user" /\ Unsaid(graph, kind, user)
  BY <1>1, <1>2 DEF TaskFits, ChildKinds, OfPrincipals, Things
<1>4. \A c \in children : c.type = kind /\ c = Thing(kind, <<Head(c.id)>>) /\ Head(c.id) \in read.kept
  <2>1. ASSUME NEW id \in read.kept PROVE LET c == Thing(kind, <<id>>) IN c.type = kind /\ Head(c.id) = id
    BY ThingIsTyped, HeadOfOne
  <2>2. QED
    BY <2>1
<1>5. Children(kind, user, read).own = own /\ Children(kind, user, read).graph = h
  BY DEF Children
<1> HIDE DEF h
<1>6. IsContested(graph, h, known, said)
  <2>1. known \in SUBSET Things /\ \A c \in known : c.type = kind
    BY <1>4
  <2> HIDE DEF known, state, own
  <2>2. IsContested(graph, Say(Contest(kind, known), kind, user, state, Ids(own)), known, Outcome(kind, user, state, Ids(own)))
    BY <1>1, <1>3, <2>1, ContestIs
  <2>3. QED
    BY <2>2 DEF h
<1>7. /\ said = Outcome(said.kind, said.about, said.state, said.says)
      /\ said.kind = kind /\ said.about = user /\ said.state = state /\ said.says = Ids(own)
  BY DEF Outcome
<1>8. (state = "PRESENT" <=> errors = {}) /\ state # "EXPECTED_ABSENCE" /\ ("conflict" \in errors => state = "CONFLICT")
  BY StateOfErrors
<1>9. IsChildSource(graph, known, said)
  <2>1. known # {} => "conflict" \in errors
    OBVIOUS
  <2> HIDE DEF known, state, own, said, errors
  <2>2. QED
    BY <1>3, <1>7, <1>8, <2>1 DEF IsChildSource, Things
<1>10. state = "PRESENT" => HoldingIsTrue(directory, touched, graph, said)
  <2>1. state = "PRESENT" => read.errors = {} /\ own = children
    BY <1>8
  <2>2. Ids(children) = read.kept
    <3>1. \A id \in read.kept : Head(Thing(kind, <<id>>).id) = id
      BY ThingIsTyped, HeadOfOne
    <3>2. QED
      BY <3>1 DEF Ids
  <2> HIDE DEF state, own, children, said
  <2>3. state = "PRESENT" /\ NameOf(user) \notin touched => said.says = Holds(Named(user), kind)
    BY <1>7, <2>1, <2>2
  <2>4. QED
    BY <1>7, <2>3 DEF HoldingIsTrue, Named, NameOf
<1> HIDE DEF known, state, own, said, errors
<1>11. GraphStands(directory, touched, h)
  BY <1>1, <1>6, <1>7, <1>9, <1>10, ContestedStands
<1>12. \A t \in tasks \ {task} : TaskFits(h, t)
  <2>1. ASSUME NEW t \in tasks \ {task} PROVE TaskFits(graph, t) /\ ~(t.call = said.kind /\ t.about = said.about)
    BY <1>1, <1>7 DEF TasksFit, OneTaskEach
  <2>2. QED
    BY <1>1, <1>6, <1>9, <2>1, ContestedTasks
<1>13. /\ DOMAIN h.things = DOMAIN graph.things \ known /\ \A t \in DOMAIN h.things : h.things[t] = graph.things[t]
       /\ \A t \in known : t.type = kind
       /\ said \in h.outcomes /\ h.contested = graph.contested \cup known
  BY <1>6, <1>7 DEF IsContested
<1>14. user \in DOMAIN h.things
  BY <1>3, <1>13 DEF Things, ChildKinds
<1>15. \A o \in h.outcomes : o.kind \in {p.kind : p \in graph.outcomes} \cup {kind}
  BY <1>6, <1>7 DEF IsContested
<1>16. \A k, about : ~Unsaid(graph, k, about) /\ about \notin known => ~Unsaid(h, k, about)
  BY <1>6, ContestedIsSaid
<1>17. ASSUME NEW k \in {"user", "device"}, NEW about, ~Unsaid(graph, k, about) PROVE about \notin known
  <2>1. PICK o \in graph.outcomes : o.kind = k /\ o.about = about
    BY <1>17 DEF Unsaid
  <2>2. SourceIsTrue(directory, touched, graph, o)
    BY <1>1 DEF GraphStands, GraphIsTrue
  <2>3. about = Everything \/ about.type \in Kinds
    BY <2>1, <2>2 DEF SourceIsTrue, Listed, OfPrincipals
  <2>4. Everything.type = "account"
    BY ThingIsTyped DEF Everything
  <2>5. QED
    BY <1>13, <2>3, <2>4 DEF Kinds, ChildKinds
<1>18. ~Unsaid(h, kind, user)
  BY <1>7, <1>13 DEF Unsaid
<1>19. ASSUME NEW c \in own
       PROVE  /\ c = Thing(kind, <<Head(c.id)>>) /\ c.type = kind /\ Head(c.id) \in read.kept
              /\ c \notin DOMAIN graph.things \cup h.contested
              /\ Announced(h, kind, user, Head(c.id)) /\ Unsaid(h, "usage", c)
  <2>1. c \in children /\ c \notin known /\ c \notin graph.contested
    BY DEF own
  <2>2. c \notin DOMAIN graph.things
    BY <2>1 DEF known, Things
  <2>3. Announced(h, kind, user, Head(c.id))
    BY <1>7, <1>13 DEF Announced, Ids
  <2>4. Unsaid(h, "usage", c)
    <3>1. \A o \in graph.outcomes : SourceIsTrue(directory, touched, graph, o)
      BY <1>1 DEF GraphStands, GraphIsTrue
    <3>2. Unsaid(graph, "usage", c)
      BY <2>2, <3>1 DEF Unsaid, SourceIsTrue
    <3>3. "usage" # said.kind
      BY <1>7 DEF ChildKinds
    <3>4. QED
      BY <1>6, <3>2, <3>3, ContestedIsSaid
  <2>5. QED
    BY <1>4, <1>13, <2>1, <2>2, <2>3, <2>4
<1> HIDE DEF children
<1>20. IsGraph(h)
  BY <1>11 DEF GraphStands, GraphFits
<1>21. ChildrenAreSaid(kind, task, read, own, h)
  BY <1>11, <1>12, <1>13, <1>14, <1>15, <1>16, <1>17, <1>18, <1>19, <1>20 DEF ChildrenAreSaid
<1>22. QED
  BY <1>5, <1>21

\* What is read of the devices or keys of a user is what there is.
LEMMA ChildrenOfUser ==
  ASSUME IdentityInv, NEW kind \in ChildKinds, NEW task \in Due(kind),
         NEW ids, ids = Holds(Named(task.about), kind), NEW listed \in ListingsOf(task.about, ids)
  PROVE  /\ Exists(task.about) => IsReadOf(ReadChildren(listed), ids)
         /\ ReadChildren(listed).errors = {} /\ NameOf(task.about) \notin touched => ReadChildren(listed).kept = ids
<1> DEFINE user == task.about
<1>1. TaskFits(graph, task) /\ task.call = kind
  BY DueIsWaiting
<1>2. user \in Things /\ user.type \in Kinds
  BY <1>1 DEF TaskFits, ChildKinds, OfPrincipals, Things, Kinds
<1>3. Exists(user) => NameOf(user) \in DOMAIN directory.principals /\ directory.principals[NameOf(user)] = Named(user)
  BY <1>2, ExistingIsNamed
<1>4. Exists(user) => IsFiniteSet(Named(user).devices) /\ IsFiniteSet({k.id : k \in Named(user).keys})
  BY <1>3, PrincipalsAreFinite, Zenon
<1>5. Holds(Named(user), "device") = Named(user).devices /\ Holds(Named(user), "key") = {k.id : k \in Named(user).keys}
  BY DEF Holds
<1>6. Exists(user) => IsFiniteSet(ids)
  BY <1>4, <1>5 DEF ChildKinds
<1>7. Exists(user) => IsListingOf(listed, ids)
  BY <1>6, ListingOfPrincipal
<1>8. Exists(user) => IsReadOf(ReadChildren(listed), ids)
  BY <1>7, ChildrenAreRead
<1>9. NameOf(user) \notin touched => Exists(user)
  BY <1>2, PrincipalIsThere
<1>10. QED
  BY <1>8, <1>9 DEF IsReadOf

LEMMA DevicesAreRead ==
  ASSUME IdentityInv, ReadDevices
  PROVE  IdentityInv'
<1> DEFINE Found(task, listed) == Children("device", task.about, ReadChildren(listed))
           FactsFor(task, listed) == [d \in Found(task, listed).own |-> [Facts EXCEPT !.owner = Head(task.about.id)]]
           After(task, listed) == Adopted(Found(task, listed).graph, "device", task.about, FactsFor(task, listed))
<1>1. PICK task \in Due("device") : \E listed \in ListingsOf(task.about, Named(task.about).devices) : \E wrong :
        Made(task, After(task, listed), {}, wrong)
  BY DEF ReadDevices
<1>2. PICK listed \in ListingsOf(task.about, Named(task.about).devices) : \E wrong :
        Made(task, After(task, listed), {}, wrong)
  BY <1>1
<1>3. PICK wrong : Made(task, After(task, listed), {}, wrong)
  BY <1>2
<1> DEFINE user == task.about
           read == ReadChildren(listed)
           own == Found(task, listed).own
           g == Found(task, listed).graph
           facts == FactsFor(task, listed)
           complete == \E o \in OutcomesOf(g, "device", user) : o.state = "PRESENT"
           links == IF complete THEN {Relation("device", user, c, "identity", c) : c \in own} ELSE {}
           a == Admitted(g, facts)
           h == Relate(a, links)
           Identified(t) == Outcome("identity", t, "PRESENT", {})
<1>4. "device" \in ChildKinds /\ KindOf("device") = "device"
  BY DEF ChildKinds, KindOf
<1>5. Named(user).devices = Holds(Named(user), "device")
  BY DEF Holds
<1>6. read.errors = {} /\ NameOf(user) \notin touched => read.kept = Holds(Named(user), "device")
  BY <1>2, <1>4, <1>5, ChildrenOfUser
<1> HIDE DEF read
<1>7. ChildrenAreSaid("device", task, read, Children("device", user, read).own, Children("device", user, read).graph)
  BY <1>4, <1>6, ChildrenAreSaidOnce
<1>8. ChildrenAreSaid("device", task, read, own, g)
  BY <1>7 DEF read
<1>9. After(task, listed) = h
  BY DEF Adopted
<1>10. DOMAIN facts = own /\ \A c \in own : facts[c] = [Facts EXCEPT !.owner = Head(user.id)]
  OBVIOUS
<1>11. \A c \in own : facts[c].owner = Head(user.id)
  BY DEF Facts
<1>12. Made(task, h, {}, wrong)
  BY <1>3, <1>9
<1> HIDE DEF own, g, facts, links, After
<1>13. /\ GraphStands(directory, touched, g) /\ IsGraph(g) /\ GraphFits(g)
       /\ \A t \in tasks \ {task} : TaskFits(g, t)
       /\ DOMAIN g.things \subseteq DOMAIN graph.things /\ user \in DOMAIN g.things
       /\ \A o \in g.outcomes : o.kind \in {p.kind : p \in graph.outcomes} \cup {"device"}
       /\ \A k \in {"user", "device"} : \A about : ~Unsaid(graph, k, about) => ~Unsaid(g, k, about)
       /\ ~Unsaid(g, "device", user)
       /\ \A c \in own :
            /\ c = Thing("device", <<Head(c.id)>>) /\ c.type = "device"
            /\ c \notin DOMAIN g.things /\ c \notin g.contested
            /\ Announced(g, "device", user, Head(c.id))
  BY <1>8 DEF ChildrenAreSaid, GraphStands
<1>14. /\ task \in tasks /\ TaskFits(graph, task) /\ TasksFit(graph, tasks) /\ user \in DOMAIN graph.things /\ user.type = "user"
       /\ task.call = "device"
  BY <1>4, DueIsWaiting DEF TaskFits, OfPrincipals
<1>15. user = TheUser(Head(user.id))
  BY <1>13, <1>14 DEF GraphFits, ThingFits, Listed, TheUser
<1>16. /\ IsGraph(a) /\ DOMAIN a.things = DOMAIN g.things \cup DOMAIN facts
       /\ \A t \in DOMAIN facts : a.things[t] = facts[t]
       /\ \A t \in DOMAIN g.things : t \notin DOMAIN facts => a.things[t] = g.things[t]
       /\ a.outcomes = g.outcomes \cup {Identified(t) : t \in DOMAIN facts}
       /\ a.links = g.links /\ a.mentions = g.mentions /\ a.contested = g.contested
  BY <1>13, AdmittedFields
<1> HIDE DEF a
<1>17. /\ IsGraph(h) /\ h.links = a.links \cup links
       /\ h.things = a.things /\ h.outcomes = a.outcomes /\ h.mentions = a.mentions /\ h.contested = a.contested
  BY <1>16, RelateFields
<1> HIDE DEF h
<1>18. /\ DOMAIN h.things \ DOMAIN g.things = own /\ DOMAIN g.things \subseteq DOMAIN h.things
       /\ \A t \in DOMAIN g.things : h.things[t] = g.things[t]
       /\ \A c \in own : h.things[c].owner = Head(user.id)
       /\ h.outcomes = g.outcomes \cup {Identified(t) : t \in own}
       /\ h.links = g.links \cup links /\ h.mentions = g.mentions /\ h.contested = g.contested
  <2>1. \A c \in own : c \notin DOMAIN g.things
    BY <1>13
  <2>2. DOMAIN h.things = DOMAIN g.things \cup own
    BY <1>10, <1>16, <1>17
  <2>3. \A t \in DOMAIN g.things : h.things[t] = g.things[t]
    BY <1>10, <1>16, <1>17, <2>1
  <2>4. \A c \in own : h.things[c].owner = Head(user.id)
    BY <1>10, <1>11, <1>16, <1>17
  <2>5. h.outcomes = g.outcomes \cup {Identified(t) : t \in own}
    BY <1>10, <1>16, <1>17
  <2>6. h.links = g.links \cup links /\ h.mentions = g.mentions /\ h.contested = g.contested
    BY <1>16, <1>17
  <2>7. QED
    BY <2>1, <2>2, <2>3, <2>4, <2>5, <2>6
<1>19. Grows(g, h)
  BY <1>17, <1>18 DEF Grows
<1>20. \A c \in own : Identified(c) \in h.outcomes
  BY <1>18
<1>21. \A t : Identified(t).kind = "identity" /\ Identified(t).about = t
  BY DEF Outcome
<1>22. \A c \in own : OutcomeFits(h, Identified(c)) /\ SourceIsTrue(directory, touched, h, Identified(c))
  BY <1>18, IdentityFits
<1> HIDE DEF Identified
<1>23. ASSUME NEW c \in own PROVE ThingFits(h, c) /\ c \notin g.contested /\ ThingIsTrue(directory, touched, h, c)
  <2>1. TheUser(h.things[c].owner) = user /\ user \in DOMAIN h.things
    BY <1>13, <1>15, <1>18
  <2>2. Announced(h, "device", user, Head(c.id))
    BY <1>13, <1>19, SaidStays DEF Grows
  <2>3. ThingFits(h, c)
    BY <1>13, <2>1, <2>2 DEF ThingFits, ChildKinds, Listed
  <2>4. QED
    BY <1>13, <2>3 DEF ThingIsTrue, Kinds
<1>24. ASSUME NEW o \in h.outcomes \ g.outcomes
       PROVE  /\ o.kind = "identity" /\ OutcomeFits(h, o) /\ SourceIsTrue(directory, touched, h, o)
              /\ \A p \in h.outcomes : p.kind = o.kind /\ p.about = o.about => p = o
  <2>1. PICK c \in own : o = Identified(c)
    BY <1>18
  <2>2. \A p \in g.outcomes : p.about \in DOMAIN g.things \cup {Everything}
    BY <1>13 DEF GraphFits, OutcomeFits
  <2>3. c # Everything
    BY <1>13 DEF Everything, Thing
  <2>4. \A p \in g.outcomes : p.about # c
    BY <1>13, <2>2, <2>3
  <2>5. QED
    BY <1>18, <1>21, <1>22, <2>1, <2>4
<1>25. ASSUME NEW l \in h.links \ g.links PROVE LinkFits(h, l)
  <2>1. complete
    BY <1>18, <1>25 DEF links
  <2>2. PICK c \in own : l = Relation("device", user, c, "identity", c)
    BY <1>18, <1>25, <2>1 DEF links
  <2>3. c \in DOMAIN h.things /\ c.type = "device" /\ user = TheUser(h.things[c].owner)
    BY <1>13, <1>15, <1>18
  <2>4. Outcome("identity", c, "PRESENT", {}) \in h.outcomes
    BY <1>20 DEF Identified
  <2>5. QED
    BY <1>4, <1>13, <1>19, <2>1, <2>2, <2>3, <2>4, ChildLinksFit
<1>26. GraphStands(directory, touched, h)
  <2>1. \A t \in DOMAIN h.things \ DOMAIN g.things :
           ThingFits(h, t) /\ t \notin g.contested /\ Outcome("identity", t, "PRESENT", {}) \in h.outcomes
    BY <1>18, <1>20, <1>23 DEF Identified
  <2>2. \A t \in DOMAIN h.things :
          t \notin DOMAIN g.things \/ h.things[t] # g.things[t] => ThingIsTrue(directory, touched, h, t)
    BY <1>18, <1>23
  <2>3. \A m \in h.mentions \ g.mentions : MentionFits(h, m)
    BY <1>18
  <2>4. QED
    BY <1>13, <1>19, <1>24, <1>25, <2>1, <2>2, <2>3, GraphGrows
<1>27. ASSUME NEW t \in tasks \ {task} PROVE TaskFits(h, t)
  <2>1. TaskFits(g, t) /\ Unsaid(g, KindOf(t.call), t.about) /\ t.call \in Calls
    BY <1>13 DEF TaskFits
  <2>2. KindOf(t.call) # "identity"
    BY <2>1 DEF Calls, KindOf, Listed
  <2>3. Unsaid(h, KindOf(t.call), t.about)
    BY <1>24, <2>1, <2>2 DEF Unsaid
  <2>4. t.call \in Listed => \A x \in DOMAIN h.things \ DOMAIN g.things : x.type # t.call
    BY <1>13, <1>18 DEF Listed
  <2>5. t.call \in {"usage", "document"} => t.about.type \in {"key", "inline"} /\ t.about \notin DOMAIN g.things
    BY <2>1 DEF TaskFits, UsageFits, DocumentFits, Thing, Inline
  <2>6. t.call \in {"usage", "document"} => t.about \notin DOMAIN h.things
    BY <1>13, <1>18, <2>5
  <2>7. QED
    BY <1>19, <2>1, <2>3, <2>4, <2>6, TaskStays
<1>28. \A o \in h.outcomes : o.kind \in {p.kind : p \in graph.outcomes} \cup {"identity", KindOf("device")}
  BY <1>4, <1>13, <1>24
<1>29. \A k, about : ~Unsaid(g, k, about) => ~Unsaid(h, k, about)
  BY <1>19, SaidStays DEF Grows
<1>30. \A u \in DOMAIN h.things \ DOMAIN graph.things : u.type # "user"
  BY <1>13, <1>18
<1>31. OneTaskEach({})
  BY DEF OneTaskEach
<1>32. \A k \in {"user", "device"} : \A about : ~Unsaid(graph, k, about) => ~Unsaid(h, k, about)
  BY <1>13, <1>29
<1>33. ~Unsaid(h, KindOf("device"), task.about)
  BY <1>4, <1>13, <1>29
<1> HIDE DEF user
<1>34. QED
  BY <1>12, <1>26, <1>27, <1>28, <1>30, <1>31, <1>32, <1>33, CallIsMade

LEMMA KeysAreRead ==
  ASSUME IdentityInv, ReadKeys
  PROVE  IdentityInv'
<1> DEFINE KeysOf0(task) == Named(task.about).keys
           KeyFacts(task, id) ==
             LET k == CHOOSE k \in KeysOf0(task) : k.id = id
             IN [Facts EXCEPT !.owner = Head(task.about.id), !.name = NameOf(task.about),
                              !.status = k.status, !.created = k.created]
           Found(task, listed) == Children("key", task.about, ReadChildren(listed))
           NewCalls(task, listed) ==
             {Task("usage", c, task.about, KeyFacts(task, Head(c.id))) : c \in Found(task, listed).own}
<1>1. PICK task \in Due("key") : \E listed \in ListingsOf(task.about, {k.id : k \in KeysOf0(task)}) : \E wrong :
        Made(task, Found(task, listed).graph, NewCalls(task, listed), wrong)
  BY DEF ReadKeys
<1>2. PICK listed \in ListingsOf(task.about, {k.id : k \in KeysOf0(task)}) : \E wrong :
        Made(task, Found(task, listed).graph, NewCalls(task, listed), wrong)
  BY <1>1
<1>3. PICK wrong : Made(task, Found(task, listed).graph, NewCalls(task, listed), wrong)
  BY <1>2
<1> DEFINE user == task.about
           keys == KeysOf0(task)
           read == ReadChildren(listed)
           own == Found(task, listed).own
           h == Found(task, listed).graph
           calls == NewCalls(task, listed)
<1>4. "key" \in ChildKinds /\ KindOf("key") = "key"
  BY DEF ChildKinds, KindOf
<1>5. {k.id : k \in keys} = Holds(Named(user), "key")
  BY DEF Holds
<1>6. /\ Exists(user) => IsReadOf(read, {k.id : k \in keys})
      /\ read.errors = {} /\ NameOf(user) \notin touched => read.kept = Holds(Named(user), "key")
  <2> DEFINE ids == {k.id : k \in keys}
  <2>1. ids = Holds(Named(user), "key") /\ listed \in ListingsOf(user, ids)
    BY <1>2, <1>5
  <2> HIDE DEF ids
  <2>2. /\ Exists(user) => IsReadOf(read, ids)
        /\ read.errors = {} /\ NameOf(user) \notin touched => read.kept = ids
    BY <1>4, <2>1, ChildrenOfUser
  <2>3. QED
    BY <2>1, <2>2 DEF ids
<1> HIDE DEF read
<1>7. ChildrenAreSaid("key", task, read, Children("key", user, read).own, Children("key", user, read).graph)
  BY <1>4, <1>6, ChildrenAreSaidOnce
<1>8. ChildrenAreSaid("key", task, read, own, h)
  BY <1>7 DEF read
<1> HIDE DEF own, h
<1>9. /\ GraphStands(directory, touched, h)
      /\ \A t \in tasks \ {task} : TaskFits(h, t)
      /\ DOMAIN h.things \subseteq DOMAIN graph.things /\ user \in DOMAIN h.things
      /\ \A t \in DOMAIN h.things : h.things[t] = graph.things[t]
      /\ \A o \in h.outcomes : o.kind \in {p.kind : p \in graph.outcomes} \cup {"key"}
      /\ \A k \in {"user", "device"} : \A about : ~Unsaid(graph, k, about) => ~Unsaid(h, k, about)
      /\ ~Unsaid(h, "key", user)
      /\ \A c \in own :
            /\ c = Thing("key", <<Head(c.id)>>) /\ c.type = "key" /\ Head(c.id) \in read.kept
            /\ c \notin DOMAIN h.things /\ c \notin h.contested
            /\ Announced(h, "key", user, Head(c.id)) /\ Unsaid(h, "usage", c)
  BY <1>8 DEF ChildrenAreSaid
<1>10. /\ task \in tasks /\ TaskFits(graph, task) /\ TasksFit(graph, tasks) /\ task.call = "key" /\ task.of = Current
       /\ user \in Things /\ user.type = "user" /\ task.of = user /\ Unsaid(graph, "key", user)
       /\ GraphFits(graph) /\ phase = "principals"
  BY <1>4, DueIsWaiting DEF TaskFits, OfPrincipals, Things
<1>11. user = TheUser(Head(user.id))
  BY <1>10 DEF GraphFits, ThingFits, Listed, TheUser, Things
<1>12. NameOf(user) = h.things[user].name
  BY <1>9 DEF NameOf
<1> HIDE DEF KeyFacts
<1>13. ASSUME NEW c \in own, NEW u, u = Task("usage", c, user, KeyFacts(task, Head(c.id)))
       PROVE  /\ u = Task(u.call, u.about, u.of, u.facts)
              /\ u.call = "usage" /\ u.about = c /\ u.of = user
              /\ TaskFits(h, u) /\ TaskIsTrue(directory, touched, u)
  <2> DEFINE k == CHOOSE k \in keys : k.id = Head(c.id)
             f == KeyFacts(task, Head(c.id))
  <2>1. u.call = "usage" /\ u.about = c /\ u.of = user /\ u.facts = f /\ u = Task(u.call, u.about, u.of, u.facts)
    BY <1>13 DEF Task
  <2>2. f = [Facts EXCEPT !.owner = Head(user.id), !.name = NameOf(user), !.status = k.status, !.created = k.created]
    BY DEF KeyFacts
  <2> HIDE DEF k
  <2>3. /\ AreFacts(f) /\ f.owner = Head(user.id) /\ f.name = NameOf(user)
        /\ f.status = k.status /\ f.created = k.created
    <3>1. f = [name |-> NameOf(user), owner |-> Head(user.id), status |-> k.status, created |-> k.created,
               used |-> NoValue, version |-> NoValue]
      BY <2>2 DEF Facts
    <3> HIDE DEF f, user
    <3>2. /\ f.owner = Head(user.id) /\ f.name = NameOf(user) /\ f.status = k.status /\ f.created = k.created
          /\ f.used = NoValue /\ f.version = NoValue
      BY <3>1
    <3>3. AreFacts(f)
      BY <3>1, <3>2 DEF AreFacts
    <3>4. QED
      BY <3>2, <3>3
  <2> HIDE DEF f
  <2>4. UsageFits(h, u)
    BY <1>9, <1>11, <1>12, <2>1, <2>3 DEF UsageFits
  <2>5. TaskFits(h, u)
    BY <1>9, <2>1, <2>3, <2>4 DEF TaskFits, KindOf, Calls, Listed, OfPrincipals
  <2>6. ASSUME NameOf(user) \notin touched PROVE IsKeyOf(directory.principals[NameOf(user)], Head(c.id), f)
    <3>1. Exists(user)
      BY <1>10, <2>6, PrincipalIsThere DEF Kinds
    <3>2. Head(c.id) \in {l.id : l \in keys}
      BY <1>6, <1>9, <3>1 DEF IsReadOf
    <3>3. \E l \in keys : l.id = Head(c.id)
      BY <3>2
    <3>4. k \in keys /\ k.id = Head(c.id)
      BY <3>3 DEF k
    <3>5. QED
      BY <2>3, <3>4 DEF IsKeyOf, Named
  <2>7. TaskIsTrue(directory, touched, u)
    BY <2>1, <2>3, <2>6 DEF TaskIsTrue
  <2>8. QED
    BY <2>1, <2>5, <2>7
<1>14. ASSUME NEW u \in calls
       PROVE  /\ u.about \in own /\ u = Task("usage", u.about, user, KeyFacts(task, Head(u.about.id)))
              /\ u.call = "usage" /\ u.of = user
              /\ TaskFits(h, u) /\ TaskIsTrue(directory, touched, u)
  <2>1. PICK c \in own : u = Task("usage", c, user, KeyFacts(task, Head(c.id)))
    BY DEF own
  <2>2. u.about = c /\ u.call = "usage" /\ u.of = user /\ TaskFits(h, u) /\ TaskIsTrue(directory, touched, u)
    BY <1>13, <2>1
  <2>3. QED
    BY <2>1, <2>2
<1>15. Made(task, h, calls, wrong)
  BY <1>3 DEF h
<1> HIDE DEF calls
<1>16. OneTaskEach(calls)
  BY <1>14, Zenon DEF OneTaskEach
<1>17. ASSUME NEW t \in tasks, NEW u \in calls, t.call = u.call, t.about = u.about PROVE FALSE
  <2>1. t.call = "usage" /\ TaskFits(graph, t)
    BY <1>10, <1>14, <1>17 DEF TasksFit
  <2>2. t.of = user
    BY <1>10, <2>1 DEF IdentityInv, UsageIsNext
  <2>3. Announced(graph, "key", user, Head(t.about.id))
    BY <2>1, <2>2 DEF TaskFits, UsageFits
  <2>4. QED
    BY <1>10, <2>3 DEF Announced, Unsaid
<1>18. \A o \in h.outcomes : o.kind \in {p.kind : p \in graph.outcomes} \cup {"identity", KindOf("key")}
  BY <1>4, <1>9
<1>19. \A u \in DOMAIN h.things \ DOMAIN graph.things : u.type # "user"
  BY <1>9
<1>20. ~Unsaid(h, KindOf("key"), task.about)
  BY <1>4, <1>9
<1>21. \A u \in calls : u.of = task.of /\ u.call \notin {"metadata", "version"}
  BY <1>10, <1>14
<1>22. \A t \in tasks \ {task}, u \in calls : ~(t.call = u.call /\ t.about = u.about)
  BY <1>17
<1>23. phase # "policies"
  BY <1>10
<1> HIDE DEF user
<1>24. QED
  BY <1>9, <1>14, <1>15, <1>16, <1>18, <1>19, <1>20, <1>21, <1>22, <1>23, CallIsMade

-----------------------------------------------------------------------------
(* Identities: accounts that change                                              *)

\* What is not among the touched b is in the account e as it was in d.
Turned(d, c, e, b) ==
  /\ \A x : x \notin b =>
       /\ x \notin c
       /\ x \in DOMAIN d.principals <=> x \in DOMAIN e.principals
       /\ x \in DOMAIN d.principals => d.principals[x] = e.principals[x]
       /\ x \in DOMAIN d.policies <=> x \in DOMAIN e.policies
       /\ x \in DOMAIN d.policies => d.policies[x] = e.policies[x]
  /\ "root" \notin b => d.root = e.root

LEMMA TruthTurns ==
  ASSUME NEW d, NEW c, NEW e, NEW b, Turned(d, c, e, b), NEW g, GraphFits(g), GraphIsTrue(d, c, g)
  PROVE  GraphIsTrue(e, b, g)
<1>1. \A t \in DOMAIN g.things : ThingFits(g, t) /\ ThingIsTrue(d, c, g, t)
  BY DEF GraphFits, GraphIsTrue
<1>2. \A x : x \notin b =>
        /\ x \notin c
        /\ x \in DOMAIN d.principals <=> x \in DOMAIN e.principals
        /\ x \in DOMAIN d.principals => d.principals[x] = e.principals[x]
        /\ x \in DOMAIN d.policies <=> x \in DOMAIN e.policies
        /\ x \in DOMAIN d.policies => d.policies[x] = e.policies[x]
  BY DEF Turned
<1>3. ASSUME NEW t \in DOMAIN g.things, t.type \in Kinds, g.things[t].name \notin b
      PROVE  /\ g.things[t].name \notin c /\ g.things[t].name \in DOMAIN d.principals
             /\ d.principals[g.things[t].name] = e.principals[g.things[t].name]
  BY <1>1, <1>2, <1>3 DEF ThingIsTrue, PrincipalIsTrue
<1>4. \A t \in DOMAIN g.things : t.type \in ChildKinds =>
        LET u == TheUser(g.things[t].owner) IN u \in DOMAIN g.things /\ u.type \in Kinds
  <2>1. \A id : TheUser(id).type \in Kinds
    BY ThingIsTyped DEF TheUser, Kinds
  <2>2. QED
    BY <1>1, <2>1 DEF ThingFits
<1>5. \A t \in DOMAIN g.things : t.type = "inline" => g.things[t].owner \in DOMAIN g.things /\ g.things[t].owner.type \in Kinds
  BY <1>1 DEF ThingFits
<1>6. ASSUME NEW t \in DOMAIN g.things PROVE ThingIsTrue(e, b, g, t)
  <2>1. t.type \in Kinds => PrincipalIsTrue(e, b, g, t)
    <3>1. ASSUME t.type \in Kinds PROVE PrincipalIsTrue(e, b, g, t)
      <4> DEFINE name == g.things[t].name
      <4>1. PrincipalIsTrue(d, c, g, t)
        BY <1>1, <3>1 DEF ThingIsTrue
      <4>2. name \notin b => name \in DOMAIN e.principals /\ e.principals[name].kind = t.type /\ e.principals[name].id = Head(t.id)
        BY <1>2, <1>3, <3>1, <4>1 DEF PrincipalIsTrue
      <4>3. \A n \in DOMAIN e.principals \ b : e.principals[n].id = Head(t.id) => name = n
        BY <1>2, <4>1 DEF PrincipalIsTrue
      <4>4. QED
        BY <4>2, <4>3 DEF PrincipalIsTrue
    <3>2. QED
      BY <3>1
  <2>2. t.type = "key" => KeyIsTrue(e, b, g, t)
    BY <1>1, <1>3, <1>4 DEF ThingIsTrue, KeyIsTrue, ChildKinds
  <2>3. t.type = "policy" => PolicyIsTrue(e, b, g, t)
    BY <1>1, <1>2 DEF ThingIsTrue, PolicyIsTrue
  <2>4. QED
    BY <2>1, <2>2, <2>3 DEF ThingIsTrue
<1>7. ASSUME NEW o \in g.outcomes PROVE SourceIsTrue(e, b, g, o)
  <2>1. SourceIsTrue(d, c, g, o)
    BY DEF GraphIsTrue
  <2>2. SummaryIsTrue(d, c, o) => SummaryIsTrue(e, b, o)
    BY <1>2 DEF SummaryIsTrue, Turned
  <2>3. ListingIsTrue(d, c, o) => ListingIsTrue(e, b, o)
    BY <1>2 DEF ListingIsTrue
  <2>4. o.kind \in OfPrincipals /\ HoldingIsTrue(d, c, g, o) => HoldingIsTrue(e, b, g, o)
    BY <1>3, <2>1 DEF HoldingIsTrue, SourceIsTrue
  <2>5. VersionIsTrue(d, c, o) => VersionIsTrue(e, b, o)
    BY <1>2 DEF VersionIsTrue
  <2>6. o.kind = "document" /\ o.about.type = "inline" /\ InlineIsTrue(d, c, g, o) => InlineIsTrue(e, b, g, o)
    BY <1>3, <1>5, <2>1 DEF InlineIsTrue, SourceIsTrue
  <2>7. o.kind = "usage" /\ UsageIsTrue(d, c, g, o) => UsageIsTrue(e, b, g, o)
    BY <1>3, <1>4, <2>1 DEF UsageIsTrue, SourceIsTrue, ChildKinds
  <2>8. QED
    BY <2>1, <2>2, <2>3, <2>4, <2>5, <2>6, <2>7 DEF SourceIsTrue
<1>8. QED
  BY <1>6, <1>7 DEF GraphIsTrue

LEMMA DirectoryChanges ==
  ASSUME IdentityInv, ChangeDirectory
  PROVE  IdentityInv'
<1>1. PICK turned \in Turns[directory] :
        /\ directory' = turned
        /\ touched' = touched \cup Differing(directory.principals, turned.principals)
                              \cup Differing(directory.policies, turned.policies)
                              \cup (IF directory.root = turned.root THEN {} ELSE {"root"})
  BY DEF ChangeDirectory
<1>2. phase' = phase /\ tasks' = tasks /\ graph' = graph
  BY DEF ChangeDirectory
<1>3. /\ IdentityTypes /\ GraphFits(graph) /\ GraphIsTrue(directory, touched, graph)
      /\ TasksFit(graph, tasks) /\ PhaseFits(phase, graph, tasks) /\ NothingIsForgotten(graph, tasks)
      /\ (\A t \in tasks : TaskIsTrue(directory, touched, t)) /\ UsageIsNext
  BY DEF IdentityInv, GraphStands
<1>4. directory' \in Directories
  BY <1>1, <1>3, TurnsAssumption DEF IdentityTypes
<1>5. Turned(directory, touched, directory', touched')
  <2>1. \A x : x \notin touched' =>
          x \notin touched /\ x \notin Differing(directory.principals, turned.principals)
          /\ x \notin Differing(directory.policies, turned.policies)
    BY <1>1
  <2>2. "root" \notin touched' => directory.root = turned.root
    BY <1>1
  <2>3. \A f, k, x : x \notin Differing(f, k) =>
          (x \in DOMAIN f <=> x \in DOMAIN k) /\ (x \in DOMAIN f => f[x] = k[x])
    BY DEF Differing
  <2>4. QED
    BY <1>1, <2>1, <2>2, <2>3 DEF Turned
<1>6. GraphIsTrue(directory', touched', graph)
  BY <1>3, <1>5, TruthTurns
<1>7. ASSUME NEW t \in tasks PROVE TaskIsTrue(directory', touched', t)
  <2>1. ASSUME t.call = "usage", t.facts.name \notin touched'
        PROVE  IsKeyOf(directory'.principals[t.facts.name], Head(t.about.id), t.facts)
    <3>1. UsageFits(graph, t)
      BY <1>3, <2>1 DEF TasksFit, TaskFits
    <3>2. t.of.type \in Kinds
      BY <3>1, ThingIsTyped DEF UsageFits, TheUser, Kinds
    <3>3. ThingIsTrue(directory, touched, graph, t.of)
      BY <1>3, <3>1 DEF GraphIsTrue, UsageFits
    <3>4. t.facts.name = graph.things[t.of].name
      BY <3>1 DEF UsageFits
    <3>5. t.facts.name \notin touched
      BY <1>5, <2>1 DEF Turned
    <3>6. t.facts.name \in DOMAIN directory.principals
      BY <3>2, <3>3, <3>4, <3>5 DEF ThingIsTrue, PrincipalIsTrue
    <3>7. directory.principals[t.facts.name] = directory'.principals[t.facts.name]
      BY <1>5, <2>1, <3>6 DEF Turned
    <3>8. QED
      BY <1>3, <2>1, <3>5, <3>7 DEF TaskIsTrue
  <2>2. QED
    BY <2>1 DEF TaskIsTrue
<1>8. /\ IdentityTypes' /\ GraphStands(directory, touched, graph)'
      /\ TasksFit(graph, tasks)' /\ PhaseFits(phase, graph, tasks)' /\ NothingIsForgotten(graph, tasks)'
  <2>1. IdentityTypes'
    BY <1>2, <1>3, <1>4 DEF IdentityTypes
  <2>2. GraphStands(directory, touched, graph)'
    BY <1>2, <1>3, <1>6 DEF GraphStands
  <2>3. TasksFit(graph, tasks)' /\ PhaseFits(phase, graph, tasks)' /\ NothingIsForgotten(graph, tasks)'
    BY <1>2, <1>3
  <2>4. QED
    BY <2>1, <2>2, <2>3
<1>9. (\A t \in tasks : TaskIsTrue(directory, touched, t))'
  BY <1>2, <1>7
<1>10. UsageIsNext'
  BY <1>2, <1>3 DEF UsageIsNext, Current, Waiting
<1>11. QED
  BY <1>8, <1>9, <1>10 DEF IdentityInv

LEMMA IdentitiesBegin ==
  ASSUME IdentityInit
  PROVE  IdentityInv
<1>1. /\ directory \in Directories /\ touched = {} /\ graph = EmptyGraph /\ phase = "principals"
      /\ tasks = Ask({"summary", "user", "group", "role", "policy"}, Everything)
  BY DEF IdentityInit
<1>2. /\ IsGraph(graph) /\ DOMAIN graph.things = {} /\ graph.outcomes = {} /\ graph.links = {}
      /\ graph.mentions = {} /\ graph.contested = {}
  BY <1>1, EmptyIsGraph DEF EmptyGraph
<1>3. GraphStands(directory, touched, graph)
  BY <1>2 DEF GraphStands, GraphFits, GraphIsTrue, Unique
<1>4. ASSUME NEW t \in tasks
      PROVE  /\ t.call \in {"summary"} \cup Listed /\ t = Task(t.call, Everything, Everything, Facts)
             /\ t.about = Everything /\ t.of = Everything /\ t.facts = Facts /\ t = Task(t.call, t.about, t.of, t.facts)
  <2>1. PICK c \in {"summary", "user", "group", "role", "policy"} : t = Task(c, Everything, Everything, Facts)
    BY <1>1 DEF Ask
  <2>2. t.call = c /\ t.about = Everything /\ t.of = Everything /\ t.facts = Facts
    BY <2>1 DEF Task
  <2>3. QED
    BY <2>1, <2>2 DEF Listed
<1>5. ASSUME NEW t \in tasks PROVE TaskFits(graph, t) /\ TaskIsTrue(directory, touched, t) /\ t.call # "usage"
  <2>1. AreFacts(t.facts)
    BY <1>4 DEF AreFacts, Facts
  <2>2. QED
    BY <1>2, <1>4, <2>1 DEF TaskFits, TaskIsTrue, Unsaid, Calls, Listed, OfPrincipals
<1>6. TasksFit(graph, tasks)
  <2>1. OneTaskEach(tasks)
    BY <1>4, Zenon DEF OneTaskEach
  <2>2. QED
    BY <1>5, <2>1 DEF TasksFit
<1>7. PhaseFits(phase, graph, tasks)
  BY <1>1, <1>2, <1>4 DEF PhaseFits, Listed
<1>8. NothingIsForgotten(graph, tasks)
  <2>1. Task("user", Everything, Everything, Facts) \in tasks /\ Task("user", Everything, Everything, Facts).call = "user"
    BY <1>1 DEF Ask, Task
  <2>2. QED
    BY <1>2, <2>1 DEF NothingIsForgotten
<1>9. QED
  BY <1>1, <1>3, <1>5, <1>6, <1>7, <1>8 DEF IdentityInv, IdentityTypes, UsageIsNext

\* However the account changes during the scan and whatever its answers: what the
\* builder has collected is consistent, and says what there is where nobody touched it.
THEOREM IdentityGraphIsTrue == IdentitySpec => []IdentityInv
<1>1. IdentityInit => IdentityInv
  BY IdentitiesBegin
<1>2. IdentityInv /\ [IdentityNext]_identityVars => IdentityInv'
  <2> SUFFICES ASSUME IdentityInv, [IdentityNext]_identityVars PROVE IdentityInv'
    OBVIOUS
  <2>1. CASE ReadSummary
    BY <2>1, SummaryIsRead
  <2>2. CASE ListIdentities
    BY <2>2, IdentitiesAreListed
  <2>3. CASE ReadTags
    BY <2>3, TagsAreRead
  <2>4. CASE ReadDevices
    BY <2>4, DevicesAreRead
  <2>5. CASE ReadKeys
    BY <2>5, KeysAreRead
  <2>6. CASE ReadKeyUsage
    BY <2>6, KeyUsageIsRead
  <2>7. CASE ReadProfile
    BY <2>7, ProfileIsRead
  <2>8. CASE ReadAttached
    BY <2>8, AttachedAreRead
  <2>9. CASE ReadInlineNames
    BY <2>9, InlineNamesAreRead
  <2>10. CASE ReadInlineDocument
    BY <2>10, InlineDocumentIsRead
  <2>11. CASE ReadMembers
    BY <2>11, MembersAreRead
  <2>12. CASE MaterializePolicies
    BY <2>12, PoliciesAreMaterialized
  <2>13. CASE ReadPolicyMetadata
    BY <2>13, PolicyMetadataIsRead
  <2>14. CASE ReadVersion
    BY <2>14, VersionIsRead
  <2>15. CASE ChangeDirectory
    BY <2>15, DirectoryChanges
  <2>16. CASE UNCHANGED identityVars
    <3>1. /\ directory' = directory /\ touched' = touched /\ phase' = phase /\ tasks' = tasks /\ graph' = graph
      BY <2>16 DEF identityVars
    <3>2. /\ IdentityTypes' /\ UsageIsNext'
          /\ GraphStands(directory, touched, graph)' /\ TasksFit(graph, tasks)'
          /\ PhaseFits(phase, graph, tasks)' /\ NothingIsForgotten(graph, tasks)'
      BY <3>1 DEF IdentityInv, IdentityTypes, UsageIsNext, Current, Waiting
    <3>3. (\A t \in tasks : TaskIsTrue(directory, touched, t))'
      BY <3>1 DEF IdentityInv
    <3>4. QED
      BY <3>2, <3>3 DEF IdentityInv
  <2>17. QED
    BY <2>1, <2>2, <2>3, <2>4, <2>5, <2>6, <2>7, <2>8, <2>9, <2>10, <2>11, <2>12, <2>13, <2>14, <2>15, <2>16
       DEF IdentityNext
<1>3. QED
  BY <1>1, <1>2, PTL DEF IdentitySpec

-----------------------------------------------------------------------------
(* Identities: what the controls conclude                                        *)

\* A source that was answered in some state is completed in it, and the reverse.
LEMMA SaidIsComplete ==
  ASSUME Unique(graph), NEW states, NEW kind, NEW about, Said(graph, kind, about, states)
  PROVE  CompleteAs(states, kind, about)
<1>1. PICK o \in graph.outcomes : o.kind = kind /\ o.about = about /\ o.state \in states
  BY DEF Said
<1>2. OutcomesFor(kind, about) = {o}
  BY <1>1 DEF Unique, OutcomesFor, OutcomesOf
<1>3. Cardinality({o}) = 1
  BY FS_Singleton
<1>4. QED
  BY <1>1, <1>2, <1>3 DEF CompleteAs

LEMMA CompleteIsSaid ==
  ASSUME Unique(graph), NEW states, NEW kind, NEW about, CompleteAs(states, kind, about)
  PROVE  \E o \in graph.outcomes : /\ o.kind = kind /\ o.about = about /\ o.state \in states
                                   /\ OutcomesFor(kind, about) = {o} /\ SaidBy(kind, about) = o.says
<1>1. Cardinality({}) = 0
  BY FS_EmptySet
<1>2. OutcomesFor(kind, about) # {}
  BY <1>1 DEF CompleteAs
<1>3. PICK o \in graph.outcomes : o.kind = kind /\ o.about = about /\ o \in OutcomesFor(kind, about)
  BY <1>2 DEF OutcomesFor, OutcomesOf
<1>4. OutcomesFor(kind, about) = {o}
  BY <1>3 DEF Unique, OutcomesFor, OutcomesOf
<1>5. o.state \in states
  BY <1>3 DEF CompleteAs
<1>6. SaidBy(kind, about) = o.says
  BY <1>4 DEF SaidBy
<1>7. QED
  BY <1>3, <1>4, <1>5, <1>6

LEMMA SaidIsSo ==
  ASSUME IdentityInv, NEW o \in graph.outcomes
  PROVE  /\ SourceIsTrue(directory, touched, graph, o) /\ OutcomeFits(graph, o)
         /\ OutcomesFor(o.kind, o.about) = {o} /\ SaidBy(o.kind, o.about) = o.says
<1>1. SourceIsTrue(directory, touched, graph, o) /\ OutcomeFits(graph, o) /\ Unique(graph)
  BY DEF IdentityInv, GraphStands, GraphFits, GraphIsTrue
<1>2. OutcomesFor(o.kind, o.about) = {o}
  BY <1>1 DEF Unique, OutcomesFor, OutcomesOf
<1>3. QED
  BY <1>1, <1>2 DEF SaidBy

\* A complete source says what there is; this is what the controls rely on.
LEMMA CompletedIsTrue ==
  ASSUME IdentityInv, NEW kind, NEW about, Completed(kind, about)
  PROVE  \E o \in graph.outcomes : /\ o.kind = kind /\ o.about = about /\ o.state = "PRESENT"
                                   /\ SaidBy(kind, about) = o.says /\ SourceIsTrue(directory, touched, graph, o)
<1>1. Unique(graph)
  BY DEF IdentityInv, GraphStands, GraphFits
<1>2. CompleteAs({"PRESENT"}, kind, about)
  BY DEF Completed
<1>3. PICK o \in graph.outcomes : /\ o.kind = kind /\ o.about = about /\ o.state \in {"PRESENT"}
                                  /\ OutcomesFor(kind, about) = {o} /\ SaidBy(kind, about) = o.says
  BY <1>1, <1>2, CompleteIsSaid
<1>4. QED
  BY <1>3, SaidIsSo

LEMMA UserIsListed ==
  ASSUME IdentityInv, NEW user \in OfType("user")
  PROVE  /\ user \in Things /\ user.type = "user" /\ user = TheUser(Head(user.id)) /\ user # Everything
         /\ PrincipalIsTrue(directory, touched, graph, user)
<1>1. user \in Things /\ user.type = "user"
  BY DEF OfType
<1>2. ThingFits(graph, user) /\ ThingIsTrue(directory, touched, graph, user)
  BY <1>1 DEF IdentityInv, GraphStands, GraphFits, GraphIsTrue, Things
<1>3. Everything.type = "account"
  BY ThingIsTyped DEF Everything
<1>4. QED
  BY <1>1, <1>2, <1>3 DEF ThingFits, ThingIsTrue, Listed, Kinds, TheUser

\* The validators of the evidence graph find nothing to refuse, however the account
\* changes while the builder works.
LEMMA GraphStandsThen ==
  ASSUME IdentityInv
  PROVE  IdentityGraphStands
<1>1. /\ GraphFits(graph) /\ Unique(graph)
      /\ \A t \in DOMAIN graph.things : ThingFits(graph, t) /\ Outcome("identity", t, "PRESENT", {}) \in graph.outcomes
      /\ \A l \in graph.links : LinkFits(graph, l)
      /\ \A c \in graph.contested : ContestFits(graph, c)
  BY DEF IdentityInv, GraphStands, GraphFits
<1>2. \A o \in graph.outcomes : o.about \in Things \cup {Everything} /\ OutcomesFor(o.kind, o.about) = {o}
  BY SaidIsSo DEF OutcomeFits, Things
<1>3. ASSUME NEW t \in Things PROVE Completed("identity", t)
  <2> DEFINE i == Outcome("identity", t, "PRESENT", {})
  <2>1. i \in graph.outcomes /\ i.kind = "identity" /\ i.about = t /\ i.state = "PRESENT"
    BY <1>1 DEF Things, Outcome
  <2>2. Said(graph, "identity", t, {"PRESENT"})
    BY <2>1 DEF Said
  <2>3. QED
    BY <1>1, <2>2, SaidIsComplete DEF Completed
<1>4. ASSUME NEW l \in graph.links
      PROVE  /\ {l.source, l.target} \subseteq Things /\ Completed(l.by.kind, l.by.about)
             /\ l.type \in {"device", "key"} =>
                  CompleteAs({"PRESENT", "CONFLICT"}, l.type, l.source) /\ Head(l.target.id) \in SaidBy(l.type, l.source)
  <2>1. LinkFits(graph, l)
    BY <1>1
  <2>2. {l.source, l.target} \subseteq Things
    BY <2>1 DEF LinkFits, Things
  <2>3. Completed(l.by.kind, l.by.about)
    BY <1>1, <2>1, SaidIsComplete DEF LinkFits, Completed
  <2>4. ASSUME l.type \in {"device", "key"}
        PROVE  CompleteAs({"PRESENT", "CONFLICT"}, l.type, l.source) /\ Head(l.target.id) \in SaidBy(l.type, l.source)
    <3>1. /\ l.target.type = l.type /\ l.source = TheUser(graph.things[l.target].owner)
          /\ Said(graph, l.type, l.source, {"PRESENT", "CONFLICT"})
      BY <2>1, <2>4 DEF LinkFits, ChildKinds
    <3>2. Announced(graph, l.type, l.source, Head(l.target.id))
      BY <1>1, <2>2, <2>4, <3>1 DEF ThingFits, ChildKinds, Things
    <3>3. Head(l.target.id) \in SaidBy(l.type, l.source)
      BY <3>2 DEF Announced, SaidBy, OutcomesFor, OutcomesOf
    <3>4. QED
      BY <1>1, <3>1, <3>3, SaidIsComplete
  <2>5. QED
    BY <2>2, <2>3, <2>4
<1>5. ASSUME NEW c \in graph.contested
      PROVE  c \notin Things /\ \E u, w \in OfType("user") : u # w /\ \A p \in {u, w} : CompleteAs({"CONFLICT"}, c.type, p)
  <2>1. ContestFits(graph, c)
    BY <1>1
  <2>2. PICK u \in DOMAIN graph.things : \E w \in DOMAIN graph.things :
          /\ u # w /\ u.type = "user" /\ w.type = "user"
          /\ Said(graph, c.type, u, {"CONFLICT"}) /\ Said(graph, c.type, w, {"CONFLICT"})
    BY <2>1 DEF ContestFits
  <2>3. PICK w \in DOMAIN graph.things :
          /\ u # w /\ u.type = "user" /\ w.type = "user"
          /\ Said(graph, c.type, u, {"CONFLICT"}) /\ Said(graph, c.type, w, {"CONFLICT"})
    BY <2>2
  <2>4. CompleteAs({"CONFLICT"}, c.type, u) /\ CompleteAs({"CONFLICT"}, c.type, w)
    BY <1>1, <2>3, SaidIsComplete
  <2>5. c \notin Things /\ u \in OfType("user") /\ w \in OfType("user")
    BY <2>1, <2>3 DEF ContestFits, Things, OfType
  <2>6. QED
    BY <2>3, <2>4, <2>5
<1>6. QED
  BY <1>2, <1>3, <1>4, <1>5 DEF IdentityGraphStands

\* What the controls are about, one by one.
LEMMA IdentityTargetsAre ==
  /\ \A t \in IdentityTargets("IAM-001") :
       t = Everything \/ (t \in OfType("user") /\ (UsersCollectorSucceeded \/ DiscoverySucceeded))
  /\ UsersCollectorSucceeded \/ DiscoverySucceeded => OfType("user") \subseteq IdentityTargets("IAM-001")
  /\ \A c \in {"IAM-002", "IAM-003"} :
       /\ \A t \in IdentityTargets(c) : t = Everything \/ t \in OfType("user")
       /\ OfType("user") \subseteq IdentityTargets(c)
  /\ \A t \in IdentityTargets("IAM-004") : t = Everything \/ t \in PolicyTargets
  /\ PolicyTargets \subseteq IdentityTargets("IAM-004")
  /\ \A c \in {"IAM-005", "IAM-006"} : IdentityTargets(c) = {Everything}
<1> DEFINE Or(found) == IF found = {} THEN {Everything} ELSE found
<1>1. IdentityTargets("IAM-001") = Or(IF UsersCollectorSucceeded \/ DiscoverySucceeded THEN OfType("user") ELSE {})
  BY Zenon DEF IdentityTargets
<1>2. IdentityTargets("IAM-002") = Or(OfType("user")) /\ IdentityTargets("IAM-003") = Or(OfType("user"))
  BY Zenon DEF IdentityTargets
<1>3. IdentityTargets("IAM-004") = Or(PolicyTargets)
  BY Zenon DEF IdentityTargets
<1>4. IdentityTargets("IAM-005") = Or({}) /\ IdentityTargets("IAM-006") = Or({})
  BY Zenon DEF IdentityTargets
<1>5. QED
  BY <1>1, <1>2, <1>3, <1>4

LEMMA AccountResultsAre ==
  /\ AccountResult("IAM-001") = IF UsersCollectorSucceeded \/ DiscoverySucceeded THEN "N/A" ELSE "INSUFFICIENT"
  /\ \A c \in {"IAM-002", "IAM-003"} :
       AccountResult(c) = IF PopulationKnown("user", {}) /\ OfType("user") = {} THEN "N/A" ELSE "INSUFFICIENT"
  /\ AccountResult("IAM-004") = IF Covered THEN "N/A" ELSE "INSUFFICIENT"
  /\ \A c \in {"IAM-005", "IAM-006"} : AccountResult(c) = SummaryResult(c)
<1>1. AccountResult("IAM-001") = IF UsersCollectorSucceeded \/ DiscoverySucceeded THEN "N/A" ELSE "INSUFFICIENT"
  BY Zenon DEF AccountResult
<1>2. /\ AccountResult("IAM-002") = IF PopulationKnown("user", {}) /\ OfType("user") = {} THEN "N/A" ELSE "INSUFFICIENT"
      /\ AccountResult("IAM-003") = IF PopulationKnown("user", {}) /\ OfType("user") = {} THEN "N/A" ELSE "INSUFFICIENT"
  BY Zenon DEF AccountResult
<1>3. AccountResult("IAM-004") = IF Covered THEN "N/A" ELSE "INSUFFICIENT"
  BY Zenon DEF AccountResult
<1>4. AccountResult("IAM-005") = SummaryResult("IAM-005") /\ AccountResult("IAM-006") = SummaryResult("IAM-006")
  BY Zenon DEF AccountResult
<1>5. QED
  BY <1>1, <1>2, <1>3, <1>4

LEMMA IdentityResultsAre ==
  /\ \A c : IdentityResult(c, Everything) = AccountResult(c)
  /\ \A t : t # Everything =>
       /\ IdentityResult("IAM-001", t) = DeviceResult(t)
       /\ IdentityResult("IAM-002", t) = KeyResult("IAM-002", t)
       /\ IdentityResult("IAM-003", t) = KeyResult("IAM-003", t)
       /\ IdentityResult("IAM-004", t) = PolicyResult(t)
<1>1. \A c : IdentityResult(c, Everything) = AccountResult(c)
  BY DEF IdentityResult
<1>2. ASSUME NEW t, t # Everything
      PROVE  /\ IdentityResult("IAM-001", t) = DeviceResult(t)
             /\ IdentityResult("IAM-002", t) = KeyResult("IAM-002", t)
             /\ IdentityResult("IAM-003", t) = KeyResult("IAM-003", t)
             /\ IdentityResult("IAM-004", t) = PolicyResult(t)
  <2>1. IdentityResult("IAM-001", t) = DeviceResult(t)
    BY <1>2, Zenon DEF IdentityResult
  <2>2. IdentityResult("IAM-002", t) = KeyResult("IAM-002", t)
    BY <1>2, Zenon DEF IdentityResult
  <2>3. IdentityResult("IAM-003", t) = KeyResult("IAM-003", t)
    BY <1>2, Zenon DEF IdentityResult
  <2>4. IdentityResult("IAM-004", t) = PolicyResult(t)
    BY <1>2, Zenon DEF IdentityResult
  <2>5. QED
    BY <2>1, <2>2, <2>3, <2>4
<1>3. QED
  BY <1>1, <1>2

LEMMA IdentityVerdictsAre ==
  /\ \A v \in IdentityVerdicts :
       /\ IdentitiesCollected /\ v.control \in IdentityControlIds /\ v.target \in IdentityTargets(v.control)
       /\ v.result = IdentityResult(v.control, v.target)
  /\ IdentitiesCollected => \A c \in IdentityControlIds : \A t \in IdentityTargets(c) :
       \E v \in IdentityVerdicts : v.control = c /\ v.target = t
<1> DEFINE Verdict(c, t) == [control |-> c, target |-> t, result |-> IdentityResult(c, t)]
           All == UNION {{Verdict(c, t) : t \in IdentityTargets(c)} : c \in IdentityControlIds}
<1>1. IdentityVerdicts = IF ~IdentitiesCollected THEN {} ELSE All
  BY DEF IdentityVerdicts
<1>2. \A c, t : Verdict(c, t).control = c /\ Verdict(c, t).target = t /\ Verdict(c, t).result = IdentityResult(c, t)
  OBVIOUS
<1> HIDE DEF Verdict
<1>3. \A v \in All : \E c \in IdentityControlIds : \E t \in IdentityTargets(c) : v = Verdict(c, t)
  OBVIOUS
<1>4. \A c \in IdentityControlIds : \A t \in IdentityTargets(c) : Verdict(c, t) \in All
  OBVIOUS
<1> HIDE DEF All
<1>5. QED
  BY <1>1, <1>2, <1>3, <1>4

\* The principal or the policy is untouched.
LEMMA UntouchedIs ==
  /\ Untouched(Everything) = ("root" \notin touched)
  /\ \A t : t.type \in Kinds /\ Untouched(t) => NameOf(t) \notin touched
  /\ \A t : t.type = "version" /\ Untouched(t) => Head(t.id) \notin touched
  /\ \A t : t.type = "inline" /\ Untouched(t) => NameOf(graph.things[t].owner) \notin touched
<1>1. Everything.type = "account"
  BY ThingIsTyped DEF Everything
<1>2. Untouched(Everything) = ("root" \notin touched)
  BY <1>1, Zenon DEF Untouched
<1>3. ASSUME NEW t, t.type \in Kinds, Untouched(t) PROVE NameOf(t) \notin touched
  <2>1. t.type # "version" /\ t.type # "inline" /\ t # Everything
    BY <1>1, <1>3 DEF Kinds
  <2>2. QED
    BY <1>3, <2>1, Zenon DEF Untouched
<1>4. ASSUME NEW t, t.type = "version", Untouched(t) PROVE Head(t.id) \notin touched
  <2>1. t.type # "inline" /\ t # Everything
    BY <1>1, <1>4
  <2>2. QED
    BY <1>4, <2>1, Zenon DEF Untouched
<1>5. ASSUME NEW t, t.type = "inline", Untouched(t) PROVE NameOf(graph.things[t].owner) \notin touched
  <2>1. t.type # "version" /\ t # Everything
    BY <1>1, <1>5
  <2>2. QED
    BY <1>5, <2>1, Zenon DEF Untouched
<1>6. QED
  BY <1>2, <1>3, <1>4, <1>5

LEMMA SafetyIs ==
  /\ \A t : IsSafe("IAM-001", t) = (Named(t).devices # {})
  /\ \A c \in {"IAM-002", "IAM-003"} : \A t :
       IsSafe(c, t) = (\A k \in HeldActive(t) : ~IsStale(c, k.created, k.used))
  /\ \A t : t.type = "version" => IsSafe("IAM-004", t) = (directory.policies[Head(t.id)].document # "admin")
  /\ \A t : t.type = "inline" =>
       IsSafe("IAM-004", t) = (Named(graph.things[t].owner).inline[t.id[3]] # "admin")
  /\ IsSafe("IAM-005", Everything) = ("keys" \notin directory.root)
  /\ IsSafe("IAM-006", Everything) = ("mfa" \in directory.root)
<1>1. \A t : IsSafe("IAM-001", t) = (Named(t).devices # {})
  BY DEF IsSafe
<1>2. \A t : IsSafe("IAM-002", t) = (\A k \in HeldActive(t) : ~IsStale("IAM-002", k.created, k.used))
  BY DEF IsSafe
<1>3. \A t : IsSafe("IAM-003", t) = (\A k \in HeldActive(t) : ~IsStale("IAM-003", k.created, k.used))
  BY DEF IsSafe
<1>4. \A t : t.type = "version" => IsSafe("IAM-004", t) = (directory.policies[Head(t.id)].document # "admin")
  BY DEF IsSafe
<1>5. \A t : t.type = "inline" =>
        IsSafe("IAM-004", t) = (Named(graph.things[t].owner).inline[t.id[3]] # "admin")
  BY DEF IsSafe
<1>6. IsSafe("IAM-005", Everything) = ("keys" \notin directory.root)
  BY DEF IsSafe
<1>7. IsSafe("IAM-006", Everything) = ("mfa" \in directory.root)
  BY DEF IsSafe
<1>8. QED
  BY <1>1, <1>2, <1>3, <1>4, <1>5, <1>6, <1>7

\* An untouched principal in the graph is in the account, under its name.
LEMMA SteadyIsThere ==
  ASSUME IdentityInv, NEW user \in OfType("user"), NameOf(user) \notin touched
  PROVE  /\ NameOf(user) \in DOMAIN directory.principals /\ directory.principals[NameOf(user)] = Named(user)
         /\ Named(user).id = Head(user.id)
<1>1. PrincipalIsTrue(directory, touched, graph, user)
  BY UserIsListed
<1>2. QED
  BY <1>1 DEF PrincipalIsTrue, NameOf, Named

\* IAM-001: the devices are trusted only where the listing was complete.
LEMMA DevicesAreTrue ==
  ASSUME IdentityInv, IdentitiesCollected, NEW user \in OfType("user"), NameOf(user) \notin touched,
         DeviceResult(user) # "INSUFFICIENT"
  PROVE  DeviceResult(user) = "PASS" <=> IsSafe("IAM-001", user)
<1>1. ~Unsaid(graph, "device", user)
  BY UserIsListed DEF IdentityInv, NothingIsForgotten, IdentitiesCollected, Things
<1>2. PICK o \in graph.outcomes : o.kind = "device" /\ o.about = user
  BY <1>1 DEF Unsaid
<1>3. /\ SourceIsTrue(directory, touched, graph, o) /\ OutcomeFits(graph, o)
      /\ OutcomesFor("device", user) = {o} /\ SaidBy("device", user) = o.says
  BY <1>2, SaidIsSo
<1>4. o.state = "PRESENT"
  <2>1. CASE UsersCollectorSucceeded
    <3>1. o.state \in {"PRESENT", "EXPECTED_ABSENCE"}
      BY <1>2, <2>1 DEF UsersCollectorSucceeded
    <3>2. QED
      BY <1>2, <1>3, <3>1 DEF OutcomeFits
  <2>2. CASE ~UsersCollectorSucceeded
    BY <1>3, <2>2 DEF DeviceResult
  <2>3. QED
    BY <2>1, <2>2
<1>5. o.says = Holds(Named(user), "device")
  BY <1>2, <1>3, <1>4 DEF SourceIsTrue, HoldingIsTrue, OfPrincipals, NameOf, Named
<1>6. Holds(Named(user), "device") = Named(user).devices
  BY DEF Holds
<1>7. SaidBy("device", user) = Named(user).devices
  BY <1>3, <1>5, <1>6
<1>8. DeviceResult(user) = "PASS" <=> Named(user).devices # {}
  BY <1>7 DEF DeviceResult
<1>9. QED
  BY <1>8, SafetyIs

\* The proven keys of a user are the keys the user has.
LEMMA KeysAreThere ==
  ASSUME IdentityInv, NEW user \in OfType("user"), NameOf(user) \notin touched, KeysAreProven(user)
  PROVE  /\ \A k \in KeysOf(user) : \E h \in Named(user).keys :
              h.id = Head(k.id) /\ h.status = graph.things[k].status /\ h.created = graph.things[k].created
         /\ \A h \in Named(user).keys : \E k \in KeysOf(user) :
              h.id = Head(k.id) /\ h.status = graph.things[k].status /\ h.created = graph.things[k].created
<1>1. Completed("key", user) /\ SaidBy("key", user) = Ids(KeysOf(user))
  BY DEF KeysAreProven
<1>2. PICK o \in graph.outcomes : /\ o.kind = "key" /\ o.about = user /\ o.state = "PRESENT"
                                  /\ SaidBy("key", user) = o.says /\ SourceIsTrue(directory, touched, graph, o)
  BY <1>1, CompletedIsTrue
<1>3. o.says = Holds(Named(user), "key")
  BY <1>2 DEF SourceIsTrue, HoldingIsTrue, OfPrincipals, NameOf, Named
<1>4. Holds(Named(user), "key") = {h.id : h \in Named(user).keys}
  BY DEF Holds
<1>5. ASSUME NEW k \in KeysOf(user)
      PROVE  \E h \in Named(user).keys :
               h.id = Head(k.id) /\ h.status = graph.things[k].status /\ h.created = graph.things[k].created
  <2>1. k \in Things /\ k.type = "key" /\ graph.things[k].owner = Head(user.id)
    BY DEF KeysOf, OfType
  <2>2. TheUser(graph.things[k].owner) = user
    BY <2>1, UserIsListed
  <2>3. KeyIsTrue(directory, touched, graph, k)
    BY <2>1 DEF IdentityInv, GraphStands, GraphIsTrue, ThingIsTrue, Things
  <2>4. IsKeyOf(Named(user), Head(k.id), graph.things[k])
    BY <2>2, <2>3 DEF KeyIsTrue, NameOf, Named
  <2>5. QED
    BY <2>4 DEF IsKeyOf
<1>6. ASSUME NEW h \in Named(user).keys
      PROVE  \E k \in KeysOf(user) :
               h.id = Head(k.id) /\ h.status = graph.things[k].status /\ h.created = graph.things[k].created
  <2>1. h.id \in Ids(KeysOf(user))
    BY <1>1, <1>2, <1>3, <1>4
  <2>2. PICK k \in KeysOf(user) : h.id = Head(k.id)
    BY <2>1 DEF Ids
  <2>3. PICK i \in Named(user).keys :
          i.id = Head(k.id) /\ i.status = graph.things[k].status /\ i.created = graph.things[k].created
    BY <1>5
  <2>4. \A x, y \in directory.principals[NameOf(user)].keys : x.id = y.id => x = y
    BY SteadyIsThere, PrincipalsAreFinite
  <2>5. i = h
    BY <2>2, <2>3, <2>4, SteadyIsThere
  <2>6. QED
    BY <2>2, <2>3, <2>5
<1>7. QED
  BY <1>5, <1>6

\* A call for the last use that did not fail says when the key was used.
LEMMA UsageIsSo ==
  ASSUME IdentityInv, NEW user \in OfType("user"), NameOf(user) \notin touched,
         NEW k \in KeysOf(user), UsageIsProven(k), NEW h \in Named(user).keys, h.id = Head(k.id)
  PROVE  h.used = graph.things[k].used
<1>1. CompleteAs({"PRESENT", "EXPECTED_ABSENCE"}, "usage", k) /\ Unique(graph)
  BY DEF UsageIsProven, IdentityInv, GraphStands, GraphFits
<1>2. PICK o \in graph.outcomes : o.kind = "usage" /\ o.about = k /\ o.state \in {"PRESENT", "EXPECTED_ABSENCE"}
  BY <1>1, CompleteIsSaid
<1>3. UsageIsTrue(directory, touched, graph, o)
  BY <1>2, SaidIsSo DEF SourceIsTrue
<1>4. TheUser(graph.things[k].owner) = user
  BY UserIsListed DEF KeysOf
<1>5. QED
  BY <1>2, <1>3, <1>4 DEF UsageIsTrue, NameOf, Named

\* IAM-002 and IAM-003: the age of an active key is what it is in the account.
LEMMA KeysAreTrue ==
  ASSUME IdentityInv, NEW c \in {"IAM-002", "IAM-003"}, NEW user \in OfType("user"), NameOf(user) \notin touched,
         KeyResult(c, user) \in {"PASS", "FAIL"}
  PROVE  KeyResult(c, user) = "PASS" <=> IsSafe(c, user)
<1> DEFINE Stale(k) == IsStale(c, graph.things[k].created, graph.things[k].used)
<1>1. /\ KeysAreProven(user)
      /\ c = "IAM-003" => \A k \in ActiveKeys(user) : UsageIsProven(k)
      /\ KeyResult(c, user) = "PASS" <=> ~\E k \in ActiveKeys(user) : Stale(k)
  BY DEF KeyResult
<1> HIDE DEF Stale
<1>2. \A used, w, created : c = "IAM-003" \/ IsStale(c, created, used) = IsStale(c, created, w)
  BY DEF IsStale, Anchor
<1>3. ASSUME NEW k \in ActiveKeys(user), NEW h \in Named(user).keys, h.id = Head(k.id),
             h.created = graph.things[k].created
      PROVE  Stale(k) = IsStale(c, h.created, h.used)
  <2>1. k \in KeysOf(user)
    BY DEF ActiveKeys
  <2>2. CASE c = "IAM-003"
    <3>1. h.used = graph.things[k].used
      BY <1>1, <1>3, <2>1, <2>2, UsageIsSo
    <3>2. QED
      BY <1>3, <3>1 DEF Stale
  <2>3. CASE c # "IAM-003"
    BY <1>2, <1>3, <2>3 DEF Stale
  <2>4. QED
    BY <2>2, <2>3
<1>4. ASSUME NEW h \in HeldActive(user)
      PROVE  \E k \in ActiveKeys(user) : Stale(k) = IsStale(c, h.created, h.used)
  <2>1. h \in Named(user).keys /\ h.status = "Active"
    BY DEF HeldActive
  <2>2. PICK k \in KeysOf(user) :
          h.id = Head(k.id) /\ h.status = graph.things[k].status /\ h.created = graph.things[k].created
    BY <1>1, <2>1, KeysAreThere
  <2>3. k \in ActiveKeys(user)
    BY <2>1, <2>2 DEF ActiveKeys
  <2>4. QED
    BY <1>3, <2>1, <2>2, <2>3
<1>5. ASSUME NEW k \in ActiveKeys(user)
      PROVE  \E h \in HeldActive(user) : Stale(k) = IsStale(c, h.created, h.used)
  <2>1. k \in KeysOf(user) /\ graph.things[k].status = "Active"
    BY DEF ActiveKeys
  <2>2. PICK h \in Named(user).keys :
          h.id = Head(k.id) /\ h.status = graph.things[k].status /\ h.created = graph.things[k].created
    BY <1>1, <2>1, KeysAreThere
  <2>3. h \in HeldActive(user)
    BY <2>1, <2>2 DEF HeldActive
  <2>4. QED
    BY <1>3, <2>2, <2>3
<1>6. (\A h \in HeldActive(user) : ~IsStale(c, h.created, h.used)) <=> ~\E k \in ActiveKeys(user) : Stale(k)
  BY <1>4, <1>5
<1>7. IsSafe(c, user) = (\A h \in HeldActive(user) : ~IsStale(c, h.created, h.used))
  BY SafetyIs
<1>8. QED
  BY <1>1, <1>6, <1>7

\* IAM-004: the document of a policy is the one it has.
LEMMA PoliciesAreTrue ==
  ASSUME IdentityInv, NEW t \in PolicyTargets, Untouched(t), PolicyResult(t) \in {"PASS", "FAIL"}
  PROVE  PolicyResult(t) = "PASS" <=> IsSafe("IAM-004", t)
<1>1. /\ t.type \in {"version", "inline"} /\ Completed("document", t)
      /\ PolicyResult(t) = "PASS" <=> "admin" \notin SaidBy("document", t)
  BY DEF PolicyResult, PolicyTargets, OfType
<1>2. PICK o \in graph.outcomes : /\ o.kind = "document" /\ o.about = t /\ o.state = "PRESENT"
                                  /\ SaidBy("document", t) = o.says /\ SourceIsTrue(directory, touched, graph, o)
  BY <1>1, CompletedIsTrue
<1>3. CASE t.type = "version"
  <2>1. Head(t.id) \notin touched
    BY <1>3, UntouchedIs
  <2>2. o.says = {directory.policies[Head(t.id)].document}
    BY <1>2, <1>3, <2>1 DEF SourceIsTrue, VersionIsTrue
  <2>3. IsSafe("IAM-004", t) = (directory.policies[Head(t.id)].document # "admin")
    BY <1>3, SafetyIs
  <2>4. QED
    BY <1>1, <1>2, <2>2, <2>3
<1>4. CASE t.type = "inline"
  <2> DEFINE owner == graph.things[t].owner
  <2>1. NameOf(owner) \notin touched
    BY <1>4, UntouchedIs
  <2>2. o.says = {Named(owner).inline[t.id[3]]}
    BY <1>2, <1>4, <2>1 DEF SourceIsTrue, InlineIsTrue, NameOf, Named
  <2>3. IsSafe("IAM-004", t) = (Named(owner).inline[t.id[3]] # "admin")
    BY <1>4, SafetyIs
  <2>4. QED
    BY <1>1, <1>2, <2>2, <2>3
<1>5. QED
  BY <1>1, <1>3, <1>4

\* IAM-005 and IAM-006: the summary is what the account has.
LEMMA SummaryResultIsTrue ==
  ASSUME IdentityInv, NEW c \in {"IAM-005", "IAM-006"}, "root" \notin touched,
         SummaryResult(c) \in {"PASS", "FAIL"}
  PROVE  SummaryResult(c) = "PASS" <=> IsSafe(c, Everything)
<1>1. Completed("summary", Everything)
  BY DEF SummaryResult
<1>2. PICK o \in graph.outcomes : /\ o.kind = "summary" /\ o.about = Everything /\ o.state = "PRESENT"
                                  /\ SaidBy("summary", Everything) = o.says
                                  /\ SourceIsTrue(directory, touched, graph, o)
  BY <1>1, CompletedIsTrue
<1>3. SaidBy("summary", Everything) = directory.root
  BY <1>2 DEF SourceIsTrue, SummaryIsTrue
<1>4. /\ SummaryResult("IAM-005") = IF "keys" \in directory.root THEN "FAIL" ELSE "PASS"
      /\ SummaryResult("IAM-006") = IF "mfa" \in directory.root THEN "PASS" ELSE "FAIL"
  BY <1>1, <1>3 DEF SummaryResult
<1>5. QED
  BY <1>4, SafetyIs

\* Every verdict on what nobody touched is the one it deserves.
LEMMA VerdictsAreTrueThen ==
  ASSUME IdentityInv
  PROVE  IdentityVerdictsAreTrue
<1> SUFFICES ASSUME NEW v \in IdentityVerdicts, v.result \in {"PASS", "FAIL"}, Untouched(v.target)
             PROVE  v.result = "PASS" <=> IsSafe(v.control, v.target)
  BY DEF IdentityVerdictsAreTrue
<1> DEFINE c == v.control
           t == v.target
<1>1. /\ IdentitiesCollected /\ c \in IdentityControlIds /\ t \in IdentityTargets(c)
      /\ v.result = IdentityResult(c, t)
  BY IdentityVerdictsAre
<1> HIDE DEF c, t
<1>2. CASE t = Everything
  <2>1. v.result = AccountResult(c) /\ "root" \notin touched
    BY <1>1, <1>2, IdentityResultsAre, UntouchedIs DEF t
  <2>2. c \in {"IAM-005", "IAM-006"} /\ v.result = SummaryResult(c)
    BY <1>1, <2>1, AccountResultsAre DEF IdentityControlIds
  <2>3. QED
    BY <1>2, <2>1, <2>2, SummaryResultIsTrue DEF c, t
<1>3. CASE t # Everything
  <2>1. CASE c = "IAM-001"
    <3>1. t \in OfType("user") /\ v.result = DeviceResult(t)
      BY <1>1, <1>3, <2>1, IdentityTargetsAre, IdentityResultsAre
    <3>2. NameOf(t) \notin touched
      BY <3>1, UserIsListed, UntouchedIs DEF t, Kinds
    <3>3. QED
      BY <1>1, <2>1, <3>1, <3>2, DevicesAreTrue DEF c, t
  <2>2. CASE c \in {"IAM-002", "IAM-003"}
    <3>1. t \in OfType("user") /\ v.result = KeyResult(c, t)
      BY <1>1, <1>3, <2>2, IdentityTargetsAre, IdentityResultsAre
    <3>2. NameOf(t) \notin touched
      BY <3>1, UserIsListed, UntouchedIs DEF t, Kinds
    <3>3. QED
      BY <2>2, <3>1, <3>2, KeysAreTrue DEF c, t
  <2>3. CASE c = "IAM-004"
    <3>1. t \in PolicyTargets /\ v.result = PolicyResult(t)
      BY <1>1, <1>3, <2>3, IdentityTargetsAre, IdentityResultsAre
    <3>2. QED
      BY <2>3, <3>1, PoliciesAreTrue DEF c, t
  <2>4. CASE c \in {"IAM-005", "IAM-006"}
    BY <1>1, <1>3, <2>4, IdentityTargetsAre
  <2>5. QED
    BY <1>1, <2>1, <2>2, <2>3, <2>4 DEF IdentityControlIds
<1>4. QED
  BY <1>2, <1>3

\* What the controls should not overlook.
LEMMA AnswerableIs ==
  LET steady == DOMAIN directory.principals \ touched
  IN /\ \A c \in {"IAM-001", "IAM-002", "IAM-003"} : \A t \in Answerable(c) :
          \E n \in NamesOf("user") \ touched : t = Thing("user", <<directory.principals[n].id>>)
     /\ \A t \in Answerable("IAM-004") :
          \/ \E a : /\ a \notin touched /\ t = VersionOf(a, directory.policies[a].version)
                    /\ \/ a \in LocalPolicies
                       \/ \E n \in steady : a \in directory.principals[n].attached
                       \/ \E n \in steady : a = directory.principals[n].boundary /\ a # NoValue
          \/ \E n \in steady : \E i \in DOMAIN directory.principals[n].inline :
               t = Inline(Thing(directory.principals[n].kind, <<directory.principals[n].id>>), i)
     /\ Answerable("IAM-005") = {} /\ Answerable("IAM-006") = {}
<1> DEFINE steady == DOMAIN directory.principals \ touched
           P(n) == directory.principals[n]
           Users == {Thing("user", <<P(n).id>>) : n \in NamesOf("user") \cap steady}
           Attached == UNION {P(n).attached : n \in steady}
           Boundaries == {P(n).boundary : n \in steady} \ {NoValue}
           Arns == (LocalPolicies \cup Attached \cup Boundaries) \ touched
           Versions == {VersionOf(a, directory.policies[a].version) : a \in Arns}
           Inlines(n) == {Inline(Thing(P(n).kind, <<P(n).id>>), i) : i \in DOMAIN P(n).inline}
<1>1. Answerable("IAM-001") = Users /\ Answerable("IAM-002") = Users /\ Answerable("IAM-003") = Users
  BY Zenon DEF Answerable
<1>2. Answerable("IAM-004") = Versions \cup UNION {Inlines(n) : n \in steady}
  BY Zenon DEF Answerable
<1>3. Answerable("IAM-005") = {} /\ Answerable("IAM-006") = {}
  BY Zenon DEF Answerable
<1>4. \A t \in Users : \E n \in NamesOf("user") \ touched : t = Thing("user", <<P(n).id>>)
  OBVIOUS
<1>5. \A a \in Arns : /\ a \notin touched
                      /\ \/ a \in LocalPolicies
                         \/ \E n \in steady : a \in P(n).attached
                         \/ \E n \in steady : a = P(n).boundary /\ a # NoValue
  <2>1. \A a \in Attached : \E n \in steady : a \in P(n).attached
    OBVIOUS
  <2>2. \A a \in Boundaries : \E n \in steady : a = P(n).boundary /\ a # NoValue
    OBVIOUS
  <2> HIDE DEF Attached, Boundaries
  <2>3. QED
    BY <2>1, <2>2
<1>6. \A n \in steady : \A t \in Inlines(n) : \E i \in DOMAIN P(n).inline : t = Inline(Thing(P(n).kind, <<P(n).id>>), i)
  OBVIOUS
<1>7. \A t \in Versions : \E a \in Arns : t = VersionOf(a, directory.policies[a].version)
  OBVIOUS
<1>8. \A t \in UNION {Inlines(n) : n \in steady} : \E n \in steady : t \in Inlines(n)
  OBVIOUS
<1> HIDE DEF Users, Arns, Versions, Inlines
<1>9. \A c \in {"IAM-001", "IAM-002", "IAM-003"} : \A t \in Answerable(c) :
        \E n \in NamesOf("user") \ touched : t = Thing("user", <<P(n).id>>)
  BY <1>1, <1>4
<1>10. ASSUME NEW t \in Answerable("IAM-004")
       PROVE  \/ \E a : /\ a \notin touched /\ t = VersionOf(a, directory.policies[a].version)
                        /\ \/ a \in LocalPolicies
                           \/ \E n \in steady : a \in P(n).attached
                           \/ \E n \in steady : a = P(n).boundary /\ a # NoValue
              \/ \E n \in steady : \E i \in DOMAIN P(n).inline : t = Inline(Thing(P(n).kind, <<P(n).id>>), i)
  <2>1. CASE t \in Versions
    <3>1. PICK a \in Arns : t = VersionOf(a, directory.policies[a].version)
      BY <1>7, <2>1
    <3>2. QED
      BY <1>5, <3>1
  <2>2. CASE t \in UNION {Inlines(n) : n \in steady}
    BY <1>6, <1>8, <2>2
  <2>3. QED
    BY <1>2, <2>1, <2>2
<1>11. QED
  BY <1>3, <1>9, <1>10

\* A complete listing has every principal that nobody touched.
LEMMA PrincipalsAreListed ==
  ASSUME IdentityInv, NEW kind \in Kinds, Completed(kind, Everything), NEW n \in NamesOf(kind) \ touched
  PROVE  LET t == Thing(kind, <<directory.principals[n].id>>)
         IN t \in OfType(kind) /\ NameOf(t) = n /\ Named(t) = directory.principals[n]
<1> DEFINE id == directory.principals[n].id
           t == Thing(kind, <<id>>)
<1>1. PICK o \in graph.outcomes : /\ o.kind = kind /\ o.about = Everything /\ o.state = "PRESENT"
                                  /\ SourceIsTrue(directory, touched, graph, o)
  BY CompletedIsTrue
<1>2. /\ o.kind \in Listed /\ o.kind # "policy" /\ n \in DOMAIN directory.principals \ touched
      /\ directory.principals[n].kind = o.kind
  BY <1>1 DEF Kinds, Listed, NamesOf
<1>3. ListingIsTrue(directory, touched, o) /\ \A x \in o.says : Thing(o.kind, <<x>>) \in DOMAIN graph.things
  BY <1>1, <1>2 DEF SourceIsTrue
<1>4. id \in o.says
  BY <1>2, <1>3 DEF ListingIsTrue
<1>5. t \in DOMAIN graph.things
  BY <1>1, <1>3, <1>4
<1>6. t.type = kind /\ t.id = <<id>> /\ Head(t.id) = id
  BY ThingIsTyped, HeadOfOne
<1> HIDE DEF t
<1>7. PrincipalIsTrue(directory, touched, graph, t)
  BY <1>5, <1>6 DEF IdentityInv, GraphStands, GraphIsTrue, ThingIsTrue
<1>8. NameOf(t) = n
  BY <1>2, <1>6, <1>7 DEF PrincipalIsTrue, NameOf
<1>9. t \in OfType(kind) /\ Named(t) = directory.principals[n]
  BY <1>5, <1>6, <1>8 DEF OfType, Things, Named
<1>10. QED
  BY <1>8, <1>9 DEF t

\* IAM-001 concludes nothing unless the listing of users was complete.
LEMMA UsersAreListed ==
  ASSUME IdentityInv, IdentitiesCollected, UsersCollectorSucceeded \/ DiscoverySucceeded
  PROVE  Completed("user", Everything)
<1>1. ~Unsaid(graph, "user", Everything) /\ Unique(graph)
  BY DEF IdentityInv, NothingIsForgotten, IdentitiesCollected, GraphStands, GraphFits
<1>2. Said(graph, "user", Everything, {"PRESENT"})
  <2>1. CASE DiscoverySucceeded
    BY <2>1 DEF DiscoverySucceeded, OutcomesFor, OutcomesOf, Said
  <2>2. CASE UsersCollectorSucceeded
    <3>1. PICK o \in graph.outcomes : o.kind = "user" /\ o.about = Everything
      BY <1>1 DEF Unsaid
    <3>2. o.state \in {"PRESENT", "EXPECTED_ABSENCE"} /\ OutcomeFits(graph, o)
      BY <2>2, <3>1, SaidIsSo DEF UsersCollectorSucceeded
    <3>3. QED
      BY <3>1, <3>2 DEF OutcomeFits, Said
  <2>3. QED
    BY <2>1, <2>2
<1>3. QED
  BY <1>1, <1>2, SaidIsComplete DEF Completed

\* What a complete source announces is in the graph.
LEMMA LinkedIsThere ==
  ASSUME IdentityInv, NEW type, NEW kind, NEW source, NEW targets, LinkedAs(type, kind, source, targets)
  PROVE  Completed(kind, source) /\ \A t \in targets : t \in Things
<1>1. \A l \in graph.links : l.target \in Things
  BY DEF IdentityInv, GraphStands, GraphFits, LinkFits, Things
<1>2. Completed(kind, source) /\ TargetsOf(LinksFrom(type, source)) = targets
  BY DEF LinkedAs
<1>3. \A t \in TargetsOf(LinksFrom(type, source)) : \E l \in graph.links : l.target = t
  BY DEF TargetsOf, LinksFrom
<1>4. QED
  BY <1>1, <1>2, <1>3

\* A source of an untouched principal, once complete, says what the principal holds.
LEMMA HoldingIs ==
  ASSUME IdentityInv, NEW owner, NameOf(owner) \notin touched, NEW kind \in OfPrincipals, Completed(kind, owner)
  PROVE  SaidBy(kind, owner) = Holds(Named(owner), kind)
<1>1. PICK o \in graph.outcomes : /\ o.kind = kind /\ o.about = owner /\ o.state = "PRESENT"
                                  /\ SaidBy(kind, owner) = o.says /\ SourceIsTrue(directory, touched, graph, o)
  BY CompletedIsTrue
<1>2. QED
  BY <1>1 DEF SourceIsTrue, HoldingIsTrue, NameOf, Named

\* A policy of the graph, or its current version, is assessed.
LEMMA PolicyIsAssessed ==
  ASSUME IdentityInv, NEW a, a \notin touched, ThePolicy(a) \in Things
  PROVE  VersionOf(a, directory.policies[a].version) \in PolicyTargets \/ ThePolicy(a) \in PolicyTargets
<1> DEFINE w == graph.things[ThePolicy(a)].version
           v == VersionOf(a, w)
<1>1. /\ ThePolicy(a).type = "policy" /\ Head(ThePolicy(a).id) = a
      /\ v.type = "version" /\ v.id[2] = w
  BY ThingIsTyped, HeadOfOne, HeadOfTwo DEF ThePolicy, VersionOf
<1>2. CASE v \notin Things
  BY <1>1, <1>2 DEF PolicyTargets, OfType
<1>3. CASE v \in Things
  <2>1. w # NoValue
    BY <1>1, <1>3 DEF IdentityInv, GraphStands, GraphFits, ThingFits, Things
  <2>2. PolicyIsTrue(directory, touched, graph, ThePolicy(a))
    BY <1>1 DEF IdentityInv, GraphStands, GraphIsTrue, ThingIsTrue, Things
  <2>3. w = directory.policies[a].version
    BY <1>1, <2>1, <2>2 DEF PolicyIsTrue
  <2>4. v \in PolicyTargets
    BY <1>1, <1>3 DEF PolicyTargets, OfType
  <2>5. QED
    BY <2>3, <2>4
<1>4. QED
  BY <1>2, <1>3

\* A covered principal that nobody touched is in the graph with everything it uses.
LEMMA OwnerIsThere ==
  ASSUME IdentityInv, Covered, NEW n \in DOMAIN directory.principals \ touched
  PROVE  LET p == directory.principals[n]
             owner == Thing(p.kind, <<p.id>>)
         IN /\ \A a \in p.attached : ThePolicy(a) \in Things
            /\ p.boundary # NoValue => ThePolicy(p.boundary) \in Things
            /\ \A i \in DOMAIN p.inline : Inline(owner, i) \in Things
<1> DEFINE p == directory.principals[n]
           owner == Thing(p.kind, <<p.id>>)
<1>1. p.kind \in Kinds /\ n \in NamesOf(p.kind) \ touched /\ (p.kind = "group" => p.boundary = NoValue)
  BY PrincipalsAreFinite DEF NamesOf
<1>2. Completed(p.kind, Everything)
  BY <1>1 DEF Covered, PopulationKnown, Kinds
<1>3. owner \in OfType(p.kind) /\ NameOf(owner) = n /\ Named(owner) = p
  BY <1>1, <1>2, PrincipalsAreListed
<1> HIDE DEF owner
<1>4. owner \in Principals /\ owner.type = p.kind
  BY <1>1, <1>3 DEF Principals, OfType, Kinds
<1>5. OwnerIsCovered(owner)
  BY <1>4 DEF Covered
<1>6. \A a \in p.attached : ThePolicy(a) \in Things
  <2>1. LinkedAs("attached", "attached", owner, PoliciesOf(SaidBy("attached", owner)))
    BY <1>5 DEF OwnerIsCovered
  <2>2. Completed("attached", owner) /\ \A t \in PoliciesOf(SaidBy("attached", owner)) : t \in Things
    BY <2>1, LinkedIsThere
  <2>3. SaidBy("attached", owner) = Holds(p, "attached")
    BY <1>1, <1>3, <2>2, HoldingIs DEF OfPrincipals
  <2>4. Holds(p, "attached") = p.attached
    BY DEF Holds
  <2>5. QED
    BY <2>2, <2>3, <2>4 DEF PoliciesOf, ThePolicy
<1>7. ASSUME p.boundary # NoValue PROVE ThePolicy(p.boundary) \in Things
  <2>1. LinkedAs("boundary", "profile", owner, PoliciesOf(SaidBy("profile", owner)))
    BY <1>1, <1>4, <1>5, <1>7 DEF OwnerIsCovered
  <2>2. Completed("profile", owner) /\ \A t \in PoliciesOf(SaidBy("profile", owner)) : t \in Things
    BY <2>1, LinkedIsThere
  <2>3. SaidBy("profile", owner) = Holds(p, "profile")
    BY <1>1, <1>3, <2>2, HoldingIs DEF OfPrincipals
  <2>4. Holds(p, "profile") = {p.boundary} \ {NoValue}
    BY DEF Holds
  <2>5. p.boundary \in SaidBy("profile", owner)
    BY <1>7, <2>3, <2>4
  <2>6. QED
    BY <2>2, <2>5 DEF PoliciesOf, ThePolicy
<1>8. \A i \in DOMAIN p.inline : Inline(owner, i) \in Things
  <2>1. LinkedAs("inline", "inline", owner, InlineOf(owner))
    BY <1>5 DEF OwnerIsCovered
  <2>2. Completed("inline", owner) /\ \A t \in InlineOf(owner) : t \in Things
    BY <2>1, LinkedIsThere
  <2>3. SaidBy("inline", owner) = Holds(p, "inline")
    BY <1>1, <1>3, <2>2, HoldingIs DEF OfPrincipals
  <2>4. Holds(p, "inline") = DOMAIN p.inline
    BY DEF Holds
  <2>5. QED
    BY <2>2, <2>3, <2>4 DEF InlineOf
<1>9. QED
  BY <1>6, <1>7, <1>8 DEF owner

\* A customer-managed policy that nobody touched was listed.
LEMMA LocalPolicyIsThere ==
  ASSUME IdentityInv, Covered, NEW a \in LocalPolicies \ touched
  PROVE  ThePolicy(a) \in Things
<1>1. Completed("policy", Everything)
  BY DEF Covered, PopulationKnown
<1>2. PICK o \in graph.outcomes : /\ o.kind = "policy" /\ o.about = Everything /\ o.state = "PRESENT"
                                  /\ SourceIsTrue(directory, touched, graph, o)
  BY <1>1, CompletedIsTrue
<1>3. ListingIsTrue(directory, touched, o) /\ \A x \in o.says : Thing(o.kind, <<x>>) \in DOMAIN graph.things
  BY <1>2 DEF SourceIsTrue, Listed
<1>4. a \in o.says
  BY <1>2, <1>3 DEF ListingIsTrue, LocalPolicies
<1>5. QED
  BY <1>2, <1>3, <1>4 DEF ThePolicy, Things

\* Nothing that is part of the account escapes IAM-004.
LEMMA DocumentsAreAssessed ==
  ASSUME IdentityInv, Covered, NEW t \in Answerable("IAM-004")
  PROVE  t \in PolicyTargets \/ (t.type = "version" /\ Thing("policy", <<Head(t.id)>>) \in PolicyTargets)
<1> DEFINE steady == DOMAIN directory.principals \ touched
           P(n) == directory.principals[n]
<1>1. \/ \E a : /\ a \notin touched /\ t = VersionOf(a, directory.policies[a].version)
                /\ \/ a \in LocalPolicies
                   \/ \E n \in steady : a \in P(n).attached
                   \/ \E n \in steady : a = P(n).boundary /\ a # NoValue
      \/ \E n \in steady : \E i \in DOMAIN P(n).inline : t = Inline(Thing(P(n).kind, <<P(n).id>>), i)
  BY AnswerableIs
<1>2. ASSUME NEW a, a \notin touched, t = VersionOf(a, directory.policies[a].version),
             \/ a \in LocalPolicies
             \/ \E n \in steady : a \in P(n).attached
             \/ \E n \in steady : a = P(n).boundary /\ a # NoValue
      PROVE  t \in PolicyTargets \/ (t.type = "version" /\ Thing("policy", <<Head(t.id)>>) \in PolicyTargets)
  <2>1. ThePolicy(a) \in Things
    BY <1>2, OwnerIsThere, LocalPolicyIsThere
  <2>2. t \in PolicyTargets \/ ThePolicy(a) \in PolicyTargets
    BY <1>2, <2>1, PolicyIsAssessed
  <2>3. t.type = "version" /\ t.id = <<a, directory.policies[a].version>>
    BY <1>2, ThingIsTyped DEF VersionOf
  <2>4. Head(t.id) = a
    BY <2>3, HeadOfTwo
  <2>5. QED
    BY <2>2, <2>3, <2>4 DEF ThePolicy
<1>3. ASSUME NEW n \in steady, NEW i \in DOMAIN P(n).inline, t = Inline(Thing(P(n).kind, <<P(n).id>>), i)
      PROVE  t \in PolicyTargets
  <2>1. t \in Things
    BY <1>3, OwnerIsThere
  <2>2. t.type = "inline"
    BY <1>3, ThingIsTyped DEF Inline
  <2>3. QED
    BY <2>1, <2>2 DEF PolicyTargets, OfType
<1>4. QED
  BY <1>1, <1>2, <1>3

\* A conclusion about one is a conclusion about all.
LEMMA NobodyIsOverlookedThen ==
  ASSUME IdentityInv
  PROVE  NoIdentityIsOverlooked
<1> SUFFICES ASSUME NEW v \in IdentityVerdicts, v.result # "INSUFFICIENT", NEW t \in Answerable(v.control)
             PROVE  \E o \in IdentityVerdicts :
                      o.control = v.control /\ (o.target = t \/ (t.type = "version" /\ o.target = Thing("policy", <<Head(t.id)>>)))
  BY DEF NoIdentityIsOverlooked
<1> DEFINE c == v.control
           x == v.target
<1>1. /\ IdentitiesCollected /\ c \in IdentityControlIds /\ x \in IdentityTargets(c)
      /\ v.result = IdentityResult(c, x) /\ t \in Answerable(c)
  BY IdentityVerdictsAre
<1>2. ASSUME NEW y \in IdentityTargets(c) PROVE \E o \in IdentityVerdicts : o.control = v.control /\ o.target = y
  BY <1>1, <1>2, IdentityVerdictsAre
<1> HIDE DEF c, x
<1>3. ASSUME Completed("user", Everything), OfType("user") \subseteq IdentityTargets(c),
             c \in {"IAM-001", "IAM-002", "IAM-003"}
      PROVE  t \in IdentityTargets(c)
  <2>1. PICK n \in NamesOf("user") \ touched : t = Thing("user", <<directory.principals[n].id>>)
    BY <1>1, <1>3, AnswerableIs
  <2>2. t \in OfType("user")
    BY <1>3, <2>1, PrincipalsAreListed DEF Kinds
  <2>3. QED
    BY <1>3, <2>2
<1>4. CASE c = "IAM-001"
  <2>1. UsersCollectorSucceeded \/ DiscoverySucceeded
    <3>1. CASE x = Everything
      BY <1>1, <1>4, <3>1, IdentityResultsAre, AccountResultsAre
    <3>2. CASE x # Everything
      BY <1>1, <1>4, <3>2, IdentityTargetsAre
    <3>3. QED
      BY <3>1, <3>2
  <2>2. Completed("user", Everything) /\ OfType("user") \subseteq IdentityTargets(c)
    BY <1>1, <1>4, <2>1, UsersAreListed, IdentityTargetsAre
  <2>3. QED
    BY <1>2, <1>3, <1>4, <2>2
<1>5. CASE c \in {"IAM-002", "IAM-003"}
  <2>1. Completed("user", Everything)
    <3>1. CASE x = Everything
      <4>1. v.result = AccountResult(c)
        BY <1>1, <3>1, IdentityResultsAre
      <4>2. PopulationKnown("user", {})
        BY <1>5, <4>1, AccountResultsAre
      <4>3. QED
        BY <4>2 DEF PopulationKnown
    <3>2. CASE x # Everything
      <4>1. v.result = KeyResult(c, x)
        BY <1>1, <1>5, <3>2, IdentityResultsAre
      <4>2. KeysAreProven(x)
        BY <4>1 DEF KeyResult
      <4>3. QED
        BY <4>2 DEF KeysAreProven, PopulationKnown
    <3>3. QED
      BY <3>1, <3>2
  <2>2. OfType("user") \subseteq IdentityTargets(c)
    BY <1>5, IdentityTargetsAre
  <2>3. QED
    BY <1>2, <1>3, <1>5, <2>1, <2>2
<1>6. CASE c = "IAM-004"
  <2>1. Covered
    <3>1. CASE x = Everything
      BY <1>1, <1>6, <3>1, IdentityResultsAre, AccountResultsAre
    <3>2. CASE x # Everything
      <4>1. v.result = PolicyResult(x)
        BY <1>1, <1>6, <3>2, IdentityResultsAre
      <4>2. QED
        BY <4>1 DEF PolicyResult
    <3>3. QED
      BY <3>1, <3>2
  <2>2. t \in PolicyTargets \/ (t.type = "version" /\ Thing("policy", <<Head(t.id)>>) \in PolicyTargets)
    BY <1>1, <1>6, <2>1, DocumentsAreAssessed
  <2>3. \A y \in PolicyTargets : y \in IdentityTargets(c)
    BY <1>6, IdentityTargetsAre
  <2>4. QED
    BY <1>2, <2>2, <2>3
<1>7. CASE c \in {"IAM-005", "IAM-006"}
  BY <1>1, <1>7, AnswerableIs
<1>8. QED
  BY <1>1, <1>4, <1>5, <1>6, <1>7 DEF IdentityControlIds

\* _exclude_cross_user_child_conflicts, _materialize_referenced_policies and the calls made
\* for each resource leave a graph the validators of the evidence graph accept.
THEOREM IdentityGraphIsConsistent == IdentitySpec => []IdentityGraphStands
BY IdentityGraphIsTrue, GraphStandsThen, PTL

\* However calls fail and however the account changes under the scan, no IAM control passes
\* or fails an untouched identity against what the account has: iam_key_proof and
\* iam_policy_proof rest on complete sources only.
THEOREM IdentityVerdictsAreDeserved == IdentitySpec => []IdentityVerdictsAreTrue
BY IdentityGraphIsTrue, VerdictsAreTrueThen, PTL

\* _coverage and the population of users let no control conclude about a part of the
\* account only.
THEOREM NoIdentityEscapes == IdentitySpec => []NoIdentityIsOverlooked
BY IdentityGraphIsTrue, NobodyIsOverlookedThen, PTL
=============================================================================
