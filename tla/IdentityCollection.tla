------------------------- MODULE IdentityCollection -------------------------
(***************************************************************************)
(* _IAMGraphBuilder and IAMAccountEvidenceCollector: one AWS call after the   *)
(* other, while the account may change between two calls. Principals are      *)
(* asked for by name and recorded by id, so an answer may be about another    *)
(* principal than the listing was.                                            *)
(***************************************************************************)
EXTENDS Integers, SequencesExt

CONSTANTS
  Directories,    \* the accounts a scan may meet
  Turns,          \* what each of them may turn into during the scan
  AwsManaged,     \* ARNs of the policies AWS owns
  NoValue,
  MaxMishaps      \* bound: calls that go wrong, and changes of the account

ASSUME TurnsAssumption == Turns \in [Directories -> SUBSET Directories]

\* Accounts are finite, an id is that of one principal or of one key of a user, and
\* groups have no permissions boundary.
ASSUME DirectoriesAssumption ==
  \A d \in Directories :
    /\ IsFiniteSet(DOMAIN d.principals) /\ IsFiniteSet(DOMAIN d.policies)
    /\ \A n \in DOMAIN d.principals : LET p == d.principals[n] IN
         /\ p.kind \in {"user", "group", "role"}
         /\ \A m \in DOMAIN d.principals : d.principals[m].id = p.id => m = n
         /\ \A listed \in {p.devices, p.keys, p.members, p.attached, DOMAIN p.inline} : IsFiniteSet(listed)
         /\ \A k, l \in p.keys : k.id = l.id => k = l
         /\ p.kind = "group" => p.boundary = NoValue
    /\ \A a \in DOMAIN d.policies : d.policies[a].version # NoValue

VARIABLES
  directory,  \* principals by name, policies by ARN and the flags of the root user
  touched,    \* the names and ARNs that changed during the scan
  mishaps,
  phase,      \* of collect: principals, then policies
  tasks,      \* the calls still to be made
  graph       \* what the builder has collected

identityVars == <<directory, touched, mishaps, phase, tasks, graph>>

-----------------------------------------------------------------------------
(* The builder: resources with their facts, one outcome for each source, the   *)
(* relationships with the outcome they rest on, the policies mentioned so far   *)
(* and the children seen under two users.                                       *)

Thing(type, id) == [type |-> type, id |-> id]
Everything == Thing("account", <<>>)
Inline(owner, name) == Thing("inline", <<owner.type, Head(owner.id), name>>)
VersionOf(arn, version) == Thing("version", <<arn, version>>)

Facts == [name |-> NoValue, owner |-> NoValue, status |-> NoValue, created |-> NoValue,
          used |-> NoValue, version |-> NoValue]

EmptyGraph ==
  [things |-> <<>>, outcomes |-> {}, links |-> {}, mentions |-> {}, contested |-> {}]

Things == DOMAIN graph.things
OfType(type) == {t \in Things : t.type = type}
Ids(things) == {Head(t.id) : t \in things}

\* Resources with their facts, in the place of what was known of them.
Put(g, facts) ==
  [g EXCEPT !.things = [t \in DOMAIN g.things \cup DOMAIN facts |->
                          IF t \in DOMAIN facts THEN facts[t] ELSE g.things[t]]]

Outcome(kind, about, state, says) == [kind |-> kind, about |-> about, state |-> state, says |-> says]

Say(g, kind, about, state, says) ==
  [g EXCEPT !.outcomes = @ \cup {Outcome(kind, about, state, says)}]

\* Resources with the outcomes that identify them.
Admitted(g, facts) ==
  [Put(g, facts) EXCEPT !.outcomes = @ \cup {Outcome("identity", t, "PRESENT", {}) : t \in DOMAIN facts}]

\* A relationship rests on the outcome of kind "by" about a resource.
Relation(type, source, target, by, about) ==
  [type |-> type, source |-> source, target |-> target, by |-> [kind |-> by, about |-> about]]

Relate(g, links) == [g EXCEPT !.links = @ \cup links]

OutcomesOf(g, kind, about) == {o \in g.outcomes : o.kind = kind /\ o.about = about}

-----------------------------------------------------------------------------
(* AWS                                                                       *)

NameOf(thing) == graph.things[thing].name

\* There may be no policy with the ARN, or no principal with the name, now.
Exists(thing) ==
  IF thing.type = "policy" THEN Head(thing.id) \in DOMAIN directory.policies
  ELSE /\ NameOf(thing) \in DOMAIN directory.principals
       /\ directory.principals[NameOf(thing)].kind = thing.type
Named(thing) == directory.principals[NameOf(thing)]

NamesOf(kind) == {n \in DOMAIN directory.principals : directory.principals[n].kind = kind}
IdsOf(names) == {directory.principals[n].id : n \in names}
LocalPolicies == DOMAIN directory.policies \ AwsManaged

-----------------------------------------------------------------------------
(* Listings: an item reads, reads otherwise than it did before, or does not      *)
(* read although its identity does.                                             *)

Item(id, reading) == [id |-> id, reading |-> reading]
Listing(items, errors) == [items |-> items, errors |-> errors]

Untroubled == mishaps < MaxMishaps

\* A listing breaks off, or delivers an item twice or spoilt.
TroubledListings(whole) ==
  LET first == IF whole = <<>> THEN NoValue ELSE Head(whole).id
      extras == {<<Item(first, "garbled")>>}
                \cup (IF whole = <<>> THEN {}
                      ELSE {<<Item(first, "garbled"), Head(whole)>>, <<Item(first, "other")>>,
                            <<Item(first, "other"), Head(whole)>>})
  IN {Listing(SubSeq(whole, 1, n), {"denied"}) : n \in 0..Len(whole)}
     \cup {Listing(whole \o extra, {}) : extra \in extras}
     \cup {Listing(<<Item(first, "garbled")>> \o whole, {})}

Listings(ids) ==
  LET whole == [i \in 1..Cardinality(ids) |-> Item(SetToSeq(ids)[i], "plain")]
  IN {Listing(whole, {})} \cup (IF Untroubled THEN TroubledListings(whole) ELSE {})

\* Positions of the items about an identity that come before position i.
Earlier(items, i) == {j \in DOMAIN items : j < i /\ items[j].id = items[i].id}
Understood(items) == {i \in DOMAIN items : items[i].reading # "garbled"}
IdsAt(items, positions) == {items[i].id : i \in positions}

\* What is retained of a listing whose items at some positions contradict earlier
\* ones, with all its errors: a contradicted identity is not retained again.
Heard(listed, retained, quarrels, garbled) ==
  [kept |-> IdsAt(listed.items, retained) \ IdsAt(listed.items, quarrels),
   errors |-> {"conflict" : i \in quarrels} \cup {"malformed" : i \in garbled} \cup listed.errors]

\* _discover compares an item with the earlier one before it normalizes it.
Discover(listed) ==
  LET items == listed.items
      known == {i \in DOMAIN items : Earlier(items, i) \cap Understood(items) # {}}
  IN Heard(listed, Understood(items), {i \in known : items[i].reading # "plain"},
           DOMAIN items \ (Understood(items) \cup known))

\* Devices, keys and members are read first; what does not read drops the earlier one.
ReadChildren(listed) ==
  LET items == listed.items
      known == {i \in DOMAIN items : \E j \in Earlier(items, i) \cap Understood(items) :
                                       Earlier(items, i) \ Understood(items) \subseteq 1..j}
      quarrels == {i \in known : items[i].reading = "other"}
      dropping == {i \in DOMAIN items \ Understood(items) : Earlier(items, i) \cap quarrels = {}}
  IN Heard(listed, {i \in Understood(items) : \A d \in dropping : i \notin Earlier(items, d)}, quarrels, dropping)

\* Attached policies and names of inline policies: nothing is dropped.
ReadLabels(listed) ==
  LET plain == {i \in DOMAIN listed.items : listed.items[i].reading = "plain"}
  IN Heard(listed, plain, {}, DOMAIN listed.items \ plain)

\* _preferred_error, source_failure
OutcomeState(errors) ==
  IF errors = {} THEN "PRESENT"
  ELSE IF "conflict" \in errors THEN "CONFLICT"
  ELSE IF "malformed" \in errors THEN "MALFORMED"
  ELSE "UNAVAILABLE"

\* NoSuchEntity is a ClientError like any other.
NotFound == Listing(<<>>, {"denied"})
ListingsOf(thing, ids) == IF Exists(thing) THEN Listings(ids) ELSE {NotFound}

\* The errors a call about one thing may end with.
Errors == {{}} \cup (IF Untroubled THEN {{"denied"}, {"malformed"}} ELSE {})

-----------------------------------------------------------------------------
(* Calls                                                                     *)

\* A call about a resource, among those made for an owner; some remember facts.
Task(call, about, of, facts) == [call |-> call, about |-> about, of |-> of, facts |-> facts]
Ask(calls, about) == {Task(c, about, about, Facts) : c \in calls}

\* Whose calls come first, and their order. The last use of a key is asked for right
\* after the keys of its user, the document of an inline policy right after the names.
Owners == <<"account", "user", "group", "role", "policy">>
Agenda ==
  [account |-> <<"summary", "user", "group", "role", "policy">>,
   user |-> <<"tags", "device", "key", "usage", "profile", "attached", "inline", "document">>,
   group |-> <<"members", "attached", "inline", "document">>,
   role |-> <<"profile", "tags", "attached", "inline", "document">>,
   policy |-> <<"metadata", "tags", "version">>]

\* The calls that are made for every principal.
Enrichment(type) ==
  IF type = "policy" THEN {} ELSE Range(Agenda[type]) \ {"usage", "document"}

Place(order, x) == CHOOSE i \in DOMAIN order : order[i] = x
Waiting == {t.of : t \in tasks}
Current == CHOOSE o \in Waiting : \A p \in Waiting : Place(Owners, o.type) <= Place(Owners, p.type)

\* The next call, if it is such a call: all those of an owner, one after the other.
Due(call) ==
  {t \in tasks : /\ t.call = call /\ t.of = Current
                 /\ \A u \in tasks : u.of = Current =>
                      Place(Agenda[Current.type], call) <= Place(Agenda[Current.type], u.call)}

\* The call was made: the graph it leaves, the calls it adds, and whether it failed
\* although AWS knows its subject.
Made(task, g, calls, wrong) ==
  /\ graph' = g
  /\ tasks' = (tasks \ {task}) \cup calls
  /\ mishaps' = mishaps + (IF wrong THEN 1 ELSE 0)
  /\ UNCHANGED <<directory, touched, phase>>

IdentityInit ==
  /\ directory \in Directories
  /\ touched = {} /\ mishaps = 0 /\ graph = EmptyGraph
  /\ phase = "principals"
  /\ tasks = Ask({"summary", "user", "group", "role", "policy"}, Everything)

\* The flags are 0 or 1; anything else is malformed.
ReadSummary ==
  \E task \in Due("summary"), errors \in Errors :
    Made(task, Say(graph, "summary", Everything, OutcomeState(errors), IF errors = {} THEN directory.root ELSE {}),
         {}, errors # {})

\* What is retained of one listing of principals or of customer-managed policies.
FactsOf(type, id) ==
  IF type = "policy" THEN [Facts EXCEPT !.version = directory.policies[id].version]
  ELSE [Facts EXCEPT !.name = CHOOSE n \in NamesOf(type) : directory.principals[n].id = id]

ListIdentities ==
  \E type \in {"user", "group", "role", "policy"} : \E task \in Due(type) :
    \E listed \in Listings(IF type = "policy" THEN LocalPolicies ELSE IdsOf(NamesOf(type))) :
      LET read == Discover(listed)
          found == {Thing(type, <<id>>) : id \in read.kept}
          admitted == Admitted(graph, [t \in found |-> FactsOf(type, Head(t.id))])
      IN Made(task, Say(admitted, type, Everything, OutcomeState(read.errors), read.kept),
              UNION {Ask(Enrichment(type), t) : t \in found}, read.errors # {})

\* The tags themselves decide nothing here.
ReadTags ==
  \E task \in Due("tags") : \E errors \in (IF Exists(task.about) THEN Errors ELSE {{"denied"}}) :
    Made(task, Say(graph, "tags", task.about, OutcomeState(errors), {}), {}, Exists(task.about) /\ errors # {})

UserOf(child) == Thing("user", <<graph.things[child].owner>>)

\* Mutant of Contest: the children stay with the user they were first seen with.
FirstUserKeeps(kind, children) == [graph EXCEPT !.contested = @ \cup children]

\* _exclude_cross_user_child_conflicts: the children were seen under other users. They
\* go with all that was said of them, and the sources of those users are conflicts.
Contest(kind, children) ==
  LET said == {o \in graph.outcomes : o.kind = kind /\ o.about \in {UserOf(c) : c \in children}}
      Left(o) == o.says \ Ids({c \in children : UserOf(c) = o.about})
  IN [graph EXCEPT
        !.things = [t \in Things \ children |-> graph.things[t]],
        !.outcomes = {o \in @ \ said : o.about \notin children}
                     \cup {Outcome(kind, o.about, "CONFLICT", Left(o)) : o \in said},
        !.links = {l \in @ : l.source \notin children /\ l.target \notin children},
        !.contested = @ \cup children]

\* The devices or keys of a user without those that another user has.
Children(kind, user, read) ==
  LET children == {Thing(kind, <<id>>) : id \in read.kept}
      known == children \cap Things
      own == children \ (known \cup graph.contested)
      errors == read.errors \cup (IF own = children THEN {} ELSE {"conflict"})
  IN [own |-> own,
      graph |-> Say(Contest(kind, known), kind, user, OutcomeState(errors), Ids(own))]

\* Children that are identified, related if the source of their user is complete.
Adopted(g, kind, user, facts) ==
  LET complete == \E o \in OutcomesOf(g, kind, user) : o.state = "PRESENT"
  IN Relate(Admitted(g, facts),
            IF complete THEN {Relation(kind, user, c, "identity", c) : c \in DOMAIN facts} ELSE {})

ReadDevices ==
  \E task \in Due("device") : LET user == task.about IN
    \E listed \in ListingsOf(user, Named(user).devices) :
      LET read == ReadChildren(listed)
          found == Children("device", user, read)
          facts == [d \in found.own |-> [Facts EXCEPT !.owner = Head(user.id)]]
      IN Made(task, Adopted(found.graph, "device", user, facts), {}, Exists(user) /\ read.errors # {})

\* Each key that is retained is asked for its last use, then put into the graph.
ReadKeys ==
  \E task \in Due("key") : LET user == task.about  keys == Named(user).keys IN
    \E listed \in ListingsOf(user, {k.id : k \in keys}) :
      LET read == ReadChildren(listed)
          found == Children("key", user, read)
          KeyFacts(id) ==
            LET k == CHOOSE k \in keys : k.id = id
            IN [Facts EXCEPT !.owner = Head(user.id), !.name = NameOf(user),
                             !.status = k.status, !.created = k.created]
      IN Made(task, found.graph, {Task("usage", c, user, KeyFacts(Head(c.id))) : c \in found.own},
              Exists(user) /\ read.errors # {})

\* GetAccessKeyLastUsed names the user who has the key now.
ReadKeyUsage ==
  \E task \in Due("usage") :
    LET key == task.about
        facts == task.facts
        holders == {n \in NamesOf("user") :
                      \E k \in directory.principals[n].keys : k.id = Head(key.id)}
        inherent == IF holders = {} THEN {"denied"} ELSE IF facts.name \notin holders THEN {"malformed"} ELSE {}
    IN \E errors \in (IF inherent = {} THEN Errors ELSE {inherent}) :
         LET used == IF errors # {} THEN NoValue
                     ELSE (CHOOSE k \in directory.principals[facts.name].keys : k.id = Head(key.id)).used
             state == IF errors = {} /\ used = NoValue THEN "EXPECTED_ABSENCE" ELSE OutcomeState(errors)
         IN Made(task, Say(Adopted(graph, "key", task.of, [k \in {key} |-> [facts EXCEPT !.used = used]]),
                           "usage", key, state, {}),
                 {}, inherent = {} /\ errors # {})

Mention(type, owner, arn, by) == [type |-> type, owner |-> owner, arn |-> arn, by |-> by]

\* _validate_profile: the one answer that is checked against the id.
ReadProfile ==
  \E task \in Due("profile") :
    LET owner == task.about
        p == Named(owner)
        inherent == IF ~Exists(owner) THEN {"denied"} ELSE IF p.id # Head(owner.id) THEN {"malformed"} ELSE {}
    IN \E errors \in (IF inherent = {} THEN Errors ELSE {inherent}) :
         LET boundary == IF errors = {} THEN {p.boundary} \ {NoValue} ELSE {}
             said == Say(graph, "profile", owner, OutcomeState(errors), boundary)
         IN Made(task, [said EXCEPT !.mentions = @ \cup {Mention("boundary", owner, a, "PRESENT") : a \in boundary}],
                 {}, inherent = {} /\ errors # {})

\* Policies are mentioned even by a listing that is incomplete.
ReadAttached ==
  \E task \in Due("attached") : LET owner == task.about IN
    \E listed \in ListingsOf(owner, Named(owner).attached) :
      LET read == ReadLabels(listed)
          state == OutcomeState(read.errors)
          said == Say(graph, "attached", owner, state, read.kept)
      IN Made(task, [said EXCEPT !.mentions = @ \cup {Mention("attached", owner, a, state) : a \in read.kept}],
              {}, Exists(owner) /\ read.errors # {})

ReadInlineNames ==
  \E task \in Due("inline") : LET owner == task.about IN
    \E listed \in ListingsOf(owner, DOMAIN Named(owner).inline) :
      LET read == ReadLabels(listed)
      IN Made(task, Say(graph, "inline", owner, OutcomeState(read.errors), read.kept),
              {Task("document", Inline(owner, n), owner, [Facts EXCEPT !.owner = owner]) : n \in read.kept},
              Exists(owner) /\ read.errors # {})

\* The policy is put into the graph, then asked for by the names of its owner and
\* its own: the answer is not checked against the id of the owner.
ReadInlineDocument ==
  \E task \in Due("document") :
    LET policy == task.about
        owner == task.of
        name == policy.id[3]
        known == Exists(owner) /\ name \in DOMAIN Named(owner).inline
        listed == \E o \in OutcomesOf(graph, "inline", owner) : o.state = "PRESENT"
        placed == Relate(Admitted(graph, [p \in {policy} |-> task.facts]),
                         IF listed THEN {Relation("inline", owner, policy, "inline", owner)} ELSE {})
    IN \E errors \in (IF known THEN Errors ELSE {{"denied"}}) :
         Made(task, Say(placed, "document", policy, OutcomeState(errors),
                        IF errors = {} THEN {Named(owner).inline[name]} ELSE {}),
              {}, known /\ errors # {})

\* A member is a user that was listed, under the name it has now.
IsKnown(id) ==
  LET user == Thing("user", <<id>>)
  IN user \in Things /\ \E n \in {NameOf(user)} \cap NamesOf("user") : directory.principals[n].id = id

Recognized(listed) ==
  [listed EXCEPT !.items = [i \in DOMAIN @ |-> IF IsKnown(@[i].id) THEN @[i] ELSE Item(@[i].id, "garbled")]]

\* GetGroup names the group too: another one under the name is not read.
ReadMembers ==
  \E task \in Due("members") :
    LET group == task.about
        same == Exists(group) /\ Named(group).id = Head(group.id)
    IN \E listed \in (IF same THEN Listings(Named(group).members)
                      ELSE {Listing(<<>>, {IF Exists(group) THEN "malformed" ELSE "denied"})}) :
         LET read == ReadChildren(Recognized(listed))
             state == OutcomeState(read.errors)
             said == Say(graph, "members", group, state, read.kept)
             related == {Relation("member", Thing("user", <<id>>), group, "members", group) : id \in read.kept}
         IN Made(task, IF state = "PRESENT" THEN Relate(said, related) ELSE said,
                 {}, same /\ read.errors # {})

-----------------------------------------------------------------------------
(* Managed policies                                                          *)

\* _materialize_referenced_policies: what was mentioned and not listed.
MaterializePolicies ==
  /\ phase = "principals" /\ tasks = {}
  /\ LET mentioned == {Thing("policy", <<m.arn>>) : m \in graph.mentions}
         By(m) == IF m.type = "boundary" THEN "profile" ELSE "attached"
         whole == {m \in graph.mentions : m.by = "PRESENT"}
     IN /\ graph' = Relate(Admitted(graph, [t \in mentioned \ Things |-> Facts]),
                           {Relation(m.type, m.owner, Thing("policy", <<m.arn>>), By(m), m.owner) : m \in whole})
        /\ tasks' = UNION {Ask({"metadata"}, t) : t \in mentioned \cup OfType("policy")}
  /\ phase' = "policies"
  /\ UNCHANGED <<directory, touched, mishaps>>

\* The default version becomes a resource of its own once its policy was read; it
\* is asked for after the tags of the policy.
ReadPolicyMetadata ==
  \E task \in Due("metadata") :
    LET policy == task.about
        arn == Head(policy.id)
        tags == IF arn \in AwsManaged THEN {} ELSE Ask({"tags"}, policy)
        current == directory.policies[arn].version
        version == VersionOf(arn, current)
        read == Put(Say(graph, "metadata", policy, "PRESENT", {current}),
                    [p \in {policy} |-> [Facts EXCEPT !.version = current]])
    IN \/ /\ Exists(policy)
          /\ Made(task, Relate(Admitted(read, [v \in {version} |-> Facts]),
                               {Relation("default", policy, version, "metadata", policy)}),
                  tags \cup {Task("version", version, policy, Facts)}, FALSE)
       \/ \E errors \in (IF Exists(policy) THEN Errors \ {{}} ELSE {{"denied"}}) :
            Made(task, Say(graph, "metadata", policy, OutcomeState(errors), {}), tags, Exists(policy))

\* A version that is no longer the default is refused, or already gone.
ReadVersion ==
  \E task \in Due("version") :
    LET version == task.about
        arn == Head(version.id)
        current == arn \in DOMAIN directory.policies /\ version = VersionOf(arn, directory.policies[arn].version)
    IN \E errors \in (IF current THEN Errors ELSE {{"denied"}, {"malformed"}}) :
         Made(task, Say(graph, "document", version, OutcomeState(errors),
                        IF errors = {} THEN {directory.policies[arn].document} ELSE {}),
              {}, current /\ errors # {})

-----------------------------------------------------------------------------
(* The account                                                               *)

Differing(f, g) ==
  {x \in DOMAIN f \cup DOMAIN g : x \notin DOMAIN f \cap DOMAIN g \/ f[x] # g[x]}

\* Principals are created, deleted, renamed or replaced; policies too.
ChangeDirectory ==
  /\ Untroubled /\ tasks # {}
  /\ \E turned \in Turns[directory] :
       /\ directory' = turned
       /\ touched' = touched \cup Differing(directory.principals, turned.principals)
                             \cup Differing(directory.policies, turned.policies)
                             \cup (IF directory.root = turned.root THEN {} ELSE {"root"})
  /\ mishaps' = mishaps + 1
  /\ UNCHANGED <<phase, tasks, graph>>

IdentityNext ==
  \/ ReadSummary
  \/ ListIdentities
  \/ ReadTags
  \/ ReadDevices
  \/ ReadKeys
  \/ ReadKeyUsage
  \/ ReadProfile
  \/ ReadAttached
  \/ ReadInlineNames
  \/ ReadInlineDocument
  \/ ReadMembers
  \/ MaterializePolicies
  \/ ReadPolicyMetadata
  \/ ReadVersion
  \/ ChangeDirectory

\* Both collectors have returned.
IdentitiesCollected == phase = "policies" /\ tasks = {}

IdentitySpec == IdentityInit /\ [][IdentityNext]_identityVars
=============================================================================
