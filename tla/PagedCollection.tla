--------------------------- MODULE PagedCollection ---------------------------
(***************************************************************************)
(* How a scan reads the Regional network evidence of one account: the        *)
(* EC2/EBS, security-group and VPC collectors, in the order the inventory      *)
(* service runs them, each source page by page.  AWS may deliver an item       *)
(* twice, deliver it as it was before and after a change, deliver something    *)
(* that does not normalize, or fail at any page; a collector keeps what it     *)
(* normalized and says what went wrong.                                       *)
(***************************************************************************)
EXTENDS NetworkItems

CONSTANTS
  NoId,          \* identity of an item whose identity does not read
  Holdings,      \* what AWS may hold: functions from sources to sets of items
  MaxRepeats,    \* bound: repeated deliveries of an item of one source
  MaxFaults      \* bound: calls of one scan that fail

\* The sources in the order they are read, and the collectors that read them.
Order == <<"instances", "volumes", "default", "key", "groups", "vpcs", "subnets", "flow_logs">>
Sources == {Order[i] : i \in DOMAIN Order}
Settings == {"default", "key"}
Blocking == {"instances", "volumes"}

SourcesOf == [ec2 |-> {"instances", "volumes", "default", "key"},
              groups |-> {"groups"},
              network |-> {"vpcs", "subnets", "flow_logs"}]

Faults == {"denied", "failed", "malformed"}
Problems == Faults \cup {"conflict"}

ASSUME CollectionAssumption ==
  /\ MaxRepeats \in Nat /\ MaxFaults \in Nat
  /\ \A h \in Holdings : DOMAIN h = Sources
  /\ \A h \in Holdings, s \in Sources : \A i \in h[s] : i.kind = s
  /\ \A h \in Holdings, s \in Settings : \A i, j \in h[s] : Readable(i) /\ i = j
  /\ \A h \in Holdings : h["default"] # {} /\ \A d \in h["default"] : d.encrypted \in BOOLEAN

VARIABLES
  held,      \* what AWS holds while the scan reads it
  heard,     \* the items of each source that were delivered
  repeats,   \* deliveries of an item that was delivered before
  faults,    \* calls that failed
  reading,   \* position in Order
  source     \* what a collector knows of each source

collectionVars == <<held, heard, repeats, faults, reading, source>>

\* seen holds the first delivery of each identity (seen_raw), kept what it
\* normalized to.
NothingRead == [seen |-> {}, kept |-> {}, blocked |-> {}, discarded |-> 0, errors |-> {}]

CollectionInit ==
  /\ held \in Holdings
  /\ heard = [s \in Sources |-> {}]
  /\ repeats = [s \in Sources |-> 0]
  /\ faults = 0
  /\ reading = 1
  /\ source = [s \in Sources |-> NothingRead]

Reads(s) == reading \in DOMAIN Order /\ Order[reading] = s

-----------------------------------------------------------------------------
(* AWS                                                                     *)

\* One more item of s is delivered: each item once, and some again.
Deliver(s, item) ==
  /\ Reads(s) /\ item \in held[s]
  /\ \/ item \notin heard[s] /\ UNCHANGED repeats
     \/ /\ item \in heard[s] /\ repeats[s] < MaxRepeats
        /\ repeats' = [repeats EXCEPT ![s] = @ + 1]
  /\ heard' = [heard EXCEPT ![s] = @ \cup {item}]
  /\ UNCHANGED <<held, faults, reading>>

-----------------------------------------------------------------------------
(* One item of a page                                                      *)

Without(items, id) == {i \in items : i.id # id}
First(p, id) == {i \in p.seen : i.id = id}
KeptAs(p, id) == {r \in p.kept : r.id = id}

\* The item is counted, and the error it raised is remembered.
Discard(p, n, error) == [p EXCEPT !.discarded = @ + n, !.errors = @ \cup {error}]

\* An item seen for the first time is kept if it normalizes.
Admit(p, item) ==
  LET q == [p EXCEPT !.seen = @ \cup {item}]
  IN IF Normalizes(item) THEN [q EXCEPT !.kept = @ \cup {Normalized(item)}]
     ELSE Discard(q, 1, "malformed")

\* Mutant of Clash: the later delivery replaces the first.
ClashReplaces(p, item) ==
  [p EXCEPT !.kept = Without(@, item.id) \cup Resources({item}), !.seen = @ \cup {item}]

\* Two deliveries of one identity differ: neither is evidence.
Clash(p, item) ==
  [Discard(p, 1 + Cardinality(KeptAs(p, item.id)), "conflict") EXCEPT
     !.kept = Without(@, item.id)]

Meet(p, item) ==
  IF First(p, item.id) = {} THEN Admit(p, item)
  ELSE IF item \in p.seen THEN p
  ELSE Clash(p, item)

\* The loops of instances and volumes also discard what follows a conflict.
MeetBlocking(p, item) ==
  IF item.id \in p.blocked THEN [p EXCEPT !.discarded = @ + 1]
  ELSE IF First(p, item.id) \in {{}, {item}} THEN Meet(p, item)
  ELSE [Clash(p, item) EXCEPT !.blocked = @ \cup {item.id}]

\* The body of a page's loop.
Take(s, item) ==
  source' = [source EXCEPT ![s] =
               IF item.id = NoId THEN Discard(@, 1, "malformed")
               ELSE IF s \in Blocking THEN MeetBlocking(@, item)
               ELSE Meet(@, item)]

\* A page that is no mapping or has no list, or a call that fails, ends the
\* source; what was normalized before stays.
Abort(s) ==
  /\ Reads(s) /\ faults < MaxFaults
  /\ \E f \in Faults : source' = [source EXCEPT ![s].errors = @ \cup {f}]
  /\ faults' = faults + 1
  /\ reading' = reading + 1
  /\ UNCHANGED <<held, heard, repeats>>

\* The paginator has no further page.
Exhausted(s) ==
  /\ Reads(s) /\ heard[s] = held[s]
  /\ reading' = reading + 1
  /\ UNCHANGED <<held, heard, repeats, faults, source>>

-----------------------------------------------------------------------------
(* EC2EbsCollector                                                         *)

\* A reservation that does not read hides its instances and is one discard.
LoseReservation ==
  /\ Reads("instances") /\ faults < MaxFaults
  /\ \E lost \in SUBSET (held["instances"] \ heard["instances"]) :
       heard' = [heard EXCEPT !["instances"] = @ \cup lost]
  /\ source' = [source EXCEPT !["instances"] = Discard(@, 1, "malformed")]
  /\ faults' = faults + 1
  /\ UNCHANGED <<held, repeats, reading>>

CollectInstances ==
  \/ \E item \in held["instances"] : Deliver("instances", item) /\ Take("instances", item)
  \/ LoseReservation \/ Abort("instances") \/ Exhausted("instances")

CollectVolumes ==
  \/ \E item \in held["volumes"] : Deliver("volumes", item) /\ Take("volumes", item)
  \/ Abort("volumes") \/ Exhausted("volumes")

\* One call answers a setting.
Answer(s) ==
  /\ Reads(s)
  /\ heard' = [heard EXCEPT ![s] = held[s]]
  /\ source' = [source EXCEPT ![s].kept = held[s]]
  /\ reading' = reading + 1
  /\ UNCHANGED <<held, repeats, faults>>

\* get_ebs_encryption_by_default
CollectEncryptionDefault == Answer("default") \/ Abort("default")

\* get_ebs_default_kms_key_id may answer that there is no key.
CollectDefaultKey == Answer("key") \/ Abort("key")

-----------------------------------------------------------------------------
(* SecurityGroupCollector and VPCNetworkCollector                          *)

CollectGroups ==
  \/ \E item \in held["groups"] : Deliver("groups", item) /\ Take("groups", item)
  \/ Abort("groups") \/ Exhausted("groups")

CollectNetwork(s) ==
  \/ \E item \in held[s] : Deliver(s, item) /\ Take(s, item)
  \/ Abort(s) \/ Exhausted(s)

Collect ==
  \/ CollectInstances \/ CollectVolumes \/ CollectEncryptionDefault \/ CollectDefaultKey
  \/ CollectGroups \/ \E s \in SourcesOf.network : CollectNetwork(s)

Collected == reading \notin DOMAIN Order

-----------------------------------------------------------------------------
(* What a collector says of its sources                                     *)

\* _preferred_error and source_failure: a conflict is told before what is
\* malformed, and that before an API failure.
State(p) ==
  IF "conflict" \in p.errors THEN "CONFLICT"
  ELSE IF "malformed" \in p.errors THEN "MALFORMED"
  ELSE IF p.errors # {} THEN "UNAVAILABLE"
  ELSE "PRESENT"

\* A missing default key is an answer.
StateOf(s) == IF s = "key" /\ State(source[s]) = "PRESENT" /\ source[s].kept = {}
              THEN "EXPECTED_ABSENCE" ELSE State(source[s])

Complete(s) == source[s].errors = {}

\* collection_status_for over the discoveries of a collector and the
\* observation of each resource it kept.
RollUp(states) ==
  IF states \subseteq {"PRESENT", "EXPECTED_ABSENCE"} THEN "SUCCEEDED"
  ELSE IF states = {"UNAVAILABLE"} THEN "FAILED"
  ELSE "PARTIAL"

Kept(s) == IF s \in Settings THEN {} ELSE source[s].kept

States(c) == {StateOf(s) : s \in SourcesOf[c]}
             \cup {"PRESENT" : i \in UNION {Kept(s) : s \in SourcesOf[c]}}

CollectionTypeOK ==
  /\ DOMAIN held = Sources
  /\ \A s \in Sources :
       /\ heard[s] \subseteq held[s] /\ repeats[s] \in 0..MaxRepeats
       /\ source[s].kept \subseteq Resources(held[s])
       /\ source[s].seen \subseteq heard[s]
       /\ source[s].discarded \in Nat /\ source[s].errors \subseteq Problems
  /\ faults \in 0..MaxFaults
  /\ reading \in 1..Len(Order) + 1
=============================================================================
