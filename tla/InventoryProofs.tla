----------------------------- MODULE InventoryProofs -----------------------------
(***************************************************************************)
(* Proofs about the paged collection of the EC2 services and the inventories   *)
(* of CloudTrail and S3, with the controls that read them: for every account   *)
(* that the assumptions admit, any number of items, trails, buckets, keys and  *)
(* owners, every change made during a scan, every size of a batch and every    *)
(* number of calls that go wrong.                                              *)
(***************************************************************************)
EXTENDS NetworkInventory, TrailControls, BucketControls, FiniteSetTheorems, SequenceTheorems, TLAPS

-----------------------------------------------------------------------------
(* The network: one source                                                  *)

\* The values a source record takes while items of U are delivered.
PageOf(U) == [seen : SUBSET U, kept : SUBSET {Normalized(i) : i \in U},
            blocked : SUBSET {i.id : i \in U}, discarded : Nat, errors : SUBSET Problems]

\* What a collector may rely on after the items of L were delivered: one first
\* delivery for each identity, only what came from one is kept, and without an
\* error everything delivered is kept.
Fits(p, L) ==
  /\ p.seen \subseteq L
  /\ \A i, j \in p.seen : i.id = j.id => i = j
  /\ \A r \in p.kept : \E i \in p.seen : Normalizes(i) /\ r = Normalized(i)
  /\ p.blocked # {} => p.errors # {}
  /\ p.errors = {} => L \subseteq p.seen /\ \A i \in p.seen : Normalizes(i) /\ Normalized(i) \in p.kept

\* The sources and their order.
LEMMA SourceNames ==
  /\ DOMAIN Order = 1..8 /\ Len(Order) = 8
  /\ Sources = {"instances", "volumes", "default", "key", "groups", "vpcs", "subnets", "flow_logs"}
  BY DEF Sources, Order

\* Normalizing keeps kind and identity (the normalizers of the collectors).
LEMMA NormalizedKeeps ==
  ASSUME NEW item, item.kind \in Sources
  PROVE  Normalized(item).kind = item.kind /\ Normalized(item).id = item.id
<1>1. CASE item.kind = "instances"
  BY <1>1 DEF Normalized, Instance
<1>2. CASE item.kind = "volumes"
  BY <1>2 DEF Normalized, Volume
<1>3. CASE item.kind = "groups"
  BY <1>3 DEF Normalized, Group
<1>4. CASE item.kind = "vpcs"
  BY <1>4 DEF Normalized, Vpc
<1>5. CASE item.kind = "subnets"
  BY <1>5 DEF Normalized, Subnet
<1>6. CASE item.kind = "flow_logs"
  BY <1>6 DEF Normalized, FlowLog
<1>7. CASE item.kind \in Settings
  BY <1>7 DEF Normalized, Settings
<1>. QED
  BY <1>1, <1>2, <1>3, <1>4, <1>5, <1>6, <1>7, SourceNames DEF Settings

\* Kept resources have identities of their own.
LEMMA KeptOnce ==
  ASSUME NEW p, NEW L, Fits(p, L), \A i \in L : i.kind \in Sources
  PROVE  \A r, q \in p.kept : r.id = q.id => r = q
<1>. SUFFICES ASSUME NEW r \in p.kept, NEW q \in p.kept, r.id = q.id
             PROVE  r = q
  OBVIOUS
<1>1. PICK i \in p.seen : r = Normalized(i)
  BY DEF Fits
<1>2. PICK j \in p.seen : q = Normalized(j)
  BY DEF Fits
<1>3. i.id = j.id
  BY <1>1, <1>2, NormalizedKeeps DEF Fits
<1>. QED
  BY <1>1, <1>2, <1>3 DEF Fits

\* Discarding an item counts it and remembers the error.
LEMMA DiscardFields ==
  ASSUME NEW U, NEW p \in PageOf(U), NEW n \in Nat, NEW e \in Problems
  PROVE  /\ Discard(p, n, e) \in PageOf(U)
         /\ Discard(p, n, e).seen = p.seen /\ Discard(p, n, e).kept = p.kept
         /\ Discard(p, n, e).blocked = p.blocked
         /\ Discard(p, n, e).errors = p.errors \cup {e}
<1>. DEFINE d == [p EXCEPT !.discarded = p.discarded + n]
            q == [d EXCEPT !.errors = d.errors \cup {e}]
<1>1. p.discarded + n \in Nat
  BY DEF PageOf
<1>2. /\ d \in PageOf(U) /\ d.seen = p.seen /\ d.kept = p.kept /\ d.blocked = p.blocked
      /\ d.errors = p.errors
  BY <1>1 DEF PageOf
<1>3. Discard(p, n, e) = q
  BY DEF Discard
<1>. HIDE DEF d
<1>4. /\ q \in PageOf(U) /\ q.seen = d.seen /\ q.kept = d.kept /\ q.blocked = d.blocked
      /\ q.errors = d.errors \cup {e}
  BY <1>2 DEF PageOf
<1>. HIDE DEF q
<1>. QED
  BY <1>2, <1>3, <1>4

\* A discard changes nothing that was admitted.
LEMMA DiscardFits ==
  ASSUME NEW U, NEW L, NEW p \in PageOf(U), Fits(p, L),
         NEW n \in Nat, NEW e \in Problems, NEW M, L \subseteq M
  PROVE  Discard(p, n, e) \in PageOf(U) /\ Fits(Discard(p, n, e), M)
<1>. DEFINE d == Discard(p, n, e)
<1>1. /\ d \in PageOf(U) /\ d.seen = p.seen /\ d.kept = p.kept /\ d.blocked = p.blocked
      /\ d.errors = p.errors \cup {e}
  BY DiscardFields
<1>. HIDE DEF d
<1>2. Fits(d, M)
  BY <1>1 DEF Fits
<1>. QED
  BY <1>1, <1>2 DEF d

\* _collect_paginated_source: an item is admitted under a new identity.
LEMMA AdmitFits ==
  ASSUME NEW U, NEW L, NEW p \in PageOf(U), Fits(p, L), NEW item \in U, First(p, item.id) = {}
  PROVE  Admit(p, item) \in PageOf(U) /\ Fits(Admit(p, item), L \cup {item})
<1>. DEFINE q == [p EXCEPT !.seen = @ \cup {item}]
<1>1. /\ q \in PageOf(U)
      /\ q.seen = p.seen \cup {item} /\ q.kept = p.kept /\ q.blocked = p.blocked
      /\ q.errors = p.errors
  BY DEF PageOf
<1>2. \A i, j \in q.seen : i.id = j.id => i = j
  BY <1>1 DEF Fits, First
<1>3. CASE Normalizes(item)
  <2>. DEFINE a == [q EXCEPT !.kept = @ \cup {Normalized(item)}]
  <2>1. /\ a \in PageOf(U) /\ Admit(p, item) = a
        /\ a.seen = q.seen /\ a.kept = p.kept \cup {Normalized(item)}
        /\ a.blocked = p.blocked /\ a.errors = p.errors
    BY <1>1, <1>3 DEF Admit, PageOf
  <2>. HIDE DEF a, q
  <2>. QED
    BY <1>1, <1>2, <1>3, <2>1 DEF Fits
<1>4. CASE ~Normalizes(item)
  <2>1. Admit(p, item) = Discard(q, 1, "malformed")
    BY <1>4 DEF Admit
  <2>2. "malformed" \in Problems /\ 1 \in Nat
    BY DEF Problems, Faults
  <2>3. /\ Discard(q, 1, "malformed") \in PageOf(U)
        /\ Discard(q, 1, "malformed").seen = q.seen /\ Discard(q, 1, "malformed").kept = p.kept
        /\ Discard(q, 1, "malformed").errors = p.errors \cup {"malformed"}
    <3>. HIDE DEF q
    <3>. QED BY <1>1, <2>2, DiscardFields
  <2>. HIDE DEF q
  <2>. QED
    BY <1>1, <1>2, <2>1, <2>3 DEF Fits
<1>. QED
  BY <1>3, <1>4

\* A conflict removes one resource at most, and is an error.
LEMMA ClashFits ==
  ASSUME NEW U, NEW L, NEW p \in PageOf(U), Fits(p, L), NEW item \in U,
         \A i \in L : i.kind \in Sources
  PROVE  /\ Clash(p, item) \in PageOf(U) /\ Fits(Clash(p, item), L \cup {item})
         /\ Clash(p, item).errors # {}
<1>. DEFINE n == 1 + Cardinality(KeptAs(p, item.id))
            d == Discard(p, n, "conflict")
            q == [d EXCEPT !.kept = Without(@, item.id)]
<1>1. n \in Nat
  <2>1. \A r, s \in KeptAs(p, item.id) : r = s
    BY KeptOnce DEF KeptAs
  <2>2. CASE KeptAs(p, item.id) = {}
    BY <2>2, FS_EmptySet
  <2>3. CASE KeptAs(p, item.id) # {}
    <3>1. PICK r : KeptAs(p, item.id) = {r}
      BY <2>1, <2>3
    <3>2. Cardinality({r}) = 1
      BY FS_Singleton
    <3>. QED
      BY <3>1, <3>2
  <2>. QED
    BY <2>2, <2>3
<1>2. "conflict" \in Problems
  BY DEF Problems
<1>. HIDE DEF n
<1>3. d \in PageOf(U) /\ Fits(d, L \cup {item})
  BY <1>1, <1>2, DiscardFits
<1>4. d.errors = p.errors \cup {"conflict"}
  BY <1>1, <1>2, DiscardFields
<1>. HIDE DEF d
<1>5. /\ q \in PageOf(U) /\ q.seen = d.seen /\ q.kept \subseteq d.kept
      /\ q.blocked = d.blocked /\ q.errors = d.errors
  BY <1>3 DEF PageOf, Without
<1>6. Clash(p, item) = q
  BY DEF Clash, d, n
<1>. HIDE DEF q
<1>. QED
  BY <1>3, <1>4, <1>5, <1>6 DEF Fits

\* _collect_graph_resources and _collect_paginated_source.
LEMMA MeetFits ==
  ASSUME NEW U, NEW L, NEW p \in PageOf(U), Fits(p, L), NEW item \in U,
         \A i \in L : i.kind \in Sources
  PROVE  Meet(p, item) \in PageOf(U) /\ Fits(Meet(p, item), L \cup {item})
<1>1. CASE First(p, item.id) = {}
  BY <1>1, AdmitFits DEF Meet
<1>2. CASE First(p, item.id) # {} /\ item \in p.seen
  <2>1. Meet(p, item) = p
    BY <1>2 DEF Meet
  <2>. QED
    BY <1>2, <2>1 DEF Fits
<1>3. CASE First(p, item.id) # {} /\ item \notin p.seen
  BY <1>3, ClashFits DEF Meet
<1>. QED
  BY <1>1, <1>2, <1>3

\* _collect_instances and _collect_volumes: a blocked identity has an error.
LEMMA MeetBlockingFits ==
  ASSUME NEW U, NEW L, NEW p \in PageOf(U), Fits(p, L), NEW item \in U,
         \A i \in L : i.kind \in Sources
  PROVE  MeetBlocking(p, item) \in PageOf(U) /\ Fits(MeetBlocking(p, item), L \cup {item})
<1>1. CASE item.id \in p.blocked
  <2>. DEFINE q == [p EXCEPT !.discarded = @ + 1]
  <2>1. /\ q \in PageOf(U) /\ q.seen = p.seen /\ q.kept = p.kept /\ q.blocked = p.blocked
        /\ q.errors = p.errors /\ q.errors # {} /\ MeetBlocking(p, item) = q
    BY <1>1 DEF PageOf, Fits, MeetBlocking
  <2>. HIDE DEF q
  <2>. QED
    BY <2>1 DEF Fits
<1>2. CASE item.id \notin p.blocked /\ First(p, item.id) \in {{}, {item}}
  BY <1>2, MeetFits DEF MeetBlocking
<1>3. CASE item.id \notin p.blocked /\ First(p, item.id) \notin {{}, {item}}
  <2>. DEFINE c == Clash(p, item)
              q == [c EXCEPT !.blocked = @ \cup {item.id}]
  <2>1. c \in PageOf(U) /\ Fits(c, L \cup {item}) /\ c.errors # {}
    BY ClashFits
  <2>2. MeetBlocking(p, item) = q
    BY <1>3 DEF MeetBlocking
  <2>. HIDE DEF c
  <2>3. q \in PageOf(U) /\ q.seen = c.seen /\ q.kept = c.kept /\ q.errors = c.errors
    BY <2>1 DEF PageOf
  <2>. HIDE DEF q
  <2>. QED
    BY <2>1, <2>2, <2>3 DEF Fits
<1>. QED
  BY <1>1, <1>2, <1>3

-----------------------------------------------------------------------------
(* The network: the collection                                               *)

\* A function of the sources, and what changing one of its values leaves alone.
IsMap(f) == f = [s \in Sources |-> f[s]]

LEMMA MapExcept ==
  ASSUME NEW f, IsMap(f), NEW s \in Sources, NEW e
  PROVE  /\ IsMap([f EXCEPT ![s] = e]) /\ [f EXCEPT ![s] = e][s] = e
         /\ \A t \in Sources : t # s => [f EXCEPT ![s] = e][t] = f[t]
BY DEF IsMap

\* What is known of one source while it is read, and after.
Known(s) ==
  /\ heard[s] \subseteq held[s] /\ repeats[s] \in 0..MaxRepeats
  /\ source[s] \in PageOf(held[s])
  /\ s \notin Settings => Fits(source[s], heard[s])
  /\ s \in Settings => source[s].kept \subseteq held[s] /\ source[s].seen = {}

Read(s) ==
  source[s].errors = {} => heard[s] = held[s] /\ (s \in Settings => source[s].kept = held[s])

CollectionInv ==
  /\ held \in Holdings
  /\ IsMap(heard) /\ IsMap(repeats) /\ IsMap(source)
  /\ faults \in 0..MaxFaults /\ reading \in 1..9
  /\ \A s \in Sources : Known(s)
  /\ \A k \in 1..8 : k < reading => Read(Order[k])

\* The order names each source once.
LEMMA OrderIsOnce ==
  /\ \A k \in 1..8 : Order[k] \in Sources
  /\ \A k, l \in 1..8 : Order[k] = Order[l] => k = l
  /\ \A s \in Sources : \E k \in 1..8 : Order[k] = s
BY DEF Sources, Order

LEMMA HeldKinds ==
  ASSUME CollectionInv, NEW s \in Sources
  PROVE  /\ \A i \in held[s] : i.kind = s /\ i.kind \in Sources
         /\ \A i \in heard[s] : i.kind \in Sources
BY CollectionAssumption DEF CollectionInv, Known

\* A step that reads one source keeps what is known of the others.
LEMMA StepOfOne ==
  ASSUME CollectionInv, NEW s \in Sources, Reads(s), held' = held,
         IsMap(heard'), IsMap(repeats'), IsMap(source'),
         \A t \in Sources : t # s =>
           heard'[t] = heard[t] /\ repeats'[t] = repeats[t] /\ source'[t] = source[t],
         Known(s)', faults' \in 0..MaxFaults,
         reading' = reading \/ (reading' = reading + 1 /\ Read(s)')
  PROVE  CollectionInv'
<1>1. reading \in 1..8 /\ Order[reading] = s
  BY SourceNames DEF Reads
<1>2. reading' \in 1..9
  BY <1>1
<1>3. ASSUME NEW t \in Sources
      PROVE  Known(t)'
  BY <1>3 DEF CollectionInv, Known
<1>4. ASSUME NEW k \in 1..8, k < reading'
      PROVE  Read(Order[k])'
  <2>1. CASE k = reading
    BY <1>1, <1>4, <2>1
  <2>2. CASE k # reading
    <3>1. k < reading /\ Order[k] # s /\ Order[k] \in Sources
      BY <1>1, <1>4, <2>2, OrderIsOnce
    <3>2. Read(Order[k])
      BY <3>1 DEF CollectionInv
    <3>. QED
      BY <3>1, <3>2 DEF Read
  <2>. QED
    BY <2>1, <2>2
<1>. QED
  BY <1>2, <1>3, <1>4 DEF CollectionInv

\* One item of a page.
LEMMA TakeKeeps ==
  ASSUME CollectionInv, NEW s \in Sources \ Settings, NEW item \in held[s],
         Deliver(s, item), Take(s, item)
  PROVE  CollectionInv'
<1>. DEFINE p == source[s]
            U == held[s]
            L == heard[s]
<1>1. /\ p \in PageOf(U) /\ Fits(p, L) /\ L \subseteq held[s] /\ repeats[s] \in 0..MaxRepeats
      /\ \A i \in L : i.kind \in Sources
  BY HeldKinds DEF CollectionInv, Known
<1>2. PICK q : q \in PageOf(U) /\ Fits(q, L \cup {item}) /\ source' = [source EXCEPT ![s] = q]
  <2>1. CASE item.id = NoId
    <3>1. "malformed" \in Problems /\ 1 \in Nat
      BY DEF Problems, Faults
    <3>2. Discard(p, 1, "malformed") \in PageOf(U) /\ Fits(Discard(p, 1, "malformed"), L \cup {item})
      BY <1>1, <3>1, DiscardFits
    <3>. QED
      BY <2>1, <3>2 DEF Take
  <2>2. CASE item.id # NoId /\ s \in Blocking
    BY <1>1, <2>2, MeetBlockingFits DEF Take
  <2>3. CASE item.id # NoId /\ s \notin Blocking
    BY <1>1, <2>3, MeetFits DEF Take
  <2>. QED
    BY <2>1, <2>2, <2>3
<1>3. /\ held' = held /\ faults' = faults /\ reading' = reading /\ Reads(s)
      /\ heard' = [heard EXCEPT ![s] = heard[s] \cup {item}]
      /\ \/ repeats' = repeats
         \/ repeats[s] < MaxRepeats /\ repeats' = [repeats EXCEPT ![s] = repeats[s] + 1]
  BY DEF Deliver
<1>4. IsMap(heard) /\ IsMap(repeats) /\ IsMap(source)
  BY DEF CollectionInv
<1>5. /\ IsMap(heard') /\ heard'[s] = L \cup {item}
      /\ \A t \in Sources : t # s => heard'[t] = heard[t]
  BY <1>3, <1>4 DEF IsMap
<1>6. /\ IsMap(source') /\ source'[s] = q
      /\ \A t \in Sources : t # s => source'[t] = source[t]
  BY <1>2, <1>4 DEF IsMap
<1>7. /\ IsMap(repeats') /\ repeats'[s] \in 0..MaxRepeats
      /\ \A t \in Sources : t # s => repeats'[t] = repeats[t]
  <2>1. CASE repeats' = repeats
    BY <1>1, <1>4, <2>1
  <2>2. CASE repeats[s] < MaxRepeats /\ repeats' = [repeats EXCEPT ![s] = repeats[s] + 1]
    <3>1. repeats[s] + 1 \in 0..MaxRepeats
      BY <1>1, <2>2, CollectionAssumption
    <3>. QED
      BY <1>4, <2>2, <3>1 DEF IsMap
  <2>. QED
    BY <1>3, <2>1, <2>2
<1>8. Known(s)'
  BY <1>1, <1>2, <1>3, <1>5, <1>6, <1>7 DEF Known
<1>. QED
  BY <1>3, <1>5, <1>6, <1>7, <1>8, StepOfOne DEF CollectionInv

\* A source whose pages end, or fail.
LEMMA AbortKeeps ==
  ASSUME CollectionInv, NEW s \in Sources, Abort(s)
  PROVE  CollectionInv'
<1>. DEFINE p == source[s]
<1>1. /\ held' = held /\ heard' = heard /\ repeats' = repeats /\ Reads(s)
      /\ faults < MaxFaults /\ faults' = faults + 1 /\ reading' = reading + 1
  BY DEF Abort
<1>2. PICK f \in Faults : source' = [source EXCEPT ![s].errors = @ \cup {f}]
  BY DEF Abort
<1>. DEFINE q == [p EXCEPT !.errors = p.errors \cup {f}]
<1>3. /\ p \in PageOf(held[s]) /\ IsMap(source) /\ IsMap(heard) /\ IsMap(repeats)
      /\ heard[s] \subseteq held[s] /\ repeats[s] \in 0..MaxRepeats
  BY DEF CollectionInv, Known
<1>4. /\ q \in PageOf(held[s]) /\ q.seen = p.seen /\ q.kept = p.kept /\ q.blocked = p.blocked
      /\ q.errors # {}
  BY <1>3 DEF PageOf, Problems
<1>5. source' = [source EXCEPT ![s] = q]
  BY <1>2
<1>. HIDE DEF q
<1>6. IsMap(source') /\ source'[s] = q /\ \A t \in Sources : t # s => source'[t] = source[t]
  BY <1>3, <1>5 DEF IsMap
<1>7. Known(s)'
  BY <1>1, <1>3, <1>4, <1>6 DEF Known, CollectionInv, Fits
<1>8. Read(s)'
  BY <1>4, <1>6 DEF Read
<1>9. faults' \in 0..MaxFaults
  BY <1>1, CollectionAssumption DEF CollectionInv
<1>. QED
  BY <1>1, <1>3, <1>6, <1>7, <1>8, <1>9, StepOfOne

LEMMA ExhaustedKeeps ==
  ASSUME CollectionInv, NEW s \in Sources \ Settings, Exhausted(s)
  PROVE  CollectionInv'
<1>1. /\ UNCHANGED <<held, heard, repeats, faults, source>> /\ Reads(s)
      /\ heard[s] = held[s] /\ reading' = reading + 1
  BY DEF Exhausted
<1>2. Known(s)' /\ Read(s)'
  BY <1>1 DEF CollectionInv, Known, Read
<1>. QED
  BY <1>1, <1>2, StepOfOne DEF CollectionInv

\* One call answers a setting.
LEMMA AnswerKeeps ==
  ASSUME CollectionInv, NEW s \in Settings, Answer(s)
  PROVE  CollectionInv'
<1>. DEFINE p == source[s]
            q == [p EXCEPT !.kept = held[s]]
<1>1. /\ held' = held /\ repeats' = repeats /\ faults' = faults /\ Reads(s)
      /\ heard' = [heard EXCEPT ![s] = held[s]] /\ reading' = reading + 1
      /\ source' = [source EXCEPT ![s] = q]
  BY DEF Answer
<1>2. s \in Sources
  BY SourceNames DEF Settings
<1>3. /\ p \in PageOf(held[s]) /\ IsMap(source) /\ IsMap(heard) /\ IsMap(repeats)
      /\ p.seen = {} /\ repeats[s] \in 0..MaxRepeats
  BY <1>2 DEF CollectionInv, Known
<1>4. \A i \in held[s] : Normalized(i) = i
  BY <1>2, CollectionAssumption, HeldKinds DEF CollectionInv, Normalized, Settings
<1>5. held[s] \subseteq {Normalized(i) : i \in held[s]}
  BY <1>4
<1>6. q \in PageOf(held[s]) /\ q.seen = p.seen /\ q.kept = held[s]
  BY <1>3, <1>5 DEF PageOf
<1>. HIDE DEF q
<1>7. /\ IsMap(source') /\ source'[s] = q /\ \A t \in Sources : t # s => source'[t] = source[t]
      /\ IsMap(heard') /\ heard'[s] = held[s] /\ \A t \in Sources : t # s => heard'[t] = heard[t]
  BY <1>1, <1>2, <1>3 DEF IsMap
<1>8. Known(s)' /\ Read(s)'
  BY <1>1, <1>2, <1>3, <1>6, <1>7 DEF Known, Read
<1>. QED
  BY <1>1, <1>2, <1>3, <1>7, <1>8, StepOfOne DEF CollectionInv

\* A reservation that does not read.
LEMMA LoseKeeps ==
  ASSUME CollectionInv, LoseReservation
  PROVE  CollectionInv'
<1>. DEFINE s == "instances"
            p == source[s]
            q == Discard(p, 1, "malformed")
<1>1. /\ held' = held /\ repeats' = repeats /\ Reads(s) /\ reading' = reading
      /\ faults < MaxFaults /\ faults' = faults + 1 /\ source' = [source EXCEPT ![s] = q]
  BY DEF LoseReservation
<1>2. PICK lost \in SUBSET (held[s] \ heard[s]) : heard' = [heard EXCEPT ![s] = heard[s] \cup lost]
  BY DEF LoseReservation
<1>3. s \in Sources \ Settings
  BY SourceNames DEF Settings
<1>4. /\ p \in PageOf(held[s]) /\ Fits(p, heard[s]) /\ IsMap(source) /\ IsMap(heard) /\ IsMap(repeats)
      /\ heard[s] \subseteq held[s] /\ repeats[s] \in 0..MaxRepeats
  BY <1>3 DEF CollectionInv, Known
<1>5. "malformed" \in Problems /\ 1 \in Nat
  BY DEF Problems, Faults
<1>6. q \in PageOf(held[s]) /\ Fits(q, heard[s] \cup lost)
  BY <1>4, <1>5, DiscardFits
<1>. HIDE DEF q, s
<1>7. /\ IsMap(source') /\ source'[s] = q /\ \A t \in Sources : t # s => source'[t] = source[t]
      /\ IsMap(heard') /\ heard'[s] = heard[s] \cup lost
      /\ \A t \in Sources : t # s => heard'[t] = heard[t]
  BY <1>1, <1>2, <1>3, <1>4 DEF IsMap
<1>8. Known(s)'
  BY <1>1, <1>2, <1>3, <1>4, <1>6, <1>7 DEF Known
<1>9. faults' \in 0..MaxFaults
  BY <1>1, CollectionAssumption DEF CollectionInv
<1>. QED
  BY <1>1, <1>3, <1>4, <1>7, <1>8, <1>9, StepOfOne

LEMMA CollectKeeps ==
  ASSUME CollectionInv, Collect
  PROVE  CollectionInv'
<1>1. /\ "instances" \in Sources \ Settings /\ "volumes" \in Sources \ Settings
      /\ "groups" \in Sources \ Settings /\ SourcesOf.network \subseteq Sources \ Settings
      /\ "default" \in Settings /\ "key" \in Settings /\ Settings \subseteq Sources
  BY SourceNames DEF Settings, SourcesOf
<1>2. CASE CollectInstances
  BY <1>1, <1>2, TakeKeeps, AbortKeeps, ExhaustedKeeps, LoseKeeps DEF CollectInstances
<1>3. CASE CollectVolumes
  BY <1>1, <1>3, TakeKeeps, AbortKeeps, ExhaustedKeeps DEF CollectVolumes
<1>4. CASE CollectEncryptionDefault
  BY <1>1, <1>4, AnswerKeeps, AbortKeeps DEF CollectEncryptionDefault
<1>5. CASE CollectDefaultKey
  BY <1>1, <1>5, AnswerKeeps, AbortKeeps DEF CollectDefaultKey
<1>6. CASE CollectGroups
  BY <1>1, <1>6, TakeKeeps, AbortKeeps, ExhaustedKeeps DEF CollectGroups
<1>7. CASE \E s \in SourcesOf.network : CollectNetwork(s)
  BY <1>1, <1>7, TakeKeeps, AbortKeeps, ExhaustedKeeps DEF CollectNetwork
<1>. QED
  BY <1>2, <1>3, <1>4, <1>5, <1>6, <1>7 DEF Collect

-----------------------------------------------------------------------------
(* The network: the scan                                                     *)

\* A snapshot is assembled once, from the whole collection, and the verdicts
\* once from the snapshot.
Inv ==
  /\ CollectionInv
  /\ snapshot # NoSnapshot => Collected /\ snapshot = Assembled
  /\ verdicts # {} => snapshot # NoSnapshot /\ verdicts = Verdicts

LEMMA AssembledStays ==
  ASSUME UNCHANGED collectionVars
  PROVE  Assembled' = Assembled /\ Collected' = Collected
<1>1. UNCHANGED <<held, reading, source>>
  BY DEF collectionVars
<1>2. /\ Observed' = Observed /\ References' = References
      /\ \A s : StateOf(s)' = StateOf(s)
  BY <1>1 DEF Observed, References, Kept, InstanceReferences, GroupReferences,
              TopologyReferences, StateOf
<1>3. \A ref, R : Resolution(ref, R)' = Resolution(ref, R)
  BY <1>1, <1>2 DEF Resolution, MissingTarget
<1>4. \A refs, R : Edges(refs, R)' = Edges(refs, R)
  BY <1>3 DEF Edges
<1>5. Unadmitted' = Unadmitted
  BY <1>2, <1>4 DEF Unadmitted
<1>6. Retained' = Retained
  BY <1>2, <1>5 DEF Retained
<1>7. \A c : Status(c)' = Status(c)
  BY <1>1, <1>2, <1>5 DEF Status, AdmissionGap, UnadmittedOf, Kept
<1>. QED
  BY <1>1, <1>2, <1>4, <1>5, <1>6, <1>7 DEF Assembled, Collected

LEMMA VerdictsStay ==
  ASSUME UNCHANGED <<collectionVars, snapshot>>
  PROVE  Verdicts' = Verdicts
<1>1. UNCHANGED <<held, source, snapshot>>
  BY DEF collectionVars
<1>2. \A s : Population(s)' = Population(s) /\ Cited(s)' = Cited(s)
  BY <1>1 DEF Population, Cited, StateOf, Complete, Kept
<1>3. \A r, kind : EdgesOf(r, kind)' = EdgesOf(r, kind) /\ LogsOf(r)' = LogsOf(r)
  BY <1>1 DEF EdgesOf, LogsOf
<1>4. \A r : GroupProof(r)' = GroupProof(r) /\ FlowLogProof(r)' = FlowLogProof(r)
  BY <1>1, <1>2, <1>3 DEF GroupProof, FlowLogProof
<1>5. \A c, r : /\ InstanceResult(c, r)' = InstanceResult(c, r) /\ VolumeResult(r)' = VolumeResult(r)
                /\ GroupResult(c, r)' = GroupResult(c, r)
  BY <1>2, <1>4 DEF InstanceResult, VolumeResult, GroupResult
<1>6. \A r : FlowLogResult(r)' = FlowLogResult(r)
  BY <1>3, <1>4 DEF FlowLogResult, Decide
<1>7. DefaultResult' = DefaultResult /\ \A c : EmptyResult(c)' = EmptyResult(c)
  BY <1>1, <1>2 DEF DefaultResult, EmptyResult
<1>8. \A c, r : Result(c, r)' = Result(c, r)
  BY <1>5, <1>6, <1>7 DEF Result
<1>9. \A c : AssessmentTargets(c)' = AssessmentTargets(c)
  BY <1>1 DEF AssessmentTargets
<1>. QED
  BY <1>8, <1>9 DEF Verdicts

LEMMA Start == Init => Inv
<1>. SUFFICES ASSUME Init PROVE Inv
  OBVIOUS
<1>1. /\ held \in Holdings /\ IsMap(heard) /\ IsMap(repeats) /\ IsMap(source)
      /\ faults = 0 /\ reading = 1
  BY DEF Init, CollectionInit, IsMap
<1>2. ASSUME NEW s \in Sources
      PROVE  Known(s)
  <2>1. heard[s] = {} /\ repeats[s] = 0 /\ source[s] = NothingRead
    BY DEF Init, CollectionInit
  <2>. QED
    BY <2>1, CollectionAssumption DEF Known, Fits, PageOf, NothingRead
<1>3. CollectionInv
  BY <1>1, <1>2, CollectionAssumption DEF CollectionInv
<1>. QED
  BY <1>3 DEF Inv, Init

LEMMA Step == Inv /\ [Next]_vars => Inv'
<1>. SUFFICES ASSUME Inv, [Next]_vars PROVE Inv'
  OBVIOUS
<1>1. CASE Collect /\ UNCHANGED <<snapshot, verdicts>>
  <2>1. snapshot = NoSnapshot
    <3>1. \E s \in Sources : Reads(s)
      BY <1>1, SourceNames DEF Collect, CollectInstances, CollectVolumes, CollectEncryptionDefault,
         CollectDefaultKey, CollectGroups, CollectNetwork, SourcesOf, Deliver, LoseReservation,
         Abort, Exhausted, Answer
    <3>. QED
      BY <3>1 DEF Inv, Collected, Reads
  <2>. QED
    BY <1>1, <2>1, CollectKeeps DEF Inv
<1>2. CASE Assemble
  <2>1. UNCHANGED collectionVars /\ Collected /\ snapshot' = Assembled /\ verdicts' = verdicts
        /\ snapshot = NoSnapshot
    BY <1>2 DEF Assemble
  <2>2. CollectionInv'
    BY <2>1 DEF Inv, collectionVars, CollectionInv, Known, Read
  <2>. QED
    BY <2>1, <2>2, AssembledStays DEF Inv
<1>3. CASE Assess
  <2>1. UNCHANGED <<collectionVars, snapshot>> /\ verdicts' = Verdicts /\ snapshot # NoSnapshot
    BY <1>3 DEF Assess
  <2>2. CollectionInv'
    BY <2>1 DEF Inv, collectionVars, CollectionInv, Known, Read
  <2>3. Verdicts' = Verdicts
    BY <2>1, VerdictsStay
  <2>. QED
    BY <2>1, <2>2, <2>3, AssembledStays DEF Inv
<1>4. CASE UNCHANGED vars
  <2>1. UNCHANGED <<collectionVars, snapshot>> /\ verdicts' = verdicts
    BY <1>4 DEF vars
  <2>2. CollectionInv'
    BY <2>1 DEF Inv, collectionVars, CollectionInv, Known, Read
  <2>. QED
    BY <2>1, <2>2, AssembledStays, VerdictsStay DEF Inv
<1>. QED
  BY <1>1, <1>2, <1>3, <1>4 DEF Next

LEMMA Always == Spec => []Inv
  BY Start, Step, PTL DEF Spec

-----------------------------------------------------------------------------
(* The network: what the collection knows once it is complete                *)

LEMMA KeptKinds ==
  ASSUME CollectionInv, NEW s \in Sources, NEW r \in Kept(s)
  PROVE  /\ s \notin Settings /\ r.kind = s
         /\ \E i \in held[s] : Normalizes(i) /\ r = Normalized(i)
<1>1. s \notin Settings /\ r \in source[s].kept
  BY DEF Kept
<1>2. PICK i \in source[s].seen : Normalizes(i) /\ r = Normalized(i)
  BY <1>1 DEF CollectionInv, Known, Fits
<1>3. i \in held[s]
  BY <1>1, <1>2 DEF CollectionInv, Known, Fits
<1>. QED
  BY <1>1, <1>2, <1>3, HeldKinds, NormalizedKeeps

\* Observed resources of a kind are those the source of that kind kept, and an
\* identity of a kind is kept once (seen_raw).
LEMMA ObservedOnce ==
  ASSUME CollectionInv
  PROVE  /\ \A r \in Observed : r.kind \in Sources /\ r \in Kept(r.kind)
         /\ \A s \in Sources : Kept(s) \subseteq Observed
         /\ \A r, q \in Observed : r.kind = q.kind /\ r.id = q.id => r = q
<1>1. /\ \A r \in Observed : r.kind \in Sources /\ r \in Kept(r.kind)
      /\ \A s \in Sources : Kept(s) \subseteq Observed
  BY KeptKinds DEF Observed
<1>2. ASSUME NEW r \in Observed, NEW q \in Observed, r.kind = q.kind, r.id = q.id
      PROVE  r = q
  <2>. DEFINE s == r.kind
  <2>1. s \in Sources /\ s \notin Settings /\ r \in source[s].kept /\ q \in source[s].kept
    BY <1>1, <1>2, KeptKinds DEF Kept
  <2>2. Fits(source[s], heard[s]) /\ \A i \in heard[s] : i.kind \in Sources
    BY <2>1, HeldKinds DEF CollectionInv, Known
  <2>. QED
    BY <1>2, <2>1, <2>2, KeptOnce
<1>. QED
  BY <1>1, <1>2

\* A source that is complete kept everything, and holds one version of each.
LEMMA CompleteKept ==
  ASSUME CollectionInv, Collected, NEW s \in Sources \ Settings, Complete(s)
  PROVE  /\ \A i \in held[s] : Normalizes(i) /\ Normalized(i) \in Kept(s)
         /\ \A i, j \in held[s] : i.id = j.id => i = j
<1>1. PICK k \in 1..8 : Order[k] = s
  BY OrderIsOnce
<1>2. reading = 9
  BY SourceNames DEF Collected, CollectionInv
<1>3. heard[s] = held[s]
  BY <1>1, <1>2 DEF CollectionInv, Read, Complete
<1>4. held[s] \subseteq source[s].seen
  BY <1>3 DEF CollectionInv, Known, Fits, Complete
<1>. QED
  BY <1>3, <1>4 DEF CollectionInv, Known, Fits, Complete, Kept

LEMMA StateIsComplete ==
  ASSUME NEW s \in Sources, StateOf(s) \in {"PRESENT", "EXPECTED_ABSENCE"}
  PROVE  Complete(s)
BY DEF StateOf, State, Complete

-----------------------------------------------------------------------------
(* The network: the snapshot                                                 *)

LEMMA ReferencesAreObserved ==
  ASSUME CollectionInv, NEW ref \in References
  PROVE  /\ ref.from \in Observed
         /\ \/ Names(ref.from, ref.to.kind, ref.to.id)
               /\ (ref.to.owner = Anyone \/ (ref.to.owner = Mine /\ ref.to.kind = "volumes"))
            \/ \E t \in Observed : /\ t.kind = ref.to.kind /\ t.id = ref.to.id /\ t.owner = ref.to.owner
                                   /\ Names(t, ref.from.kind, ref.from.id)
<1>1. CASE ref \in InstanceReferences
  <2>1. PICK i \in Kept("instances") :
          \E r \in i.refs :
            ref = Reference(i, r.kind, r.id, IF r.kind = "volumes" THEN Mine ELSE Anyone)
    BY <1>1 DEF InstanceReferences
  <2>2. PICK r \in i.refs :
          ref = Reference(i, r.kind, r.id, IF r.kind = "volumes" THEN Mine ELSE Anyone)
    BY <2>1
  <2>3. PICK raw : i = Instance(raw)
    <3>1. PICK raw \in held["instances"] : i = Normalized(raw)
      BY SourceNames, KeptKinds
    <3>. QED
      BY <3>1, SourceNames, HeldKinds DEF Normalized
  <2>4. \A q \in i.refs : q = To(q.kind, q.id)
    BY <2>3 DEF Instance, To, ToOptional
  <2>5. Names(ref.from, ref.to.kind, ref.to.id)
    BY <2>2, <2>4 DEF Reference, Names, To
  <2>6. ref.to.owner = Anyone \/ (ref.to.owner = Mine /\ ref.to.kind = "volumes")
    BY <2>2 DEF Reference
  <2>7. ref.from \in Observed
    BY <2>2, SourceNames, ObservedOnce DEF Reference
  <2>. QED
    BY <2>5, <2>6, <2>7
<1>2. CASE ref \in GroupReferences
  <2>1. PICK g \in Kept("groups") : \E r \in g.refs : ref = Reference(g, "vpcs", r.id, Anyone)
    BY <1>2 DEF GroupReferences
  <2>2. PICK r \in g.refs : ref = Reference(g, "vpcs", r.id, Anyone)
    BY <2>1
  <2>3. PICK raw : g = Group(raw)
    <3>1. PICK raw \in held["groups"] : g = Normalized(raw)
      BY SourceNames, KeptKinds
    <3>. QED
      BY <3>1, SourceNames, HeldKinds DEF Normalized
  <2>4. r = To("vpcs", r.id)
    BY <2>3 DEF Group, To
  <2>. QED
    BY <2>2, <2>4, SourceNames, ObservedOnce DEF Reference, Names, To
<1>3. CASE ref \in TopologyReferences
  <2>1. PICK v \in Kept("vpcs") :
          \/ \E s \in Kept("subnets") :
               /\ Names(s, "vpcs", v.id) /\ s.owner = v.owner
               /\ ref = Reference(v, "subnets", s.id, s.owner)
          \/ \E l \in Kept("flow_logs") :
               Names(l, "vpcs", v.id) /\ ref = Reference(v, "flow_logs", l.id, Mine)
    BY <1>3 DEF TopologyReferences
  <2>2. v \in Observed /\ v.kind = "vpcs"
    BY SourceNames, ObservedOnce, KeptKinds
  <2>3. \A s \in Kept("subnets") : s \in Observed /\ s.kind = "subnets"
    BY SourceNames, ObservedOnce, KeptKinds
  <2>4. \A l \in Kept("flow_logs") : l \in Observed /\ l.kind = "flow_logs" /\ l.owner = Mine
    <3>1. ASSUME NEW l \in Kept("flow_logs")
          PROVE  l.owner = Mine
      <4>1. PICK raw \in held["flow_logs"] : l = Normalized(raw)
        BY <3>1, SourceNames, KeptKinds
      <4>. QED
        BY <4>1, SourceNames, HeldKinds DEF Normalized, FlowLog
    <3>. QED
      BY <3>1, SourceNames, ObservedOnce, KeptKinds
  <2>. QED
    BY <2>1, <2>2, <2>3, <2>4 DEF Reference
<1>. QED
  BY <1>1, <1>2, <1>3 DEF References

LEMMA ResolvedHasTarget ==
  ASSUME NEW ref, NEW R, Resolution(ref, R) = "RESOLVED"
  PROVE  Targets(ref, R) # {}
<1>1. CASE ref.to.owner = Anyone
  <2>1. Cardinality(Targets(ref, R)) = 1
    BY <1>1 DEF Resolution
  <2>. QED
    BY <2>1, FS_EmptySet
<1>2. CASE ref.to.owner # Anyone
  BY <1>2 DEF Resolution, MissingTarget
<1>. QED
  BY <1>1, <1>2

LEMMA TargetsOfEdge ==
  ASSUME NEW refs, NEW R, NEW e \in Edges(refs, R)
  PROVE  \E ref \in refs : /\ e.from = ref.from /\ e.to = ref.to
                           /\ e.resolution = Resolution(ref, R)
                           /\ \A Q : Targets(e, Q) = Targets(ref, Q)
BY DEF Edges, Targets

\* A relationship that resolves keeps both ends, and resolves again after the
\* pruning (_prune_unadmitted_external_resources).
LEMMA ResolvedStays ==
  ASSUME CollectionInv, NEW ref \in References, Resolution(ref, Observed) = "RESOLVED"
  PROVE  /\ ref \in Retained
         /\ Resolution(ref, Observed \ Unadmitted) = "RESOLVED"
         /\ Targets(ref, Observed \ Unadmitted) = Targets(ref, Observed)
<1>. DEFINE e == [from |-> ref.from, to |-> ref.to, resolution |-> "RESOLVED"]
<1>1. e \in Edges(References, Observed) /\ e.resolution = "RESOLVED" /\ e.from = ref.from
  BY DEF Edges
<1>2. Targets(e, Observed) = Targets(ref, Observed)
  BY DEF Targets
<1>. HIDE DEF e
<1>3. {ref.from} \cup Targets(ref, Observed) \subseteq Ends(Edges(References, Observed), Observed)
  BY <1>1, <1>2 DEF Ends
<1>4. ref.from \notin Unadmitted /\ \A t \in Targets(ref, Observed) : t \notin Unadmitted
  BY <1>3 DEF Unadmitted
<1>5. Targets(ref, Observed \ Unadmitted) = Targets(ref, Observed)
  BY <1>4 DEF Targets, OfKind
<1>6. Targets(ref, Unadmitted) = {}
  <2>1. Unadmitted \subseteq Observed
    BY DEF Unadmitted
  <2>. QED
    BY <1>4, <2>1 DEF Targets, OfKind
<1>7. Resolution(ref, Observed \ Unadmitted) = "RESOLVED"
  <2>1. CASE ref.to.owner = Anyone
    BY <1>5, <2>1 DEF Resolution
  <2>2. CASE ref.to.owner # Anyone
    BY <1>5, <2>2, ResolvedHasTarget DEF Resolution
  <2>. QED
    BY <2>1, <2>2
<1>. QED
  BY <1>4, <1>5, <1>6, <1>7 DEF Retained

\* The snapshot that a scan assembles validates.
LEMMA AssembledIsAdmissible ==
  ASSUME CollectionInv
  PROVE  Admissible(Assembled)
<1>. DEFINE R == Observed \ Unadmitted
            E == Edges(Retained, R)
<1>1. Assembled.resources = R /\ Assembled.edges = E
  BY DEF Assembled
<1>2. \A r \in R : IdentityIsUnique(r, R)
  BY ObservedOnce DEF IdentityIsUnique
<1>3. ASSUME NEW r \in R, r.owner # Mine
      PROVE  r \in Ends(E, R)
  <2>1. r \in Ends(Edges(References, Observed), Observed)
    BY <1>3 DEF Unadmitted
  <2>2. PICK e \in Edges(References, Observed) :
          e.resolution = "RESOLVED" /\ r \in {e.from} \cup Targets(e, Observed)
    BY <2>1 DEF Ends
  <2>3. PICK ref \in References :
          /\ e.from = ref.from /\ e.resolution = Resolution(ref, Observed)
          /\ \A Q : Targets(e, Q) = Targets(ref, Q)
    BY <2>2, TargetsOfEdge
  <2>4. /\ ref \in Retained /\ Resolution(ref, R) = "RESOLVED"
        /\ Targets(ref, R) = Targets(ref, Observed)
    BY <2>2, <2>3, ResolvedStays
  <2>. DEFINE f == [from |-> ref.from, to |-> ref.to, resolution |-> Resolution(ref, R)]
  <2>5. /\ f \in E /\ f.resolution = "RESOLVED" /\ f.from = ref.from
        /\ Targets(f, R) = Targets(ref, R)
    BY <2>4 DEF Edges, Targets
  <2>. HIDE DEF E, R, f
  <2>6. r \in {f.from} \cup Targets(f, R)
    BY <2>2, <2>3, <2>4, <2>5
  <2>. QED
    BY <2>5, <2>6 DEF Ends
<1>4. ASSUME NEW e \in E
      PROVE  EndpointsArePresent(e, R)
  <2>1. PICK ref \in Retained :
          /\ e.from = ref.from /\ e.resolution = Resolution(ref, R)
          /\ \A Q : Targets(e, Q) = Targets(ref, Q)
    BY <1>4, TargetsOfEdge
  <2>2. e.from \in R
    BY <2>1, ReferencesAreObserved DEF Retained
  <2>3. e.resolution = "RESOLVED" => Targets(e, R) # {}
    BY <2>1, ResolvedHasTarget
  <2>. QED
    BY <2>2, <2>3 DEF EndpointsArePresent
<1>. QED
  BY <1>1, <1>2, <1>3, <1>4 DEF Admissible, OwnerIsAdmitted

\* _validate_resource_admission accepts what _prune_unadmitted_external_resources
\* left, whatever owners the references join.
THEOREM AdmissionIsSound == Spec => []SnapshotIsAdmissible
<1>1. Inv => SnapshotIsAdmissible
  BY AssembledIsAdmissible DEF Inv, SnapshotIsAdmissible
<1>. QED
  BY <1>1, Always, PTL

\* A resolved relationship joins two resources one of which names the other, and
\* what was "not collected" was not there (_resolve_relationships).
THEOREM RelationshipsAreSound == Spec => []RelationshipsAreTrue
<1>1. ASSUME Inv, snapshot # NoSnapshot, NEW e \in snapshot.edges
      PROVE  /\ e.resolution = "RESOLVED" =>
                  \E t \in snapshot.resources :
                    /\ t.kind = e.to.kind /\ t.id = e.to.id
                    /\ Names(e.from, t.kind, t.id) \/ Names(t, e.from.kind, e.from.id)
             /\ e.resolution = "NOT_COLLECTED" => \A t \in held[e.to.kind] : t.id # e.to.id
  <2>. DEFINE R == Observed \ Unadmitted
  <2>1. CollectionInv /\ Collected /\ snapshot.resources = R /\ snapshot.edges = Edges(Retained, R)
    BY <1>1 DEF Inv, Assembled
  <2>2. PICK ref \in Retained :
          /\ e.from = ref.from /\ e.to = ref.to /\ e.resolution = Resolution(ref, R)
    BY <1>1, <2>1, TargetsOfEdge
  <2>3. /\ ref \in References
        /\ ref.to.owner # Anyone => Targets(ref, Unadmitted) = {}
    BY <2>2 DEF Retained
  <2>4. \/ /\ Names(ref.from, ref.to.kind, ref.to.id)
           /\ ref.to.owner = Anyone \/ (ref.to.owner = Mine /\ ref.to.kind = "volumes")
        \/ \E t \in Observed : /\ t.kind = ref.to.kind /\ t.id = ref.to.id /\ t.owner = ref.to.owner
                               /\ Names(t, ref.from.kind, ref.from.id)
    BY <2>1, <2>3, ReferencesAreObserved
  <2>5. ASSUME e.resolution = "RESOLVED"
        PROVE  \E t \in R : /\ t.kind = e.to.kind /\ t.id = e.to.id
                            /\ Names(e.from, t.kind, t.id) \/ Names(t, e.from.kind, e.from.id)
    <3>1. PICK t \in Targets(ref, R) : TRUE
      BY <2>2, <2>5, ResolvedHasTarget
    <3>2. t \in R /\ t.kind = ref.to.kind /\ t.id = ref.to.id
      BY <3>1 DEF Targets, OfKind
    <3>3. Names(ref.from, t.kind, t.id) \/ Names(t, ref.from.kind, ref.from.id)
      BY <2>1, <2>4, <3>2, ObservedOnce
    <3>. QED
      BY <2>2, <3>2, <3>3
  <2>6. ASSUME e.resolution = "NOT_COLLECTED", NEW t \in held[e.to.kind], t.id = e.to.id
        PROVE  FALSE
    <3>1. /\ ref.to.owner # Anyone /\ Targets(ref, R) = {}
          /\ StateOf(ref.to.kind) \in {"PRESENT", "EXPECTED_ABSENCE"}
      BY <2>2, <2>6 DEF Resolution, MissingTarget
    <3>2. CASE ref.to.owner = Mine /\ ref.to.kind = "volumes"
      <4>1. "volumes" \in Sources \ Settings /\ Complete("volumes")
        BY <3>1, <3>2, SourceNames, StateIsComplete DEF Settings
      <4>2. Normalized(t) \in Kept("volumes") /\ t.kind = "volumes"
        BY <2>1, <2>2, <2>6, <3>2, <4>1, CompleteKept, HeldKinds
      <4>3. Normalized(t).id = t.id /\ Normalized(t).kind = "volumes" /\ Normalized(t).owner = Mine
        BY <4>2 DEF Normalized, Volume
      <4>4. Normalized(t) \in R
        BY <2>1, <4>1, <4>2, <4>3, ObservedOnce DEF Unadmitted
      <4>. QED
        BY <2>2, <2>6, <3>1, <3>2, <4>3, <4>4 DEF Targets, OfKind
    <3>3. ASSUME NEW q \in Observed, q.kind = ref.to.kind, q.id = ref.to.id, q.owner = ref.to.owner
          PROVE  FALSE
      BY <2>3, <3>1, <3>3 DEF Targets, OfKind
    <3>. QED
      BY <2>4, <3>1, <3>2, <3>3
  <2>. QED
    BY <2>1, <2>5, <2>6
<1>2. Inv => RelationshipsAreTrue
  BY <1>1 DEF RelationshipsAreTrue
<1>. QED
  BY <1>2, Always, PTL

LEMMA CollectorSources ==
  ASSUME NEW c \in DOMAIN SourcesOf
  PROVE  SourcesOf[c] \subseteq Sources
BY SourceNames DEF SourcesOf

\* A collector that succeeded brought everything that was held, and one that
\* failed nothing (collection_status_for, graph_collection_status_for).
THEOREM StatusIsSound == Spec => []StatusIsTrue
<1>1. ASSUME Inv, snapshot # NoSnapshot, NEW c \in DOMAIN SourcesOf, NEW s \in Sources \ Settings,
             s \in SourcesOf[c]
      PROVE  /\ snapshot.status[c] = "SUCCEEDED" =>
                  \A i \in held[s] : Normalizes(i) /\ Normalized(i) \in snapshot.resources
             /\ snapshot.status[c] = "FAILED" => OfKind(s, snapshot.resources) = {}
  <2>. DEFINE R == Observed \ Unadmitted
              retained == (UNION {Kept(q) : q \in SourcesOf[c]}) \ Unadmitted
              states == {StateOf(q) : q \in SourcesOf[c]} \cup {"PRESENT" : r \in retained}
  <2>1. CollectionInv /\ Collected /\ snapshot.resources = R /\ snapshot.status[c] = Status(c)
    BY <1>1 DEF Inv, Assembled
  <2>2. Status(c) = IF RollUp(states) = "SUCCEEDED" /\ AdmissionGap(c) THEN "PARTIAL"
                    ELSE RollUp(states)
    BY DEF Status
  <2>3. ASSUME Status(c) = "SUCCEEDED", NEW i \in held[s]
        PROVE  Normalizes(i) /\ Normalized(i) \in R
    <3>. HIDE DEF states
    <3>1. RollUp(states) = "SUCCEEDED" /\ ~AdmissionGap(c)
      BY <2>2, <2>3
    <3>2. states \subseteq {"PRESENT", "EXPECTED_ABSENCE"}
      BY <3>1 DEF RollUp
    <3>3. StateOf(s) \in {"PRESENT", "EXPECTED_ABSENCE"}
      BY <1>1, <3>2 DEF states
    <3>4. Complete(s)
      BY <3>3, StateIsComplete
    <3>5. Normalizes(i) /\ Normalized(i) \in Kept(s)
      BY <2>1, <2>3, <3>4, CompleteKept
    <3>6. Normalized(i) \in Observed /\ Normalized(i).kind = s
      BY <2>1, <3>5, ObservedOnce, KeptKinds
    <3>7. Normalized(i) \notin Unadmitted
      BY <1>1, <3>1, <3>6 DEF AdmissionGap, UnadmittedOf, OfKind
    <3>. QED
      BY <3>5, <3>6, <3>7
  <2>4. ASSUME Status(c) = "FAILED", NEW r \in R, r.kind = s
        PROVE  FALSE
    <3>1. r \in retained
      <4>1. r \in Observed /\ r \notin Unadmitted
        BY <2>4
      <4>2. r \in Kept(s)
        BY <2>1, <2>4, <4>1, ObservedOnce
      <4>. QED
        BY <1>1, <4>1, <4>2
    <3>2. "PRESENT" \in states
      BY <3>1
    <3>. HIDE DEF states
    <3>3. RollUp(states) # "FAILED"
      BY <3>2 DEF RollUp
    <3>. QED
      BY <2>2, <2>4, <3>3
  <2>. QED
    BY <2>1, <2>3, <2>4 DEF OfKind
<1>2. Inv => StatusIsTrue
  BY <1>1 DEF StatusIsTrue
<1>. QED
  BY <1>2, Always, PTL

\* The types of the scan's variables.
THEOREM TypesAreOK == Spec => []TypeOK
<1>1. ASSUME CollectionInv
      PROVE  CollectionTypeOK
  <2>1. ASSUME NEW s \in Sources
        PROVE  /\ heard[s] \subseteq held[s] /\ repeats[s] \in 0..MaxRepeats
               /\ source[s].kept \subseteq Resources(held[s])
               /\ source[s].seen \subseteq heard[s]
               /\ source[s].discarded \in Nat /\ source[s].errors \subseteq Problems
    <3>1. /\ heard[s] \subseteq held[s] /\ repeats[s] \in 0..MaxRepeats
          /\ source[s].discarded \in Nat /\ source[s].errors \subseteq Problems
      BY <1>1 DEF CollectionInv, Known, PageOf
    <3>2. CASE s \notin Settings
      BY <1>1, <3>1, <3>2 DEF CollectionInv, Known, Fits, Resources
    <3>3. CASE s \in Settings
      <4>1. ASSUME NEW i \in held[s]
            PROVE  Normalizes(i) /\ Normalized(i) = i
        <5>1. i.kind = s /\ s \in {"default", "key"}
          BY <1>1, <2>1, <3>3, HeldKinds DEF Settings
        <5>2. Readable(i)
          BY <1>1, <3>3, CollectionAssumption DEF CollectionInv
        <5>. QED
          BY <5>1, <5>2 DEF Normalizes, Normalized
      <4>. QED
        BY <1>1, <3>1, <3>3, <4>1 DEF CollectionInv, Known, Resources
    <3>. QED
      BY <3>1, <3>2, <3>3
  <2>2. DOMAIN held = Sources
    BY <1>1, CollectionAssumption DEF CollectionInv
  <2>. QED
    BY <1>1, <2>1, <2>2, SourceNames DEF CollectionTypeOK, CollectionInv
<1>2. ASSUME Inv, snapshot # NoSnapshot
      PROVE  /\ Collected /\ snapshot.resources \subseteq Observed
             /\ snapshot.unadmitted \cap snapshot.resources = {}
             /\ \A c \in DOMAIN SourcesOf : snapshot.status[c] \in {"SUCCEEDED", "PARTIAL", "FAILED"}
  <2>1. \A c \in DOMAIN SourcesOf : Status(c) \in {"SUCCEEDED", "PARTIAL", "FAILED"}
    BY DEF Status, RollUp
  <2>. QED
    BY <1>2, <2>1 DEF Inv, Assembled
<1>3. Inv => TypeOK
  BY <1>1, <1>2 DEF Inv, TypeOK
<1>. QED
  BY <1>3, Always, PTL

-----------------------------------------------------------------------------
(* The network: the verdicts                                                 *)

\* A source whose discovery is cited shows the resources as they were held.
LEMMA CitedHoldsAll ==
  ASSUME Inv, snapshot # NoSnapshot, NEW s \in Sources \ Settings, Cited(s)
  PROVE  /\ \A i \in held[s] : /\ Normalizes(i) /\ i.kind = s
                               /\ Normalized(i) \in OfKind(s, snapshot.resources)
         /\ \A i, j \in held[s] : i.id = j.id => i = j
         /\ \A r \in OfKind(s, snapshot.resources) : \E i \in held[s] : r = Normalized(i)
<1>1. /\ CollectionInv /\ Collected /\ Complete(s)
      /\ snapshot.resources = Observed \ Unadmitted /\ snapshot.unadmitted = Unadmitted
  BY DEF Inv, Assembled, Cited
<1>2. OfKind(s, Unadmitted) = {}
  BY <1>1 DEF Cited
<1>3. ASSUME NEW i \in held[s]
      PROVE  Normalizes(i) /\ i.kind = s /\ Normalized(i) \in OfKind(s, snapshot.resources)
  <2>1. Normalizes(i) /\ Normalized(i) \in Kept(s)
    BY <1>1, CompleteKept
  <2>2. Normalized(i) \in Observed /\ Normalized(i).kind = s /\ i.kind = s
    BY <1>1, <2>1, ObservedOnce, KeptKinds, HeldKinds
  <2>. QED
    BY <1>1, <1>2, <2>1, <2>2 DEF OfKind
<1>4. ASSUME NEW r \in OfKind(s, snapshot.resources)
      PROVE  \E i \in held[s] : r = Normalized(i)
  BY <1>1, <1>4, ObservedOnce, KeptKinds DEF OfKind
<1>5. \A i, j \in held[s] : i.id = j.id => i = j
  BY <1>1, CompleteKept
<1>. QED
  BY <1>3, <1>4, <1>5

LEMMA ControlNames ==
  /\ Controls = {"EC2_001", "EC2_002", "EC2_003", "EC2_004", "NET_003", "NET_004", "NET_005", "NET_006"}
  /\ KindOf["EC2_001"] = "instances" /\ KindOf["EC2_002"] = "instances"
  /\ KindOf["EC2_003"] = "volumes" /\ KindOf["EC2_004"] = "default"
  /\ KindOf["NET_003"] = "groups" /\ KindOf["NET_004"] = "groups"
  /\ KindOf["NET_005"] = "groups" /\ KindOf["NET_006"] = "vpcs"
BY DEF Controls, KindOf

\* Every decision rests on the population of its kind.
LEMMA NeedsPopulation ==
  ASSUME NEW c \in Controls, c # "EC2_004", NEW t, Result(c, t) # "INSUFFICIENT"
  PROVE  Population(KindOf[c])
<1>1. CASE t = Account
  BY <1>1 DEF Result, EmptyResult
<1>2. CASE t # Account /\ c \in {"EC2_001", "EC2_002"}
  BY <1>2, ControlNames DEF Result, InstanceResult
<1>3. CASE t # Account /\ c = "EC2_003"
  BY <1>3, ControlNames DEF Result, VolumeResult
<1>4. CASE t # Account /\ c = "NET_006"
  BY <1>4, ControlNames DEF Result, FlowLogResult, FlowLogProof
<1>5. CASE t # Account /\ c \in {"NET_003", "NET_004", "NET_005"}
  BY <1>5, ControlNames DEF Result, GroupResult, GroupProof
<1>. QED
  BY <1>1, <1>2, <1>3, <1>4, <1>5, ControlNames

\* What a decided control says of the account says it of every item
\* (assessment_targets, _population).
THEOREM NothingIsMissed == Spec => []NothingIsOverlooked
<1>1. ASSUME Inv, NEW x \in verdicts, x.result # "INSUFFICIENT", x.control # "EC2_004",
             NEW i \in held[KindOf[x.control]]
      PROVE  Normalizes(i) /\ \E y \in verdicts : y.control = x.control /\ y.target = Normalized(i)
  <2>. DEFINE c == x.control
              s == KindOf[c]
  <2>1. snapshot # NoSnapshot /\ verdicts = Verdicts
    BY <1>1 DEF Inv
  <2>2. c \in Controls /\ x.result = Result(c, x.target)
    BY <2>1 DEF Verdicts
  <2>3. Population(s)
    BY <1>1, <2>2, NeedsPopulation
  <2>4. s \in Sources \ Settings
    BY <1>1, <2>2, ControlNames, SourceNames DEF Settings
  <2>5. Normalizes(i) /\ Normalized(i) \in OfKind(s, snapshot.resources)
    BY <1>1, <2>1, <2>3, <2>4, CitedHoldsAll DEF Population
  <2>6. Normalized(i) \in AssessmentTargets(c)
    BY <2>5 DEF AssessmentTargets
  <2>. DEFINE y == [control |-> c, target |-> Normalized(i), result |-> Result(c, Normalized(i))]
  <2>7. y \in verdicts
    BY <2>1, <2>2, <2>6 DEF Verdicts
  <2>. QED
    BY <2>5, <2>7
<1>2. Inv => NothingIsOverlooked
  BY <1>1 DEF NothingIsOverlooked
<1>. QED
  BY <1>2, Always, PTL

LEMMA InstanceTruth ==
  ASSUME NEW i, NEW c \in {"EC2_001", "EC2_002"}, InstanceResult(c, Instance(i)) \in {"PASS", "FAIL"}
  PROVE  (InstanceResult(c, Instance(i)) = "PASS") <=> Passes(c, i)
<1>1. /\ Instance(i).id = i.id /\ Instance(i).metadata = i.metadata
      /\ Instance(i).public = UNION ({i.addresses} \cup {m.addresses : m \in i.interfaces})
  BY DEF Instance
<1>2. CASE c = "EC2_001"
  BY <1>1, <1>2 DEF InstanceResult, Passes, Decide, MetadataReads
<1>3. CASE c = "EC2_002"
  BY <1>1, <1>3 DEF InstanceResult, Passes, Decide
<1>. QED
  BY <1>2, <1>3

LEMMA GroupTruth ==
  ASSUME NEW g, NEW c \in {"NET_003", "NET_004", "NET_005"}, GroupResult(c, Group(g)) \in {"PASS", "FAIL"}
  PROVE  (GroupResult(c, Group(g)) = "PASS") <=> Passes(c, g)
<1>1. Group(g).ingress = g.ingress /\ Group(g).egress = g.egress
  BY DEF Group
<1>2. CASE c = "NET_003"
  BY <1>1, <1>2 DEF GroupResult, Passes, Decide
<1>3. CASE c = "NET_004"
  BY <1>1, <1>3 DEF GroupResult, Passes, Decide
<1>4. CASE c = "NET_005"
  BY <1>1, <1>4 DEF GroupResult, Passes, Decide
<1>. QED
  BY <1>2, <1>3, <1>4

LEMMA FlowLogTruth ==
  ASSUME Inv, snapshot # NoSnapshot, NEW v, v.kind = "vpcs",
         FlowLogResult(Vpc(v)) \in {"PASS", "FAIL"}
  PROVE  (FlowLogResult(Vpc(v)) = "PASS") <=> Passes("NET_006", v)
<1>. DEFINE L == LogsOf(Vpc(v))
<1>1. Population("flow_logs") /\ "flow_logs" \in Sources \ Settings
  BY SourceNames DEF FlowLogResult, FlowLogProof, Settings
<1>2. \A l \in held["flow_logs"] : /\ Normalizes(l) /\ l.kind = "flow_logs"
                                   /\ FlowLog(l) \in OfKind("flow_logs", snapshot.resources)
  BY <1>1, CitedHoldsAll DEF Population, Normalized
<1>3. \A r \in OfKind("flow_logs", snapshot.resources) :
        \E l \in held["flow_logs"] : r = FlowLog(l)
  BY <1>1, <1>2, CitedHoldsAll DEF Population, Normalized
<1>4. \A l : Names(FlowLog(l), "vpcs", v.id) <=> l.resource = v.id
  BY DEF Names, FlowLog, To
<1>5. \A l : FlowLog(l).traffic = l.traffic
  BY DEF FlowLog
<1>6. Vpc(v).id = v.id
  BY DEF Vpc
<1>7. (\E r \in L : r.traffic \in AcceptedTraffic)
        <=> \E l \in held["flow_logs"] : l.resource = v.id /\ l.traffic \in AcceptedTraffic
  BY <1>2, <1>3, <1>4, <1>5, <1>6 DEF LogsOf
<1>8. \A l \in held["flow_logs"] : l.status = "ACTIVE"
  BY <1>2 DEF Normalizes, FlowLogReads
<1>9. (FlowLogResult(Vpc(v)) = "PASS") <=> \E r \in L : r.traffic \in AcceptedTraffic
  BY DEF FlowLogResult, Decide
<1>. QED
  BY <1>7, <1>8, <1>9 DEF Passes

\* A control passes or fails a resource only as it was held, in one version, and
\* truly (ec2_facts, security_group_proof, flow_log_proof).
THEOREM VerdictsAreSound == Spec => []VerdictsAreTrue
<1>1. ASSUME Inv, NEW x \in verdicts, x.result \in {"PASS", "FAIL"}, x.target = Account
      PROVE  \E d \in held["default"] : (x.result = "PASS") <=> d.encrypted
  <2>1. snapshot # NoSnapshot /\ verdicts = Verdicts
    BY <1>1 DEF Inv
  <2>2. x.control \in Controls /\ x.result = Result(x.control, Account)
    BY <1>1, <2>1 DEF Verdicts
  <2>3. x.control = "EC2_004" /\ x.result = DefaultResult
    BY <1>1, <2>2 DEF Result, EmptyResult
  <2>4. Cited("default") /\ Complete("default")
    BY <1>1, <2>3 DEF DefaultResult, Cited
  <2>5. Collected /\ CollectionInv
    BY <1>1, <2>1 DEF Inv
  <2>6. source["default"].kept = held["default"]
    <3>1. Order[3] = "default" /\ reading = 9
      BY <2>5, SourceNames DEF Order, Collected, CollectionInv
    <3>. QED
      BY <2>4, <2>5, <3>1 DEF CollectionInv, Read, Complete, Settings
  <2>7. /\ held["default"] # {} /\ \A d, e \in held["default"] : d = e
    BY <2>5, CollectionAssumption DEF CollectionInv, Settings
  <2>8. PICK d \in held["default"] : TRUE
    BY <2>7
  <2>9. x.result = IF ~d.encrypted THEN "FAIL" ELSE "PASS"
    BY <2>3, <2>4, <2>6, <2>7 DEF DefaultResult, Decide
  <2>. QED
    BY <2>9
<1>2. ASSUME Inv, NEW x \in verdicts, x.result \in {"PASS", "FAIL"}, x.target # Account
      PROVE  LET versions == {i \in held[x.target.kind] : i.id = x.target.id}
             IN /\ versions # {}
                /\ \A i \in versions : /\ Normalizes(i) /\ Normalized(i) = x.target
                                       /\ (x.result = "PASS") <=> Passes(x.control, i)
  <2>. DEFINE c == x.control
              s == KindOf[c]
              t == x.target
  <2>1. snapshot # NoSnapshot /\ verdicts = Verdicts
    BY <1>2 DEF Inv
  <2>2. c \in Controls /\ x.result = Result(c, t) /\ t \in AssessmentTargets(c)
    BY <2>1 DEF Verdicts
  <2>3. t \in OfKind(s, snapshot.resources) /\ t.kind = s
    BY <1>2, <2>2 DEF AssessmentTargets, OfKind
  <2>4. c # "EC2_004"
    <3>1. \A r \in snapshot.resources : r.kind # "default"
      BY <1>2, <2>1, ObservedOnce, KeptKinds DEF Inv, Assembled, Settings
    <3>. QED
      BY <2>3, <3>1, ControlNames DEF OfKind
  <2>5. Population(s) /\ s \in Sources \ Settings
    BY <1>2, <2>2, <2>4, NeedsPopulation, ControlNames, SourceNames DEF Settings
  <2>6. /\ \A i \in held[s] : Normalizes(i) /\ i.kind = s
        /\ \A i, j \in held[s] : i.id = j.id => i = j
        /\ \E i \in held[s] : t = Normalized(i)
    BY <1>2, <2>1, <2>3, <2>5, CitedHoldsAll DEF Population
  <2>7. PICK i \in held[s] : t = Normalized(i)
    BY <2>6
  <2>8. i.kind = s /\ t.id = i.id
    BY <2>5, <2>6, <2>7, NormalizedKeeps
  <2>9. (x.result = "PASS") <=> Passes(c, i)
    <3>1. CASE c \in {"EC2_001", "EC2_002"}
      <4>1. t = Instance(i) /\ x.result = InstanceResult(c, t)
        BY <1>2, <2>2, <2>7, <2>8, <3>1, ControlNames DEF Normalized, Result
      <4>. QED
        BY <1>2, <3>1, <4>1, InstanceTruth
    <3>2. CASE c = "EC2_003"
      <4>1. t = Volume(i) /\ x.result = VolumeResult(t)
        BY <1>2, <2>2, <2>7, <2>8, <3>2, ControlNames DEF Normalized, Result
      <4>2. t.encrypted = i.encrypted
        BY <4>1 DEF Volume
      <4>. QED
        BY <2>5, <3>2, <4>1, <4>2, ControlNames DEF VolumeResult, Decide, Passes
    <3>3. CASE c \in {"NET_003", "NET_004", "NET_005"}
      <4>1. t = Group(i) /\ x.result = GroupResult(c, t)
        BY <1>2, <2>2, <2>7, <2>8, <3>3, ControlNames DEF Normalized, Result
      <4>. QED
        BY <1>2, <3>3, <4>1, GroupTruth
    <3>4. CASE c = "NET_006"
      <4>1. t = Vpc(i) /\ x.result = FlowLogResult(t) /\ i.kind = "vpcs"
        BY <1>2, <2>2, <2>7, <2>8, <3>4, ControlNames DEF Normalized, Result
      <4>. QED
        BY <1>2, <2>1, <3>4, <4>1, FlowLogTruth
    <3>. QED
      BY <2>2, <2>4, <3>1, <3>2, <3>3, <3>4, ControlNames
  <2>. QED
    BY <2>3, <2>6, <2>7, <2>8, <2>9
<1>3. Inv => VerdictsAreTrue
  BY <1>1, <1>2 DEF VerdictsAreTrue
<1>. QED
  BY <1>3, Always, PTL

-----------------------------------------------------------------------------
(* Orders                                                                    *)

\* SetToSeq lists each element of a finite set once.
LEMMA OrderIsWhole ==
  ASSUME NEW arns, IsFiniteSet(arns)
  PROVE  /\ Cardinality(arns) \in Nat
         /\ SetToSeq(arns) \in [1..Cardinality(arns) -> arns]
         /\ \A i, j \in 1..Cardinality(arns) : SetToSeq(arns)[i] = SetToSeq(arns)[j] => i = j
         /\ \A a \in arns : \E i \in 1..Cardinality(arns) : SetToSeq(arns)[i] = a
<1> DEFINE n == Cardinality(arns)
<1>1. n \in Nat /\ Bijection(1..n, arns) # {}
  BY FS_CardinalityType DEF ExistsBijection
<1>2. \E f \in [1..n -> arns] : IsInjective(f)
  BY <1>1 DEF Bijection, Injection
<1>3. SetToSeq(arns) \in [1..n -> arns] /\ IsInjective(SetToSeq(arns))
  BY <1>2 DEF SetToSeq
<1>4. SetToSeq(arns) \in Injection(1..n, arns)
  BY <1>3 DEF Injection
<1>5. Cardinality(1..n) = n
  BY <1>1, FS_Interval
<1>6. SetToSeq(arns) \in Surjection(1..n, arns)
  BY <1>4, <1>5, FS_Injection
<1>7. \A i, j \in 1..n : SetToSeq(arns)[i] = SetToSeq(arns)[j] => i = j
  BY <1>3 DEF IsInjective
<1>8. QED
  BY <1>1, <1>3, <1>6, <1>7 DEF Surjection

-----------------------------------------------------------------------------
(* Trails: the invariant                                                   *)

\* What a source of a trail may be, whatever AWS answered.
SourceFits(kind, arn, s) ==
  /\ s.state \in TrailSourceStates \cup {"RESOURCE_DISAPPEARED"}
  /\ s.state = "PRESENT" <=> s.value # Unset
  /\ s.state = "PRESENT" =>
       /\ kind = "configuration" =>
            s.value \in Configurations /\ s.value.key # Alias /\ (arn \in ForeignTrails => s.value.org = TRUE)
       /\ kind = "status" => s.value \in BOOLEAN
       /\ kind = "selectors" => s.value \in SelectorValues /\ SelectorsAreAllowed(s.value)

\* What a discovery may be.
DiscoveryFits ==
  /\ discovery.arns \subseteq Trails
  /\ discovery.state \in TrailSourceStates
  /\ discovery.state = "PRESENT" => discovery.discarded = 0

TrailTypesOK ==
  /\ DOMAIN trails \subseteq Trails /\ \A a \in DOMAIN trails : AreSettings(trails[a])
  /\ storage \in {a.storage : a \in TrailAccounts}
  /\ altered \subseteq Trails /\ troubles \in Nat /\ alone \subseteq Trails
  /\ discovery # Unset => DiscoveryFits
  /\ DOMAIN sources \subseteq Kinds \X Trails
  /\ \A x \in DOMAIN sources : SourceFits(x[1], x[2], sources[x])

\* Only trails that were discovered are asked about.
AskedWereListed ==
  DOMAIN sources \subseteq (IF discovery = Unset THEN {} ELSE Kinds \X discovery.arns)

\* What was discovered and answered is still so, unless the trail changed.
SteadyAreSeen ==
  /\ discovery # Unset =>
       /\ discovery.state = "PRESENT" => Steady \subseteq discovery.arns
       /\ discovery.arns \subseteq DOMAIN trails \cup altered
  /\ \A x \in DOMAIN sources :
       x[1] # "tags" /\ x[2] \in Steady /\ sources[x].state = "PRESENT" => sources[x] = Held(x[1], x[2])

TrailInv == TrailTypesOK /\ AskedWereListed /\ SteadyAreSeen

-----------------------------------------------------------------------------
(* Trails: sources                                                         *)

LEMMA UnsourcedFits ==
  ASSUME NEW kind, NEW arn, NEW s \in {"UNAVAILABLE", "MALFORMED", "CONFLICT", "RESOURCE_DISAPPEARED"}
  PROVE  SourceFits(kind, arn, Unsourced(s)) /\ Unsourced(s).state # "PRESENT"
BY DEF SourceFits, Unsourced, TrailSourceStates

LEMMA UnsetIsNoError == Unset # "CONFLICT" /\ Unset # "MALFORMED"
BY UnsetAssumption

\* A key that is not named by its ARN, or an owner without an explanation, is no
\* configuration.
LEMMA ConfigurationFits ==
  ASSUME NEW arn, NEW t, AreSettings(t)
  PROVE  SourceFits("configuration", arn, Configuration(arn, t))
<1> USE DEF SourceFits, TrailSourceStates
<1>1. /\ t.org \in OptionalFlag /\ t.multi \in OptionalFlag /\ t.validation \in OptionalFlag
      /\ t.bucket \in OptionalName /\ t.key \in OptionalName
  BY DEF AreSettings, Fit, SettingForms
<1> DEFINE c == [org |-> t.org, multi |-> t.multi, validation |-> t.validation,
                 bucket |-> t.bucket, key |-> t.key]
<1>2. c \in Configurations /\ c # Unset
  BY <1>1, UnsetAssumption DEF Configurations
<1>3. CASE SettingsError(arn, t) = Unset
  <2>1. t.key # Alias /\ (arn \in ForeignTrails => t.org = TRUE)
    <3>1. t.key # Alias
      BY <1>3, UnsetIsNoError, Zenon DEF SettingsError
    <3>2. t.cloudwatch # "half"
      BY <1>3, UnsetIsNoError, Zenon DEF SettingsError
    <3>3. arn \in ForeignTrails => t.org = TRUE
      BY <1>3, <3>1, <3>2, UnsetIsNoError, Zenon DEF SettingsError
    <3>4. QED
      BY <3>1, <3>3
  <2>2. Configuration(arn, t) = [state |-> "PRESENT", value |-> c]
    BY <1>3 DEF Configuration, Sourced
  <2>3. QED
    BY <2>1, <2>2, <1>2
<1>4. CASE SettingsError(arn, t) # Unset
  <2>1. SettingsError(arn, t) \in {"CONFLICT", "MALFORMED"}
    BY <1>4 DEF SettingsError
  <2>2. QED
    BY <1>4, <2>1, UnsourcedFits DEF Configuration
<1>5. QED
  BY <1>3, <1>4

LEMMA NoPositionNoItem ==
  ASSUME NEW S, NEW q \in Seq(S)
  PROVE  q = <<>> <=> DOMAIN q = {}
<1>1. Len(q) \in Nat /\ DOMAIN q = 1..Len(q)
  OBVIOUS
<1>2. q = <<>> <=> Len(q) = 0
  BY EmptySeq
<1>3. Len(q) # 0 => 1 \in DOMAIN q
  BY <1>1
<1>4. Len(q) = 0 => DOMAIN q = {}
  BY <1>1
<1>5. QED
  BY <1>2, <1>3, <1>4

\* Selectors that were read are of one sort, name known sources only and compare
\* with something.
LEMMA SelectorsFit ==
  ASSUME NEW arn, NEW s \in SelectorForms
  PROVE  SourceFits("selectors", arn, Selectors(s))
<1>1. s.basic \in Seq(BasicForms) /\ s.advanced \in Seq(SUBSET FieldForms)
  BY DEF SelectorForms
<1> DEFINE v == [basic |-> {BasicSelector(s.basic[i]) : i \in DOMAIN s.basic}, advanced |-> ToSet(s.advanced)]
<1>2. CASE SelectorsError(s) = Unset
  <2>1. /\ ~((s.basic = <<>>) <=> (s.advanced = <<>>))
        /\ \A i \in DOMAIN s.basic : BasicIsReadable(s.basic[i])
        /\ \A i \in DOMAIN s.advanced : AdvancedIsReadable(s.advanced[i])
    <3>1. ~((s.basic = <<>>) <=> (s.advanced = <<>>))
      BY <1>2, UnsetIsNoError, Zenon DEF SelectorsError
    <3>2. \A i \in DOMAIN s.basic : BasicIsReadable(s.basic[i])
      BY <1>2, <3>1, UnsetIsNoError, Zenon DEF SelectorsError
    <3>3. \A i \in DOMAIN s.advanced : AdvancedIsReadable(s.advanced[i])
      BY <1>2, <3>1, <3>2, UnsetIsNoError, Zenon DEF SelectorsError
    <3>4. QED
      BY <3>1, <3>2, <3>3
  <2>2. \A i \in DOMAIN s.basic : s.basic[i] \in BasicForms
    BY <1>1
  <2>3. \A i \in DOMAIN s.advanced : s.advanced[i] \in SUBSET FieldForms
    BY <1>1
  <2>4. \A b \in BasicForms :
          BasicSelector(b) \in [management : BOOLEAN, mode : {"All", "ReadOnly", "WriteOnly"}, excluded : SUBSET STRING]
    BY DEF BasicSelector, BasicForms, OrElse, OptionalFlag
  <2>5. v \in SelectorValues
    BY <2>2, <2>3, <2>4 DEF SelectorValues, ToSet
  <2>6. SelectorsAreAllowed(v)
    <3>1. (v.basic = {}) # (v.advanced = {})
      <4>1. s.basic = <<>> <=> DOMAIN s.basic = {}
        BY <1>1, NoPositionNoItem
      <4>2. s.advanced = <<>> <=> DOMAIN s.advanced = {}
        BY <1>1, NoPositionNoItem
      <4>3. (v.basic = {} <=> DOMAIN s.basic = {}) /\ (v.advanced = {} <=> DOMAIN s.advanced = {})
        BY DEF ToSet
      <4>4. QED
        BY <2>1, <4>1, <4>2, <4>3
    <3>2. \A b \in v.basic : b.excluded \subseteq Excludable
      <4>1. \A x : BasicSelector(x).excluded = x.excluded
        BY DEF BasicSelector
      <4>2. QED
        BY <2>1, <4>1 DEF BasicIsReadable
    <3>3. \A a \in v.advanced : a # {} /\ \A f \in a : FieldIsReadable(f)
      BY <2>1 DEF AdvancedIsReadable, ToSet
    <3>4. QED
      BY <3>1, <3>2, <3>3 DEF SelectorsAreAllowed
  <2>7. Selectors(s) = [state |-> "PRESENT", value |-> v]
    BY <1>2 DEF Selectors, Sourced
  <2>8. v # Unset
    BY <2>5, UnsetAssumption
  <2>9. QED
    BY <2>5, <2>6, <2>7, <2>8 DEF SourceFits, TrailSourceStates
<1>3. CASE SelectorsError(s) # Unset
  <2>1. SelectorsError(s) \in {"CONFLICT", "MALFORMED"}
    BY <1>3 DEF SelectorsError
  <2>2. QED
    BY <1>3, <2>1, UnsourcedFits DEF Selectors
<1>4. QED
  BY <1>2, <1>3

-----------------------------------------------------------------------------
(* Trails: discovery                                                       *)

\* The items of a listing: one that reads is a trail.
TrailItems(arns) ==
  {x \in [arn : Trails \cup {Unset}, reading : {"plain", "garbled"}] : x.reading = "plain" => x.arn \in arns}

Garbled == [arn : Trails \cup {Unset}, reading : {"garbled"}]

LEMMA WholeListing ==
  ASSUME NEW arns \in SUBSET Trails, IsFiniteSet(arns)
  PROVE  /\ InOrder(arns) \in Seq(TrailItems(arns))
         /\ \A i \in DOMAIN InOrder(arns) : InOrder(arns)[i].reading = "plain"
         /\ \A a \in arns : \E i \in DOMAIN InOrder(arns) : InOrder(arns)[i].arn = a
<1> DEFINE n == Cardinality(arns)
           order == SetToSeq(arns)
<1>1. n \in Nat /\ order \in [1..n -> arns]
  BY OrderIsWhole
<1>2. InOrder(arns) = [i \in 1..n |-> TrailItem(order[i], "plain")]
  BY <1>1 DEF InOrder
<1>3. \A i \in 1..n : TrailItem(order[i], "plain") \in TrailItems(arns)
  BY <1>1 DEF TrailItem, TrailItems
<1>4. InOrder(arns) \in [1..n -> TrailItems(arns)]
  BY <1>2, <1>3
<1>5. InOrder(arns) \in Seq(TrailItems(arns)) /\ DOMAIN InOrder(arns) = 1..n
  BY <1>1, <1>4
<1>6. \A i \in 1..n : InOrder(arns)[i].reading = "plain" /\ InOrder(arns)[i].arn = order[i]
  BY <1>2 DEF TrailItem
<1>7. \A a \in arns : \E i \in 1..n : order[i] = a
  BY OrderIsWhole
<1>8. QED
  BY <1>5, <1>6, <1>7

\* Whatever spoils a listing leaves an error or an item that does not read.
LEMMA SpoiltListing ==
  ASSUME NEW arns \in SUBSET Trails, IsFiniteSet(arns), NEW listed \in SpoiltPages(InOrder(arns))
  PROVE  /\ listed.items \in Seq(TrailItems(arns))
         /\ listed.error \in {Unset, "UNAVAILABLE", "MALFORMED"}
         /\ listed.error = Unset => \E i \in DOMAIN listed.items : listed.items[i].reading = "garbled"
<1> DEFINE whole == InOrder(arns)
           T == TrailItems(arns)
           first == IF whole = <<>> THEN <<>> ELSE <<Head(whole)>>
           garbled == {TrailItem(whole[i].arn, "garbled") : i \in DOMAIN whole} \cup {TrailItem(Unset, "garbled")}
<1>1. whole \in Seq(T)
  BY WholeListing
<1>2. \A i \in DOMAIN whole : whole[i] \in T
  BY <1>1
<1>3. garbled \subseteq Garbled
  BY <1>2 DEF TrailItem, TrailItems, Garbled
<1>4. first \in Seq(T)
  <2>1. CASE whole = <<>>
    BY <2>1, EmptySeq
  <2>2. CASE whole # <<>>
    BY <2>2, <1>1, HeadTailProperties
  <2>3. QED
    BY <2>1, <2>2
<1>5. Len(first) \in Nat /\ Len(whole) \in Nat /\ DOMAIN whole = 1..Len(whole)
  BY <1>1, <1>4, LenProperties
<1>6. ASSUME NEW m \in Nat, NEW n \in 0..Len(whole)
      PROVE  SubSeq(whole, m + 1, n) \in Seq(T)
  BY <1>6, <1>1, <1>2, <1>5, SubSeqProperties
<1>7. ASSUME NEW n \in 0..Len(whole), NEW e \in {"UNAVAILABLE", "MALFORMED"},
             listed = TrailPages(SubSeq(whole, 1, n), e)
      PROVE  /\ listed.items \in Seq(T)
             /\ listed.error \in {"UNAVAILABLE", "MALFORMED"}
  <2>1. SubSeq(whole, 0 + 1, n) \in Seq(T)
    BY <1>6
  <2>2. QED
    BY <1>7, <2>1 DEF TrailPages
<1>8. ASSUME NEW g \in garbled, NEW s \in Seq(T),
             listed = TrailPages(<<g>> \o s, Unset)
      PROVE  /\ listed.items \in Seq(T) /\ listed.error = Unset
             /\ \E i \in DOMAIN listed.items : listed.items[i].reading = "garbled"
  <2>1. g \in T /\ g.reading = "garbled"
    BY <1>3 DEF Garbled, TrailItems
  <2>2. <<g>> \in Seq(T) /\ Len(<<g>>) = 1 /\ <<g>>[1] = g
    BY <2>1
  <2>3. /\ <<g>> \o s \in Seq(T) /\ Len(<<g>> \o s) = 1 + Len(s) /\ Len(s) \in Nat
        /\ (<<g>> \o s)[1] = g
    BY <2>2, ConcatProperties, LenProperties
  <2>4. 1 \in DOMAIN (<<g>> \o s)
    BY <2>3, LenProperties
  <2>5. QED
    BY <1>8, <2>1, <2>3, <2>4 DEF TrailPages
<1>9. ASSUME NEW g \in garbled, listed = TrailPages(whole \o <<g>> \o first, Unset)
      PROVE  /\ listed.items \in Seq(T) /\ listed.error = Unset
             /\ \E i \in DOMAIN listed.items : listed.items[i].reading = "garbled"
  <2> DEFINE n == Len(whole) + 1
             both == whole \o <<g>>
  <2>1. g \in T /\ g.reading = "garbled"
    BY <1>3 DEF Garbled, TrailItems
  <2>2. <<g>> \in Seq(T) /\ Len(<<g>>) = 1 /\ <<g>>[1] = g
    BY <2>1
  <2>3. both \in Seq(T) /\ Len(both) = n /\ n \in 1..n
    BY <2>2, <1>1, <1>5, ConcatProperties
  <2>4. both[n] = <<g>>[n - Len(whole)]
    BY <2>2, <2>3, <1>1, <1>5, ConcatProperties
  <2>5. both[n] = g
    BY <2>2, <2>4, <1>5
  <2>6. both \o first \in Seq(T) /\ Len(both \o first) = n + Len(first)
    BY <2>3, <1>4, ConcatProperties
  <2>7. n \in 1..(Len(both) + Len(first)) /\ n <= Len(both)
    BY <2>3, <1>5
  <2>8. (both \o first)[n] = g
    BY <2>3, <2>5, <2>7, <1>4, ConcatProperties
  <2>9. n \in DOMAIN (both \o first)
    BY <2>6, <2>7, <2>3, LenProperties
  <2>10. QED
    BY <1>9, <2>1, <2>6, <2>8, <2>9 DEF TrailPages
<1> DEFINE Cut == {TrailPages(SubSeq(whole, 1, n), e) : n \in 0..Len(whole), e \in {"UNAVAILABLE", "MALFORMED"}}
           With(g) == {TrailPages(<<g>> \o SubSeq(whole, Len(first) + 1, Len(whole)), Unset),
                       TrailPages(<<g>> \o whole, Unset),
                       TrailPages(whole \o <<g>> \o first, Unset)}
           Told == /\ listed.items \in Seq(T)
                   /\ listed.error \in {Unset, "UNAVAILABLE", "MALFORMED"}
                   /\ listed.error = Unset => \E i \in DOMAIN listed.items : listed.items[i].reading = "garbled"
<1>10. ASSUME listed \in Cut
       PROVE  Told
  BY <1>10, <1>7, UnsetAssumption
<1>11. ASSUME NEW g \in garbled, listed \in With(g)
       PROVE  Told
  <2>1. SubSeq(whole, Len(first) + 1, Len(whole)) \in Seq(T)
    BY <1>5, <1>6
  <2>2. QED
    BY <1>11, <2>1, <1>1, <1>8, <1>9
<1>12. SpoiltPages(whole) = Cut \cup UNION {With(g) : g \in garbled}
  BY DEF SpoiltPages
<1>13. Told
  <2> HIDE DEF Cut, With, garbled, Told
  <2>1. QED
    BY <1>10, <1>11, <1>12
<1>14. QED
  BY <1>13

\* An error is never PRESENT, and stands for one of those that are allowed.
LEMMA ErrorsAreTold ==
  ASSUME NEW errors
  PROVE  /\ PreferredState(errors) \in TrailSourceStates
         /\ PreferredState(errors) = "PRESENT" <=> errors = {}
BY DEF PreferredState, TrailSourceStates

\* What was read was listed; a discovery without an error read all of it.
LEMMA ListingsRead ==
  ASSUME NEW arns \in SUBSET Trails, IsFiniteSet(arns), NEW listed \in PagesOf(arns)
  PROVE  /\ TrailsRead(listed).arns \subseteq arns
         /\ TrailsRead(listed).state \in TrailSourceStates
         /\ TrailsRead(listed).state = "PRESENT" =>
              TrailsRead(listed).arns = arns /\ TrailsRead(listed).discarded = 0
<1> DEFINE items == listed.items
           plain == {i \in DOMAIN items : items[i].reading = "plain"}
           conflicts == {i \in DOMAIN items \ plain : Compared(items, i)}
           malformed == DOMAIN items \ (plain \cup conflicts)
           contested == {items[i].arn : i \in conflicts}
           late == {i \in DOMAIN items : \E j \in conflicts : j <= i /\ items[j].arn = items[i].arn}
           errors == {"CONFLICT" : i \in conflicts} \cup {"MALFORMED" : i \in malformed}
                     \cup ({listed.error} \ {Unset})
<1>1. \/ listed = TrailPages(InOrder(arns), Unset)
      \/ listed \in SpoiltPages(InOrder(arns))
  BY DEF PagesOf
<1>2. items \in Seq(TrailItems(arns))
  BY <1>1, WholeListing, SpoiltListing DEF TrailPages
<1>3. \A i \in DOMAIN items : items[i] \in TrailItems(arns)
  BY <1>2
<1>4. TrailsRead(listed) =
        [arns |-> {items[i].arn : i \in plain} \ contested,
         discarded |-> Cardinality(malformed) + Cardinality(contested) + Cardinality(late),
         state |-> PreferredState(errors)]
  BY DEF TrailsRead
<1>5. TrailsRead(listed).arns \subseteq arns
  BY <1>3, <1>4 DEF TrailItems
<1>6. ASSUME TrailsRead(listed).state = "PRESENT"
      PROVE  TrailsRead(listed).arns = arns /\ TrailsRead(listed).discarded = 0
  <2>1. errors = {}
    BY <1>4, <1>6, ErrorsAreTold
  <2>2. conflicts = {} /\ malformed = {} /\ listed.error = Unset
    <3> HIDE DEF conflicts, malformed
    <3>1. QED
      BY <2>1
  <2>3. plain = DOMAIN items
    BY <2>2
  <2>4. listed = TrailPages(InOrder(arns), Unset)
    BY <1>1, <2>2, <2>3, SpoiltListing
  <2>5. contested = {} /\ late = {}
    BY <2>2
  <2>6. Cardinality({}) = 0
    BY FS_EmptySet
  <2>7. TrailsRead(listed).discarded = 0
    <3> HIDE DEF contested, late, malformed
    <3>1. QED
      BY <1>4, <2>2, <2>5, <2>6
  <2>8. items = InOrder(arns)
    BY <2>4 DEF TrailPages
  <2>9. {items[i].arn : i \in plain} = arns
    BY <2>3, <2>8, <1>5, <1>4, <2>5, WholeListing
  <2>10. QED
    BY <2>5, <2>7, <2>9, <1>4
<1>7. QED
  BY <1>4, <1>5, <1>6, ErrorsAreTold

-----------------------------------------------------------------------------
(* Trails: every step keeps the invariant                                  *)

LEMMA HeldFits ==
  ASSUME TrailTypesOK, NEW a \in DOMAIN trails, NEW kind \in {"configuration", "status", "selectors"}
  PROVE  SourceFits(kind, a, Held(kind, a))
<1>1. AreSettings(trails[a])
  BY DEF TrailTypesOK
<1>2. CASE kind = "configuration"
  BY <1>1, <1>2, ConfigurationFits DEF Held
<1>3. CASE kind = "status"
  <2>1. trails[a].logging \in BOOLEAN
    BY <1>1 DEF AreSettings, Fit, SettingForms
  <2>2. Held(kind, a) = [state |-> "PRESENT", value |-> trails[a].logging]
    BY <1>3 DEF Held, Sourced
  <2>3. QED
    BY <1>3, <2>1, <2>2, UnsetAssumption DEF SourceFits, TrailSourceStates
<1>4. CASE kind = "selectors"
  <2>1. trails[a].selectors \in SelectorForms
    BY <1>1 DEF AreSettings, Fit, SettingForms
  <2>2. Held(kind, a) = Selectors(trails[a].selectors)
    BY <1>4 DEF Held
  <2>3. QED
    BY <1>4, <2>1, <2>2, SelectorsFit
<1>5. QED
  BY <1>2, <1>3, <1>4

\* An answer is what AWS holds or an error.
LEMMA SpoilingFits ==
  ASSUME NEW kind, NEW arn, NEW stored, SourceFits(kind, arn, stored),
         NEW answer \in Spoiling(stored, Refusals(kind))
  PROVE  SourceFits(kind, arn, answer) /\ (answer.state = "PRESENT" => answer = stored)
<1>1. answer = stored \/ \E s \in Refusals(kind) : answer = Unsourced(s)
  BY DEF Spoiling
<1>2. Refusals(kind) \subseteq {"UNAVAILABLE", "MALFORMED", "CONFLICT"}
  BY DEF Refusals
<1>3. QED
  BY <1>1, <1>2, UnsourcedFits

LEMMA TroublesAreCounted ==
  ASSUME troubles \in Nat, NEW wrong, Spent(wrong)
  PROVE  troubles' \in Nat
BY DEF Spent

LEMMA TrailInvInit == TrailInit => TrailInv
<1> SUFFICES ASSUME TrailInit
             PROVE  TrailInv
  OBVIOUS
<1>1. PICK a \in TrailAccounts : trails = a.trails /\ storage = a.storage
  BY DEF TrailInit
<1>2. /\ DOMAIN trails \subseteq Trails /\ \A arn \in DOMAIN trails : AreSettings(trails[arn])
      /\ storage \in {b.storage : b \in TrailAccounts}
  BY <1>1, AccountsAssumption
<1>3. DOMAIN sources = {}
  BY DEF TrailInit
<1>4. QED
  BY <1>2, <1>3 DEF TrailInit, TrailInv, TrailTypesOK, AskedWereListed, SteadyAreSeen

LEMMA ListTrailsInv == TrailInv /\ ListTrails => TrailInv'
<1> SUFFICES ASSUME TrailInv, ListTrails
             PROVE  TrailInv'
  OBVIOUS
<1>1. PICK listed \in PagesOf(DOMAIN trails) :
        discovery' = TrailsRead(listed) /\ Spent(listed # TrailPages(InOrder(DOMAIN trails), Unset))
  BY DEF ListTrails
<1>2. /\ discovery = Unset /\ DOMAIN sources = {}
      /\ UNCHANGED <<trails, storage, altered, alone, sources>>
  BY DEF ListTrails, TrailInv, AskedWereListed
<1>3. DOMAIN trails \in SUBSET Trails /\ IsFiniteSet(DOMAIN trails)
  BY TrailsAssumption, FS_Subset DEF TrailInv, TrailTypesOK
<1>4. /\ discovery'.arns \subseteq DOMAIN trails /\ discovery'.state \in TrailSourceStates
      /\ discovery'.state = "PRESENT" => discovery'.arns = DOMAIN trails /\ discovery'.discarded = 0
  BY <1>1, <1>3, ListingsRead
<1>5. troubles' \in Nat
  BY <1>1, TroublesAreCounted DEF TrailInv, TrailTypesOK
<1>6. TrailTypesOK'
  BY <1>2, <1>3, <1>4, <1>5 DEF TrailInv, TrailTypesOK, DiscoveryFits
<1>7. AskedWereListed' /\ SteadyAreSeen'
  BY <1>2, <1>4 DEF AskedWereListed, SteadyAreSeen, Steady
<1>8. QED
  BY <1>6, <1>7 DEF TrailInv

\* A step that answers something about trails that were discovered, truly or with an
\* error, keeps the invariant.
LEMMA AnswersFit ==
  ASSUME TrailInv, discovery # Unset, NEW new, sources' = Updated(sources, new),
         DOMAIN new \subseteq Kinds \X discovery.arns,
         \A x \in DOMAIN new :
           /\ SourceFits(x[1], x[2], new[x])
           /\ x[1] # "tags" /\ x[2] \in Steady /\ new[x].state = "PRESENT" => new[x] = Held(x[1], x[2]),
         UNCHANGED <<trails, storage, altered, discovery>>, alone' \subseteq Trails, troubles' \in Nat
  PROVE  TrailInv'
<1>1. DOMAIN sources' = DOMAIN sources \cup DOMAIN new
  BY DEF Updated
<1>2. \A x \in DOMAIN sources' : sources'[x] = IF x \in DOMAIN new THEN new[x] ELSE sources[x]
  BY DEF Updated
<1>3. DOMAIN sources \subseteq Kinds \X discovery.arns /\ discovery.arns \subseteq Trails
  BY DEF TrailInv, TrailTypesOK, AskedWereListed, DiscoveryFits
<1>4. \A k, a : Held(k, a)' = Held(k, a)
  BY DEF Held
<1>5. \A x \in DOMAIN sources' : SourceFits(x[1], x[2], sources'[x])
  BY <1>1, <1>2 DEF TrailInv, TrailTypesOK
<1>6. TrailTypesOK'
  BY <1>1, <1>3, <1>5 DEF TrailInv, TrailTypesOK, DiscoveryFits
<1>7. AskedWereListed'
  BY <1>1, <1>3 DEF AskedWereListed
<1>8. SteadyAreSeen'
  <2>1. Steady' = Steady
    BY DEF Steady
  <2>2. ASSUME NEW x \in DOMAIN sources', x[1] # "tags", x[2] \in Steady', sources'[x].state = "PRESENT"
        PROVE  sources'[x] = Held(x[1], x[2])'
    <3>1. CASE x \in DOMAIN new
      BY <2>1, <2>2, <3>1, <1>2, <1>4
    <3>2. CASE x \notin DOMAIN new
      BY <2>1, <2>2, <3>2, <1>1, <1>2, <1>4 DEF TrailInv, SteadyAreSeen
    <3>3. QED
      BY <3>1, <3>2
  <2>3. QED
    BY <2>1, <2>2 DEF TrailInv, SteadyAreSeen
<1>9. QED
  BY <1>6, <1>7, <1>8 DEF TrailInv

LEMMA GetTrailInv == TrailInv /\ GetTrail => TrailInv'
<1> SUFFICES ASSUME TrailInv, GetTrail
             PROVE  TrailInv'
  OBVIOUS
<1> DEFINE stored == IF NextTrail \in DOMAIN trails THEN Held(NextKind, NextTrail) ELSE NoSuchTrail
<1>1. PICK answer \in Spoiling(stored, Refusals(NextKind)) :
        /\ sources' = Updated(sources, [x \in {<<NextKind, NextTrail>>} |-> answer])
        /\ Spent(answer # stored)
  BY DEF GetTrail
<1>2. /\ discovery # Unset /\ Unasked("selectors") # {}
      /\ UNCHANGED <<trails, storage, altered, alone, discovery>>
  BY DEF GetTrail
<1>3. NextTrail \in Unasked("selectors")
  <2>1. \E a \in Unasked("selectors") :
          a \in Unasked("configuration") => Unasked("selectors") \subseteq Unasked("configuration")
    BY <1>2
  <2>2. QED
    BY <2>1 DEF NextTrail
<1>4. NextTrail \in discovery.arns
  BY <1>3 DEF Unasked
<1>5. NextKind \in {"configuration", "status", "selectors"}
  BY Zenon DEF NextKind
<1>6. SourceFits(NextKind, NextTrail, stored)
  <2>1. SourceFits(NextKind, NextTrail, NoSuchTrail)
    BY UnsourcedFits DEF NoSuchTrail
  <2>2. QED
    BY <2>1, <1>5, HeldFits DEF TrailInv
<1>7. SourceFits(NextKind, NextTrail, answer) /\ (answer.state = "PRESENT" => answer = stored)
  BY <1>6, SpoilingFits
<1> DEFINE new == [x \in {<<NextKind, NextTrail>>} |-> answer]
<1>8. DOMAIN new \subseteq Kinds \X discovery.arns
  BY <1>4, <1>5 DEF Kinds
<1>9. \A x \in DOMAIN new :
        /\ SourceFits(x[1], x[2], new[x])
        /\ x[1] # "tags" /\ x[2] \in Steady /\ new[x].state = "PRESENT" => new[x] = Held(x[1], x[2])
  BY <1>7 DEF Steady
<1>10. alone' \subseteq Trails /\ troubles' \in Nat
  BY <1>1, <1>2, TroublesAreCounted DEF TrailInv, TrailTypesOK
<1>11. QED
  <2> HIDE DEF new
  <2>1. sources' = Updated(sources, new)
    BY <1>1 DEF new
  <2>2. QED
    BY <2>1, <1>2, <1>8, <1>9, <1>10, AnswersFit

\* What a call about a batch answers about each of its trails.
LEMMA TagsFit ==
  ASSUME NEW batch, NEW arn,
         NEW s \in {Sourced({})} \cup {Unsourced(e) : e \in {"UNAVAILABLE", "MALFORMED", "CONFLICT", "RESOURCE_DISAPPEARED"}}
  PROVE  SourceFits("tags", arn, s)
<1>1. SourceFits("tags", arn, Sourced({}))
  BY UnsetAssumption DEF SourceFits, Sourced, TrailSourceStates
<1>2. QED
  BY <1>1, UnsourcedFits

LEMMA ListTagsInv == TrailInv /\ ListTags => TrailInv'
<1> SUFFICES ASSUME TrailInv, ListTags
             PROVE  TrailInv'
  OBVIOUS
<1> DEFINE TagAnswers == {Sourced({})} \cup
             {Unsourced(e) : e \in {"UNAVAILABLE", "MALFORMED", "CONFLICT", "RESOURCE_DISAPPEARED"}}
<1>1. discovery # Unset /\ UNCHANGED <<trails, storage, altered, discovery>>
  BY DEF ListTags
<1>2. PICK batch \in SUBSET Unasked("tags") :
        LET whole == TagSources(batch, Sourced({}))
        IN \/ /\ batch \subseteq DOMAIN trails
              /\ \E read \in {whole} \cup (IF Smooth THEN SpoiltTags(batch) ELSE {}) :
                   sources' = Updated(sources, read) /\ Spent(read # whole)
              /\ alone' = alone \ batch
           \/ /\ ~(batch \subseteq DOMAIN trails) /\ Cardinality(batch) > 1
              /\ alone' = batch
              /\ UNCHANGED <<sources, troubles>>
           \/ /\ ~(batch \subseteq DOMAIN trails) /\ Cardinality(batch) = 1
              /\ sources' = Updated(sources, TagSources(batch, NoSuchTrail))
              /\ alone' = alone \ batch
              /\ UNCHANGED troubles
  BY DEF ListTags
<1>3. batch \subseteq discovery.arns /\ discovery.arns \subseteq Trails
  BY <1>1 DEF Unasked, TrailInv, TrailTypesOK, DiscoveryFits
<1>4. alone' \subseteq Trails
  BY <1>2, <1>3 DEF TrailInv, TrailTypesOK
<1>5. ASSUME NEW read, sources' = Updated(sources, read), troubles' \in Nat,
             DOMAIN read = {"tags"} \X batch, \A x \in DOMAIN read : read[x] \in TagAnswers
      PROVE  TrailInv'
  <2>1. DOMAIN read \subseteq Kinds \X discovery.arns
    BY <1>3, <1>5 DEF Kinds
  <2>2. \A x \in DOMAIN read : x[1] = "tags" /\ SourceFits(x[1], x[2], read[x])
    BY <1>5, TagsFit
  <2>3. QED
    BY <1>1, <1>4, <1>5, <2>1, <2>2, AnswersFit
<1>6. \A s : DOMAIN TagSources(batch, s) = {"tags"} \X batch /\ \A x \in {"tags"} \X batch : TagSources(batch, s)[x] = s
  BY DEF TagSources
<1>7. CASE \E read \in {TagSources(batch, Sourced({}))} \cup SpoiltTags(batch) :
             sources' = Updated(sources, read) /\ Spent(read # TagSources(batch, Sourced({})))
  <2>1. PICK read \in {TagSources(batch, Sourced({}))} \cup SpoiltTags(batch) :
             sources' = Updated(sources, read) /\ Spent(read # TagSources(batch, Sourced({})))
    BY <1>7
  <2>2. troubles' \in Nat
    BY <2>1, TroublesAreCounted DEF TrailInv, TrailTypesOK
  <2>3. DOMAIN read = {"tags"} \X batch /\ \A x \in DOMAIN read : read[x] \in TagAnswers
    <3>1. CASE \E s \in TagAnswers : read = TagSources(batch, s)
      BY <3>1, <1>6
    <3>2. CASE \E a \in batch : \E e \in {"CONFLICT", "MALFORMED"} :
                 read = [TagSources(batch, Sourced({})) EXCEPT ![<<"tags", a>>] = Unsourced(e)]
      <4>1. PICK a \in batch, e \in {"CONFLICT", "MALFORMED"} :
              read = [TagSources(batch, Sourced({})) EXCEPT ![<<"tags", a>>] = Unsourced(e)]
        BY <3>2
      <4>2. DOMAIN read = {"tags"} \X batch
        BY <4>1, <1>6
      <4>3. \A x \in {"tags"} \X batch :
              read[x] = IF x = <<"tags", a>> THEN Unsourced(e) ELSE Sourced({})
        BY <4>1, <1>6
      <4>4. QED
        BY <4>2, <4>3
    <3>3. ASSUME read \in SpoiltTags(batch)
          PROVE  \/ \E s \in {"UNAVAILABLE", "MALFORMED", "CONFLICT"} : read = TagSources(batch, Unsourced(s))
                 \/ \E a \in batch : \E e \in {"CONFLICT", "MALFORMED"} :
                      read = [TagSources(batch, Sourced({})) EXCEPT ![<<"tags", a>>] = Unsourced(e)]
      BY <3>3 DEF SpoiltTags
    <3>4. QED
      BY <2>1, <3>1, <3>2, <3>3
  <2>4. QED
    BY <1>5, <2>1, <2>2, <2>3
<1>8. CASE sources' = Updated(sources, TagSources(batch, NoSuchTrail)) /\ UNCHANGED troubles
  <2>1. NoSuchTrail \in TagAnswers
    BY DEF NoSuchTrail
  <2>2. troubles' \in Nat
    BY <1>8 DEF TrailInv, TrailTypesOK
  <2>3. QED
    BY <1>5, <1>6, <1>8, <2>1, <2>2
<1>9. CASE UNCHANGED <<sources, troubles>>
  <2>1. \A k, a : Held(k, a)' = Held(k, a)
    BY <1>1 DEF Held
  <2>2. QED
    BY <1>1, <1>4, <1>9, <2>1 DEF TrailInv, TrailTypesOK, DiscoveryFits, AskedWereListed, SteadyAreSeen, Steady
<1>10. QED
  BY <1>2, <1>7, <1>8, <1>9

LEMMA AlterTrailInv == TrailInv /\ AlterTrail => TrailInv'
<1> SUFFICES ASSUME TrailInv, AlterTrail
             PROVE  TrailInv'
  OBVIOUS
<1>1. PICK a \in DOMAIN trails :
        /\ \/ trails' = [b \in DOMAIN trails \ {a} |-> trails[b]]
           \/ \E rewritten \in TrailRewrites : trails' = [trails EXCEPT ![a] = Updated(trails[a], rewritten)]
        /\ altered' = altered \cup {a}
  BY DEF AlterTrail
<1>2. UNCHANGED <<storage, alone, discovery, sources>> /\ troubles' \in Nat
  BY TroublesAreCounted DEF AlterTrail, TrailInv, TrailTypesOK
<1>3. \A t, r : AreSettings(t) /\ Fit(r) => AreSettings(Updated(t, r))
  BY DEF AreSettings, Fit, Updated
<1>4. /\ DOMAIN trails' \subseteq DOMAIN trails
      /\ \A b \in DOMAIN trails' \ {a} : trails'[b] = trails[b]
      /\ DOMAIN trails \subseteq DOMAIN trails' \cup {a}
      /\ a \in DOMAIN trails' => \E r \in TrailRewrites : trails'[a] = Updated(trails[a], r)
  BY <1>1
<1>5. \A b \in DOMAIN trails' : AreSettings(trails'[b])
  BY <1>3, <1>4, AccountsAssumption DEF TrailInv, TrailTypesOK
<1>6. TrailTypesOK'
  BY <1>1, <1>2, <1>4, <1>5 DEF TrailInv, TrailTypesOK, DiscoveryFits
<1>7. AskedWereListed'
  BY <1>2 DEF TrailInv, AskedWereListed
<1>8. SteadyAreSeen'
  <2>1. Steady' \subseteq Steady \ {a}
    BY <1>1, <1>4 DEF Steady
  <2>2. \A k : \A b \in Steady' : Held(k, b)' = Held(k, b)
    BY <2>1, <1>4 DEF Steady, Held
  <2>3. QED
    BY <1>1, <1>2, <1>4, <2>1, <2>2 DEF TrailInv, SteadyAreSeen
<1>9. QED
  BY <1>6, <1>7, <1>8 DEF TrailInv

LEMMA TrailInvStep == TrailInv /\ [TrailNext]_trailVars => TrailInv'
<1> SUFFICES ASSUME TrailInv, [TrailNext]_trailVars
             PROVE  TrailInv'
  OBVIOUS
<1>1. CASE TrailNext
  BY <1>1, ListTrailsInv, GetTrailInv, ListTagsInv, AlterTrailInv DEF TrailNext
<1>2. CASE UNCHANGED trailVars
  <2>1. \A k, a : Held(k, a)' = Held(k, a)
    BY <1>2 DEF Held, trailVars
  <2>2. QED
    BY <1>2, <2>1 DEF trailVars, TrailInv, TrailTypesOK, DiscoveryFits, AskedWereListed, SteadyAreSeen, Steady
<1>3. QED
  BY <1>1, <1>2

LEMMA TrailInvAlways == TrailSpec => []TrailInv
BY TrailInvInit, TrailInvStep, PTL DEF TrailSpec

\* Trails, storage, the answers so far and what was discovered are of the types
\* that the collectors, the resolution and the validators expect.
THEOREM TrailTypes == TrailSpec => []TrailTypesOK
<1>1. TrailInv => TrailTypesOK
  BY DEF TrailInv
<1>2. QED
  BY <1>1, TrailInvAlways, PTL

-----------------------------------------------------------------------------
(* Trails: the graph                                                       *)

\* A collection that is done has one source of each kind for each trail discovered.
LEMMA CollectionIsWhole ==
  ASSUME TrailInv, TrailsCollected
  PROVE  /\ DOMAIN sources = Kinds \X discovery.arns
         /\ DiscoveryFits
         /\ \A k \in Kinds : \A a \in discovery.arns : SourceFits(k, a, TrailSource(k, a))
<1>1. discovery # Unset /\ \A k \in Kinds : \A a \in discovery.arns : <<k, a>> \in DOMAIN sources
  BY DEF TrailsCollected, Unasked
<1>2. DOMAIN sources \subseteq Kinds \X discovery.arns
  BY <1>1 DEF TrailInv, AskedWereListed
<1>3. \A k \in Kinds : \A a \in discovery.arns : SourceFits(k, a, sources[<<k, a>>])
  BY <1>1 DEF TrailInv, TrailTypesOK
<1>4. QED
  BY <1>1, <1>2, <1>3 DEF TrailInv, TrailTypesOK, TrailSource

\* A lookup that identified its key makes both readers find the key.
LEMMA KeyResolutionsAgree ==
  ASSUME TrailTypesOK, NEW k, k # Alias
  PROVE  ReconstructedKey(k) = IF k \in KeysHeld THEN "RESOLVED" ELSE UnresolvedReason(k)
<1> DEFINE known == \E r \in DOMAIN storage.keys : storage.keys[r].state = "PRESENT" /\ storage.keys[r].key = k
<1>1. known <=> k \in KeysHeld
  BY DEF KeysHeld
<1>2. k \in DOMAIN storage.keys /\ storage.keys[k].state = "PRESENT" => known
  BY AccountsAssumption DEF TrailTypesOK
<1>3. CASE known
  BY <1>1, <1>3 DEF ReconstructedKey
<1>4. CASE ~known /\ k \in DOMAIN storage.keys /\ storage.keys[k].state = "DENIED"
  BY <1>1, <1>4 DEF ReconstructedKey, UnresolvedReason
<1>5. CASE ~known /\ k \in DOMAIN storage.keys /\ storage.keys[k].state # "DENIED"
  <2>1. storage.keys[k].state # "PRESENT"
    BY <1>2, <1>5
  <2>2. ReconstructedKey(k) = "INCOMPLETE"
    BY <1>5, <2>1, Zenon DEF ReconstructedKey
  <2>3. UnresolvedReason(k) = "INCOMPLETE"
    BY <1>5, <2>1, Zenon DEF UnresolvedReason
  <2>4. QED
    BY <1>1, <1>5, <2>2, <2>3
<1>6. CASE ~known /\ k \notin DOMAIN storage.keys
  <2>1. ReconstructedKey(k) = IF storage.whole THEN "NOT_COLLECTED" ELSE "INCOMPLETE"
    BY <1>6, Zenon DEF ReconstructedKey
  <2>2. UnresolvedReason(k) = IF storage.whole THEN "NOT_COLLECTED" ELSE "INCOMPLETE"
    BY <1>6 DEF UnresolvedReason
  <2>3. QED
    BY <1>1, <1>6, <2>1, <2>2
<1>7. QED
  BY <1>3, <1>4, <1>5, <1>6

LEMMA ManifestIsWhole ==
  ASSUME TrailInv, TrailsCollected
  PROVE  TrailManifestIsWhole
<1> DEFINE about == RetainedOutcomes \ {DiscoveryOutcome}
<1> USE DEF DiscoveryOutcome, IdentityOutcome, SourceOutcome, TrailOutcome
<1>1. DOMAIN sources = Kinds \X discovery.arns /\ discovery.arns \subseteq Trails
  BY CollectionIsWhole DEF DiscoveryFits
<1>2. Unset \notin discovery.arns
  BY <1>1, UnsetAssumption
<1>3. AdmittedTrails \subseteq discovery.arns
  BY DEF AdmittedTrails
<1>4. ASSUME NEW o \in about
      PROVE  o.kind \in Kinds \cup {"identity"} /\ o.about \in AdmittedTrails
  <2>1. o \in CollectedOutcomes /\ o.about \in AdmittedTrails \cup {Unset} /\ o # DiscoveryOutcome
    BY DEF RetainedOutcomes
  <2>2. CASE \E a \in discovery.arns : o = IdentityOutcome(a)
    BY <2>1, <2>2, <1>2
  <2>3. CASE \E x \in DOMAIN sources : o = SourceOutcome(x[1], x[2])
    BY <2>1, <2>3, <1>1, <1>2
  <2>4. QED
    BY <2>1, <2>2, <2>3 DEF CollectedOutcomes
<1>5. ASSUME NEW a \in AdmittedTrails
      PROVE  IdentityOutcome(a) \in about
  <2>1. IdentityOutcome(a) \in CollectedOutcomes
    BY <1>3 DEF CollectedOutcomes
  <2>2. QED
    BY <2>1 DEF RetainedOutcomes
<1>6. ASSUME NEW k \in Kinds, NEW a \in AdmittedTrails
      PROVE  SourceOutcome(k, a) \in about
  <2>1. <<k, a>> \in DOMAIN sources
    BY <1>1, <1>3
  <2>2. SourceOutcome(k, a) \in CollectedOutcomes
    <3> HIDE DEF SourceOutcome, IdentityOutcome, DiscoveryOutcome
    <3>1. SourceOutcome(k, a) \in {SourceOutcome(x[1], x[2]) : x \in DOMAIN sources}
      BY <2>1
    <3>2. QED
      BY <3>1 DEF CollectedOutcomes
  <2>3. QED
    BY <2>2 DEF RetainedOutcomes, Kinds
<1>7. {<<o.kind, o.about>> : o \in about} \subseteq (Kinds \cup {"identity"}) \X AdmittedTrails
  <2> HIDE DEF about
  <2>1. QED
    BY <1>4
<1>8. (Kinds \cup {"identity"}) \X AdmittedTrails \subseteq {<<o.kind, o.about>> : o \in about}
  <2> HIDE DEF about
  <2>1. ASSUME NEW k \in Kinds \cup {"identity"}, NEW a \in AdmittedTrails
        PROVE  \E o \in about : o.kind = k /\ o.about = a
    BY <1>5, <1>6
  <2>2. QED
    BY <2>1
<1>9. QED
  BY <1>5, <1>7, <1>8 DEF TrailManifestIsWhole

LEMMA LinksAreExpected ==
  ASSUME TrailInv, TrailsCollected
  PROVE  TrailLinksAreExpected
<1>1. {l.reference : l \in TrailLinks} = UNION {Announced(a) : a \in AdmittedTrails}
  <2>1. ASSUME NEW l \in TrailLinks
        PROVE  \E a \in AdmittedTrails : l.reference \in Announced(a)
    BY DEF TrailLinks
  <2>2. ASSUME NEW a \in AdmittedTrails, NEW r \in Announced(a)
        PROVE  \E l \in TrailLinks : l.reference = r
    <3>1. [reference |-> r, resolution |-> ResolutionOf(r)] \in TrailLinks
      BY DEF TrailLinks
    <3>2. QED
      BY <3>1
  <2>3. QED
    BY <2>1, <2>2
<1>2. ASSUME NEW l \in TrailLinks
      PROVE  CASE l.reference.type = "bucket" -> l.resolution \in {"RESOLVED", "IDENTITY_INCOMPLETE"}
               [] l.reference.type = "key" -> l.resolution = ReconstructedKey(l.reference.target)
  <2>1. PICK a \in AdmittedTrails : \E r \in Announced(a) : l = [reference |-> r, resolution |-> ResolutionOf(r)]
    BY DEF TrailLinks
  <2> PICK r \in Announced(a) : l = [reference |-> r, resolution |-> ResolutionOf(r)]
    BY <2>1
  <2>2. IsPresent("configuration", a) /\ a \in discovery.arns
    BY <2>1 DEF Announced, AdmittedTrails
  <2> DEFINE c == TrailSource("configuration", a).value
  <2>3. c.key # Alias
    BY <2>2, CollectionIsWhole DEF Kinds, SourceFits, IsPresent
  <2>4. \/ \E n : r = TrailReference(a, "bucket", n)
        \/ r = TrailReference(a, "key", c.key)
    BY <2>1, <2>2 DEF Announced
  <2>5. CASE \E n : r = TrailReference(a, "bucket", n)
    <3>1. r.type = "bucket"
      BY <2>5 DEF TrailReference
    <3>2. ResolutionOf(r) \in {"RESOLVED", "IDENTITY_INCOMPLETE"}
      BY <3>1 DEF ResolutionOf
    <3>3. QED
      BY <3>1, <3>2
  <2>6. CASE r = TrailReference(a, "key", c.key)
    <3>1. r.type = "key" /\ r.target = c.key
      BY <2>6 DEF TrailReference
    <3>2. ResolutionOf(r) = ReconstructedKey(r.target)
      BY <2>3, <3>1, KeyResolutionsAgree DEF ResolutionOf, TrailInv
    <3>3. QED
      BY <2>1, <3>1, <3>2
  <2>7. QED
    BY <2>4, <2>5, <2>6
<1>3. QED
  BY <1>1, <1>2 DEF TrailLinksAreExpected

LEMMA TrailsAreGood == TrailInv /\ TrailsCollected => TrailsAreAccepted
<1> SUFFICES ASSUME TrailInv, TrailsCollected
             PROVE  TrailsAreAccepted
  OBVIOUS
<1>1. \A a \in AdmittedTrails : a \in discovery.arns /\ TrailRetained(a)
  BY DEF AdmittedTrails
<1>2. \A k \in Kinds : \A a \in AdmittedTrails : SourceFits(k, a, TrailSource(k, a))
  BY <1>1, CollectionIsWhole
<1>3. DiscoveryIsAllowed
  <2>1. discovery.arns \ AdmittedTrails \subseteq ForeignTrails
    BY DEF AdmittedTrails, TrailRetained
  <2>2. QED
    BY <2>1, CollectionIsWhole DEF DiscoveryIsAllowed, DiscoveryFits
<1>4. ASSUME NEW k \in Kinds, NEW a \in AdmittedTrails
      PROVE  TrailSourceIsAllowed(k, a)
  BY <1>2 DEF Kinds, SourceFits, TrailSourceIsAllowed, ConfigurationIsAllowed, StatusIsAllowed
<1>5. ASSUME NEW a \in AdmittedTrails
      PROVE  OwnerIsExplained(a) /\ \A fact \in {"org", "multi", "validation", "bucket", "key"} :
               TrailFact(a, fact) = RebuiltFact(a, fact)
  <2>1. SourceFits("configuration", a, TrailSource("configuration", a))
    BY <1>2 DEF Kinds
  <2>2. QED
    BY <2>1 DEF SourceFits, OwnerIsExplained, IsPresent, TrailFact, RebuiltFact
<1>6. TrailsAreAdmissible
  <2> SUFFICES ASSUME NEW a \in AdmittedTrails \cap ForeignTrails
               PROVE  \E l \in TrailLinks : l.reference.source = a /\ l.resolution = "RESOLVED"
    BY DEF TrailsAreAdmissible
  <2>1. PICK r \in Announced(a) : ResolutionOf(r) = "RESOLVED"
    BY <1>1 DEF TrailRetained
  <2>2. r.source = a
    BY <2>1 DEF Announced, TrailReference
  <2>3. [reference |-> r, resolution |-> ResolutionOf(r)] \in TrailLinks
    BY <2>1 DEF TrailLinks
  <2>4. QED
    BY <2>1, <2>2, <2>3
<1>7. QED
  BY <1>3, <1>4, <1>5, <1>6, ManifestIsWhole, LinksAreExpected DEF TrailsAreAccepted, TrailsAreRebuilt

\* Whatever AWS answered, however trails changed between two calls and whatever the S3
\* collectors retained, every validator accepts what the CloudTrail collectors emit,
\* and none of them is SUCCEEDED without a trail that was discovered.
THEOREM TrailGraphIsSound == TrailSpec => []TrailGraphStands
<1>1. ASSUME TrailInv, TrailsCollected, ~AdmissionComplete
      PROVE  "SUCCEEDED" \notin {TrailsStatus, TrailEvidenceStatus}
  <2>1. TrailsStatus = "PARTIAL"
    BY <1>1 DEF TrailsStatus
  <2>2. TrailEvidenceStatus # "SUCCEEDED"
    BY <1>1 DEF TrailEvidenceStatus
  <2>3. QED
    BY <2>1, <2>2
<1>2. TrailInv => TrailGraphStands
  BY <1>1, TrailsAreGood DEF TrailGraphStands
<1>3. QED
  BY <1>2, TrailInvAlways, PTL

-----------------------------------------------------------------------------
(* Trails: coverage                                                        *)

Directions == {"read", "write"}

\* A basic selector takes an event as Records says.
BasicTakes(s, e) ==
  /\ s.management # FALSE
  /\ e[1] = "read" => s.mode # "WriteOnly"
  /\ e[1] = "write" => s.mode # "ReadOnly"
  /\ e[2] \notin s.excluded

\* The basic selectors cover a direction exactly if they record all of its events.
LEMMA BasicCoverageIsRight ==
  ASSUME NEW q, \A i \in DOMAIN q : q[i] \in BasicForms /\ q[i].excluded \subseteq Excludable,
         NEW d \in Directions
  PROVE  d \in BasicCoverage({BasicSelector(q[i]) : i \in DOMAIN q}) <=>
           \A x \in Excludable \cup {"other"} : \E i \in DOMAIN q : BasicTakes(q[i], <<d, x>>)
<1> DEFINE modes == IF d = "read" THEN ManagementReads ELSE ManagementWrites
           selectors == {BasicSelector(q[i]) : i \in DOMAIN q}
           included == {s \in selectors : s.management /\ s.mode \in modes}
           Takes(i) == BasicSelector(q[i]).management /\ BasicSelector(q[i]).mode \in modes
<1>1. ASSUME NEW i \in DOMAIN q, NEW x
      PROVE  BasicTakes(q[i], <<d, x>>) <=> Takes(i) /\ x \notin q[i].excluded
  <2>1. /\ q[i].management \in BOOLEAN \cup {Unset}
        /\ q[i].mode \in {"All", "ReadOnly", "WriteOnly", Unset}
    BY DEF BasicForms, OptionalFlag
  <2>2. BasicSelector(q[i]).management = (q[i].management # FALSE)
    BY <2>1, UnsetAssumption DEF BasicSelector, OrElse
  <2>3. BasicSelector(q[i]).mode = IF q[i].mode = Unset THEN "All" ELSE q[i].mode
    BY DEF BasicSelector, OrElse
  <2>4. /\ d = "read" => (BasicSelector(q[i]).mode \in modes <=> q[i].mode # "WriteOnly")
        /\ d = "write" => (BasicSelector(q[i]).mode \in modes <=> q[i].mode # "ReadOnly")
    BY <2>1, <2>3, UnsetAssumption DEF ManagementReads, ManagementWrites
  <2>5. QED
    BY <2>2, <2>4 DEF BasicTakes, Directions
<1>2. d \in BasicCoverage(selectors) <=> ExclusionsMeet(included)
  BY DEF BasicCoverage, Directions
<1>3. ExclusionsMeet(included) <=>
        included # {} /\ \A x \in Excludable : \E s \in included : x \notin s.excluded
  BY DEF ExclusionsMeet
<1>4. \A s : s \in included <=> \E i \in DOMAIN q : Takes(i) /\ s = BasicSelector(q[i])
  OBVIOUS
<1>5. \A i \in DOMAIN q : BasicSelector(q[i]).excluded = q[i].excluded /\ "other" \notin q[i].excluded
  BY DEF BasicSelector, Excludable
<1>6. included # {} <=> \E i \in DOMAIN q : Takes(i) /\ "other" \notin q[i].excluded
  BY <1>4, <1>5
<1>7. \A x : (\E s \in included : x \notin s.excluded) <=> \E i \in DOMAIN q : Takes(i) /\ x \notin q[i].excluded
  BY <1>4, <1>5
<1>8. QED
  <2> HIDE DEF included, Takes
  <2>1. QED
    BY <1>1, <1>2, <1>3, <1>6, <1>7

\* A provable selector without restrictions records all events of the directions it
\* selects, and none of the other.
LEMMA FreeSelectorsAreRight ==
  ASSUME NEW s \in SUBSET FieldForms, IsProvable(s), Restrictions(s) = {}, NEW e \in Events
  PROVE  e[1] \in SelectedModes(s) <=> \A f \in s : FieldAgrees(f, e)
<1>1. e[1] \in Directions
  BY DEF Events, Directions
<1>2. ASSUME NEW f \in s, f.field = "eventCategory"
      PROVE  FieldAgrees(f, e)
  <2>1. f.others = {} /\ f.equals = {"Management"}
    BY <1>2 DEF IsProvable, CategoryFields
  <2>2. QED
    BY <1>2, <2>1 DEF FieldAgrees
<1>3. ASSUME NEW f \in s, f.field = "readOnly"
      PROVE  FieldAgrees(f, e) <=> e[1] \in f.equals
  <2>1. f.others = {} /\ f.equals # {}
    BY <1>3 DEF IsProvable, ModeFields
  <2>2. QED
    BY <1>3, <2>1 DEF FieldAgrees
<1>4. \A f \in s : f.field = "eventCategory" \/ f.field = "readOnly"
  BY DEF Restrictions, CategoryFields, ModeFields
<1>5. e[1] \in SelectedModes(s) <=> \A f \in s : f.field = "readOnly" => e[1] \in f.equals
  BY <1>1 DEF SelectedModes, ModeFields, Directions
<1>6. QED
  BY <1>2, <1>3, <1>4, <1>5

\* Coverage of readable, provable selectors: all management events are recorded if it
\* says so, and if they are it says so or admits that it cannot tell.
LEMMA CoverageIsRight ==
  ASSUME NEW s \in SelectorForms, SelectorsError(s) = Unset,
         \A x \in Selectors(s).value.advanced : IsProvable(x)
  PROVE  /\ Coverage(Selectors(s).value) = {"read", "write"} => \A e \in Events : Records(s, e)
         /\ (\A e \in Events : Records(s, e)) =>
              Coverage(Selectors(s).value) \in {{"read", "write"}, {"unknown"}}
<1> DEFINE v == Selectors(s).value
           q == s.basic
           adv == s.advanced
           free == {x \in v.advanced : Restrictions(x) = {}}
           covered == UNION {SelectedModes(x) : x \in free}
<1>1. /\ \A i \in DOMAIN q : q[i] \in BasicForms
      /\ \A i \in DOMAIN adv : adv[i] \in SUBSET FieldForms
      /\ (q = <<>> <=> DOMAIN q = {}) /\ (adv = <<>> <=> DOMAIN adv = {})
  <2>1. q \in Seq(BasicForms) /\ adv \in Seq(SUBSET FieldForms)
    BY DEF SelectorForms
  <2>2. (q = <<>> <=> DOMAIN q = {}) /\ (adv = <<>> <=> DOMAIN adv = {})
    BY <2>1, NoPositionNoItem, Zenon
  <2>3. \A i \in DOMAIN q : q[i] \in BasicForms
    BY <2>1
  <2>4. \A i \in DOMAIN adv : adv[i] \in SUBSET FieldForms
    BY <2>1
  <2>5. QED
    BY <2>2, <2>3, <2>4
<1>2. ~(q = <<>> <=> adv = <<>>)
  BY UnsetIsNoError, Zenon DEF SelectorsError
<1>3. \A i \in DOMAIN q : q[i].excluded \subseteq Excludable
  <2>1. \A i \in DOMAIN q : BasicIsReadable(q[i])
    BY <1>2, UnsetIsNoError, Zenon DEF SelectorsError
  <2>2. QED
    BY <2>1 DEF BasicIsReadable
<1>4. v.basic = {BasicSelector(q[i]) : i \in DOMAIN q} /\ v.advanced = {adv[i] : i \in DOMAIN adv}
  BY DEF Selectors, Sourced, ToSet
<1>5. \A e : Records(s, e) <=> \/ \E i \in DOMAIN q : BasicTakes(q[i], e)
                               \/ \E i \in DOMAIN adv : \A f \in adv[i] : FieldAgrees(f, e)
  BY DEF Records, BasicTakes
<1>6. \A e : e \in Events <=> \E d \in Directions, x \in Excludable \cup {"other"} : e = <<d, x>>
  BY DEF Events, Directions
<1>7. CASE adv = <<>>
  <2>1. v.advanced = {} /\ DOMAIN adv = {}
    BY <1>1, <1>4, <1>7
  <2>2. Coverage(v) = BasicCoverage(v.basic)
    BY <2>1 DEF Coverage
  <2>3. \A d \in Directions : d \in Coverage(v) <=>
          \A x \in Excludable \cup {"other"} : Records(s, <<d, x>>)
    BY <1>1, <1>3, <1>4, <1>5, <2>1, <2>2, BasicCoverageIsRight
  <2>4. Coverage(v) \subseteq Directions
    BY <2>2 DEF BasicCoverage, Directions
  <2>5. Coverage(v) = Directions <=> \A e \in Events : Records(s, e)
    <3> HIDE DEF v
    <3>1. Coverage(v) = Directions <=> \A d \in Directions : d \in Coverage(v)
      BY <2>4
    <3>2. (\A e \in Events : Records(s, e)) <=>
            \A d \in Directions : \A x \in Excludable \cup {"other"} : Records(s, <<d, x>>)
      BY <1>6
    <3>3. QED
      BY <2>3, <3>1, <3>2
  <2>6. QED
    BY <2>5 DEF Directions
<1>8. CASE adv # <<>>
  <2>1. v.advanced # {} /\ DOMAIN q = {}
    BY <1>1, <1>2, <1>4, <1>8
  <2>2. Coverage(v) = IF covered # Directions /\ free # v.advanced THEN {"unknown"} ELSE covered
    BY <2>1 DEF Coverage, Directions
  <2>3. \A e \in Events : Records(s, e) <=> \E x \in v.advanced : \A f \in x : FieldAgrees(f, e)
    BY <1>4, <1>5, <2>1
  <2>4. \A x \in v.advanced : x \in SUBSET FieldForms
    BY <1>1, <1>4
  <2>5. \A x \in free : \A e \in Events : e[1] \in SelectedModes(x) <=> \A f \in x : FieldAgrees(f, e)
    BY <2>4, FreeSelectorsAreRight
  <2>6. covered \subseteq Directions
    BY DEF SelectedModes, Directions
  <2>7. "unknown" \notin Directions
    BY DEF Directions
  <2>8. ASSUME Coverage(v) = Directions, NEW e \in Events
        PROVE  Records(s, e)
    <3>1. covered = Directions
      BY <2>2, <2>7, <2>8
    <3>2. e[1] \in covered
      BY <1>6, <3>1
    <3>3. PICK x \in free : e[1] \in SelectedModes(x)
      BY <3>2
    <3>4. QED
      BY <2>3, <2>5, <3>3
  <2>9. ASSUME \A e \in Events : Records(s, e), free = v.advanced
        PROVE  covered = Directions
    <3>1. ASSUME NEW d \in Directions
          PROVE  d \in covered
      <4>1. <<d, "other">> \in Events
        BY <1>6
      <4>2. PICK x \in v.advanced : \A f \in x : FieldAgrees(f, <<d, "other">>)
        BY <2>3, <2>9, <4>1
      <4>3. d \in SelectedModes(x)
        BY <2>5, <2>9, <4>1, <4>2
      <4>4. QED
        BY <2>9, <4>3
    <3>2. QED
      BY <2>6, <3>1
  <2>10. QED
    <3>1. Directions = {"read", "write"}
      BY DEF Directions
    <3>2. ASSUME \A e \in Events : Records(s, e)
          PROVE  Coverage(v) \in {Directions, {"unknown"}}
      <4> HIDE DEF v, free, covered
      <4>1. CASE covered # Directions /\ free # v.advanced
        BY <2>2, <4>1
      <4>2. CASE covered = Directions
        BY <2>2, <4>2
      <4>3. CASE free = v.advanced
        BY <2>9, <3>2, <4>2, <4>3
      <4>4. QED
        BY <4>1, <4>2, <4>3
    <3>3. QED
      BY <2>8, <3>1, <3>2
<1>9. QED
  BY <1>7, <1>8

-----------------------------------------------------------------------------
(* Trails: the verdicts                                                    *)

\* An answer about a trail that did not change is what AWS holds now.
LEMMA AnswersAreStillTrue ==
  ASSUME TrailInv, TrailsCollected, NEW a \in discovery.arns \cap Steady,
         NEW kind \in {"configuration", "status", "selectors"}, IsPresent(kind, a)
  PROVE  /\ TrailSource(kind, a) = Held(kind, a)
         /\ a \in DOMAIN trails /\ AreSettings(trails[a])
<1>1. <<kind, a>> \in DOMAIN sources
  BY CollectionIsWhole DEF Kinds
<1>2. sources[<<kind, a>>] = Held(kind, a)
  BY <1>1 DEF IsPresent, TrailSource, TrailInv, SteadyAreSeen
<1>3. QED
  BY <1>2 DEF TrailSource, Steady, TrailInv, TrailTypesOK

LEMMA StatusIsStillTrue ==
  ASSUME TrailInv, TrailsCollected, NEW a \in discovery.arns \cap Steady, IsPresent("status", a)
  PROVE  IsLogging(a) <=> Deserves("LOG-001", a)
<1>1. TrailSource("status", a) = Held("status", a) /\ AreSettings(trails[a])
  BY AnswersAreStillTrue
<1>2. TrailSource("status", a).value = trails[a].logging
  BY <1>1 DEF Held, Sourced
<1>3. trails[a].logging \in BOOLEAN
  BY <1>1 DEF AreSettings, Fit, SettingForms
<1>4. QED
  BY <1>2, <1>3 DEF IsLogging, Deserves

LEMMA FactsAreStillTrue ==
  ASSUME TrailInv, TrailsCollected, NEW a \in discovery.arns \cap Steady, IsPresent("configuration", a)
  PROVE  TrailFact(a, "multi") = trails[a].multi /\ TrailFact(a, "validation") = trails[a].validation
<1>1. TrailSource("configuration", a) = Configuration(a, trails[a])
  BY AnswersAreStillTrue DEF Held
<1>2. SettingsError(a, trails[a]) = Unset
  <2>1. SettingsError(a, trails[a]) # Unset => SettingsError(a, trails[a]) \in {"CONFLICT", "MALFORMED"}
    BY DEF SettingsError
  <2>2. QED
    BY <1>1, <2>1 DEF IsPresent, Configuration, Unsourced
<1>3. TrailSource("configuration", a).value =
        [org |-> trails[a].org, multi |-> trails[a].multi, validation |-> trails[a].validation,
         bucket |-> trails[a].bucket, key |-> trails[a].key]
  BY <1>1, <1>2 DEF Configuration, Sourced
<1>4. TrailSource("configuration", a).value # Unset
  BY CollectionIsWhole DEF Kinds, SourceFits, IsPresent
<1>5. QED
  BY <1>3, <1>4 DEF TrailFact

LEMMA CoverageIsStillTrue ==
  ASSUME TrailInv, TrailsCollected, NEW a \in discovery.arns \cap Steady, CoverageIsProven(a)
  PROVE  /\ Qualifies(a) => Deserves("LOG-002", a)
         /\ Deserves("LOG-002", a) => Qualifies(a) \/ TrailCoverage(a) = {"unknown"}
<1>1. /\ IsPresent("configuration", a) /\ IsPresent("status", a) /\ IsPresent("selectors", a)
      /\ \A s \in TrailSource("selectors", a).value.advanced : IsProvable(s)
  BY DEF CoverageIsProven
<1> DEFINE s == trails[a].selectors
<1>2. TrailSource("selectors", a) = Selectors(s) /\ AreSettings(trails[a])
  BY <1>1, AnswersAreStillTrue DEF Held
<1>3. s \in SelectorForms
  BY <1>2 DEF AreSettings, Fit, SettingForms
<1>4. SelectorsError(s) = Unset
  <2>1. SelectorsError(s) # Unset => SelectorsError(s) \in {"CONFLICT", "MALFORMED"}
    BY DEF SelectorsError
  <2>2. QED
    BY <1>1, <1>2, <2>1 DEF IsPresent, Selectors, Unsourced
<1>5. /\ TrailCoverage(a) = {"read", "write"} => \A e \in Events : Records(s, e)
      /\ (\A e \in Events : Records(s, e)) => TrailCoverage(a) \in {{"read", "write"}, {"unknown"}}
  BY <1>1, <1>2, <1>3, <1>4, CoverageIsRight DEF TrailCoverage
<1>6. IsLogging(a) <=> trails[a].logging
  BY <1>1, StatusIsStillTrue DEF Deserves
<1>7. TrailFact(a, "multi") = trails[a].multi
  BY <1>1, FactsAreStillTrue
<1>8. Deserves("LOG-002", a) <=>
        trails[a].logging /\ trails[a].multi = TRUE /\ \A e \in Events : Records(s, e)
  BY DEF Deserves
<1>9. QED
  BY <1>5, <1>6, <1>7, <1>8 DEF Qualifies

\* A discovery that nothing spoilt, of trails that all stay, shows every steady trail.
LEMMA SteadyAreAdmitted ==
  ASSUME TrailInv, TrailsCollected, discovery.state = "PRESENT", AdmissionComplete
  PROVE  Steady \subseteq AdmittedTrails
BY DEF TrailInv, SteadyAreSeen, TrailsCollected, AdmissionComplete

\* Without a change during the scan, every trail that was discovered is steady.
LEMMA UnchangedAreSteady ==
  ASSUME TrailInv, TrailsCollected, altered = {}
  PROVE  discovery.arns \subseteq Steady
BY DEF TrailInv, SteadyAreSeen, TrailsCollected, Steady

LEMMA AdmittedWereDiscovered == AdmittedTrails \subseteq discovery.arns
BY DEF AdmittedTrails

LEMMA LoggingIsTrue ==
  ASSUME TrailInv, TrailsCollected
  PROVE  /\ LoggingResult = "PASS" => altered # {} \/ \E a \in Steady : Deserves("LOG-001", a)
         /\ LoggingResult = "FAIL" => \A a \in Steady : ~Deserves("LOG-001", a)
<1> SUFFICES ASSUME LoggingResult \in {"PASS", "FAIL"}
             PROVE  /\ LoggingResult = "PASS" => altered # {} \/ \E a \in Steady : Deserves("LOG-001", a)
                    /\ LoggingResult = "FAIL" => \A a \in Steady : ~Deserves("LOG-001", a)
  OBVIOUS
<1>1. TrailsStatus = "SUCCEEDED"
  BY Zenon DEF LoggingResult
<1>2. \A a \in AdmittedTrails : IsPresent("status", a)
  BY <1>1, Zenon DEF LoggingResult
<1>3. LoggingResult = IF \E a \in AdmittedTrails : IsLogging(a) THEN "PASS" ELSE "FAIL"
  BY <1>1, <1>2, Zenon DEF LoggingResult
<1>4. AdmissionComplete /\ discovery.state = "PRESENT"
  <2> DEFINE states == {o.state : o \in {o \in CollectedOutcomes : o.kind \in LegacyKinds}}
  <2>1. AdmissionComplete /\ TrailRollUp(states) = "SUCCEEDED"
    BY <1>1 DEF TrailsStatus
  <2>2. states = {"PRESENT"}
    BY <2>1, Zenon DEF TrailRollUp
  <2>3. DiscoveryOutcome \in CollectedOutcomes /\ DiscoveryOutcome.kind \in LegacyKinds
    BY DEF CollectedOutcomes, DiscoveryOutcome, TrailOutcome, LegacyKinds
  <2>4. DiscoveryOutcome.state \in states
    BY <2>3
  <2>5. QED
    BY <2>1, <2>2, <2>4 DEF DiscoveryOutcome, TrailOutcome
<1>5. ASSUME NEW a \in AdmittedTrails, a \in Steady
      PROVE  IsLogging(a) <=> Deserves("LOG-001", a)
  BY <1>2, <1>5, StatusIsStillTrue, AdmittedWereDiscovered
<1>6. QED
  BY <1>3, <1>4, <1>5, SteadyAreAdmitted, UnchangedAreSteady, AdmittedWereDiscovered

LEMMA CoverageIsTrue ==
  ASSUME TrailInv, TrailsCollected
  PROVE  /\ CoverageResult = "PASS" => altered # {} \/ \E a \in Steady : Deserves("LOG-002", a)
         /\ CoverageResult = "FAIL" => \A a \in Steady : ~Deserves("LOG-002", a)
<1> SUFFICES ASSUME CoverageResult \in {"PASS", "FAIL"}
             PROVE  /\ CoverageResult = "PASS" => altered # {} \/ \E a \in Steady : Deserves("LOG-002", a)
                    /\ CoverageResult = "FAIL" => \A a \in Steady : ~Deserves("LOG-002", a)
  OBVIOUS
<1>1. DiscoveryIsProven /\ \A a \in AdmittedTrails : CoverageIsProven(a)
  BY Zenon DEF CoverageResult
<1>2. /\ CoverageResult = "PASS" => \E a \in AdmittedTrails : Qualifies(a)
      /\ CoverageResult = "FAIL" =>
           \A a \in AdmittedTrails : ~Qualifies(a) /\ TrailCoverage(a) # {"unknown"}
  BY Zenon DEF CoverageResult
<1>3. ASSUME NEW a \in AdmittedTrails, a \in Steady
      PROVE  /\ Qualifies(a) => Deserves("LOG-002", a)
             /\ Deserves("LOG-002", a) => Qualifies(a) \/ TrailCoverage(a) = {"unknown"}
  BY <1>1, <1>3, CoverageIsStillTrue, AdmittedWereDiscovered
<1>4. Steady \subseteq AdmittedTrails
  BY <1>1, SteadyAreAdmitted DEF DiscoveryIsProven
<1>5. QED
  BY <1>2, <1>3, <1>4, UnchangedAreSteady, AdmittedWereDiscovered

LEMMA ValidationIsTrue ==
  ASSUME TrailInv, TrailsCollected, NEW a \in AdmittedTrails \cap Steady,
         ValidationResult(a) \in {"PASS", "FAIL"}
  PROVE  ValidationResult(a) = "PASS" <=> Deserves("LOG-003", a)
<1>1. TrailFact(a, "validation") \in BOOLEAN
  BY Zenon DEF ValidationResult
<1>2. ValidationResult(a) = IF TrailFact(a, "validation") THEN "PASS" ELSE "FAIL"
  BY <1>1, Zenon DEF ValidationResult
<1>3. a \in discovery.arns
  BY AdmittedWereDiscovered
<1>4. IsPresent("configuration", a)
  BY <1>1, <1>3, CollectionIsWhole, UnsetAssumption DEF Kinds, SourceFits, TrailFact, IsPresent
<1>5. TrailFact(a, "validation") = trails[a].validation
  BY <1>3, <1>4, FactsAreStillTrue
<1>6. QED
  BY <1>1, <1>2, <1>5 DEF Deserves

LEMMA ValidationIsComplete ==
  ASSUME TrailInv, TrailsCollected, DiscoveryIsProven
  PROVE  IF AdmittedTrails = {} THEN Steady = {}
         ELSE \A a \in Steady : \E o \in TrailVerdicts : o.control = "LOG-003" /\ o.target = a
<1>1. Steady \subseteq AdmittedTrails
  BY SteadyAreAdmitted DEF DiscoveryIsProven
<1>2. ASSUME NEW a \in Steady
      PROVE  \E o \in TrailVerdicts : o.control = "LOG-003" /\ o.target = a
  <2>1. TrailVerdict("LOG-003", a, ValidationResult(a)) \in TrailVerdicts
    BY <1>1, <1>2 DEF TrailVerdicts
  <2>2. QED
    BY <2>1 DEF TrailVerdict
<1>3. QED
  BY <1>1, <1>2

\* A passing LOG-001 or LOG-002 rests on a trail that deserves it, a failing one on
\* every trail that stayed as it was; and LOG-003 says of each what it deserves.
THEOREM TrailVerdictsAreSound == TrailSpec => []TrailVerdictsAreTrue
<1>1. TrailInv => TrailVerdictsAreTrue
  <2> SUFFICES ASSUME TrailInv, NEW v \in TrailVerdicts
               PROVE  /\ v.target = Unset /\ v.result = "PASS" =>
                           altered # {} \/ \E a \in Steady : Deserves(v.control, a)
                      /\ v.target = Unset /\ v.result = "FAIL" => \A a \in Steady : ~Deserves(v.control, a)
                      /\ v.target \in Steady /\ v.result \in {"PASS", "FAIL"} =>
                           (v.result = "PASS" <=> Deserves(v.control, v.target))
                      /\ v.control = "LOG-003" /\ v.result # "INSUFFICIENT" =>
                           (IF v.target = Unset THEN Steady = {}
                            ELSE \A a \in Steady :
                                   \E o \in TrailVerdicts : o.control = "LOG-003" /\ o.target = a)
    BY DEF TrailVerdictsAreTrue
  <2>1. TrailsCollected
    BY DEF TrailVerdicts
  <2>2. Steady \subseteq Trails /\ AdmittedTrails \subseteq Trails /\ Unset \notin Trails
    <3>1. DOMAIN trails \subseteq Trails /\ discovery.arns \subseteq Trails
      BY <2>1 DEF TrailInv, TrailTypesOK, DiscoveryFits, TrailsCollected
    <3>2. QED
      BY <3>1, UnsetAssumption, AdmittedWereDiscovered DEF Steady
  <2>3. CASE v = TrailVerdict("LOG-001", Unset, LoggingResult)
    BY <2>1, <2>2, <2>3, LoggingIsTrue DEF TrailVerdict
  <2>4. CASE v = TrailVerdict("LOG-002", Unset, CoverageResult)
    BY <2>1, <2>2, <2>4, CoverageIsTrue DEF TrailVerdict
  <2>5. CASE \E a \in AdmittedTrails : v = TrailVerdict("LOG-003", a, ValidationResult(a))
    <3>1. PICK a \in AdmittedTrails : v = TrailVerdict("LOG-003", a, ValidationResult(a))
      BY <2>5
    <3>2. v.control = "LOG-003" /\ v.target = a /\ v.result = ValidationResult(a) /\ a # Unset
      BY <2>2, <3>1 DEF TrailVerdict
    <3>3. ValidationResult(a) # "INSUFFICIENT" => DiscoveryIsProven
      BY Zenon DEF ValidationResult
    <3>4. QED
      BY <2>1, <3>2, <3>3, ValidationIsTrue, ValidationIsComplete
  <2>6. CASE /\ AdmittedTrails = {}
             /\ v = TrailVerdict("LOG-003", Unset, IF DiscoveryIsProven THEN "N/A" ELSE "INSUFFICIENT")
    <3>1. /\ v.control = "LOG-003" /\ v.target = Unset /\ v.result \notin {"PASS", "FAIL"}
          /\ v.result # "INSUFFICIENT" => DiscoveryIsProven
      BY <2>6 DEF TrailVerdict
    <3>2. QED
      BY <2>1, <2>2, <2>6, <3>1, ValidationIsComplete
  <2>7. QED
    BY <2>1, <2>3, <2>4, <2>5, <2>6 DEF TrailVerdicts
<1>2. QED
  BY <1>1, TrailInvAlways, PTL

-----------------------------------------------------------------------------
(* Buckets: the invariant                                                  *)

\* The settings a bucket may have.
BucketSettings == (Rewrites \cup {a.buckets[b] : a \in Accounts, b \in Buckets}) \ {Missing}

BucketTypes ==
  /\ DOMAIN cloud = Buckets /\ \A b \in Buckets : cloud[b] \in BucketSettings \cup {Missing}
  /\ shield \in PublicBlocks
  /\ keyVersion \in [KeyIds -> Nat]
  /\ spoiled \subseteq Buckets /\ refusals \in Nat /\ upheavals \in Nat
  /\ stage \in {"list", "account", "buckets", "keys", "done"}
  /\ DOMAIN records = Buckets

\* What AWS may answer to a call about a bucket with these settings.
AnswersAbout(s, call) == {Said(s, call)} \cup Spoilt(Said(s, call), call)

\* A call is not answered yet, or its answer is about settings of the bucket.
AnswerFits(b, call, answer) ==
  \/ answer = Missing
  \/ answer = Failed("gone") /\ b \in spoiled
  \/ answer = Failed("conflict") /\ call = "location"
  \/ \E s \in BucketSettings : (b \notin spoiled => s = cloud[b]) /\ answer \in AnswersAbout(s, call)

RecordFits(b, r) ==
  /\ DOMAIN r = Range(Calls)
  /\ \A call \in Range(Calls) : AnswerFits(b, call, r[call])
  /\ b \notin AdmittedNames => r["location"] = Failed("conflict")
  /\ \E i \in Summaries : Items[i].name = b

\* A summary is of a bucket, in the Region it was listed with.
ItemFits(item) ==
  /\ item.name \in Buckets /\ item.region \in {s.region : s \in BucketSettings} \cup {Missing}
  /\ item.name \notin spoiled =>
       cloud[item.name] # Missing /\ item.region \in {Missing, cloud[item.name].region}

\* A listing without an error names every bucket once.
ListingFits ==
  /\ listing.error \in {Missing, "denied", "malformed"}
  /\ \A i \in Legible : ItemFits(Items[i])
  /\ ListingErrors = {} =>
       /\ Summaries = DOMAIN Items
       /\ \A b \in Buckets \ spoiled : cloud[b] # Missing => \E i \in DOMAIN Items : Items[i].name = b

AccountFits == account \in {Optional(shield, {}), Failed("denied"), Failed("malformed")}

\* A key that was described is the one that was asked for, in its Region.
LookupFits(l) ==
  /\ lookups[l].state \in {"PRESENT", "UNAVAILABLE", "MALFORMED"}
  /\ lookups[l].state = "PRESENT" =>
       lookups[l].value.key = l.reference.key /\ KeyRegion[l.reference.key] = l.region

\* What each stage leaves finished.
StagesFit ==
  /\ stage \in {"list", "account"} => Seen = {}
  /\ stage \in {"keys", "done"} => Pending = {} /\ DOMAIN lookups \subseteq AllWanted
  /\ stage \notin {"keys", "done"} => DOMAIN lookups = {}
  /\ stage = "done" => DOMAIN lookups = AllWanted

BucketInv ==
  /\ BucketTypes
  /\ stage # "list" => ListingFits
  /\ stage \notin {"list", "account"} => AccountFits
  /\ \A b \in Seen : RecordFits(b, records[b])
  /\ \A l \in DOMAIN lookups : LookupFits(l)
  /\ StagesFit

LEMMA SettingsAreTyped == \A s \in BucketSettings : AreBucketSettings(s)
BY BucketsAssumption DEF BucketSettings

LEMMA CallNames ==
  Range(Calls) = {"location", "region", "tags", "encryption", "block", "policy", "policy_status",
                  "acl", "versioning", "ownership"}
BY DEF Range, Calls

-----------------------------------------------------------------------------
(* Buckets: what depends on the listing alone                              *)

LEMMA ListingStays ==
  ASSUME UNCHANGED listing
  PROVE  /\ Items' = Items /\ Legible' = Legible /\ Summaries' = Summaries
         /\ ListingErrors' = ListingErrors /\ AdmittedNames' = AdmittedNames
         /\ \A i : IsAdmitted(i)' = IsAdmitted(i)
<1>1. Items' = Items
  BY DEF Items
<1>2. Legible' = Legible
  BY <1>1 DEF Legible
<1>3. Summaries' = Summaries
  BY <1>1, <1>2 DEF Summaries
<1>4. Contradictions' = Contradictions
  BY <1>1, <1>2 DEF Contradictions
<1>5. Blocked' = Blocked
  BY <1>1, <1>4 DEF Blocked
<1>6. ListingErrors' = ListingErrors
  BY <1>1, <1>2, <1>4 DEF ListingErrors
<1>7. AdmittedNames' = AdmittedNames
  BY <1>1, <1>3, <1>5 DEF AdmittedNames
<1>8. \A i : IsAdmitted(i)' = IsAdmitted(i)
  BY <1>1, <1>3, <1>5 DEF IsAdmitted
<1>9. QED
  BY <1>1, <1>2, <1>3, <1>6, <1>7, <1>8

LEMMA RecordsStay ==
  ASSUME UNCHANGED <<listing, records>>
  PROVE  Pending' = Pending /\ Seen' = Seen
<1>1. /\ Items' = Items /\ Summaries' = Summaries
      /\ \A i : IsAdmitted(i)' = IsAdmitted(i)
  BY ListingStays
<1>2. \A i : NewRecord(i)' = NewRecord(i)
  BY <1>1 DEF NewRecord
<1>3. \A i : RecordOf(i)' = RecordOf(i)
  BY <1>1, <1>2 DEF RecordOf
<1>4. \A i : Remaining(i)' = Remaining(i)
  BY <1>1, <1>3 DEF Remaining
<1>5. Pending' = Pending
  BY <1>1, <1>4 DEF Pending
<1>6. QED
  BY <1>5 DEF Seen

LEMMA WantedStays ==
  ASSUME UNCHANGED <<records, account>>
  PROVE  AllWanted' = AllWanted
<1>1. \A r : Settled(r)' = Settled(r)
  BY DEF Settled, EncryptionSource, AclSource, Policies
<1>2. \A r : Wanted(r)' = Wanted(r)
  BY <1>1 DEF Wanted
<1>3. Seen' = Seen
  BY DEF Seen
<1>4. QED
  BY <1>2, <1>3 DEF AllWanted

\* What is known of a bucket stays known unless it changes.
LEMMA AnswersStay ==
  ASSUME UNCHANGED <<listing, shield>>, spoiled \subseteq spoiled',
         NEW b \in Buckets, b \notin spoiled' => cloud'[b] = cloud[b]
  PROVE  \A r : RecordFits(b, r) => RecordFits(b, r)'
<1>1. \A s, call : AnswersAbout(s, call)' = AnswersAbout(s, call)
  <2>1. \A s : EffectiveGrants(s)' = EffectiveGrants(s)
    BY DEF EffectiveGrants
  <2>2. \A s, call : Said(s, call)' = Said(s, call)
    BY <2>1 DEF Said
  <2>3. QED
    BY <2>2 DEF AnswersAbout
<1>2. \A call, answer : AnswerFits(b, call, answer) => AnswerFits(b, call, answer)'
  BY <1>1 DEF AnswerFits
<1>3. QED
  BY <1>2, ListingStays DEF RecordFits

LEMMA ListedStays ==
  ASSUME UNCHANGED listing, spoiled \subseteq spoiled', ListingFits,
         \A b \in Buckets \ spoiled' : cloud'[b] = cloud[b]
  PROVE  ListingFits'
<1>1. \A item : ItemFits(item) => ItemFits(item)'
  BY DEF ItemFits
<1>2. QED
  BY <1>1, ListingStays DEF ListingFits

-----------------------------------------------------------------------------
(* Buckets: what ListBuckets may deliver                                   *)

ListableItems == {ItemOf(b, regional, c) : b \in Existing, regional \in BOOLEAN, c \in {0, 1}} \cup {Missing}

LEMMA ItemsFit ==
  BucketTypes => \A item \in ListableItems \ {Missing} : ItemFits(item)
<1> SUFFICES ASSUME BucketTypes, NEW b \in Existing, NEW regional \in BOOLEAN, NEW c \in {0, 1}
             PROVE  ItemFits(ItemOf(b, regional, c))
  BY DEF ListableItems
<1>1. cloud[b] \in BucketSettings /\ b \in Buckets /\ cloud[b] # Missing
  BY DEF BucketTypes, Existing
<1>2. cloud[b].region \in {s.region : s \in BucketSettings}
  BY <1>1
<1>3. QED
  BY <1>1, <1>2 DEF ItemFits, ItemOf, Summary

\* The listing of every bucket, which the others are made from.
LEMMA WholePage ==
  ASSUME BucketTypes, NEW regional \in BOOLEAN, NEW whole, whole = EveryBucket(regional)
  PROVE  /\ whole \in Seq(ListableItems)
         /\ \A i, j \in DOMAIN whole : whole[i].name = whole[j].name => i = j
         /\ \A b \in Existing : \E i \in DOMAIN whole : whole[i] = ItemOf(b, regional, 0) /\ whole[i].name = b
<1> DEFINE order == SetToSeq(Existing)
           n == Cardinality(Existing)
<1>1. IsFiniteSet(Existing)
  BY BucketsAssumption, FS_Subset DEF Existing
<1>2. /\ n \in Nat /\ order \in [1..n -> Existing]
      /\ \A i, j \in 1..n : order[i] = order[j] => i = j
      /\ \A b \in Existing : \E i \in 1..n : order[i] = b
  BY <1>1, OrderIsWhole
<1> HIDE DEF order, n
<1>3. whole = [i \in 1..n |-> ItemOf(order[i], regional, 0)]
  BY <1>2 DEF order, EveryBucket
<1>4. \A i \in 1..n : ItemOf(order[i], regional, 0) \in ListableItems
  BY <1>2 DEF ListableItems
<1>5. whole \in [1..n -> ListableItems]
  BY <1>3, <1>4
<1>6. whole \in Seq(ListableItems) /\ DOMAIN whole = 1..n /\ Len(whole) = n
  BY <1>2, <1>5
<1>7. \A i \in 1..n : whole[i].name = order[i]
  BY <1>3 DEF ItemOf, Summary
<1>8. QED
  BY <1>2, <1>3, <1>6, <1>7

\* A page that stops early, or that holds an item that is not legible or one that
\* contradicts another, has an error.
AnyPage(regional) == {Page(EveryBucket(regional), Missing)} \cup BadPages(EveryBucket(regional), regional)

LEMMA PagesFit ==
  BucketTypes /\ (\E regional \in BOOLEAN : listing \in AnyPage(regional)) => ListingFits
<1> SUFFICES ASSUME BucketTypes, NEW regional \in BOOLEAN, listing \in AnyPage(regional)
             PROVE  ListingFits
  OBVIOUS
<1> DEFINE whole == EveryBucket(regional)
           n == Len(whole)
           Cut == {Page(SubSeq(whole, 1, m), e) : m \in 0..Len(whole), e \in {"denied", "malformed"}}
           Twice == UNION {{Page(whole \o extra, Missing) : extra \in Again(b, regional)} : b \in Existing}
<1>1. listing \in {Page(whole, Missing)} \cup Cut \cup {Page(Append(whole, Missing), Missing)} \cup Twice
  <2>1. AnyPage(regional) = {Page(whole, Missing)} \cup (Cut \cup {Page(Append(whole, Missing), Missing)} \cup Twice)
    BY DEF AnyPage, BadPages
  <2>2. QED
    <3> HIDE DEF Cut, Twice, whole
    <3>1. QED
      BY <2>1
<1>2. /\ whole \in Seq(ListableItems) /\ DOMAIN whole = 1..n /\ n \in Nat
      /\ \A i, j \in DOMAIN whole : whole[i].name = whole[j].name => i = j
      /\ \A b \in Existing : \E i \in DOMAIN whole : whole[i] = ItemOf(b, regional, 0) /\ whole[i].name = b
  BY WholePage, LenProperties
<1> HIDE DEF whole, n
<1> DEFINE Good == /\ Items \in Seq(ListableItems)
                   /\ listing.error \in {Missing, "denied", "malformed"}
                   /\ ListingErrors # {} \/ Items = whole
<1>3. ASSUME listing = Page(whole, Missing)
      PROVE  Good
  BY <1>2, <1>3 DEF Page, Items
<1>4. ASSUME listing \in Cut
      PROVE  Good
  <2>1. PICK m \in 0..Len(whole), e \in {"denied", "malformed"} : listing = Page(SubSeq(whole, 1, m), e)
    BY <1>4
  <2>2. m \in Nat /\ SubSeq(whole, 1, m) \in Seq(ListableItems)
    BY <1>2, <2>1, SubSeqProperties DEF n
  <2>3. Items = SubSeq(whole, 1, m) /\ listing.error = e
    BY <2>1 DEF Page, Items
  <2>4. e \in ListingErrors
    BY <2>3, MissingAssumption DEF ListingErrors
  <2>5. QED
    BY <2>1, <2>2, <2>3, <2>4
<1>5. ASSUME listing = Page(Append(whole, Missing), Missing)
      PROVE  Good
  <2>1. Items = Append(whole, Missing) /\ listing.error = Missing
    BY <1>5 DEF Page, Items
  <2>2. Missing \in ListableItems
    BY DEF ListableItems
  <2>3. Items \in Seq(ListableItems) /\ n + 1 \in DOMAIN Items /\ Items[n + 1] = Missing
    BY <1>2, <2>1, <2>2, AppendProperties DEF n
  <2>4. n + 1 \in DOMAIN Items \ Legible
    BY <2>3 DEF Legible
  <2>5. "malformed" \in ListingErrors
    BY <2>4 DEF ListingErrors
  <2>6. QED
    BY <2>1, <2>3, <2>5
<1>6. ASSUME NEW b \in Existing, NEW extra \in Seq(ListableItems), Len(extra) # 0,
             extra[1] = ItemOf(b, regional, 1), listing = Page(whole \o extra, Missing)
      PROVE  Good
  <2>1. Items = whole \o extra /\ listing.error = Missing
    BY <1>6 DEF Page, Items
  <2>2. Len(extra) \in Nat /\ n + 1 \in Nat
    BY <1>2, <1>6, LenProperties
  <2>3. /\ Items \in Seq(ListableItems) /\ DOMAIN Items = 1..(n + Len(extra))
        /\ \A i \in 1..n : Items[i] = whole[i]
    BY <1>2, <1>6, <2>1, <2>2, ConcatProperties, LenProperties DEF n
  <2>4. n + 1 \in DOMAIN Items
    BY <1>2, <1>6, <2>2, <2>3
  <2>5. Items[n + 1] = extra[1]
    <3>1. (whole \o extra)[n + 1] = extra[n + 1 - n]
      BY <1>2, <1>6, <2>2, <2>3, <2>4, ConcatProperties DEF n
    <3>2. n + 1 - n = 1
      BY <1>2
    <3>3. QED
      BY <3>1, <3>2, <2>1
  <2>6. PICK j \in 1..n : whole[j] = ItemOf(b, regional, 0)
    BY <1>2
  <2>7. Items[j] = ItemOf(b, regional, 0) /\ j \in DOMAIN Items /\ j < n + 1
    BY <1>2, <2>2, <2>3, <2>6
  <2>8. CASE j \in Legible /\ n + 1 \in Legible
    <3>1. Items[j].name = Items[n + 1].name /\ Items[j] # Items[n + 1]
      BY <2>5, <2>7, <1>6 DEF ItemOf, Summary
    <3>2. n + 1 \in Contradictions
      BY <2>7, <2>8, <3>1 DEF Contradictions
    <3>3. "conflict" \in ListingErrors
      BY <3>2 DEF ListingErrors
    <3>4. QED
      BY <2>1, <2>3, <3>3
  <2>9. CASE ~(j \in Legible /\ n + 1 \in Legible)
    <3>1. "malformed" \in ListingErrors
      BY <2>4, <2>7, <2>9 DEF ListingErrors
    <3>2. QED
      BY <2>1, <2>3, <3>1
  <2>10. QED
    BY <2>8, <2>9
<1>7. ASSUME listing \in Twice
      PROVE  Good
  <2>1. PICK b \in Existing : \E extra \in Again(b, regional) : listing = Page(whole \o extra, Missing)
    BY <1>7
  <2> PICK extra \in Again(b, regional) : listing = Page(whole \o extra, Missing)
    BY <2>1
  <2>2. ItemOf(b, regional, 1) \in ListableItems /\ ItemOf(b, regional, 0) \in ListableItems
    BY DEF ListableItems
  <2>3. extra \in Seq(ListableItems) /\ Len(extra) # 0 /\ extra[1] = ItemOf(b, regional, 1)
    <3>1. CASE extra = <<ItemOf(b, regional, 1)>>
      BY <3>1, <2>2
    <3>2. CASE extra = <<ItemOf(b, regional, 1), ItemOf(b, regional, 0)>>
      BY <3>2, <2>2
    <3>3. QED
      BY <3>1, <3>2 DEF Again
  <2>4. QED
    BY <1>6, <2>3
<1>8. Good
  <2> HIDE DEF Good, Cut, Twice
  <2>1. QED
    BY <1>1, <1>3, <1>4, <1>5, <1>7
<1>9. \A i \in Legible : ItemFits(Items[i])
  <2>1. \A i \in DOMAIN Items : Items[i] \in ListableItems
    BY <1>8
  <2>2. QED
    BY <2>1, ItemsFit DEF Legible
<1>10. ASSUME ListingErrors = {}
       PROVE  /\ Summaries = DOMAIN Items
              /\ \A b \in Buckets \ spoiled : cloud[b] # Missing => \E i \in DOMAIN Items : Items[i].name = b
  <2>1. Items = whole
    BY <1>8, <1>10
  <2>2. Legible = DOMAIN Items
    BY <1>10 DEF ListingErrors, Legible
  <2>3. \A i, j \in DOMAIN Items : j < i => Items[j].name # Items[i].name
    BY <1>2, <2>1
  <2>4. Summaries = DOMAIN Items
    BY <2>2, <2>3 DEF Summaries
  <2>5. QED
    BY <1>2, <2>1, <2>4 DEF Existing
<1>11. QED
  BY <1>8, <1>9, <1>10 DEF ListingFits

-----------------------------------------------------------------------------
(* Buckets: every step keeps the invariant                                 *)

LEMMA BucketInvInit == BucketInit => BucketInv
<1> SUFFICES ASSUME BucketInit
             PROVE  BucketInv
  OBVIOUS
<1>1. PICK a \in Accounts : cloud = a.buckets /\ shield = a.shield
  BY DEF BucketInit
<1>2. DOMAIN cloud = Buckets /\ \A b \in Buckets : cloud[b] \in BucketSettings \cup {Missing}
  BY <1>1, BucketsAssumption DEF BucketSettings
<1>3. BucketTypes
  BY <1>1, <1>2, BucketsAssumption DEF BucketInit, BucketTypes
<1>4. Seen = {} /\ DOMAIN lookups = {}
  BY DEF BucketInit, Seen
<1>5. QED
  BY <1>3, <1>4 DEF BucketInv, BucketInit, StagesFit

LEMMA ListBucketsInv == BucketInv /\ ListBuckets => BucketInv'
<1> SUFFICES ASSUME BucketInv, ListBuckets
             PROVE  BucketInv'
  OBVIOUS
<1>1. /\ stage = "list" /\ stage' = "account" /\ \E regional \in BOOLEAN : listing' \in Pages(regional)
      /\ refusals' = refusals + (IF ListingErrors' = {} THEN 0 ELSE 1)
      /\ UNCHANGED <<cloud, shield, keyVersion, spoiled, upheavals, account, records, lookups>>
  BY DEF ListBuckets, world
<1>2. Seen = {} /\ DOMAIN lookups = {}
  BY <1>1 DEF BucketInv, StagesFit
<1>3. BucketTypes'
  BY <1>1 DEF BucketInv, BucketTypes
<1>4. Seen' = {} /\ DOMAIN lookups' = {}
  BY <1>1, <1>2 DEF Seen
<1>5. ListingFits'
  <2>1. \A regional : Pages(regional) \subseteq AnyPage(regional)
    BY DEF Pages, AnyPage
  <2>2. \A regional : AnyPage(regional)' = AnyPage(regional)
    BY <1>1 DEF AnyPage, BadPages, EveryBucket, Again, ItemOf, Existing
  <2>3. (\E regional \in BOOLEAN : listing \in AnyPage(regional))'
    BY <1>1, <2>1, <2>2
  <2>4. QED
    BY <1>3, <2>3, PagesFit, PTL
<1>6. QED
  BY <1>1, <1>3, <1>4, <1>5 DEF BucketInv, StagesFit

\* A step that leaves the listing and the records alone, and only changes buckets that
\* it spoils, keeps what was listed and answered.
LEMMA CollectedStays ==
  ASSUME BucketInv, stage # "list", stage' # "list", UNCHANGED <<shield, listing, records>>,
         spoiled \subseteq spoiled', \A b \in Buckets \ spoiled' : cloud'[b] = cloud[b]
  PROVE  /\ ListingFits'
         /\ \A b \in Seen' : RecordFits(b, records[b])'
         /\ Seen' = Seen /\ Pending' = Pending
<1>1. ListingFits'
  BY ListedStays DEF BucketInv
<1>2. Seen' = Seen /\ Pending' = Pending
  BY RecordsStay
<1>3. ASSUME NEW b \in Seen
      PROVE  RecordFits(b, records[b])'
  <2>1. \A r : RecordFits(b, r) => RecordFits(b, r)'
    BY AnswersStay DEF Seen
  <2>2. QED
    BY <2>1 DEF BucketInv
<1>4. QED
  BY <1>1, <1>2, <1>3

LEMMA ReadAccountBlockInv == BucketInv /\ ReadAccountBlock => BucketInv'
<1> SUFFICES ASSUME BucketInv, ReadAccountBlock
             PROVE  BucketInv'
  OBVIOUS
<1>1. /\ stage = "account" /\ stage' = "buckets"
      /\ account' \in {Optional(shield, {}), Failed("denied"), Failed("malformed")}
      /\ \E answer : refusals' = refusals + Refusal(answer)
      /\ UNCHANGED <<cloud, shield, keyVersion, spoiled, upheavals, listing, records, lookups>>
  BY DEF ReadAccountBlock, world
<1>2. \A answer : Refusal(answer) \in Nat
  BY DEF Refusal
<1>3. BucketTypes'
  BY <1>1, <1>2 DEF BucketInv, BucketTypes
<1>4. AccountFits'
  <2>1. Optional(shield, {})' = Optional(shield, {})
    BY <1>1 DEF Optional
  <2>2. QED
    BY <1>1, <2>1 DEF AccountFits
<1>5. Seen = {} /\ DOMAIN lookups = {}
  BY <1>1 DEF BucketInv, StagesFit
<1>6. /\ ListingFits' /\ Seen' = Seen
      /\ \A b \in Seen' : RecordFits(b, records[b])'
  BY <1>1, CollectedStays
<1>7. QED
  BY <1>1, <1>3, <1>4, <1>5, <1>6 DEF BucketInv, StagesFit

LEMMA CallsAreCalls == \A k \in DOMAIN Calls : Calls[k] \in Range(Calls)
BY DEF Range

\* The record of a summary that is asked about, also one that nothing was asked about yet.
LEMMA RecordOfFits ==
  ASSUME BucketInv, stage = "buckets", NEW i \in Summaries
  PROVE  RecordFits(Items[i].name, RecordOf(i)) /\ Items[i].name \in Buckets
<1> DEFINE b == Items[i].name
<1>1. ListingFits /\ i \in Legible /\ ItemFits(Items[i])
  BY DEF BucketInv, ListingFits, Summaries
<1>2. b \in Buckets
  BY <1>1 DEF ItemFits
<1>3. CASE records[b] # Missing
  BY <1>2, <1>3 DEF BucketInv, Seen, RecordOf
<1>4. CASE records[b] = Missing
  <2>1. RecordOf(i) = NewRecord(i)
    BY <1>4 DEF RecordOf
  <2>2. DOMAIN NewRecord(i) = Range(Calls)
    BY DEF NewRecord
  <2>3. b \notin AdmittedNames <=> ~IsAdmitted(i)
    BY DEF AdmittedNames, IsAdmitted
  <2>4. "location" \in Range(Calls) /\ "region" \in Range(Calls)
    BY CallNames
  <2>5. ~IsAdmitted(i) => NewRecord(i)["location"] = Failed("conflict")
    BY <2>4 DEF NewRecord
  <2>6. ASSUME NEW call \in Range(Calls)
        PROVE  AnswerFits(b, call, NewRecord(i)[call])
    <3>1. CASE call = "location" /\ ~IsAdmitted(i)
      BY <2>5, <3>1 DEF AnswerFits
    <3>2. CASE call = "region" /\ Items[i].region # Missing
      <4>1. NewRecord(i)[call] = Present(Items[i].region)
        BY <3>2 DEF NewRecord
      <4>2. Items[i].region \in {s.region : s \in BucketSettings}
        BY <1>1, <3>2 DEF ItemFits
      <4>3. PICK s \in BucketSettings : (b \notin spoiled => s = cloud[b]) /\ s.region = Items[i].region
        <5>1. CASE b \notin spoiled
          <6>1. cloud[b] \in BucketSettings /\ cloud[b].region = Items[i].region
            BY <1>1, <1>2, <3>2, <5>1 DEF ItemFits, BucketInv, BucketTypes
          <6>2. QED
            BY <5>1, <6>1
        <5>2. CASE b \in spoiled
          BY <4>2, <5>2
        <5>3. QED
          BY <5>1, <5>2
      <4>4. Said(s, call) = Present(s.region)
        BY <3>2 DEF Said
      <4>5. QED
        BY <4>1, <4>3, <4>4 DEF AnswerFits, AnswersAbout
    <3>3. CASE ~(call = "location" /\ ~IsAdmitted(i)) /\ ~(call = "region" /\ Items[i].region # Missing)
      <4>1. NewRecord(i)[call] = Missing
        BY <3>3, Zenon DEF NewRecord
      <4>2. QED
        BY <4>1 DEF AnswerFits
    <3>4. QED
      BY <3>1, <3>2, <3>3
  <2>7. QED
    BY <2>1, <2>2, <2>3, <2>5, <2>6, <1>2 DEF RecordFits
<1>5. QED
  BY <1>2, <1>3, <1>4

LEMMA AskBucketInv == BucketInv /\ AskBucket => BucketInv'
<1> SUFFICES ASSUME BucketInv, AskBucket
             PROVE  BucketInv'
  OBVIOUS
<1> PICK i \in Pending : \E k \in Remaining(i) : \E answer \in Answers(Items[i].name, Calls[k]) :
        /\ records' = [records EXCEPT ![Items[i].name] = [RecordOf(i) EXCEPT ![Calls[k]] = answer]]
        /\ refusals' = refusals + Refusal(answer)
  BY DEF AskBucket
<1> PICK k \in Remaining(i) : \E answer \in Answers(Items[i].name, Calls[k]) :
        /\ records' = [records EXCEPT ![Items[i].name] = [RecordOf(i) EXCEPT ![Calls[k]] = answer]]
        /\ refusals' = refusals + Refusal(answer)
  OBVIOUS
<1>1. PICK answer \in Answers(Items[i].name, Calls[k]) :
        /\ records' = [records EXCEPT ![Items[i].name] = [RecordOf(i) EXCEPT ![Calls[k]] = answer]]
        /\ refusals' = refusals + Refusal(answer)
  OBVIOUS
<1>2. /\ stage = "buckets" /\ stage' = "buckets"
      /\ UNCHANGED <<cloud, shield, keyVersion, spoiled, upheavals, listing, account, lookups>>
  BY DEF AskBucket, world
<1> DEFINE b == Items[i].name
           call == Calls[k]
           old == RecordOf(i)
           new == [old EXCEPT ![call] = answer]
<1>3. i \in Summaries /\ i \in Legible /\ ItemFits(Items[i])
  BY <1>1, <1>2 DEF Pending, Summaries, BucketInv, ListingFits
<1>4. RecordFits(b, old) /\ b \in Buckets
  BY <1>2, <1>3, RecordOfFits
<1>5. ~Answered(old[call]) /\ call \in Range(Calls)
  BY <1>1, CallsAreCalls DEF Remaining
<1> HIDE DEF old, call
<1>6. AnswerFits(b, call, answer)
  <2>1. CASE cloud[b] = Missing
    <3>1. answer = Failed("gone")
      BY <1>1, <2>1 DEF Answers
    <3>2. b \in spoiled
      BY <1>3, <2>1 DEF ItemFits
    <3>3. QED
      BY <3>1, <3>2 DEF AnswerFits
  <2>2. CASE cloud[b] # Missing
    <3>1. cloud[b] \in BucketSettings
      BY <1>4, <2>2 DEF BucketInv, BucketTypes
    <3>2. answer \in AnswersAbout(cloud[b], call)
      BY <1>1, <2>2 DEF Answers, AnswersAbout, call
    <3>3. QED
      BY <3>1, <3>2 DEF AnswerFits
  <2>3. QED
    BY <2>1, <2>2
<1>7. RecordFits(b, new)
  <2>1. DOMAIN new = Range(Calls) /\ \A c \in Range(Calls) : new[c] = IF c = call THEN answer ELSE old[c]
    BY <1>4, <1>5 DEF RecordFits
  <2>2. b \notin AdmittedNames => new["location"] = Failed("conflict")
    <3>1. "location" \in Range(Calls)
      BY CallNames
    <3>2. b \notin AdmittedNames => call # "location"
      BY <1>4, <1>5, MissingAssumption DEF RecordFits, Answered
    <3>3. QED
      BY <2>1, <3>1, <3>2, <1>4 DEF RecordFits
  <2>3. QED
    BY <2>1, <2>2, <1>4, <1>6 DEF RecordFits
<1>8. \A o \in Buckets : records'[o] = IF o = b THEN new ELSE records[o]
  BY <1>1, <1>4 DEF BucketInv, BucketTypes, old, call
<1> HIDE DEF new
<1>9. ASSUME NEW o \in Seen'
      PROVE  RecordFits(o, records[o])'
  <2>1. o \in Buckets
    BY <1>9 DEF Seen
  <2>2. \A r : RecordFits(o, r) => RecordFits(o, r)'
    BY <1>2, <2>1, AnswersStay
  <2>3. RecordFits(o, records'[o])
    <3>1. CASE o = b
      BY <3>1, <1>4, <1>7, <1>8
    <3>2. CASE o # b
      <4>1. records'[o] = records[o]
        BY <3>2, <1>8, <2>1
      <4>2. o \in Seen
        BY <4>1, <2>1, <1>9 DEF Seen
      <4>3. QED
        BY <4>1, <4>2 DEF BucketInv
    <3>3. QED
      BY <3>1, <3>2
  <2>4. QED
    BY <2>2, <2>3
<1>10. ListingFits'
  BY <1>2, ListedStays DEF BucketInv
<1>11. BucketTypes'
  <2>1. DOMAIN records' = Buckets
    BY <1>1 DEF BucketInv, BucketTypes
  <2>2. refusals' \in Nat
    BY <1>1 DEF Refusal, BucketInv, BucketTypes
  <2>3. QED
    BY <1>2, <2>1, <2>2 DEF BucketInv, BucketTypes
<1>12. AccountFits'
  BY <1>2 DEF BucketInv, AccountFits, Optional
<1>13. DOMAIN lookups' = {}
  BY <1>2 DEF BucketInv, StagesFit
<1>14. QED
  BY <1>2, <1>9, <1>10, <1>11, <1>12, <1>13 DEF BucketInv, StagesFit

LEMMA BucketsCollectedInv == BucketInv /\ BucketsCollected => BucketInv'
<1> SUFFICES ASSUME BucketInv, BucketsCollected
             PROVE  BucketInv'
  OBVIOUS
<1>1. /\ stage = "buckets" /\ Pending = {} /\ stage' = IF AllWanted = {} THEN "done" ELSE "keys"
      /\ UNCHANGED <<cloud, shield, keyVersion, spoiled, upheavals, refusals, listing, account, records, lookups>>
  BY DEF BucketsCollected, world
<1>2. /\ ListingFits' /\ Pending' = Pending
      /\ \A b \in Seen' : RecordFits(b, records[b])'
  BY <1>1, CollectedStays
<1>3. AllWanted' = AllWanted
  BY <1>1, WantedStays
<1>4. BucketTypes'
  BY <1>1 DEF BucketInv, BucketTypes
<1>5. AccountFits'
  BY <1>1 DEF BucketInv, AccountFits, Optional
<1>6. DOMAIN lookups' = {}
  BY <1>1 DEF BucketInv, StagesFit
<1>7. StagesFit'
  BY <1>1, <1>2, <1>3, <1>6 DEF StagesFit
<1>8. QED
  BY <1>1, <1>2, <1>4, <1>5, <1>6, <1>7 DEF BucketInv

LEMMA DescribeKeyInv == BucketInv /\ DescribeKey => BucketInv'
<1> SUFFICES ASSUME BucketInv, DescribeKey
             PROVE  BucketInv'
  OBVIOUS
<1> PICK l \in AllWanted \ DOMAIN lookups : \E answer \in {KeySaid(l), Failed("denied"), Failed("malformed")} :
        /\ lookups' = [o \in DOMAIN lookups \cup {l} |-> IF o = l THEN answer ELSE lookups[o]]
        /\ refusals' = refusals + (IF answer = KeySaid(l) THEN 0 ELSE 1)
  BY DEF DescribeKey
<1>1. PICK answer \in {KeySaid(l), Failed("denied"), Failed("malformed")} :
        /\ lookups' = [o \in DOMAIN lookups \cup {l} |-> IF o = l THEN answer ELSE lookups[o]]
        /\ refusals' = refusals + (IF answer = KeySaid(l) THEN 0 ELSE 1)
  OBVIOUS
<1>2. /\ stage = "keys" /\ stage' = IF DOMAIN lookups' = AllWanted THEN "done" ELSE "keys"
      /\ UNCHANGED <<cloud, shield, keyVersion, spoiled, upheavals, listing, account, records>>
  BY DEF DescribeKey, world
<1>3. /\ ListingFits' /\ Pending' = Pending
      /\ \A b \in Seen' : RecordFits(b, records[b])'
  BY <1>2, CollectedStays
<1>4. AllWanted' = AllWanted
  BY <1>2, WantedStays
<1>5. BucketTypes'
  BY <1>1, <1>2 DEF BucketInv, BucketTypes
<1>6. AccountFits'
  BY <1>2 DEF BucketInv, AccountFits, Optional
<1>7. /\ DOMAIN lookups' = DOMAIN lookups \cup {l}
      /\ lookups'[l] = answer /\ \A o \in DOMAIN lookups : o # l => lookups'[o] = lookups[o]
  BY <1>1
<1>8. \A o \in DOMAIN lookups' : LookupFits(o)'
  <2>1. LookupFits(l)'
    BY <1>1, <1>7 DEF LookupFits, KeySaid, Present, Failed
  <2>2. QED
    BY <2>1, <1>7 DEF BucketInv, LookupFits
<1>9. StagesFit'
  BY <1>1, <1>2, <1>3, <1>4, <1>7 DEF StagesFit, BucketInv
<1>10. QED
  BY <1>2, <1>3, <1>5, <1>6, <1>8, <1>9 DEF BucketInv

LEMMA ChangesInv == BucketInv /\ (ChangeBucket \/ ChangeKey \/ UNCHANGED bucketVars) => BucketInv'
<1> SUFFICES ASSUME BucketInv, ChangeBucket \/ ChangeKey \/ UNCHANGED bucketVars
             PROVE  BucketInv'
  OBVIOUS
<1>1. UNCHANGED <<shield, refusals, stage, listing, account, records, lookups>>
  BY DEF ChangeBucket, ChangeKey, bucketVars, world, collected
<1>2. /\ BucketTypes' /\ spoiled \subseteq spoiled'
      /\ \A b \in Buckets \ spoiled' : cloud'[b] = cloud[b]
  <2>1. CASE ChangeBucket
    <3>1. PICK i \in Pending, s \in Rewrites \cup {Missing} :
            /\ cloud' = [cloud EXCEPT ![Items[i].name] = s]
            /\ spoiled' = spoiled \cup {Items[i].name}
      BY <2>1 DEF ChangeBucket
    <3>2. /\ stage = "buckets" /\ upheavals' = upheavals + 1 /\ UNCHANGED keyVersion
      BY <2>1 DEF ChangeBucket
    <3>3. Items[i].name \in Buckets
      BY <3>1, <3>2, RecordOfFits DEF Pending
    <3>4. s \in BucketSettings \cup {Missing}
      BY <3>1 DEF BucketSettings
    <3>5. QED
      BY <1>1, <3>1, <3>2, <3>3, <3>4 DEF BucketInv, BucketTypes
  <2>2. CASE ChangeKey
    <3>1. keyVersion' \in [KeyIds -> Nat]
      BY <2>2 DEF ChangeKey, BucketInv, BucketTypes
    <3>2. QED
      BY <1>1, <2>2, <3>1 DEF ChangeKey, BucketInv, BucketTypes
  <2>3. CASE UNCHANGED bucketVars
    BY <1>1, <2>3 DEF bucketVars, world, BucketInv, BucketTypes
  <2>4. QED
    BY <2>1, <2>2, <2>3
<1>3. AllWanted' = AllWanted
  BY <1>1, WantedStays
<1>4. Seen' = Seen /\ Pending' = Pending
  BY <1>1, RecordsStay
<1>5. stage # "list" => /\ ListingFits'
                        /\ \A b \in Seen' : RecordFits(b, records[b])'
  BY <1>1, <1>2, CollectedStays
<1>6. AccountFits => AccountFits'
  BY <1>1 DEF AccountFits, Optional
<1>7. StagesFit'
  BY <1>1, <1>3, <1>4 DEF BucketInv, StagesFit
<1>8. stage = "list" => Seen' = {}
  BY <1>4 DEF BucketInv, StagesFit
<1>9. \A l \in DOMAIN lookups' : LookupFits(l)'
  BY <1>1 DEF BucketInv, LookupFits
<1>10. QED
  BY <1>1, <1>2, <1>5, <1>6, <1>7, <1>8, <1>9 DEF BucketInv

LEMMA BucketInvStep == BucketInv /\ [BucketNext]_bucketVars => BucketInv'
BY ListBucketsInv, ReadAccountBlockInv, AskBucketInv, BucketsCollectedInv, DescribeKeyInv, ChangesInv
   DEF BucketNext

LEMMA BucketInvAlways == BucketSpec => []BucketInv
BY BucketInvInit, BucketInvStep, PTL DEF BucketSpec

\* The settings, the records and the counters of a collection are what its steps expect.
THEOREM BucketTypesHold == BucketSpec => []BucketTypes
<1>1. BucketInv => BucketTypes
  BY DEF BucketInv
<1>2. QED
  BY <1>1, BucketInvAlways, PTL

-----------------------------------------------------------------------------
(* Buckets: the shapes of the sources                                      *)

\* What a source of a bucket may be.
SourceShape(call, x) ==
  /\ x = [state |-> x.state, value |-> x.value, raw |-> x.raw, stops |-> x.stops]
  /\ x.state \in {"PRESENT", "EXPECTED_ABSENCE", "UNAVAILABLE", "MALFORMED", "RESOURCE_DISAPPEARED"}
                 \cup (IF call = "location" THEN {"CONFLICT"} ELSE {})
  /\ x.state = "EXPECTED_ABSENCE" =>
       call \notin {"location", "region", "acl"} /\ x.value = AbsentValue(call) /\ x.raw = Missing
  /\ x.state = "PRESENT" =>
       /\ x.value # Missing
       /\ call = "policy_status" => x.value.present
       /\ x.raw = IF call \in {"encryption", "block"} THEN x.value ELSE Missing
  /\ Usable(x) => x.stops = Missing
  /\ ~Usable(x) => x.value = Missing
  /\ ~Usable(x) /\ x.raw # Missing => call \in {"encryption", "block"} /\ x.state = "MALFORMED"
  /\ x.stops = Missing => Usable(x) \/ call \in {"encryption", "block"}

LEMMA SaidShape ==
  ASSUME shield \in PublicBlocks, NEW s, AreBucketSettings(s), NEW call \in Range(Calls)
  PROVE  SourceShape(call, Said(s, call)) /\ Usable(Said(s, call))
<1> USE DEF SourceShape, Usable, Present, Absent
<1> DEFINE x == Said(s, call)
<1>1. /\ s.region # Missing /\ s.tags # Missing /\ s.grants \in SUBSET Grantees
      /\ s.policy \in {"public", "external", "odd", "deny", Missing}
      /\ s.ownership \in {"enforced", "writer", Missing}
  BY MissingAssumption DEF AreBucketSettings, BucketForms
<1>2. CASE call \in {"location", "region"}
  <2>1. x = Present(s.region)
    BY <1>2 DEF Said
  <2>2. QED
    BY <1>1, <1>2, <2>1
<1>3. CASE call = "tags"
  <2>1. x = IF s.tags = {} THEN Absent({}) ELSE Present(s.tags)
    BY <1>3 DEF Said
  <2>2. QED
    BY <1>1, <1>3, <2>1 DEF AbsentValue
<1>4. CASE call = "encryption"
  <2>1. x = Retaining(Optional(s.encryption, Missing))
    BY <1>4 DEF Said
  <2>2. QED
    BY <1>4, <2>1 DEF AbsentValue, Retaining, Optional
<1>5. CASE call = "block"
  <2>1. x = Retaining(Optional(s.block, {}))
    BY <1>5 DEF Said
  <2>2. QED
    BY <1>5, <2>1 DEF AbsentValue, Retaining, Optional
<1>6. CASE call = "policy"
  <2>1. x = Optional(s.policy, Missing)
    BY <1>6 DEF Said
  <2>2. QED
    BY <1>6, <2>1 DEF AbsentValue, Optional
<1>7. CASE call = "policy_status"
  <2>1. x = IF s.policy = Missing THEN Absent([present |-> FALSE, public |-> FALSE])
            ELSE Present([present |-> TRUE, public |-> s.policy = "public"])
    BY <1>7 DEF Said
  <2>2. \A p \in BOOLEAN : [present |-> TRUE, public |-> p] # Missing
    <3>1. \A p \in BOOLEAN : [present |-> TRUE, public |-> p] \in [present : BOOLEAN, public : BOOLEAN]
      OBVIOUS
    <3>2. Missing \notin [present : BOOLEAN, public : BOOLEAN]
      BY MissingAssumption
    <3>3. QED
      BY <3>1, <3>2
  <2>3. CASE s.policy = Missing
    BY <1>7, <2>1, <2>3 DEF AbsentValue
  <2>4. CASE s.policy # Missing
    <3>1. PICK p \in BOOLEAN : p <=> s.policy = "public"
      OBVIOUS
    <3>2. x = Present([present |-> TRUE, public |-> p])
      BY <2>1, <2>4, <3>1
    <3>3. QED
      BY <1>7, <2>2, <3>2
  <2>5. QED
    BY <2>3, <2>4
<1>8. CASE call = "acl"
  <2>1. x = Present(EffectiveGrants(s))
    BY <1>8 DEF Said
  <2>2. EffectiveGrants(s) \in SUBSET Grantees
    BY <1>1 DEF EffectiveGrants, Grantees
  <2>3. QED
    BY <1>8, <2>1, <2>2, MissingAssumption
<1>9. CASE call = "versioning"
  <2>1. x = Absent(Missing)
    BY <1>9 DEF Said
  <2>2. QED
    BY <1>9, <2>1 DEF AbsentValue
<1>10. CASE call = "ownership"
  <2>1. x = Optional(s.ownership, Missing)
    BY <1>10 DEF Said
  <2>2. QED
    BY <1>10, <2>1 DEF AbsentValue, Optional
<1>11. QED
  BY <1>2, <1>3, <1>4, <1>5, <1>6, <1>7, <1>8, <1>9, <1>10, CallNames

\* An answer about a bucket that nobody touched is what it holds; the mapping that is
\* retained beside a refused answer is so too.
AnswerIsTrue(b, call, x) ==
  /\ Usable(x) => x = Said(cloud[b], call)
  /\ x.stops = Missing => x.raw = Said(cloud[b], call).raw

LEMMA AnswerShape ==
  ASSUME BucketTypes, NEW b \in Buckets, NEW call \in Range(Calls), NEW x, AnswerFits(b, call, x),
         x # Missing
  PROVE  SourceShape(call, x) /\ (b \notin spoiled => AnswerIsTrue(b, call, x))
<1>1. ASSUME NEW e \in {"gone", "denied", "malformed"}, x = Failed(e)
      PROVE  SourceShape(call, x) /\ (b \notin spoiled => AnswerIsTrue(b, call, x))
  <2>1. x.stops \in {"FAILED", "PARTIAL"} /\ ~Usable(x)
    BY <1>1 DEF Failed, Usable
  <2>2. x.stops # Missing
    BY <2>1, MissingAssumption
  <2>3. QED
    BY <1>1, <2>1, <2>2 DEF Failed, SourceShape, AnswerIsTrue
<1>2. CASE x = Failed("conflict") /\ call = "location"
  <2>1. x.stops = "PARTIAL" /\ ~Usable(x)
    BY <1>2 DEF Failed, Usable
  <2>2. x.stops # Missing
    BY <2>1, MissingAssumption
  <2>3. QED
    BY <1>2, <2>1, <2>2 DEF Failed, SourceShape, AnswerIsTrue
<1>3. ASSUME NEW s \in BucketSettings, b \notin spoiled => s = cloud[b], x \in AnswersAbout(s, call)
      PROVE  SourceShape(call, x) /\ (b \notin spoiled => AnswerIsTrue(b, call, x))
  <2> DEFINE said == Said(s, call)
  <2>1. SourceShape(call, said) /\ Usable(said)
    BY SettingsAreTyped, SaidShape DEF BucketTypes
  <2> HIDE DEF said
  <2>2. \/ x = said
        \/ x \in {Failed("denied"), Failed("malformed")}
        \/ call \in {"encryption", "block"} /\ said.state = "PRESENT" /\ x = Refused(said)
    BY <1>3 DEF AnswersAbout, Spoilt, said
  <2>3. CASE x = said
    BY <2>1, <2>3, <1>3 DEF AnswerIsTrue, said
  <2>4. CASE call \in {"encryption", "block"} /\ said.state = "PRESENT" /\ x = Refused(said)
    <3>1. x = [state |-> "MALFORMED", value |-> Missing, raw |-> said.raw, stops |-> Missing]
      BY <2>4 DEF Refused, Failed
    <3>2. ~Usable(x)
      BY <3>1 DEF Usable
    <3>3. QED
      BY <2>1, <2>4, <3>1, <3>2, <1>3 DEF SourceShape, AnswerIsTrue, said
  <2>5. QED
    BY <2>2, <2>3, <2>4, <1>1
<1>4. QED
  BY <1>1, <1>2, <1>3 DEF AnswerFits

-----------------------------------------------------------------------------
(* Buckets: a collection that is done                                      *)

LEMMA CallsAreMade ==
  ASSUME BucketInv, stage = "done", NEW b \in Seen, NEW call \in Range(Calls),
         Applies(records[b], call, b \in AdmittedNames)
  PROVE  records[b][call] # Missing
<1>1. PICK i \in Summaries : Items[i].name = b
  BY DEF BucketInv, RecordFits
<1>2. Remaining(i) = {}
  BY <1>1 DEF BucketInv, StagesFit, Pending
<1>3. RecordOf(i) = records[b]
  BY <1>1 DEF RecordOf, Seen
<1>4. IsAdmitted(i) <=> b \in AdmittedNames
  BY <1>1 DEF IsAdmitted, AdmittedNames
<1>5. PICK k \in DOMAIN Calls : Calls[k] = call
  BY DEF Range
<1>6. Applies(RecordOf(i), Calls[k], IsAdmitted(i))
  BY <1>3, <1>4, <1>5 DEF Applies
<1>7. QED
  BY <1>2, <1>3, <1>5, <1>6 DEF Remaining, Answered

LEMMA AdmittedAreSeen ==
  ASSUME BucketInv, stage = "done"
  PROVE  AdmittedNames \subseteq Seen
<1> SUFFICES ASSUME NEW i \in Summaries, Items[i].name \notin Blocked
             PROVE  Items[i].name \in Seen
  BY DEF AdmittedNames
<1>1. Remaining(i) = {}
  BY DEF BucketInv, StagesFit, Pending
<1>2. Items[i].name \in Buckets
  BY DEF BucketInv, ListingFits, Summaries, ItemFits
<1>3. IsAdmitted(i)
  BY DEF IsAdmitted
<1>4. ASSUME records[Items[i].name] = Missing
      PROVE  FALSE
  <2>1. RecordOf(i) = NewRecord(i)
    BY <1>4 DEF RecordOf
  <2>2. NewRecord(i)["location"] = Missing
    <3>1. "location" \in Range(Calls) /\ "location" # "region"
      BY CallNames
    <3>2. QED
      BY <1>3, <3>1, Zenon DEF NewRecord
  <2>3. 1 \in DOMAIN Calls /\ Calls[1] = "location"
    BY DEF Calls
  <2>4. Applies(RecordOf(i), "location", IsAdmitted(i))
    BY DEF Applies
  <2>5. QED
    BY <1>1, <2>1, <2>2, <2>3, <2>4 DEF Remaining, Answered
<1>5. QED
  BY <1>2, <1>4 DEF Seen

\* What the calls about a bucket came to.
Finished(b) ==
  LET r == records[b]
  IN /\ DOMAIN r = Range(Calls) /\ b \in Buckets
     /\ \A call \in Range(Calls) : r[call] # Missing =>
          SourceShape(call, r[call]) /\ (b \notin spoiled => AnswerIsTrue(b, call, r[call]))
     /\ r["location"] # Missing /\ r["region"] # Missing
     /\ DirectRegion(r) # Missing =>
          /\ b \in AdmittedNames
          /\ \A call \in EnrichmentCalls : r[call] # Missing

LEMMA SeenAreFinished ==
  ASSUME BucketInv, stage = "done", NEW b \in Seen
  PROVE  Finished(b)
<1> DEFINE r == records[b]
<1>1. RecordFits(b, r) /\ b \in Buckets /\ BucketTypes
  BY DEF BucketInv, Seen
<1>2. \A call \in Range(Calls) : r[call] # Missing =>
        SourceShape(call, r[call]) /\ (b \notin spoiled => AnswerIsTrue(b, call, r[call]))
  BY <1>1, AnswerShape DEF RecordFits
<1>3. r["location"] # Missing /\ r["region"] # Missing
  <2>1. \A call \in {"location", "region"} : Applies(r, call, b \in AdmittedNames)
    BY DEF Applies
  <2>2. QED
    BY <2>1, CallsAreMade, CallNames
<1>4. ASSUME DirectRegion(r) # Missing
      PROVE  /\ b \in AdmittedNames
             /\ \A call \in EnrichmentCalls : r[call] # Missing
  <2>1. Stated(r["location"]) # Missing
    BY <1>4 DEF DirectRegion
  <2>2. b \in AdmittedNames
    BY <1>1, <2>1 DEF RecordFits, Stated, Failed
  <2>3. \A call \in {"policy", "policy_status", "acl", "versioning", "ownership"} : r[call] # Missing
    <3>1. \A call \in {"policy", "policy_status", "acl", "versioning", "ownership"} :
            Applies(r, call, b \in AdmittedNames)
      BY <1>4 DEF Applies
    <3>2. QED
      BY <3>1, CallsAreMade, CallNames
  <2>4. r["tags"] # Missing
    <3>1. Applies(r, "tags", b \in AdmittedNames)
      BY <1>4 DEF Applies
    <3>2. QED
      BY <3>1, CallsAreMade, CallNames
  <2>5. r["encryption"] # Missing /\ r["block"] # Missing
    <3>1. Applies(r, "encryption", b \in AdmittedNames) /\ Applies(r, "block", b \in AdmittedNames)
      BY <2>2, <2>4 DEF Applies, Answered
    <3>2. QED
      BY <3>1, CallsAreMade, CallNames
  <2>6. EnrichmentCalls = {"tags", "encryption", "block", "policy", "policy_status", "acl", "versioning", "ownership"}
    BY CallNames DEF EnrichmentCalls
  <2>7. QED
    BY <2>2, <2>3, <2>4, <2>5, <2>6
<1>5. QED
  BY <1>1, <1>2, <1>3, <1>4 DEF Finished, RecordFits

-----------------------------------------------------------------------------
(* Buckets: the record as it is appended                                   *)

PoliciesDiffer(r) ==
  Usable(r.policy) /\ Usable(r.policy_status) /\ PoliciesConflict(r.policy.value, r.policy_status.value)

AclDiffers(r) ==
  Usable(r.acl) /\ GrantsConflict(r.acl.value, UsableFlags(account) \cup UsableFlags(r.block), r.ownership.value)

ReferenceIsBad(r) ==
  /\ r.encryption.state = "PRESENT" /\ ReferenceOf(r.encryption.value) # Missing
  /\ r.encryption.value.reference.form = "bad"

LEMMA SettledRecord ==
  ASSUME NEW r, DOMAIN r = Range(Calls)
  PROVE  /\ DirectRegion(r) # Missing => Settled(r).location = r.location
         /\ DirectRegion(r) = Missing /\ r.location.state # "PRESENT" => Settled(r).location = r.location
         /\ DirectRegion(r) = Missing /\ r.location.state = "PRESENT" => Settled(r).location = Failed("conflict")
         /\ \A call \in {"region", "tags", "block", "versioning", "ownership"} : Settled(r)[call] = r[call]
         /\ Settled(r).policy = IF DirectRegion(r) # Missing /\ PoliciesDiffer(r) THEN Contradictory(r.policy) ELSE r.policy
         /\ Settled(r).policy_status =
              IF DirectRegion(r) # Missing /\ PoliciesDiffer(r) THEN Contradictory(r.policy_status) ELSE r.policy_status
         /\ Settled(r).acl = IF DirectRegion(r) # Missing /\ AclDiffers(r) THEN Contradictory(r.acl) ELSE r.acl
         /\ Settled(r).encryption =
              IF DirectRegion(r) # Missing /\ ReferenceIsBad(r)
              THEN [r.encryption EXCEPT !.state = "MALFORMED"] ELSE r.encryption
<1> DEFINE p == Policies(r)
           a == AclSource(p)
           e == EncryptionSource(a)
<1>1. /\ DOMAIN p = Range(Calls)
      /\ \A call \in Range(Calls) \ {"policy", "policy_status"} : p[call] = r[call]
      /\ p.policy = IF PoliciesDiffer(r) THEN Contradictory(r.policy) ELSE r.policy
      /\ p.policy_status = IF PoliciesDiffer(r) THEN Contradictory(r.policy_status) ELSE r.policy_status
  BY CallNames DEF Policies, PoliciesDiffer
<1> HIDE DEF p
<1>2. AclDiffers(p) <=> AclDiffers(r)
  BY <1>1, CallNames DEF AclDiffers
<1>3. /\ DOMAIN a = Range(Calls)
      /\ \A call \in Range(Calls) \ {"acl"} : a[call] = p[call]
      /\ a.acl = IF AclDiffers(p) THEN Contradictory(p.acl) ELSE p.acl
  BY <1>1, CallNames DEF AclSource, AclDiffers
<1> HIDE DEF a
<1>4. a.encryption = r.encryption
  BY <1>1, <1>3, CallNames
<1>5. /\ \A call \in Range(Calls) \ {"encryption"} : e[call] = a[call]
      /\ e.encryption = IF ReferenceIsBad(r) THEN [r.encryption EXCEPT !.state = "MALFORMED"] ELSE r.encryption
  BY <1>3, <1>4, CallNames DEF EncryptionSource, ReferenceIsBad
<1> HIDE DEF e
<1>6. DirectRegion(r) # Missing => Settled(r) = e
  BY DEF Settled, e, a, p
<1>7. DirectRegion(r) = Missing => Settled(r) = IF r.location.state = "PRESENT" THEN [r EXCEPT !.location = Failed("conflict")] ELSE r
  BY DEF Settled
<1>8. CASE DirectRegion(r) # Missing
  BY <1>8, <1>1, <1>2, <1>3, <1>5, <1>6, CallNames
<1>9. CASE DirectRegion(r) = Missing
  BY <1>9, <1>7, CallNames
<1>10. QED
  BY <1>8, <1>9

-----------------------------------------------------------------------------
(* Buckets: what the validators require                                    *)

LEMMA SourcesAreRecords ==
  ASSUME NEW call, NEW x, SourceShape(call, x)
  PROVE  /\ Contradictory(x).state = "CONFLICT" /\ Contradictory(x).value = x.value
         /\ Contradictory(x).raw = x.raw /\ ~Usable(Contradictory(x))
         /\ [x EXCEPT !.state = "MALFORMED"].state = "MALFORMED"
         /\ [x EXCEPT !.state = "MALFORMED"].value = x.value
         /\ [x EXCEPT !.state = "MALFORMED"].raw = x.raw
         /\ [x EXCEPT !.state = "MALFORMED"].stops = x.stops
         /\ ~Usable([x EXCEPT !.state = "MALFORMED"])
BY DEF SourceShape, Contradictory, Usable

LEMMA ListingIsWholeHolds ==
  ASSUME BucketInv, stage = "done"
  PROVE  ListingIsWhole
<1>1. ASSUME DiscoveryState = "PRESENT"
      PROVE  Discarded = 0
  <2>1. ListingErrors = {}
    BY <1>1 DEF DiscoveryState, Failed
  <2>2. Contradictions = {} /\ DOMAIN Items \ Legible = {}
    BY <2>1 DEF ListingErrors
  <2>3. Blocked = {} /\ Late = {}
    BY <2>2 DEF Blocked, Late
  <2>4. QED
    BY <2>2, <2>3, FS_EmptySet DEF Discarded
<1>2. QED
  BY <1>1, AdmittedAreSeen DEF ListingIsWhole

LEMMA LocatedAreAdmitted ==
  ASSUME BucketInv, stage = "done"
  PROVE  Located \subseteq AdmittedNames
BY SeenAreFinished DEF Located, Finished

\* What the location of a bucket that was seen came to.
LEMMA LocationIs ==
  ASSUME BucketInv, stage = "done", NEW b \in Seen
  PROVE  /\ Record(b).location.state = "PRESENT" <=> b \in Located
         /\ Record(b).location.state # "EXPECTED_ABSENCE"
         /\ b \in Located /\ LegacyRegion(records[b]) # Missing => DirectRegion(records[b]) = LegacyRegion(records[b])
<1> DEFINE r == records[b]
<1>1. Finished(b)
  BY SeenAreFinished
<1>2. "location" \in Range(Calls) /\ DOMAIN r = Range(Calls)
  BY <1>1, CallNames DEF Finished
<1>3. r.location # Missing /\ SourceShape("location", r.location)
  BY <1>1, <1>2 DEF Finished
<1>4. r.location.state # "EXPECTED_ABSENCE"
  BY <1>3 DEF SourceShape
<1>5. DirectRegion(r) # Missing => r.location.state = "PRESENT"
  BY DEF DirectRegion, Stated
<1>6. Failed("conflict").state = "CONFLICT"
  BY DEF Failed
<1>7. QED
  BY <1>2, <1>4, <1>5, <1>6, SettledRecord DEF Record, Located, DirectRegion

LEMMA LocationIsIdentifiedHolds ==
  ASSUME BucketInv, stage = "done", NEW b \in AdmittedNames
  PROVE  LocationIsIdentified(b)
<1>1. b \in Seen
  BY AdmittedAreSeen
<1>2. ASSUME LocationState(b) = "PRESENT"
      PROVE  b \in Located /\ (HasResource(b) => ResourceOf(b) \in LocationSubjects(b))
  <2>1. b \in Located
    BY <1>1, <1>2, LocationIs DEF LocationState
  <2>2. HasResource(b) => DirectRegion(records[b]) = LegacyRegion(records[b])
    BY <1>1, <2>1, LocationIs DEF HasResource
  <2>3. QED
    BY <2>1, <2>2 DEF ResourceOf, LocationSubjects
<1>3. ASSUME LocationState(b) = "RESOURCE_DISAPPEARED"
      PROVE  HasResource(b) /\ b \notin Located
  BY <1>1, <1>3, LocationIs DEF LocationState, Gone
<1>4. LocationState(b) # "EXPECTED_ABSENCE"
  BY <1>1, LocationIs DEF LocationState
<1>5. QED
  BY <1>2, <1>3, <1>4 DEF LocationIsIdentified

LEMMA AccountIsAllowed ==
  ASSUME BucketInv, stage = "done"
  PROVE  account.state \in AllowedStates("block")
BY DEF BucketInv, AccountFits, Optional, Present, Absent, Failed, AllowedStates

\* The calls about a bucket that was located were all answered.
LEMMA LocatedShapes ==
  ASSUME BucketInv, stage = "done", NEW b \in Located
  PROVE  /\ b \in Seen /\ DirectRegion(records[b]) # Missing /\ DOMAIN records[b] = Range(Calls)
         /\ \A call \in EnrichmentCalls : SourceShape(call, records[b][call])
         /\ EnrichmentCalls = {"tags", "encryption", "block", "policy", "policy_status", "acl",
                               "versioning", "ownership"}
<1>1. b \in Seen /\ DirectRegion(records[b]) # Missing
  BY DEF Located
<1>2. Finished(b)
  BY <1>1, SeenAreFinished
<1>3. /\ EnrichmentCalls = {"tags", "encryption", "block", "policy", "policy_status", "acl",
                            "versioning", "ownership"}
      /\ EnrichmentCalls \subseteq Range(Calls)
  BY CallNames DEF EnrichmentCalls
<1>4. QED
  BY <1>1, <1>2, <1>3 DEF Finished

\* A source that is appended as it was answered.
LEMMA PlainSourceIsAllowed ==
  ASSUME NEW call \in EnrichmentCalls, NEW x, SourceShape(call, x)
  PROVE  SourceIsAllowed(call, x) /\ ProjectionIsAllowed(call, x)
<1>1. call \in {"tags", "encryption", "block", "policy", "policy_status", "acl", "versioning", "ownership"}
  BY CallNames DEF EnrichmentCalls
<1>2. SourceIsAllowed(call, x)
  BY <1>1 DEF SourceShape, SourceIsAllowed, AllowedStates
<1>3. x.state = "MALFORMED" => HasInvalidReference(x.value)
  BY DEF SourceShape, Usable, HasInvalidReference
<1>4. ProjectionIsAllowed(call, x)
  BY <1>1, <1>3 DEF SourceShape, ProjectionIsAllowed, Usable
<1>5. QED
  BY <1>2, <1>4

LEMMA EnrichmentHolds ==
  ASSUME BucketInv, stage = "done", NEW b \in Located
  PROVE  EnrichmentIsAllowed(Record(b))
<1> DEFINE r == records[b]
           s == Record(b)
<1>1. /\ DirectRegion(r) # Missing /\ DOMAIN r = Range(Calls)
      /\ \A call \in EnrichmentCalls : SourceShape(call, r[call])
      /\ EnrichmentCalls = {"tags", "encryption", "block", "policy", "policy_status", "acl",
                            "versioning", "ownership"}
  BY LocatedShapes
<1>2. /\ \A call \in {"tags", "block", "versioning", "ownership"} : s[call] = r[call]
      /\ s.policy = IF PoliciesDiffer(r) THEN Contradictory(r.policy) ELSE r.policy
      /\ s.policy_status = IF PoliciesDiffer(r) THEN Contradictory(r.policy_status) ELSE r.policy_status
      /\ s.acl = IF AclDiffers(r) THEN Contradictory(r.acl) ELSE r.acl
      /\ s.encryption = IF ReferenceIsBad(r) THEN [r.encryption EXCEPT !.state = "MALFORMED"] ELSE r.encryption
  BY <1>1, SettledRecord DEF Record
<1> DEFINE Good(call) == SourceIsAllowed(call, s[call]) /\ ProjectionIsAllowed(call, s[call])
<1>3. \A call \in EnrichmentCalls : s[call] = r[call] => Good(call)
  BY <1>1, PlainSourceIsAllowed
<1>4. ASSUME NEW call \in {"policy", "policy_status", "acl"}, s[call] = Contradictory(r[call]),
             Usable(r[call])
      PROVE  Good(call)
  <2>1. SourceShape(call, r[call])
    BY <1>1
  <2>2. s[call].state = "CONFLICT" /\ s[call].raw = Missing /\ ~Usable(s[call])
    BY <2>1, <1>4, SourcesAreRecords DEF SourceShape, Usable
  <2>3. QED
    BY <2>2, <1>4 DEF SourceIsAllowed, AllowedStates, RetainsFailure, ProjectionIsAllowed
<1>5. Good("policy") /\ Good("policy_status")
  <2>1. CASE PoliciesDiffer(r)
    BY <2>1, <1>2, <1>4 DEF PoliciesDiffer
  <2>2. CASE ~PoliciesDiffer(r)
    BY <2>2, <1>1, <1>2, <1>3
  <2>3. QED
    BY <2>1, <2>2
<1>6. Good("acl")
  <2>1. CASE AclDiffers(r)
    BY <2>1, <1>2, <1>4 DEF AclDiffers
  <2>2. CASE ~AclDiffers(r)
    BY <2>2, <1>1, <1>2, <1>3
  <2>3. QED
    BY <2>1, <2>2
<1>7. Good("encryption")
  <2>1. CASE ReferenceIsBad(r)
    <3>1. SourceShape("encryption", r.encryption)
      BY <1>1
    <3>2. /\ s.encryption.state = "MALFORMED" /\ s.encryption.value = r.encryption.value
          /\ ~Usable(s.encryption)
      BY <2>1, <3>1, <1>2, SourcesAreRecords
    <3>3. HasInvalidReference(r.encryption.value)
      BY <2>1 DEF ReferenceIsBad, ReferenceOf, HasInvalidReference
    <3>4. QED
      BY <3>2, <3>3 DEF SourceIsAllowed, AllowedStates, RetainsFailure, ProjectionIsAllowed
  <2>2. CASE ~ReferenceIsBad(r)
    BY <2>2, <1>1, <1>2, <1>3
  <2>3. QED
    BY <2>1, <2>2
<1>8. \A call \in EnrichmentCalls : Good(call)
  <2> HIDE DEF Good
  <2>1. QED
    BY <1>1, <1>2, <1>3, <1>5, <1>6, <1>7
<1>9. PoliciesCohere(s)
  <2>1. SourceShape("policy", r.policy) /\ SourceShape("policy_status", r.policy_status)
    BY <1>1
  <2>2. CASE PoliciesDiffer(r)
    <3>1. /\ s.policy.state = "CONFLICT" /\ s.policy_status.state = "CONFLICT"
          /\ s.policy.value = r.policy.value /\ s.policy_status.value = r.policy_status.value
      <4>1. Contradictory(r.policy).state = "CONFLICT" /\ Contradictory(r.policy).value = r.policy.value
        BY <2>1, SourcesAreRecords
      <4>2. /\ Contradictory(r.policy_status).state = "CONFLICT"
            /\ Contradictory(r.policy_status).value = r.policy_status.value
        BY <2>1, SourcesAreRecords
      <4>3. QED
        BY <4>1, <4>2, <2>2, <1>2
    <3>2. QED
      BY <3>1, <2>2 DEF PoliciesDiffer, PoliciesCohere
  <2>3. CASE ~PoliciesDiffer(r)
    <3>1. s.policy = r.policy /\ s.policy_status = r.policy_status
      BY <2>3, <1>2
    <3>2. r.policy.state # "CONFLICT" /\ r.policy_status.state # "CONFLICT"
      BY <2>1 DEF SourceShape
    <3>3. QED
      BY <3>1, <3>2, <2>3 DEF PoliciesDiffer, PoliciesCohere
  <2>4. QED
    BY <2>2, <2>3
<1>10. GrantsCohere(s)
  <2>1. SourceShape("acl", r.acl) /\ SourceShape("ownership", r.ownership)
    BY <1>1
  <2>2. (IF Usable(s.ownership) THEN s.ownership.value ELSE Missing) = r.ownership.value
    BY <2>1, <1>2 DEF SourceShape
  <2>3. UsableFlags(s.block) = UsableFlags(r.block)
    BY <1>2
  <2>4. s.acl.value = r.acl.value /\ (s.acl.state = "CONFLICT" <=> AclDiffers(r))
    <3>1. Contradictory(r.acl).state = "CONFLICT" /\ Contradictory(r.acl).value = r.acl.value
      BY <2>1, SourcesAreRecords
    <3>2. r.acl.state # "CONFLICT"
      BY <2>1 DEF SourceShape
    <3>3. QED
      BY <3>1, <3>2, <1>2
  <2>5. r.acl.value # Missing => Usable(r.acl)
    BY <2>1 DEF SourceShape
  <2>6. QED
    BY <2>2, <2>3, <2>4, <2>5 DEF GrantsCohere, AclDiffers
<1>11. QED
  BY <1>8, <1>9, <1>10 DEF EnrichmentIsAllowed

-----------------------------------------------------------------------------
(* Buckets: keys, edges and subjects                                       *)

LEMMA PresentedAreRead ==
  ASSUME NEW l \in Presented
  PROVE  l \in DOMAIN lookups /\ LookupSource(l) = lookups[l] /\ lookups[l].state = "PRESENT"
BY DEF Presented, LookupSource, Failed

LEMMA LookupsAreKnownHolds ==
  ASSUME BucketInv, stage = "done"
  PROVE  LookupsAreKnown
<1>1. DOMAIN lookups = UNION {Wanted(records[b]) : b \in Located}
  <2>1. DOMAIN lookups = UNION {Wanted(records[b]) : b \in Seen}
    BY DEF BucketInv, StagesFit, AllWanted
  <2>2. \A b \in Seen : b \in Located \/ Wanted(records[b]) = {}
    BY DEF Located, Wanted
  <2>3. Located \subseteq Seen
    BY DEF Located
  <2>4. QED
    BY <2>1, <2>2, <2>3
<1>2. \A l \in DOMAIN lookups : LookupSource(l).state \in {"PRESENT", "UNAVAILABLE", "MALFORMED", "CONFLICT"}
  BY DEF BucketInv, LookupFits, LookupSource, Failed
<1>3. ASSUME NEW l \in Presented, NEW o \in Presented, KeyOf(l) = KeyOf(o)
      PROVE  LookupSource(l).value = LookupSource(o).value
  <2>1. l \in Described /\ o \in Described /\ LookupSource(l) = lookups[l] /\ LookupSource(o) = lookups[o]
    BY PresentedAreRead DEF Described
  <2>2. lookups[l].value.key = lookups[o].value.key
    BY <1>3, <2>1 DEF KeyOf, KeyAt
  <2>3. LookupSource(l).state = "PRESENT"
    BY DEF Presented
  <2>4. QED
    BY <2>1, <2>2, <2>3 DEF LookupSource, Failed
<1>4. QED
  BY <1>1, <1>2, <1>3 DEF LookupsAreKnown

LEMMA EdgesAreExpectedHolds == EdgesAreExpected
<1> SUFFICES ASSUME NEW l \in DOMAIN lookups
             PROVE  EdgeTargets(l) = ExpectedTargets(l)
  BY DEF EdgesAreExpected
<1>1. \A o \in Presented : KeyOf(o) = KeyAt(lookups[o].value.key, o.region)
  BY PresentedAreRead DEF KeyOf
<1>2. CASE l \in Presented
  <2>1. EdgeTargets(l) = {KeyOf(l)}
    BY <1>2 DEF EdgeTargets
  <2>2. {o \in Presented : o = l \/ /\ l \notin Presented /\ l.reference.form = "arn"
                                    /\ o.region = l.region
                                    /\ lookups[o].value.key = l.reference.key} = {l}
    BY <1>2
  <2>3. QED
    BY <2>1, <2>2, <1>1, <1>2 DEF ExpectedTargets
<1>3. CASE l \notin Presented
  <2> DEFINE Same(o) == l.reference.form = "arn" /\ o.region = l.region /\ lookups[o].value.key = l.reference.key
  <2>1. EdgeTargets(l) = {k \in KeyResources : l.reference.form = "arn" /\ k = KeyAt(l.reference.key, l.region)}
    BY <1>3 DEF EdgeTargets
  <2>2. \A o \in Presented : o # l /\ (KeyOf(o) = KeyAt(l.reference.key, l.region) <=>
           o.region = l.region /\ lookups[o].value.key = l.reference.key)
    BY <1>1, <1>3 DEF KeyAt
  <2>3. {o \in Presented : o = l \/ /\ l \notin Presented /\ l.reference.form = "arn"
                                    /\ o.region = l.region
                                    /\ lookups[o].value.key = l.reference.key} = {o \in Presented : Same(o)}
    BY <1>3, <2>2
  <2>4. ExpectedTargets(l) = {KeyAt(lookups[o].value.key, o.region) : o \in {o \in Presented : Same(o)}}
    BY <2>3 DEF ExpectedTargets
  <2>5. ASSUME NEW k
        PROVE  k \in EdgeTargets(l) <=> k \in ExpectedTargets(l)
    <3>1. k \in EdgeTargets(l) <=>
            \E o \in Presented : k = KeyOf(o) /\ l.reference.form = "arn" /\ k = KeyAt(l.reference.key, l.region)
      BY <2>1 DEF KeyResources
    <3>2. k \in ExpectedTargets(l) <=> \E o \in Presented : Same(o) /\ k = KeyOf(o)
      BY <2>4, <1>1
    <3>3. QED
      BY <3>1, <3>2, <2>2
  <2>6. QED
    BY <2>5
<1>4. QED
  BY <1>2, <1>3

LEMMA SubjectsArePresentHolds ==
  ASSUME BucketInv, stage = "done", \A b \in AdmittedNames : ~Orphaned(b)
  PROVE  SubjectsArePresent
<1>1. ASSUME NEW b \in AdmittedNames
      PROVE  LocationSubjects(b) \subseteq InventoriedBuckets
  <2>1. CASE b \in Located
    BY <2>1 DEF LocationSubjects, InventoriedBuckets, EvidenceResources
  <2>2. CASE b \notin Located /\ LocationState(b) = "RESOURCE_DISAPPEARED"
    <3>1. HasResource(b)
      BY <2>2, <1>1, LocationIsIdentifiedHolds DEF LocationIsIdentified
    <3>2. LegacyStatus = "SUCCEEDED"
      BY <2>2, <3>1 DEF Orphaned
    <3>3. ResourceOf(b) \in LegacyResources
      BY <3>1, <3>2 DEF LegacyResources, HasResource
    <3>4. QED
      BY <2>2, <3>3 DEF LocationSubjects, InventoriedBuckets
  <2>3. QED
    BY <2>1, <2>2 DEF LocationSubjects
<1>2. ASSUME NEW l \in DOMAIN lookups
      PROVE  LookupSubjects(l) \subseteq InventoriedBuckets \cup KeyResources
  <2>1. CASE l \in Presented
    BY <2>1 DEF LookupSubjects, KeyResources
  <2>2. CASE l \notin Presented
    <3>1. AskedFor(l) \subseteq Located
      BY DEF AskedFor
    <3>2. LookupSubjects(l) \subseteq EvidenceResources
      BY <2>2, <3>1 DEF LookupSubjects, EvidenceResources
    <3>3. QED
      BY <3>2 DEF InventoriedBuckets
  <2>3. QED
    BY <2>1, <2>2
<1>3. UNION {LocationSubjects(b) : b \in AdmittedNames} \subseteq InventoriedBuckets
  BY <1>1
<1>4. UNION {LookupSubjects(l) : l \in DOMAIN lookups} \subseteq InventoriedBuckets \cup KeyResources
  BY <1>2
<1>5. QED
  <2> DEFINE A == UNION {LocationSubjects(b) : b \in AdmittedNames}
             B == UNION {LookupSubjects(l) : l \in DOMAIN lookups}
  <2>1. SubjectsArePresent <=> A \cup B \subseteq InventoriedBuckets \cup KeyResources
    BY Zenon DEF SubjectsArePresent
  <2> HIDE DEF A, B
  <2>2. QED
    BY <1>3, <1>4, <2>1 DEF A, B

LEMMA ResourcesAreAdmittedHolds ==
  ASSUME BucketInv, stage = "done"
  PROVE  ResourcesAreAdmitted
<1>1. ASSUME NEW r \in InventoriedBuckets, r.id \in Located
      PROVE  r.region = DirectRegion(records[r.id])
  <2>1. CASE r \in LegacyResources
    <3>1. PICK b \in Seen : HasResource(b) /\ r = ResourceOf(b)
      BY <2>1 DEF LegacyResources
    <3>2. r.id = b /\ r.region = LegacyRegion(records[b])
      BY <3>1 DEF ResourceOf, BucketAt
    <3>3. QED
      BY <3>1, <3>2, <1>1, LocationIs DEF HasResource
  <2>2. CASE r \in EvidenceResources
    BY <2>2 DEF EvidenceResources, BucketAt
  <2>3. QED
    BY <2>1, <2>2 DEF InventoriedBuckets
<1>2. ASSUME NEW k \in KeyResources
      PROVE  \E l \in Presented : k \in EdgeTargets(l) /\ AskedFor(l) # {}
  <2>1. PICK l \in Presented : k = KeyOf(l)
    BY DEF KeyResources
  <2>2. l \in DOMAIN lookups
    BY PresentedAreRead
  <2>3. PICK b \in Located : l \in Wanted(records[b])
    BY <2>2, LookupsAreKnownHolds DEF LookupsAreKnown
  <2>4. b \in AskedFor(l)
    BY <2>3 DEF AskedFor
  <2>5. QED
    BY <2>1, <2>4 DEF EdgeTargets
<1>3. QED
  BY <1>1, <1>2 DEF ResourcesAreAdmitted

LEMMA RollUpAgreesHolds ==
  ASSUME BucketInv, stage = "done"
  PROVE  RollUpAgrees
<1> SUFFICES ASSUME \A state \in SourceStates : state \in {"PRESENT", "EXPECTED_ABSENCE"}
             PROVE  DiscoveryState = "PRESENT" /\ AdmittedNames \subseteq Located
  BY DEF RollUpAgrees
<1>1. DiscoveryState \in SourceStates /\ \A b \in AdmittedNames : LocationState(b) \in SourceStates
  BY DEF SourceStates
<1>2. DiscoveryState # "EXPECTED_ABSENCE"
  BY DEF DiscoveryState, Failed
<1>3. ASSUME NEW b \in AdmittedNames
      PROVE  b \in Located
  BY <1>1, LocationIsIdentifiedHolds DEF LocationIsIdentified
<1>4. QED
  BY <1>1, <1>2, <1>3

LEMMA OnlyOrphansRefuseHolds == BucketInv => OnlyOrphansRefuse
<1> SUFFICES ASSUME BucketInv, stage = "done", \A b \in AdmittedNames : ~Orphaned(b)
             PROVE  Accepted
  BY DEF OnlyOrphansRefuse
<1>1. ListingIsWhole /\ \A b \in AdmittedNames : LocationIsIdentified(b)
  BY ListingIsWholeHolds, LocationIsIdentifiedHolds
<1>2. account.state \in AllowedStates("block") /\ \A b \in Located : EnrichmentIsAllowed(Record(b))
  BY AccountIsAllowed, EnrichmentHolds
<1>3. LookupsAreKnown /\ EdgesAreExpected /\ SubjectsArePresent
  BY LookupsAreKnownHolds, EdgesAreExpectedHolds, SubjectsArePresentHolds
<1>4. ResourcesAreAdmitted /\ RollUpAgrees
  BY ResourcesAreAdmittedHolds, RollUpAgreesHolds
<1>5. QED
  BY <1>1, <1>2, <1>3, <1>4 DEF Accepted

\* A graph of the S3 collectors is refused only when a bucket vanished between its listing
\* and its location while the older collector had already failed.
THEOREM OnlyOrphansAreRefused == BucketSpec => []OnlyOrphansRefuse
BY BucketInvAlways, OnlyOrphansRefuseHolds, PTL

-----------------------------------------------------------------------------
(* Buckets: the verdicts                                                   *)

\* A bucket that was seen and that nobody touched still has the settings it was asked for.
LEMMA SeenAreThere ==
  ASSUME BucketInv, stage = "done", NEW b \in Seen \ spoiled
  PROVE  b \in Buckets /\ cloud[b] # Missing /\ AreBucketSettings(cloud[b])
<1>1. b \in Buckets
  BY DEF Seen
<1>2. PICK i \in Summaries : Items[i].name = b
  BY DEF BucketInv, RecordFits
<1>3. cloud[b] # Missing
  BY <1>2 DEF BucketInv, ListingFits, ItemFits, Summaries
<1>4. cloud[b] \in BucketSettings
  BY <1>1, <1>3 DEF BucketInv, BucketTypes
<1>5. QED
  BY <1>1, <1>3, <1>4, SettingsAreTyped

\* What the record of such a bucket says of it.
RecordIsTrue(b) ==
  LET s == cloud[b]
      q == Record(b)
  IN /\ DirectRegion(records[b]) = s.region
     /\ Usable(q.tags) => q.tags.value = s.tags
     /\ Usable(q.block) => q.block.value = BlockOf(s.block)
     /\ q.policy.state = "PRESENT" => q.policy.value = s.policy /\ s.policy # Missing
     /\ q.policy.state = "EXPECTED_ABSENCE" => s.policy = Missing
     /\ Usable(q.policy_status) => (q.policy_status.value.public <=> s.policy = "public")
     /\ q.acl.state \in {"PRESENT", "CONFLICT"} => q.acl.value = EffectiveGrants(s)
     /\ q.encryption.state = "PRESENT" => q.encryption.value = s.encryption /\ s.encryption # Missing
     /\ q.encryption.state = "EXPECTED_ABSENCE" => s.encryption = Missing

LEMMA RecordsAreTrue ==
  ASSUME BucketInv, stage = "done", NEW b \in Located \ spoiled
  PROVE  RecordIsTrue(b)
<1> DEFINE r == records[b]
           q == Record(b)
           s == cloud[b]
<1>1. /\ b \in Seen /\ DirectRegion(r) # Missing /\ DOMAIN r = Range(Calls)
      /\ \A call \in EnrichmentCalls : SourceShape(call, r[call])
      /\ EnrichmentCalls = {"tags", "encryption", "block", "policy", "policy_status", "acl",
                            "versioning", "ownership"}
  BY LocatedShapes
<1>2. /\ \A call \in {"tags", "block", "versioning", "ownership"} : q[call] = r[call]
      /\ q.policy = IF PoliciesDiffer(r) THEN Contradictory(r.policy) ELSE r.policy
      /\ q.policy_status = IF PoliciesDiffer(r) THEN Contradictory(r.policy_status) ELSE r.policy_status
      /\ q.acl = IF AclDiffers(r) THEN Contradictory(r.acl) ELSE r.acl
      /\ q.encryption = IF ReferenceIsBad(r) THEN [r.encryption EXCEPT !.state = "MALFORMED"] ELSE r.encryption
  BY <1>1, SettledRecord DEF Record
<1>3. \A call \in Range(Calls) : r[call] # Missing => AnswerIsTrue(b, call, r[call])
  BY <1>1, SeenAreFinished DEF Finished
<1>4. \A call \in EnrichmentCalls : Usable(r[call]) => r[call] = Said(s, call)
  <2>1. EnrichmentCalls \subseteq Range(Calls) /\ \A call \in EnrichmentCalls : r[call] # Missing
    BY <1>1, SeenAreFinished DEF Finished, EnrichmentCalls
  <2>2. QED
    BY <2>1, <1>3 DEF AnswerIsTrue
<1> HIDE DEF r, q, s
<1> USE DEF Usable, Present, Absent
<1>5. DirectRegion(r) = s.region
  <2>1. "location" \in Range(Calls) /\ r.location # Missing
    BY <1>1, SeenAreFinished, CallNames DEF Finished, r
  <2>2. DirectRegion(r) = Stated(r.location) /\ r.location.state = "PRESENT"
    BY <1>1 DEF DirectRegion, Stated
  <2>3. r.location = Said(s, "location")
    BY <2>1, <2>2, <1>3 DEF AnswerIsTrue, s
  <2>4. r.location.value = s.region
    BY <2>3 DEF Said
  <2>5. QED
    BY <2>1, <2>2, <2>4 DEF Stated, Answered
<1>6. Usable(q.tags) => q.tags.value = s.tags
  <2>1. Said(s, "tags").value = s.tags
    BY DEF Said
  <2>2. QED
    BY <2>1, <1>1, <1>2, <1>4
<1>7. Usable(q.block) => q.block.value = BlockOf(s.block)
  <2>1. Said(s, "block").value = BlockOf(s.block)
    BY DEF Said, Retaining, Optional, BlockOf
  <2>2. QED
    BY <2>1, <1>1, <1>2, <1>4
<1>8. /\ q.policy.state = "PRESENT" => q.policy.value = s.policy /\ s.policy # Missing
      /\ q.policy.state = "EXPECTED_ABSENCE" => s.policy = Missing
  <2>1. Said(s, "policy") = Optional(s.policy, Missing)
    BY DEF Said
  <2>2. SourceShape("policy", r.policy)
    BY <1>1
  <2>3. Usable(q.policy) => q.policy = r.policy
    BY <2>2, <1>2, SourcesAreRecords
  <2>4. Usable(q.policy) => q.policy = Optional(s.policy, Missing)
    BY <2>1, <2>3, <1>1, <1>4
  <2>5. QED
    BY <2>4 DEF Optional
<1>9. Usable(q.policy_status) => (q.policy_status.value.public <=> s.policy = "public")
  <2>1. Said(s, "policy_status") = IF s.policy = Missing THEN Absent([present |-> FALSE, public |-> FALSE])
                                   ELSE Present([present |-> TRUE, public |-> s.policy = "public"])
    BY DEF Said
  <2>2. SourceShape("policy_status", r.policy_status)
    BY <1>1
  <2>3. Usable(q.policy_status) => q.policy_status = r.policy_status
    BY <2>2, <1>2, SourcesAreRecords
  <2>4. Usable(q.policy_status) => q.policy_status = Said(s, "policy_status")
    BY <2>3, <1>1, <1>4
  <2>5. CASE s.policy = Missing
    BY <2>1, <2>4, <2>5, MissingAssumption
  <2>6. CASE s.policy # Missing
    <3>1. PICK p \in BOOLEAN : p <=> s.policy = "public"
      OBVIOUS
    <3>2. Said(s, "policy_status") = Present([present |-> TRUE, public |-> p])
      BY <2>1, <2>6, <3>1
    <3>3. Usable(q.policy_status) => q.policy_status.value.public = p
      BY <2>4, <3>2
    <3>4. QED
      BY <3>1, <3>3
  <2>7. QED
    BY <2>5, <2>6
<1>10. q.acl.state \in {"PRESENT", "CONFLICT"} => q.acl.value = EffectiveGrants(s)
  <2>1. Said(s, "acl") = Present(EffectiveGrants(s))
    BY DEF Said
  <2>2. SourceShape("acl", r.acl)
    BY <1>1
  <2>3. Contradictory(r.acl).value = r.acl.value
    BY <2>2, SourcesAreRecords
  <2>4. r.acl.state # "CONFLICT"
    BY <2>2 DEF SourceShape
  <2>5. q.acl.state \in {"PRESENT", "CONFLICT"} => Usable(r.acl) /\ q.acl.value = r.acl.value
    BY <2>3, <2>4, <1>2 DEF AclDiffers
  <2>6. QED
    BY <2>1, <2>5, <1>1, <1>4
<1>11. /\ q.encryption.state = "PRESENT" => q.encryption.value = s.encryption /\ s.encryption # Missing
       /\ q.encryption.state = "EXPECTED_ABSENCE" => s.encryption = Missing
  <2>1. Said(s, "encryption") = Retaining(Optional(s.encryption, Missing))
    BY DEF Said
  <2>2. SourceShape("encryption", r.encryption)
    BY <1>1
  <2>3. Usable(q.encryption) => q.encryption = r.encryption
    BY <2>2, <1>2, SourcesAreRecords
  <2>4. Usable(q.encryption) => q.encryption = Retaining(Optional(s.encryption, Missing))
    BY <2>1, <2>3, <1>1, <1>4
  <2>5. QED
    BY <2>4 DEF Optional, Retaining
<1>12. QED
  BY <1>5, <1>6, <1>7, <1>8, <1>9, <1>10, <1>11 DEF RecordIsTrue, r, q, s

-----------------------------------------------------------------------------
(* Buckets: control by control                                             *)

\* What is known of the flags is so.
LEMMA FlagsAreTrue ==
  ASSUME BucketInv, stage = "done", NEW b \in Located \ spoiled
  PROVE  /\ FlagsOn(b) \subseteq InForce(cloud[b])
         /\ FlagsOff(b) \cap InForce(cloud[b]) = {}
         /\ FlagsOff(b) \subseteq Flags /\ InForce(cloud[b]) \subseteq Flags
<1>1. Usable(Record(b).block) => Record(b).block.value = BlockOf(cloud[b].block)
  BY RecordsAreTrue DEF RecordIsTrue
<1>2. Usable(account) => account.value = BlockOf(shield)
  BY DEF BucketInv, AccountFits, Usable, Optional, Present, Absent, Failed, BlockOf
<1>3. b \in Seen
  BY DEF Located
<1>4. cloud[b].block \in PublicBlocks /\ shield \in PublicBlocks
  BY <1>3, SeenAreThere DEF AreBucketSettings, BucketForms, BucketInv, BucketTypes
<1>5. BlockOf(cloud[b].block) \subseteq Flags /\ BlockOf(shield) \subseteq Flags
  BY <1>4 DEF PublicBlocks, BlockOf
<1>6. FlagsOn(b) \subseteq InForce(cloud[b])
  BY <1>1, <1>2 DEF FlagsOn, UsableFlags, InForce
<1>7. FlagsOff(b) \cap InForce(cloud[b]) = {}
  BY <1>1, <1>2 DEF FlagsOff, FlagsOn, UsableFlags, InForce
<1>8. QED
  BY <1>5, <1>6, <1>7 DEF InForce, FlagsOff

\* S3-001
LEMMA BlockResultIsTrue ==
  ASSUME BucketInv, stage = "done", NEW b \in Located \ spoiled
  PROVE  /\ BlockResult(b) = "PASS" => InForce(cloud[b]) = Flags
         /\ BlockResult(b) = "FAIL" => InForce(cloud[b]) # Flags
BY FlagsAreTrue DEF BlockResult

\* S3-003
LEMMA TransportResultIsTrue ==
  ASSUME BucketInv, stage = "done", NEW b \in Located \ spoiled
  PROVE  /\ TransportResult(b) = "PASS" => cloud[b].policy = "deny"
         /\ TransportResult(b) = "FAIL" => cloud[b].policy # "deny"
<1>1. /\ Record(b).policy.state = "PRESENT" => Record(b).policy.value = cloud[b].policy
      /\ Record(b).policy.state = "EXPECTED_ABSENCE" => cloud[b].policy = Missing
  BY RecordsAreTrue DEF RecordIsTrue
<1>2. QED
  BY <1>1, MissingAssumption DEF TransportResult

\* S3-004
LEMMA SensitiveResultIsTrue ==
  ASSUME BucketInv, stage = "done", NEW b \in Located \ spoiled
  PROVE  /\ SensitiveResult(b) = "PASS" => HasUsableKey(cloud[b])
         /\ SensitiveResult(b) = "FAIL" => ~HasUsableKey(cloud[b])
         /\ SensitiveResult(b) # "INSUFFICIENT" => (SensitiveResult(b) # "N/A" <=> IsSensitive(b))
<1> DEFINE q == Record(b)
           s == cloud[b]
<1>1. /\ DirectRegion(records[b]) = s.region
      /\ Usable(q.tags) => q.tags.value = s.tags
      /\ q.encryption.state = "PRESENT" => q.encryption.value = s.encryption /\ s.encryption # Missing
      /\ q.encryption.state = "EXPECTED_ABSENCE" => s.encryption = Missing
  BY RecordsAreTrue DEF RecordIsTrue
<1>2. ASSUME NEW reference, KeyIsProven(b, reference)
      PROVE  KeyRegion[reference.key] = s.region
  <2> DEFINE l == [region |-> LookupRegion(reference, DirectRegion(records[b])), reference |-> reference]
  <2>1. l \in Presented /\ l.region = s.region
    BY <1>1, <1>2 DEF KeyIsProven
  <2>2. l \in DOMAIN lookups /\ lookups[l].state = "PRESENT"
    BY <2>1, PresentedAreRead
  <2>3. KeyRegion[l.reference.key] = l.region
    BY <2>2 DEF BucketInv, LookupFits
  <2>4. QED
    BY <2>1, <2>3
<1>3. DefaultKeyResult(b) \in {"PASS", "FAIL", "INSUFFICIENT"}
  BY DEF DefaultKeyResult
<1>4. DefaultKeyResult(b) = "FAIL" => ~HasUsableKey(s)
  BY <1>1 DEF DefaultKeyResult, HasUsableKey
<1>5. ASSUME DefaultKeyResult(b) = "PASS"
      PROVE  HasUsableKey(s)
  <2>1. /\ q.encryption.state = "PRESENT" /\ q.encryption.value.algorithm = "kms"
        /\ ReferenceOf(q.encryption.value) = Missing \/ KeyIsProven(b, ReferenceOf(q.encryption.value))
    BY <1>5 DEF DefaultKeyResult
  <2>2. QED
    BY <1>1, <1>2, <2>1 DEF HasUsableKey, ReferenceOf
<1>6. /\ Sensitivity(b) = "sensitive" => IsSensitive(b)
      /\ Sensitivity(b) = "harmless" => ~IsSensitive(b)
      /\ Sensitivity(b) \in {"sensitive", "harmless", "unknown"}
  <2>1. Declared[b] \in {"sensitive", "harmless", "neither"}
    BY ControlsAssumption DEF Located, Seen
  <2>2. QED
    BY <1>1, <2>1 DEF Sensitivity, IsSensitive
<1>7. QED
  BY <1>3, <1>4, <1>5, <1>6 DEF SensitiveResult

LEMMA CombinedIs ==
  ASSUME NEW channels
  PROVE  /\ Combined(channels) = "UNAPPROVED" => "UNAPPROVED" \in channels
         /\ Combined(channels) \in {"NONE", "APPROVED"} => "UNAPPROVED" \notin channels /\ "UNKNOWN" \notin channels
         /\ Combined(channels) \in {"UNAPPROVED", "UNKNOWN", "APPROVED", "NONE"}
BY DEF Combined

\* Whom the policy of a bucket opens it to.
PolicyOpens(s) ==
  (IF s.policy = "public" /\ "restrict" \notin InForce(s) THEN {"everyone"} ELSE {})
  \cup (IF s.policy = "external" THEN {"partner"} ELSE {})

LEMMA PolicyChannelIsTrue ==
  ASSUME BucketInv, stage = "done", NEW b \in Located \ spoiled
  PROVE  /\ PolicyChannel(b) \in {"NONE", "APPROVED"} => PolicyOpens(cloud[b]) \subseteq Approvals[b]
         /\ PolicyChannel(b) = "UNAPPROVED" => ~(PolicyOpens(cloud[b]) \subseteq Approvals[b])
<1> DEFINE q == Record(b)
           s == cloud[b]
           body == q.policy
           status == q.policy_status
           public == status.value.public
           tokens == PolicyTokens(b, body.value) \cup (IF public THEN {Grant(b, "everyone")} ELSE {})
           right == /\ PolicyChannel(b) \in {"NONE", "APPROVED"} => PolicyOpens(s) \subseteq Approvals[b]
                    /\ PolicyChannel(b) = "UNAPPROVED" => ~(PolicyOpens(s) \subseteq Approvals[b])
<1>1. /\ body.state = "PRESENT" => body.value = s.policy /\ s.policy # Missing
      /\ body.state = "EXPECTED_ABSENCE" => s.policy = Missing
      /\ Usable(status) => (public <=> s.policy = "public")
  BY RecordsAreTrue DEF RecordIsTrue
<1>2. FlagsOn(b) \subseteq InForce(s) /\ FlagsOff(b) \cap InForce(s) = {}
  BY FlagsAreTrue
<1>3. s.policy \in {"public", "external", "odd", "deny", Missing}
  BY SeenAreThere DEF Located, AreBucketSettings, BucketForms
<1>4. CASE "CONFLICT" \in {body.state, status.state} \/ ~Usable(status)
  BY <1>4 DEF PolicyChannel
<1>5. CASE ~("CONFLICT" \in {body.state, status.state} \/ ~Usable(status)) /\ body.state = "EXPECTED_ABSENCE"
  <2>1. s.policy = Missing /\ ~public
    BY <1>1, <1>5, MissingAssumption
  <2>2. PolicyChannel(b) = "NONE"
    BY <1>5, <2>1 DEF PolicyChannel
  <2>3. PolicyOpens(s) = {}
    BY <2>1, MissingAssumption DEF PolicyOpens
  <2>4. QED
    BY <2>2, <2>3
<1> DEFINE read == ~("CONFLICT" \in {body.state, status.state} \/ ~Usable(status)) /\ body.state # "EXPECTED_ABSENCE"
<1>6. CASE read /\ public /\ "restrict" \in FlagsOff(b) /\ "everyone" \notin Approvals[b]
  <2>1. PolicyChannel(b) = "UNAPPROVED"
    BY <1>6 DEF PolicyChannel
  <2>2. "everyone" \in PolicyOpens(s)
    BY <1>1, <1>2, <1>6 DEF PolicyOpens
  <2>3. QED
    BY <1>6, <2>1, <2>2
<1>7. CASE read /\ ~(public /\ "restrict" \in FlagsOff(b) /\ "everyone" \notin Approvals[b])
  <2>1. CASE body.state # "PRESENT"
    BY <1>7, <2>1 DEF PolicyChannel
  <2>2. CASE body.state = "PRESENT" /\ public /\ "restrict" \in FlagsOn(b)
    <3>1. PolicyChannel(b) = "NONE"
      BY <1>7, <2>2 DEF PolicyChannel
    <3>2. PolicyOpens(s) = {}
      BY <1>1, <1>2, <1>7, <2>2 DEF PolicyOpens
    <3>3. QED
      BY <3>1, <3>2
  <2>3. CASE body.state = "PRESENT" /\ public /\ "restrict" \notin FlagsOn(b) /\ "restrict" \notin FlagsOff(b)
    BY <1>7, <2>3 DEF PolicyChannel
  <2>4. CASE body.state = "PRESENT" /\ (public => "restrict" \in FlagsOff(b) /\ "restrict" \notin FlagsOn(b))
    <3>1. PolicyChannel(b) = Combined(tokens)
      BY <1>7, <2>4 DEF PolicyChannel
    <3>2. body.value = s.policy /\ (public <=> s.policy = "public")
      BY <1>1, <1>7, <2>4
    <3>3. CASE s.policy = "public"
      <4>1. tokens = {Grant(b, "everyone")}
        BY <3>2, <3>3 DEF PolicyTokens
      <4>2. PolicyOpens(s) = {"everyone"}
        BY <1>2, <2>4, <3>2, <3>3 DEF PolicyOpens
      <4>3. QED
        BY <3>1, <4>1, <4>2, CombinedIs DEF Grant
    <3>4. CASE s.policy = "external"
      <4>1. tokens \in {{Grant(b, "partner")}, {"UNKNOWN"}}
        BY <3>2, <3>4 DEF PolicyTokens
      <4>2. PolicyOpens(s) = {"partner"}
        BY <3>4 DEF PolicyOpens
      <4>3. QED
        BY <3>1, <4>1, <4>2, CombinedIs DEF Grant
    <3>5. CASE s.policy = "odd"
      <4>1. tokens = {"UNKNOWN"}
        BY <3>2, <3>5 DEF PolicyTokens
      <4>2. QED
        BY <3>1, <4>1, CombinedIs
    <3>6. CASE s.policy = "deny"
      <4>1. tokens = {}
        BY <3>2, <3>6, Zenon DEF PolicyTokens
      <4>2. PolicyOpens(s) = {}
        BY <3>6 DEF PolicyOpens
      <4>3. QED
        BY <3>1, <4>1, <4>2, CombinedIs
    <3>7. QED
      BY <1>1, <1>3, <2>4, <3>3, <3>4, <3>5, <3>6
  <2>5. QED
    BY <2>1, <2>2, <2>3, <2>4
<1>8. QED
  BY <1>4, <1>5, <1>6, <1>7

LEMMA AclChannelIsTrue ==
  ASSUME BucketInv, stage = "done", NEW b \in Located \ spoiled
  PROVE  /\ AclChannel(b) \in {"NONE", "APPROVED"} => EffectiveGrants(cloud[b]) \ {"owner"} \subseteq Approvals[b]
         /\ AclChannel(b) = "UNAPPROVED" => ~(EffectiveGrants(cloud[b]) \ {"owner"} \subseteq Approvals[b])
<1> DEFINE q == Record(b)
           grants == EffectiveGrants(cloud[b]) \ {"owner"}
           Told(grantee) == IF grantee = "everyone" /\ "ignore" \in FlagsOn(b) THEN "UNKNOWN" ELSE Grant(b, grantee)
           channels == {Told(grantee) : grantee \in q.acl.value \ {"owner"}}
<1>1. AclIsRead(q) => q.acl.value = EffectiveGrants(cloud[b])
  BY RecordsAreTrue DEF RecordIsTrue, AclIsRead
<1>2. CASE ~AclIsRead(q) \/ OwnershipConflict(q)
  BY <1>2 DEF AclChannel
<1>3. CASE AclIsRead(q) /\ ~OwnershipConflict(q)
  <2>1. AclChannel(b) = Combined(channels)
    BY <1>3 DEF AclChannel
  <2>2. \A grantee \in grants : Told(grantee) \in channels
    BY <1>1, <1>3
  <2>3. "UNAPPROVED" \in channels => \E grantee \in grants : grantee \notin Approvals[b]
    BY <1>1, <1>3 DEF Grant
  <2>4. \A grantee \in grants : grantee \in Approvals[b] \/ Told(grantee) \in {"UNKNOWN", "UNAPPROVED"}
    BY DEF Grant
  <2>5. "UNAPPROVED" \notin channels /\ "UNKNOWN" \notin channels => grants \subseteq Approvals[b]
    BY <2>2, <2>4
  <2> HIDE DEF channels
  <2>6. QED
    BY <2>1, <2>3, <2>5, CombinedIs
<1>4. QED
  BY <1>2, <1>3

\* S3-002
LEMMA ExposureResultIsTrue ==
  ASSUME BucketInv, stage = "done", NEW b \in Located \ spoiled
  PROVE  /\ ExposureResult(b) = "PASS" => OpenTo(cloud[b]) \subseteq Approvals[b]
         /\ ExposureResult(b) = "FAIL" => ~(OpenTo(cloud[b]) \subseteq Approvals[b])
<1> DEFINE exposure == Combined({PolicyChannel(b), AclChannel(b)})
           grants == EffectiveGrants(cloud[b]) \ {"owner"}
<1>1. OpenTo(cloud[b]) = PolicyOpens(cloud[b]) \cup grants
  BY DEF OpenTo, PolicyOpens
<1>2. PolicyChannel(b) \in {"UNAPPROVED", "UNKNOWN", "APPROVED", "NONE"}
  BY CombinedIs DEF PolicyChannel
<1>3. AclChannel(b) \in {"UNAPPROVED", "UNKNOWN", "APPROVED", "NONE"}
  BY CombinedIs DEF AclChannel
<1>4. ASSUME ExposureResult(b) = "PASS"
      PROVE  OpenTo(cloud[b]) \subseteq Approvals[b]
  <2>1. exposure # "UNKNOWN" /\ exposure # "UNAPPROVED"
    BY <1>4 DEF ExposureResult
  <2>2. exposure \in {"NONE", "APPROVED"}
    BY <2>1, CombinedIs
  <2>3. PolicyChannel(b) \in {"NONE", "APPROVED"} /\ AclChannel(b) \in {"NONE", "APPROVED"}
    BY <2>2, <1>2, <1>3, CombinedIs
  <2>4. QED
    BY <2>3, <1>1, PolicyChannelIsTrue, AclChannelIsTrue
<1>5. ASSUME ExposureResult(b) = "FAIL"
      PROVE  ~(OpenTo(cloud[b]) \subseteq Approvals[b])
  <2>1. exposure = "UNAPPROVED"
    BY <1>5 DEF ExposureResult
  <2>2. PolicyChannel(b) = "UNAPPROVED" \/ AclChannel(b) = "UNAPPROVED"
    BY <2>1, CombinedIs
  <2>3. QED
    BY <2>2, <1>1, PolicyChannelIsTrue, AclChannelIsTrue
<1>6. QED
  BY <1>4, <1>5

\* The older collector succeeds only if nothing stopped it.
LEMMA LegacySuccess ==
  ASSUME BucketInv, stage = "done", LegacyStatus = "SUCCEEDED"
  PROVE  /\ ListingErrors = {}
         /\ \A i \in Summaries : FirstStop(Settled(records[Items[i].name])) = Missing
<1> DEFINE stopping == {i \in DOMAIN Items : ItemStop(i) # Missing}
<1>1. stopping = {} /\ listing.error = Missing
  <2>1. CASE stopping # {}
    BY <2>1 DEF LegacyStatus
  <2>2. CASE stopping = {} /\ listing.error # Missing
    <3>1. LegacyStatus = Failed(listing.error).stops
      BY <2>2 DEF LegacyStatus
    <3>2. Failed(listing.error).stops \in {"FAILED", "PARTIAL"}
      BY DEF Failed
    <3>3. QED
      BY <3>1, <3>2
  <2>3. QED
    BY <2>1, <2>2
<1>2. \A i \in DOMAIN Items : ItemStop(i) = Missing
  BY <1>1
<1>3. ASSUME NEW i \in DOMAIN Items, i \notin Legible \/ i \in Contradictions
      PROVE  i \in Summaries
  BY <1>2, <1>3, MissingAssumption DEF ItemStop
<1>4. Summaries \cap Contradictions = {} /\ Summaries \subseteq Legible
  BY DEF Summaries, Contradictions
<1>5. Legible = DOMAIN Items /\ Contradictions = {}
  BY <1>3, <1>4 DEF Legible, Contradictions
<1>6. ListingErrors = {}
  BY <1>1, <1>5 DEF ListingErrors
<1>7. ASSUME NEW i \in Summaries
      PROVE  FirstStop(Settled(records[Items[i].name])) = Missing
  <2>1. i \in DOMAIN Items
    BY DEF Summaries, Legible
  <2>2. QED
    BY <2>1, <1>2 DEF ItemStop
<1>8. QED
  BY <1>6, <1>7

\* None of the calls of the older collector stopped it in this bucket.
LEMMA UnstoppedBucket ==
  ASSUME BucketInv, stage = "done", NEW b \in Seen, FirstStop(Record(b)) = Missing
  PROVE  /\ LegacyRegion(records[b]) # Missing
         /\ records[b].encryption # Missing /\ records[b].encryption.stops = Missing
         /\ Record(b).encryption # Missing /\ Record(b).encryption.raw = records[b].encryption.raw
<1> DEFINE r == records[b]
           q == Record(b)
<1>1. Finished(b)
  BY SeenAreFinished
<1>2. /\ DOMAIN r = Range(Calls) /\ {"region", "tags", "encryption", "block"} \subseteq Range(Calls)
      /\ r.region # Missing
  BY <1>1, CallNames DEF Finished
<1>3. /\ q.region = r.region
      /\ q.encryption = IF DirectRegion(r) # Missing /\ ReferenceIsBad(r)
                        THEN [r.encryption EXCEPT !.state = "MALFORMED"] ELSE r.encryption
  BY <1>2, SettledRecord DEF Record
<1>4. q.region.stops = Missing /\ StopsOf(q.encryption) = Missing
  <2>1. q.region.stops = Missing
    BY DEF FirstStop
  <2>2. StopsOf(q.tags) = Missing
    BY <2>1 DEF FirstStop
  <2>3. QED
    BY <2>1, <2>2 DEF FirstStop
<1>5. q.encryption # Missing /\ q.encryption.stops = Missing
  BY <1>4, MissingAssumption DEF StopsOf, Answered
<1>6. SourceShape("region", r.region)
  BY <1>1, <1>2 DEF Finished
<1>7. LegacyRegion(r) # Missing
  BY <1>2, <1>3, <1>4, <1>6 DEF LegacyRegion, Stated, SourceShape, Usable, Answered
<1>8. r.encryption # Missing
  <2>1. CASE DirectRegion(r) # Missing
    BY <2>1, <1>1, CallNames DEF Finished, EnrichmentCalls
  <2>2. CASE DirectRegion(r) = Missing
    BY <2>2, <1>3, <1>5
  <2>3. QED
    BY <2>1, <2>2
<1>9. SourceShape("encryption", r.encryption)
  BY <1>1, <1>2, <1>8 DEF Finished
<1>10. q.encryption.raw = r.encryption.raw /\ q.encryption.stops = r.encryption.stops
  BY <1>3, <1>9, SourcesAreRecords
<1>11. QED
  BY <1>5, <1>7, <1>8, <1>10

\* S3-900
LEMMA LegacyResultIsTrue ==
  ASSUME BucketInv, stage = "done", NEW b \in Seen \ spoiled, FirstStop(Record(b)) = Missing
  PROVE  /\ LegacyResult(b) = "PASS" => cloud[b].encryption # Missing
         /\ LegacyResult(b) = "FAIL" => cloud[b].encryption = Missing
<1>1. /\ records[b].encryption # Missing /\ records[b].encryption.stops = Missing
      /\ Record(b).encryption # Missing /\ Record(b).encryption.raw = records[b].encryption.raw
  BY UnstoppedBucket
<1>2. AnswerIsTrue(b, "encryption", records[b].encryption)
  BY <1>1, SeenAreFinished, CallNames DEF Finished
<1>3. Said(cloud[b], "encryption").raw = cloud[b].encryption
  BY DEF Said, Retaining, Optional, Present, Absent
<1>4. DefaultEncryption(b) = cloud[b].encryption
  BY <1>1, <1>2, <1>3 DEF DefaultEncryption, AnswerIsTrue, Answered
<1>5. QED
  BY <1>4 DEF LegacyResult

\* The buckets of the graph were seen.
LEMMA InventoriedAreSeen ==
  ASSUME NEW r \in InventoriedBuckets
  PROVE  r.id \in Seen
<1>1. CASE r \in LegacyResources
  BY <1>1 DEF LegacyResources, ResourceOf, BucketAt
<1>2. CASE r \in EvidenceResources
  BY <1>2 DEF EvidenceResources, BucketAt, Located
<1>3. QED
  BY <1>1, <1>2 DEF InventoriedBuckets

\* The summaries are those of the buckets that were seen.
LEMMA SeenStops ==
  ASSUME BucketInv, stage = "done", LegacyStatus = "SUCCEEDED", NEW b \in Seen
  PROVE  FirstStop(Record(b)) = Missing
<1>1. PICK i \in Summaries : Items[i].name = b
  BY DEF BucketInv, RecordFits
<1>2. QED
  BY <1>1, LegacySuccess DEF Record

LEMMA VerdictsAre ==
  ASSUME NEW v \in BucketVerdicts
  PROVE  /\ stage = "done" /\ v.control \in BucketControlIds /\ v.target \in BucketTargets(v.control)
         /\ v.result = BucketVerdict(v.control, v.target)
<1> DEFINE Of(c) == {[control |-> c, target |-> t, result |-> BucketVerdict(c, t)] : t \in BucketTargets(c)}
<1>1. stage = "done" /\ v \in UNION {Of(c) : c \in BucketControlIds}
  BY DEF BucketVerdicts
<1>2. PICK c \in BucketControlIds : v \in Of(c)
  <2> HIDE DEF Of
  <2>1. QED
    BY <1>1
<1>3. PICK t \in BucketTargets(c) : v = [control |-> c, target |-> t, result |-> BucketVerdict(c, t)]
  BY <1>2
<1>4. v.control = c /\ v.target = t /\ v.result = BucketVerdict(c, t)
  BY <1>3
<1>5. QED
  BY <1>1, <1>3, <1>4

LEMMA BucketVerdictsAreTrueHolds == BucketInv => BucketVerdictsAreTrue
<1> SUFFICES ASSUME BucketInv, NEW v \in BucketVerdicts, v.target \in Buckets \ spoiled
             PROVE  /\ v.result = "PASS" => Meant(v.control, v.target)
                    /\ v.result = "FAIL" => ~Meant(v.control, v.target)
                    /\ v.control = "S3-004" /\ v.result # "INSUFFICIENT" =>
                         (v.result # "N/A" <=> IsSensitive(v.target))
  BY DEF BucketVerdictsAreTrue
<1> DEFINE b == v.target
<1>1. stage = "done" /\ v.control \in BucketControlIds /\ b \in BucketTargets(v.control)
      /\ v.result = BucketVerdict(v.control, b)
  BY VerdictsAre
<1>2. b # Missing
  BY MissingAssumption
<1>3. b \in Seen
  BY <1>1, <1>2, InventoriedAreSeen DEF BucketTargets
<1>4. CASE ~Proven(v.control, b)
  BY <1>1, <1>4 DEF BucketVerdict
<1>5. CASE Proven(v.control, b)
  <2>1. v.result = BucketResult(v.control, b)
    BY <1>1, <1>2, <1>5 DEF BucketVerdict
  <2>2. v.control # "S3-900" => b \in Located \ spoiled
    BY <1>2, <1>5 DEF Proven
  <2>3. CASE v.control = "S3-001"
    <3>1. v.result = BlockResult(b) /\ (Meant(v.control, b) <=> InForce(cloud[b]) = Flags)
      BY <2>1, <2>3 DEF BucketResult, Meant
    <3>2. QED
      BY <2>2, <2>3, <3>1, <1>1, BlockResultIsTrue
  <2>4. CASE v.control = "S3-002"
    <3>1. v.result = ExposureResult(b) /\ (Meant(v.control, b) <=> OpenTo(cloud[b]) \subseteq Approvals[b])
      BY <2>1, <2>4 DEF BucketResult, Meant
    <3>2. QED
      BY <2>2, <2>4, <3>1, <1>1, ExposureResultIsTrue
  <2>5. CASE v.control = "S3-003"
    <3>1. v.result = TransportResult(b) /\ (Meant(v.control, b) <=> cloud[b].policy = "deny")
      BY <2>1, <2>5 DEF BucketResult, Meant
    <3>2. QED
      BY <2>2, <2>5, <3>1, <1>1, TransportResultIsTrue
  <2>6. CASE v.control = "S3-004"
    <3>1. v.result = SensitiveResult(b) /\ (Meant(v.control, b) <=> HasUsableKey(cloud[b]))
      BY <2>1, <2>6 DEF BucketResult, Meant
    <3>2. QED
      BY <2>2, <2>6, <3>1, <1>1, SensitiveResultIsTrue
  <2>7. CASE v.control = "S3-900"
    <3>1. v.result = LegacyResult(b) /\ (Meant(v.control, b) <=> cloud[b].encryption # Missing)
      BY <2>1, <2>7 DEF BucketResult, Meant
    <3>2. FirstStop(Record(b)) = Missing
      BY <1>1, <1>3, <1>5, <2>7, SeenStops DEF Proven
    <3>3. QED
      BY <2>7, <3>1, <3>2, <1>1, <1>3, LegacyResultIsTrue
  <2>8. QED
    BY <1>1, <2>3, <2>4, <2>5, <2>6, <2>7 DEF BucketControlIds
<1>6. QED
  BY <1>4, <1>5

\* PASS and FAIL of each S3 control are what an untouched bucket deserves, whatever AWS
\* refused and whatever else changed during the scan.
THEOREM BucketVerdictsStand == BucketSpec => []BucketVerdictsAreTrue
BY BucketInvAlways, BucketVerdictsAreTrueHolds, PTL

LEMMA NoBucketIsOverlookedHolds == BucketInv => NoBucketIsOverlooked
<1> SUFFICES ASSUME BucketInv, NEW v \in BucketVerdicts, v.result # "INSUFFICIENT",
                    NEW b \in Buckets \ spoiled, cloud[b] # Missing
             PROVE  \E o \in BucketVerdicts : o.control = v.control /\ o.target = b
  BY DEF NoBucketIsOverlooked
<1> DEFINE c == v.control
           ids == {r.id : r \in InventoriedBuckets}
<1>1. /\ stage = "done" /\ Accepted /\ c \in BucketControlIds
      /\ v.result = BucketVerdict(c, v.target)
  BY VerdictsAre DEF BucketVerdicts
<1>2. Proven(c, v.target)
  BY <1>1 DEF BucketVerdict
<1>3. ListingErrors = {} => b \in AdmittedNames
  <2>1. ASSUME ListingErrors = {}
        PROVE  b \in AdmittedNames
    <3>1. ListingFits
      BY <1>1 DEF BucketInv
    <3>2. PICK i \in Summaries : Items[i].name = b
      BY <2>1, <3>1 DEF ListingFits
    <3>3. Contradictions = {}
      BY <2>1 DEF ListingErrors
    <3>4. QED
      BY <3>2, <3>3 DEF AdmittedNames, Blocked
  <2>2. QED
    BY <2>1
<1>4. b \in ids /\ (c = "S3-900" => LegacyStatus = "SUCCEEDED")
  <2>1. CASE c = "S3-900"
    <3>1. LegacyStatus = "SUCCEEDED"
      BY <1>2, <2>1 DEF Proven
    <3>2. b \in AdmittedNames
      BY <3>1, <1>1, <1>3, LegacySuccess
    <3>3. b \in Seen
      BY <3>2, <1>1, AdmittedAreSeen
    <3>4. HasResource(b)
      BY <3>1, <3>2, <3>3, <1>1, SeenStops, UnstoppedBucket DEF HasResource
    <3>5. ResourceOf(b) \in InventoriedBuckets /\ ResourceOf(b).id = b
      BY <3>1, <3>3, <3>4 DEF InventoriedBuckets, LegacyResources, ResourceOf, BucketAt
    <3>6. QED
      BY <3>1, <3>5
  <2>2. CASE c # "S3-900"
    <3>1. PopulationProven
      BY <1>2, <2>2 DEF Proven
    <3>2. ListingErrors = {}
      BY <3>1 DEF PopulationProven, DiscoveryState, Failed
    <3>3. QED
      BY <2>2, <3>1, <3>2, <1>3 DEF PopulationProven
  <2>3. QED
    BY <2>1, <2>2
<1>5. b \in BucketTargets(c)
  BY <1>4 DEF BucketTargets
<1> DEFINE o == [control |-> c, target |-> b, result |-> BucketVerdict(c, b)]
<1>6. o \in UNION {{[control |-> d, target |-> t, result |-> BucketVerdict(d, t)] :
                    t \in BucketTargets(d)} : d \in BucketControlIds}
  BY <1>1, <1>5
<1>7. o \in BucketVerdicts
  BY <1>1, <1>6 DEF BucketVerdicts
<1>8. QED
  BY <1>7

\* No control concludes anything while an untouched bucket of the account is without its
\* verdict.
THEOREM BucketsAreNotOverlooked == BucketSpec => []NoBucketIsOverlooked
BY BucketInvAlways, NoBucketIsOverlookedHolds, PTL
=================================================================================
