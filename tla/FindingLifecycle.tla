-------------------------- MODULE FindingLifecycle --------------------------
(***************************************************************************)
(* Findings, as persist_scan_result reconciles them with the assessments of *)
(* scans that finish in any order, and as operators dispose of them.        *)
(*                                                                         *)
(* A scan's transaction locks its resources one after the other, reads the  *)
(* history under the locks, and publishes everything when it commits; it    *)
(* may roll back at any moment.  A disposition needs one lock only and is   *)
(* one step.  What a scan observed is fixed when its transaction begins.    *)
(***************************************************************************)
EXTENDS Integers, FiniteSets

CONSTANTS
  Scans,
  Resources,        \* numbers: the order of NormalizedResource.identity
  Keys,             \* finding fingerprints: a resource and a control
  ResourceOf,       \* the resource of each key
  ObservedAt,       \* collected_at of each scan's inventory
  Manual,           \* dispositions an operator may choose, "OPEN" among them
  NoScan, Null

ASSUME LifecycleAssumption ==
  /\ IsFiniteSet(Scans)
  /\ Resources \subseteq Nat /\ IsFiniteSet(Resources)
  /\ ResourceOf \in [Keys -> Resources]
  /\ ObservedAt \in [Scans -> Nat]
  /\ "OPEN" \in Manual
  /\ "none" \notin Manual /\ "RESOLVED" \notin Manual
  /\ NoScan \notin Scans
  /\ Null \notin Nat

VARIABLES
  bundle,     \* [complete, covers, result] of each scan
  txn,        \* where the transaction of each scan stands
  holder,     \* the scan that holds the row lock of each resource
  staged,     \* uncommitted findings of each scan
  finding     \* committed findings

vars == <<bundle, txn, holder, staged, finding>>

Absent == [status |-> "none", first |-> Null, last |-> Null, resolved |-> Null]
NoBundle == [complete |-> FALSE, covers |-> {}, result |-> [k \in Keys |-> "NONE"]]
Nothing == [k \in Keys |-> Absent]

Init ==
  /\ bundle = [s \in Scans |-> NoBundle]
  /\ txn = [s \in Scans |-> "idle"]
  /\ holder = [r \in Resources |-> NoScan]
  /\ staged = [s \in Scans |-> Nothing]
  /\ finding = Nothing

-----------------------------------------------------------------------------
(* The decisive history of a key                                           *)

Committed == {s \in Scans : txn[s] \in {"COMPLETED", "PARTIAL"}}
Completed == {s \in Scans : txn[s] = "COMPLETED"}

\* The scans among S in which k failed, or passed.
Failed(k, S) == {s \in S : bundle[s].result[k] = "FAIL"}
Passed(k, S) == {s \in S : bundle[s].result[k] = "PASS"}

\* When they were observed.
FailTimes(k, S) == {ObservedAt[s] : s \in Failed(k, S)}
PassTimes(k, S) == {ObservedAt[s] : s \in Passed(k, S)}

Earliest(T) == CHOOSE t \in T : \A u \in T : t <= u
Latest(T) == CHOOSE t \in T : \A u \in T : u <= t

\* The latest decisive assessment is a PASS; a FAIL wins a tie.
PassDecides(fails, passes) == \E p \in passes : \A f \in fails : f < p

\* The finding of k after a decisive assessment, given what it was.
Reconciled(was, fails, passes) ==
  IF PassDecides(fails, passes)
  THEN [status |-> "RESOLVED", first |-> Earliest(fails), last |-> Latest(fails),
        resolved |-> Latest(passes)]
  ELSE [status |-> IF was.status \in Manual THEN was.status ELSE "OPEN",
        first |-> Earliest(fails), last |-> Latest(fails), resolved |-> Null]

\* Mutant of Eligible: a PASS of a scan with an incomplete scope counts.
EligibleAny(s) == Completed \cup {s}

\* Scans whose PASS may resolve, seen from the transaction of s.
Eligible(s) == IF bundle[s].complete THEN Completed \cup {s} ELSE Completed

\* _reconcile_finding: no decisive assessment changes nothing, and a PASS
\* opens no finding.
After(s, k) ==
  LET own == bundle[s].result[k]
  IN  IF own = "NONE" \/ (finding[k].status = "none" /\ own = "PASS")
      THEN finding[k]
      ELSE Reconciled(finding[k], FailTimes(k, Committed \cup {s}), PassTimes(k, Eligible(s)))

-----------------------------------------------------------------------------
(* The transaction of a scan                                               *)

Bundles == [complete : BOOLEAN, covers : (SUBSET Resources) \ {{}},
            result : [Keys -> {"PASS", "FAIL", "NONE"}]]

\* Only resources of the inventory are assessed.
BeginScan(s) ==
  /\ txn[s] = "idle"
  /\ \E b \in Bundles :
       /\ \A k \in Keys : ResourceOf[k] \notin b.covers => b.result[k] = "NONE"
       /\ bundle' = [bundle EXCEPT ![s] = b]
  /\ txn' = [txn EXCEPT ![s] = "locking"]
  /\ UNCHANGED <<holder, staged, finding>>

Missing(s) == {r \in bundle[s].covers : holder[r] # s}

\* Mutant of Wants: resources are locked in the order they were collected.
WantsAny(s) == Missing(s)

\* The resource the scan locks next.
Wants(s) == {r \in Missing(s) : \A q \in Missing(s) : r <= q}

LockResource(s) ==
  /\ txn[s] = "locking"
  /\ \E r \in Wants(s) :
       /\ holder[r] = NoScan
       /\ holder' = [holder EXCEPT ![r] = s]
  /\ UNCHANGED <<bundle, txn, staged, finding>>

\* All assessments are recorded and every finding reconciled, uncommitted.
Reconcile(s) ==
  /\ txn[s] = "locking"
  /\ Missing(s) = {}
  /\ staged' = [staged EXCEPT ![s] = [k \in Keys |-> After(s, k)]]
  /\ txn' = [txn EXCEPT ![s] = "reconciled"]
  /\ UNCHANGED <<bundle, holder, finding>>

Unlocked(s) == [r \in Resources |-> IF holder[r] = s THEN NoScan ELSE holder[r]]

\* What the scan wrote: the findings of the keys it decides.
Writes(s) == {k \in Keys : bundle[s].result[k] # "NONE"}

CommitScan(s) ==
  /\ txn[s] = "reconciled"
  /\ finding' = [k \in Keys |-> IF k \in Writes(s) THEN staged[s][k] ELSE finding[k]]
  /\ txn' = [txn EXCEPT ![s] = IF bundle[s].complete THEN "COMPLETED" ELSE "PARTIAL"]
  /\ holder' = Unlocked(s)
  /\ staged' = [staged EXCEPT ![s] = Nothing]
  /\ UNCHANGED bundle

\* Nothing of the transaction remains; fail_pending_scan ends the scan.
RollBack(s) ==
  /\ txn[s] \in {"locking", "reconciled"}
  /\ txn' = [txn EXCEPT ![s] = "FAILED"]
  /\ holder' = Unlocked(s)
  /\ staged' = [staged EXCEPT ![s] = Nothing]
  /\ bundle' = [bundle EXCEPT ![s] = NoBundle]
  /\ UNCHANGED finding

-----------------------------------------------------------------------------
(* set_finding_disposition                                                 *)

\* Mutant of Dispose: the finding is read without its resource lock.
DisposeUnlocked(k) ==
  /\ finding[k].status \in Manual
  /\ \E d \in Manual : finding' = [finding EXCEPT ![k].status = d]
  /\ UNCHANGED <<bundle, txn, holder, staged>>

\* An open finding only; its dates and a resolution stay technical.
Dispose(k) ==
  /\ holder[ResourceOf[k]] = NoScan
  /\ finding[k].status \in Manual
  /\ \E d \in Manual : finding' = [finding EXCEPT ![k].status = d]
  /\ UNCHANGED <<bundle, txn, holder, staged>>

Next ==
  \/ \E s \in Scans : \/ BeginScan(s) \/ LockResource(s) \/ Reconcile(s)
                      \/ CommitScan(s) \/ RollBack(s)
  \/ \E k \in Keys : Dispose(k)

Spec == Init /\ [][Next]_vars

-----------------------------------------------------------------------------
(* Properties                                                              *)

\* Rows that the CHECK constraints of the findings table admit.
Rows ==
  {f \in [status : Manual \cup {"none", "RESOLVED"}, first : Nat \cup {Null},
          last : Nat \cup {Null}, resolved : Nat \cup {Null}] :
     IF f.status = "none" THEN f = Absent
     ELSE /\ f.first \in Nat /\ f.last \in Nat /\ f.last >= f.first
          /\ (f.status = "RESOLVED") <=> (f.resolved # Null)
          /\ f.resolved # Null => f.resolved >= f.last}

\* Values of the tables and the transactions; every row a transaction stages
\* passes the constraints of its table, so that no scan fails on them.
TypeOK ==
  /\ bundle \in [Scans -> [complete : BOOLEAN, covers : SUBSET Resources,
                           result : [Keys -> {"PASS", "FAIL", "NONE"}]]]
  /\ txn \in [Scans -> {"idle", "locking", "reconciled", "COMPLETED", "PARTIAL", "FAILED"}]
  /\ holder \in [Resources -> Scans \cup {NoScan}]
  /\ staged \in [Scans -> [Keys -> Rows]]
  /\ finding \in [Keys -> Rows]

\* p passed, was observed after every failure, and not before any other pass.
Clears(p, fails, passes) ==
  /\ \A f \in fails : ObservedAt[f] < ObservedAt[p]
  /\ \A q \in passes : ObservedAt[q] <= ObservedAt[p]

\* The finding f is what these failures and passes say.
Fits(f, fails, passes) ==
  IF fails = {} THEN f = Absent
  ELSE /\ \A s \in fails : f.first <= ObservedAt[s] /\ ObservedAt[s] <= f.last
       /\ \E s, t \in fails : f.first = ObservedAt[s] /\ f.last = ObservedAt[t]
       /\ \/ /\ f.status = "RESOLVED"
             /\ \E p \in passes : Clears(p, fails, passes) /\ f.resolved = ObservedAt[p]
          \/ /\ f.status \in Manual /\ f.resolved = Null
             /\ \A p \in passes : ~Clears(p, fails, passes)

\* Every finding agrees with all the evidence committed about it, in whatever
\* order the scans finished: it exists once its control failed, it is resolved
\* exactly when the latest decisive observation is a PASS of a complete scan,
\* and its dates are the extremes of its failures.
FindingsMatchHistory ==
  \A k \in Keys : Fits(finding[k], Failed(k, Committed), Passed(k, Completed))

\* A scan that commits keeps the disposition an operator chose, unless it
\* resolves the finding: it never writes back a status it read before.
ScansKeepDispositions ==
  [][txn' # txn =>
       \A k \in Keys : finding[k].status \in Manual =>
         finding'[k].status \in {finding[k].status, "RESOLVED"}]_vars

\* A resolved finding reopens only when a failure commits that was observed no
\* earlier than the PASS that resolved it.
ReopenNeedsNewerFail ==
  [][\A k \in Keys : finding[k].status = "RESOLVED" /\ finding'[k].status # "RESOLVED" =>
       finding'[k].last >= finding[k].resolved]_vars

\* "A stable lock order prevents opposing multi-resource scans from
\* deadlocking": while a scan waits for a lock, some scan can go on.
ScansNeverDeadlock ==
  (\E s \in Scans : txn[s] = "locking") =>
    \E s \in Scans : \/ txn[s] = "reconciled"
                     \/ /\ txn[s] = "locking"
                        /\ \A r \in Wants(s) : holder[r] = NoScan
=============================================================================
