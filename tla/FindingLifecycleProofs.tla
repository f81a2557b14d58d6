----------------------- MODULE FindingLifecycleProofs -----------------------
(***************************************************************************)
(* Proofs about FindingLifecycle, for any scans, resources, keys and        *)
(* observation times.  The strengthening says what the row locks give: a    *)
(* scan that reconciled holds every resource it assessed, so that what it   *)
(* staged is still what the committed history and its own results say.      *)
(***************************************************************************)
EXTENDS FindingLifecycle, FiniteSetTheorems, WellFoundedInduction, TLAPS

-----------------------------------------------------------------------------
(* Extremes of finite sets                                                 *)

\* A number attached to the members of a finite set has a greatest value.
LEMMA SomeGreatest ==
  ASSUME NEW S, IsFiniteSet(S), S # {}, NEW f \in [S -> Nat]
  PROVE  \E m \in S : \A s \in S : f[s] <= f[m]
<1> DEFINE Above(m) == {s \in S : f[s] > f[m]}
           T == {Above(m) : m \in S}
<1>1. IsWellFoundedOn(StrictSubsetOrdering(S), SUBSET S)
  BY FS_StrictSubsetOrderingWellFounded, FS_FiniteSubsetsOfFinite
<1>2. T \subseteq SUBSET S /\ T # {}
  <2>1. \A m \in S : Above(m) \subseteq S
    OBVIOUS
  <2> HIDE DEF Above
  <2> QED
    BY <2>1
<1> HIDE DEF T
<1>3. PICK x \in T : \A y \in T : ~ (<<y, x>> \in StrictSubsetOrdering(S))
  BY <1>1, <1>2, WFMin
<1>4. PICK m \in S : x = Above(m)
  BY <1>3 DEF T
<1>5. ASSUME NEW u \in Above(m) PROVE FALSE
  <2>1. Above(u) \in T
    BY DEF T
  <2>2. Above(u) \subseteq Above(m) /\ u \notin Above(u)
    BY <1>4
  <2>3. <<Above(u), x>> \in StrictSubsetOrdering(S)
    BY <1>4, <1>5, <2>2 DEF StrictSubsetOrdering
  <2> QED
    BY <1>3, <2>1, <2>3
<1> QED
  BY <1>5

\* It has a least value.
LEMMA SomeLeast ==
  ASSUME NEW S, IsFiniteSet(S), S # {}, NEW f \in [S -> Nat]
  PROVE  \E m \in S : \A s \in S : f[m] <= f[s]
<1> DEFINE Below(m) == {s \in S : f[s] < f[m]}
           T == {Below(m) : m \in S}
<1>1. IsWellFoundedOn(StrictSubsetOrdering(S), SUBSET S)
  BY FS_StrictSubsetOrderingWellFounded, FS_FiniteSubsetsOfFinite
<1>2. T \subseteq SUBSET S /\ T # {}
  <2>1. \A m \in S : Below(m) \subseteq S
    OBVIOUS
  <2> HIDE DEF Below
  <2> QED
    BY <2>1
<1> HIDE DEF T
<1>3. PICK x \in T : \A y \in T : ~ (<<y, x>> \in StrictSubsetOrdering(S))
  BY <1>1, <1>2, WFMin
<1>4. PICK m \in S : x = Below(m)
  BY <1>3 DEF T
<1>5. ASSUME NEW u \in Below(m) PROVE FALSE
  <2>1. Below(u) \in T
    BY DEF T
  <2>2. Below(u) \subseteq Below(m) /\ u \notin Below(u)
    BY <1>4
  <2>3. <<Below(u), x>> \in StrictSubsetOrdering(S)
    BY <1>4, <1>5, <2>2 DEF StrictSubsetOrdering
  <2> QED
    BY <1>3, <2>1, <2>3
<1> QED
  BY <1>5

\* The observation times of some scans have a first and a last.
LEMMA Extremes ==
  ASSUME NEW S \in SUBSET Scans, S # {}
  PROVE  LET T == {ObservedAt[s] : s \in S}
         IN  /\ T \subseteq Nat
             /\ Earliest(T) \in T /\ \A t \in T : Earliest(T) <= t
             /\ Latest(T) \in T /\ \A t \in T : t <= Latest(T)
<1> DEFINE T == {ObservedAt[s] : s \in S}
           f == [s \in S |-> ObservedAt[s]]
<1>1. IsFiniteSet(S) /\ f \in [S -> Nat] /\ T \subseteq Nat
  BY FS_Subset, LifecycleAssumption
<1> HIDE DEF f
<1>2. PICK m \in S : \A s \in S : f[m] <= f[s]
  BY <1>1, SomeLeast
<1>3. PICK n \in S : \A s \in S : f[s] <= f[n]
  BY <1>1, SomeGreatest
<1>4. \A t \in T : ObservedAt[m] <= t /\ t <= ObservedAt[n]
  BY <1>2, <1>3 DEF f
<1>5. Earliest(T) \in T /\ \A t \in T : Earliest(T) <= t
  <2>1. ObservedAt[m] \in T
    OBVIOUS
  <2> HIDE DEF T
  <2> QED
    BY <1>4, <2>1 DEF Earliest
<1>6. Latest(T) \in T /\ \A t \in T : t <= Latest(T)
  <2>1. ObservedAt[n] \in T
    OBVIOUS
  <2> HIDE DEF T
  <2> QED
    BY <1>4, <2>1 DEF Latest
<1> QED
  BY <1>1, <1>5, <1>6

-----------------------------------------------------------------------------
(* Reconciling a finding                                                   *)

\* _reconcile_finding computes a row that the constraints admit.
LEMMA ReconciledRow ==
  ASSUME NEW was, NEW fails \in SUBSET Scans, fails # {}, NEW passes \in SUBSET Scans
  PROVE  Reconciled(was, {ObservedAt[s] : s \in fails}, {ObservedAt[s] : s \in passes}) \in Rows
<1> DEFINE F == {ObservedAt[s] : s \in fails}
           P == {ObservedAt[s] : s \in passes}
<1>1. /\ F \subseteq Nat /\ Earliest(F) \in F /\ Latest(F) \in F
      /\ \A t \in F : Earliest(F) <= t /\ t <= Latest(F)
  BY Extremes
<1>2. Earliest(F) \in Nat /\ Latest(F) \in Nat /\ Earliest(F) <= Latest(F)
  BY <1>1
<1>3. CASE PassDecides(F, P)
  <2>1. passes # {}
    BY <1>3 DEF PassDecides
  <2>2. P \subseteq Nat /\ Latest(P) \in P /\ \A t \in P : t <= Latest(P)
    BY <2>1, Extremes
  <2>3. Latest(P) \in Nat /\ Latest(F) <= Latest(P)
    <3> HIDE DEF F, P
    <3>1. PICK p \in P : \A s \in F : s < p
      BY <1>3 DEF PassDecides
    <3>2. Latest(F) < p /\ p <= Latest(P) /\ p \in Nat /\ Latest(P) \in Nat
      BY <1>1, <2>2, <3>1
    <3> QED
      BY <1>2, <3>2
  <2> HIDE DEF F, P
  <2>4. Reconciled(was, F, P) = [status |-> "RESOLVED", first |-> Earliest(F),
                                 last |-> Latest(F), resolved |-> Latest(P)]
    BY <1>3 DEF Reconciled
  <2>5. Reconciled(was, F, P) \in Rows
    BY <1>2, <2>3, <2>4, LifecycleAssumption DEF Rows
  <2> QED
    BY <2>5 DEF F, P
<1>4. CASE ~PassDecides(F, P)
  <2> DEFINE kept == IF was.status \in Manual THEN was.status ELSE "OPEN"
  <2>1. kept \in Manual
    BY LifecycleAssumption
  <2>2. Reconciled(was, F, P) = [status |-> kept, first |-> Earliest(F),
                                 last |-> Latest(F), resolved |-> Null]
    BY <1>4 DEF Reconciled
  <2> HIDE DEF F, P, kept
  <2>3. Reconciled(was, F, P) \in Rows
    BY <1>2, <2>1, <2>2, LifecycleAssumption DEF Rows
  <2> QED
    BY <2>3 DEF F, P
<1> QED
  BY <1>3, <1>4

\* It computes what the failures and passes it is given say.
LEMMA ReconciledFits ==
  ASSUME NEW was, NEW fails \in SUBSET Scans, fails # {}, NEW passes \in SUBSET Scans
  PROVE  Fits(Reconciled(was, {ObservedAt[s] : s \in fails}, {ObservedAt[s] : s \in passes}),
              fails, passes)
<1> DEFINE F == {ObservedAt[s] : s \in fails}
           P == {ObservedAt[s] : s \in passes}
           new == Reconciled(was, F, P)
<1>1. /\ Earliest(F) \in F /\ Latest(F) \in F
      /\ \A t \in F : Earliest(F) <= t /\ t <= Latest(F)
  BY Extremes
<1>2. new.first = Earliest(F) /\ new.last = Latest(F)
  BY DEF Reconciled
<1>3. /\ \A s \in fails : new.first <= ObservedAt[s] /\ ObservedAt[s] <= new.last
      /\ \E s, t \in fails : new.first = ObservedAt[s] /\ new.last = ObservedAt[t]
  <2> HIDE DEF new
  <2> QED
    BY <1>1, <1>2
<1>4. CASE PassDecides(F, P)
  <2>1. passes # {}
    BY <1>4 DEF PassDecides
  <2>2. P \subseteq Nat /\ Latest(P) \in P /\ \A t \in P : t <= Latest(P)
    BY <2>1, Extremes
  <2>3. PICK p \in passes : Latest(P) = ObservedAt[p]
    BY <2>2
  <2>4. Clears(p, fails, passes)
    <3>1. \A q \in passes : ObservedAt[q] <= ObservedAt[p]
      BY <2>2, <2>3
    <3>2. PICK q \in passes : \A s \in fails : ObservedAt[s] < ObservedAt[q]
      BY <1>4 DEF PassDecides
    <3> QED
      BY <3>1, <3>2, LifecycleAssumption DEF Clears
  <2>5. new.status = "RESOLVED" /\ new.resolved = Latest(P)
    BY <1>4 DEF Reconciled
  <2> HIDE DEF new
  <2>6. Fits(new, fails, passes)
    BY <1>3, <2>3, <2>4, <2>5 DEF Fits
  <2> QED
    BY <2>6 DEF new
<1>5. CASE ~PassDecides(F, P)
  <2>1. \A p \in passes : ~Clears(p, fails, passes)
    BY <1>5 DEF PassDecides, Clears
  <2>2. new.status \in Manual /\ new.resolved = Null
    BY <1>5, LifecycleAssumption DEF Reconciled
  <2> HIDE DEF new
  <2>3. Fits(new, fails, passes)
    BY <1>3, <2>1, <2>2 DEF Fits
  <2> QED
    BY <2>3 DEF new
<1> QED
  BY <1>4, <1>5

-----------------------------------------------------------------------------
(* The strengthening                                                       *)

\* Only resources of the inventory are assessed.
AssessedCovered ==
  \A s \in Scans, k \in Keys :
    bundle[s].result[k] # "NONE" => ResourceOf[k] \in bundle[s].covers

\* A row lock belongs to a transaction in progress that covers the resource.
LocksHeld ==
  \A r \in Resources : holder[r] # NoScan =>
    /\ r \in bundle[holder[r]].covers
    /\ txn[holder[r]] \in {"locking", "reconciled"}

\* A scan holds smaller resources than those it still waits for.
LockOrder ==
  \A r \in Resources, s \in Scans : holder[r] = s => \A q \in Missing(s) : r < q

AllLocked == \A s \in Scans : txn[s] = "reconciled" => Missing(s) = {}

\* What a scan staged is what it would compute now.
StagedCurrent ==
  \A s \in Scans : txn[s] = "reconciled" =>
    \A k \in Writes(s) : staged[s][k] = After(s, k)

LInv ==
  /\ TypeOK
  /\ AssessedCovered
  /\ LocksHeld
  /\ LockOrder
  /\ AllLocked
  /\ StagedCurrent
  /\ FindingsMatchHistory

\* A scan that is not committed sees the history with its own results, and
\* what it computes fits them.
LEMMA AfterFits ==
  ASSUME TypeOK, FindingsMatchHistory, NEW s \in Scans, NEW k \in Writes(s)
  PROVE  Fits(After(s, k), Failed(k, Committed \cup {s}), Passed(k, Eligible(s)))
<1> DEFINE fails == Failed(k, Committed \cup {s})
           passes == Passed(k, Eligible(s))
<1>1. k \in Keys /\ bundle[s].result[k] \in {"PASS", "FAIL"}
  BY DEF Writes, TypeOK
<1>2. Fits(finding[k], Failed(k, Committed), Passed(k, Completed))
  BY <1>1 DEF FindingsMatchHistory
<1>3. fails \in SUBSET Scans /\ passes \in SUBSET Scans
  BY DEF Failed, Passed, Committed, Eligible, Completed
<1>4. CASE finding[k].status = "none" /\ bundle[s].result[k] = "PASS"
  <2>1. Failed(k, Committed) = {}
    BY <1>2, <1>4, LifecycleAssumption DEF Fits
  <2>2. fails = {}
    BY <1>4, <2>1 DEF Failed
  <2>3. After(s, k) = finding[k] /\ finding[k] = Absent
    BY <1>2, <1>4, <2>1 DEF After, Fits
  <2> QED
    BY <2>2, <2>3 DEF Fits
<1>5. CASE ~(finding[k].status = "none" /\ bundle[s].result[k] = "PASS")
  <2>1. fails # {}
    <3>1. CASE bundle[s].result[k] = "FAIL"
      BY <3>1 DEF Failed
    <3>2. CASE finding[k].status # "none"
      <4>1. Failed(k, Committed) # {}
        BY <1>2, <3>2 DEF Fits, Absent
      <4> QED
        BY <4>1 DEF Failed
    <3> QED
      BY <1>1, <1>5, <3>1, <3>2
  <2>2. After(s, k) = Reconciled(finding[k], {ObservedAt[x] : x \in fails},
                                             {ObservedAt[x] : x \in passes})
    BY <1>1, <1>5 DEF After, FailTimes, PassTimes
  <2> HIDE DEF fails, passes
  <2>3. Fits(After(s, k), fails, passes)
    BY <1>3, <2>1, <2>2, ReconciledFits
  <2> QED
    BY <2>3 DEF fails, passes
<1> QED
  BY <1>4, <1>5

\* What it computes is a row of the table.
LEMMA AfterRow ==
  ASSUME TypeOK, FindingsMatchHistory, NEW s \in Scans, NEW k \in Keys
  PROVE  After(s, k) \in Rows
<1> DEFINE fails == Failed(k, Committed \cup {s})
           passes == Passed(k, Eligible(s))
<1>1. fails \in SUBSET Scans /\ passes \in SUBSET Scans
  BY DEF Failed, Passed, Committed, Eligible, Completed
<1>2. CASE After(s, k) = finding[k]
  BY <1>2 DEF TypeOK
<1>3. CASE After(s, k) # finding[k]
  <2>1. /\ bundle[s].result[k] \in {"PASS", "FAIL"}
        /\ ~(finding[k].status = "none" /\ bundle[s].result[k] = "PASS")
    BY <1>3 DEF After, TypeOK
  <2>2. After(s, k) = Reconciled(finding[k], {ObservedAt[x] : x \in fails},
                                             {ObservedAt[x] : x \in passes})
    BY <1>3 DEF After, FailTimes, PassTimes
  <2>3. fails # {}
    <3>1. CASE bundle[s].result[k] = "FAIL"
      BY <3>1 DEF Failed
    <3>2. CASE finding[k].status # "none"
      <4>1. Failed(k, Committed) # {}
        BY <3>2 DEF FindingsMatchHistory, Fits, Absent
      <4> QED
        BY <4>1 DEF Failed
    <3> QED
      BY <2>1, <3>1, <3>2
  <2> HIDE DEF fails, passes
  <2> QED
    BY <1>1, <2>2, <2>3, ReconciledRow
<1> QED
  BY <1>2, <1>3

\* While the scans that may have changed are not committed, the history of
\* every key stays what it was, for the committed scans and for every other.
LEMMA HistoryKept ==
  ASSUME NEW s \in Scans, txn[s] \notin {"COMPLETED", "PARTIAL"},
         txn'[s] \notin {"COMPLETED", "PARTIAL"},
         \A t \in Scans \ {s} : txn'[t] = txn[t] /\ bundle'[t] = bundle[t]
  PROVE  /\ Committed' = Committed /\ Completed' = Completed
         /\ \A k \in Keys : /\ Failed(k, Committed)' = Failed(k, Committed)
                            /\ Passed(k, Completed)' = Passed(k, Completed)
         /\ \A k \in Keys, x \in Scans \ {s} :
              /\ Failed(k, Committed \cup {x})' = Failed(k, Committed \cup {x})
              /\ Passed(k, Eligible(x))' = Passed(k, Eligible(x))
<1>1. Committed' = Committed /\ Completed' = Completed /\ s \notin Committed /\ Completed \subseteq Committed
  BY DEF Committed, Completed
<1>2. Committed \subseteq Scans
  BY DEF Committed
<1>3. \A k \in Keys, S \in SUBSET (Scans \ {s}) :
        /\ {t \in S : bundle'[t].result[k] = "FAIL"} = {t \in S : bundle[t].result[k] = "FAIL"}
        /\ {t \in S : bundle'[t].result[k] = "PASS"} = {t \in S : bundle[t].result[k] = "PASS"}
  OBVIOUS
<1>4. \A k \in Keys : /\ Failed(k, Committed)' = Failed(k, Committed)
                      /\ Passed(k, Completed)' = Passed(k, Completed)
  BY <1>1, <1>2, <1>3 DEF Failed, Passed
<1>5. ASSUME NEW k \in Keys, NEW x \in Scans \ {s}
      PROVE  /\ Failed(k, Committed \cup {x})' = Failed(k, Committed \cup {x})
             /\ Passed(k, Eligible(x))' = Passed(k, Eligible(x))
  <2>1. Eligible(x)' = Eligible(x) /\ Eligible(x) \subseteq Committed \cup {x}
    BY <1>1 DEF Eligible
  <2>2. Committed \cup {x} \in SUBSET (Scans \ {s}) /\ Eligible(x) \in SUBSET (Scans \ {s})
    BY <1>1, <1>2, <2>1
  <2> QED
    BY <1>1, <1>3, <2>1, <2>2 DEF Failed, Passed
<1> QED
  BY <1>1, <1>4, <1>5

\* After depends on the history of the key, its finding and the scan's results.
LEMMA AfterSame ==
  ASSUME NEW x \in Scans, NEW k \in Keys,
         bundle'[x] = bundle[x], finding'[k] = finding[k],
         Failed(k, Committed \cup {x})' = Failed(k, Committed \cup {x}),
         Passed(k, Eligible(x))' = Passed(k, Eligible(x))
  PROVE  After(x, k)' = After(x, k)
BY DEF After, FailTimes, PassTimes

-----------------------------------------------------------------------------
(* Every action keeps the strengthening                                    *)

LEMMA InitKeeps == Init => LInv
<1> SUFFICES ASSUME Init PROVE LInv
  OBVIOUS
<1>1. Absent \in Rows
  BY LifecycleAssumption DEF Absent, Rows
<1>2. TypeOK
  BY <1>1 DEF Init, TypeOK, NoBundle, Nothing
<1>3. \A k \in Keys : Failed(k, Committed) = {}
  BY DEF Init, Failed, Committed
<1>4. FindingsMatchHistory
  BY <1>3 DEF Init, FindingsMatchHistory, Fits, Nothing
<1>5. AssessedCovered /\ AllLocked /\ StagedCurrent /\ LocksHeld
  BY DEF Init, AssessedCovered, AllLocked, StagedCurrent, LocksHeld, NoBundle
<1>6. LockOrder
  BY LifecycleAssumption DEF Init, LockOrder
<1> QED
  BY <1>2, <1>4, <1>5, <1>6 DEF LInv

LEMMA BeginKeeps ==
  ASSUME LInv, NEW s \in Scans, BeginScan(s)
  PROVE  LInv'
<1>1. PICK b \in Bundles : /\ \A k \in Keys : ResourceOf[k] \notin b.covers => b.result[k] = "NONE"
                           /\ bundle' = [bundle EXCEPT ![s] = b]
  BY DEF BeginScan
<1>2. /\ bundle'[s] = b /\ txn'[s] = "locking" /\ txn[s] = "idle"
      /\ \A x \in Scans \ {s} : txn'[x] = txn[x] /\ bundle'[x] = bundle[x]
      /\ UNCHANGED <<holder, staged, finding>>
  BY <1>1 DEF BeginScan, LInv, TypeOK
<1>3. TypeOK'
  BY <1>1 DEF BeginScan, LInv, TypeOK, Bundles
<1>4. AssessedCovered'
  <2> SUFFICES ASSUME NEW x \in Scans, NEW k \in Keys, bundle'[x].result[k] # "NONE"
               PROVE  ResourceOf[k] \in bundle'[x].covers
    BY DEF AssessedCovered
  <2>1. CASE x = s
    BY <1>1, <1>2, <2>1
  <2>2. CASE x # s
    BY <1>2, <2>2 DEF LInv, AssessedCovered
  <2> QED
    BY <2>1, <2>2
<1>5. \A r \in Resources : holder[r] # s
  <2> SUFFICES ASSUME NEW r \in Resources, holder[r] = s
               PROVE  FALSE
    OBVIOUS
  <2>1. LocksHeld /\ s # NoScan
    BY LifecycleAssumption DEF LInv
  <2>2. txn[s] \in {"locking", "reconciled"}
    BY <2>1 DEF LocksHeld
  <2> QED
    BY <1>2, <2>2
<1>6. LocksHeld'
  BY <1>2, <1>5 DEF LInv, LocksHeld, TypeOK
<1>7. \A x \in Scans \ {s} : Missing(x)' = Missing(x)
  BY <1>2 DEF Missing
<1>8. LockOrder'
  BY <1>2, <1>5, <1>7 DEF LInv, LockOrder
<1>9. AllLocked'
  BY <1>2, <1>7 DEF LInv, AllLocked
<1>10. /\ \A k \in Keys : Failed(k, Committed)' = Failed(k, Committed)
                          /\ Passed(k, Completed)' = Passed(k, Completed)
       /\ \A k \in Keys, x \in Scans \ {s} :
            /\ Failed(k, Committed \cup {x})' = Failed(k, Committed \cup {x})
            /\ Passed(k, Eligible(x))' = Passed(k, Eligible(x))
  BY <1>2, HistoryKept
<1>11. StagedCurrent'
  <2> SUFFICES ASSUME NEW x \in Scans, txn'[x] = "reconciled", NEW k \in Writes(x)'
               PROVE  staged'[x][k] = After(x, k)'
    BY DEF StagedCurrent
  <2>1. x # s /\ txn[x] = "reconciled" /\ k \in Writes(x) /\ k \in Keys
    BY <1>2 DEF Writes
  <2>2. After(x, k)' = After(x, k)
    BY <1>2, <1>10, <2>1, AfterSame
  <2> QED
    BY <1>2, <2>1, <2>2 DEF LInv, StagedCurrent
<1>12. FindingsMatchHistory'
  BY <1>2, <1>10 DEF LInv, FindingsMatchHistory, Fits, Clears
<1> QED
  BY <1>3, <1>4, <1>6, <1>8, <1>9, <1>11, <1>12 DEF LInv

LEMMA LockKeeps ==
  ASSUME LInv, NEW s \in Scans, LockResource(s)
  PROVE  LInv'
<1>1. PICK r \in Wants(s) : holder[r] = NoScan /\ holder' = [holder EXCEPT ![r] = s]
  BY DEF LockResource
<1>2. r \in Resources /\ r \in bundle[s].covers /\ \A q \in Missing(s) : r <= q
  BY <1>1 DEF Wants, Missing, LInv, TypeOK
<1>3. /\ txn[s] = "locking" /\ UNCHANGED <<bundle, txn, staged, finding>>
      /\ holder'[r] = s /\ \A q \in Resources \ {r} : holder'[q] = holder[q]
  BY <1>1, <1>2 DEF LockResource, LInv, TypeOK
<1>4. TypeOK'
  BY <1>1, <1>2, <1>3 DEF LInv, TypeOK
<1>5. AssessedCovered'
  BY <1>3 DEF LInv, AssessedCovered
<1>6. LocksHeld'
  BY <1>2, <1>3 DEF LInv, LocksHeld
<1>7. /\ \A x \in Scans : Missing(x)' \subseteq Missing(x)
      /\ r \notin Missing(s)'
      /\ \A x \in Scans : Missing(x) \subseteq Resources
  BY <1>1, <1>3, LifecycleAssumption DEF Missing, LInv, TypeOK
<1>8. LockOrder'
  <2> SUFFICES ASSUME NEW p \in Resources, NEW x \in Scans, holder'[p] = x,
                      NEW q \in Missing(x)'
               PROVE  p < q
    BY DEF LockOrder
  <2>1. CASE p = r
    BY <1>2, <1>3, <1>7, <2>1, LifecycleAssumption
  <2>2. CASE p # r
    BY <1>3, <1>7, <2>2 DEF LInv, LockOrder
  <2> QED
    BY <2>1, <2>2
<1>9. AllLocked'
  BY <1>3, <1>7 DEF LInv, AllLocked
<1>10. StagedCurrent'
  <2> SUFFICES ASSUME NEW x \in Scans, txn'[x] = "reconciled", NEW k \in Writes(x)'
               PROVE  staged'[x][k] = After(x, k)'
    BY DEF StagedCurrent
  <2>1. Writes(x)' = Writes(x) /\ After(x, k)' = After(x, k)
    BY <1>3 DEF Writes, After, FailTimes, PassTimes, Failed, Passed, Committed, Eligible, Completed
  <2> QED
    BY <1>3, <2>1 DEF LInv, StagedCurrent
<1>11. FindingsMatchHistory'
  BY <1>3 DEF LInv, FindingsMatchHistory, Fits, Clears, Failed, Passed, Committed, Completed
<1> QED
  BY <1>4, <1>5, <1>6, <1>8, <1>9, <1>10, <1>11 DEF LInv

LEMMA ReconcileKeeps ==
  ASSUME LInv, NEW s \in Scans, Reconcile(s)
  PROVE  LInv'
<1>1. /\ txn[s] = "locking" /\ Missing(s) = {} /\ UNCHANGED <<bundle, holder, finding>>
      /\ txn'[s] = "reconciled" /\ \A x \in Scans \ {s} : txn'[x] = txn[x]
      /\ staged'[s] = [k \in Keys |-> After(s, k)]
      /\ \A x \in Scans \ {s} : staged'[x] = staged[x]
  BY DEF Reconcile, LInv, TypeOK
<1>2. TypeOK'
  <2>1. [k \in Keys |-> After(s, k)] \in [Keys -> Rows]
    BY AfterRow DEF LInv
  <2> QED
    BY <2>1 DEF Reconcile, LInv, TypeOK
<1>3. AssessedCovered' /\ LockOrder'
  BY <1>1 DEF LInv, AssessedCovered, LockOrder, Missing
<1>4. LocksHeld'
  BY <1>1 DEF LInv, LocksHeld, TypeOK
<1>5. AllLocked'
  BY <1>1 DEF LInv, AllLocked, Missing
<1>6. Committed' = Committed /\ Completed' = Completed
  BY <1>1 DEF Committed, Completed
<1>7. StagedCurrent'
  <2> SUFFICES ASSUME NEW x \in Scans, txn'[x] = "reconciled", NEW k \in Writes(x)'
               PROVE  staged'[x][k] = After(x, k)'
    BY DEF StagedCurrent
  <2>1. Writes(x)' = Writes(x) /\ After(x, k)' = After(x, k) /\ k \in Keys
    BY <1>1, <1>6 DEF Writes, After, FailTimes, PassTimes, Failed, Passed, Eligible
  <2> QED
    BY <1>1, <2>1 DEF LInv, StagedCurrent
<1>8. FindingsMatchHistory'
  BY <1>1, <1>6 DEF LInv, FindingsMatchHistory, Fits, Clears, Failed, Passed
<1> QED
  BY <1>2, <1>3, <1>4, <1>5, <1>7, <1>8 DEF LInv

\* The resources that another transaction holds stay with it.
LEMMA UnlockedKept ==
  ASSUME LInv, NEW s \in Scans, holder' = Unlocked(s), bundle' = bundle \/ bundle' = [bundle EXCEPT ![s] = NoBundle]
  PROVE  /\ holder' \in [Resources -> Scans \cup {NoScan}]
         /\ \A r \in Resources : holder'[r] # s
         /\ \A r \in Resources : holder'[r] # NoScan => holder'[r] = holder[r]
         /\ \A x \in Scans \ {s} : Missing(x)' = Missing(x)
<1>1. /\ holder' \in [Resources -> Scans \cup {NoScan}]
      /\ \A r \in Resources : holder'[r] = IF holder[r] = s THEN NoScan ELSE holder[r]
  BY DEF Unlocked, LInv, TypeOK
<1>2. \A x \in Scans : bundle[x].covers \subseteq Resources
  BY DEF LInv, TypeOK
<1>3. \A x \in Scans \ {s} : bundle'[x] = bundle[x]
  BY DEF LInv, TypeOK
<1>4. ASSUME NEW x \in Scans \ {s} PROVE Missing(x)' = Missing(x)
  <2>1. \A r \in bundle[x].covers : holder'[r] = x <=> holder[r] = x
    BY <1>1, <1>2, LifecycleAssumption
  <2> QED
    BY <1>3, <2>1 DEF Missing
<1> QED
  BY <1>1, <1>4, LifecycleAssumption

LEMMA RollBackKeeps ==
  ASSUME LInv, NEW s \in Scans, RollBack(s)
  PROVE  LInv'
<1>1. /\ txn[s] \in {"locking", "reconciled"} /\ txn'[s] = "FAILED"
      /\ bundle'[s] = NoBundle
      /\ \A x \in Scans \ {s} : /\ txn'[x] = txn[x] /\ bundle'[x] = bundle[x]
                                /\ staged'[x] = staged[x]
      /\ finding' = finding
  BY DEF RollBack, LInv, TypeOK
<1>2. /\ holder' \in [Resources -> Scans \cup {NoScan}]
      /\ \A r \in Resources : holder'[r] # s
      /\ \A r \in Resources : holder'[r] # NoScan => holder'[r] = holder[r]
      /\ \A x \in Scans \ {s} : Missing(x)' = Missing(x)
  BY UnlockedKept DEF RollBack
<1>3. TypeOK'
  <2>1. Nothing \in [Keys -> Rows] /\ NoBundle \in [complete : BOOLEAN, covers : SUBSET Resources,
                           result : [Keys -> {"PASS", "FAIL", "NONE"}]]
    BY LifecycleAssumption DEF Nothing, Absent, Rows, NoBundle
  <2> QED
    BY <1>2, <2>1 DEF RollBack, LInv, TypeOK
<1>4. AssessedCovered'
  <2> SUFFICES ASSUME NEW x \in Scans, NEW k \in Keys, bundle'[x].result[k] # "NONE"
               PROVE  ResourceOf[k] \in bundle'[x].covers
    BY DEF AssessedCovered
  <2>1. x # s
    BY <1>1 DEF NoBundle
  <2> QED
    BY <1>1, <2>1 DEF LInv, AssessedCovered
<1>5. LocksHeld'
  BY <1>1, <1>2 DEF LInv, LocksHeld, TypeOK
<1>6. LockOrder'
  <2> SUFFICES ASSUME NEW r \in Resources, NEW x \in Scans, holder'[r] = x, NEW q \in Missing(x)'
               PROVE  r < q
    BY DEF LockOrder
  <2>1. x # s /\ holder[r] = x
    BY <1>2, LifecycleAssumption
  <2> QED
    BY <1>2, <2>1 DEF LInv, LockOrder
<1>7. AllLocked'
  BY <1>1, <1>2 DEF LInv, AllLocked
<1>8. /\ \A k \in Keys : Failed(k, Committed)' = Failed(k, Committed)
                         /\ Passed(k, Completed)' = Passed(k, Completed)
      /\ \A k \in Keys, x \in Scans \ {s} :
           /\ Failed(k, Committed \cup {x})' = Failed(k, Committed \cup {x})
           /\ Passed(k, Eligible(x))' = Passed(k, Eligible(x))
  BY <1>1, HistoryKept
<1>9. StagedCurrent'
  <2> SUFFICES ASSUME NEW x \in Scans, txn'[x] = "reconciled", NEW k \in Writes(x)'
               PROVE  staged'[x][k] = After(x, k)'
    BY DEF StagedCurrent
  <2>1. x # s /\ txn[x] = "reconciled" /\ k \in Writes(x) /\ k \in Keys
    BY <1>1 DEF Writes
  <2>2. After(x, k)' = After(x, k)
    BY <1>1, <1>8, <2>1, AfterSame
  <2> QED
    BY <1>1, <2>1, <2>2 DEF LInv, StagedCurrent
<1>10. FindingsMatchHistory'
  BY <1>1, <1>8 DEF LInv, FindingsMatchHistory, Fits, Clears
<1> QED
  BY <1>3, <1>4, <1>5, <1>6, <1>7, <1>9, <1>10 DEF LInv

\* Two reconciled scans write no key in common.
LEMMA WritersApart ==
  ASSUME LInv, NEW s \in Scans, NEW x \in Scans, s # x,
         txn[s] = "reconciled", txn[x] = "reconciled", NEW k \in Writes(x)
  PROVE  bundle[s].result[k] = "NONE"
<1> SUFFICES ASSUME bundle[s].result[k] # "NONE" PROVE FALSE
  OBVIOUS
<1>1. k \in Keys /\ bundle[x].result[k] # "NONE"
  BY DEF Writes
<1>2. ResourceOf[k] \in bundle[s].covers /\ ResourceOf[k] \in bundle[x].covers
  BY <1>1 DEF LInv, AssessedCovered
<1>3. holder[ResourceOf[k]] = s /\ holder[ResourceOf[k]] = x
  BY <1>2 DEF LInv, AllLocked, Missing
<1> QED
  BY <1>3

\* What the commit of s adds to the history of each key.
LEMMA CommitHistory ==
  ASSUME LInv, NEW s \in Scans, CommitScan(s)
  PROVE  /\ Committed' = Committed \cup {s} /\ Completed' = Eligible(s)
         /\ s \notin Committed
         /\ \A k \in Keys : /\ Failed(k, Committed)' = Failed(k, Committed \cup {s})
                            /\ Passed(k, Completed)' = Passed(k, Eligible(s))
<1>1. /\ txn[s] = "reconciled" /\ UNCHANGED bundle
      /\ txn'[s] = IF bundle[s].complete THEN "COMPLETED" ELSE "PARTIAL"
      /\ \A x \in Scans \ {s} : txn'[x] = txn[x]
  BY DEF CommitScan, LInv, TypeOK
<1>2. Committed' = Committed \cup {s} /\ s \notin Committed
  BY <1>1 DEF Committed
<1>3. Completed' = Eligible(s)
  BY <1>1 DEF Completed, Eligible
<1> QED
  BY <1>1, <1>2, <1>3 DEF Failed, Passed

LEMMA CommitKeeps ==
  ASSUME LInv, NEW s \in Scans, CommitScan(s)
  PROVE  LInv'
<1>1. /\ txn[s] = "reconciled" /\ bundle' = bundle
      /\ txn'[s] \in {"COMPLETED", "PARTIAL"}
      /\ \A x \in Scans \ {s} : txn'[x] = txn[x] /\ staged'[x] = staged[x]
      /\ \A k \in Keys : finding'[k] = IF k \in Writes(s) THEN staged[s][k] ELSE finding[k]
  BY DEF CommitScan, LInv, TypeOK
<1>2. /\ holder' \in [Resources -> Scans \cup {NoScan}]
      /\ \A r \in Resources : holder'[r] # s
      /\ \A r \in Resources : holder'[r] # NoScan => holder'[r] = holder[r]
      /\ \A x \in Scans \ {s} : Missing(x)' = Missing(x)
  BY UnlockedKept DEF CommitScan
<1>3. TypeOK'
  <2>1. Nothing \in [Keys -> Rows]
    BY LifecycleAssumption DEF Nothing, Absent, Rows
  <2>2. finding' \in [Keys -> Rows]
    BY DEF CommitScan, LInv, TypeOK
  <2> QED
    BY <1>2, <2>1, <2>2 DEF CommitScan, LInv, TypeOK
<1>4. AssessedCovered'
  BY <1>1 DEF LInv, AssessedCovered
<1>5. LocksHeld'
  BY <1>1, <1>2 DEF LInv, LocksHeld, TypeOK
<1>6. LockOrder'
  <2> SUFFICES ASSUME NEW r \in Resources, NEW x \in Scans, holder'[r] = x, NEW q \in Missing(x)'
               PROVE  r < q
    BY DEF LockOrder
  <2>1. x # s /\ holder[r] = x
    BY <1>2, LifecycleAssumption
  <2> QED
    BY <1>2, <2>1 DEF LInv, LockOrder
<1>7. AllLocked'
  BY <1>1, <1>2 DEF LInv, AllLocked
<1>8. /\ Committed' = Committed \cup {s} /\ Completed' = Eligible(s)
      /\ \A k \in Keys : /\ Failed(k, Committed)' = Failed(k, Committed \cup {s})
                         /\ Passed(k, Completed)' = Passed(k, Eligible(s))
  BY CommitHistory
<1>9. StagedCurrent'
  <2> SUFFICES ASSUME NEW x \in Scans, txn'[x] = "reconciled", NEW k \in Writes(x)'
               PROVE  staged'[x][k] = After(x, k)'
    BY DEF StagedCurrent
  <2>1. x # s /\ txn[x] = "reconciled" /\ k \in Writes(x) /\ k \in Keys
    BY <1>1 DEF Writes
  <2>2. bundle[s].result[k] = "NONE"
    BY <1>1, <2>1, WritersApart
  <2>3. finding'[k] = finding[k]
    BY <1>1, <2>1, <2>2 DEF Writes
  <2>4. Failed(k, Committed \cup {x})' = Failed(k, Committed \cup {x})
    BY <1>1, <1>8, <2>2 DEF Failed
  <2>5. Passed(k, Eligible(x))' = Passed(k, Eligible(x))
    BY <1>1, <1>8, <2>2 DEF Passed, Eligible
  <2>6. After(x, k)' = After(x, k)
    BY <1>1, <2>1, <2>3, <2>4, <2>5, AfterSame
  <2> QED
    BY <1>1, <2>1, <2>6 DEF LInv, StagedCurrent
<1>10. FindingsMatchHistory'
  <2> SUFFICES ASSUME NEW k \in Keys
               PROVE  Fits(finding'[k], Failed(k, Committed \cup {s}), Passed(k, Eligible(s)))
    BY <1>8 DEF FindingsMatchHistory
  <2>1. CASE k \in Writes(s)
    <3>1. finding'[k] = After(s, k)
      BY <1>1, <2>1 DEF LInv, StagedCurrent
    <3> QED
      BY <2>1, <3>1, AfterFits DEF LInv
  <2>2. CASE k \notin Writes(s)
    <3>1. finding'[k] = finding[k] /\ bundle[s].result[k] = "NONE"
      BY <1>1, <2>2 DEF Writes
    <3>2. /\ Failed(k, Committed \cup {s}) = Failed(k, Committed)
          /\ Passed(k, Eligible(s)) = Passed(k, Completed)
      BY <3>1 DEF Failed, Passed, Eligible
    <3> QED
      BY <3>1, <3>2 DEF LInv, FindingsMatchHistory
  <2> QED
    BY <2>1, <2>2
<1> QED
  BY <1>3, <1>4, <1>5, <1>6, <1>7, <1>9, <1>10 DEF LInv

LEMMA DisposeKeeps ==
  ASSUME LInv, NEW k \in Keys, Dispose(k)
  PROVE  LInv'
<1>1. PICK d \in Manual : finding' = [finding EXCEPT ![k].status = d]
  BY DEF Dispose
<1>2. /\ holder[ResourceOf[k]] = NoScan /\ finding[k].status \in Manual
      /\ UNCHANGED <<bundle, txn, holder, staged>>
      /\ \A q \in Keys \ {k} : finding'[q] = finding[q]
      /\ finding'[k] = [finding[k] EXCEPT !.status = d]
  BY <1>1 DEF Dispose, LInv, TypeOK
<1>3. finding[k] \in [status : Manual \cup {"none", "RESOLVED"}, first : Nat \cup {Null},
                      last : Nat \cup {Null}, resolved : Nat \cup {Null}]
  BY DEF LInv, TypeOK, Rows
<1>4. /\ finding'[k].status = d /\ finding'[k].first = finding[k].first
      /\ finding'[k].last = finding[k].last /\ finding'[k].resolved = finding[k].resolved
  BY <1>2, <1>3
<1>5. d # "none" /\ d # "RESOLVED" /\ finding[k].status # "none" /\ finding[k].status # "RESOLVED"
  BY <1>1, <1>2, LifecycleAssumption
<1>6. TypeOK'
  <2>1. finding'[k] \in [status : Manual \cup {"none", "RESOLVED"}, first : Nat \cup {Null},
                         last : Nat \cup {Null}, resolved : Nat \cup {Null}]
    BY <1>2, <1>3
  <2>2. finding[k] \in Rows
    BY DEF LInv, TypeOK
  <2>3. finding'[k] \in Rows
    BY <1>4, <1>5, <2>1, <2>2 DEF Rows
  <2>4. finding' \in [Keys -> Rows]
    BY <1>1, <1>2, <2>3 DEF LInv, TypeOK
  <2> QED
    BY <1>2, <2>4 DEF LInv, TypeOK
<1>7. AssessedCovered' /\ LocksHeld' /\ LockOrder' /\ AllLocked'
  BY <1>2 DEF LInv, AssessedCovered, LocksHeld, LockOrder, AllLocked, Missing
<1>8. StagedCurrent'
  <2> SUFFICES ASSUME NEW x \in Scans, txn'[x] = "reconciled", NEW q \in Writes(x)'
               PROVE  staged'[x][q] = After(x, q)'
    BY DEF StagedCurrent
  <2>1. txn[x] = "reconciled" /\ q \in Writes(x) /\ q \in Keys
    BY <1>2 DEF Writes
  <2>2. q # k
    <3>1. holder[ResourceOf[q]] = x
      BY <2>1 DEF LInv, AllLocked, Missing, AssessedCovered, Writes
    <3> QED
      BY <1>2, <3>1, LifecycleAssumption
  <2>3. After(x, q)' = After(x, q)
    BY <1>2, <2>1, <2>2 DEF After, FailTimes, PassTimes, Failed, Passed, Committed, Eligible, Completed
  <2> QED
    BY <1>2, <2>1, <2>3 DEF LInv, StagedCurrent
<1>9. FindingsMatchHistory'
  <2> SUFFICES ASSUME NEW q \in Keys
               PROVE  Fits(finding'[q], Failed(q, Committed), Passed(q, Completed))
    BY <1>2 DEF FindingsMatchHistory, Fits, Clears, Failed, Passed, Committed, Completed
  <2>1. Fits(finding[q], Failed(q, Committed), Passed(q, Completed))
    BY DEF LInv, FindingsMatchHistory
  <2>2. CASE q # k
    BY <1>2, <2>1, <2>2
  <2>3. CASE q = k
    <3>1. Failed(q, Committed) # {}
      BY <1>5, <2>1, <2>3 DEF Fits, Absent
    <3> QED
      BY <1>4, <1>5, <2>1, <2>3, <3>1 DEF Fits
  <2> QED
    BY <2>2, <2>3
<1> QED
  BY <1>6, <1>7, <1>8, <1>9 DEF LInv

LEMMA LifecycleStep == LInv /\ [Next]_vars => LInv'
<1> SUFFICES ASSUME LInv, [Next]_vars PROVE LInv'
  OBVIOUS
<1>1. CASE UNCHANGED vars
  <2>1. TypeOK' /\ AssessedCovered' /\ LocksHeld'
    BY <1>1 DEF vars, LInv, TypeOK, AssessedCovered, LocksHeld
  <2>2. LockOrder' /\ AllLocked'
    BY <1>1 DEF vars, LInv, LockOrder, AllLocked, Missing
  <2>3. Committed' = Committed /\ Completed' = Completed
    BY <1>1 DEF vars, Committed, Completed
  <2>4. StagedCurrent'
    <3> SUFFICES ASSUME NEW x \in Scans, txn'[x] = "reconciled", NEW q \in Writes(x)'
                 PROVE  staged'[x][q] = After(x, q)'
      BY DEF StagedCurrent
    <3>1. q \in Writes(x) /\ After(x, q)' = After(x, q)
      BY <1>1, <2>3 DEF vars, Writes, After, FailTimes, PassTimes, Failed, Passed, Eligible
    <3> QED
      BY <1>1, <3>1 DEF vars, LInv, StagedCurrent
  <2>5. FindingsMatchHistory'
    BY <1>1, <2>3 DEF vars, LInv, FindingsMatchHistory, Fits, Clears, Failed, Passed
  <2> QED
    BY <2>1, <2>2, <2>4, <2>5 DEF LInv
<1>2. CASE Next
  BY <1>2, BeginKeeps, LockKeeps, ReconcileKeeps, CommitKeeps, RollBackKeeps, DisposeKeeps DEF Next
<1> QED
  BY <1>1, <1>2

-----------------------------------------------------------------------------
(* Theorems                                                                *)

\* Types of the tables and transactions: every row a scan stages satisfies the
\* CHECK constraints of the findings table.
THEOREM LifecycleTypes == Spec => []TypeOK
<1>1. LInv => TypeOK
  BY DEF LInv
<1> QED
  BY <1>1, InitKeeps, LifecycleStep, PTL DEF Spec

\* Findings agree with the committed history, whatever the order in which the
\* scans finish: _reconcile_finding reads it under the resource locks.
THEOREM HistoryDecides == Spec => []FindingsMatchHistory
<1>1. LInv => FindingsMatchHistory
  BY DEF LInv
<1> QED
  BY <1>1, InitKeeps, LifecycleStep, PTL DEF Spec

\* persist_scan_result, set_finding_disposition: a scan keeps dispositions.
THEOREM DispositionsStay == Spec => ScansKeepDispositions
<1>1. ASSUME LInv, [Next]_vars, txn' # txn, NEW k \in Keys, finding[k].status \in Manual
      PROVE  finding'[k].status \in {finding[k].status, "RESOLVED"}
  <2>1. CASE finding' = finding
    BY <2>1
  <2>2. ASSUME NEW s \in Scans, CommitScan(s)
        PROVE  finding'[k].status \in {finding[k].status, "RESOLVED"}
    <3>1. finding'[k] = IF k \in Writes(s) THEN staged[s][k] ELSE finding[k]
      BY <2>2 DEF CommitScan
    <3>2. k \in Writes(s) => finding'[k] = After(s, k)
      BY <1>1, <2>2, <3>1 DEF CommitScan, LInv, StagedCurrent
    <3>3. After(s, k) = finding[k] \/ After(s, k).status \in {finding[k].status, "RESOLVED"}
      <4> DEFINE F == FailTimes(k, Committed \cup {s})
                 P == PassTimes(k, Eligible(s))
      <4>1. After(s, k) = finding[k] \/ After(s, k) = Reconciled(finding[k], F, P)
        BY DEF After
      <4> HIDE DEF F, P
      <4>2. Reconciled(finding[k], F, P).status \in {finding[k].status, "RESOLVED"}
        BY <1>1 DEF Reconciled
      <4> QED
        BY <4>1, <4>2
    <3> QED
      BY <3>1, <3>2, <3>3
  <2> QED
    BY <1>1, <2>1, <2>2 DEF Next, vars, BeginScan, LockResource, Reconcile, RollBack, Dispose
<1>2. LInv /\ [Next]_vars =>
        [txn' # txn => \A k \in Keys : finding[k].status \in Manual =>
           finding'[k].status \in {finding[k].status, "RESOLVED"}]_vars
  BY <1>1
<1> QED
  BY <1>2, InitKeeps, LifecycleStep, PTL DEF Spec, ScansKeepDispositions

\* _reconcile_finding: a resolution is undone by a failure at least as recent.
THEOREM ReopeningIsJustified == Spec => ReopenNeedsNewerFail
<1>1. ASSUME LInv, [Next]_vars, NEW k \in Keys,
             finding[k].status = "RESOLVED", finding'[k].status # "RESOLVED"
      PROVE  finding'[k].last >= finding[k].resolved
  <2>1. PICK s \in Scans : CommitScan(s)
    <3>1. finding'[k] # finding[k]
      BY <1>1
    <3>2. \A q \in Keys : ~Dispose(q)
      <4> SUFFICES ASSUME NEW q \in Keys, Dispose(q) PROVE FALSE
        OBVIOUS
      <4>1. q # k
        BY <1>1, LifecycleAssumption DEF Dispose
      <4> QED
        BY <3>1, <4>1 DEF Dispose, LInv, TypeOK
    <3> QED
      BY <1>1, <3>1, <3>2 DEF Next, vars, BeginScan, LockResource, Reconcile, RollBack
  <2> DEFINE fails == Failed(k, Committed \cup {s})
             passes == Passed(k, Eligible(s))
  <2>2. finding'[k] = IF k \in Writes(s) THEN staged[s][k] ELSE finding[k]
    BY <2>1 DEF CommitScan
  <2>3. k \in Writes(s) /\ finding'[k] = After(s, k)
    BY <1>1, <2>1, <2>2 DEF CommitScan, LInv, StagedCurrent
  <2>4. Fits(finding'[k], fails, passes)
    BY <1>1, <2>3, AfterFits DEF LInv
  <2>5. PICK p \in Passed(k, Completed) : finding[k].resolved = ObservedAt[p]
    BY <1>1, LifecycleAssumption DEF LInv, FindingsMatchHistory, Fits, Absent
  <2>6. Failed(k, Committed) # {} /\ p \in passes /\ fails # {}
    <3>1. Failed(k, Committed) # {}
      BY <1>1 DEF LInv, FindingsMatchHistory, Fits, Absent
    <3> QED
      BY <2>5, <3>1 DEF Failed, Passed, Eligible
  <2>7. /\ \A q \in passes : ~Clears(q, fails, passes)
        /\ \A f \in fails : finding'[k].last >= ObservedAt[f]
        /\ fails \in SUBSET Scans /\ passes \in SUBSET Scans
        /\ finding'[k].last \in Nat
    <3>1. fails \in SUBSET Scans /\ passes \in SUBSET Scans
      BY DEF Failed, Passed, Committed, Eligible, Completed
    <3> HIDE DEF fails, passes
    <3>2. /\ \A q \in passes : ~Clears(q, fails, passes)
          /\ \A f \in fails : ObservedAt[f] <= finding'[k].last
          /\ \E f \in fails : finding'[k].last = ObservedAt[f]
      BY <1>1, <2>4, <2>6 DEF Fits
    <3> QED
      BY <3>1, <3>2, LifecycleAssumption
  <2>8. PICK m \in passes : \A q \in passes : ObservedAt[q] <= ObservedAt[m]
    <3> HIDE DEF passes
    <3> DEFINE T == {ObservedAt[q] : q \in passes}
    <3>1. Latest(T) \in T /\ \A t \in T : t <= Latest(T)
      BY <2>6, <2>7, Extremes
    <3> QED
      BY <3>1
  <2>9. PICK f \in fails : ObservedAt[f] >= ObservedAt[m]
    <3> HIDE DEF fails, passes
    <3> QED
      BY <2>7, <2>8, LifecycleAssumption DEF Clears
  <2> HIDE DEF fails, passes
  <2>10. /\ finding'[k].last >= ObservedAt[f] /\ ObservedAt[f] >= ObservedAt[m]
         /\ ObservedAt[m] >= ObservedAt[p]
         /\ ObservedAt[f] \in Nat /\ ObservedAt[m] \in Nat /\ ObservedAt[p] \in Nat
    BY <2>6, <2>7, <2>8, <2>9, LifecycleAssumption
  <2> QED
    BY <2>5, <2>7, <2>10
<1>2. LInv /\ [Next]_vars =>
        [\A k \in Keys : finding[k].status = "RESOLVED" /\ finding'[k].status # "RESOLVED" =>
           finding'[k].last >= finding[k].resolved]_vars
  BY <1>1
<1> QED
  BY <1>2, InitKeeps, LifecycleStep, PTL DEF Spec, ReopenNeedsNewerFail

\* persist_scan_result locks resources in the order of their identity: the
\* scan that holds the greatest locked resource waits for free ones only.
THEOREM LockOrderSuffices == Spec => []ScansNeverDeadlock
<1>1. ASSUME LInv, NEW x \in Scans, txn[x] = "locking",
             \A s \in Scans : txn[s] # "reconciled"
      PROVE  \E s \in Scans : txn[s] = "locking" /\ \A r \in Wants(s) : holder[r] = NoScan
  <2> DEFINE H == {r \in Resources : holder[r] # NoScan}
             f == [r \in H |-> r]
  <2>0. \A s \in Scans : Wants(s) \subseteq Resources /\ Wants(s) \subseteq Missing(s)
    BY <1>1 DEF Wants, Missing, LInv, TypeOK
  <2>1. CASE H = {}
    BY <1>1, <2>0, <2>1
  <2>2. CASE H # {}
    <3>1. IsFiniteSet(H) /\ f \in [H -> Nat]
      BY FS_Subset, LifecycleAssumption
    <3>2. PICK m \in H : \A r \in H : f[r] <= f[m]
      <4> HIDE DEF H, f
      <4> QED
        BY <2>2, <3>1, SomeGreatest
    <3>3. \A r \in H : r <= m
      BY <3>2
    <3>4. holder[m] \in Scans /\ txn[holder[m]] = "locking"
      BY <1>1 DEF LInv, LocksHeld, TypeOK
    <3>5. ASSUME NEW r \in Wants(holder[m]) PROVE holder[r] = NoScan
      <4>1. r \in Resources /\ m < r
        BY <1>1, <2>0, <3>4 DEF LInv, LockOrder
      <4>2. r \notin H
        BY <3>3, <4>1, LifecycleAssumption
      <4> QED
        BY <4>1, <4>2
    <3> QED
      BY <3>4, <3>5
  <2> QED
    BY <2>1, <2>2
<1>2. LInv => ScansNeverDeadlock
  BY <1>1 DEF ScansNeverDeadlock
<1> QED
  BY <1>2, InitKeeps, LifecycleStep, PTL DEF Spec
=============================================================================
