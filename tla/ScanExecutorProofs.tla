------------------------- MODULE ScanExecutorProofs -------------------------
(***************************************************************************)
(* Proofs about ScanExecutor, for any number of scans, futures, workers,    *)
(* faults and restarts.  The strengthening is Registry: a future that is    *)
(* not done is the one registered for its scan, and a registered future     *)
(* works for the scan it is registered under.                               *)
(***************************************************************************)
EXTENDS ScanExecutor, FiniteSetTheorems, WellFoundedInduction, TLAPS

\* A job that has not ended is registered, so that submit finds it.
LiveIsRegistered == \A j \in Jobs : Live(j) => futures[job[j].scan] = j

\* Every job has a scan until it is forgotten.
JobsHaveScans == \A j \in Jobs : job[j].at # "free" => job[j].scan \in Scans

\* A done callback resumes on behalf of a future that is forgotten.
CallbackForgot == \A j \in Jobs : resume[j].pc # "idle" => job[j].at = "free"

RoomKept == Cardinality(Active) <= MaxOutstanding

Registry ==
  /\ LiveIsRegistered
  /\ NoSlotLeaks
  /\ JobsHaveScans
  /\ CallbackForgot
  /\ RoomKept

SInv == TypeOK /\ Registry /\ NoScanIsStranded

-----------------------------------------------------------------------------
(* submit                                                                  *)

\* The registered scans are finitely many.
LEMMA ActiveFinite == IsFiniteSet(Active) /\ Cardinality(Active) \in Nat
  BY ScanAssumption, FS_Subset, FS_CardinalityType DEF Active

\* submit keeps the types and the registry: _futures[scan_id] = future under
\* _lock, for a scan without a pending future and below max_outstanding.
LEMMA ScheduleKeeps ==
  ASSUME TypeOK, Registry, NEW s \in Scans, NEW caller \in Callers, Schedule(s, caller)
  PROVE  /\ futures' \in [Scans -> Jobs \cup {NoJob}]
         /\ job' \in [Jobs -> JobRecords]
         /\ LiveIsRegistered' /\ NoSlotLeaks' /\ JobsHaveScans' /\ RoomKept'
         /\ \A j \in Jobs : resume[j].pc # "idle" => job'[j].at = "free"
         /\ \A j \in Jobs : Live(j) => Live(j)' /\ job'[j].scan = job[j].scan
         /\ \E j \in Jobs : Live(j)' /\ job'[j].scan = s
<1>1. PICK j \in Jobs : /\ Unused(j)
                        /\ job' = [job EXCEPT ![j] = [scan |-> s, at |-> "queued", thread |-> caller]]
                        /\ futures' = [futures EXCEPT ![s] = j]
  BY DEF Schedule
<1>2. /\ job'[j] = [scan |-> s, at |-> "queued", thread |-> caller]
      /\ \A i \in Jobs \ {j} : job'[i] = job[i]
      /\ futures'[s] = j
      /\ \A t \in Scans \ {s} : futures'[t] = futures[t]
  BY <1>1 DEF TypeOK
<1>3. /\ futures' \in [Scans -> Jobs \cup {NoJob}]
      /\ job' \in [Jobs -> JobRecords]
  BY <1>1 DEF TypeOK, JobRecords, Pending
<1>4. job[j].at = "free" /\ resume[j].pc = "idle"
  BY <1>1 DEF Unused
<1>5. LiveIsRegistered'
  <2> SUFFICES ASSUME NEW i \in Jobs, Live(i)'
               PROVE  futures'[job'[i].scan] = i
    BY DEF LiveIsRegistered
  <2>1. CASE i = j
    BY <2>1, <1>2
  <2>2. CASE i # j
    <3>1. Live(i) /\ job'[i] = job[i] /\ job[i].scan \in Scans /\ futures[job[i].scan] = i
      BY <2>2, <1>2 DEF Live, Pending, Registry, LiveIsRegistered, JobsHaveScans
    <3>2. job[i].scan # s
      BY <3>1, NullAssumption DEF Schedule, Scheduled, Live
    <3> QED
      BY <3>1, <3>2, <1>2
  <2> QED
    BY <2>1, <2>2
<1>6. NoSlotLeaks'
  <2> SUFFICES ASSUME NEW t \in Scans, futures'[t] # NoJob
               PROVE  job'[futures'[t]].scan = t /\ job'[futures'[t]].at # "free"
    BY DEF NoSlotLeaks
  <2>1. CASE t = s
    BY <2>1, <1>2
  <2>2. CASE t # s
    <3>1. futures'[t] = futures[t] /\ futures[t] \in Jobs
      BY <2>2, <1>2 DEF TypeOK
    <3>2. futures[t] # j
      BY <3>1, <1>4 DEF Registry, NoSlotLeaks
    <3> QED
      BY <3>1, <3>2, <1>2 DEF Registry, NoSlotLeaks
  <2> QED
    BY <2>1, <2>2
<1>7. JobsHaveScans'
  BY <1>2 DEF Registry, JobsHaveScans
<1>8. RoomKept'
  <2>1. Active' \subseteq Active \cup {s}
    BY <1>2 DEF Active
  <2>2. Cardinality(Active \cup {s}) <= Cardinality(Active) + 1 /\ IsFiniteSet(Active \cup {s})
    <3> DEFINE C == Cardinality(Active)
    <3>1. C \in Nat /\ IsFiniteSet(Active)
      BY ActiveFinite
    <3>2. /\ IsFiniteSet(Active \cup {s})
          /\ Cardinality(Active \cup {s}) = IF s \in Active THEN C ELSE C + 1
      BY <3>1, FS_AddElement
    <3> QED
      BY <3>1, <3>2
  <2>3. Cardinality(Active') <= Cardinality(Active \cup {s})
    BY <2>1, <2>2, FS_Subset
  <2>4. Cardinality(Active) < MaxOutstanding
    BY ActiveFinite, ScanAssumption DEF Schedule, Full
  <2>5. Cardinality(Active') \in Nat /\ Cardinality(Active \cup {s}) \in Nat
    BY <2>1, <2>2, FS_Subset, FS_CardinalityType
  <2> QED
    BY <2>2, <2>3, <2>4, <2>5, ActiveFinite, ScanAssumption DEF RoomKept
<1>9. \A i \in Jobs : resume[i].pc # "idle" => job'[i].at = "free"
  BY <1>2, <1>4 DEF Registry, CallbackForgot
<1>10. \A i \in Jobs : Live(i) => Live(i)' /\ job'[i].scan = job[i].scan
  BY <1>2, <1>4 DEF Live, Pending
<1>11. \E i \in Jobs : Live(i)' /\ job'[i].scan = s
  BY <1>2 DEF Live, Pending
<1> QED
  BY <1>3, <1>5, <1>6, <1>7, <1>8, <1>9, <1>10, <1>11

\* A step that only moves a job on, to a live or a done state, or registers its
\* callback, keeps the registry.
LEMMA MoveKeeps ==
  ASSUME TypeOK, Registry, NEW j \in Jobs, job[j].at # "free",
         NEW n \in JobRecords, n.scan = job[j].scan, n.at # "free",
         n.at \in Pending => Live(j),
         job' = [job EXCEPT ![j] = n],
         UNCHANGED <<futures, resume>>
  PROVE  /\ job' \in [Jobs -> JobRecords]
         /\ Registry'
<1>1. job'[j] = n /\ \A i \in Jobs \ {j} : job'[i] = job[i]
  BY DEF TypeOK
<1>2. n.at # "free"
  OBVIOUS
<1>3. job' \in [Jobs -> JobRecords]
  BY DEF TypeOK
<1>4. LiveIsRegistered'
  BY <1>1 DEF Registry, LiveIsRegistered, Live
<1>5. NoSlotLeaks'
  <2> SUFFICES ASSUME NEW s \in Scans, futures[s] # NoJob
               PROVE  job'[futures[s]].scan = s /\ job'[futures[s]].at # "free"
    BY DEF NoSlotLeaks
  <2>1. /\ futures[s] \in Jobs
        /\ job[futures[s]].scan = s /\ job[futures[s]].at # "free"
    BY DEF Registry, NoSlotLeaks, TypeOK
  <2> QED
    BY <1>1, <1>2, <2>1
<1>6. JobsHaveScans'
  BY <1>1 DEF Registry, JobsHaveScans
<1>7. CallbackForgot'
  BY <1>1 DEF Registry, CallbackForgot
<1>8. RoomKept'
  BY DEF Registry, RoomKept, Active
<1> QED
  BY <1>3, <1>4, <1>5, <1>6, <1>7, <1>8 DEF Registry

\* The return of a callback, or of the startup thread, keeps the registry: the
\* future of the callback was forgotten before it resumed.
LEMMA ReturnKeeps ==
  ASSUME TypeOK, Registry, NEW t \in Threads, resume[t].pc # "idle", Return(t), UNCHANGED futures
  PROVE  /\ job' \in [Jobs -> JobRecords]
         /\ resume' \in [Threads -> RunRecords]
         /\ Registry'
         /\ \A i \in Jobs : Live(i) => Live(i)' /\ job'[i].scan = job[i].scan
<1>1. \A i \in Jobs : job'[i] = IF i = t THEN FreeJob ELSE job[i]
  BY DEF Return
<1>2. t \in Jobs => job[t].at = "free"
  BY DEF Registry, CallbackForgot
<1>3. job' \in [Jobs -> JobRecords]
  BY DEF TypeOK, Return, FreeJob, JobRecords
<1>4. resume' \in [Threads -> RunRecords]
  BY ScanAssumption DEF TypeOK, Return, NoRun, RunRecords
<1>5. \A i \in Jobs : /\ job'[i].at = job[i].at
                      /\ job[i].at # "free" => job'[i] = job[i]
  BY <1>1, <1>2 DEF FreeJob
<1>6. LiveIsRegistered'
  BY <1>5 DEF Registry, LiveIsRegistered, Live, Pending
<1>7. NoSlotLeaks'
  BY <1>5 DEF Registry, NoSlotLeaks, TypeOK
<1>8. JobsHaveScans'
  BY <1>5 DEF Registry, JobsHaveScans
<1>9. CallbackForgot'
  BY <1>5 DEF Registry, CallbackForgot, Return, NoRun, TypeOK, Threads, RunRecords
<1>10. RoomKept'
  BY DEF Registry, RoomKept, Active
<1>11. \A i \in Jobs : Live(i) => Live(i)' /\ job'[i].scan = job[i].scan
  BY <1>5 DEF Live, Pending
<1> QED
  BY <1>3, <1>4, <1>6, <1>7, <1>8, <1>9, <1>10, <1>11 DEF Registry

-----------------------------------------------------------------------------
(* The invariant                                                           *)

\* No scan is stranded by a step after which every live job is still at work,
\* or its scan has ended or is counted as an orphan.
LEMMA StrandedKept ==
  ASSUME NoScanIsStranded,
         \A s \in Scans : request'[s] \in {"accepted", "refused"} /\ row'[s] = "RUNNING" =>
           \/ request[s] \in {"accepted", "refused"} /\ row[s] = "RUNNING"
           \/ s \in orphans'
           \/ \E j \in Jobs : Live(j)' /\ job'[j].scan = s,
         orphans \subseteq orphans',
         \A j \in Jobs : Live(j) =>
           \/ Live(j)' /\ job'[j].scan = job[j].scan
           \/ row'[job[j].scan] # "RUNNING"
           \/ job[j].scan \in orphans'
  PROVE  NoScanIsStranded'
<1> SUFFICES ASSUME NEW s \in Scans, request'[s] \in {"accepted", "refused"}, row'[s] = "RUNNING"
             PROVE  s \in orphans' \/ \E j \in Jobs : Live(j)' /\ job'[j].scan = s
  BY DEF NoScanIsStranded
<1>1. CASE request[s] \in {"accepted", "refused"} /\ row[s] = "RUNNING"
  <2>1. CASE s \in orphans
    BY <2>1
  <2>2. CASE \E j \in Jobs : Live(j) /\ job[j].scan = s
    BY <2>2
  <2> QED
    BY <1>1, <2>1, <2>2 DEF NoScanIsStranded
<1> QED
  BY <1>1

LEMMA FirstOf == ASSUME NEW S, NEW n PROVE First(S, n) \subseteq S
  BY DEF First

\* start_scan keeps the invariant.
LEMMA RequestKeeps ==
  ASSUME SInv, NEW s \in Scans, CreateScan(s) \/ Request(s)
  PROVE  SInv'
<1> USE DEF SInv
<1>1. CASE CreateScan(s)
  <2>1. TypeOK'
    BY <1>1 DEF CreateScan, TypeOK
  <2>2. Registry'
    BY <1>1 DEF CreateScan, Registry, LiveIsRegistered, NoSlotLeaks, JobsHaveScans,
                CallbackForgot, RoomKept, Active, Live
  <2>3. NoScanIsStranded'
    BY <1>1 DEF CreateScan, TypeOK, NoScanIsStranded, Live
  <2> QED
    BY <2>1, <2>2, <2>3
<1>2. CASE SubmitScan(s)
  <2>0. s \in Callers /\ UNCHANGED <<row, resume, drain, closed, orphans, restarts>>
    BY <1>2 DEF SubmitScan, Callers
  <2>1. CASE Schedule(s, s) /\ request' = [request EXCEPT ![s] = "accepted"]
    <3>1. /\ futures' \in [Scans -> Jobs \cup {NoJob}]
          /\ job' \in [Jobs -> JobRecords]
          /\ LiveIsRegistered' /\ NoSlotLeaks' /\ JobsHaveScans' /\ RoomKept'
          /\ \A j \in Jobs : resume[j].pc # "idle" => job'[j].at = "free"
          /\ \A j \in Jobs : Live(j) => Live(j)' /\ job'[j].scan = job[j].scan
          /\ \E j \in Jobs : Live(j)' /\ job'[j].scan = s
      BY <2>0, <2>1, ScheduleKeeps
    <3>2. TypeOK'
      BY <2>0, <2>1, <3>1 DEF TypeOK
    <3>3. Registry'
      BY <2>0, <3>1 DEF Registry, CallbackForgot
    <3>4. \A t \in Scans : request'[t] \in {"accepted", "refused"} /\ row'[t] = "RUNNING" =>
            \/ request[t] \in {"accepted", "refused"} /\ row[t] = "RUNNING"
            \/ \E j \in Jobs : Live(j)' /\ job'[j].scan = t
      BY <2>0, <2>1, <3>1 DEF TypeOK
    <3>5. NoScanIsStranded'
      BY <2>0, <3>1, <3>4, StrandedKept
    <3> QED
      BY <3>2, <3>3, <3>5
  <2>2. CASE /\ Scheduled(s) /\ UNCHANGED <<job, futures>>
             /\ request' = [request EXCEPT ![s] = "accepted"]
    <3>1. TypeOK'
      BY <2>0, <2>2 DEF TypeOK
    <3>2. Registry'
      BY <2>0, <2>2 DEF Registry, LiveIsRegistered, NoSlotLeaks, JobsHaveScans,
                        CallbackForgot, RoomKept, Active, Live
    <3>3. \E j \in Jobs : Live(j) /\ job[j].scan = s
      BY <2>2 DEF Scheduled, Live, Registry, NoSlotLeaks, TypeOK
    <3>4. NoScanIsStranded'
      BY <2>0, <2>2, <3>3 DEF NoScanIsStranded, TypeOK, Live
    <3> QED
      BY <3>1, <3>2, <3>4
  <2>3. CASE UNCHANGED <<job, futures>> /\ request' = [request EXCEPT ![s] = "rejected"]
    <3>1. TypeOK'
      BY <2>0, <2>3 DEF TypeOK
    <3>2. Registry'
      BY <2>0, <2>3 DEF Registry, LiveIsRegistered, NoSlotLeaks, JobsHaveScans,
                        CallbackForgot, RoomKept, Active, Live
    <3>3. NoScanIsStranded'
      BY <2>0, <2>3 DEF NoScanIsStranded, TypeOK, Live
    <3> QED
      BY <3>1, <3>2, <3>3
  <2> QED
    BY <1>2, <2>1, <2>2, <2>3 DEF SubmitScan, SubmitAccepts, SubmitFindsFull
<1>3. CASE RefuseScan(s)
  <2>1. TypeOK'
    BY <1>3 DEF RefuseScan, FailPending, LoseFailure, TypeOK, Terminal
  <2>2. Registry'
    BY <1>3 DEF RefuseScan, Registry, LiveIsRegistered, NoSlotLeaks, JobsHaveScans,
                CallbackForgot, RoomKept, Active, Live
  <2>3. NoScanIsStranded'
    BY <1>3 DEF RefuseScan, FailPending, LoseFailure, TypeOK, NoScanIsStranded, Live
  <2> QED
    BY <2>1, <2>2, <2>3
<1> QED
  BY <1>1, <1>2, <1>3 DEF Request

\* A job keeps the invariant: it ends only after its scan ended or its failure
\* was counted as lost, and its callback removes no other future.
LEMMA JobKeeps ==
  ASSUME SInv, NEW j \in Jobs, StartJob(j) \/ Work(j)
  PROVE  SInv'
<1> USE DEF SInv
<1> DEFINE To(at) == [job[j] EXCEPT !.at = at]
<1>0. job[j] \in JobRecords
  BY DEF TypeOK
<1>1. ASSUME Live(j), NEW at \in Pending \cup {"done"}, Move(j, at), UNCHANGED <<futures, resume>>
      PROVE  job' \in [Jobs -> JobRecords] /\ Registry'
  <2>1. To(at) \in JobRecords /\ To(at).scan = job[j].scan /\ To(at).at = at
    BY <1>0, <1>1 DEF JobRecords, Pending
  <2>2. job' = [job EXCEPT ![j] = To(at)]
    BY <1>0, <1>1 DEF Move, TypeOK, JobRecords
  <2>3. job[j].at # "free" /\ at # "free"
    BY <1>1 DEF Live, Pending
  <2> HIDE DEF To
  <2> QED
    BY <1>1, <2>1, <2>2, <2>3, MoveKeeps
<1>2. ASSUME NEW at, Move(j, at)
      PROVE  /\ \A i \in Jobs \ {j} : job'[i] = job[i]
             /\ job'[j].scan = job[j].scan /\ job'[j].at = at
  BY <1>0, <1>2 DEF Move, TypeOK, JobRecords
<1>3. job[j].at # "free" => job[j].scan \in Scans
  BY DEF Registry, JobsHaveScans
<1>4. CASE StartJob(j)
  <2>1. PICK at \in {"collecting", "done", "failing"} :
          Move(j, at) /\ (at = "done" => row[job[j].scan] # "RUNNING")
    BY <1>4 DEF StartJob
  <2>2. UNCHANGED <<row, request, futures, resume, drain, closed, orphans, restarts>> /\ Live(j)
    BY <1>4 DEF StartJob, Live, Pending
  <2>3. job' \in [Jobs -> JobRecords] /\ Registry'
    BY <1>1, <2>1, <2>2 DEF Pending
  <2>4. TypeOK'
    BY <2>2, <2>3 DEF TypeOK
  <2>5. \A i \in Jobs : Live(i) => \/ Live(i)' /\ job'[i].scan = job[i].scan
                                   \/ row'[job[i].scan] # "RUNNING"
    BY <1>2, <2>1, <2>2 DEF Live, Pending
  <2>6. NoScanIsStranded'
    BY <2>2, <2>5, StrandedKept
  <2> QED
    BY <2>3, <2>4, <2>6
<1>5. CASE Register(j)
  <2> DEFINE n == [job[j] EXCEPT !.thread = Pool]
  <2>1. n \in JobRecords /\ n.scan = job[j].scan /\ n.at = job[j].at /\ n.at # "free" /\ Live(j)
    BY <1>0, <1>5 DEF JobRecords, Register, Live, Pending
  <2>2. job' = [job EXCEPT ![j] = n]
    BY <1>0, <1>5 DEF Register, TypeOK, JobRecords
  <2>3. UNCHANGED <<row, request, futures, resume, drain, closed, orphans, restarts>>
    BY <1>5 DEF Register
  <2> HIDE DEF n
  <2>4. job' \in [Jobs -> JobRecords] /\ Registry'
    BY <2>1, <2>2, <2>3, MoveKeeps
  <2>5. TypeOK'
    BY <2>3, <2>4 DEF TypeOK
  <2>6. \A i \in Jobs : Live(i) => Live(i)' /\ job'[i].scan = job[i].scan
    BY <2>1, <2>2 DEF Live, TypeOK
  <2>7. NoScanIsStranded'
    BY <2>3, <2>6, StrandedKept
  <2> QED
    BY <2>4, <2>5, <2>7
<1>6. CASE PersistResult(j)
  <2>1. /\ Live(j) /\ Move(j, "done") /\ job[j].scan \in Scans
        /\ row' = [row EXCEPT ![job[j].scan] = "COMPLETED"]
        /\ UNCHANGED <<request, futures, resume, drain, closed, orphans, restarts>>
    BY <1>3, <1>6 DEF PersistResult, Live, Pending
  <2>2. job' \in [Jobs -> JobRecords] /\ Registry'
    BY <1>1, <2>1
  <2>3. TypeOK'
    BY <2>1, <2>2 DEF TypeOK, Terminal
  <2>4. \A i \in Jobs : Live(i) => \/ Live(i)' /\ job'[i].scan = job[i].scan
                                   \/ row'[job[i].scan] # "RUNNING"
    BY <1>2, <2>1 DEF Live, TypeOK
  <2>5. \A s \in Scans : row'[s] = "RUNNING" => row[s] = "RUNNING"
    BY <2>1 DEF TypeOK
  <2>6. NoScanIsStranded'
    BY <2>1, <2>4, <2>5, StrandedKept
  <2> QED
    BY <2>2, <2>3, <2>6
<1>7. CASE CollectionFails(j)
  <2>1. /\ Live(j) /\ Move(j, "failing")
        /\ UNCHANGED <<row, request, futures, resume, drain, closed, orphans, restarts>>
    BY <1>7 DEF CollectionFails, Live, Pending
  <2>2. job' \in [Jobs -> JobRecords] /\ Registry'
    BY <1>1, <2>1 DEF Pending
  <2>3. TypeOK'
    BY <2>1, <2>2 DEF TypeOK
  <2>4. \A i \in Jobs : Live(i) => Live(i)' /\ job'[i].scan = job[i].scan
    BY <1>2, <2>1 DEF Live, Pending
  <2>5. NoScanIsStranded'
    BY <2>1, <2>4, StrandedKept
  <2> QED
    BY <2>2, <2>3, <2>5
<1>8. CASE RecordFailure(j)
  <2>1. /\ Live(j) /\ Move(j, "done") /\ job[j].scan \in Scans
        /\ UNCHANGED <<request, futures, resume, drain, closed, restarts>>
        /\ \/ FailPending(job[j].scan) /\ UNCHANGED orphans
           \/ LoseFailure(job[j].scan)
    BY <1>3, <1>8 DEF RecordFailure, Live, Pending
  <2>2. job' \in [Jobs -> JobRecords] /\ Registry'
    BY <1>1, <2>1
  <2>3. TypeOK'
    BY <2>1, <2>2 DEF TypeOK, Terminal, FailPending, LoseFailure
  <2>4. row'[job[j].scan] # "RUNNING" \/ job[j].scan \in orphans'
    BY <2>1 DEF TypeOK, FailPending, LoseFailure
  <2>5. \A i \in Jobs : Live(i) => \/ Live(i)' /\ job'[i].scan = job[i].scan
                                   \/ row'[job[i].scan] # "RUNNING"
                                   \/ job[i].scan \in orphans'
    BY <1>2, <2>1, <2>4 DEF Live
  <2>6. /\ \A s \in Scans : row'[s] = "RUNNING" => row[s] = "RUNNING"
        /\ orphans \subseteq orphans'
    BY <2>1 DEF TypeOK, FailPending, LoseFailure
  <2>7. NoScanIsStranded'
    BY <2>1, <2>5, <2>6, StrandedKept
  <2> QED
    BY <2>2, <2>3, <2>7
<1>9. CASE Forget(j)
  <2>1. /\ job[j].at = "done" /\ job[j].scan \in Scans
        /\ futures' = IF futures[job[j].scan] = j
                      THEN [futures EXCEPT ![job[j].scan] = NoJob] ELSE futures
        /\ UNCHANGED <<row, request, drain, closed, orphans, restarts>>
    BY <1>3, <1>9 DEF Forget
  <2>2. PICK th \in Callers \cup {Pool} : job' = [job EXCEPT ![j] = [FreeJob EXCEPT !.thread = th]]
    BY <1>0, <1>9 DEF Forget, JobRecords, FreeJob
  <2>3. /\ \A i \in Jobs \ {j} : job'[i] = job[i]
        /\ job'[j].at = "free"
    BY <2>2 DEF TypeOK, FreeJob
  <2>4. job' \in [Jobs -> JobRecords]
    BY <2>2 DEF TypeOK, FreeJob, JobRecords
  <2>5. futures' \in [Scans -> Jobs \cup {NoJob}]
    BY <2>1 DEF TypeOK
  <2>6. /\ resume' \in [Threads -> RunRecords]
        /\ \A i \in Jobs \ {j} : resume'[i] = resume[i]
    <3>1. Begin \in RunRecords
      BY ScanAssumption DEF Begin, NoRun, RunRecords
    <3>2. resume' = [resume EXCEPT ![j] = Begin] \/ resume' = resume
      BY <1>9 DEF Forget
    <3>3. j \in Threads /\ Jobs \subseteq Threads /\ resume \in [Threads -> RunRecords]
      BY DEF Threads, TypeOK
    <3> HIDE DEF Begin, RunRecords, Threads
    <3> QED
      BY <3>1, <3>2, <3>3
  <2>7. TypeOK'
    BY <2>1, <2>4, <2>5, <2>6 DEF TypeOK
  <2>8. \A i \in Jobs : Live(i)' <=> Live(i)
    BY <2>1, <2>3 DEF Live, Pending
  <2>9. LiveIsRegistered'
    <3> SUFFICES ASSUME NEW i \in Jobs, Live(i)'
                 PROVE  futures'[job'[i].scan] = i
      BY DEF LiveIsRegistered
    <3>1. i # j /\ Live(i) /\ job'[i] = job[i] /\ futures[job[i].scan] = i
      BY <2>1, <2>3, <2>8 DEF Live, Pending, Registry, LiveIsRegistered
    <3> QED
      BY <2>1, <3>1 DEF TypeOK
  <2>10. NoSlotLeaks'
    <3> SUFFICES ASSUME NEW s \in Scans, futures'[s] # NoJob
                 PROVE  job'[futures'[s]].scan = s /\ job'[futures'[s]].at # "free"
      BY DEF NoSlotLeaks
    <3>1. futures'[s] = futures[s] /\ futures[s] \in Jobs
      BY <2>1 DEF TypeOK
    <3>2. job[futures[s]].scan = s /\ job[futures[s]].at # "free"
      BY <3>1, NullAssumption DEF Registry, NoSlotLeaks
    <3>3. futures[s] # j
      BY <2>1, <3>1, <3>2, NullAssumption DEF TypeOK
    <3> QED
      BY <2>3, <3>1, <3>2, <3>3
  <2>11. JobsHaveScans'
    BY <2>3 DEF Registry, JobsHaveScans
  <2>12. CallbackForgot'
    BY <2>3, <2>6 DEF Registry, CallbackForgot
  <2>13. RoomKept'
    <3>1. Active' \subseteq Active
      BY <2>1 DEF Active, TypeOK
    <3>2. Cardinality(Active') <= Cardinality(Active) /\ Cardinality(Active') \in Nat
      BY <3>1, ActiveFinite, FS_Subset, FS_CardinalityType
    <3> QED
      BY <3>2, ActiveFinite, ScanAssumption DEF Registry, RoomKept
  <2>14. \A i \in Jobs : Live(i) => Live(i)' /\ job'[i].scan = job[i].scan
    BY <2>1, <2>3, <2>8 DEF Live, Pending
  <2>15. NoScanIsStranded'
    BY <2>1, <2>14, StrandedKept
  <2> QED
    BY <2>7, <2>9, <2>10, <2>11, <2>12, <2>13, <2>15 DEF Registry
<1> QED
  BY <1>4, <1>5, <1>6, <1>7, <1>8, <1>9 DEF Work

\* The end of a run of resume_pending keeps the invariant.
LEMMA ReturnKeepsAll ==
  ASSUME SInv, NEW t \in Threads, resume[t].pc # "idle", Return(t), drain' \in BOOLEAN,
         UNCHANGED <<row, request, futures, closed, orphans, restarts>>
  PROVE  SInv'
<1>1. /\ job' \in [Jobs -> JobRecords]
      /\ resume' \in [Threads -> RunRecords]
      /\ Registry'
      /\ \A i \in Jobs : Live(i) => Live(i)' /\ job'[i].scan = job[i].scan
  BY ReturnKeeps DEF SInv
<1>2. TypeOK'
  BY <1>1 DEF SInv, TypeOK
<1>3. NoScanIsStranded'
  BY <1>1, StrandedKept DEF SInv
<1> QED
  BY <1>1, <1>2, <1>3 DEF SInv

\* A step inside resume_pending that leaves the futures alone keeps the
\* invariant.
LEMMA RunKeeps ==
  ASSUME SInv, NEW t \in Threads, resume[t].pc # "idle", NEW run \in RunRecords,
         resume' = [resume EXCEPT ![t] = run], drain' \in BOOLEAN,
         UNCHANGED <<row, request, futures, job, closed, orphans, restarts>>
  PROVE  SInv'
<1>1. TypeOK'
  BY DEF SInv, TypeOK
<1>2. \A i \in Jobs : resume'[i].pc # "idle" => resume[i].pc # "idle"
  BY DEF SInv, TypeOK, Threads
<1>3. Registry'
  BY <1>2 DEF SInv, Registry, LiveIsRegistered, NoSlotLeaks, JobsHaveScans, CallbackForgot,
              RoomKept, Active, Live
<1>4. NoScanIsStranded'
  BY DEF SInv, NoScanIsStranded, Live
<1> QED
  BY <1>1, <1>3, <1>4 DEF SInv

\* resume_pending keeps the invariant, however stale what it read has become.
LEMMA ResumeKeeps ==
  ASSUME SInv, NEW t \in Threads, Resume(t)
  PROVE  SInv'
<1>0. resume[t] \in RunRecords /\ t \in Callers
  BY DEF SInv, TypeOK, Callers
<1>1. CASE ResumeSnapshot(t)
  <2>1. resume[t].pc # "idle" /\ UNCHANGED <<row, request, futures, drain, closed, orphans, restarts>>
    BY <1>1 DEF ResumeSnapshot
  <2>2. drain' \in BOOLEAN
    BY <2>1 DEF SInv, TypeOK
  <2>3. CASE Return(t)
    BY <2>1, <2>2, <2>3, ReturnKeepsAll
  <2>4. CASE ~Return(t)
    <3> DEFINE room == MaxOutstanding - Cardinality(Active)
               run == [pc |-> "query", active |-> Active, room |-> room, found |-> {}]
    <3>1. /\ ~(room <= 0)
          /\ resume' = [resume EXCEPT ![t] = run]
          /\ UNCHANGED job
      BY <1>1, <2>4 DEF ResumeSnapshot
    <3>2. room \in Nat
      BY <3>1, ActiveFinite, ScanAssumption
    <3>3. run \in RunRecords
      BY <3>1, <3>2, ActiveFinite, ScanAssumption DEF RunRecords, Active
    <3> HIDE DEF run
    <3> QED
      BY <2>1, <2>2, <3>1, <3>3, RunKeeps
  <2> QED
    BY <2>3, <2>4
<1>2. CASE ResumeQuery(t)
  <2>1. resume[t].pc # "idle" /\ UNCHANGED <<row, request, futures, drain, closed, orphans, restarts>>
    BY <1>2 DEF ResumeQuery
  <2>2. drain' \in BOOLEAN
    BY <2>1 DEF SInv, TypeOK
  <2>3. CASE Return(t)
    BY <2>1, <2>2, <2>3, ReturnKeepsAll
  <2>4. CASE ~Return(t)
    <3> DEFINE waiting == {s \in Scans : row[s] = "RUNNING"} \ resume[t].active
               chosen == First(waiting, resume[t].room + 1)
               run == [resume[t] EXCEPT !.pc = "decide", !.active = {}, !.found = chosen]
    <3>1. /\ resume' = [resume EXCEPT ![t] = run]
          /\ UNCHANGED job
      BY <1>0, <1>2, <2>4 DEF ResumeQuery, SInv, TypeOK
    <3>2. chosen \subseteq Scans
      BY FirstOf
    <3> HIDE DEF chosen
    <3>3. run \in RunRecords
      BY <1>0, <1>2, <3>2 DEF ResumeQuery, RunRecords
    <3> HIDE DEF run
    <3> QED
      BY <2>1, <2>2, <3>1, <3>3, RunKeeps
  <2> QED
    BY <2>3, <2>4
<1>3. CASE ResumeDecide(t)
  <2> DEFINE chosen == First(resume[t].found, resume[t].room)
             run == [resume[t] EXCEPT !.pc = "submit", !.room = 0, !.found = chosen]
  <2>1. /\ resume[t].pc # "idle"
        /\ UNCHANGED <<row, request, futures, job, closed, orphans, restarts>>
    BY <1>3 DEF ResumeDecide
  <2>2. drain' \in BOOLEAN
    BY <1>3 DEF ResumeDecide
  <2>3. resume' = [resume EXCEPT ![t] = run]
    BY <1>0, <1>3 DEF ResumeDecide, SInv, TypeOK
  <2>4. chosen \subseteq Scans
    BY <1>0, FirstOf DEF RunRecords
  <2> HIDE DEF chosen
  <2>5. run \in RunRecords
    <3>1. 0 \in 0..MaxOutstanding
      BY ScanAssumption
    <3>2. run \in [pc : {"submit"}, active : SUBSET Scans, room : {0}, found : SUBSET Scans]
      BY <1>0, <2>4 DEF RunRecords
    <3> HIDE DEF run
    <3> QED
      BY <3>1, <3>2 DEF RunRecords
  <2> HIDE DEF run
  <2> QED
    BY <2>1, <2>2, <2>3, <2>5, RunKeeps
<1>4. CASE ResumeSubmit(t)
  <2>1. PICK s \in First(resume[t].found, 1) :
          \/ SubmitAccepts(s, t) /\ resume' = [resume EXCEPT ![t].found = @ \ {s}]
          \/ SubmitFindsFull(s) /\ resume' = [resume EXCEPT ![t].pc = "full", ![t].found = {}]
          \/ closed /\ Return(t) /\ UNCHANGED futures
    BY <1>4 DEF ResumeSubmit
  <2>2. s \in Scans
    BY <1>0, <2>1, FirstOf DEF RunRecords
  <2>3. /\ resume[t].pc = "submit"
        /\ UNCHANGED <<row, request, drain, closed, orphans, restarts>>
        /\ drain' \in BOOLEAN
    BY <1>4 DEF ResumeSubmit, SInv, TypeOK
  <2> DEFINE rest == [resume[t] EXCEPT !.found = @ \ {s}]
             full == [resume[t] EXCEPT !.pc = "full", !.found = {}]
  <2>4. rest \in RunRecords /\ full \in RunRecords /\ rest.pc = "submit"
    BY <1>0, <2>3 DEF RunRecords
  <2>5. CASE Schedule(s, t) /\ resume' = [resume EXCEPT ![t].found = @ \ {s}]
    <3>1. /\ futures' \in [Scans -> Jobs \cup {NoJob}]
          /\ job' \in [Jobs -> JobRecords]
          /\ LiveIsRegistered' /\ NoSlotLeaks' /\ JobsHaveScans' /\ RoomKept'
          /\ \A j \in Jobs : resume[j].pc # "idle" => job'[j].at = "free"
          /\ \A j \in Jobs : Live(j) => Live(j)' /\ job'[j].scan = job[j].scan
      BY <1>0, <2>2, <2>5, ScheduleKeeps DEF SInv
    <3>2. resume' = [resume EXCEPT ![t] = rest]
      BY <1>0, <2>5 DEF SInv, TypeOK
    <3> HIDE DEF rest
    <3>3. TypeOK'
      BY <2>3, <2>4, <3>1, <3>2 DEF SInv, TypeOK
    <3>4. \A j \in Jobs : resume'[j].pc # "idle" => resume[j].pc # "idle"
      BY <2>3, <2>4, <3>2 DEF SInv, TypeOK, Threads
    <3>5. Registry'
      BY <3>1, <3>4 DEF Registry, CallbackForgot
    <3>6. NoScanIsStranded'
      BY <2>3, <3>1, StrandedKept DEF SInv
    <3> QED
      BY <3>3, <3>5, <3>6 DEF SInv
  <2>6. CASE UNCHANGED <<job, futures>> /\ resume' = [resume EXCEPT ![t].found = @ \ {s}]
    <3>1. resume' = [resume EXCEPT ![t] = rest]
      BY <1>0, <2>6 DEF SInv, TypeOK
    <3> HIDE DEF rest
    <3> QED
      BY <2>3, <2>4, <2>6, <3>1, RunKeeps
  <2>7. CASE /\ UNCHANGED <<job, futures>>
             /\ resume' = [resume EXCEPT ![t].pc = "full", ![t].found = {}]
    <3>1. resume' = [resume EXCEPT ![t] = full]
      BY <1>0, <2>7 DEF SInv, TypeOK
    <3> HIDE DEF full
    <3> QED
      BY <2>3, <2>4, <2>7, <3>1, RunKeeps
  <2>8. CASE Return(t) /\ UNCHANGED futures
    BY <2>3, <2>8, ReturnKeepsAll
  <2> QED
    BY <2>1, <2>5, <2>6, <2>7, <2>8 DEF SubmitAccepts, SubmitFindsFull
<1>5. CASE ResumeReturn(t)
  <2>1. /\ resume[t].pc # "idle" /\ Return(t)
        /\ UNCHANGED <<row, request, futures, drain, closed, orphans, restarts>>
    BY <1>5 DEF ResumeReturn
  <2> QED
    BY <2>1, ReturnKeepsAll DEF SInv, TypeOK
<1>6. CASE ResumeFull(t)
  <2>1. /\ resume[t].pc # "idle" /\ Return(t) /\ drain' \in BOOLEAN
        /\ UNCHANGED <<row, request, futures, closed, orphans, restarts>>
    BY <1>6 DEF ResumeFull
  <2> QED
    BY <2>1, ReturnKeepsAll
<1> QED
  BY <1>1, <1>2, <1>3, <1>4, <1>5, <1>6 DEF Resume

\* The end of a process leaves an empty registry, and no request to answer.
LEMMA ProcessKeeps ==
  ASSUME SInv, Shutdown \/ Restart
  PROVE  SInv'
<1>1. CASE Shutdown
  <2>1. TypeOK'
    BY <1>1 DEF Shutdown, SInv, TypeOK
  <2>2. Registry'
    BY <1>1 DEF Shutdown, SInv, Registry, LiveIsRegistered, NoSlotLeaks, JobsHaveScans,
                CallbackForgot, RoomKept, Active, Live
  <2>3. NoScanIsStranded'
    BY <1>1 DEF Shutdown, SInv, NoScanIsStranded, Live
  <2> QED
    BY <2>1, <2>2, <2>3 DEF SInv
<1>2. CASE Restart
  <2>1. TypeOK'
    <3>1. restarts' \in 0..MaxRestarts
      BY <1>2, ScanAssumption DEF Restart, SInv, TypeOK
    <3>2. resume' \in [Threads -> RunRecords]
      BY <1>2, ScanAssumption DEF Restart, Begin, NoRun, RunRecords
    <3> QED
      BY <1>2, <3>1, <3>2 DEF Restart, SInv, TypeOK, JobRecords, FreeJob
  <2>2. \A j \in Jobs : job'[j].at = "free" /\ resume'[j].pc = "idle"
    BY <1>2, NullAssumption DEF Restart, FreeJob, NoRun, Threads
  <2>3. \A s \in Scans : futures'[s] = NoJob
    BY <1>2 DEF Restart
  <2>4. RoomKept'
    <3>1. Active' = {}
      BY <2>3 DEF Active
    <3> QED
      BY <3>1, FS_EmptySet, ScanAssumption DEF RoomKept
  <2>5. Registry'
    BY <2>2, <2>3, <2>4 DEF Registry, LiveIsRegistered, NoSlotLeaks, JobsHaveScans,
                            CallbackForgot, Live, Pending
  <2>6. NoScanIsStranded'
    BY <1>2 DEF Restart, NoScanIsStranded
  <2> QED
    BY <2>1, <2>5, <2>6 DEF SInv
<1> QED
  BY <1>1, <1>2

LEMMA ScanInit == Init => SInv
<1> SUFFICES ASSUME Init PROVE SInv
  OBVIOUS
<1>1. TypeOK
  <2>1. resume \in [Threads -> RunRecords]
    BY ScanAssumption DEF Init, Begin, NoRun, RunRecords
  <2>2. restarts \in 0..MaxRestarts
    BY ScanAssumption DEF Init
  <2> QED
    BY <2>1, <2>2 DEF Init, TypeOK, JobRecords, FreeJob
<1>2. \A j \in Jobs : job[j].at = "free" /\ resume[j].pc = "idle"
  BY NullAssumption DEF Init, FreeJob, NoRun, Threads
<1>3. RoomKept
  <2>1. Active = {}
    BY DEF Init, Active
  <2> QED
    BY <2>1, FS_EmptySet, ScanAssumption DEF RoomKept
<1>4. Registry
  BY <1>2, <1>3 DEF Init, Registry, LiveIsRegistered, NoSlotLeaks, JobsHaveScans,
                    CallbackForgot, Live, Pending
<1>5. NoScanIsStranded
  BY DEF Init, NoScanIsStranded
<1> QED
  BY <1>1, <1>4, <1>5 DEF SInv

LEMMA ScanStep == SInv /\ [Next]_vars => SInv'
<1> SUFFICES ASSUME SInv, [Next]_vars PROVE SInv'
  OBVIOUS
<1>1. CASE UNCHANGED vars
  <2>1. TypeOK'
    BY <1>1 DEF vars, SInv, TypeOK
  <2>2. Registry'
    BY <1>1 DEF vars, SInv, Registry, LiveIsRegistered, NoSlotLeaks, JobsHaveScans,
                CallbackForgot, RoomKept, Active, Live
  <2>3. NoScanIsStranded'
    BY <1>1 DEF vars, SInv, NoScanIsStranded, Live
  <2> QED
    BY <2>1, <2>2, <2>3 DEF SInv
<1>2. CASE Next
  BY <1>2, RequestKeeps, JobKeeps, ResumeKeeps, ProcessKeeps DEF Next
<1> QED
  BY <1>1, <1>2

-----------------------------------------------------------------------------
(* The backlog.  With a query that does not fail, the executor keeps the rows *)
(* of an earlier process in mind: some thread still has them to submit, or     *)
(* _drain_backlog is set.  A thread clears the flag only with every row that   *)
(* waits among its own candidates.                                           *)

\* The rows of an earlier process that no future works on.
Unattended == {s \in Scans : LeftBehind(s) /\ futures[s] = NoJob}

\* The startup thread takes its snapshot before anything else happens.
StartupIsFirst == resume[Startup].pc = "snapshot" =>
  /\ \A s \in Scans : futures[s] = NoJob /\ request[s] = "none"
  /\ \A j \in Jobs : job[j].at = "free" /\ resume[j].pc = "idle"

\* A future is done only when its row has ended, or its failure is lost.
DoneIsEnded == \A j \in Jobs : job[j].at = "done" => ~LeftBehind(job[j].scan)

\* What a query leaves out is attended to.
QueriesSkip == \A t \in Threads : resume[t].pc = "query" => resume[t].active \cap Unattended = {}

\* A query that finds no row beyond the capacity found every row that waits.
DecisionsComplete == \A t \in Threads :
  resume[t].pc = "decide" =>
    Cardinality(resume[t].found) > resume[t].room \/ Unattended \subseteq resume[t].found

\* A thread that will submit every waiting row, or set _drain_backlog.
Minds(t) ==
  \/ t = Startup /\ resume[t].pc \in {"snapshot", "query"}
  \/ resume[t].pc \in {"decide", "full"}
  \/ resume[t].pc = "submit" /\ Unattended \subseteq resume[t].found

BacklogKept == closed \/ Unattended = {} \/ drain \/ \E t \in Threads : Minds(t)

BInv ==
  /\ SInv
  /\ StartupIsFirst /\ DoneIsEnded /\ QueriesSkip /\ DecisionsComplete /\ BacklogKept

\* A nonempty set of naturals has a least one.
LEMMA LeastOne ==
  ASSUME NEW T \in SUBSET Nat, T # {}
  PROVE  \E x \in T : \A y \in T : ~(y < x)
<1> DEFINE R == OpToRel(<, Nat)
<1>1. IsWellFoundedOn(R, Nat)
  BY NatLessThanWellFounded
<1>2. \A x, y \in Nat : y < x => <<y, x>> \in R
  BY DEF OpToRel
<1> HIDE DEF R
<1>3. PICK x \in T : \A y \in T : ~(<<y, x>> \in R)
  BY <1>1, WFMin
<1> QED
  BY <1>2, <1>3

\* The query's limit: fewer rows than it asks for are all the rows there are.
LEMMA FirstIsAll ==
  ASSUME NEW S \in SUBSET Scans, NEW n \in Nat, Cardinality(First(S, n)) < n
  PROVE  First(S, n) = S
<1> DEFINE Rest == S \ First(S, n)
           Before(s) == {t \in S : StartedAt[t] < StartedAt[s]}
<1>1. SUFFICES ASSUME Rest # {}
               PROVE  FALSE
  BY DEF First
<1>2. PICK s \in Rest : \A t \in Rest : ~(StartedAt[t] < StartedAt[s])
  <2> DEFINE Times == {StartedAt[t] : t \in Rest}
  <2>1. Times \in SUBSET Nat /\ Times # {}
    BY <1>1, ScanAssumption
  <2>2. PICK x \in Times : \A y \in Times : ~(y < x)
    BY <2>1, LeastOne
  <2> QED
    BY <2>2
<1>3. ~(Cardinality(Before(s)) < n)
  BY DEF First
<1>4. Before(s) \subseteq First(S, n)
  BY <1>2
<1>5. IsFiniteSet(First(S, n))
  BY ScanAssumption, FS_Subset DEF First
<1>6. /\ Cardinality(Before(s)) <= Cardinality(First(S, n))
      /\ Cardinality(Before(s)) \in Nat /\ Cardinality(First(S, n)) \in Nat
  BY <1>4, <1>5, FS_Subset, FS_CardinalityType
<1> QED
  BY <1>3, <1>6

\* The candidates that fit are taken without exception.
LEMMA FirstWithin ==
  ASSUME NEW S \in SUBSET Scans, NEW n \in Nat, Cardinality(S) <= n
  PROVE  First(S, n) = S
<1> SUFFICES ASSUME NEW s \in S
             PROVE  Cardinality({t \in S : StartedAt[t] < StartedAt[s]}) < n
  BY DEF First
<1> DEFINE Before == {t \in S : StartedAt[t] < StartedAt[s]}
<1>1. IsFiniteSet(S) /\ Cardinality(S) \in Nat
  BY ScanAssumption, FS_Subset, FS_CardinalityType
<1>2. Before \subseteq S /\ s \notin Before
  BY ScanAssumption
<1>3. /\ Cardinality(Before) <= Cardinality(S)
      /\ Cardinality(S) = Cardinality(Before) => S = Before
      /\ Cardinality(Before) \in Nat
  BY <1>1, <1>2, FS_Subset, FS_CardinalityType
<1> HIDE DEF Before
<1>4. Cardinality(Before) < Cardinality(S)
  BY <1>1, <1>2, <1>3
<1> QED
  BY <1>1, <1>3, <1>4 DEF Before

\* Nothing but the end of a process leaves rows behind.
LEMMA LeftBehindShrinks ==
  ASSUME TypeOK, Next, ~Restart, NEW s \in Scans, LeftBehind(s)'
  PROVE  LeftBehind(s)
<1> USE DEF LeftBehind, TypeOK
<1>1. CASE \E u \in Scans : CreateScan(u) \/ RefuseScan(u)
  BY <1>1 DEF CreateScan, RefuseScan, FailPending, LoseFailure
<1>2. CASE \E u \in Scans : SubmitScan(u)
  BY <1>2 DEF SubmitScan
<1>3. CASE \E j \in Jobs : PersistResult(j) \/ RecordFailure(j)
  BY <1>3 DEF PersistResult, RecordFailure, FailPending, LoseFailure
<1>4. CASE UNCHANGED <<row, request, orphans>>
  BY <1>4
<1> QED
  BY <1>1, <1>2, <1>3, <1>4
  DEF Next, Request, StartJob, Work, Register, CollectionFails, Forget, Resume,
      ResumeSnapshot, ResumeQuery, ResumeDecide, ResumeSubmit, ResumeReturn, ResumeFull, Shutdown

\* A scan loses its future only when that future is done.
LEMMA FuturesStay ==
  ASSUME SInv, Next, ~Restart, NEW s \in Scans, futures'[s] = NoJob
  PROVE  \/ futures[s] = NoJob
         \/ futures[s] \in Jobs /\ job[futures[s]].at = "done"
<1>0. futures \in [Scans -> Jobs \cup {NoJob}]
  BY DEF SInv, TypeOK
<1>1. CASE \E u \in Scans, c \in Callers : SubmitAccepts(u, c)
  BY <1>0, <1>1, NullAssumption DEF SubmitAccepts, Schedule
<1>2. CASE \E j \in Jobs : Forget(j)
  BY <1>0, <1>2 DEF Forget
<1>3. CASE UNCHANGED futures
  BY <1>3
<1>4. CASE \E u \in Scans : SubmitScan(u)
  BY <1>1, <1>3, <1>4 DEF SubmitScan, SubmitFindsFull, Callers
<1>5. CASE \E t \in Threads : ResumeSubmit(t)
  <2>1. PICK t \in Threads : ResumeSubmit(t)
    BY <1>5
  <2>2. First(resume[t].found, 1) \subseteq Scans
    BY FirstOf DEF SInv, TypeOK, RunRecords
  <2> QED
    BY <1>1, <1>3, <2>1, <2>2 DEF ResumeSubmit, SubmitFindsFull, Callers
<1> QED
  BY <1>2, <1>3, <1>4, <1>5
  DEF Next, Request, CreateScan, RefuseScan, StartJob, Work, Register, PersistResult, RecordFailure,
      CollectionFails, Resume, ResumeSnapshot, ResumeQuery, ResumeDecide, ResumeReturn, ResumeFull, Shutdown

LEMMA UnattendedShrinks ==
  ASSUME BInv, Next, ~Restart
  PROVE  Unattended' \subseteq Unattended
<1> SUFFICES ASSUME NEW s \in Scans, LeftBehind(s)', futures'[s] = NoJob
             PROVE  LeftBehind(s) /\ futures[s] = NoJob
  BY DEF Unattended
<1>1. LeftBehind(s)
  BY LeftBehindShrinks DEF BInv, SInv
<1>2. ASSUME futures[s] \in Jobs, job[futures[s]].at = "done"
      PROVE  FALSE
  <2>1. job[futures[s]].scan = s
    BY <1>2, NullAssumption DEF BInv, SInv, Registry, NoSlotLeaks
  <2> QED
    BY <1>1, <1>2, <2>1 DEF BInv, DoneIsEnded
<1> QED
  BY <1>1, <1>2, FuturesStay DEF BInv

\* A thread that Forget does not start goes on as it was.
LEMMA OutsideKeeps ==
  ASSUME BInv, Unattended' \subseteq Unattended, drain' = drain, closed => closed',
         \A t \in Threads :
           \/ resume'[t] = resume[t]
           \/ t \in Jobs /\ resume[t].pc = "idle" /\ resume'[t].pc = "snapshot"
  PROVE  QueriesSkip' /\ DecisionsComplete' /\ BacklogKept'
<1>1. QueriesSkip'
  BY DEF BInv, QueriesSkip
<1>2. DecisionsComplete'
  BY DEF BInv, DecisionsComplete
<1>3. \A t \in Threads : Minds(t) => Minds(t)'
  BY NullAssumption DEF Minds
<1>4. BacklogKept'
  BY <1>3 DEF BInv, BacklogKept
<1> QED
  BY <1>1, <1>2, <1>4

\* A step of resume_pending: the thread either goes on minding the rows, or
\* leaves _drain_backlog set.
LEMMA RunKeepsBacklog ==
  ASSUME BInv, Unattended' \subseteq Unattended, closed' = closed, NEW t \in Threads,
         \A u \in Threads \ {t} : resume'[u] = resume[u],
         resume'[t].pc = "query" => resume'[t].active \cap Unattended' = {},
         resume'[t].pc = "decide" =>
           \/ Cardinality(resume'[t].found) > resume'[t].room
           \/ Unattended' \subseteq resume'[t].found,
         drain \/ Minds(t) => closed \/ Unattended' = {} \/ drain' \/ Minds(t)'
  PROVE  QueriesSkip' /\ DecisionsComplete' /\ BacklogKept'
<1>1. QueriesSkip'
  BY DEF BInv, QueriesSkip
<1>2. DecisionsComplete'
  BY DEF BInv, DecisionsComplete
<1>3. \A u \in Threads \ {t} : Minds(u) => Minds(u)'
  BY DEF Minds
<1>4. BacklogKept'
  BY <1>3 DEF BInv, BacklogKept
<1> QED
  BY <1>1, <1>2, <1>4

\* Nothing happens before the snapshot of the startup thread, and it is taken once.
LEMMA StartupGoesFirst ==
  ASSUME BInv, Next, ~Restart
  PROVE  resume'[Startup].pc # "snapshot"
<1> USE DEF BInv, StartupIsFirst
<1>0. /\ Startup \in Threads /\ Startup \notin Jobs /\ Jobs \subseteq Threads
      /\ resume \in [Threads -> RunRecords] /\ job \in [Jobs -> JobRecords]
  BY NullAssumption DEF Threads, SInv, TypeOK
<1>1. CASE \E s \in Scans : CreateScan(s) \/ Request(s)
  BY <1>0, <1>1 DEF CreateScan, Request, SubmitScan, RefuseScan
<1>2. CASE \E j \in Jobs : StartJob(j) \/ Work(j)
  <2>1. PICK j \in Jobs : StartJob(j) \/ Work(j)
    BY <1>2
  <2>2. job[j].at # "free" /\ resume'[Startup] = resume[Startup]
    BY <1>0, <2>1 DEF StartJob, Work, Register, PersistResult, CollectionFails, RecordFailure, Forget, Pending
  <2> QED
    BY <1>0, <2>2
<1>3. CASE \E t \in Threads : Resume(t)
  <2>1. PICK t \in Threads : Resume(t)
    BY <1>3
  <2>2. resume[t].pc # "idle"
    BY <2>1 DEF Resume, ResumeSnapshot, ResumeQuery, ResumeDecide, ResumeSubmit, ResumeReturn, ResumeFull
  <2>3. CASE t = Startup
    <3>1. ASSUME ResumeSnapshot(t)
          PROVE  resume'[Startup].pc # "snapshot"
      BY <1>0, <2>3, <3>1 DEF ResumeSnapshot, Return, NoRun
    <3>2. ASSUME ResumeQuery(t) \/ ResumeDecide(t) \/ ResumeReturn(t) \/ ResumeFull(t)
          PROVE  resume'[Startup].pc # "snapshot"
      BY <1>0, <2>3, <3>2 DEF ResumeQuery, ResumeDecide, ResumeReturn, ResumeFull, Return, NoRun, RunRecords
    <3>3. ASSUME ResumeSubmit(t)
          PROVE  resume'[Startup].pc # "snapshot"
      BY <1>0, <2>3, <3>3 DEF ResumeSubmit, Return, NoRun, RunRecords
    <3> QED
      BY <2>1, <3>1, <3>2, <3>3 DEF Resume
  <2>4. CASE t # Startup
    <3>1. t \in Jobs /\ resume[Startup].pc # "snapshot"
      BY <2>2, <2>4 DEF Threads
    <3>2. resume'[Startup] = resume[Startup]
      BY <1>0, <2>1, <2>4
      DEF Resume, ResumeSnapshot, ResumeQuery, ResumeDecide, ResumeSubmit, ResumeReturn, ResumeFull, Return
    <3> QED
      BY <3>1, <3>2
  <2> QED
    BY <2>3, <2>4
<1>4. CASE Shutdown
  BY <1>4 DEF Shutdown
<1> QED
  BY <1>1, <1>2, <1>3, <1>4 DEF Next

\* A job is done after its row ended, or was given up.
LEMMA DoneKept ==
  ASSUME BInv, Next, ~Restart
  PROVE  DoneIsEnded'
<1> SUFFICES ASSUME NEW j \in Jobs, NEW s \in Scans, job'[j].at = "done", job'[j].scan = s
             PROVE  ~LeftBehind(s)'
  <2>1. \A j \in Jobs : job'[j].at = "done" => job'[j].scan \in Scans
    BY ScanStep DEF BInv, SInv, Registry, JobsHaveScans
  <2> QED
    BY <2>1 DEF DoneIsEnded, LeftBehind
<1>0. /\ job \in [Jobs -> JobRecords] /\ row \in [Scans -> {"absent", "RUNNING"} \cup Terminal]
      /\ \A i \in Jobs : job[i].at # "free" => job[i].scan \in Scans
  BY DEF BInv, SInv, TypeOK, Registry, JobsHaveScans
<1>1. LeftBehind(s)' => LeftBehind(s)
  BY LeftBehindShrinks DEF BInv, SInv
<1>2. CASE job[j].at = "done" /\ job'[j].scan = job[j].scan
  BY <1>0, <1>1, <1>2 DEF BInv, DoneIsEnded
<1>3. CASE /\ StartJob(j) \/ PersistResult(j) \/ RecordFailure(j)
           /\ job[j].at \in Pending /\ job'[j].scan = job[j].scan
  <2>1. row'[s] # "RUNNING" \/ s \in orphans'
    BY <1>0, <1>3 DEF StartJob, PersistResult, RecordFailure, Move, FailPending, LoseFailure, Pending, JobRecords
  <2> QED
    BY <1>3, <2>1 DEF LeftBehind
<1>4. ASSUME NEW u \in Scans, NEW c \in Callers, SubmitAccepts(u, c) \/ UNCHANGED job
      PROVE  job[j].at = "done" /\ job'[j].scan = job[j].scan
  BY <1>0, <1>4 DEF SubmitAccepts, Schedule
<1>5. CASE \E i \in Jobs : StartJob(i) \/ Work(i)
  <2>1. PICK i \in Jobs : StartJob(i) \/ Work(i)
    BY <1>5
  <2>2. CASE i # j
    <3>1. job'[j] = job[j]
      BY <1>0, <2>1, <2>2
      DEF StartJob, Work, Register, PersistResult, CollectionFails, RecordFailure, Forget, Move
    <3> QED
      BY <1>2, <3>1
  <2>3. CASE i = j
    <3>1. CASE Register(j) \/ CollectionFails(j) \/ Forget(j)
      BY <1>0, <3>1 DEF Register, CollectionFails, Forget, Move, FreeJob, Pending, JobRecords
    <3>2. CASE StartJob(j) \/ PersistResult(j) \/ RecordFailure(j)
      <4>1. job[j].at \in Pending /\ job'[j].scan = job[j].scan
        BY <1>0, <3>2 DEF StartJob, PersistResult, RecordFailure, Move, Pending, JobRecords
      <4> QED
        BY <1>3, <3>2, <4>1
    <3> QED
      BY <2>1, <2>3, <3>1, <3>2 DEF Work
  <2> QED
    BY <2>2, <2>3
<1>6. CASE \E u \in Scans : CreateScan(u) \/ Request(u)
  BY <1>2, <1>4, <1>6 DEF CreateScan, Request, SubmitScan, RefuseScan, SubmitFindsFull, Callers
<1>7. CASE \E t \in Threads : Resume(t)
  <2>1. PICK t \in Threads : Resume(t)
    BY <1>7
  <2>2. CASE UNCHANGED job \/ Return(t)
    <3>1. job'[j] = job[j]
      BY <2>2 DEF Return, FreeJob
    <3> QED
      BY <1>2, <3>1
  <2>3. CASE ResumeSubmit(t)
    <3>1. First(resume[t].found, 1) \subseteq Scans
      BY FirstOf DEF BInv, SInv, TypeOK, RunRecords
    <3> QED
      BY <1>2, <1>4, <2>2, <2>3, <3>1 DEF ResumeSubmit, SubmitFindsFull, Callers
  <2>4. CASE ~ResumeSubmit(t)
    BY <2>1, <2>2, <2>4 DEF Resume, ResumeSnapshot, ResumeQuery, ResumeDecide, ResumeReturn, ResumeFull
  <2> QED
    BY <2>3, <2>4
<1>8. CASE Shutdown
  BY <1>2, <1>8 DEF Shutdown
<1> QED
  BY <1>5, <1>6, <1>7, <1>8 DEF Next

\* resume_pending forgets no row: what its query left out has a future, and what
\* it decided on it submits, or meets the capacity error.
LEMMA ResumeMinds ==
  ASSUME BInv, ~QueriesFail, NEW t \in Threads, Resume(t), Next, ~Restart
  PROVE  QueriesSkip' /\ DecisionsComplete' /\ BacklogKept'
<1>0. /\ resume \in [Threads -> RunRecords] /\ resume[t] \in RunRecords
      /\ futures \in [Scans -> Jobs \cup {NoJob}] /\ NoJob \notin Jobs
      /\ Unattended \subseteq Scans /\ Unattended' \subseteq Unattended
  BY UnattendedShrinks, NullAssumption DEF BInv, SInv, TypeOK, Unattended
<1>1. closed' = closed /\ \A u \in Threads \ {t} : resume'[u] = resume[u]
  BY <1>0 DEF Resume, ResumeSnapshot, ResumeQuery, ResumeDecide, ResumeSubmit, ResumeReturn, ResumeFull, Return
<1>2. CASE ResumeSnapshot(t)
  <2>1. resume[t].pc = "snapshot" /\ drain' = drain
    BY <1>2 DEF ResumeSnapshot
  <2>2. CASE Return(t) /\ (closed \/ MaxOutstanding - Cardinality(Active) <= 0)
    <3>1. resume'[t].pc = "idle"
      BY <1>0, <2>2 DEF Return, NoRun
    <3>2. CASE t = Startup /\ ~closed
      <4>1. Active = {}
        BY <2>1, <3>2 DEF BInv, StartupIsFirst, Active
      <4>2. Cardinality(Active) = 0
        BY <4>1, FS_EmptySet
      <4> QED
        BY <2>2, <3>2, <4>2, ScanAssumption
    <3>3. CASE t # Startup \/ closed
      <4>1. Minds(t) => closed
        BY <2>1, <3>3 DEF Minds
      <4> QED
        BY <1>0, <1>1, <2>1, <3>1, <4>1, RunKeepsBacklog
    <3> QED
      BY <3>2, <3>3
  <2>3. CASE resume' = [resume EXCEPT ![t] =
               [pc |-> "query", active |-> Active, room |-> MaxOutstanding - Cardinality(Active), found |-> {}]]
    <3>1. resume'[t].pc = "query" /\ resume'[t].active = Active
      BY <1>0, <2>3
    <3>2. Active \cap Unattended' = {}
      BY <1>0 DEF Active, Unattended
    <3>3. Minds(t) => Minds(t)'
      BY <2>1, <3>1 DEF Minds
    <3> QED
      BY <1>0, <1>1, <2>1, <3>1, <3>2, <3>3, RunKeepsBacklog
  <2> QED
    BY <1>2, <2>2, <2>3 DEF ResumeSnapshot
<1>3. CASE ResumeQuery(t)
  <2> DEFINE waiting == {s \in Scans : row[s] = "RUNNING"} \ resume[t].active
             chosen == First(waiting, resume[t].room + 1)
             room == resume[t].room
  <2>1. /\ resume[t].pc = "query" /\ drain' = drain
        /\ resume' = [resume EXCEPT ![t].pc = "decide", ![t].active = {}, ![t].found = chosen]
    BY <1>3 DEF ResumeQuery
  <2>2. resume'[t].pc = "decide" /\ resume'[t].found = chosen /\ resume'[t].room = room
    BY <1>0, <2>1 DEF RunRecords
  <2>3. Unattended \subseteq waiting /\ waiting \in SUBSET Scans
    BY <2>1 DEF BInv, QueriesSkip, Unattended, LeftBehind
  <2>4. room \in Nat
    BY <1>0, ScanAssumption DEF RunRecords
  <2> HIDE DEF waiting, room
  <2>5. IsFiniteSet(chosen) /\ Cardinality(chosen) \in Nat
    BY <2>3, FirstOf, ScanAssumption, FS_Subset, FS_CardinalityType
  <2>6. Cardinality(chosen) > room \/ chosen = waiting
    <3>1. CASE Cardinality(chosen) < room + 1
      BY <2>3, <2>4, <3>1, FirstIsAll DEF room
    <3>2. CASE ~(Cardinality(chosen) < room + 1)
      <4> HIDE DEF chosen
      <4> QED
        BY <2>4, <2>5, <3>2
    <3> QED
      BY <3>1, <3>2
  <2> HIDE DEF chosen
  <2>7. Minds(t)'
    BY <2>2 DEF Minds
  <2> QED
    BY <1>0, <1>1, <2>1, <2>2, <2>3, <2>6, <2>7, RunKeepsBacklog
<1>4. CASE ResumeDecide(t)
  <2> DEFINE found == resume[t].found
             room == resume[t].room
  <2>1. /\ resume[t].pc = "decide" /\ drain' = (Cardinality(found) > room)
        /\ resume' = [resume EXCEPT ![t].pc = "submit", ![t].room = 0, ![t].found = First(found, room)]
    BY <1>4 DEF ResumeDecide
  <2>2. resume'[t].pc = "submit" /\ resume'[t].found = First(found, room)
    BY <1>0, <2>1 DEF RunRecords
  <2>3. found \in SUBSET Scans /\ room \in Nat
    BY <1>0, ScanAssumption DEF RunRecords
  <2>4. Cardinality(found) > room \/ Unattended \subseteq found
    BY <2>1 DEF BInv, DecisionsComplete
  <2> HIDE DEF found, room
  <2>5. Cardinality(found) \in Nat
    BY <2>3, ScanAssumption, FS_Subset, FS_CardinalityType
  <2>6. drain' \/ Minds(t)'
    <3>1. CASE Cardinality(found) <= room
      <4>1. First(found, room) = found
        BY <2>3, <3>1, FirstWithin
      <4>2. Unattended \subseteq found
        BY <2>3, <2>4, <2>5, <3>1
      <4> QED
        BY <1>0, <2>2, <4>1, <4>2 DEF Minds
    <3>2. CASE ~(Cardinality(found) <= room)
      <4>1. Cardinality(found) > room
        BY <2>3, <2>5, <3>2
      <4>2. drain' = (Cardinality(found) > room)
        BY <2>1
      <4> QED
        BY <4>1, <4>2, Zenon
    <3> QED
      BY <3>1, <3>2
  <2> QED
    BY <1>0, <1>1, <2>2, <2>6, RunKeepsBacklog
<1>5. CASE ResumeSubmit(t)
  <2>1. resume[t].pc = "submit" /\ drain' = drain
    BY <1>5 DEF ResumeSubmit
  <2>2. PICK s \in First(resume[t].found, 1) :
          \/ SubmitAccepts(s, t) /\ resume' = [resume EXCEPT ![t].found = @ \ {s}]
          \/ SubmitFindsFull(s) /\ resume' = [resume EXCEPT ![t].pc = "full", ![t].found = {}]
          \/ closed /\ Return(t) /\ UNCHANGED futures
    BY <1>5 DEF ResumeSubmit
  <2>3. s \in Scans
    BY <1>0, <2>2, FirstOf DEF RunRecords
  <2>4. CASE SubmitAccepts(s, t) /\ resume' = [resume EXCEPT ![t].found = @ \ {s}]
    <3>1. resume'[t].pc = "submit" /\ resume'[t].found = resume[t].found \ {s}
      BY <1>0, <2>1, <2>4 DEF RunRecords
    <3>2. futures'[s] # NoJob
      BY <1>0, <2>3, <2>4 DEF SubmitAccepts, Schedule, Scheduled
    <3>3. s \notin Unattended'
      BY <3>2 DEF Unattended
    <3>4. Minds(t) => Minds(t)'
      BY <1>0, <2>1, <3>1, <3>3 DEF Minds
    <3> QED
      BY <1>0, <1>1, <2>1, <3>1, <3>4, RunKeepsBacklog
  <2>5. CASE resume' = [resume EXCEPT ![t].pc = "full", ![t].found = {}]
    <3>1. resume'[t].pc = "full"
      BY <1>0, <2>5 DEF RunRecords
    <3>2. Minds(t)'
      BY <3>1 DEF Minds
    <3> QED
      BY <1>0, <1>1, <3>1, <3>2, RunKeepsBacklog
  <2>6. CASE closed /\ Return(t)
    <3>1. resume'[t].pc = "idle"
      BY <1>0, <2>6 DEF Return, NoRun
    <3> QED
      BY <1>0, <1>1, <2>6, <3>1, RunKeepsBacklog
  <2> QED
    BY <2>2, <2>4, <2>5, <2>6
<1>6. CASE ResumeReturn(t)
  <2>1. /\ resume[t].pc = "submit" /\ resume[t].found = {} /\ drain' = drain
        /\ Return(t)
    BY <1>6 DEF ResumeReturn
  <2>2. resume'[t].pc = "idle"
    BY <1>0, <2>1 DEF Return, NoRun
  <2>3. Minds(t) => Unattended' = {}
    BY <1>0, <2>1 DEF Minds
  <2> QED
    BY <1>0, <1>1, <2>1, <2>2, <2>3, RunKeepsBacklog
<1>7. CASE ResumeFull(t)
  <2>1. drain' = TRUE /\ Return(t)
    BY <1>7 DEF ResumeFull
  <2>2. resume'[t].pc = "idle"
    BY <1>0, <2>1 DEF Return, NoRun
  <2> QED
    BY <1>0, <1>1, <2>1, <2>2, RunKeepsBacklog
<1> QED
  BY <1>2, <1>3, <1>4, <1>5, <1>6, <1>7 DEF Resume

LEMMA BacklogStep ==
  ASSUME BInv, ~QueriesFail, [Next]_vars
  PROVE  BInv'
<1>0. SInv'
  BY ScanStep DEF BInv
<1>1. CASE UNCHANGED vars
  <2>1. Unattended' = Unattended
    BY <1>1 DEF vars, Unattended, LeftBehind
  <2>2. StartupIsFirst' /\ DoneIsEnded'
    BY <1>1 DEF vars, BInv, StartupIsFirst, DoneIsEnded, LeftBehind
  <2>3. QueriesSkip' /\ DecisionsComplete' /\ BacklogKept'
    BY <1>1, <2>1, OutsideKeeps DEF vars
  <2> QED
    BY <1>0, <2>2, <2>3 DEF BInv
<1>2. CASE Restart
  <2>1. /\ \A j \in Jobs : job'[j].at = "free" /\ resume'[j].pc = "idle"
        /\ resume'[Startup].pc = "snapshot" /\ Startup \in Threads
        /\ \A s \in Scans : futures'[s] = NoJob /\ request'[s] = "none"
        /\ \A t \in Threads : resume'[t].pc \in {"idle", "snapshot"}
    BY <1>2, NullAssumption DEF Restart, FreeJob, Begin, NoRun, Threads
  <2>2. StartupIsFirst' /\ DoneIsEnded' /\ QueriesSkip' /\ DecisionsComplete'
    BY <2>1 DEF StartupIsFirst, DoneIsEnded, QueriesSkip, DecisionsComplete
  <2>3. Minds(Startup)'
    BY <2>1 DEF Minds
  <2>4. BacklogKept'
    BY <2>1, <2>3 DEF BacklogKept
  <2> QED
    BY <1>0, <2>2, <2>4 DEF BInv
<1>3. CASE Next /\ ~Restart
  <2>1. StartupIsFirst' /\ DoneIsEnded'
    BY <1>3, StartupGoesFirst, DoneKept DEF StartupIsFirst
  <2>2. Unattended' \subseteq Unattended
    BY <1>3, UnattendedShrinks
  <2>3. CASE \E t \in Threads : Resume(t)
    <3>1. QueriesSkip' /\ DecisionsComplete' /\ BacklogKept'
      BY <1>3, <2>3, ResumeMinds
    <3> QED
      BY <1>0, <2>1, <3>1 DEF BInv
  <2>4. CASE ~ \E t \in Threads : Resume(t)
    <3>1. /\ resume \in [Threads -> RunRecords] /\ Jobs \subseteq Threads
          /\ \A j \in Jobs : job[j].at = "done" => resume[j].pc = "idle"
      BY DEF BInv, SInv, TypeOK, Threads, Registry, CallbackForgot
    <3>2. /\ drain' = drain /\ (closed => closed')
          /\ \/ UNCHANGED resume
             \/ \E j \in Jobs : Forget(j)
      BY <1>3, <2>4
      DEF Next, Request, CreateScan, SubmitScan, RefuseScan, StartJob, Work, Register, PersistResult,
          CollectionFails, RecordFailure, Forget, Shutdown
    <3>3. \A t \in Threads :
            \/ resume'[t] = resume[t]
            \/ t \in Jobs /\ resume[t].pc = "idle" /\ resume'[t].pc = "snapshot"
      BY <3>1, <3>2 DEF Forget, Begin, NoRun
    <3>4. QueriesSkip' /\ DecisionsComplete' /\ BacklogKept'
      BY <2>2, <3>2, <3>3, OutsideKeeps
    <3> QED
      BY <1>0, <2>1, <3>4 DEF BInv
  <2> QED
    BY <2>3, <2>4
<1> QED
  BY <1>1, <1>2, <1>3

\* When the recovery query works, no row of an earlier process is forgotten: with
\* any number of workers, slots, rows and requests, and however stale what the
\* callbacks read has become, an executor at rest with such a row has
\* _drain_backlog set.
THEOREM BacklogKeptInMind == ASSUME ~QueriesFail PROVE Spec => []BacklogIsRemembered
<1>1. Init => BInv
  <2> SUFFICES ASSUME Init PROVE BInv
    OBVIOUS
  <2>1. /\ \A j \in Jobs : job[j].at = "free" /\ resume[j].pc = "idle"
        /\ resume[Startup].pc = "snapshot" /\ Startup \in Threads
        /\ \A s \in Scans : futures[s] = NoJob /\ request[s] = "none"
        /\ \A t \in Threads : resume[t].pc \in {"idle", "snapshot"}
    BY NullAssumption DEF Init, FreeJob, Begin, NoRun, Threads
  <2>2. StartupIsFirst /\ DoneIsEnded /\ QueriesSkip /\ DecisionsComplete
    BY <2>1 DEF StartupIsFirst, DoneIsEnded, QueriesSkip, DecisionsComplete
  <2>3. BacklogKept
    BY <2>1 DEF BacklogKept, Minds
  <2> QED
    BY <2>2, <2>3, ScanInit DEF BInv
<1>2. BInv /\ [Next]_vars => BInv'
  BY BacklogStep
<1>3. BInv => BacklogIsRemembered
  <2> SUFFICES ASSUME BInv, Quiet, ~closed, NEW s \in Scans, LeftBehind(s)
               PROVE  drain
    BY DEF BacklogIsRemembered
  <2>1. futures[s] = NoJob
    BY DEF BInv, SInv, TypeOK, Registry, NoSlotLeaks, Quiet
  <2>2. Unattended # {}
    BY <2>1 DEF Unattended
  <2>3. \A t \in Threads : ~Minds(t)
    BY DEF Quiet, Minds
  <2> QED
    BY <2>2, <2>3 DEF BInv, BacklogKept
<1> QED
  BY <1>1, <1>2, <1>3, PTL DEF Spec

\* Types of the executor, its rows and its threads.
THEOREM ScanTypes == Spec => []TypeOK
<1>1. SInv => TypeOK
  BY DEF SInv
<1> QED
  BY <1>1, ScanInit, ScanStep, PTL DEF Spec

\* submit schedules one scan id at most once concurrently, for any number of
\* threads that submit and whatever they read before.
THEOREM ScansRunOnce == Spec => []OneJobPerScan
<1>1. SInv => OneJobPerScan
  BY DEF SInv, Registry, LiveIsRegistered, OneJobPerScan
<1> QED
  BY <1>1, ScanInit, ScanStep, PTL DEF Spec

\* max_outstanding bounds the jobs of the pool: they map one to one into the
\* registered scans.
THEOREM PoolBounded == Spec => []OutstandingBounded
<1>1. ASSUME SInv PROVE OutstandingBounded
  <2> DEFINE L == {j \in Jobs : Live(j)}
             f == [j \in L |-> job[j].scan]
  <2>1. \A j \in L : job[j].scan \in Scans /\ futures[job[j].scan] = j
    BY <1>1 DEF SInv, Registry, LiveIsRegistered, JobsHaveScans, Live, Pending
  <2>2. f \in [L -> Active]
    BY <2>1, NullAssumption DEF Active
  <2>3. \A x, y \in L : x # y => f[x] # f[y]
    BY <2>1
  <2> HIDE DEF f, L
  <2>4. f \in Injection(L, Active)
    BY <2>2, <2>3 DEF Injection, IsInjective
  <2>5. IsFiniteSet(L) /\ Cardinality(L) <= Cardinality(Active)
    BY <2>4, ActiveFinite, FS_Injection
  <2>6. Cardinality(L) \in Nat
    BY <2>5, FS_CardinalityType
  <2>7. Cardinality(L) <= MaxOutstanding
    BY <1>1, <2>5, <2>6, ActiveFinite, ScanAssumption DEF SInv, Registry, RoomKept
  <2> QED
    BY <2>7 DEF L, OutstandingBounded
<1> QED
  BY <1>1, ScanInit, ScanStep, PTL DEF Spec

\* The registry leaks no capacity: _forget removes the future of every job.
THEOREM SlotsReturn == Spec => []NoSlotLeaks
<1>1. SInv => NoSlotLeaks
  BY DEF SInv, Registry
<1> QED
  BY <1>1, ScanInit, ScanStep, PTL DEF Spec

\* A scan start_scan has answered for has ended, or a job works on it, or the
\* database refused to save its failure.
THEOREM AnsweredScansWork == Spec => []NoScanIsStranded
<1>1. SInv => NoScanIsStranded
  BY DEF SInv
<1> QED
  BY <1>1, ScanInit, ScanStep, PTL DEF Spec

\* The row lock and the second look at the status make the end of a scan final.
THEOREM ScanEndsOnce == Spec => TerminalIsFinal
<1>1. ASSUME TypeOK, [Next]_vars, NEW s \in Scans, row[s] \in Terminal
      PROVE  row'[s] = row[s]
  <2>1. row \in [Scans -> {"absent", "RUNNING"} \cup Terminal]
    BY <1>1 DEF TypeOK
  <2>2. CASE UNCHANGED row
    BY <2>2
  <2>3. CASE \E u \in Scans : CreateScan(u) \/ RefuseScan(u)
    BY <1>1, <2>1, <2>3 DEF CreateScan, RefuseScan, FailPending, LoseFailure, Terminal
  <2>4. CASE \E j \in Jobs : PersistResult(j) \/ RecordFailure(j)
    BY <1>1, <2>1, <2>4 DEF PersistResult, RecordFailure, FailPending, LoseFailure, Terminal
  <2> QED
    BY <1>1, <2>2, <2>3, <2>4
    DEF Next, vars, Request, SubmitScan, StartJob, Work, Register, CollectionFails, Forget, Resume,
        ResumeSnapshot, ResumeQuery, ResumeDecide, ResumeSubmit, ResumeReturn, ResumeFull,
        Shutdown, Restart
<1>2. TypeOK /\ [Next]_vars => [\A s \in Scans : row[s] \in Terminal => row'[s] = row[s]]_vars
  BY <1>1
<1> QED
  BY <1>2, ScanTypes, PTL DEF Spec, TerminalIsFinal
=============================================================================
