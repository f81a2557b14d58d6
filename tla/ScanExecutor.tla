---------------------------- MODULE ScanExecutor ----------------------------
(***************************************************************************)
(* InProcessScanExecutor with its callers: ScanService.start_scan, the      *)
(* startup recovery of the application, and the jobs of the thread pool.    *)
(* One API process runs at a time; its scans are durable rows.              *)
(*                                                                         *)
(* A step is one critical section of _lock, one database transaction or one *)
(* stretch of a thread between two of them.  The done callback of a future  *)
(* runs in the pool thread of its job, which it keeps busy, or, when the    *)
(* job ends before submit registers it, in the thread that called submit,   *)
(* which waits for it; the callback of job j is the run resume[j].          *)
(***************************************************************************)
EXTENDS Integers, FiniteSets

CONSTANTS
  Scans,            \* scan ids
  Jobs,             \* identities of futures, reused once forgotten
  NoScan, NoJob,    \* nulls
  Pool,             \* the threads of the pool
  Startup,          \* the lifespan thread that calls resume_pending
  Backlog,          \* RUNNING rows an earlier process left behind
  StartedAt,        \* each scan's place in the order by started_at and scan id
  MaxWorkers, MaxOutstanding,
  QueriesFail,      \* whether the recovery query may fail
  MaxOrphans,       \* bound: failures that cannot be saved
  MaxRestarts       \* bound: ends of the process

ASSUME ScanAssumption ==
  /\ IsFiniteSet(Scans)
  /\ Backlog \subseteq Scans
  /\ StartedAt \in [Scans -> Nat]
  /\ \A s, t \in Scans : StartedAt[s] = StartedAt[t] => s = t
  /\ MaxWorkers \in Nat \ {0}
  /\ MaxOutstanding \in Nat \ {0}
  /\ MaxOutstanding >= MaxWorkers
  /\ MaxOrphans \in Nat
  /\ MaxRestarts \in Nat

ASSUME NullAssumption ==
  /\ NoScan \notin Scans
  /\ NoJob \notin Jobs
  /\ Startup \notin Jobs

VARIABLES
  row,        \* durable status of each scan; "COMPLETED" is any persisted result
  request,    \* where start_scan stands for each scan
  futures,    \* _futures
  job,        \* each future: its scan, its state, and where its callback runs
  resume,     \* each thread's run of resume_pending
  drain,      \* _drain_backlog
  closed,     \* _closed
  orphans,    \* scans whose failure could not be saved
  restarts    \* ends of the process so far

vars == <<row, request, futures, job, resume, drain, closed, orphans, restarts>>

Threads == Jobs \cup {Startup}        \* that may be in resume_pending
Callers == Scans \cup Threads         \* of submit; the request for s is s itself
Terminal == {"COMPLETED", "FAILED"}
Pending == {"queued", "collecting", "failing"}     \* not future.done()

NoRun == [pc |-> "idle", active |-> {}, room |-> 0, found |-> {}]
Begin == [NoRun EXCEPT !.pc = "snapshot"]
FreeJob == [scan |-> NoScan, at |-> "free", thread |-> Pool]

Init ==
  /\ row = [s \in Scans |-> IF s \in Backlog THEN "RUNNING" ELSE "absent"]
  /\ request = [s \in Scans |-> "none"]
  /\ futures = [s \in Scans |-> NoJob]
  /\ job = [j \in Jobs |-> FreeJob]
  /\ resume = [t \in Threads |-> IF t = Startup THEN Begin ELSE NoRun]
  /\ drain = FALSE
  /\ closed = FALSE
  /\ orphans = {}
  /\ restarts = 0

-----------------------------------------------------------------------------
(* submit                                                                  *)

Active == {s \in Scans : futures[s] # NoJob}

\* The scan has a future that is not done: submit returns at once.
Scheduled(s) == futures[s] # NoJob /\ job[futures[s]].at \in Pending

Full == Cardinality(Active) >= MaxOutstanding

\* A future identity that no thread refers to any more.
Unused(j) == job[j].at = "free" /\ resume[j].pc = "idle"

\* The pool takes the scan, and the future replaces one that is done.  Its
\* callback belongs to the caller until the caller has registered it.
Schedule(s, caller) ==
  /\ ~closed
  /\ ~Scheduled(s)
  /\ ~Full
  /\ \E j \in Jobs :
       /\ Unused(j)
       /\ job' = [job EXCEPT ![j] = [scan |-> s, at |-> "queued", thread |-> caller]]
       /\ futures' = [futures EXCEPT ![s] = j]

\* submit returns without an error.
SubmitAccepts(s, caller) ==
  \/ Schedule(s, caller)
  \/ ~closed /\ Scheduled(s) /\ UNCHANGED <<job, futures>>

\* submit raises ScanExecutorCapacityError.
SubmitFindsFull(s) == ~closed /\ ~Scheduled(s) /\ Full /\ UNCHANGED <<job, futures>>

\* add_done_callback, after _lock was released, finds the job still pending.
Register(j) ==
  /\ job[j].thread # Pool
  /\ job[j].at \in Pending
  /\ job' = [job EXCEPT ![j].thread = Pool]
  /\ UNCHANGED <<row, request, futures, resume, drain, closed, orphans, restarts>>

\* A call of submit returns once its callback is registered or has run.
Returned(caller) == \A j \in Jobs : job[j].thread # caller

-----------------------------------------------------------------------------
(* ScanService.start_scan                                                  *)

\* The lifespan serves requests once startup recovery has returned.
CreateScan(s) ==
  /\ row[s] = "absent"
  /\ \A t \in Scans : StartedAt[t] < StartedAt[s] => row[t] # "absent"
  /\ resume[Startup].pc = "idle"
  /\ row' = [row EXCEPT ![s] = "RUNNING"]
  /\ request' = [request EXCEPT ![s] = "created"]
  /\ UNCHANGED <<futures, job, resume, drain, closed, orphans, restarts>>

SubmitScan(s) ==
  /\ request[s] = "created"
  /\ \/ SubmitAccepts(s, s) /\ request' = [request EXCEPT ![s] = "accepted"]
     \/ SubmitFindsFull(s) /\ request' = [request EXCEPT ![s] = "rejected"]
     \/ closed /\ request' = [request EXCEPT ![s] = "rejected"] /\ UNCHANGED <<job, futures>>
  /\ UNCHANGED <<row, resume, drain, closed, orphans, restarts>>

\* Mutant of FailPending: fail_pending_scan does not look at the status it locked.
FailAnyway(s) == row' = [row EXCEPT ![s] = "FAILED"]

\* fail_pending_scan: a RUNNING row fails, a terminal one is left alone.
FailPending(s) ==
  row' = IF row[s] = "RUNNING" THEN [row EXCEPT ![s] = "FAILED"] ELSE row

\* A failure that the database does not take: the row stays as it is.
LoseFailure(s) ==
  /\ Cardinality(orphans) < MaxOrphans
  /\ orphans' = orphans \cup {s}
  /\ UNCHANGED row

\* Mutant of RefuseScan: start_scan answers a rejected submission and leaves the row RUNNING.
RefuseSilently(s) ==
  /\ request[s] = "rejected"
  /\ request' = [request EXCEPT ![s] = "refused"]
  /\ UNCHANGED <<row, futures, job, resume, drain, closed, orphans, restarts>>

RefuseScan(s) ==
  /\ request[s] = "rejected"
  /\ request' = [request EXCEPT ![s] = "refused"]
  /\ \/ FailPending(s) /\ UNCHANGED orphans
     \/ LoseFailure(s)
  /\ UNCHANGED <<futures, job, resume, drain, closed, restarts>>

-----------------------------------------------------------------------------
(* _run and _execute                                                       *)

Move(j, at) == job' = [job EXCEPT ![j].at = at]

\* Pool threads at work on a job or in a callback.
Busy == {j \in Jobs : \/ job[j].at \in {"collecting", "failing"}
                     \/ /\ job[j].thread = Pool
                        /\ job[j].at = "done" \/ resume[j].pc # "idle"}

\* A pool thread takes the job and reads the row before it collects.
StartJob(j) ==
  /\ job[j].at = "queued"
  /\ Cardinality(Busy) < MaxWorkers
  /\ \/ row[job[j].scan] = "RUNNING" /\ Move(j, "collecting")
     \/ row[job[j].scan] # "RUNNING" /\ Move(j, "done")
     \/ Move(j, "failing")
  /\ UNCHANGED <<row, request, futures, resume, drain, closed, orphans, restarts>>

\* persist_scan_result locks the row again: it must still be RUNNING.
PersistResult(j) ==
  /\ job[j].at = "collecting"
  /\ row[job[j].scan] = "RUNNING"
  /\ row' = [row EXCEPT ![job[j].scan] = "COMPLETED"]
  /\ Move(j, "done")
  /\ UNCHANGED <<request, futures, resume, drain, closed, orphans, restarts>>

\* Collection, assessment or persistence raised.
CollectionFails(j) ==
  /\ job[j].at = "collecting"
  /\ Move(j, "failing")
  /\ UNCHANGED <<row, request, futures, resume, drain, closed, orphans, restarts>>

\* Mutant of RecordFailure: _run only logs the exception.
RecordNothing(j) ==
  /\ job[j].at = "failing"
  /\ Move(j, "done")
  /\ UNCHANGED <<row, request, futures, resume, drain, closed, orphans, restarts>>

RecordFailure(j) ==
  /\ job[j].at = "failing"
  /\ Move(j, "done")
  /\ \/ FailPending(job[j].scan) /\ UNCHANGED orphans
     \/ LoseFailure(job[j].scan)
  /\ UNCHANGED <<request, futures, resume, drain, closed, restarts>>

\* Mutant of Forget: _forget removes whatever future is registered for the scan.
ForgetAnyFuture(j) ==
  /\ job[j].at = "done"
  /\ futures' = [futures EXCEPT ![job[j].scan] = NoJob]
  /\ IF drain /\ ~closed
     THEN /\ job' = [job EXCEPT ![j] = [FreeJob EXCEPT !.thread = job[j].thread]]
          /\ resume' = [resume EXCEPT ![j] = Begin]
     ELSE /\ job' = [job EXCEPT ![j] = FreeJob]
          /\ UNCHANGED resume
  /\ UNCHANGED <<row, request, drain, closed, orphans, restarts>>

\* Mutant of Forget: a callback that resumes the backlog leaves its future.
ForgetUnlessDraining(j) ==
  /\ job[j].at = "done"
  /\ IF drain /\ ~closed
     THEN /\ job' = [job EXCEPT ![j] = [FreeJob EXCEPT !.thread = job[j].thread]]
          /\ resume' = [resume EXCEPT ![j] = Begin]
          /\ UNCHANGED futures
     ELSE /\ job' = [job EXCEPT ![j] = FreeJob]
          /\ futures' = [futures EXCEPT ![job[j].scan] = NoJob]
          /\ UNCHANGED resume
  /\ UNCHANGED <<row, request, drain, closed, orphans, restarts>>

\* The done callback: only the future that is still registered is removed.
Forget(j) ==
  /\ job[j].at = "done"
  /\ LET s == job[j].scan
     IN  futures' = IF futures[s] = j THEN [futures EXCEPT ![s] = NoJob] ELSE futures
  /\ IF drain /\ ~closed
     THEN /\ job' = [job EXCEPT ![j] = [FreeJob EXCEPT !.thread = job[j].thread]]
          /\ resume' = [resume EXCEPT ![j] = Begin]
     ELSE /\ job' = [job EXCEPT ![j] = FreeJob]
          /\ UNCHANGED resume
  /\ UNCHANGED <<row, request, drain, closed, orphans, restarts>>

-----------------------------------------------------------------------------
(* resume_pending                                                          *)

\* The first n scans of S.
First(S, n) == {s \in S : Cardinality({t \in S : StartedAt[t] < StartedAt[s]}) < n}

\* resume_pending returns; in a callback, the callback ends with it.
Return(t) ==
  /\ resume' = [resume EXCEPT ![t] = NoRun]
  /\ job' = [j \in Jobs |-> IF j = t THEN FreeJob ELSE job[j]]

ResumeSnapshot(t) ==
  LET room == MaxOutstanding - Cardinality(Active)
  IN  /\ resume[t].pc = "snapshot"
      /\ IF closed \/ room <= 0
         THEN Return(t)
         ELSE /\ resume' = [resume EXCEPT ![t] =
                   [pc |-> "query", active |-> Active, room |-> room, found |-> {}]]
              /\ UNCHANGED job
      /\ UNCHANGED <<row, request, futures, drain, closed, orphans, restarts>>

\* One row more than fits tells whether the backlog outgrows the capacity.
ResumeQuery(t) ==
  LET waiting == {s \in Scans : row[s] = "RUNNING"} \ resume[t].active
  IN  /\ resume[t].pc = "query"
      /\ \/ /\ resume' = [resume EXCEPT ![t].pc = "decide", ![t].active = {},
                                        ![t].found = First(waiting, resume[t].room + 1)]
            /\ UNCHANGED job
         \/ QueriesFail /\ Return(t)
      /\ UNCHANGED <<row, request, futures, drain, closed, orphans, restarts>>

ResumeDecide(t) ==
  /\ resume[t].pc = "decide"
  /\ drain' = (Cardinality(resume[t].found) > resume[t].room)
  /\ resume' = [resume EXCEPT ![t].pc = "submit", ![t].room = 0,
                              ![t].found = First(resume[t].found, resume[t].room)]
  /\ UNCHANGED <<row, request, futures, job, closed, orphans, restarts>>

\* The next candidate, the earliest first.
ResumeSubmit(t) ==
  /\ resume[t].pc = "submit"
  /\ Returned(t)
  /\ \E s \in First(resume[t].found, 1) :
       \/ SubmitAccepts(s, t) /\ resume' = [resume EXCEPT ![t].found = @ \ {s}]
       \/ SubmitFindsFull(s) /\ resume' = [resume EXCEPT ![t].pc = "full", ![t].found = {}]
       \/ closed /\ Return(t) /\ UNCHANGED futures
  /\ UNCHANGED <<row, request, drain, closed, orphans, restarts>>

ResumeReturn(t) ==
  /\ resume[t].pc = "submit" /\ resume[t].found = {}
  /\ Returned(t)
  /\ Return(t)
  /\ UNCHANGED <<row, request, futures, drain, closed, orphans, restarts>>

\* Mutant of ResumeFull: the capacity error ends the loop like a shutdown does.
StopAtCapacity(t) ==
  /\ resume[t].pc = "full"
  /\ Return(t)
  /\ UNCHANGED <<row, request, futures, drain, closed, orphans, restarts>>

\* The capacity error was raised under _lock, which is taken anew here.
ResumeFull(t) ==
  /\ resume[t].pc = "full"
  /\ drain' = TRUE
  /\ Return(t)
  /\ UNCHANGED <<row, request, futures, closed, orphans, restarts>>

Resume(t) ==
  \/ ResumeSnapshot(t) \/ ResumeQuery(t) \/ ResumeDecide(t)
  \/ ResumeSubmit(t) \/ ResumeReturn(t) \/ ResumeFull(t)

-----------------------------------------------------------------------------
(* The process                                                             *)

Shutdown ==
  /\ restarts < MaxRestarts
  /\ ~closed
  /\ resume[Startup].pc = "idle"
  /\ closed' = TRUE
  /\ UNCHANGED <<row, request, futures, job, resume, drain, orphans, restarts>>

\* The process is gone, with its pool and its requests, and a new one starts.
Restart ==
  /\ restarts < MaxRestarts
  /\ restarts' = restarts + 1
  /\ request' = [s \in Scans |-> "none"]
  /\ futures' = [s \in Scans |-> NoJob]
  /\ job' = [j \in Jobs |-> FreeJob]
  /\ resume' = [t \in Threads |-> IF t = Startup THEN Begin ELSE NoRun]
  /\ drain' = FALSE
  /\ closed' = FALSE
  /\ UNCHANGED <<row, orphans>>

Request(s) == SubmitScan(s) \/ RefuseScan(s)
Work(j) == Register(j) \/ PersistResult(j) \/ CollectionFails(j) \/ RecordFailure(j) \/ Forget(j)

Next ==
  \/ \E s \in Scans : CreateScan(s) \/ Request(s)
  \/ \E j \in Jobs : StartJob(j) \/ Work(j)
  \/ \E t \in Threads : Resume(t)
  \/ Shutdown
  \/ Restart

Spec == Init /\ [][Next]_vars

\* Every thread runs on; the pool serves its queue in order, so that a queued
\* job is started if a worker is free again and again.  Neither a request, nor
\* a shutdown, nor the end of a process has to happen.
Fairness ==
  /\ \A s \in Scans : WF_vars(Request(s))
  /\ \A j \in Jobs : WF_vars(Work(j)) /\ SF_vars(StartJob(j))
  /\ \A t \in Threads : WF_vars(Resume(t))

FairSpec == Spec /\ Fairness
-----------------------------------------------------------------------------
(* Properties                                                              *)

JobRecords ==
  [scan : Scans \cup {NoScan}, at : {"free", "done"} \cup Pending, thread : Callers \cup {Pool}]

\* The recovery query runs with room to fill.
RunRecords ==
  {r \in [pc : {"idle", "snapshot", "query", "decide", "submit", "full"},
          active : SUBSET Scans, room : 0..MaxOutstanding, found : SUBSET Scans] :
     r.room # 0 <=> r.pc \in {"query", "decide"}}

\* Values the executor's fields, the rows and the threads may take.
TypeOK ==
  /\ row \in [Scans -> {"absent", "RUNNING"} \cup Terminal]
  /\ request \in [Scans -> {"none", "created", "accepted", "rejected", "refused"}]
  /\ futures \in [Scans -> Jobs \cup {NoJob}]
  /\ job \in [Jobs -> JobRecords]
  /\ resume \in [Threads -> RunRecords]
  /\ drain \in BOOLEAN
  /\ closed \in BOOLEAN
  /\ orphans \subseteq Scans
  /\ restarts \in 0..MaxRestarts

Live(j) == job[j].at \in Pending

\* submit "Schedule[s] one scan ID at most once concurrently", whichever of
\* requests, startup recovery and done callbacks submit it, and however late a
\* callback removes a future that a later one has replaced.
OneJobPerScan ==
  \A i, j \in Jobs : Live(i) /\ Live(j) /\ job[i].scan = job[j].scan => i = j

\* The executor never owes more than max_outstanding jobs.
OutstandingBounded == Cardinality({j \in Jobs : Live(j)}) <= MaxOutstanding

\* Every slot that counts against max_outstanding belongs to a job whose done
\* callback is still to come: the registry leaks no capacity, in whatever
\* order jobs end, callbacks run and scans are submitted again.
NoSlotLeaks ==
  \A s \in Scans : futures[s] # NoJob =>
    job[futures[s]].scan = s /\ job[futures[s]].at # "free"

\* A scan that ended never changes again: a result that arrives after a
\* failure, or a failure after a result, is refused under the row lock.
TerminalIsFinal ==
  [][\A s \in Scans : row[s] \in Terminal => row'[s] = row[s]]_vars

\* Once start_scan has answered, its scan has ended or a job works on it, unless
\* the database refused to save its failure.
NoScanIsStranded ==
  \A s \in Scans :
    request[s] \in {"accepted", "refused"} /\ row[s] = "RUNNING" =>
      s \in orphans \/ \E j \in Jobs : Live(j) /\ job[j].scan = s

\* A scan the pool took ends, unless its failure is lost or the process ends.
ScheduledScanEnds ==
  \A s \in Scans, n \in 0..MaxRestarts :
    (restarts = n /\ \E j \in Jobs : Live(j) /\ job[j].scan = s) ~>
      (restarts # n \/ s \in orphans \/ row[s] \in Terminal)

\* No thread of the process has anything left to do.
Quiet ==
  /\ \A j \in Jobs : job[j].at = "free"
  /\ \A t \in Threads : resume[t].pc = "idle"
  /\ \A s \in Scans : request[s] \notin {"created", "rejected"}


\* A RUNNING row that no request of this process made is an earlier one's.
LeftBehind(s) == row[s] = "RUNNING" /\ request[s] = "none" /\ s \notin orphans

\* What the executor does keep, if no recovery query fails: however callbacks
\* overlap with stale candidates and clear each other's _drain_backlog, when
\* nothing is left to do and a row of an earlier process is still RUNNING,
\* _drain_backlog is set, so that the callback of the next scan looks for it.
BacklogIsRemembered ==
  Quiet /\ ~closed /\ (\E s \in Scans : LeftBehind(s)) => drain
=============================================================================
