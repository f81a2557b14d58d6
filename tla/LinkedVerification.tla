-------------------------- MODULE LinkedVerification --------------------------
(***************************************************************************)
(* RemediationVerificationService: a verification of an acknowledged write  *)
(* is a row linked to an ordinary RUNNING scan, and a receipt that the      *)
(* transaction which ends the scan seals.  Every writer locks the singleton *)
(* guard row first; readers run at READ COMMITTED without it.               *)
(*                                                                         *)
(* The verification of execution e with attempt k is <<e, k>>: the table    *)
(* has a unique constraint on the pair.  A step is one statement, or the    *)
(* statements of a transaction that nothing can be seen between.            *)
(***************************************************************************)
EXTENDS Integers, FiniteSets

CONSTANTS
  Callers,          \* of request_verification and get_verification
  Runners,          \* threads of the executor
  Executions,
  Documents,        \* requests: actor with idempotency key, execution, reason
  BaselineAt,       \* when the baseline of an execution's proposal was observed
  MaxAttempts,      \* MAX_VERIFICATION_ATTEMPTS
  Nobody, NoDocument, NoTime,
  Horizon,          \* bound of the clock
  MaxFaults         \* bound: failures that leave a scan RUNNING, and ends of the process

ASSUME VerificationAssumption ==
  /\ \A d \in Documents : d.exec \in Executions
  /\ NoDocument \notin Documents
  /\ BaselineAt \in [Executions -> Nat]
  /\ MaxAttempts \in Nat \ {0}
  /\ Nobody \notin Callers /\ Nobody \notin Executions
  /\ NoTime \notin Nat
  /\ Horizon \in Nat /\ MaxFaults \in Nat

VARIABLES
  now,
  setting,      \* EBS encryption by default in the account of an execution
  wasOn,        \* history: the times at which it has been on
  ackAt,        \* created_at of the ACKNOWLEDGED event
  scan,         \* status of the scan of each verification
  doc,          \* what was requested
  createdAt,
  evidence,     \* what a terminal scan retained
  receipt,      \* outcome, once sealed
  guard,        \* who holds the guard row
  call,         \* where the call of each caller stands
  queued,       \* scans the pool has not started
  run,          \* what each runner does
  faults

clockVars == <<now, setting, wasOn, ackAt>>
rowVars == <<scan, doc, createdAt, evidence, receipt>>
poolVars == <<queued, run>>
vars == <<clockVars, rowVars, guard, call, poolVars, faults>>

Slots == Executions \X (1..MaxAttempts)
NoSlot == <<Nobody, 0>>
Terminal == {"COMPLETED", "PARTIAL", "FAILED"}
Outcomes == {"VERIFIED", "NOT_VERIFIED", "INCONCLUSIVE"}

\* What a scan may retain about its postcondition: whether _proof holds of it, in the
\* KMS context of the baseline, the time of the observation, and the result of EC2-004.
Evidence == [proof : BOOLEAN, at : 0..Horizon, pass : BOOLEAN]
NoEvidence == [proof |-> FALSE, at |-> 0, pass |-> FALSE]

NoCall == [pc |-> "idle", doc |-> NoDocument, slot |-> NoSlot, mine |-> {}, prior |-> 0,
           open |-> FALSE, scan |-> "absent"]
NoRun == [pc |-> "idle", slot |-> NoSlot, status |-> "COMPLETED", ev |-> NoEvidence]

Init ==
  /\ now = 0
  /\ setting = [e \in Executions |-> FALSE]
  /\ wasOn = [e \in Executions |-> {}]
  /\ ackAt = [e \in Executions |-> NoTime]
  /\ scan = [v \in Slots |-> "absent"]
  /\ doc = [v \in Slots |-> NoDocument]
  /\ createdAt = [v \in Slots |-> NoTime]
  /\ evidence = [v \in Slots |-> NoEvidence]
  /\ receipt = [v \in Slots |-> "none"]
  /\ guard = Nobody
  /\ call = [c \in Callers |-> NoCall]
  /\ queued = {}
  /\ run = [w \in Runners |-> NoRun]
  /\ faults = 0

-----------------------------------------------------------------------------
(* The world: time, the account, and the worker that writes                *)

\* Time passes; anybody may change the setting.
Tick ==
  /\ now < Horizon
  /\ now' = now + 1
  /\ setting' \in [Executions -> BOOLEAN]
  /\ wasOn' = [e \in Executions |-> IF setting'[e] THEN wasOn[e] \cup {now'} ELSE wasOn[e]]
  /\ UNCHANGED <<ackAt, rowVars, guard, call, poolVars, faults>>

Acknowledge(e) ==
  /\ ackAt[e] = NoTime /\ now >= BaselineAt[e]
  /\ ackAt' = [ackAt EXCEPT ![e] = now]
  /\ UNCHANGED <<now, setting, wasOn, rowVars, guard, call, poolVars, faults>>

-----------------------------------------------------------------------------
(* The postcondition and the receipt                                       *)

\* Mutant of OutcomeOf: any observation counts, whenever it was made.
OutcomeAnyTime(v, status, ev) ==
  IF status # "COMPLETED" \/ ~ev.proof THEN "INCONCLUSIVE"
  ELSE IF ev.pass THEN "VERIFIED" ELSE "NOT_VERIFIED"

LaterThan(t, e) == t > ackAt[e] /\ t > BaselineAt[e]

\* postcondition_for
OutcomeOf(v, status, ev) ==
  IF status # "COMPLETED" \/ ~ev.proof \/ ~LaterThan(ev.at, v[1])
  THEN "INCONCLUSIVE"
  ELSE IF ev.pass THEN "VERIFIED" ELSE "NOT_VERIFIED"

\* Mutant of EndScan: the receipt is left to another transaction.
EndScanUnsealed(v, status, ev) ==
  /\ scan' = [scan EXCEPT ![v] = status]
  /\ evidence' = [evidence EXCEPT ![v] = ev]
  /\ UNCHANGED <<doc, createdAt, receipt>>

\* The transaction that ends a scan seals its receipt.
EndScan(v, status, ev) ==
  /\ scan' = [scan EXCEPT ![v] = status]
  /\ evidence' = [evidence EXCEPT ![v] = ev]
  /\ receipt' = [receipt EXCEPT ![v] = OutcomeOf(v, status, ev)]
  /\ UNCHANGED <<doc, createdAt>>

\* fail_pending_scan: a scan that has ended keeps its result and its receipt.
FailPending(v) ==
  \/ scan[v] = "RUNNING" /\ EndScan(v, "FAILED", NoEvidence)
  \/ scan[v] # "RUNNING" /\ UNCHANGED rowVars

-----------------------------------------------------------------------------
(* request_verification                                                    *)

GuardFree == guard = Nobody

Attempts(e) == {k \in 1..MaxAttempts : scan[<<e, k>>] # "absent"}

SameKey(d, v) == doc[v] # NoDocument /\ doc[v].key = d.key

\* A caller makes another call once it has an answer, or gave up waiting.
Ready(c) == call[c].pc \in {"idle", "answered"}

\* verification_guard, and what the statements after it see.
Enter(c) ==
  /\ Ready(c) /\ GuardFree
  /\ guard' = c
  /\ \E d \in Documents :
       call' = [call EXCEPT ![c] =
         [NoCall EXCEPT
           !.pc = "deciding", !.doc = d,
           !.mine = {v \in Slots : SameKey(d, v)},
           !.prior = Cardinality(Attempts(d.exec)),
           !.open = \E k \in Attempts(d.exec) : receipt[<<d.exec, k>>] = "none"]]
  /\ UNCHANGED <<clockVars, rowVars, poolVars, faults>>

\* The caller is shown the verification v.
Reply(c, v) ==
  call' = [call EXCEPT ![c] = [NoCall EXCEPT !.pc = "answered", !.doc = call[c].doc, !.slot = v]]

\* The transaction of c rolls back, and the lock goes with it.
Abandon(c) ==
  /\ call[c].pc = "deciding"
  /\ guard' = Nobody
  /\ call' = [call EXCEPT ![c] = NoCall]
  /\ UNCHANGED <<clockVars, rowVars, poolVars, faults>>

\* The key is spent on the same document: its verification is the answer.
Replay(c) ==
  /\ call[c].pc = "deciding"
  /\ \E v \in call[c].mine :
       /\ doc[v] = call[c].doc
       /\ Reply(c, v)
  /\ guard' = Nobody
  /\ UNCHANGED <<clockVars, rowVars, poolVars, faults>>

\* remediation_idempotency_conflict
KeyConflict(c) == (\E v \in call[c].mine : doc[v] # call[c].doc) /\ Abandon(c)

\* Mutant of Admissible: an attempt may start beside another.
AdmissibleBeside(c) ==
  LET e == call[c].doc.exec
  IN  ackAt[e] # NoTime /\ now >= ackAt[e] /\ call[c].prior < MaxAttempts

Admissible(c) ==
  LET e == call[c].doc.exec
  IN  /\ ackAt[e] # NoTime /\ now >= ackAt[e]
      /\ ~call[c].open
      /\ call[c].prior < MaxAttempts

Refuse(c) ==
  /\ call[c].pc = "deciding" /\ call[c].mine = {}
  /\ ~Admissible(c)
  /\ Abandon(c)

\* The scan, its start marker and the verification are committed together;
\* unique constraints admit an attempt and a key once.
Admit(c) ==
  /\ call[c].pc = "deciding" /\ call[c].mine = {}
  /\ Admissible(c)
  /\ LET d == call[c].doc
         v == <<d.exec, call[c].prior + 1>>
     IN  /\ scan[v] = "absent" /\ \A u \in Slots : ~SameKey(d, u)
         /\ scan' = [scan EXCEPT ![v] = "RUNNING"]
         /\ doc' = [doc EXCEPT ![v] = d]
         /\ createdAt' = [createdAt EXCEPT ![v] = now]
         /\ call' = [call EXCEPT ![c] =
                         [NoCall EXCEPT !.pc = "submitting", !.doc = d, !.slot = v]]
  /\ guard' = Nobody
  /\ UNCHANGED <<clockVars, evidence, receipt, poolVars, faults>>

\* The transaction is rolled back.
DatabaseFails(c) == Abandon(c)

\* executor.submit, outside every transaction: a scan that is scheduled is
\* left alone.
Scheduled(v) == v \in queued \/ \E w \in Runners : run[w].slot = v

Submit(c) ==
  /\ call[c].pc = "submitting"
  /\ LET v == call[c].slot
     IN  queued' = IF Scheduled(v) THEN queued ELSE queued \cup {v}
  /\ call' = [call EXCEPT ![c].pc = "scan"]
  /\ UNCHANGED <<clockVars, rowVars, guard, run, faults>>

SubmitRaises(c) ==
  /\ call[c].pc = "submitting"
  /\ call' = [call EXCEPT ![c].pc = "failing"]
  /\ UNCHANGED <<clockVars, rowVars, guard, poolVars, faults>>

\* fail_pending_scan after a submission that failed, and the 503 that names the
\* verification; it may fail itself, which leaves the scan RUNNING.
FailSubmission(c) ==
  /\ call[c].pc = "failing"
  /\ \/ GuardFree /\ FailPending(call[c].slot) /\ UNCHANGED faults
     \/ faults < MaxFaults /\ faults' = faults + 1 /\ UNCHANGED rowVars
  /\ Reply(c, call[c].slot)
  /\ UNCHANGED <<clockVars, guard, poolVars>>

-----------------------------------------------------------------------------
(* get_verification                                                        *)

OpenView(c) ==
  /\ Ready(c)
  /\ \E v \in Slots :
       /\ scan[v] # "absent"
       /\ call' = [call EXCEPT ![c] = [NoCall EXCEPT !.pc = "scan", !.slot = v, !.doc = doc[v]]]
  /\ UNCHANGED <<clockVars, rowVars, guard, poolVars, faults>>

\* _content loads the scan.
ViewScan(c) ==
  /\ call[c].pc = "scan"
  /\ call' = [call EXCEPT ![c].pc = "receipt", ![c].scan = scan[call[c].slot]]
  /\ UNCHANGED <<clockVars, rowVars, guard, poolVars, faults>>

\* Mutant of ScanBeside: the scan that was loaded first is not refreshed.
ScanLoaded(c) == call[c].scan

\* The scan as _receipt compares it with a receipt: refreshed if it was RUNNING.
ScanBeside(c) ==
  IF call[c].scan = "RUNNING" THEN scan[call[c].slot] ELSE call[c].scan

\* _receipt: without a receipt the scan must be RUNNING; a receipt must be the
\* one that build_receipt computes again.
Shown(c) ==
  LET v == call[c].slot
  IN  IF receipt[v] = "none"
      THEN IF call[c].scan = "RUNNING" THEN "active" ELSE "conflict"
      ELSE IF /\ ScanBeside(c) \in Terminal
              /\ receipt[v] = OutcomeOf(v, ScanBeside(c), evidence[v])
           THEN "sealed" ELSE "conflict"

ViewReceipt(c) ==
  /\ call[c].pc = "receipt"
  /\ Reply(c, call[c].slot)
  /\ UNCHANGED <<clockVars, rowVars, guard, poolVars, faults>>

-----------------------------------------------------------------------------
(* The executor                                                            *)

\* resume_pending submits scans that are RUNNING, whoever created them.
Resume(v) ==
  /\ scan[v] = "RUNNING" /\ ~Scheduled(v)
  /\ queued' = queued \cup {v}
  /\ UNCHANGED <<clockVars, rowVars, guard, call, run, faults>>

\* _execute loads the link and the scan, and returns if the scan has ended.
StartScan(w) ==
  /\ run[w].pc = "idle"
  /\ \E v \in queued :
       /\ queued' = queued \ {v}
       /\ run' = IF scan[v] = "RUNNING"
                 THEN [run EXCEPT ![w] = [NoRun EXCEPT !.pc = "collecting", !.slot = v]]
                 ELSE run
  /\ UNCHANGED <<clockVars, rowVars, guard, call, faults>>

\* What a scan retains when it observes the account now.
Observed(e) ==
  {NoEvidence} \cup
  [proof : {TRUE}, at : {now}, pass : {setting[e]}]

Collect(w) ==
  /\ run[w].pc = "collecting"
  /\ \E status \in {"COMPLETED", "PARTIAL"}, ev \in Observed(run[w].slot[1]) :
       /\ status = "PARTIAL" => ev = NoEvidence
       /\ run' = [run EXCEPT ![w].pc = "saving", ![w].status = status, ![w].ev = ev]
  /\ UNCHANGED <<clockVars, rowVars, guard, call, queued, faults>>

\* persist_scan_result: a scan that ended meanwhile has other content.
Persist(w) ==
  /\ run[w].pc = "saving" /\ GuardFree
  /\ LET v == run[w].slot
     IN  \/ /\ scan[v] = "RUNNING"
            /\ EndScan(v, run[w].status, run[w].ev)
            /\ run' = [run EXCEPT ![w] = NoRun]
         \/ /\ scan[v] # "RUNNING"
            /\ run' = [run EXCEPT ![w].pc = "failing"]
            /\ UNCHANGED rowVars
  /\ UNCHANGED <<clockVars, guard, call, queued, faults>>

\* Collection or persistence raises.
RunRaises(w) ==
  /\ run[w].pc \in {"collecting", "saving"}
  /\ run' = [run EXCEPT ![w].pc = "failing"]
  /\ UNCHANGED <<clockVars, rowVars, guard, call, queued, faults>>

\* _run records the failure, or logs that it could not.
FailRun(w) ==
  /\ run[w].pc = "failing"
  /\ \/ GuardFree /\ FailPending(run[w].slot) /\ UNCHANGED faults
     \/ faults < MaxFaults /\ faults' = faults + 1 /\ UNCHANGED rowVars
  /\ run' = [run EXCEPT ![w] = NoRun]
  /\ UNCHANGED <<clockVars, guard, call, queued>>

\* The process ends: open transactions roll back, and calls go unanswered.
Crash ==
  /\ faults < MaxFaults
  /\ faults' = faults + 1
  /\ guard' = Nobody
  /\ call' = [c \in Callers |-> NoCall]
  /\ queued' = {}
  /\ run' = [w \in Runners |-> NoRun]
  /\ UNCHANGED <<clockVars, rowVars>>

World ==
  \/ Tick
  \/ \E e \in Executions : Acknowledge(e)
  \/ Crash

Call(c) ==
  \/ Enter(c) \/ Replay(c) \/ KeyConflict(c) \/ Refuse(c) \/ Admit(c) \/ DatabaseFails(c)
  \/ Submit(c) \/ SubmitRaises(c) \/ FailSubmission(c)
  \/ OpenView(c) \/ ViewScan(c) \/ ViewReceipt(c)

Execute(w) == StartScan(w) \/ Collect(w) \/ Persist(w) \/ RunRaises(w) \/ FailRun(w)

Next ==
  \/ World
  \/ \E c \in Callers : Call(c)
  \/ \E v \in Slots : Resume(v)
  \/ \E w \in Runners : Execute(w)

Spec == Init /\ [][Next]_vars

-----------------------------------------------------------------------------
(* Properties                                                              *)

CallRecords ==
  [pc : {"idle", "deciding", "submitting", "failing", "scan", "receipt", "answered"},
   doc : Documents \cup {NoDocument}, slot : Slots \cup {NoSlot},
   mine : SUBSET Slots, prior : 0..MaxAttempts, open : BOOLEAN,
   scan : {"absent", "RUNNING"} \cup Terminal]
RunRecords ==
  [pc : {"idle", "collecting", "saving", "failing"}, slot : Slots \cup {NoSlot},
   status : {"COMPLETED", "PARTIAL"}, ev : Evidence]

\* The rows the tables admit, and the states of the calls and the runners.
TypeOK ==
  /\ now \in 0..Horizon /\ faults \in 0..MaxFaults
  /\ setting \in [Executions -> BOOLEAN]
  /\ wasOn \in [Executions -> SUBSET (0..Horizon)]
  /\ ackAt \in [Executions -> (0..Horizon) \cup {NoTime}]
  /\ scan \in [Slots -> {"absent", "RUNNING"} \cup Terminal]
  /\ doc \in [Slots -> Documents \cup {NoDocument}]
  /\ createdAt \in [Slots -> (0..Horizon) \cup {NoTime}]
  /\ evidence \in [Slots -> Evidence]
  /\ \A v \in Slots : scan[v] = "absent" <=> doc[v] = NoDocument
  /\ \A v \in Slots : scan[v] = "absent" <=> createdAt[v] = NoTime
  /\ receipt \in [Slots -> Outcomes \cup {"none"}]
  /\ guard \in Callers \cup {Nobody}
  /\ call \in [Callers -> CallRecords]
  /\ queued \in SUBSET Slots
  /\ run \in [Runners -> RunRecords]

\* The scan of a verification has ended exactly when its receipt is sealed, so
\* that no attempt stays active, and none is freed, by half of a transaction.
SealedIffEnded ==
  \A v \in Slots : scan[v] \in Terminal <=> receipt[v] # "none"

\* A receipt says VERIFIED only of a setting that has been on at some moment
\* after the write was acknowledged and after the verification was requested.
VerifiedMeansOn ==
  \A v \in Slots : receipt[v] = "VERIFIED" =>
    \E t \in wasOn[v[1]] : t > ackAt[v[1]] /\ t > BaselineAt[v[1]] /\ t >= createdAt[v]

\* A read that overlaps the end of the scan sees an active verification or its
\* receipt, and never takes one for a provenance conflict.
ReadsNeverConflict ==
  \A c \in Callers : call[c].pc = "receipt" => Shown(c) # "conflict"

\* A call is answered with the verification that its own key and document
\* recorded, in this call or in an earlier one whose answer was lost.
AnswersAreOwn ==
  \A c \in Callers : call[c].pc = "answered" => doc[call[c].slot] = call[c].doc

-----------------------------------------------------------------------------
(* The promise that it implements                                          *)

Attempt(v) ==
  IF scan[v] = "absent" THEN "unused" ELSE IF receipt[v] = "none" THEN "open" ELSE receipt[v]

Promise == INSTANCE VerificationAttempts
  WITH attempts <- [e \in Executions |-> [k \in 1..MaxAttempts |-> Attempt(<<e, k>>)]]

\* The verifications of an execution are numbered attempts, one open at a time,
\* whose outcomes are final.
AttemptsSpec == Promise!ASpec
===============================================================================
