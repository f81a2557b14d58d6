--------------------------- MODULE RemediationWorker ---------------------------
(***************************************************************************)
(* The remediation worker processes (RemediationWorker.run) running against*)
(* the ledger, and the one AWS setting they write.                         *)
(*                                                                         *)
(* A worker is a one-shot process: an operator starts it for one admitted  *)
(* execution, and starts another one when it failed.  It holds no          *)
(* transaction open while it talks to AWS, so every step below is either   *)
(* one transaction of the ledger or one AWS call or local check, and any   *)
(* other worker, admission, revocation or clock tick may come in between.  *)
(* A crash, a lost connection or a commit whose answer was lost ends the   *)
(* process where it stands; nothing of it survives but the ledger and a    *)
(* write request that AWS already received.                                *)
(***************************************************************************)
EXTENDS RemediationLedger

CONSTANTS
  Workers,    \* worker processes that may run at the same time
  MaxCrashes  \* bound of the crashes, for model checking

ASSUME WorkerAssumption == MaxCrashes \in Nat

VARIABLES
  pc,          \* where each worker stands in run()
  job,         \* the execution it was started for
  tok,         \* its claim token (a generation), 0 without one
  tries,       \* iterations of its read loop
  obs,         \* its last observation
  obsAt,       \* when it was made, NotStarted without one
  poll,        \* number of the readback poll it is working on
  writes,      \* enable() calls issued for each execution
  outstanding, \* issued calls that AWS may still apply
  crashes      \* crashes so far

localVars == <<job, tok, tries, obs, obsAt, poll>>
awsVars == <<writes, outstanding>>
workerVars == <<pc, localVars, awsVars, crashes>>
wvars == <<ledgerVars, workerVars>>

Labels == {"idle", "recover", "claim", "read", "observe", "nowrite", "intent",
           "deadline", "late", "dispatch", "sent", "doubt", "ack", "check",
           "readback", "poll", "record", "recordLast"}

WInit ==
  /\ Init
  /\ pc = [w \in Workers |-> "idle"]
  /\ job = [w \in Workers |-> NoExec]
  /\ tok = [w \in Workers |-> 0]
  /\ tries = [w \in Workers |-> 0]
  /\ obs = [w \in Workers |-> "none"]
  /\ obsAt = [w \in Workers |-> NotStarted]
  /\ poll = [w \in Workers |-> 0]
  /\ writes = [e \in Execs |-> 0]
  /\ outstanding = {}
  /\ crashes = 0

At(w, label) == pc[w] = label
Go(w, label) == pc' = [pc EXCEPT ![w] = label]

\* The process ends and its local state is gone.
End(w) ==
  /\ Go(w, "idle")
  /\ job' = [job EXCEPT ![w] = NoExec]
  /\ tok' = [tok EXCEPT ![w] = 0]
  /\ tries' = [tries EXCEPT ![w] = 0]
  /\ obs' = [obs EXCEPT ![w] = "none"]
  /\ obsAt' = [obsAt EXCEPT ![w] = NotStarted]
  /\ poll' = [poll EXCEPT ![w] = 0]

Step(w, label) == Go(w, label) /\ UNCHANGED localVars
-----------------------------------------------------------------------------
\* Mutant of Start: a later worker repeats the write it finds intended.
StartRepeatsWrite(w, e) ==
  /\ At(w, "idle") /\ phase[e] # "NONE"
  /\ Go(w, IF phase[e] = "WRITE_INTENT" THEN "dispatch"
           ELSE IF Written(e) THEN "readback" ELSE "claim")
  /\ job' = [job EXCEPT ![w] = e]
  /\ UNCHANGED <<ledgerVars, tok, tries, obs, obsAt, poll, awsVars, crashes>>

\* Mutant of Start: an intent left behind is not recovered.
StartSkipsRecovery(w, e) ==
  /\ At(w, "idle") /\ phase[e] # "NONE"
  /\ Go(w, IF Written(e) THEN "readback" ELSE "claim")
  /\ job' = [job EXCEPT ![w] = e]
  /\ UNCHANGED <<ledgerVars, tok, tries, obs, obsAt, poll, awsVars, crashes>>

\* run: inspect the execution and branch on its phase.
Start(w, e) ==
  /\ At(w, "idle") /\ phase[e] # "NONE"
  /\ Go(w, IF phase[e] = "WRITE_INTENT" THEN "recover"
           ELSE IF Written(e) THEN "readback" ELSE "claim")
  /\ job' = [job EXCEPT ![w] = e]
  /\ UNCHANGED <<ledgerVars, tok, tries, obs, obsAt, poll, awsVars, crashes>>

\* An intent somebody else left behind is quarantined, never written again.
Recover(w) ==
  /\ At(w, "recover")
  /\ Quarantine(job[w])
  /\ Step(w, "readback")
  /\ UNCHANGED <<awsVars, crashes>>

ClaimJob(w) ==
  /\ At(w, "claim")
  /\ \/ /\ ClaimGrants(job[w])
        /\ tok' = [tok EXCEPT ![w] = gen'[job[w]]]
        /\ Go(w, "read")
        /\ UNCHANGED <<job, tries, obs, obsAt, poll>>
     \/ (ClaimCloses(job[w]) \/ ClaimDeclines(job[w])) /\ End(w)
  /\ UNCHANGED <<awsVars, crashes>>

ChargeRead(w) ==
  /\ At(w, "read")
  /\ \/ ReadGrants(job[w], tok[w]) /\ Step(w, "observe")
     \/ (ReadCloses(job[w], tok[w]) \/ ReadDeclines(job[w], tok[w])) /\ End(w)
  /\ UNCHANGED <<awsVars, crashes>>

\* One identity check and read of AWS.  A transient failure goes round the
\* loop, which gives up after as many iterations as there are reads.
Observe(w) ==
  /\ At(w, "observe")
  /\ \/ \E o \in Observations :
          /\ obs' = [obs EXCEPT ![w] = o]
          /\ obsAt' = [obsAt EXCEPT ![w] = now]
          /\ Go(w, "intent")
          /\ UNCHANGED tries
     \/ \* READ_TRANSIENT
        /\ tries' = [tries EXCEPT ![w] = @ + 1]
        /\ Go(w, IF tries[w] + 1 < MaxReads THEN "read" ELSE "nowrite")
        /\ UNCHANGED <<obs, obsAt>>
     \/ \* any other refusal by the adapter
        Go(w, "nowrite") /\ UNCHANGED <<tries, obs, obsAt>>
  /\ UNCHANGED <<ledgerVars, job, tok, poll, awsVars, crashes>>

GiveUp(w) ==
  /\ At(w, "nowrite")
  /\ NoWrite(job[w], tok[w])
  /\ End(w)
  /\ UNCHANGED <<awsVars, crashes>>

CommitIntent(w) ==
  /\ At(w, "intent")
  /\ \/ IntentGrants(job[w], tok[w], obs[w], obsAt[w]) /\ Step(w, "deadline")
     \/ /\ \/ IntentCloses(job[w], tok[w], obs[w], obsAt[w])
           \/ IntentDeclines(job[w], tok[w], obsAt[w])
        /\ End(w)
  /\ UNCHANGED <<awsVars, crashes>>

CheckDeadline(w) ==
  /\ At(w, "deadline")
  /\ Step(w, IF now >= expires[job[w]] THEN "late" ELSE "dispatch")
  /\ UNCHANGED <<ledgerVars, awsVars, crashes>>

QuarantineLate(w) ==
  /\ At(w, "late")
  /\ Quarantine(job[w])
  /\ End(w)
  /\ UNCHANGED <<awsVars, crashes>>

\* The one call of enable(); no ledger step is part of it.
Dispatch(w) ==
  /\ At(w, "dispatch")
  /\ writes' = [writes EXCEPT ![job[w]] = @ + 1]
  /\ outstanding' = outstanding \cup {job[w]}
  /\ Step(w, "sent")
  /\ UNCHANGED <<ledgerVars, crashes>>

\* AWS applies a received request, or drops it, whether or not the worker that
\* sent it still waits.
Settle(e) ==
  /\ e \in outstanding
  /\ outstanding' = outstanding \ {e}
  /\ UNCHANGED <<ledgerVars, pc, localVars, writes, crashes>>

\* A complete success response.
Receipt(w) ==
  /\ At(w, "sent") /\ job[w] \notin outstanding
  /\ Step(w, "ack")
  /\ UNCHANGED <<ledgerVars, awsVars, crashes>>

\* A timeout, an error or a malformed response: the request may still land.
Uncertain(w) ==
  /\ At(w, "sent")
  /\ Step(w, "doubt")
  /\ UNCHANGED <<ledgerVars, awsVars, crashes>>

QuarantineDoubt(w) ==
  /\ At(w, "doubt")
  /\ Quarantine(job[w])
  /\ Step(w, "readback")
  /\ UNCHANGED <<awsVars, crashes>>

AcknowledgeWrite(w) ==
  /\ At(w, "ack")
  /\ Acknowledge(job[w], tok[w]) \/ AcknowledgeDeclines(job[w], tok[w])
  /\ Step(w, "check")
  /\ UNCHANGED <<awsVars, crashes>>

CheckAcknowledged(w) ==
  /\ At(w, "check")
  /\ Step(w, IF phase[job[w]] = "WRITE_INTENT" THEN "doubt" ELSE "readback")
  /\ UNCHANGED <<ledgerVars, awsVars, crashes>>

ChargeReadback(w) ==
  /\ At(w, "readback")
  /\ \/ /\ BeginReadback(job[w])
        /\ poll' = [poll EXCEPT ![w] = rbUsed'[job[w]]]
        /\ Go(w, "poll")
        /\ UNCHANGED <<job, tok, tries, obs, obsAt>>
     \/ ReadbackDeclines(job[w]) /\ End(w)
  /\ UNCHANGED <<awsVars, crashes>>

\* One readback poll.  It is recorded as failed when the window has closed by
\* the time the answer is there; only an unfinished or transient poll is
\* followed by another.
ReadBack(w) ==
  LET e == job[w]
      Answer(o, at, label) ==
        /\ obs' = [obs EXCEPT ![w] = o]
        /\ obsAt' = [obsAt EXCEPT ![w] = at]
        /\ Go(w, label)
  IN /\ At(w, "poll")
     /\ \/ ~WindowOpen(e) /\ Answer("none", NotStarted, "recordLast")
        \/ WindowOpen(e) /\ \/ \E o \in Observations \ {"enabled"} : Answer(o, now, "record")
                            \/ Answer("enabled", now, "recordLast")
                            \/ Answer("none", NotStarted, "record")
                            \/ Answer("none", NotStarted, "recordLast")
     /\ UNCHANGED <<ledgerVars, job, tok, tries, poll, awsVars, crashes>>

RecordPoll(w) ==
  /\ \/ At(w, "record") /\ Step(w, "readback")
     \/ At(w, "recordLast") /\ End(w)
  /\ \/ RecordObservation(job[w], poll[w], obsAt[w])
     \/ RecordDeclines(job[w], poll[w])
  /\ UNCHANGED <<awsVars, crashes>>

Crash(w) ==
  /\ ~At(w, "idle")
  /\ crashes < MaxCrashes  \* bound
  /\ crashes' = crashes + 1
  /\ End(w)
  /\ UNCHANGED <<ledgerVars, awsVars>>
-----------------------------------------------------------------------------
\* What a running worker does next.
Run(w) ==
  \/ Recover(w) \/ ClaimJob(w) \/ ChargeRead(w) \/ Observe(w) \/ GiveUp(w)
  \/ CommitIntent(w) \/ CheckDeadline(w) \/ QuarantineLate(w) \/ Dispatch(w)
  \/ Receipt(w) \/ Uncertain(w) \/ QuarantineDoubt(w) \/ AcknowledgeWrite(w)
  \/ CheckAcknowledged(w) \/ ChargeReadback(w) \/ ReadBack(w) \/ RecordPoll(w)

\* The human side and the clock.
Outside ==
  /\ Tick \/ \E e \in Execs : Approve(e) \/ Withdraw(e) \/ Admit(e)
  /\ UNCHANGED workerVars

WNext ==
  \/ Outside
  \/ \E w \in Workers : Run(w) \/ Crash(w) \/ \E e \in Execs : Start(w, e)
  \/ \E e \in Execs : Settle(e)

WSpec == WInit /\ [][WNext]_wvars

\* Time passes, a started worker takes its next step unless it crashes, and
\* operators keep starting a worker for an execution that is not finished.
Fairness ==
  /\ WF_wvars(Tick /\ UNCHANGED workerVars)
  /\ \A w \in Workers : WF_wvars(Run(w))
  /\ \A e \in Execs : SF_wvars(\E w \in Workers : phase[e] \in PreIntent \cup {"WRITE_INTENT"} /\ Start(w, e))

FairSpec == WSpec /\ Fairness
-----------------------------------------------------------------------------
WTypeOK ==
  /\ TypeOK
  /\ pc \in [Workers -> Labels]
  /\ job \in [Workers -> Execs \cup {NoExec}]
  /\ tok \in [Workers -> Nat]
  /\ tries \in [Workers -> 0..MaxReads]
  /\ obs \in [Workers -> Observations \cup {"none"}]
  /\ obsAt \in [Workers -> Nat \cup {NotStarted}]
  /\ poll \in [Workers -> 0..MaxReadbacks]
  /\ writes \in [Execs -> Nat]
  /\ outstanding \subseteq Execs
  /\ crashes \in Nat

\* enable() is called at most once for an execution, whatever workers run for
\* it, crash, lose their lease or come back late.
OneWritePerExecution == \A e \in Execs : writes[e] <= 1

\* A request that AWS may still apply belongs to the execution that holds the
\* target: no other execution is admitted, reads or writes there meanwhile.
OutstandingWriteHoldsTarget == \A e \in outstanding : holder[TargetOf[e]] = e

\* At most one worker is between a committed intent and its acknowledgment.
Writing == {"deadline", "dispatch", "sent", "ack"}

OneWriter ==
  \A v, w \in Workers :
    (pc[v] \in Writing /\ pc[w] \in Writing /\ TargetOf[job[v]] = TargetOf[job[w]]) => v = w

\* An observation a worker is about to record was made inside the readback
\* window, so the journal's validation never rejects it.
RecordedObservationFits ==
  \A w \in Workers :
    pc[w] \in {"record", "recordLast"} /\ obsAt[w] # NotStarted => InWindow(job[w], obsAt[w])

\* Whatever is admitted is eventually decided: refused, written and
\* acknowledged, or quarantined.  No execution keeps its target undecided.
EventuallyDecided ==
  \A e \in Execs :
    phase[e] \in PreIntent \cup {"WRITE_INTENT"}
      ~> phase[e] \notin PreIntent \cup {"WRITE_INTENT"}
-----------------------------------------------------------------------------
\* The ledger and its workers implement the abstract promise about writes.
Stage(p) ==
  IF p = "NONE" THEN "waiting"
  ELSE IF p \in PreIntent THEN "holding"
  ELSE IF p = "WRITE_INTENT" THEN "granted"
  ELSE IF p = "ACKNOWLEDGED" THEN "confirmed"
  ELSE IF p = "QUARANTINED" THEN "uncertain"
  ELSE "dropped"

StageOf == [e \in Execs |-> Stage(phase[e])]

\* Before admission the proposal's own authority counts, then the execution's.
Barred == {e \in Execs : IF phase[e] = "NONE"
                           THEN authority[e] # "approved" \/ now >= ProposalExpiry[e]
                           ELSE Blocking(e)}

Issued == {e \in Execs : writes[e] > 0}

Authority == INSTANCE WriteAuthority WITH
  stage <- StageOf, barred <- Barred, issued <- Issued, pending <- outstanding

\* Every run of the ledger and its workers is one of WriteAuthority: a target
\* is given up only without a write or with a landed one, nothing is granted
\* after its authority is gone, and nothing is issued twice.
WriteAuthoritySpec == Authority!Spec
=============================================================================
