------------------------- MODULE RemediationWorkerProofs -------------------------
(***************************************************************************)
(* Proofs about RemediationLedger and RemediationWorker, for every set of   *)
(* executions, targets and workers and every value of the time and budget   *)
(* constants: the ledger as its callers may use it, then the workers over it *)
(* and their refinement of WriteAuthority.                                  *)
(***************************************************************************)
EXTENDS RemediationWorker, FiniteSetTheorems, TLAPS

-----------------------------------------------------------------------------
(* The ledger: Spec, whoever calls it                                        *)

\* Every step keeps the types.
LEMMA TypeStep == TypeOK /\ [Next]_ledgerVars => TypeOK'
<1> SUFFICES ASSUME TypeOK, [Next]_ledgerVars
             PROVE  TypeOK'
  OBVIOUS
<1> USE LedgerAssumption DEF TypeOK, Phases
<1>1. CASE Tick
  BY <1>1 DEF Tick, rowVars, claimVars, rbVars
<1>2. ASSUME NEW e \in Execs, Call(e)
      PROVE  TypeOK'
  <2>1. CASE Approve(e) \/ Withdraw(e)
    BY <2>1 DEF Approve, Withdraw, rowVars, claimVars, rbVars
  <2>2. CASE Admit(e)
    BY <2>2 DEF Admit, Earlier, claimVars, rbVars
  <2>3. CASE ClaimGrants(e)
    BY <2>3 DEF ClaimGrants, Earlier, rbVars
  <2>4. ASSUME CloseWithoutWrite(e)
        PROVE  TypeOK'
    BY <2>4 DEF CloseWithoutWrite, Release, claimVars, rbVars
  <2>5. CASE ClaimCloses(e)
    BY <2>5, <2>4 DEF ClaimCloses
  <2>6. ASSUME NEW k \in 1..gen[e], ReadGrants(e, k)
        PROVE  TypeOK'
    BY <2>6 DEF ReadGrants, Spent, rbVars
  <2>7. ASSUME NEW k \in 1..gen[e], ReadCloses(e, k) \/ NoWrite(e, k)
        PROVE  TypeOK'
    BY <2>7, <2>4 DEF ReadCloses, NoWrite, ledgerVars, rowVars, claimVars, rbVars
  <2>8. ASSUME NEW k \in 1..gen[e], NEW o \in Observations, NEW at \in 0..now,
               IntentGrants(e, k, o, at) \/ IntentCloses(e, k, o, at)
        PROVE  TypeOK'
    BY <2>8, <2>4 DEF IntentGrants, IntentCloses, claimVars, rbVars
  <2>9. ASSUME NEW k \in 1..gen[e], Acknowledge(e, k)
        PROVE  TypeOK'
    BY <2>9 DEF Acknowledge, Release, claimVars, rbVars
  <2>10. CASE Quarantine(e)
    BY <2>10 DEF Quarantine, ledgerVars, rowVars, claimVars, rbVars
  <2>11. CASE BeginReadback(e)
    BY <2>11 DEF BeginReadback, claimVars, NotStarted
  <2>12. ASSUME NEW p \in 1..MaxReadbacks, NEW at \in {NotStarted} \cup 0..now,
                RecordObservation(e, p, at)
         PROVE  TypeOK'
    BY <2>12 DEF RecordObservation, claimVars
  <2>13. QED
    BY <1>2, <2>1, <2>2, <2>3, <2>5, <2>6, <2>7, <2>8, <2>9, <2>10, <2>11, <2>12 DEF Call
<1>3. CASE UNCHANGED ledgerVars
  BY <1>3 DEF ledgerVars, rowVars, claimVars, rbVars
<1>4. QED
  BY <1>1, <1>2, <1>3 DEF Next

\* Every transaction of the ledger's services keeps each column's type.
THEOREM TypeCorrect == Spec => []TypeOK
<1>1. Init => TypeOK
  BY LedgerAssumption DEF Init, TypeOK, Phases, NotStarted
<1>2. QED
  BY <1>1, TypeStep, PTL DEF Spec
-----------------------------------------------------------------------------
\* The inductive core of both journal invariants.
JournalInv == TypeOK /\ ReservationMatchesPhase /\ ClaimMatchesJournal

\* What an admission does to the journal and the reservations, with the set of
\* executions it closes to make room.
AdmitEffect(e, closed) ==
  /\ phase[e] = "NONE" /\ phase'[e] = "QUEUED" /\ e \notin closed
  /\ holder'[TargetOf[e]] = e
  /\ \A x \in closed : phase[x] = "QUEUED" /\ phase'[x] \in {"BLOCKED", "EXPIRED"} /\ Blocking(x)
  /\ \A x \in Execs : x \notin closed /\ x # e => phase'[x] = phase[x]
  /\ \A x \in Execs : holder[TargetOf[e]] = x => x \in closed
  /\ \A u \in Targets : u # TargetOf[e] =>
       /\ holder[u] \in closed => holder'[u] = NoExec
       /\ holder[u] \notin closed => holder'[u] = holder[u]
  /\ \A x \in Execs : x # e => expires'[x] = expires[x]
  /\ UNCHANGED <<now, authority, gen, lease, claimedAt, reads, intent, acked, rbStart, rbUsed, rbSeen>>

\* Admission closes exactly the overdue executions and the displaced holder,
\* all of them still QUEUED and blocked.
LEMMA AdmitCloses ==
  ASSUME TypeOK, NEW e \in Execs, Admit(e)
  PROVE  \E closed \in SUBSET Execs : AdmitEffect(e, closed)
<1> DEFINE t == TargetOf[e]
           displaced == {x \in Execs : holder[t] = x} \ Reapable
           closed == Reapable \cup displaced
<1>1. closed \subseteq Execs /\ t \in Targets
  BY LedgerAssumption DEF Reapable
<1>2. \A x \in closed : phase[x] = "QUEUED" /\ Blocking(x)
  BY DEF Admit, Reapable, Displaceable, Blocking, TypeOK
<1>3. e \notin closed
  BY <1>2 DEF Admit
<1>4. phase' = [[x \in Execs |-> IF x \notin closed THEN phase[x]
                                   ELSE IF x \in Reapable THEN "EXPIRED" ELSE "BLOCKED"]
                   EXCEPT ![e] = "QUEUED"]
  BY DEF Admit
<1>5. holder' = [[u \in Targets |-> IF holder[u] \in closed THEN NoExec ELSE holder[u]]
                    EXCEPT ![t] = e]
  BY DEF Admit
<1>6. \A x \in Execs : holder[t] = x => x \in closed
  OBVIOUS
<1>7. /\ \A x \in Execs : x # e => expires'[x] = expires[x]
      /\ UNCHANGED <<now, authority, gen, lease, claimedAt, reads, intent, acked, rbStart, rbUsed, rbSeen>>
  BY DEF Admit, TypeOK, claimVars, rbVars
<1>8. phase[e] = "NONE"
  BY DEF Admit
<1> HIDE DEF t, displaced, closed
<1>9. /\ phase'[e] = "QUEUED"
      /\ \A x \in closed : phase'[x] \in {"BLOCKED", "EXPIRED"}
      /\ \A x \in Execs : x \notin closed /\ x # e => phase'[x] = phase[x]
  BY <1>1, <1>3, <1>4
<1>10. /\ holder'[t] = e
       /\ \A u \in Targets : u # t =>
            /\ holder[u] \in closed => holder'[u] = NoExec
            /\ holder[u] \notin closed => holder'[u] = holder[u]
  BY <1>1, <1>5
<1>11. AdmitEffect(e, closed)
  BY <1>2, <1>3, <1>6, <1>7, <1>8, <1>9, <1>10 DEF AdmitEffect, t
<1>12. QED
  BY <1>1, <1>11

\* The reservation and the claim row agree with the journal after every
\* transaction, so the consistency checks that both services make before they
\* do anything never refuse a ledger that only these services wrote.
LEMMA JournalStep == TypeOK' /\ JournalInv /\ [Next]_ledgerVars => JournalInv'
<1> SUFFICES ASSUME TypeOK', JournalInv, [Next]_ledgerVars
             PROVE  ReservationMatchesPhase' /\ ClaimMatchesJournal'
  BY DEF JournalInv
<1> USE LedgerAssumption DEF JournalInv, TypeOK, ReservationMatchesPhase, ClaimMatchesJournal,
        Phases, Held, PreIntent
<1>1. CASE Tick
  BY <1>1 DEF Tick, rowVars, claimVars, rbVars
<1>2. ASSUME NEW e \in Execs, Call(e)
      PROVE  ReservationMatchesPhase' /\ ClaimMatchesJournal'
  <2>1. CASE Approve(e) \/ Withdraw(e)
    BY <2>1 DEF Approve, Withdraw, rowVars, claimVars, rbVars
  <2>2. CASE Admit(e)
    <3> PICK closed \in SUBSET Execs : AdmitEffect(e, closed)
      BY <2>2, AdmitCloses
    <3>0. ReservationMatchesPhase /\ ClaimMatchesJournal
      OBVIOUS
    <3> USE DEF AdmitEffect
    <3> HIDE DEF TypeOK, JournalInv
    <3>1. ReservationMatchesPhase'
      <4> SUFFICES ASSUME NEW u \in Targets, NEW x \in Execs
                   PROVE  holder'[u] = x <=> TargetOf[x] = u /\ phase'[x] \in Held
        BY DEF ReservationMatchesPhase
      <4> HIDE DEF ClaimMatchesJournal
      <4>0. TargetOf[e] \in Targets /\ x # NoExec
        OBVIOUS
      <4>1. CASE x = e
        BY <4>1, <4>0, <3>0
      <4>2. CASE x \in closed
        BY <4>2, <4>0, <3>0
      <4>3. CASE x \notin closed /\ x # e
        BY <4>3, <4>0, <3>0
      <4>4. QED
        BY <4>1, <4>2, <4>3
    <3>2. ClaimMatchesJournal'
      <4> HIDE DEF ReservationMatchesPhase
      <4> SUFFICES ASSUME NEW x \in Execs
                   PROVE  ClaimMatchesJournal!(x)'
        BY DEF ClaimMatchesJournal
      <4>1. CASE x = e
        BY <4>1, <3>0
      <4>2. CASE x \in closed
        BY <4>2, <3>0
      <4>3. CASE x \notin closed /\ x # e
        BY <4>3, <3>0
      <4>4. QED
        BY <4>1, <4>2, <4>3
    <3>3. QED
      BY <3>1, <3>2
  <2>3. CASE ClaimGrants(e)
    BY <2>3 DEF ClaimGrants, Earlier, rbVars
  <2>4. ASSUME CloseWithoutWrite(e), phase[e] \in PreIntent
        PROVE  ReservationMatchesPhase' /\ ClaimMatchesJournal'
    BY <2>4 DEF CloseWithoutWrite, Release, claimVars, rbVars
  <2>5. CASE ClaimCloses(e)
    BY <2>5, <2>4 DEF ClaimCloses
  <2>6. ASSUME NEW k \in 1..gen[e], ReadGrants(e, k)
        PROVE  ReservationMatchesPhase' /\ ClaimMatchesJournal'
    BY <2>6 DEF ReadGrants, rbVars
  <2>7. ASSUME NEW k \in 1..gen[e], ReadCloses(e, k) \/ NoWrite(e, k)
        PROVE  ReservationMatchesPhase' /\ ClaimMatchesJournal'
    <3>1. CASE ReadCloses(e, k)
      BY <3>1, <2>4 DEF ReadCloses, Fenced
    <3>2. CASE NoWrite(e, k)
      BY <3>2, <2>4 DEF NoWrite, Fenced, ledgerVars, rowVars, claimVars, rbVars
    <3>3. QED
      BY <2>7, <3>1, <3>2
  <2>8. ASSUME NEW k \in 1..gen[e], NEW o \in Observations, NEW at \in 0..now,
               IntentGrants(e, k, o, at) \/ IntentCloses(e, k, o, at)
        PROVE  ReservationMatchesPhase' /\ ClaimMatchesJournal'
    <3>1. CASE IntentGrants(e, k, o, at)
      BY <3>1 DEF IntentGrants, Fenced, claimVars, rbVars
    <3>2. CASE IntentCloses(e, k, o, at)
      BY <3>2, <2>4 DEF IntentCloses, Fenced
    <3>3. QED
      BY <2>8, <3>1, <3>2
  <2>9. ASSUME NEW k \in 1..gen[e], Acknowledge(e, k)
        PROVE  ReservationMatchesPhase' /\ ClaimMatchesJournal'
    BY <2>9 DEF Acknowledge, Release, claimVars, rbVars
  <2>10. CASE Quarantine(e)
    BY <2>10 DEF Quarantine, ledgerVars, rowVars, claimVars, rbVars
  <2>11. CASE BeginReadback(e)
    BY <2>11 DEF BeginReadback, Written, claimVars, NotStarted
  <2>12. ASSUME NEW p \in 1..MaxReadbacks, NEW at \in {NotStarted} \cup 0..now,
                RecordObservation(e, p, at)
         PROVE  ReservationMatchesPhase' /\ ClaimMatchesJournal'
    BY <2>12 DEF RecordObservation, Written, claimVars
  <2>13. QED
    BY <1>2, <2>1, <2>2, <2>3, <2>5, <2>6, <2>7, <2>8, <2>9, <2>10, <2>11, <2>12 DEF Call
<1>3. CASE UNCHANGED ledgerVars
  BY <1>3 DEF ledgerVars, rowVars, claimVars, rbVars
<1>4. QED
  BY <1>1, <1>2, <1>3 DEF Next

LEMMA JournalInit == Init => JournalInv
<1>1. Init => TypeOK
  BY LedgerAssumption DEF Init, TypeOK, Phases, NotStarted
<1>2. Init => ReservationMatchesPhase /\ ClaimMatchesJournal
  BY LedgerAssumption DEF Init, ReservationMatchesPhase, ClaimMatchesJournal, Held, NotStarted
<1>3. QED
  BY <1>1, <1>2 DEF JournalInv

LEMMA JournalAlways == Spec => []JournalInv
BY JournalInit, JournalStep, TypeCorrect, PTL DEF Spec

\* A target is reserved for an execution exactly while its phase is held.
THEOREM ReservationCorrect == Spec => []ReservationMatchesPhase
BY JournalAlways, PTL DEF JournalInv

\* The claim row agrees with the journal.
THEOREM ClaimCorrect == Spec => []ClaimMatchesJournal
BY JournalAlways, PTL DEF JournalInv
-----------------------------------------------------------------------------
\* What one step of the ledger may do to one execution x, whatever execution
\* the step is about.
Sticky(x) == phase[x] = "QUARANTINED" =>
  phase'[x] = "QUARANTINED" /\ holder'[TargetOf[x]] = x

Shrinks(x) ==
  /\ reads'[x] >= reads[x] /\ rbUsed'[x] >= rbUsed[x] /\ rbSeen[x] \subseteq rbSeen'[x]
  /\ rbStart[x] # NotStarted => rbStart'[x] = rbStart[x]

\* An execution whose write can no longer be authorised.
CutOff(x) ==
  /\ ~intent[x]
  /\ \/ phase[x] \in PreIntent /\ Blocking(x)
     \/ phase[x] \in {"NO_WRITE", "EXPIRED", "BLOCKED"}

\* Closing an execution without a write disturbs no other one.
LEMMA ClosesOnlyOne ==
  ASSUME JournalInv, NEW e \in Execs, CloseWithoutWrite(e), phase[e] \in PreIntent,
         NEW x \in Execs
  PROVE  Sticky(x) /\ Shrinks(x) /\ (CutOff(x) => CutOff(x)')
<1> USE LedgerAssumption DEF JournalInv, TypeOK, PreIntent
<1>1. Sticky(x)
  <2> SUFFICES ASSUME phase[x] = "QUARANTINED"
               PROVE  phase'[x] = "QUARANTINED" /\ holder'[TargetOf[x]] = x
    BY DEF Sticky
  <2>1. x # e /\ phase'[x] = "QUARANTINED"
    BY DEF CloseWithoutWrite
  <2>2. TargetOf[x] \in Targets /\ TargetOf[e] \in Targets
    OBVIOUS
  <2>3. holder[TargetOf[x]] = x /\ holder[TargetOf[e]] = e
    BY <2>2 DEF ReservationMatchesPhase, Held
  <2>4. holder'[TargetOf[x]] = x
    BY <2>1, <2>2, <2>3 DEF CloseWithoutWrite, Release
  <2>5. QED
    BY <2>1, <2>4
<1>2. Shrinks(x)
  BY DEF Shrinks, CloseWithoutWrite, claimVars, rbVars
<1>3. CutOff(x) => CutOff(x)'
  BY DEF CutOff, Blocking, CloseWithoutWrite, claimVars, rbVars
<1>4. QED
  BY <1>1, <1>2, <1>3

\* Only approved proposals are admitted, and a decision is never undone.
DecidedFirst == \A e \in Execs : phase[e] # "NONE" => authority[e] # "undecided"

LEMMA DecidedStep == TypeOK /\ DecidedFirst /\ [Next]_ledgerVars => DecidedFirst'
<1> SUFFICES ASSUME TypeOK, DecidedFirst, [Next]_ledgerVars
             PROVE  DecidedFirst'
  OBVIOUS
<1> USE LedgerAssumption DEF TypeOK, DecidedFirst
<1>1. CASE Tick \/ UNCHANGED ledgerVars
  BY <1>1 DEF Tick, ledgerVars, rowVars
<1>2. ASSUME NEW e \in Execs, Call(e)
      PROVE  DecidedFirst'
  <2>1. CASE Approve(e) \/ Withdraw(e)
    BY <2>1 DEF Approve, Withdraw, rowVars
  <2>2. CASE Admit(e)
    <3> PICK closed \in SUBSET Execs : AdmitEffect(e, closed)
      BY <2>2, AdmitCloses
    <3>1. authority[e] = "approved"
      BY <2>2 DEF Admit
    <3> HIDE DEF TypeOK
    <3>2. QED
      BY <3>1 DEF AdmitEffect
  <2>3. ASSUME UNCHANGED authority, phase[e] # "NONE",
               \A x \in Execs : x # e => phase'[x] = phase[x]
        PROVE  DecidedFirst'
    BY <2>3
  <2>4. ASSUME CloseWithoutWrite(e), phase[e] # "NONE"
        PROVE  DecidedFirst'
    BY <2>4, <2>3 DEF CloseWithoutWrite
  <2>5. CASE ClaimGrants(e) \/ ClaimCloses(e)
    BY <2>5, <2>3, <2>4 DEF ClaimGrants, ClaimCloses, PreIntent
  <2>6. ASSUME NEW k \in 1..gen[e], ReadGrants(e, k) \/ ReadCloses(e, k) \/ NoWrite(e, k)
        PROVE  DecidedFirst'
    BY <2>6, <2>4 DEF ReadGrants, ReadCloses, NoWrite, Fenced, ledgerVars, rowVars
  <2>7. ASSUME NEW k \in 1..gen[e], NEW o \in Observations, NEW at \in 0..now,
               IntentGrants(e, k, o, at) \/ IntentCloses(e, k, o, at)
        PROVE  DecidedFirst'
    BY <2>7, <2>3, <2>4 DEF IntentGrants, IntentCloses, Fenced
  <2>8. ASSUME NEW k \in 1..gen[e], Acknowledge(e, k)
        PROVE  DecidedFirst'
    BY <2>8, <2>3 DEF Acknowledge
  <2>9. CASE Quarantine(e)
    BY <2>9, <2>3 DEF Quarantine, ledgerVars, rowVars
  <2>10. CASE BeginReadback(e) \/ \E p \in 1..MaxReadbacks, at \in {NotStarted} \cup 0..now :
                                    RecordObservation(e, p, at)
    BY <2>10 DEF BeginReadback, RecordObservation
  <2>11. QED
    BY <1>2, <2>1, <2>2, <2>5, <2>6, <2>7, <2>8, <2>9, <2>10 DEF Call
<1>3. QED
  BY <1>1, <1>2 DEF Next

LEMMA DecidedAlways == Spec => []DecidedFirst
<1>1. Init => DecidedFirst
  BY DEF Init, DecidedFirst
<1>2. QED
  BY <1>1, DecidedStep, TypeCorrect, PTL DEF Spec

LEMMA OneExecutionStep ==
  ASSUME JournalInv, DecidedFirst, [Next]_ledgerVars, NEW x \in Execs
  PROVE  Sticky(x) /\ Shrinks(x) /\ (CutOff(x) => CutOff(x)')
<1> DEFINE Goal == Sticky(x) /\ Shrinks(x) /\ (CutOff(x) => CutOff(x)')
<1> USE LedgerAssumption DEF JournalInv, TypeOK, PreIntent, Sticky, Shrinks, CutOff, Blocking
<1>0. phase[x] = "QUARANTINED" => holder[TargetOf[x]] = x
  BY DEF ReservationMatchesPhase, Held
<1>1. CASE Tick
  BY <1>0, <1>1 DEF Tick, rowVars, claimVars, rbVars
<1>2. ASSUME NEW e \in Execs, Call(e)
      PROVE  Goal
  <2>1. CASE Approve(e)
    BY <1>0, <2>1 DEF Approve, DecidedFirst, rowVars, claimVars, rbVars
  <2>2. CASE Withdraw(e)
    BY <1>0, <2>2 DEF Withdraw, rowVars, claimVars, rbVars
  <2>3. CASE Admit(e)
    <3> PICK closed \in SUBSET Execs : AdmitEffect(e, closed)
      BY <2>3, AdmitCloses
    <3>1. CASE x = e
      BY <3>1 DEF AdmitEffect
    <3>2. CASE x \in closed
      BY <3>2 DEF AdmitEffect
    <3>3. CASE x \notin closed /\ x # e
      <4>1. phase[x] = "QUARANTINED" => TargetOf[x] # TargetOf[e]
        BY <1>0, <3>3 DEF AdmitEffect
      <4>2. TargetOf[x] \in Targets
        OBVIOUS
      <4>3. Sticky(x)
        BY <1>0, <3>3, <4>1, <4>2 DEF AdmitEffect
      <4>4. Shrinks(x) /\ (CutOff(x) => CutOff(x)')
        BY <3>3 DEF AdmitEffect
      <4>5. QED
        BY <4>3, <4>4
    <3>4. QED
      BY <3>1, <3>2, <3>3
  <2>4. CASE ClaimGrants(e)
    BY <1>0, <2>4 DEF ClaimGrants, rbVars
  <2>5. CASE ClaimCloses(e)
    BY <2>5, ClosesOnlyOne DEF ClaimCloses
  <2>6. ASSUME NEW k \in 1..gen[e], ReadGrants(e, k)
        PROVE  Goal
    BY <1>0, <2>6 DEF ReadGrants, rbVars
  <2>7. ASSUME NEW k \in 1..gen[e], ReadCloses(e, k)
        PROVE  Goal
    BY <2>7, ClosesOnlyOne DEF ReadCloses, Fenced
  <2>8. ASSUME NEW k \in 1..gen[e], NoWrite(e, k)
        PROVE  Goal
    <3>1. CASE UNCHANGED ledgerVars
      BY <1>0, <3>1 DEF ledgerVars, rowVars, claimVars, rbVars
    <3>2. QED
      BY <2>8, <3>1, ClosesOnlyOne DEF NoWrite, Fenced
  <2>9. ASSUME NEW k \in 1..gen[e], NEW o \in Observations, NEW at \in 0..now,
               IntentGrants(e, k, o, at)
        PROVE  Goal
    BY <1>0, <2>9 DEF IntentGrants, Fenced, claimVars, rbVars
  <2>10. ASSUME NEW k \in 1..gen[e], NEW o \in Observations, NEW at \in 0..now,
                IntentCloses(e, k, o, at)
         PROVE  Goal
    BY <2>10, ClosesOnlyOne DEF IntentCloses, Fenced
  <2>11. ASSUME NEW k \in 1..gen[e], Acknowledge(e, k)
         PROVE  Goal
    <3>1. CASE phase[e] = "WRITE_INTENT" /\ holder' = [holder EXCEPT ![TargetOf[e]] = NoExec]
      <4>1. holder[TargetOf[e]] = e
        BY <3>1 DEF ReservationMatchesPhase, Held
      <4>2. QED
        BY <1>0, <2>11, <3>1, <4>1 DEF Acknowledge, claimVars, rbVars
    <3>2. CASE UNCHANGED <<phase, holder>>
      BY <1>0, <2>11, <3>2 DEF Acknowledge, claimVars, rbVars
    <3>3. QED
      BY <2>11, <3>1, <3>2 DEF Acknowledge, Release
  <2>12. CASE Quarantine(e)
    BY <1>0, <2>12 DEF Quarantine, ledgerVars, rowVars, claimVars, rbVars
  <2>13. CASE BeginReadback(e)
    BY <1>0, <2>13 DEF BeginReadback, claimVars
  <2>14. ASSUME NEW p \in 1..MaxReadbacks, NEW at \in {NotStarted} \cup 0..now,
                RecordObservation(e, p, at)
         PROVE  Goal
    BY <1>0, <2>14 DEF RecordObservation, claimVars
  <2>15. QED
    BY <1>2, <2>1, <2>2, <2>3, <2>4, <2>5, <2>6, <2>7, <2>8, <2>9, <2>10, <2>11, <2>12,
       <2>13, <2>14 DEF Call
<1>3. CASE UNCHANGED ledgerVars
  BY <1>0, <1>3 DEF ledgerVars, rowVars, claimVars, rbVars
<1>4. QED
  BY <1>1, <1>2, <1>3 DEF Next

\* No transaction frees a quarantined execution or its target.
THEOREM QuarantineStays == Spec => QuarantineIsSticky
<1>1. JournalInv /\ DecidedFirst /\ [Next]_ledgerVars =>
        [\A e \in Execs : phase[e] = "QUARANTINED" =>
            phase'[e] = "QUARANTINED" /\ holder'[TargetOf[e]] = e]_ledgerVars
  BY OneExecutionStep DEF Sticky
<1>2. QED
  BY <1>1, JournalAlways, DecidedAlways, PTL DEF Spec, QuarantineIsSticky

\* No transaction renews a budget.
THEOREM BudgetsShrink == Spec => BudgetsOnlyShrink
<1>1. JournalInv /\ DecidedFirst /\ [Next]_ledgerVars =>
        [\A e \in Execs :
           /\ reads'[e] >= reads[e] /\ rbUsed'[e] >= rbUsed[e] /\ rbSeen[e] \subseteq rbSeen'[e]
           /\ rbStart[e] # NotStarted => rbStart'[e] = rbStart[e]]_ledgerVars
  BY OneExecutionStep DEF Shrinks
<1>2. QED
  BY <1>1, JournalAlways, DecidedAlways, PTL DEF Spec, BudgetsOnlyShrink

\* A cutoff that commits before the write intent is final: being cut off is
\* kept by every step, although what blocked the execution may have been
\* time, a revocation or governance.
THEOREM CutoffStays == Spec => CutoffIsFinal
<1> SUFFICES ASSUME NEW e \in Execs
             PROVE  Spec => []((phase[e] \in PreIntent /\ Blocking(e)) => []~intent[e])
  BY DEF CutoffIsFinal
<1>1. JournalInv /\ phase[e] \in PreIntent /\ Blocking(e) => CutOff(e)
  BY DEF JournalInv, ClaimMatchesJournal, CutOff, PreIntent
<1>2. JournalInv /\ DecidedFirst /\ CutOff(e) /\ [Next]_ledgerVars => CutOff(e)'
  BY OneExecutionStep
<1>3. CutOff(e) => ~intent[e]
  BY DEF CutOff
<1>4. QED
  BY <1>1, <1>2, <1>3, JournalAlways, DecidedAlways, PTL DEF Spec
-----------------------------------------------------------------------------
Occupied == {t \in Targets : holder[t] # NoExec}

CapacityInv == IsFiniteSet(Occupied) /\ Cardinality(Occupied) <= Capacity

\* Every transaction but an admission at most gives a reservation back.
LEMMA OnlyAdmitReserves ==
  ASSUME TypeOK, NEW e \in Execs, Call(e), ~Admit(e)
  PROVE  Occupied' \subseteq Occupied
<1> USE LedgerAssumption DEF TypeOK
<1>1. CASE UNCHANGED holder
  BY <1>1 DEF Occupied
<1>2. CASE holder' = [holder EXCEPT ![TargetOf[e]] = NoExec]
  BY <1>2 DEF Occupied
<1>3. UNCHANGED holder \/ holder' = [holder EXCEPT ![TargetOf[e]] = NoExec]
  BY DEF Call, Approve, Withdraw, ClaimGrants, ClaimCloses, CloseWithoutWrite, Release,
         ReadGrants, ReadCloses, NoWrite, IntentGrants, IntentCloses, Acknowledge, Quarantine,
         BeginReadback, RecordObservation, ledgerVars, rowVars
<1>4. QED
  BY <1>1, <1>2, <1>3

\* An admission counts after it has closed what it closes, and adds one target.
LEMMA AdmitFits ==
  ASSUME TypeOK, CapacityInv, NEW e \in Execs, Admit(e)
  PROVE  CapacityInv'
<1> DEFINE t == TargetOf[e]
           displaced == {x \in Execs : holder[t] = x} \ Reapable
           closed == Reapable \cup displaced
           reserved == {u \in Targets : holder[u] \notin closed \cup {NoExec}}
<1>1. Cardinality(reserved) < Capacity
  BY DEF Admit, HasRoom
<1>2. reserved \subseteq Occupied
  BY DEF Occupied
<1>3. holder' = [[u \in Targets |-> IF holder[u] \in closed THEN NoExec ELSE holder[u]]
                    EXCEPT ![t] = e]
  BY DEF Admit
<1> HIDE DEF closed
<1>4. Occupied' \subseteq reserved \cup {t}
  BY <1>3 DEF Occupied
<1> HIDE DEF reserved, t
<1>5. IsFiniteSet(reserved)
  BY <1>2, FS_Subset DEF CapacityInv
<1>6. /\ IsFiniteSet(reserved \cup {t})
      /\ Cardinality(reserved) \in Nat
      /\ Cardinality(reserved \cup {t}) <= Cardinality(reserved) + 1
  <2>1. Cardinality(reserved) \in Nat
    BY <1>5, FS_CardinalityType
  <2>2. /\ IsFiniteSet(reserved \cup {t})
        /\ \/ Cardinality(reserved \cup {t}) = Cardinality(reserved)
           \/ Cardinality(reserved \cup {t}) = Cardinality(reserved) + 1
    BY <1>5, FS_AddElement
  <2>3. QED
    BY <2>1, <2>2
<1>7. /\ IsFiniteSet(Occupied')
      /\ Cardinality(Occupied') \in Nat
      /\ Cardinality(reserved \cup {t}) \in Nat
      /\ Cardinality(Occupied') <= Cardinality(reserved \cup {t})
  BY <1>4, <1>6, FS_Subset, FS_CardinalityType
<1>8. QED
  BY <1>1, <1>6, <1>7, LedgerAssumption DEF CapacityInv

\* The reservations never exceed the admission capacity.
THEOREM CapacityCorrect == Spec => []CapacityRespected
<1>1. Init => CapacityInv
  <2>1. Init => Occupied = {}
    BY DEF Init, Occupied
  <2>2. QED
    BY <2>1, FS_EmptySet, LedgerAssumption DEF CapacityInv
<1>2. TypeOK /\ CapacityInv /\ [Next]_ledgerVars => CapacityInv'
  <2> SUFFICES ASSUME TypeOK, CapacityInv, [Next]_ledgerVars
               PROVE  CapacityInv'
    OBVIOUS
  <2>1. ASSUME Occupied' \subseteq Occupied
        PROVE  CapacityInv'
    <3>1. /\ IsFiniteSet(Occupied')
          /\ Cardinality(Occupied') \in Nat /\ Cardinality(Occupied) \in Nat
          /\ Cardinality(Occupied') <= Cardinality(Occupied)
      BY <2>1, FS_Subset, FS_CardinalityType DEF CapacityInv
    <3>2. QED
      BY <3>1, LedgerAssumption DEF CapacityInv
  <2>2. CASE Tick \/ UNCHANGED ledgerVars
    <3>1. UNCHANGED holder
      BY <2>2 DEF Tick, ledgerVars, rowVars
    <3>2. QED
      BY <3>1, <2>1 DEF Occupied
  <2>3. QED
    BY <2>1, <2>2, OnlyAdmitReserves, AdmitFits DEF Next
<1>3. CapacityInv => CapacityRespected
  BY DEF CapacityInv, Occupied, CapacityRespected
<1>4. QED
  BY <1>1, <1>2, <1>3, TypeCorrect, PTL DEF Spec

-----------------------------------------------------------------------------
(* The workers                                                               *)

Open == {"WRITE_INTENT", "QUARANTINED"}
Recording == {"record", "recordLast"}
Polling == {"poll"} \cup Recording

\* What a worker may rely on in its own state.
Local(w) ==
  /\ pc[w] = "idle" => tok[w] = 0 /\ tries[w] = 0
  /\ pc[w] = "claim" => tries[w] = 0
  /\ pc[w] # "idle" => job[w] \in Execs /\ phase[job[w]] # "NONE"
  /\ obsAt[w] <= now
  /\ pc[w] \in {"read", "observe"} => tries[w] < MaxReads
  /\ pc[w] = "intent" => obs[w] \in Observations /\ obsAt[w] # NotStarted
  /\ pc[w] \in Polling => /\ poll[w] > 0
                          /\ rbStart[job[w]] # NotStarted
                          /\ rbStart[job[w]] <= now
  /\ pc[w] \in Recording /\ obsAt[w] # NotStarted => InWindow(job[w], obsAt[w])

\* A worker that is writing owns the claim, and nobody wrote before it.
Fence(w) ==
  /\ tok[w] > 0 => pc[w] # "idle" /\ tok[w] <= gen[job[w]]
  /\ pc[w] \in Writing => /\ phase[job[w]] \in Open
                          /\ tok[w] > 0 /\ tok[w] = gen[job[w]]
  /\ pc[w] \in {"deadline", "dispatch"} => writes[job[w]] = 0
  /\ pc[w] \in {"sent", "ack"} => writes[job[w]] = 1
  /\ pc[w] = "ack" => job[w] \notin outstanding

\* No two workers hold the same token.
TokensDiffer ==
  \A v, w \in Workers : job[v] = job[w] /\ tok[v] = tok[w] /\ tok[w] > 0 => v = w

\* Nothing is written before an intent, nor twice, and what may still land has
\* neither been acknowledged nor closed.
WriteOnce(e) ==
  /\ writes[e] <= 1
  /\ ~intent[e] => writes[e] = 0
  /\ e \in outstanding => writes[e] = 1 /\ phase[e] \in Open

\* The readback window does not open in the future.
WindowInv == \A e \in Execs : rbStart[e] # NotStarted => rbStart[e] <= now

WInv ==
  /\ WTypeOK
  /\ \A w \in Workers : Local(w) /\ Fence(w)
  /\ TokensDiffer
  /\ \A e \in Execs : WriteOnce(e)

\* The invariant of the ledger and of the workers together.
AllInv == JournalInv /\ DecidedFirst /\ WindowInv /\ WInv
-----------------------------------------------------------------------------
\* What every step of the ledger leaves to an execution x.
Forward(x) ==
  /\ now' >= now
  /\ gen'[x] >= gen[x]
  /\ intent[x] => intent'[x] /\ gen'[x] = gen[x]
  /\ phase[x] # "NONE" => phase'[x] # "NONE"
  /\ rbStart'[x] \in {rbStart[x], now}
  /\ rbStart[x] # NotStarted => rbStart'[x] = rbStart[x]
  /\ phase[x] \in Open /\ acked'[x] = acked[x] => phase'[x] \in Open

LEMMA CloseForward ==
  ASSUME JournalInv, NEW e \in Execs, CloseWithoutWrite(e), phase[e] \in PreIntent,
         NEW x \in Execs
  PROVE  Forward(x)
BY DEF Forward, Open, JournalInv, TypeOK, PreIntent, CloseWithoutWrite, claimVars, rbVars

LEMMA LedgerForward ==
  ASSUME JournalInv, [Next]_ledgerVars, NEW x \in Execs
  PROVE  Forward(x)
<1> USE LedgerAssumption DEF JournalInv, TypeOK, Forward, PreIntent, Open
<1>0. intent[x] <=> phase[x] \in {"WRITE_INTENT", "ACKNOWLEDGED", "QUARANTINED"}
  BY DEF ClaimMatchesJournal
<1>1. CASE Tick
  BY <1>1 DEF Tick, rowVars, claimVars, rbVars
<1>2. ASSUME NEW e \in Execs, Call(e)
      PROVE  Forward(x)
  <2>1. CASE Approve(e) \/ Withdraw(e)
    BY <2>1 DEF Approve, Withdraw, rowVars, claimVars, rbVars
  <2>2. CASE Admit(e)
    <3> PICK closed \in SUBSET Execs : AdmitEffect(e, closed)
      BY <2>2, AdmitCloses
    <3>1. /\ now' = now /\ gen' = gen /\ intent' = intent /\ rbStart' = rbStart
          /\ acked' = acked
      BY DEF AdmitEffect
    <3>2. /\ phase[x] # "NONE" => phase'[x] # "NONE"
          /\ phase[x] \in Open => phase'[x] \in Open
      <4>1. CASE x = e
        BY <4>1 DEF AdmitEffect
      <4>2. CASE x \in closed
        BY <4>2 DEF AdmitEffect
      <4>3. CASE x # e /\ x \notin closed
        BY <4>3 DEF AdmitEffect
      <4> QED
        BY <4>1, <4>2, <4>3
    <3> QED
      BY <3>1, <3>2
  <2>3. CASE ClaimGrants(e)
    BY <1>0, <2>3 DEF ClaimGrants, rbVars
  <2>4. CASE ClaimCloses(e)
    BY <2>4, CloseForward DEF ClaimCloses
  <2>5. ASSUME NEW k \in 1..gen[e], ReadGrants(e, k)
        PROVE  Forward(x)
    BY <2>5 DEF ReadGrants, rbVars
  <2>6. ASSUME NEW k \in 1..gen[e], ReadCloses(e, k)
        PROVE  Forward(x)
    BY <2>6, CloseForward DEF ReadCloses, Fenced
  <2>7. ASSUME NEW k \in 1..gen[e], NoWrite(e, k)
        PROVE  Forward(x)
    <3>1. CASE UNCHANGED ledgerVars
      BY <3>1 DEF ledgerVars, rowVars, claimVars, rbVars
    <3>2. QED
      BY <2>7, <3>1, CloseForward DEF NoWrite, Fenced
  <2>8. ASSUME NEW k \in 1..gen[e], NEW o \in Observations, NEW at \in 0..now,
               IntentGrants(e, k, o, at)
        PROVE  Forward(x)
    BY <2>8 DEF IntentGrants, Fenced, claimVars, rbVars
  <2>9. ASSUME NEW k \in 1..gen[e], NEW o \in Observations, NEW at \in 0..now,
               IntentCloses(e, k, o, at)
        PROVE  Forward(x)
    BY <2>9, CloseForward DEF IntentCloses, Fenced
  <2>10. ASSUME NEW k \in 1..gen[e], Acknowledge(e, k)
         PROVE  Forward(x)
    <3>1. /\ acked'[e] = TRUE /\ acked[e] = FALSE
          /\ phase[e] \in Open /\ phase'[e] # "NONE"
          /\ \A y \in Execs : y # e => phase'[y] = phase[y]
          /\ UNCHANGED <<now, gen, intent, rbStart>>
      BY <2>10 DEF Acknowledge, claimVars, rbVars
    <3>2. QED
      BY <3>1
  <2>11. CASE Quarantine(e)
    BY <2>11 DEF Quarantine, ledgerVars, rowVars, claimVars, rbVars
  <2>12. CASE BeginReadback(e)
    BY <2>12 DEF BeginReadback, claimVars
  <2>13. ASSUME NEW p \in 1..MaxReadbacks, NEW at \in {NotStarted} \cup 0..now,
                RecordObservation(e, p, at)
         PROVE  Forward(x)
    BY <2>13 DEF RecordObservation, claimVars
  <2>14. QED
    BY <1>2, <2>1, <2>2, <2>3, <2>4, <2>5, <2>6, <2>7, <2>8, <2>9, <2>10, <2>11, <2>12,
       <2>13 DEF Call
<1>3. CASE UNCHANGED ledgerVars
  BY <1>3 DEF ledgerVars, rowVars, claimVars, rbVars
<1>4. QED
  BY <1>1, <1>2, <1>3 DEF Next
-----------------------------------------------------------------------------
\* The workers only ever make calls of the ledger: every step of the program
\* is a step of the ledger under arbitrary callers, or leaves it alone.
LEMMA WorkerStepIsLedgerStep ==
  ASSUME WInv, [WNext]_wvars
  PROVE  [Next]_ledgerVars
<1> USE WorkerAssumption, LedgerAssumption DEF WInv
<1>0. UNCHANGED ledgerVars => [Next]_ledgerVars
  OBVIOUS
<1>1. CASE UNCHANGED wvars
  BY <1>0, <1>1 DEF wvars
<1>2. CASE Outside
  BY <1>2 DEF Outside, Next, Call
<1>3. ASSUME NEW e \in Execs, Settle(e)
      PROVE  UNCHANGED ledgerVars
  BY <1>3 DEF Settle
<1>4. ASSUME NEW w \in Workers, Crash(w) \/ (\E e \in Execs : Start(w, e))
      PROVE  UNCHANGED ledgerVars
  BY <1>4 DEF Crash, Start
<1>5. ASSUME NEW w \in Workers, Run(w)
      PROVE  [Next]_ledgerVars
  <2> DEFINE e == job[w]
  <2>0. Local(w) /\ Fence(w) /\ tok[w] \in Nat /\ (e \in Execs => gen[e] \in Nat)
    BY DEF WTypeOK, TypeOK
  <2>1. pc[w] # "idle" /\ e \in Execs
    BY <1>5, <2>0 DEF Run, Recover, ClaimJob, ChargeRead, Observe, GiveUp, CommitIntent,
      CheckDeadline, QuarantineLate, Dispatch, Receipt, Uncertain, QuarantineDoubt,
      AcknowledgeWrite, CheckAcknowledged, ChargeReadback, ReadBack, RecordPoll, At, Local
  <2>2. ASSUME Call(e)
        PROVE  [Next]_ledgerVars
    BY <2>1, <2>2 DEF Next
  <2>3. Owned(e, tok[w]) => tok[w] \in 1..gen[e]
    BY <2>0, <2>1 DEF Owned
  <2>4. CASE Recover(w) \/ QuarantineLate(w) \/ QuarantineDoubt(w)
    BY <2>2, <2>4 DEF Recover, QuarantineLate, QuarantineDoubt, Call
  <2>5. CASE ClaimJob(w)
    BY <1>0, <2>2, <2>5 DEF ClaimJob, ClaimDeclines, Call
  <2>6. CASE ChargeRead(w)
    BY <1>0, <2>2, <2>3, <2>6 DEF ChargeRead, ReadGrants, ReadCloses, ReadDeclines, Fenced, Call
  <2>7. CASE GiveUp(w)
    BY <1>0, <2>2, <2>3, <2>7 DEF GiveUp, NoWrite, Fenced, Call
  <2>8. CASE CommitIntent(w)
    <3>1. obs[w] \in Observations /\ obsAt[w] \in 0..now
      BY <2>0, <2>1, <2>8 DEF CommitIntent, At, Local, WTypeOK, TypeOK
    <3>2. QED
      BY <1>0, <2>2, <2>3, <2>8, <3>1
         DEF CommitIntent, IntentGrants, IntentCloses, IntentDeclines, Fenced, Call
  <2>9. CASE AcknowledgeWrite(w)
    BY <1>0, <2>2, <2>3, <2>9 DEF AcknowledgeWrite, Acknowledge, AcknowledgeDeclines, Call
  <2>10. CASE ChargeReadback(w)
    BY <1>0, <2>2, <2>10 DEF ChargeReadback, ReadbackDeclines, Call
  <2>11. CASE RecordPoll(w)
    <3>1. poll[w] \in 1..MaxReadbacks /\ obsAt[w] \in {NotStarted} \cup 0..now
      BY <2>0, <2>1, <2>11 DEF RecordPoll, At, Local, Polling, Recording, WTypeOK, TypeOK
    <3>2. QED
      BY <1>0, <2>2, <2>11, <3>1 DEF RecordPoll, RecordDeclines, Call
  <2>12. CASE Observe(w) \/ CheckDeadline(w) \/ Dispatch(w) \/ Receipt(w) \/ Uncertain(w)
              \/ CheckAcknowledged(w) \/ ReadBack(w)
    BY <1>0, <2>12 DEF Observe, CheckDeadline, Dispatch, Receipt, Uncertain,
                       CheckAcknowledged, ReadBack
  <2>13. QED
    BY <1>5, <2>4, <2>5, <2>6, <2>7, <2>8, <2>9, <2>10, <2>11, <2>12 DEF Run
<1>6. QED
  BY <1>0, <1>1, <1>2, <1>3, <1>4, <1>5 DEF WNext
-----------------------------------------------------------------------------
\* A worker's own variables do not change.
Same(v) ==
  /\ pc'[v] = pc[v] /\ job'[v] = job[v] /\ tok'[v] = tok[v] /\ tries'[v] = tries[v]
  /\ obs'[v] = obs[v] /\ obsAt'[v] = obsAt[v] /\ poll'[v] = poll[v]

\* A worker that stands still keeps its part of the invariant, unless the step
\* writes or acknowledges under its nose.
LEMMA Bystander ==
  ASSUME AllInv, [Next]_ledgerVars, NEW v \in Workers, Same(v),
         pc[v] \in Writing => /\ acked'[job[v]] = acked[job[v]]
                              /\ writes'[job[v]] = writes[job[v]],
         pc[v] = "ack" => job[v] \notin outstanding'
  PROVE  Local(v)' /\ Fence(v)'
<1>1. Local(v) /\ Fence(v) /\ obsAt[v] \in Nat \cup {NotStarted}
  BY DEF AllInv, WInv, WTypeOK
<1>2. CASE pc[v] = "idle"
  <2>1. now' >= now
    <3>1. CASE UNCHANGED ledgerVars
      BY <3>1 DEF ledgerVars, AllInv, JournalInv, TypeOK
    <3>2. CASE Next
      <4>1. CASE Tick
        BY <4>1 DEF Tick, AllInv, JournalInv, TypeOK
      <4>2. CASE \E e \in Execs : Call(e)
        <5>1. Execs # {}
          BY <4>2
        <5>2. QED
          BY <5>1, LedgerForward DEF Forward, AllInv
      <4>3. QED
        BY <3>2, <4>1, <4>2 DEF Next
    <3>3. QED
      BY <3>1, <3>2
  <2>2. now \in Nat /\ now' \in Nat
    BY TypeStep, LedgerAssumption DEF AllInv, JournalInv, TypeOK
  <2>3. Local(v)'
    BY <1>1, <1>2, <2>1, <2>2 DEF Same, Local, Polling, Recording, NotStarted
  <2>4. Fence(v)'
    BY <1>1, <1>2 DEF Same, Local, Fence, Writing
  <2>5. QED
    BY <2>3, <2>4
<1>3. CASE pc[v] # "idle"
  <2>1. job[v] \in Execs /\ Forward(job[v])
    BY <1>1, <1>3, LedgerForward DEF Local, AllInv
  <2>2. phase[job[v]] \in Open => intent[job[v]]
    BY <2>1 DEF Open, AllInv, JournalInv, ClaimMatchesJournal
  <2>3. /\ now \in Nat /\ now' \in Nat /\ gen[job[v]] \in Nat /\ gen'[job[v]] \in Nat
        /\ rbStart[job[v]] \in Nat \cup {NotStarted} /\ tok[v] \in Nat
    BY <2>1, TypeStep, LedgerAssumption DEF AllInv, JournalInv, WInv, WTypeOK, TypeOK
  <2>4. Local(v)'
    BY <1>1, <1>3, <2>1, <2>3, LedgerAssumption
       DEF Same, Local, Forward, Polling, Recording, InWindow, NotStarted
  <2>5. Fence(v)'
    BY <1>1, <1>3, <2>1, <2>2, <2>3 DEF Same, Fence, Forward, Writing
  <2>6. QED
    BY <2>4, <2>5
<1>4. QED
  BY <1>2, <1>3

\* An execution that is neither written nor acknowledged keeps its part.
LEMMA WriteOnceStep ==
  ASSUME AllInv, [Next]_ledgerVars, NEW e \in Execs,
         writes'[e] = writes[e],
         e \in outstanding' => e \in outstanding /\ acked'[e] = acked[e]
  PROVE  WriteOnce(e)'
<1>1. WriteOnce(e) /\ Forward(e)
  BY LedgerForward DEF AllInv, WInv
<1>2. intent[e] \in BOOLEAN /\ intent'[e] \in BOOLEAN
  BY TypeStep DEF AllInv, JournalInv, TypeOK
<1>3. QED
  BY <1>1, <1>2 DEF WriteOnce, Forward
-----------------------------------------------------------------------------
\* The invariant of the workers without the types.
Cores == /\ \A v \in Workers : Local(v) /\ Fence(v)
         /\ TokensDiffer
         /\ \A e \in Execs : WriteOnce(e)

Quiet == UNCHANGED <<acked, writes, outstanding>>

\* A step that moves one worker, without a write or a receipt, only has to be
\* checked for that worker.
TokenIsSafe(w) ==
  \/ tok'[w] = 0
  \/ tok'[w] = tok[w] /\ job'[w] = job[w]
  \/ \A v \in Workers : v # w /\ job[v] = job'[w] => tok[v] # tok'[w]

LEMMA OneMoves ==
  ASSUME AllInv, [Next]_ledgerVars, Quiet, NEW w \in Workers,
         \A v \in Workers : v # w => Same(v),
         Local(w)', Fence(w)', TokenIsSafe(w)
  PROVE  Cores'
<1>1. ASSUME NEW v \in Workers
      PROVE  Local(v)' /\ Fence(v)'
  <2>1. CASE v = w
    BY <2>1
  <2>2. CASE v # w
    <3>1. Same(v) /\ Fence(v)
      BY <2>2 DEF AllInv, WInv
    <3>2. QED
      BY <3>1, Bystander DEF Quiet, Fence
  <2>3. QED
    BY <2>1, <2>2
<1>2. TokensDiffer'
  BY DEF TokensDiffer, TokenIsSafe, Same, AllInv, WInv
<1>3. \A e \in Execs : WriteOnce(e)'
  BY WriteOnceStep DEF Quiet
<1>4. QED
  BY <1>1, <1>2, <1>3 DEF Cores

\* The end of a process is always safe.
LEMMA EndIsSafe ==
  ASSUME AllInv, [Next]_ledgerVars, Quiet, NEW w \in Workers, End(w)
  PROVE  Cores'
<1>1. \A v \in Workers : v # w => Same(v)
  BY DEF End, Go, Same, AllInv, WInv, WTypeOK
<1>2. /\ pc'[w] = "idle" /\ tok'[w] = 0 /\ tries'[w] = 0 /\ obsAt'[w] = NotStarted
  BY DEF End, Go, AllInv, WInv, WTypeOK
<1>3. now' \in Nat
  BY TypeStep, LedgerAssumption DEF AllInv, JournalInv, TypeOK
<1>4. Local(w)' /\ Fence(w)'
  BY <1>2, <1>3 DEF Local, Fence, Polling, Recording, Writing, NotStarted
<1>5. QED
  BY <1>1, <1>2, <1>4, OneMoves DEF TokenIsSafe

\* A worker that only advances its program counter.
LEMMA StepMoves ==
  ASSUME AllInv, NEW w \in Workers, NEW l \in Labels, Step(w, l)
  PROVE  /\ \A v \in Workers : v # w => Same(v)
         /\ TokenIsSafe(w)
         /\ pc'[w] = l
         /\ UNCHANGED <<job, tok, tries, obs, obsAt, poll>>
BY DEF Step, Go, Same, TokenIsSafe, localVars, AllInv, WInv, WTypeOK
-----------------------------------------------------------------------------
\* A worker that keeps its job and its observation and arrives at a label that
\* promises nothing but the job, the token and the tries it has left.
LEMMA Arrives ==
  ASSUME AllInv, [Next]_ledgerVars, NEW w \in Workers, pc[w] # "idle",
         pc'[w] \notin {"idle", "claim", "intent"} \cup Polling \cup Writing,
         job'[w] = job[w], obsAt'[w] \in {obsAt[w], now},
         tok'[w] = tok[w] \/ tok'[w] = gen'[job[w]],
         pc'[w] \in {"read", "observe"} => tries'[w] < MaxReads
  PROVE  Local(w)' /\ Fence(w)'
<1>1. Local(w) /\ Fence(w) /\ job[w] \in Execs /\ Forward(job[w])
  BY LedgerForward DEF AllInv, WInv, Local
<1>2. /\ now \in Nat /\ now' \in Nat /\ gen[job[w]] \in Nat /\ gen'[job[w]] \in Nat
      /\ tok[w] \in Nat /\ obsAt[w] \in Nat \cup {NotStarted}
  BY <1>1, TypeStep, LedgerAssumption DEF AllInv, JournalInv, TypeOK, WInv, WTypeOK
<1>3. obsAt'[w] <= now' /\ phase'[job[w]] # "NONE"
  BY <1>1, <1>2 DEF Local, Forward, NotStarted
<1>4. Local(w)'
  BY <1>1, <1>3 DEF Local, Polling, Recording
<1>5. tok'[w] <= gen'[job[w]]
  BY <1>1, <1>2 DEF Fence, Forward
<1>6. Fence(w)'
  BY <1>5 DEF Fence, Writing
<1>7. QED
  BY <1>4, <1>6

\* Every step of a running worker keeps the invariant.  The last two cases are
\* the ones the fence is for: the write and its receipt.
LEMMA RunKeeps ==
  ASSUME AllInv, [Next]_ledgerVars, NEW w \in Workers, Run(w)
  PROVE  Cores'
<1> DEFINE e == job[w]
<1>1. Local(w) /\ Fence(w)
  BY DEF AllInv, WInv
<1>2. pc[w] # "idle" /\ e \in Execs
  BY <1>1 DEF Run, Recover, ClaimJob, ChargeRead, Observe, GiveUp, CommitIntent,
    CheckDeadline, QuarantineLate, Dispatch, Receipt, Uncertain, QuarantineDoubt,
    AcknowledgeWrite, CheckAcknowledged, ChargeReadback, ReadBack, RecordPoll, At, Local
<1>3. Forward(e) /\ WriteOnce(e)
  BY <1>2, LedgerForward DEF AllInv, WInv
<1>4. /\ now \in Nat /\ now' \in Nat /\ gen[e] \in Nat /\ gen'[e] \in Nat
      /\ rbStart[e] \in Nat \cup {NotStarted} /\ rbStart'[e] \in Nat \cup {NotStarted}
      /\ rbUsed[e] \in 0..MaxReadbacks /\ rbUsed'[e] \in 0..MaxReadbacks
      /\ MaxReads \in Nat \ {0} /\ ReadbackTime \in Nat /\ MaxReadbacks \in Nat
  BY <1>2, TypeStep, LedgerAssumption DEF AllInv, JournalInv, TypeOK
<1>5. /\ tok[w] \in Nat /\ tries[w] \in 0..MaxReads /\ obsAt[w] \in Nat \cup {NotStarted}
      /\ poll[w] \in 0..MaxReadbacks /\ pc[w] \in Labels
      /\ pc \in [Workers -> Labels] /\ tok \in [Workers -> Nat]
      /\ tries \in [Workers -> 0..MaxReads] /\ obs \in [Workers -> Observations \cup {"none"}]
      /\ obsAt \in [Workers -> Nat \cup {NotStarted}]
      /\ poll \in [Workers -> 0..MaxReadbacks]
      /\ writes \in [Execs -> Nat]
  BY DEF AllInv, WInv, WTypeOK
<1>6. phase[e] \in Open => intent[e]
  BY <1>2 DEF Open, AllInv, JournalInv, ClaimMatchesJournal
<1>7. tok[w] <= gen[e]
  BY <1>1, <1>4, <1>5 DEF Fence
<1>8. phase[e] # "NONE" /\ phase'[e] # "NONE"
  BY <1>1, <1>2, <1>3 DEF Local, Forward
<1>9. ASSUME NEW l \in Labels \ ({"idle", "claim", "read", "observe", "intent"} \cup Polling \cup Writing),
             Step(w, l), Quiet
      PROVE  Cores'
  <2>1. Local(w)' /\ Fence(w)'
    BY <1>2, <1>9, StepMoves, Arrives
  <2>2. QED
    BY <1>9, <2>1, StepMoves, OneMoves
<1>10. CASE Recover(w) \/ QuarantineDoubt(w)
  <2>1. Quiet /\ Step(w, "readback")
    BY <1>10 DEF Recover, QuarantineDoubt, Quarantine, Quiet, awsVars, ledgerVars, rowVars
  <2>2. QED
    BY <1>9, <2>1 DEF Labels, Polling, Recording, Writing
<1>11. CASE CheckAcknowledged(w)
  <2>1. Quiet /\ \E l \in {"doubt", "readback"} : Step(w, l)
    BY <1>11 DEF CheckAcknowledged, Quiet, awsVars, ledgerVars, rowVars
  <2>2. QED
    BY <1>9, <2>1 DEF Labels, Polling, Recording, Writing
<1>12. CASE Uncertain(w)
  <2>1. Quiet /\ Step(w, "doubt")
    BY <1>12 DEF Uncertain, Quiet, awsVars, ledgerVars, rowVars
  <2>2. QED
    BY <1>9, <2>1 DEF Labels, Polling, Recording, Writing
<1>13. CASE GiveUp(w) \/ QuarantineLate(w)
  BY <1>13, EndIsSafe DEF GiveUp, QuarantineLate, NoWrite, CloseWithoutWrite, Quarantine, Quiet,
     awsVars, ledgerVars, rowVars
<1>14. CASE ClaimJob(w)
  <2>1. CASE End(w)
    BY <1>14, <2>1, EndIsSafe DEF ClaimJob, ClaimGrants, ClaimCloses, ClaimDeclines,
       CloseWithoutWrite, Quiet, awsVars, ledgerVars, rowVars
  <2>2. CASE ClaimGrants(e) /\ tok' = [tok EXCEPT ![w] = gen'[e]] /\ Go(w, "read")
                /\ UNCHANGED <<job, tries, obs, obsAt, poll, writes, outstanding>>
    <3>1. \A v \in Workers : v # w => Same(v)
      BY <1>5, <2>2 DEF Same, Go
    <3>2. gen'[e] = gen[e] + 1 /\ tok'[w] = gen'[e] /\ pc'[w] = "read" /\ Quiet
      BY <1>2, <1>5, <2>2 DEF ClaimGrants, Go, Quiet, AllInv, JournalInv, TypeOK
    <3>3. TokenIsSafe(w)
      <4>1. ASSUME NEW v \in Workers, job[v] = e
            PROVE  tok[v] # tok'[w]
        <5>1. tok[v] > 0 => tok[v] <= gen[e]
          BY <4>1 DEF AllInv, WInv, Fence
        <5>2. tok[v] \in Nat
          BY <1>5
        <5>3. QED
          BY <1>4, <3>2, <5>1, <5>2
      <4>2. QED
        BY <2>2, <4>1 DEF TokenIsSafe
    <3>4. tries[w] = 0
      BY <1>1, <1>14 DEF ClaimJob, At, Local
    <3>5. Local(w)' /\ Fence(w)'
      BY <1>2, <1>4, <2>2, <3>2, <3>4, Arrives DEF Polling, Recording, Writing
    <3>6. QED
      BY <3>1, <3>2, <3>3, <3>5, OneMoves
  <2>3. QED
    BY <1>14, <2>1, <2>2 DEF ClaimJob, awsVars
<1>15. CASE ChargeRead(w)
  <2>1. CASE End(w)
    BY <1>15, <2>1, EndIsSafe DEF ChargeRead, ReadGrants, ReadCloses, ReadDeclines,
       CloseWithoutWrite, Quiet, awsVars, ledgerVars, rowVars
  <2>2. CASE ReadGrants(e, tok[w]) /\ Step(w, "observe")
    <3>1. Quiet /\ tries[w] < MaxReads
      BY <1>1, <1>15, <2>2 DEF ChargeRead, ReadGrants, Quiet, awsVars, At, Local
    <3>2. /\ pc'[w] = "observe" /\ UNCHANGED <<job, tok, tries, obsAt>>
      BY <2>2, StepMoves DEF Labels
    <3>3. Local(w)' /\ Fence(w)'
      BY <1>2, <3>1, <3>2, Arrives DEF Polling, Recording, Writing
    <3>4. QED
      BY <2>2, <3>1, <3>3, StepMoves, OneMoves DEF Labels
  <2>3. QED
    BY <1>15, <2>1, <2>2 DEF ChargeRead
<1>16. CASE Observe(w)
  <2>1. \A v \in Workers : v # w => Same(v)
    BY <1>5, <1>16 DEF Observe, Go, Same
  <2>2. Quiet /\ TokenIsSafe(w) /\ UNCHANGED <<now, job, tok>>
    BY <1>16 DEF Observe, Quiet, awsVars, ledgerVars, rowVars, TokenIsSafe
  <2>3. /\ pc'[w] \in {"intent", "read", "nowrite"}
        /\ pc'[w] = "intent" => obs'[w] \in Observations /\ obsAt'[w] = now
        /\ pc'[w] = "read" => tries'[w] < MaxReads
        /\ obsAt'[w] \in {obsAt[w], now}
    BY <1>4, <1>5, <1>16 DEF Observe, Go
  <2>4. Local(w)' /\ Fence(w)'
    BY <1>1, <1>2, <1>3, <1>4, <1>5, <1>7, <1>8, <2>2, <2>3
       DEF Local, Fence, Forward, Polling, Recording, Writing, NotStarted
  <2>5. QED
    BY <2>1, <2>2, <2>4, OneMoves
<1>17. CASE CommitIntent(w)
  <2>1. CASE End(w)
    BY <1>17, <2>1, EndIsSafe DEF CommitIntent, IntentGrants, IntentCloses, IntentDeclines,
       CloseWithoutWrite, Quiet, awsVars, ledgerVars, rowVars
  <2>2. CASE IntentGrants(e, tok[w], obs[w], obsAt[w]) /\ Step(w, "deadline")
    <3>1. /\ Quiet /\ UNCHANGED <<gen, writes>>
          /\ phase[e] = "CLAIMED" /\ phase'[e] = "WRITE_INTENT"
          /\ tok[w] > 0 /\ tok[w] = gen[e]
      BY <1>2, <1>17, <2>2 DEF CommitIntent, IntentGrants, Fenced, Owned, Quiet, awsVars,
         claimVars, AllInv, JournalInv, TypeOK
    <3>2. writes[e] = 0
      <4>1. intent[e] = FALSE
        BY <1>2, <3>1 DEF AllInv, JournalInv, TypeOK, ClaimMatchesJournal
      <4>2. QED
        BY <1>3, <4>1 DEF WriteOnce
    <3>3. pc'[w] = "deadline" /\ UNCHANGED <<job, tok, obsAt>>
      BY <2>2, StepMoves DEF Labels
    <3>4. Local(w)'
      BY <1>1, <1>2, <1>3, <1>4, <1>5, <1>8, <3>3 DEF Local, Forward, Polling, Recording, NotStarted
    <3>5. Fence(w)'
      BY <1>4, <3>1, <3>2, <3>3 DEF Fence, Writing, Open
    <3>6. QED
      BY <2>2, <3>1, <3>4, <3>5, StepMoves, OneMoves DEF Labels
  <2>3. QED
    BY <1>17, <2>1, <2>2 DEF CommitIntent
<1>18. CASE CheckDeadline(w)
  <2>1. /\ Quiet /\ UNCHANGED <<gen, phase, writes>> /\ pc[w] = "deadline"
        /\ \E l \in {"late", "dispatch"} : Step(w, l)
    BY <1>18 DEF CheckDeadline, Quiet, awsVars, ledgerVars, rowVars, claimVars, At
  <2>2. PICK l \in {"late", "dispatch"} : Step(w, l)
    BY <2>1
  <2>3. pc'[w] = l /\ UNCHANGED <<job, tok, obsAt>>
    BY <2>2, StepMoves DEF Labels
  <2>4. Local(w)'
    BY <1>1, <1>2, <1>3, <1>4, <1>5, <1>8, <2>3 DEF Local, Forward, Polling, Recording, NotStarted
  <2>5. Fence(w)'
    BY <1>1, <2>1, <2>3 DEF Fence, Writing
  <2>6. QED
    BY <2>1, <2>2, <2>4, <2>5, StepMoves, OneMoves DEF Labels
<1>19. CASE Receipt(w)
  <2>1. /\ Quiet /\ UNCHANGED <<gen, phase>> /\ pc[w] = "sent" /\ e \notin outstanding
        /\ Step(w, "ack")
    BY <1>19 DEF Receipt, Quiet, awsVars, ledgerVars, rowVars, claimVars, At
  <2>2. pc'[w] = "ack" /\ UNCHANGED <<job, tok, obsAt>>
    BY <2>1, StepMoves DEF Labels
  <2>3. Local(w)'
    BY <1>1, <1>2, <1>3, <1>4, <1>5, <1>8, <2>2 DEF Local, Forward, Polling, Recording, NotStarted
  <2>4. Fence(w)'
    BY <1>1, <2>1, <2>2 DEF Fence, Writing, Quiet
  <2>5. QED
    BY <2>1, <2>3, <2>4, StepMoves, OneMoves DEF Labels
<1>20. CASE ChargeReadback(w)
  <2>1. CASE End(w)
    BY <1>20, <2>1, EndIsSafe DEF ChargeReadback, BeginReadback, ReadbackDeclines,
       Quiet, awsVars, ledgerVars, rowVars
  <2>2. CASE /\ BeginReadback(e) /\ poll' = [poll EXCEPT ![w] = rbUsed'[e]] /\ Go(w, "poll")
             /\ UNCHANGED <<job, tok, tries, obs, obsAt, writes, outstanding>>
    <3>1. \A v \in Workers : v # w => Same(v)
      BY <1>5, <2>2 DEF Same, Go
    <3>2. Quiet /\ TokenIsSafe(w) /\ pc'[w] = "poll" /\ UNCHANGED <<job, tok, obsAt, gen, now>>
      BY <1>5, <2>2 DEF BeginReadback, Quiet, TokenIsSafe, Go, claimVars
    <3>3. poll'[w] > 0
      BY <1>2, <1>4, <1>5, <2>2 DEF BeginReadback, AllInv, JournalInv, TypeOK
    <3>4. rbStart'[e] # NotStarted /\ rbStart'[e] <= now
      <4>1. rbStart[e] = NotStarted => rbStart'[e] = now
        BY <1>2, <2>2 DEF BeginReadback, AllInv, JournalInv, TypeOK
      <4>2. rbStart[e] # NotStarted => rbStart[e] <= now
        BY <1>2 DEF AllInv, WindowInv
      <4>3. QED
        BY <1>3, <1>4, <4>1, <4>2 DEF Forward, NotStarted
    <3>5. Local(w)' /\ Fence(w)'
      BY <1>1, <1>2, <1>3, <1>4, <1>5, <1>7, <1>8, <3>2, <3>3, <3>4
         DEF Local, Fence, Forward, Polling, Recording, Writing
    <3>6. QED
      BY <3>1, <3>2, <3>5, OneMoves
  <2>3. QED
    BY <1>20, <2>1, <2>2 DEF ChargeReadback, awsVars
<1>21. CASE ReadBack(w)
  <2>1. \A v \in Workers : v # w => Same(v)
    BY <1>5, <1>21 DEF ReadBack, Go, Same
  <2>2. Quiet /\ TokenIsSafe(w) /\ UNCHANGED <<now, job, tok, poll, rbStart, gen>>
    BY <1>21 DEF ReadBack, Quiet, awsVars, ledgerVars, rowVars, claimVars, rbVars, TokenIsSafe
  <2>3. /\ pc[w] = "poll" /\ pc'[w] \in Recording
        /\ obsAt'[w] = NotStarted \/ (obsAt'[w] = now /\ WindowOpen(e))
    BY <1>5, <1>21 DEF ReadBack, Go, At, Recording
  <2>4. Local(w)'
    <3>1. poll[w] > 0 /\ rbStart[e] # NotStarted /\ rbStart[e] <= now
      BY <1>1, <2>3 DEF Local, Polling
    <3>2. obsAt'[w] # NotStarted =>
             rbStart[e] <= obsAt'[w] /\ obsAt'[w] < rbStart[e] + ReadbackTime
      BY <1>4, <2>3, <3>1 DEF WindowOpen
    <3>3. obsAt'[w] <= now'
      BY <1>4, <2>2, <2>3 DEF NotStarted
    <3>4. UNCHANGED <<now, job, poll, rbStart>>
      BY <2>2
    <3>5. QED
      BY <1>2, <1>8, <2>3, <3>1, <3>2, <3>3, <3>4 DEF Local, Polling, Recording, InWindow
  <2>5. Fence(w)'
    BY <1>1, <1>4, <1>5, <1>7, <2>2, <2>3 DEF Fence, Recording, Writing
  <2>6. QED
    BY <2>1, <2>2, <2>4, <2>5, OneMoves
<1>22. CASE RecordPoll(w)
  <2>1. Quiet
    BY <1>22 DEF RecordPoll, RecordObservation, RecordDeclines, Quiet, awsVars, ledgerVars, rowVars
  <2>2. Step(w, "readback") \/ End(w)
    BY <1>22 DEF RecordPoll
  <2>3. QED
    BY <1>9, <2>1, <2>2, EndIsSafe DEF Labels, Polling, Recording, Writing
<1>23. CASE Dispatch(w)
  <2>1. /\ pc[w] = "dispatch" /\ Step(w, "sent") /\ UNCHANGED <<now, gen, phase, acked>>
        /\ writes' = [writes EXCEPT ![e] = @ + 1]
        /\ outstanding' = outstanding \cup {e}
    BY <1>23 DEF Dispatch, At, ledgerVars, rowVars, claimVars
  <2>2. phase[e] \in Open /\ tok[w] > 0 /\ tok[w] = gen[e] /\ writes[e] = 0 /\ e \notin outstanding
    BY <1>1, <1>3, <2>1 DEF Fence, Writing, WriteOnce
  <2>3. \A v \in Workers : v # w => Same(v)
    BY <2>1, StepMoves DEF Labels
  <2>4. Local(w)' /\ Fence(w)'
    BY <1>1, <1>2, <1>3, <1>4, <1>5, <1>8, <2>1, <2>2, StepMoves
       DEF Local, Fence, Forward, Polling, Recording, Writing, Labels
  <2>5. ASSUME NEW v \in Workers, v # w
        PROVE  Local(v)' /\ Fence(v)'
    <3>1. pc[v] \in Writing => job[v] # e
      BY <2>2, <2>5 DEF AllInv, WInv, Fence, TokensDiffer
    <3>2. pc[v] = "ack" => job[v] \notin outstanding
      BY DEF AllInv, WInv, Fence
    <3>3. pc[v] \in Writing => job[v] \in Execs
      BY DEF AllInv, WInv, Local, Writing
    <3>4. QED
      BY <1>5, <2>1, <2>3, <2>5, <3>1, <3>2, <3>3, Bystander DEF Writing
  <2>6. TokensDiffer'
    BY <2>1, StepMoves DEF Labels, TokensDiffer, AllInv, WInv
  <2>7. ASSUME NEW x \in Execs
        PROVE  WriteOnce(x)'
    <3>1. CASE x = e
      BY <1>2, <1>3, <1>5, <1>6, <2>1, <2>2, <3>1 DEF WriteOnce, Forward
    <3>2. CASE x # e
      BY <1>5, <2>1, <3>2, WriteOnceStep
    <3>3. QED
      BY <3>1, <3>2
  <2>8. QED
    BY <2>4, <2>5, <2>6, <2>7 DEF Cores
<1>24. CASE AcknowledgeWrite(w)
  <2>1. /\ pc[w] = "ack" /\ Step(w, "check") /\ UNCHANGED <<now, gen, writes, outstanding>>
        /\ \A x \in Execs : x # e => acked'[x] = acked[x]
    BY <1>2, <1>24 DEF AcknowledgeWrite, Acknowledge, AcknowledgeDeclines, At, awsVars, ledgerVars,
       rowVars, claimVars, AllInv, JournalInv, TypeOK
  <2>2. tok[w] > 0 /\ tok[w] = gen[e] /\ e \notin outstanding
    BY <1>1, <2>1 DEF Fence, Writing
  <2>3. \A v \in Workers : v # w => Same(v)
    BY <2>1, StepMoves DEF Labels
  <2>4. Local(w)' /\ Fence(w)'
    BY <1>1, <1>2, <1>3, <1>4, <1>5, <1>7, <1>8, <2>1, StepMoves
       DEF Local, Fence, Forward, Polling, Recording, Writing, Labels
  <2>5. ASSUME NEW v \in Workers, v # w
        PROVE  Local(v)' /\ Fence(v)'
    <3>1. pc[v] \in Writing => job[v] # e
      BY <2>2, <2>5 DEF AllInv, WInv, Fence, TokensDiffer
    <3>2. pc[v] = "ack" => job[v] \notin outstanding
      BY DEF AllInv, WInv, Fence
    <3>3. pc[v] \in Writing => job[v] \in Execs
      BY DEF AllInv, WInv, Local, Writing
    <3>4. QED
      BY <2>1, <2>3, <2>5, <3>1, <3>2, <3>3, Bystander
  <2>6. TokensDiffer'
    BY <2>1, StepMoves DEF Labels, TokensDiffer, AllInv, WInv
  <2>7. \A x \in Execs : WriteOnce(x)'
    BY <2>1, <2>2, WriteOnceStep
  <2>8. QED
    BY <2>4, <2>5, <2>6, <2>7 DEF Cores
<1>25. QED
  BY <1>10, <1>11, <1>12, <1>13, <1>14, <1>15, <1>16, <1>17, <1>18, <1>19, <1>20, <1>21, <1>22,
     <1>23, <1>24 DEF Run
-----------------------------------------------------------------------------
\* A step of a running worker keeps the types of the workers' variables.
LEMMA RunTypes ==
  ASSUME AllInv, [Next]_ledgerVars, NEW w \in Workers, Run(w)
  PROVE  WTypeOK'
<1> DEFINE e == job[w]
<1>1. TypeOK'
  BY TypeStep DEF AllInv, JournalInv
<1>2. Local(w) /\ Fence(w)
  BY DEF AllInv, WInv
<1>3. pc[w] # "idle" /\ e \in Execs
  BY <1>2 DEF Run, Recover, ClaimJob, ChargeRead, Observe, GiveUp, CommitIntent,
    CheckDeadline, QuarantineLate, Dispatch, Receipt, Uncertain, QuarantineDoubt,
    AcknowledgeWrite, CheckAcknowledged, ChargeReadback, ReadBack, RecordPoll, At, Local
<1>4. /\ gen'[e] \in Nat /\ rbUsed'[e] \in 0..MaxReadbacks
      /\ now \in Nat /\ MaxReads \in Nat \ {0} /\ MaxReadbacks \in Nat
  BY <1>1, <1>3, LedgerAssumption DEF TypeOK, AllInv, JournalInv
<1> USE DEF AllInv, WInv, WTypeOK
<1>5. ASSUME NEW l \in Labels, Step(w, l), UNCHANGED <<awsVars, crashes>>
      PROVE  WTypeOK'
  BY <1>1, <1>5 DEF Step, Go, localVars, awsVars
<1>6. ASSUME End(w), UNCHANGED <<awsVars, crashes>>
      PROVE  WTypeOK'
  BY <1>1, <1>4, <1>6, LedgerAssumption DEF End, Go, awsVars, Labels
<1>7. CASE Recover(w) \/ GiveUp(w) \/ QuarantineLate(w) \/ QuarantineDoubt(w)
            \/ AcknowledgeWrite(w) \/ RecordPoll(w) \/ Receipt(w) \/ Uncertain(w)
  BY <1>5, <1>6, <1>7 DEF Recover, GiveUp, QuarantineLate, QuarantineDoubt, AcknowledgeWrite,
     RecordPoll, Receipt, Uncertain, Labels
<1>8. CASE CheckDeadline(w) \/ CheckAcknowledged(w)
  BY <1>5, <1>8 DEF CheckDeadline, CheckAcknowledged, Labels
<1>9. CASE ClaimJob(w)
  BY <1>1, <1>4, <1>6, <1>9 DEF ClaimJob, Go, Labels, awsVars
<1>10. CASE ChargeRead(w)
  BY <1>5, <1>6, <1>10 DEF ChargeRead, Labels
<1>11. CASE CommitIntent(w)
  BY <1>5, <1>6, <1>11 DEF CommitIntent, Labels
<1>12. CASE ChargeReadback(w)
  BY <1>1, <1>4, <1>6, <1>12 DEF ChargeReadback, Go, Labels, awsVars
<1>13. CASE Observe(w)
  <2>1. tries[w] < MaxReads
    BY <1>2, <1>13 DEF Observe, At, Local
  <2>2. /\ tries' = tries \/ tries' = [tries EXCEPT ![w] = @ + 1]
        /\ obs' = obs \/ \E o \in Observations : obs' = [obs EXCEPT ![w] = o]
        /\ obsAt' = obsAt \/ obsAt' = [obsAt EXCEPT ![w] = now]
        /\ \E l \in Labels : Go(w, l)
        /\ UNCHANGED <<job, tok, poll, writes, outstanding, crashes>>
    BY <1>13 DEF Observe, Labels, awsVars
  <2>3. tries' \in [Workers -> 0..MaxReads]
    BY <1>4, <2>1, <2>2
  <2>4. obs' \in [Workers -> Observations \cup {"none"}]
    BY <2>2
  <2>5. obsAt' \in [Workers -> Nat \cup {NotStarted}]
    BY <1>4, <2>2
  <2>6. pc' \in [Workers -> Labels]
    BY <2>2 DEF Go
  <2>7. QED
    BY <1>1, <2>2, <2>3, <2>4, <2>5, <2>6
<1>14. CASE ReadBack(w)
  <2>1. /\ \E o \in Observations \cup {"none"} : obs' = [obs EXCEPT ![w] = o]
        /\ \E at \in Nat \cup {NotStarted} : obsAt' = [obsAt EXCEPT ![w] = at]
        /\ \E l \in Labels : Go(w, l)
        /\ UNCHANGED <<job, tok, tries, poll, writes, outstanding, crashes>>
    BY <1>4, <1>14 DEF ReadBack, Labels, awsVars, Observations
  <2>2. obs' \in [Workers -> Observations \cup {"none"}]
    BY <2>1
  <2>3. obsAt' \in [Workers -> Nat \cup {NotStarted}]
    BY <2>1
  <2>4. pc' \in [Workers -> Labels]
    BY <2>1 DEF Go
  <2>5. QED
    BY <1>1, <2>1, <2>2, <2>3, <2>4
<1>15. CASE Dispatch(w)
  BY <1>1, <1>3, <1>15 DEF Dispatch, Step, Go, localVars, Labels
<1>16. QED
  BY <1>7, <1>8, <1>9, <1>10, <1>11, <1>12, <1>13, <1>14, <1>15 DEF Run

LEMMA WindowStep ==
  ASSUME AllInv, [Next]_ledgerVars
  PROVE  WindowInv'
<1> SUFFICES ASSUME NEW x \in Execs, rbStart'[x] # NotStarted
             PROVE  rbStart'[x] <= now'
  BY DEF WindowInv
<1>1. Forward(x) /\ (rbStart[x] # NotStarted => rbStart[x] <= now)
  BY LedgerForward DEF AllInv, WindowInv
<1>2. /\ now \in Nat /\ now' \in Nat
      /\ rbStart[x] \in Nat \cup {NotStarted} /\ rbStart'[x] \in Nat \cup {NotStarted}
  BY TypeStep, LedgerAssumption DEF AllInv, JournalInv, TypeOK
<1>3. QED
  BY <1>1, <1>2 DEF Forward
-----------------------------------------------------------------------------
\* Steps in which no worker moves.
LEMMA NobodyMoves ==
  ASSUME AllInv, [Next]_ledgerVars, \A v \in Workers : Same(v),
         UNCHANGED <<acked, writes>>, outstanding' \subseteq outstanding
  PROVE  Cores'
<1>1. ASSUME NEW v \in Workers
      PROVE  Local(v)' /\ Fence(v)'
  <2>1. pc[v] = "ack" => job[v] \notin outstanding'
    BY DEF AllInv, WInv, Fence
  <2>2. QED
    BY <2>1, Bystander
<1>2. TokensDiffer'
  BY DEF TokensDiffer, Same, AllInv, WInv
<1>3. \A e \in Execs : WriteOnce(e)'
  BY WriteOnceStep
<1>4. QED
  BY <1>1, <1>2, <1>3 DEF Cores

LEMMA StartKeeps ==
  ASSUME AllInv, NEW w \in Workers, NEW e \in Execs, Start(w, e), [Next]_ledgerVars
  PROVE  Cores'
<1>1. /\ Quiet /\ pc[w] = "idle" /\ phase[e] # "NONE"
      /\ UNCHANGED <<now, phase, gen, tok, tries, obsAt>>
  BY DEF Start, Quiet, At, ledgerVars, rowVars, claimVars, awsVars
<1>2. \A v \in Workers : v # w => Same(v)
  BY DEF Start, Go, Same, AllInv, WInv, WTypeOK
<1>3. pc'[w] \in {"recover", "readback", "claim"} /\ job'[w] = e
  BY DEF Start, Go, AllInv, WInv, WTypeOK
<1>4. tok[w] = 0 /\ tries[w] = 0 /\ obsAt[w] <= now
  BY <1>1 DEF AllInv, WInv, Local
<1>5. Local(w)' /\ Fence(w)'
  BY <1>1, <1>3, <1>4 DEF Local, Fence, Polling, Recording, Writing
<1>6. QED
  BY <1>1, <1>2, <1>4, <1>5, OneMoves DEF TokenIsSafe

LEMMA AllStep == AllInv /\ [WNext]_wvars => AllInv'
<1> SUFFICES ASSUME AllInv, [WNext]_wvars
             PROVE  AllInv'
  OBVIOUS
<1>1. [Next]_ledgerVars
  BY WorkerStepIsLedgerStep DEF AllInv
<1>2. TypeOK' /\ JournalInv' /\ DecidedFirst' /\ WindowInv'
  BY <1>1, TypeStep, JournalStep, DecidedStep, WindowStep DEF AllInv, JournalInv
<1>3. ASSUME UNCHANGED <<pc, localVars, acked, writes>>, outstanding' \subseteq outstanding,
             crashes' = crashes
      PROVE  Cores' /\ WTypeOK'
  <2>1. Cores'
    BY <1>1, <1>3, NobodyMoves DEF Same, localVars
  <2>2. WTypeOK'
    BY <1>2, <1>3 DEF WTypeOK, localVars, AllInv, WInv
  <2>3. QED
    BY <2>1, <2>2
<1>4. ASSUME Outside
      PROVE  Cores' /\ WTypeOK'
  <2>1. UNCHANGED acked
    BY <1>4 DEF Outside, Tick, Approve, Withdraw, Admit, rowVars
  <2>2. UNCHANGED <<pc, localVars, writes, outstanding, crashes>>
    BY <1>4 DEF Outside, workerVars, awsVars
  <2>3. QED
    BY <1>3, <2>1, <2>2 DEF localVars
<1>5. ASSUME NEW e \in Execs, Settle(e)
      PROVE  Cores' /\ WTypeOK'
  BY <1>3, <1>5 DEF Settle, ledgerVars, rowVars
<1>6. ASSUME UNCHANGED wvars
      PROVE  Cores' /\ WTypeOK'
  <2>1. UNCHANGED <<pc, localVars, acked, writes, outstanding, crashes>>
    BY <1>6 DEF wvars, ledgerVars, rowVars, workerVars, awsVars
  <2>2. QED
    BY <1>3, <2>1 DEF localVars
<1>7. ASSUME NEW w \in Workers, Run(w)
      PROVE  Cores' /\ WTypeOK'
  BY <1>1, <1>7, RunKeeps, RunTypes
<1>8. ASSUME NEW w \in Workers, Crash(w)
      PROVE  Cores' /\ WTypeOK'
  <2>1. Cores'
    BY <1>1, <1>8, EndIsSafe DEF Crash, Quiet, awsVars, ledgerVars, rowVars
  <2>2. WTypeOK'
    BY <1>2, <1>8, LedgerAssumption DEF Crash, End, Go, awsVars, Labels, AllInv, WInv, WTypeOK
  <2>3. QED
    BY <2>1, <2>2
<1>9. ASSUME NEW w \in Workers, NEW e \in Execs, Start(w, e)
      PROVE  Cores' /\ WTypeOK'
  <2>1. Cores'
    BY <1>1, <1>9, StartKeeps
  <2>2. WTypeOK'
    BY <1>2, <1>9 DEF Start, Go, awsVars, Labels, AllInv, WInv, WTypeOK
  <2>3. QED
    BY <2>1, <2>2
<1>10. Cores' /\ WTypeOK'
  <2>1. CASE WNext
    BY <1>4, <1>5, <1>7, <1>8, <1>9, <2>1 DEF WNext
  <2>2. QED
    BY <1>6, <2>1
<1>11. QED
  BY <1>2, <1>10 DEF AllInv, WInv, Cores

LEMMA AllInit == WInit => AllInv
<1> SUFFICES ASSUME WInit
             PROVE  AllInv
  OBVIOUS
<1>1. JournalInv /\ DecidedFirst
  BY JournalInit DEF WInit, Init, DecidedFirst
<1>2. WindowInv
  BY DEF WInit, Init, WindowInv
<1>3. WTypeOK
  BY <1>1, LedgerAssumption DEF WInit, WTypeOK, JournalInv, Labels
<1>4. \A w \in Workers : Local(w) /\ Fence(w)
  BY LedgerAssumption DEF WInit, Init, Local, Fence, Polling, Recording, Writing, NotStarted
<1>5. TokensDiffer
  BY DEF WInit, TokensDiffer
<1>6. \A e \in Execs : WriteOnce(e)
  BY DEF WInit, Init, WriteOnce
<1>7. QED
  BY <1>1, <1>2, <1>3, <1>4, <1>5, <1>6 DEF AllInv, WInv

LEMMA AllAlways == WSpec => []AllInv
BY AllInit, AllStep, PTL DEF WSpec
-----------------------------------------------------------------------------
\* The workers' variables keep their types.
THEOREM WorkerTypes == WSpec => []WTypeOK
BY AllAlways, PTL DEF AllInv, WInv

\* The worker program is one of the callers the ledger was proved about: all
\* theorems about Spec hold for it too.
THEOREM WorkersUseTheLedger == WSpec => Spec
<1>1. WInit => Init
  BY DEF WInit
<1>2. AllInv /\ [WNext]_wvars => [Next]_ledgerVars
  BY WorkerStepIsLedgerStep DEF AllInv
<1>3. QED
  BY <1>1, <1>2, AllAlways, PTL DEF WSpec, Spec

\* enable() is called at most once for an execution.
THEOREM WritesOnce == WSpec => []OneWritePerExecution
<1>1. AllInv => OneWritePerExecution
  BY DEF AllInv, WInv, WriteOnce, OneWritePerExecution
<1>2. QED
  BY <1>1, AllAlways, PTL

\* A write that may still land belongs to the holder of its target.
THEOREM PendingHolds == WSpec => []OutstandingWriteHoldsTarget
<1>1. AllInv => OutstandingWriteHoldsTarget
  <2> SUFFICES ASSUME AllInv, NEW e \in outstanding
               PROVE  holder[TargetOf[e]] = e
    BY DEF OutstandingWriteHoldsTarget
  <2>1. e \in Execs /\ phase[e] \in Open
    BY DEF AllInv, WInv, WTypeOK, WriteOnce
  <2>2. QED
    BY <2>1, LedgerAssumption
       DEF AllInv, JournalInv, ReservationMatchesPhase, Held, Open
<1>2. QED
  BY <1>1, AllAlways, PTL

\* At most one worker of a target is between its intent and its receipt.
THEOREM WritersExclude == WSpec => []OneWriter
<1>1. AllInv => OneWriter
  <2> SUFFICES ASSUME AllInv, NEW v \in Workers, NEW w \in Workers,
                      pc[v] \in Writing, pc[w] \in Writing,
                      TargetOf[job[v]] = TargetOf[job[w]]
               PROVE  v = w
    BY DEF OneWriter
  <2>1. ASSUME NEW u \in {v, w}
        PROVE  /\ job[u] \in Execs /\ tok[u] > 0 /\ tok[u] = gen[job[u]]
               /\ holder[TargetOf[job[u]]] = job[u]
    <3>1. job[u] \in Execs /\ phase[job[u]] \in Open
      BY DEF AllInv, WInv, Local, Fence, Writing
    <3>2. tok[u] > 0 /\ tok[u] = gen[job[u]]
      BY DEF AllInv, WInv, Fence
    <3>3. QED
      BY <3>1, <3>2, LedgerAssumption
         DEF AllInv, JournalInv, ReservationMatchesPhase, Held, Open
  <2>2. job[v] = job[w] /\ tok[v] = tok[w] /\ tok[w] > 0
    BY <2>1
  <2>3. QED
    BY <2>2 DEF AllInv, WInv, TokensDiffer
<1>2. QED
  BY <1>1, AllAlways, PTL

\* The journal accepts every observation a worker is about to record.
THEOREM ObservationsFit == WSpec => []RecordedObservationFits
<1>1. AllInv => RecordedObservationFits
  BY DEF AllInv, WInv, Local, Recording, RecordedObservationFits
<1>2. QED
  BY <1>1, AllAlways, PTL
-----------------------------------------------------------------------------
(* Implementation of WriteAuthority.                                       *)

AbstractStep == [Authority!Next]_(Authority!avars)

\* A step that moves the phase of at most one execution within its stage, or
\* as one abstract action does.
LEMMA OnePhaseMoves ==
  ASSUME AllInv, NEW e \in Execs,
         \A x \in Execs : x # e => phase'[x] = phase[x],
         phase[e] # "NONE", phase'[e] # "NONE",
         UNCHANGED <<now, authority, expires, writes, outstanding>>,
         phase' \in [Execs -> Phases],
         \/ Stage(phase'[e]) = Stage(phase[e])
         \/ phase[e] \in PreIntent /\ phase'[e] = "NO_WRITE"
         \/ phase[e] \in PreIntent /\ phase'[e] = "WRITE_INTENT" /\ ~Blocking(e)
         \/ phase[e] = "WRITE_INTENT" /\ phase'[e] = "QUARANTINED"
         \/ /\ phase[e] = "WRITE_INTENT" /\ phase'[e] = "ACKNOWLEDGED"
            /\ writes[e] = 1 /\ e \notin outstanding
  PROVE  AbstractStep
<1>1. UNCHANGED <<Barred, Issued, outstanding>>
  <2>1. \A x \in Execs : (phase'[x] = "NONE") <=> (phase[x] = "NONE")
    OBVIOUS
  <2>2. \A x \in Execs : Blocking(x)' <=> Blocking(x)
    BY DEF Blocking
  <2>3. QED
    BY <2>1, <2>2 DEF Barred, Issued
<1>2. StageOf' = [StageOf EXCEPT ![e] = Stage(phase'[e])]
  BY DEF StageOf
<1>3. CASE Stage(phase'[e]) = Stage(phase[e])
  <2>1. StageOf' = StageOf
    BY <1>3 DEF StageOf
  <2>2. QED
    BY <1>1, <2>1 DEF AbstractStep, Authority!avars, Barred, StageOf, Issued
<1>4. CASE phase[e] \in PreIntent /\ phase'[e] = "NO_WRITE"
  <2>1. StageOf[e] = "holding" /\ StageOf' = [StageOf EXCEPT ![e] = "dropped"]
    BY <1>2, <1>4 DEF StageOf, Stage, PreIntent
  <2>2. Authority!Drop(e)
    BY <1>1, <2>1 DEF Authority!Drop, Authority!Move, Barred, StageOf, Issued
  <2>3. QED
    BY <2>2 DEF AbstractStep, Authority!Next
<1>5. CASE phase[e] \in PreIntent /\ phase'[e] = "WRITE_INTENT" /\ ~Blocking(e)
  <2>1. StageOf[e] = "holding" /\ StageOf' = [StageOf EXCEPT ![e] = "granted"]
    BY <1>2, <1>5 DEF StageOf, Stage, PreIntent
  <2>2. e \notin Barred
    BY <1>5 DEF Barred
  <2>3. Authority!Grant(e)
    BY <1>1, <2>1, <2>2 DEF Authority!Grant, Authority!Move, Barred, StageOf, Issued
  <2>4. QED
    BY <2>3 DEF AbstractStep, Authority!Next
<1>6. CASE phase[e] = "WRITE_INTENT" /\ phase'[e] = "QUARANTINED"
  <2>1. StageOf[e] = "granted" /\ StageOf' = [StageOf EXCEPT ![e] = "uncertain"]
    BY <1>2, <1>6 DEF StageOf, Stage, PreIntent
  <2>2. Authority!Doubt(e)
    BY <1>1, <2>1 DEF Authority!Doubt, Authority!Move, Barred, StageOf, Issued
  <2>3. QED
    BY <2>2 DEF AbstractStep, Authority!Next
<1>7. CASE /\ phase[e] = "WRITE_INTENT" /\ phase'[e] = "ACKNOWLEDGED"
           /\ writes[e] = 1 /\ e \notin outstanding
  <2>1. StageOf[e] = "granted" /\ StageOf' = [StageOf EXCEPT ![e] = "confirmed"]
    BY <1>2, <1>7 DEF StageOf, Stage, PreIntent
  <2>2. e \in Issued \ outstanding
    BY <1>7 DEF Issued
  <2>3. Authority!Confirm(e)
    BY <1>1, <2>1, <2>2 DEF Authority!Confirm, Authority!Move, Barred, StageOf, Issued
  <2>4. QED
    BY <2>3 DEF AbstractStep, Authority!Next
<1>8. QED
  BY <1>3, <1>4, <1>5, <1>6, <1>7

\* An admission takes the target over from holders whose authority is gone.
LEMMA AdmitHolds ==
  ASSUME AllInv, NEW e \in Execs, Admit(e), UNCHANGED workerVars
  PROVE  AbstractStep
<1> USE LedgerAssumption DEF AllInv, JournalInv, TypeOK
<1>1. PICK closed \in SUBSET Execs : AdmitEffect(e, closed)
  BY AdmitCloses
<1>2. UNCHANGED <<writes, outstanding>>
  BY DEF workerVars, awsVars
<1>3. /\ authority[e] = "approved" /\ now < ProposalExpiry[e]
      /\ now \in Nat /\ expires'[e] \in Nat /\ ProposalExpiry[e] \in Nat
      /\ now < expires'[e] /\ UNCHANGED <<now, authority>>
  BY DEF Admit, Earlier
<1>4. /\ phase[e] = "NONE" /\ phase'[e] = "QUEUED" /\ e \notin closed
      /\ \A x \in closed : phase[x] = "QUEUED" /\ phase'[x] \in {"BLOCKED", "EXPIRED"}
                           /\ Blocking(x) /\ Blocking(x)'
      /\ \A x \in Execs : x \notin closed /\ x # e =>
           phase'[x] = phase[x] /\ (Blocking(x)' <=> Blocking(x))
  BY <1>1, <1>3 DEF AdmitEffect, Blocking
<1>5. UNCHANGED Barred
  <2>1. e \notin Barred /\ e \notin Barred'
    BY <1>3, <1>4 DEF Barred, Blocking
  <2>2. \A x \in Execs : x # e => (x \in Barred <=> x \in Barred')
    BY <1>3, <1>4 DEF Barred
  <2>3. QED
    BY <2>1, <2>2 DEF Barred
<1>6. StageOf[e] = "waiting" /\ e \notin Barred
  BY <1>3, <1>4 DEF StageOf, Stage, Barred
<1>7. closed \in SUBSET {x \in Barred : StageOf[x] = "holding"}
  BY <1>4 DEF Barred, StageOf, Stage, PreIntent
<1>8. \A x \in Execs \ {e} : TargetOf[x] = TargetOf[e] =>
        (StageOf[x] \in {"holding", "granted", "uncertain"} => x \in closed)
  <2> SUFFICES ASSUME NEW x \in Execs, TargetOf[x] = TargetOf[e],
                      StageOf[x] \in {"holding", "granted", "uncertain"}
               PROVE  x \in closed
    OBVIOUS
  <2>1. phase[x] \in Held
    BY DEF StageOf, Stage, PreIntent, Held
  <2>2. holder[TargetOf[e]] = x
    BY <2>1 DEF ReservationMatchesPhase
  <2>3. QED
    BY <1>1, <2>2 DEF AdmitEffect
<1>9. StageOf' = [[x \in Execs |-> IF x \in closed THEN "dropped" ELSE StageOf[x]]
                   EXCEPT ![e] = "holding"]
  <2>1. \A x \in Execs : Stage(phase'[x]) =
          IF x = e THEN "holding" ELSE IF x \in closed THEN "dropped" ELSE Stage(phase[x])
    BY <1>4 DEF Stage, PreIntent
  <2>2. QED
    BY <2>1 DEF StageOf
<1>10. Authority!Hold(e)
  BY <1>2, <1>5, <1>6, <1>7, <1>8, <1>9 DEF Authority!Hold, Authority!Rivals, Issued
<1>11. QED
  BY <1>10 DEF AbstractStep, Authority!Next

\* Time, decisions and governance only move who is barred.
LEMMA OutsideBars ==
  ASSUME AllInv, Tick \/ (\E e \in Execs : Approve(e) \/ Withdraw(e)), UNCHANGED workerVars
  PROVE  AbstractStep
<1> USE LedgerAssumption DEF AllInv, JournalInv, TypeOK
<1>1. UNCHANGED <<phase, expires, writes, outstanding>>
  BY DEF Tick, Approve, Withdraw, rowVars, workerVars, awsVars
<1>2. \A x \in Barred \ Barred' : phase[x] = "NONE"
  <2>1. CASE Tick
    BY <1>1, <2>1 DEF Tick, Barred, Blocking
  <2>2. ASSUME NEW e \in Execs, Approve(e) \/ Withdraw(e)
        PROVE  \A x \in Barred \ Barred' : phase[x] = "NONE"
    BY <1>1, <2>2 DEF Approve, Withdraw, Barred, Blocking, DecidedFirst
  <2>3. QED
    BY <2>1, <2>2
<1>3. Barred' \in SUBSET Execs
  BY DEF Barred
<1>4. \A x \in Barred \ Barred' : StageOf[x] = "waiting"
  BY <1>2 DEF StageOf, Stage, Barred
<1>5. UNCHANGED <<StageOf, Issued, outstanding>>
  BY <1>1 DEF StageOf, Issued
<1>6. Authority!Bar
  BY <1>3, <1>4, <1>5 DEF Authority!Bar
<1>7. QED
  BY <1>6 DEF AbstractStep, Authority!Next

LEMMA RunImplements ==
  ASSUME AllInv, NEW w \in Workers, Run(w), TypeOK'
  PROVE  AbstractStep
<1> DEFINE e == job[w]
<1>1. Local(w) /\ Fence(w)
  BY DEF AllInv, WInv
<1>2. e \in Execs /\ phase[e] # "NONE" /\ WriteOnce(e)
  BY <1>1 DEF Run, Recover, ClaimJob, ChargeRead, Observe, GiveUp, CommitIntent,
    CheckDeadline, QuarantineLate, Dispatch, Receipt, Uncertain, QuarantineDoubt,
    AcknowledgeWrite, CheckAcknowledged, ChargeReadback, ReadBack, RecordPoll, At, Local,
    AllInv, WInv
<1>3. phase \in [Execs -> Phases] /\ phase' \in [Execs -> Phases]
  BY DEF AllInv, JournalInv, TypeOK
<1>4. ASSUME UNCHANGED <<now, authority, expires, phase, writes, outstanding>>
      PROVE  AbstractStep
  BY <1>2, <1>3, <1>4, OnePhaseMoves
<1>5. ASSUME CloseWithoutWrite(e), phase[e] \in PreIntent, UNCHANGED awsVars
      PROVE  AbstractStep
  <2>1. /\ phase'[e] = "NO_WRITE" /\ \A x \in Execs : x # e => phase'[x] = phase[x]
        /\ UNCHANGED <<now, authority, expires, writes, outstanding>>
    BY <1>2, <1>3, <1>5 DEF CloseWithoutWrite, awsVars
  <2>2. QED
    BY <1>2, <1>3, <1>5, <2>1, OnePhaseMoves
<1>6. ASSUME Quarantine(e), UNCHANGED awsVars
      PROVE  AbstractStep
  <2>1. CASE phase[e] = "WRITE_INTENT"
    <3>1. /\ phase'[e] = "QUARANTINED" /\ \A x \in Execs : x # e => phase'[x] = phase[x]
          /\ UNCHANGED <<now, authority, expires, writes, outstanding>>
      BY <1>2, <1>3, <1>6, <2>1 DEF Quarantine, awsVars
    <3>2. QED
      BY <1>2, <1>3, <2>1, <3>1, OnePhaseMoves
  <2>2. CASE phase[e] # "WRITE_INTENT"
    BY <1>4, <1>6, <2>2 DEF Quarantine, awsVars, ledgerVars, rowVars
  <2>3. QED
    BY <2>1, <2>2
<1>7. CASE Recover(w) \/ QuarantineLate(w) \/ QuarantineDoubt(w)
  BY <1>6, <1>7 DEF Recover, QuarantineLate, QuarantineDoubt
<1>8. CASE ClaimJob(w)
  <2>1. CASE ClaimGrants(e)
    <3>1. /\ phase[e] \in PreIntent /\ phase'[e] = "CLAIMED"
          /\ \A x \in Execs : x # e => phase'[x] = phase[x]
          /\ UNCHANGED <<now, authority, expires, writes, outstanding>>
      BY <1>2, <1>3, <1>8, <2>1 DEF ClaimJob, ClaimGrants, awsVars
    <3>2. Stage(phase'[e]) = Stage(phase[e])
      BY <3>1 DEF Stage, PreIntent
    <3>3. QED
      BY <1>2, <1>3, <3>1, <3>2, OnePhaseMoves
  <2>2. CASE ClaimCloses(e)
    BY <1>5, <1>8, <2>2 DEF ClaimJob, ClaimCloses
  <2>3. CASE ClaimDeclines(e)
    BY <1>4, <1>8, <2>3 DEF ClaimJob, ClaimDeclines, awsVars, ledgerVars, rowVars
  <2>4. QED
    BY <1>8, <2>1, <2>2, <2>3 DEF ClaimJob
<1>9. CASE ChargeRead(w)
  <2>1. CASE ReadCloses(e, tok[w])
    BY <1>5, <1>9, <2>1 DEF ChargeRead, ReadCloses, Fenced, PreIntent
  <2>2. CASE ReadGrants(e, tok[w]) \/ ReadDeclines(e, tok[w])
    BY <1>4, <1>9, <2>2 DEF ChargeRead, ReadGrants, ReadDeclines, awsVars, ledgerVars, rowVars
  <2>3. QED
    BY <1>9, <2>1, <2>2 DEF ChargeRead
<1>10. CASE GiveUp(w)
  <2>1. CASE Fenced(e, tok[w])
    BY <1>5, <1>10, <2>1 DEF GiveUp, NoWrite, Fenced, PreIntent
  <2>2. CASE ~Fenced(e, tok[w])
    BY <1>4, <1>10, <2>2 DEF GiveUp, NoWrite, awsVars, ledgerVars, rowVars
  <2>3. QED
    BY <2>1, <2>2
<1>11. CASE CommitIntent(w)
  <2>1. CASE IntentGrants(e, tok[w], obs[w], obsAt[w])
    <3>1. /\ phase[e] \in PreIntent /\ phase'[e] = "WRITE_INTENT" /\ ~Blocking(e)
          /\ \A x \in Execs : x # e => phase'[x] = phase[x]
          /\ UNCHANGED <<now, authority, expires, writes, outstanding>>
      BY <1>2, <1>3, <1>11, <2>1 DEF CommitIntent, IntentGrants, Fenced, PreIntent, awsVars
    <3>2. QED
      BY <1>2, <1>3, <3>1, OnePhaseMoves
  <2>2. CASE IntentCloses(e, tok[w], obs[w], obsAt[w])
    BY <1>5, <1>11, <2>2 DEF CommitIntent, IntentCloses, Fenced, PreIntent
  <2>3. CASE IntentDeclines(e, tok[w], obsAt[w])
    BY <1>4, <1>11, <2>3 DEF CommitIntent, IntentDeclines, awsVars, ledgerVars, rowVars
  <2>4. QED
    BY <1>11, <2>1, <2>2, <2>3 DEF CommitIntent
<1>12. CASE AcknowledgeWrite(w)
  <2>1. UNCHANGED <<writes, outstanding>> /\ writes[e] = 1 /\ e \notin outstanding
    BY <1>1, <1>12 DEF AcknowledgeWrite, awsVars, Fence, At
  <2>2. CASE Acknowledge(e, tok[w]) /\ phase[e] = "WRITE_INTENT"
    <3>1. /\ phase'[e] = "ACKNOWLEDGED" /\ \A x \in Execs : x # e => phase'[x] = phase[x]
          /\ UNCHANGED <<now, authority, expires>>
      BY <1>2, <1>3, <2>2 DEF Acknowledge
    <3>2. QED
      BY <1>2, <1>3, <2>1, <2>2, <3>1, OnePhaseMoves
  <2>3. CASE Acknowledge(e, tok[w]) /\ phase[e] # "WRITE_INTENT"
    BY <1>4, <2>1, <2>3 DEF Acknowledge
  <2>4. CASE AcknowledgeDeclines(e, tok[w])
    BY <1>4, <2>1, <2>4 DEF AcknowledgeDeclines, ledgerVars, rowVars
  <2>5. QED
    BY <1>12, <2>2, <2>3, <2>4 DEF AcknowledgeWrite
<1>13. CASE ChargeReadback(w)
  BY <1>4, <1>13 DEF ChargeReadback, BeginReadback, ReadbackDeclines, awsVars, ledgerVars, rowVars
<1>14. CASE RecordPoll(w)
  BY <1>4, <1>14 DEF RecordPoll, RecordObservation, RecordDeclines, awsVars, ledgerVars, rowVars
<1>15. CASE Observe(w) \/ CheckDeadline(w) \/ Receipt(w) \/ Uncertain(w)
             \/ CheckAcknowledged(w) \/ ReadBack(w)
  BY <1>4, <1>15 DEF Observe, CheckDeadline, Receipt, Uncertain, CheckAcknowledged, ReadBack,
     awsVars, ledgerVars, rowVars
<1>16. CASE Dispatch(w)
  <2>1. /\ UNCHANGED <<now, authority, expires, phase>> /\ pc[w] = "dispatch"
        /\ writes' = [writes EXCEPT ![e] = @ + 1] /\ outstanding' = outstanding \cup {e}
    BY <1>16 DEF Dispatch, At, ledgerVars, rowVars
  <2>2. phase[e] \in Open /\ writes[e] = 0
    BY <1>1, <2>1 DEF Fence, Writing
  <2>3. UNCHANGED <<StageOf, Barred>>
    BY <2>1 DEF StageOf, Barred, Blocking
  <2>4. e \notin Issued /\ Issued' = Issued \cup {e}
    BY <1>2, <2>1, <2>2 DEF Issued, AllInv, WInv, WTypeOK
  <2>5. StageOf[e] \in {"granted", "uncertain"}
    BY <1>2, <2>2 DEF StageOf, Stage, Open, PreIntent
  <2>6. Authority!Issue(e)
    BY <2>1, <2>3, <2>4, <2>5 DEF Authority!Issue
  <2>7. QED
    BY <1>2, <2>6 DEF AbstractStep, Authority!Next
<1>17. QED
  BY <1>7, <1>8, <1>9, <1>10, <1>11, <1>12, <1>13, <1>14, <1>15, <1>16 DEF Run

\* The ledger and the workers keep the promise of WriteAuthority.
THEOREM ImplementsAuthority == WSpec => WriteAuthoritySpec
<1>1. WInit => Authority!Init
  <2> SUFFICES ASSUME WInit
               PROVE  Authority!Init
    OBVIOUS
  <2>1. StageOf = [e \in Execs |-> "waiting"] /\ Issued = {} /\ outstanding = {}
    BY DEF WInit, Init, StageOf, Stage, Issued
  <2>2. Barred \subseteq Execs
    BY DEF Barred
  <2>3. QED
    BY <2>1, <2>2 DEF Authority!Init
<1>2. AllInv /\ [WNext]_wvars => AbstractStep
  <2> SUFFICES ASSUME AllInv, [WNext]_wvars
               PROVE  AbstractStep
    OBVIOUS
  <2>1. TypeOK'
    BY WorkerStepIsLedgerStep, TypeStep DEF AllInv, JournalInv
  <2>2. CASE UNCHANGED wvars
    <3>1. UNCHANGED <<now, authority, expires, phase, writes, outstanding>>
      BY <2>2 DEF wvars, ledgerVars, rowVars, workerVars, awsVars
    <3>2. UNCHANGED <<StageOf, Barred, Issued, outstanding>>
      BY <3>1 DEF StageOf, Barred, Blocking, Issued
    <3>3. QED
      BY <3>2 DEF AbstractStep, Authority!avars
  <2>3. ASSUME NEW e \in Execs, Settle(e)
        PROVE  AbstractStep
    <3>1. /\ UNCHANGED <<now, authority, expires, phase, writes>> /\ e \in outstanding
          /\ outstanding' = outstanding \ {e}
      BY <2>3 DEF Settle, ledgerVars, rowVars
    <3>2. UNCHANGED <<StageOf, Barred, Issued>>
      BY <3>1 DEF StageOf, Barred, Blocking, Issued
    <3>3. Authority!Land(e)
      BY <3>1, <3>2 DEF Authority!Land
    <3>4. QED
      BY <3>3 DEF AbstractStep, Authority!Next
  <2>4. ASSUME NEW w \in Workers, Crash(w) \/ (\E e \in Execs : Start(w, e))
        PROVE  AbstractStep
    <3>1. UNCHANGED <<now, authority, expires, phase, writes, outstanding>>
      BY <2>4 DEF Crash, Start, awsVars, ledgerVars, rowVars
    <3>2. UNCHANGED <<StageOf, Barred, Issued, outstanding>>
      BY <3>1 DEF StageOf, Barred, Blocking, Issued
    <3>3. QED
      BY <3>2 DEF AbstractStep, Authority!avars
  <2>5. CASE Outside
    BY <2>5, OutsideBars, AdmitHolds DEF Outside
  <2>6. ASSUME NEW w \in Workers, Run(w)
        PROVE  AbstractStep
    BY <2>1, <2>6, RunImplements
  <2>7. CASE WNext
    BY <2>3, <2>4, <2>5, <2>6, <2>7 DEF WNext
  <2>8. QED
    BY <2>2, <2>7
<1>3. QED
  BY <1>1, <1>2, AllAlways, PTL DEF WSpec, WriteAuthoritySpec, Authority!Spec, AbstractStep
-----------------------------------------------------------------------------
(* What follows from the promise of WriteAuthority alone, for every stage,    *)
(* loss of authority and write that its variables may stand for.             *)

AuthorityInv ==
  /\ StageOf \in [Execs -> Authority!Stages]
  /\ Authority!OneHolderPerTarget
  /\ Authority!PendingWriteHoldsTarget
  /\ outstanding \subseteq Execs

Holders == {"holding", "granted", "uncertain"}

\* Only Hold makes an execution a holder, and it displaces every rival; only a
\* write that is no longer pending lets a granted execution go.
LEMMA AuthorityStep == AuthorityInv /\ AbstractStep => AuthorityInv'
<1> SUFFICES ASSUME AuthorityInv, AbstractStep
             PROVE  AuthorityInv'
  OBVIOUS
<1> USE DEF AuthorityInv, Authority!Stages, Authority!Rivals, Authority!PendingWriteHoldsTarget
<1>1. ASSUME NEW e \in Execs, Authority!Hold(e)
      PROVE  AuthorityInv'
  <2>1. PICK D \in SUBSET {x \in Barred : StageOf[x] = "holding"} :
          /\ \A x \in Authority!Rivals(e) : StageOf[x] \in Holders => x \in D
          /\ StageOf' = [[x \in Execs |-> IF x \in D THEN "dropped" ELSE StageOf[x]]
                          EXCEPT ![e] = "holding"]
    BY <1>1 DEF Authority!Hold, Holders
  <2>2. Authority!OneHolderPerTarget'
    BY <2>1 DEF Authority!OneHolderPerTarget, Holders
  <2>3. e \notin outstanding
    BY <1>1 DEF Authority!Hold
  <2>4. StageOf' \in [Execs -> Authority!Stages]
    BY <2>1
  <2>5. \A x \in outstanding : StageOf'[x] = StageOf[x]
    BY <2>1, <2>3
  <2>6. QED
    BY <1>1, <2>2, <2>4, <2>5 DEF Authority!Hold
<1>2. ASSUME NEW e \in Execs, Authority!Drop(e) \/ Authority!Grant(e) \/ Authority!Doubt(e) \/ Authority!Confirm(e)
      PROVE  AuthorityInv'
  BY <1>2 DEF Authority!Drop, Authority!Grant, Authority!Doubt, Authority!Confirm, Authority!Move,
              Authority!OneHolderPerTarget
<1>3. ASSUME NEW e \in Execs, Authority!Issue(e) \/ Authority!Land(e)
      PROVE  AuthorityInv'
  BY <1>3 DEF Authority!Issue, Authority!Land, Authority!OneHolderPerTarget
<1>4. CASE Authority!Bar \/ UNCHANGED Authority!avars
  BY <1>4 DEF Authority!Bar, Authority!avars, Authority!OneHolderPerTarget
<1>5. QED
  BY <1>1, <1>2, <1>3, <1>4 DEF AbstractStep, Authority!Next

LEMMA AuthorityInit == Authority!Init => AuthorityInv
BY DEF Authority!Init, AuthorityInv, Authority!Stages, Authority!OneHolderPerTarget,
       Authority!PendingWriteHoldsTarget, Authority!Rivals

\* A target never has two holders, with or without a grant.
THEOREM OneHolder == WriteAuthoritySpec => []Authority!OneHolderPerTarget
BY AuthorityInit, AuthorityStep, PTL
   DEF WriteAuthoritySpec, Authority!Spec, AbstractStep, AuthorityInv

\* A write that may still take effect belongs to a holder of its target.
THEOREM PendingIsHeld == WriteAuthoritySpec => []Authority!PendingWriteHoldsTarget
BY AuthorityInit, AuthorityStep, PTL
   DEF WriteAuthoritySpec, Authority!Spec, AbstractStep, AuthorityInv
=============================================================================
