--------------------------- MODULE RemediationLedger ---------------------------
(***************************************************************************)
(* The remediation execution ledger: the rows that                        *)
(* RemediationExecutionService and RemediationWorkerService read and write,*)
(* with one action per outcome of each of their transactions.              *)
(*                                                                         *)
(* Every mutating call of both services is one SQL transaction that first  *)
(* locks the singleton admission guard, then the proposal (with its        *)
(* resource and finding), the target's reservation and the worker claim,   *)
(* so a call is one atomic step here.  A call that raises rolls its        *)
(* transaction back and is no step at all.  An execution is identified     *)
(* with its proposal: the ledger admits at most one for each.              *)
(*                                                                         *)
(* Abstractions.  The journal of an execution is represented by what its   *)
(* readers take from it: the last phase, the number and time of the CLAIMED*)
(* events, and whether the WRITE_INTENT, ACKNOWLEDGED and numbered readback*)
(* events were written.  A claim token is drawn afresh together with each  *)
(* increment of the claim's generation, so the generation stands for it.   *)
(* Two reads of the clock inside one transaction collapse into one.        *)
(***************************************************************************)
EXTENDS Integers, FiniteSets

CONSTANTS
  Execs,           \* approved proposals that may be executed
  NoExec,          \* the NULL of a reservation's execution_id
  Targets,         \* reservation scopes (account, region, action)
  TargetOf,        \* the scope each proposal names
  ProposalExpiry,  \* when each proposal expires
  Capacity,        \* ADMISSION_CAPACITY
  Window,          \* life of an execution: 5 minutes in the code
  LeaseTime,       \* life of a worker's lease: 30 seconds in the code
  ReadbackTime,    \* life of the readback window: 30 seconds in the code
  MaxReads,        \* provider reads before the write: 3 in the code
  MaxReadbacks,    \* provider reads after the write: 3 in the code
  Horizon          \* bound of the clock, for model checking

ASSUME LedgerAssumption ==
  /\ NoExec \notin Execs
  /\ TargetOf \in [Execs -> Targets]
  /\ ProposalExpiry \in [Execs -> Nat]
  /\ Capacity \in Nat
  /\ Window \in Nat \ {0}
  /\ LeaseTime \in Nat \ {0}
  /\ ReadbackTime \in Nat \ {0}
  /\ MaxReads \in Nat \ {0}
  /\ MaxReadbacks \in Nat \ {0}
  /\ Horizon \in Nat

VARIABLES
  now,        \* the clock every service reads
  authority,  \* what the proposal's decisions and governance say
  phase,      \* phase of the last journal event, "NONE" before admission
  expires,    \* expires_at of the execution
  holder,     \* reservation of each target: the execution it holds or NoExec
  gen,        \* generation of the worker claim, 0 without a claim
  lease,      \* lease_until of the claim
  claimedAt,  \* created_at of the last CLAIMED event
  reads,      \* read_attempts, never reset by a later claim
  intent,     \* write_intent_event_id is set
  acked,      \* an ACKNOWLEDGED event is in the journal
  rbStart,    \* readback_started_at
  rbUsed,     \* readback_attempts
  rbSeen      \* polls of the OBSERVED and OBSERVATION_FAILED events

claimVars == <<gen, lease, claimedAt, reads>>
rbVars == <<rbStart, rbUsed, rbSeen>>
rowVars == <<phase, expires, holder, claimVars, intent, acked, rbVars>>
ledgerVars == <<now, authority, rowVars>>

Phases == {"NONE", "QUEUED", "EXPIRED", "BLOCKED", "CLAIMED", "WRITE_INTENT",
           "NO_WRITE", "ACKNOWLEDGED", "QUARANTINED"}

\* Phases in which the execution owns its target's reservation.
Held == {"QUEUED", "CLAIMED", "WRITE_INTENT", "QUARANTINED"}

\* Phases from which the write can still be refused.
PreIntent == {"QUEUED", "CLAIMED"}

NotStarted == -1

\* What a provider read tells apart: encryption off with the proposal's
\* default key, off with another key, or already on.
Observations == {"baseline", "drifted", "enabled"}

Earlier(a, b) == IF a < b THEN a ELSE b
-----------------------------------------------------------------------------
Init ==
  /\ now = 0
  /\ authority = [e \in Execs |-> "undecided"]
  /\ phase = [e \in Execs |-> "NONE"]
  /\ expires = [e \in Execs |-> 0]
  /\ holder = [t \in Targets |-> NoExec]
  /\ gen = [e \in Execs |-> 0]
  /\ lease = [e \in Execs |-> 0]
  /\ claimedAt = [e \in Execs |-> 0]
  /\ reads = [e \in Execs |-> 0]
  /\ intent = [e \in Execs |-> FALSE]
  /\ acked = [e \in Execs |-> FALSE]
  /\ rbStart = [e \in Execs |-> NotStarted]
  /\ rbUsed = [e \in Execs |-> 0]
  /\ rbSeen = [e \in Execs |-> {}]

Tick ==
  /\ now < Horizon
  /\ now' = now + 1
  /\ UNCHANGED <<authority, rowVars>>

\* The authority an execution rests on: an APPROVE decision taken before the
\* proposal expired, until it is revoked, or governance, the finding or the
\* target's assessment moves on.  A revocation may come after the expiry, and
\* nothing restores a withdrawn authority: decisions are append-only and the
\* proposal binds a digest of the finding's whole audit history.
Approve(e) ==
  /\ authority[e] = "undecided"
  /\ now < ProposalExpiry[e]
  /\ authority' = [authority EXCEPT ![e] = "approved"]
  /\ UNCHANGED <<now, rowVars>>

Withdraw(e) ==
  /\ authority[e] = "approved"
  /\ authority' = [authority EXCEPT ![e] = "withdrawn"]
  /\ UNCHANGED <<now, rowVars>>

\* An execution's own expiry is never later than its proposal's.
Blocking(e) == authority[e] # "approved" \/ now >= expires[e]
-----------------------------------------------------------------------------
(* Admission.  Who may call admit and the replay of an earlier request by   *)
(* its idempotency key are not represented.                                 *)

\* Mutant of Reapable: expires executions a worker already works on.
ReapableAnyPhase == {e \in Execs : phase[e] \in Held /\ expires[e] <= now}

Reapable == {e \in Execs : phase[e] = "QUEUED" /\ expires[e] <= now}

\* Mutant of Displaceable: displaces a blocked holder in any phase.
DisplaceableAnyPhase(x) == Blocking(x)

Displaceable(x) == phase[x] = "QUEUED" /\ Blocking(x)

\* Mutant of HasRoom: one reservation too many.
HasRoomForOneMore(reserved) == Cardinality(reserved) <= Capacity

HasRoom(reserved) == Cardinality(reserved) < Capacity

\* Admission first expires every overdue QUEUED execution, then displaces the
\* target's holder if that is QUEUED and blocked, then counts reservations.
Admit(e) ==
  LET t == TargetOf[e]
      displaced == {x \in Execs : holder[t] = x} \ Reapable
      closed == Reapable \cup displaced
      reserved == {u \in Targets : holder[u] \notin closed \cup {NoExec}}
  IN /\ phase[e] = "NONE"
     /\ authority[e] = "approved"
     /\ now < ProposalExpiry[e]
     /\ now + Window <= Horizon  \* bound
     /\ \A x \in displaced : Displaceable(x)
     /\ HasRoom(reserved)
     /\ phase' = [[x \in Execs |-> IF x \notin closed THEN phase[x]
                                   ELSE IF x \in Reapable THEN "EXPIRED" ELSE "BLOCKED"]
                   EXCEPT ![e] = "QUEUED"]
     /\ holder' = [[u \in Targets |-> IF holder[u] \in closed THEN NoExec ELSE holder[u]]
                    EXCEPT ![t] = e]
     /\ expires' = [expires EXCEPT ![e] = Earlier(ProposalExpiry[e], now + Window)]
     /\ UNCHANGED <<now, authority, claimVars, intent, acked, rbVars>>
-----------------------------------------------------------------------------
(* Worker transactions.  k is the generation of the caller's token.         *)

Release(e) == holder' = [holder EXCEPT ![TargetOf[e]] = NoExec]

\* Mutant of CloseWithoutWrite: forgets the reservation.
CloseWithoutRelease(e) ==
  /\ phase' = [phase EXCEPT ![e] = "NO_WRITE"]
  /\ UNCHANGED <<now, authority, expires, holder, claimVars, intent, acked, rbVars>>

\* A NO_WRITE event: the execution ends and frees its target.
CloseWithoutWrite(e) ==
  /\ phase' = [phase EXCEPT ![e] = "NO_WRITE"]
  /\ Release(e)
  /\ UNCHANGED <<now, authority, expires, claimVars, intent, acked, rbVars>>

Owned(e, k) == k > 0 /\ gen[e] = k
Fenced(e, k) == Owned(e, k) /\ phase[e] = "CLAIMED"
Leased(e) == lease[e] > now
Spent(e) == reads[e] >= MaxReads

\* Mutant of ClaimGrants: a later worker takes over a committed intent.
ClaimTakesOverIntent(e) ==
  /\ phase[e] \in PreIntent \cup {"WRITE_INTENT"}
  /\ ~Blocking(e) /\ ~Leased(e) /\ ~Spent(e)
  /\ phase' = [phase EXCEPT ![e] = "CLAIMED"]
  /\ gen' = [gen EXCEPT ![e] = @ + 1]
  /\ lease' = [lease EXCEPT ![e] = Earlier(expires[e], now + LeaseTime)]
  /\ claimedAt' = [claimedAt EXCEPT ![e] = now]
  /\ UNCHANGED <<now, authority, expires, holder, reads, intent, acked, rbVars>>

\* claim: lets a worker in unless another's lease runs or the budget is spent.
ClaimGrants(e) ==
  /\ phase[e] \in PreIntent
  /\ ~Blocking(e) /\ ~Leased(e) /\ ~Spent(e)
  /\ phase' = [phase EXCEPT ![e] = "CLAIMED"]
  /\ gen' = [gen EXCEPT ![e] = @ + 1]
  /\ lease' = [lease EXCEPT ![e] = Earlier(expires[e], now + LeaseTime)]
  /\ claimedAt' = [claimedAt EXCEPT ![e] = now]
  /\ UNCHANGED <<now, authority, expires, holder, reads, intent, acked, rbVars>>

ClaimCloses(e) ==
  /\ phase[e] \in PreIntent
  /\ Blocking(e) \/ (~Leased(e) /\ Spent(e))
  /\ CloseWithoutWrite(e)

ClaimDeclines(e) ==
  /\ phase[e] \in PreIntent => ~Blocking(e) /\ Leased(e)
  /\ UNCHANGED ledgerVars

\* begin_read: charges one provider read to the execution's budget.
ReadGrants(e, k) ==
  /\ Fenced(e, k)
  /\ ~Blocking(e) /\ ~Spent(e) /\ Leased(e)
  /\ reads' = [reads EXCEPT ![e] = @ + 1]
  /\ UNCHANGED <<now, authority, phase, expires, holder, gen, lease, claimedAt,
                 intent, acked, rbVars>>

ReadCloses(e, k) ==
  /\ Fenced(e, k)
  /\ Blocking(e) \/ Spent(e)
  /\ CloseWithoutWrite(e)

ReadDeclines(e, k) ==
  /\ Fenced(e, k) => ~Blocking(e) /\ ~Spent(e) /\ ~Leased(e)
  /\ UNCHANGED ledgerVars

\* no_write: the owner gives up, even after its lease has run out.
NoWrite(e, k) ==
  \/ Fenced(e, k) /\ CloseWithoutWrite(e)
  \/ ~Fenced(e, k) /\ UNCHANGED ledgerVars

\* write_intent: the last point at which authority is evaluated.  o was
\* observed at time `at`; a read older than the claim, or no read, raises.
IntentGrants(e, k, o, at) ==
  /\ Fenced(e, k)
  /\ ~Blocking(e) /\ Leased(e)
  /\ reads[e] > 0 /\ at >= claimedAt[e]
  /\ o = "baseline"
  /\ phase' = [phase EXCEPT ![e] = "WRITE_INTENT"]
  /\ intent' = [intent EXCEPT ![e] = TRUE]
  /\ UNCHANGED <<now, authority, expires, holder, claimVars, acked, rbVars>>

IntentCloses(e, k, o, at) ==
  /\ Fenced(e, k)
  /\ \/ Blocking(e)
     \/ Leased(e) /\ reads[e] > 0 /\ at >= claimedAt[e] /\ o # "baseline"
  /\ CloseWithoutWrite(e)

IntentDeclines(e, k, at) ==
  /\ Fenced(e, k) =>
       ~Blocking(e) /\ (Leased(e) => reads[e] = 0 \/ at < claimedAt[e])
  /\ UNCHANGED ledgerVars

\* acknowledge: the write's receipt.  Quarantine is kept, with the target.
Acknowledge(e, k) ==
  /\ Owned(e, k) /\ intent[e] /\ ~acked[e]
  /\ acked' = [acked EXCEPT ![e] = TRUE]
  /\ \/ /\ phase[e] = "WRITE_INTENT"
        /\ phase' = [phase EXCEPT ![e] = "ACKNOWLEDGED"]
        /\ Release(e)
     \/ /\ phase[e] = "QUARANTINED"
        /\ UNCHANGED <<phase, holder>>
  /\ UNCHANGED <<now, authority, expires, claimVars, intent, rbVars>>

AcknowledgeDeclines(e, k) ==
  /\ ~(Owned(e, k) /\ intent[e] /\ ~acked[e])
  /\ UNCHANGED ledgerVars

\* quarantine: by any worker; the target stays reserved.
Quarantine(e) ==
  \/ /\ phase[e] = "WRITE_INTENT"
     /\ phase' = [phase EXCEPT ![e] = "QUARANTINED"]
     /\ UNCHANGED <<now, authority, expires, holder, claimVars, intent, acked, rbVars>>
  \/ /\ phase[e] # "WRITE_INTENT"
     /\ UNCHANGED ledgerVars

Written(e) == phase[e] \in {"ACKNOWLEDGED", "QUARANTINED"}
WindowOpen(e) == rbStart[e] = NotStarted \/ now < rbStart[e] + ReadbackTime

\* begin_readback: the first call opens the one window, later calls share it.
BeginReadback(e) ==
  /\ Written(e) /\ rbUsed[e] < MaxReadbacks /\ WindowOpen(e)
  /\ rbUsed' = [rbUsed EXCEPT ![e] = @ + 1]
  /\ rbStart' = [rbStart EXCEPT ![e] = IF @ = NotStarted THEN now ELSE @]
  /\ UNCHANGED <<now, authority, phase, expires, holder, claimVars, intent, acked, rbSeen>>

ReadbackDeclines(e) ==
  /\ ~(Written(e) /\ rbUsed[e] < MaxReadbacks /\ WindowOpen(e))
  /\ UNCHANGED ledgerVars

\* record_observation: poll p is journalled once.  `at` is the time of the
\* observation, NotStarted for a failed poll; the journal's validation before
\* the commit raises on an observation made outside the readback window.
InWindow(e, at) == rbStart[e] <= at /\ at < rbStart[e] + ReadbackTime

RecordObservation(e, p, at) ==
  /\ Written(e) /\ p <= rbUsed[e] /\ p \notin rbSeen[e]
  /\ at = NotStarted \/ InWindow(e, at)
  /\ rbSeen' = [rbSeen EXCEPT ![e] = @ \cup {p}]
  /\ UNCHANGED <<now, authority, phase, expires, holder, claimVars, intent, acked,
                 rbStart, rbUsed>>

RecordDeclines(e, p) ==
  /\ ~(Written(e) /\ p <= rbUsed[e] /\ p \notin rbSeen[e])
  /\ UNCHANGED ledgerVars
-----------------------------------------------------------------------------
(* The ledger under arbitrary callers: any token ever drawn, any observation *)
(* and any order of calls, whatever the worker program does.               *)

Call(e) ==
  \/ Approve(e) \/ Withdraw(e) \/ Admit(e)
  \/ ClaimGrants(e) \/ ClaimCloses(e)
  \/ \E k \in 1..gen[e] :
       \/ ReadGrants(e, k) \/ ReadCloses(e, k)
       \/ NoWrite(e, k)
       \/ \E o \in Observations, at \in 0..now :
            IntentGrants(e, k, o, at) \/ IntentCloses(e, k, o, at)
       \/ Acknowledge(e, k)
  \/ Quarantine(e)
  \/ BeginReadback(e)
  \/ \E p \in 1..MaxReadbacks, at \in {NotStarted} \cup 0..now :
       RecordObservation(e, p, at)

Next == Tick \/ \E e \in Execs : Call(e)

Spec == Init /\ [][Next]_ledgerVars
-----------------------------------------------------------------------------
(* Properties.                                                             *)

\* Every row holds values of its column's type.
TypeOK ==
  /\ now \in 0..Horizon
  /\ authority \in [Execs -> {"undecided", "approved", "withdrawn"}]
  /\ phase \in [Execs -> Phases]
  /\ expires \in [Execs -> Nat]
  /\ holder \in [Targets -> Execs \cup {NoExec}]
  /\ gen \in [Execs -> Nat]
  /\ lease \in [Execs -> Nat]
  /\ claimedAt \in [Execs -> Nat]
  /\ reads \in [Execs -> 0..MaxReads]
  /\ intent \in [Execs -> BOOLEAN]
  /\ acked \in [Execs -> BOOLEAN]
  /\ rbStart \in [Execs -> Nat \cup {NotStarted}]
  /\ rbUsed \in [Execs -> 0..MaxReadbacks]
  /\ rbSeen \in [Execs -> SUBSET (1..MaxReadbacks)]

\* A target is reserved for an execution exactly while that execution's last
\* journalled phase is one of the held ones, over every mix of reaping,
\* displacement, claims, refusals and acknowledgments.  Both services raise
\* remediation_provenance_conflict, and refuse all further work, otherwise.
ReservationMatchesPhase ==
  \A t \in Targets, e \in Execs :
    holder[t] = e <=> TargetOf[e] = t /\ phase[e] \in Held

\* The private claim row and the journal agree (the checks of _events): a
\* claim exists exactly when the execution was ever claimed, the intent mark
\* stands for an execution that passed its intent, a receipt only follows an
\* intent, and readback polls stay inside the budget charged for them.
ClaimMatchesJournal ==
  \A e \in Execs :
    /\ phase[e] \in {"NONE", "QUEUED", "EXPIRED", "BLOCKED"} => gen[e] = 0
    /\ phase[e] \in {"CLAIMED", "WRITE_INTENT", "ACKNOWLEDGED", "QUARANTINED"} => gen[e] > 0
    /\ intent[e] <=> phase[e] \in {"WRITE_INTENT", "ACKNOWLEDGED", "QUARANTINED"}
    /\ acked[e] => phase[e] \in {"ACKNOWLEDGED", "QUARANTINED"}
    /\ phase[e] = "ACKNOWLEDGED" => acked[e]
    /\ rbSeen[e] \subseteq 1..rbUsed[e]
    /\ rbUsed[e] = 0 <=> rbStart[e] = NotStarted

\* Reservations never exceed the admission capacity.
CapacityRespected ==
  Cardinality({t \in Targets : holder[t] # NoExec}) <= Capacity

\* Once an execution that has not passed its write intent is blocked by
\* revocation, governance or expiry, it never gets a write intent: a worker
\* that claimed or read earlier cannot slip past a cutoff that committed.
CutoffIsFinal ==
  \A e \in Execs :
    []((phase[e] \in PreIntent /\ Blocking(e)) => []~intent[e])

\* A quarantined execution keeps its phase and its target for ever, also when
\* a late acknowledgment or readback of the same write arrives.
QuarantineIsSticky ==
  [][\A e \in Execs : phase[e] = "QUARANTINED" =>
        phase'[e] = "QUARANTINED" /\ holder'[TargetOf[e]] = e]_ledgerVars

\* Nothing renews a budget: later owners of a claim inherit the reads that
\* were charged, and the readback window, once open, never moves.
BudgetsOnlyShrink ==
  [][\A e \in Execs :
       /\ reads'[e] >= reads[e] /\ rbUsed'[e] >= rbUsed[e] /\ rbSeen[e] \subseteq rbSeen'[e]
       /\ rbStart[e] # NotStarted => rbStart'[e] = rbStart[e]]_ledgerVars
=============================================================================
