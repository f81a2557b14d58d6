------------------------- MODULE RemediationAuthority -------------------------
(***************************************************************************)
(* Proposals, decisions and revocations, and the ledger that makes them     *)
(* idempotent for an actor, an operation and a key.                         *)
(*                                                                         *)
(* A call is a transaction of several statements at READ COMMITTED: it      *)
(* looks the key up, locks the finding, looks the key up again, reads,      *)
(* inserts and commits; rows that break a unique index are found when the   *)
(* other transaction has committed.  Calls of several sessions interleave   *)
(* with each other and with scans and dispositions of the finding, which    *)
(* lock it too.  A call whose commit went through may still be answered     *)
(* with an error, and any call may be sent again.                           *)
(***************************************************************************)
EXTENDS Integers, FiniteSets

CONSTANTS
  Sessions,      \* database sessions, each with at most one call
  Findings,
  Proposals,     \* identities a new proposal may draw
  Requests,      \* calls clients make
  Ttl,           \* 24 hours
  Horizon,       \* bound: the last clock value
  MaxEvents,     \* bound: governance events of each finding
  MaxScans,      \* bound: assessments of each finding
  None

OfOp(op) == {r \in Requests : r.op = op}

ASSUME AuthorityAssumption ==
  /\ \A r \in Requests : r.op \in {"CREATE", "DECIDE", "REVOKE"}
  /\ \A r \in OfOp("CREATE") : r.finding \in Findings /\ r.occurrence \in Nat
  /\ \A r \in OfOp("DECIDE") : r.verdict \in {"APPROVE", "REJECT"}
  /\ \A r \in Requests \ OfOp("CREATE") : r.proposal \in Proposals
  /\ Ttl \in Nat \ {0}
  /\ None \notin Sessions \cup Requests

VARIABLES
  proposal,    \* remediation_proposals: [req, gov, created], or absent
  decisions,   \* remediation_decisions, by the request that made each
  ledger,      \* remediation_requests: [req, proposal]
  lock,        \* the session that locked each finding's rows
  tx,          \* the call of each session, and its last answer
  gov,         \* length of each finding's governance history
  state,       \* what its governance says of a finding
  newest,      \* its latest assessment
  now

rows == <<proposal, decisions, ledger>>
world == <<gov, state, newest, now>>
vars == <<rows, lock, tx, world>>

Absent == [req |-> None, gov |-> 0, created |-> 0]

\* A call that runs, with what it read, and one that ended, with its answer.
Running(pc, r, at, g) ==
  [pc |-> pc, req |-> r, at |-> at, gov |-> g, result |-> "none", got |-> None]
Ended(r, result, got) ==
  [pc |-> "idle", req |-> r, at |-> 0, gov |-> 0, result |-> result, got |-> got]
Idle == Ended(None, "none", None)

Init ==
  /\ proposal = [p \in Proposals |-> Absent]
  /\ decisions = {} /\ ledger = {}
  /\ lock = [f \in Findings |-> None]
  /\ tx = [s \in Sessions |-> Idle]
  /\ gov = [f \in Findings |-> 0]
  /\ state = [f \in Findings |-> "eligible"]
  /\ newest = [f \in Findings |-> 1]
  /\ now = 0

-----------------------------------------------------------------------------
(* Reading                                                                 *)

Exists(p) == proposal[p].req # None
FindingOf(p) == proposal[p].req.finding
Located(r) == r.op # "CREATE" => Exists(r.proposal)
Target(r) == IF r.op = "CREATE" THEN r.finding ELSE FindingOf(r.proposal)

SameKey(r, t) == r.actor = t.actor /\ r.op = t.op /\ r.key = t.key
Known(r) == {l \in ledger : SameKey(l.req, r)}

Decisions(p) == {d \in decisions : d.proposal = p}
Kind(d) == IF d.op = "REVOKE" THEN "REVOKE" ELSE d.verdict
Kinds(p) == {Kind(d) : d \in Decisions(p)}

\* An assessment of the finding is newer than the baseline, or it is governed.
Stale(p) == newest[FindingOf(p)] > proposal[p].req.occurrence
Governed(p) == gov[FindingOf(p)] # proposal[p].gov \/ state[FindingOf(p)] # "eligible"
Blocked(p) == now >= proposal[p].created + Ttl \/ Stale(p) \/ Governed(p)

\* What write() accepts under the locks.
AcceptCreate(r) == state[r.finding] = "eligible" /\ newest[r.finding] = r.occurrence
AcceptDecide(r) ==
  /\ r.actor # proposal[r.proposal].req.actor
  /\ Decisions(r.proposal) = {}
  /\ r.verdict = "APPROVE" => ~Blocked(r.proposal)

\* Mutant of AcceptRevoke: any first decision can be revoked.
AcceptRevokeAny(r) ==
  Cardinality(Decisions(r.proposal)) = 1

AcceptRevoke(r) ==
  /\ Cardinality(Decisions(r.proposal)) = 1
  /\ Kinds(r.proposal) = {"APPROVE"}

Accepts(r) ==
  /\ r.op = "CREATE" => AcceptCreate(r)
  /\ r.op = "DECIDE" => AcceptDecide(r)
  /\ r.op = "REVOKE" => AcceptRevoke(r)

\* The unique indexes: the key, the first decision, the revocation.
Taken(r) == {d \in decisions : d.op = r.op /\ d.proposal = r.proposal}
Violates(r) == Known(r) # {} \/ Taken(r) # {}

-----------------------------------------------------------------------------
(* A call                                                                  *)

\* The transaction of s ends with an answer, and its locks with it.
Unlocked(s) == [f \in Findings |-> IF lock[f] = s THEN None ELSE lock[f]]
Answer(s, r, result, got) ==
  /\ tx' = [tx EXCEPT ![s] = Ended(r, result, got)]
  /\ lock' = Unlocked(s)

\* It ends with an error that says nothing about its effect.
Forget(s) ==
  /\ tx' = [tx EXCEPT ![s] = Idle]
  /\ lock' = Unlocked(s)

\* Mutant of Replay: a key answers whatever the request is.
ReplayAny(s, r) ==
  \E l \in Known(r) : Answer(s, r, "effect", l) /\ UNCHANGED rows

\* _replay: the row of the key answers, if it was made by this request.
Replay(s, r) ==
  \E l \in Known(r) :
    /\ IF l.req = r THEN Answer(s, r, "effect", l) ELSE Answer(s, r, "conflict", None)
    /\ UNCHANGED rows

Begin(s, r) ==
  /\ tx[s].pc = "idle"
  /\ \/ Replay(s, r)
     \/ /\ Known(r) = {}
        /\ tx' = [tx EXCEPT ![s] = Running("open", r, 0, 0)]
        /\ UNCHANGED <<rows, lock>>
  /\ UNCHANGED world

\* Mutant of Lock: the finding is read without FOR UPDATE.
LockNothing(s, r) ==
  /\ Located(r)
  /\ tx' = [tx EXCEPT ![s] = Running("locked", r, 0, 0)]
  /\ UNCHANGED <<rows, lock, world>>

\* _finding and _proposal with lock=True: resource, finding, proposal.
Lock(s, r) ==
  /\ Located(r)
  /\ lock[Target(r)] = None
  /\ lock' = [lock EXCEPT ![Target(r)] = s]
  /\ tx' = [tx EXCEPT ![s] = Running("locked", r, 0, 0)]
  /\ UNCHANGED <<rows, world>>

\* EntityNotFoundError.
Unknown(s, r) ==
  /\ ~Located(r)
  /\ Answer(s, r, "refused", None)
  /\ UNCHANGED <<rows, world>>

Open(s) ==
  /\ tx[s].pc = "open"
  /\ Lock(s, tx[s].req) \/ Unknown(s, tx[s].req)

Insert(s, r) ==
  /\ Accepts(r)
  /\ tx' = [tx EXCEPT ![s] = Running("written", r, now, gov[Target(r)])]
  /\ UNCHANGED <<rows, lock>>

Refuse(s, r) ==
  /\ ~Accepts(r)
  /\ Answer(s, r, "refused", None)
  /\ UNCHANGED rows

\* write(): the second replay, then the checks under the locks.
Decide(s, r) ==
  \/ Replay(s, r)
  \/ Known(r) = {} /\ (Insert(s, r) \/ Refuse(s, r))

Write(s) ==
  /\ tx[s].pc = "locked"
  /\ Decide(s, tx[s].req)
  /\ UNCHANGED world

\* The new rows become visible together.
Publish(s, r, p) ==
  /\ IF r.op = "CREATE"
     THEN /\ ~Exists(p)
          /\ proposal' = [proposal EXCEPT ![p] =
                            [req |-> r, gov |-> tx[s].gov, created |-> tx[s].at]]
          /\ UNCHANGED decisions
     ELSE /\ p = r.proposal
          /\ decisions' = decisions \cup {r}
          /\ UNCHANGED proposal
  /\ ledger' = ledger \cup {[req |-> r, proposal |-> p]}

\* The commit; its acknowledgment may be lost.
Commit(s) ==
  /\ tx[s].pc = "written" /\ ~Violates(tx[s].req)
  /\ \E p \in Proposals :
       /\ Publish(s, tx[s].req, p)
       /\ \/ Answer(s, tx[s].req, "effect", [req |-> tx[s].req, proposal |-> p])
          \/ Forget(s)
  /\ UNCHANGED world

\* IntegrityError: the transaction is rolled back, then the key looked up.
Collide(s) ==
  /\ tx[s].pc = "written" /\ Violates(tx[s].req)
  /\ tx' = [tx EXCEPT ![s] = Running("collided", tx[s].req, 0, 0)]
  /\ lock' = Unlocked(s)
  /\ UNCHANGED <<rows, world>>

Resolve(s) ==
  /\ tx[s].pc = "collided"
  /\ \/ Replay(s, tx[s].req)
     \/ /\ Known(tx[s].req) = {}
        /\ Answer(s, tx[s].req, "refused", None)
        /\ UNCHANGED rows
  /\ UNCHANGED world

\* OperationalError, or the end of the process: nothing was committed.
Fail(s) ==
  /\ tx[s].pc # "idle"
  /\ Forget(s)
  /\ UNCHANGED <<rows, world>>

-----------------------------------------------------------------------------
(* Scans and governance, each a transaction that locks the finding         *)

States == {"eligible", "ineligible", "excepted"}

\* A disposition or an exception: an event, and perhaps another state.
Govern(f) ==
  /\ lock[f] = None /\ gov[f] < MaxEvents[f]
  /\ gov' = [gov EXCEPT ![f] = @ + 1]
  /\ \E q \in States : state' = [state EXCEPT ![f] = q]
  /\ UNCHANGED <<rows, lock, tx, newest, now>>

\* A scan assesses the finding again; its outcome may be an event too.
Assess(f) ==
  /\ lock[f] = None /\ newest[f] < MaxScans[f]
  /\ newest' = [newest EXCEPT ![f] = @ + 1]
  /\ \/ UNCHANGED <<gov, state>>
     \/ /\ gov[f] < MaxEvents[f]
        /\ gov' = [gov EXCEPT ![f] = @ + 1]
        /\ \E q \in {"eligible", "ineligible"} : state' = [state EXCEPT ![f] = q]
  /\ UNCHANGED <<rows, lock, tx, now>>

\* An exception ends by the clock alone: no event records it.
Lapse(f) ==
  /\ state[f] = "excepted"
  /\ state' = [state EXCEPT ![f] = "eligible"]
  /\ UNCHANGED <<rows, lock, tx, gov, newest, now>>

Tick ==
  /\ now < Horizon
  /\ now' = now + 1
  /\ UNCHANGED <<rows, lock, tx, gov, state, newest>>

Call(s) ==
  \/ \E r \in Requests : Begin(s, r)
  \/ Open(s) \/ Write(s) \/ Commit(s) \/ Collide(s) \/ Resolve(s) \/ Fail(s)

Next ==
  \/ \E s \in Sessions : Call(s)
  \/ \E f \in Findings : Govern(f) \/ Assess(f) \/ Lapse(f)
  \/ Tick

Spec == Init /\ [][Next]_vars

-----------------------------------------------------------------------------
(* Properties                                                              *)

Rows == [req : Requests, proposal : Proposals]
Results == {"none", "effect", "conflict", "refused"}

ProposalRow == [req : Requests \cup {None}, gov : Nat, created : Nat]
CallState ==
  [pc : {"idle", "open", "locked", "written", "collided"}, req : Requests \cup {None},
   at : Nat, gov : Nat, result : Results, got : Rows \cup {None}]

\* A running call has a request, and one that answers with an effect a row.
CallFits(t) ==
  /\ t.pc # "idle" => t.req \in Requests
  /\ t.at <= now
  /\ IF t.result = "effect" THEN t.got \in Rows ELSE t.got = None

\* Types.  A proposal was made by a CREATE and no later than now, and what a
\* decision or a revocation names exists.
TypeOK ==
  /\ proposal \in [Proposals -> ProposalRow]
  /\ \A p \in Proposals : Exists(p) =>
       proposal[p].req \in OfOp("CREATE") /\ proposal[p].created <= now
  /\ decisions \subseteq Requests \ OfOp("CREATE")
  /\ \A d \in decisions : Exists(d.proposal)
  /\ ledger \subseteq Rows
  /\ lock \in [Findings -> Sessions \cup {None}]
  /\ tx \in [Sessions -> CallState] /\ \A s \in Sessions : CallFits(tx[s])
  /\ gov \in [Findings -> Nat] /\ state \in [Findings -> States]
  /\ newest \in [Findings -> Nat] /\ now \in Nat

\* What a call answers with is the effect of that very request, on record:
\* neither a key used for another request nor a lost race answers for it
\* (_replay, before and under the locks and after an IntegrityError).
AnswersAreOwn ==
  \A s \in Sessions : tx[s].result = "effect" => tx[s].got \in ledger /\ tx[s].got.req = tx[s].req

\* A request that took effect is never answered by a refusal or a conflict,
\* although its twin may commit between any two statements of the call
\* (the second replay in write(); the replay after IntegrityError).
EffectIsNeverRefused ==
  [][\A s \in Sessions :
       tx'[s] # tx[s] /\ tx'[s].result \in {"refused", "conflict"}
         => \A l \in ledger : l.req # tx'[s].req]_vars

\* An approval commits only while the finding is as the proposal saw it: no
\* governance event, no newer assessment, no exception in force (decide reads
\* _blocking under the locks that scans and dispositions take).
ApprovedWhileCurrent ==
  [][\A d \in decisions' \ decisions : Kind(d) = "APPROVE"
       => ~Stale(d.proposal) /\ ~Governed(d.proposal)]_vars

\* An IntegrityError always means a twin or a reused key: the indexes on
\* decisions never decide between two sessions, the locks already have
\* (models/remediation.py declares them as a second line).
CollisionsAreKeys ==
  \A s \in Sessions : tx[s].pc = "collided" => Known(tx[s].req) # {}

-----------------------------------------------------------------------------
(* The abstract authority                                                  *)

\* approval_status, as _view derives it.
StatusOf(p) ==
  CASE ~Exists(p) -> "none"
    [] "REVOKE" \in Kinds(p) -> "REVOKED"
    [] "REVOKE" \notin Kinds(p) /\ "REJECT" \in Kinds(p) -> "REJECTED"
    [] Kinds(p) = {"APPROVE"} -> "APPROVED"
    [] OTHER -> "PROPOSED"

ProposerOf(p) == IF Exists(p) THEN proposal[p].req.actor ELSE None

Authority == INSTANCE ProposalAuthority WITH
  Nobody <- None,
  taken <- {l.req : l \in ledger},
  status <- [p \in Proposals |-> StatusOf(p)],
  proposer <- [p \in Proposals |-> ProposerOf(p)]

\* The service implements the abstract authority: one effect for each key,
\* and a status that only ever moves forward, whatever is retried or lost.
AuthoritySpec == Authority!PSpec
==============================================================================
