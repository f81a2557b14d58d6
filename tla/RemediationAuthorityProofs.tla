---------------------- MODULE RemediationAuthorityProofs ----------------------
(***************************************************************************)
(* Proofs about RemediationAuthority, for any sessions, findings and        *)
(* requests.  A call that has checked its request holds the finding's lock, *)
(* so that what it checked still holds when it commits.                     *)
(***************************************************************************)
EXTENDS RemediationAuthority, TLAPS

-----------------------------------------------------------------------------
(* The inductive invariant                                                 *)

\* A call past its locking statement holds the lock of its finding.
Holds(s) ==
  tx[s].pc \in {"locked", "written"}
    => Located(tx[s].req) /\ lock[Target(tx[s].req)] = s

\* What a call accepted under the lock is still so when it commits.
Ready(r) ==
  /\ r.op = "DECIDE" =>
       /\ r.actor # proposal[r.proposal].req.actor
       /\ Decisions(r.proposal) = {}
       /\ r.verdict = "APPROVE" => ~Stale(r.proposal) /\ ~Governed(r.proposal)
  /\ r.op = "REVOKE" => Kinds(r.proposal) = {"APPROVE"}

LocksHeld == \A s \in Sessions : Holds(s)
StillReady == \A s \in Sessions : tx[s].pc = "written" => Ready(tx[s].req)

\* A key has one row, and what a row's request names exists.
LedgerFits ==
  /\ \A l, m \in ledger : SameKey(l.req, m.req) => l = m
  /\ \A l \in ledger : l.req.op # "CREATE" => Exists(l.req.proposal)

CallInv ==
  TypeOK /\ LocksHeld /\ StillReady /\ LedgerFits /\ CollisionsAreKeys /\ AnswersAreOwn

-----------------------------------------------------------------------------
(* Steps of a call                                                         *)

\* Records of calls.
LEMMA EndedIsTyped ==
  ASSUME NEW r \in Requests \cup {None}, NEW result \in Results, NEW got,
         IF result = "effect" THEN got \in Rows ELSE got = None, now \in Nat
  PROVE  Ended(r, result, got) \in CallState /\ CallFits(Ended(r, result, got))
<1>1. got \in Rows \cup {None}
  OBVIOUS
<1>2. Ended(r, result, got) \in CallState
  BY <1>1 DEF Ended, CallState
<1> QED
  BY <1>2 DEF Ended, CallFits

LEMMA RunningIsTyped ==
  ASSUME NEW r \in Requests, NEW pc \in {"open", "locked", "written", "collided"},
         NEW at \in Nat, NEW g \in Nat, at <= now
  PROVE  Running(pc, r, at, g) \in CallState /\ CallFits(Running(pc, r, at, g))
<1>1. Running(pc, r, at, g) \in CallState
  BY DEF Running, CallState, Results
<1> QED
  BY <1>1 DEF Running, CallFits

\* What a step of the call of s does to the rest of the state.
Alone(s) ==
  /\ UNCHANGED world
  /\ tx' \in [Sessions -> CallState] /\ \A u \in Sessions : CallFits(tx'[u])
  /\ lock' \in [Findings -> Sessions \cup {None}]
  /\ \A u \in Sessions \ {s} : tx'[u] = tx[u]
  /\ \A f \in Findings : lock[f] \in Sessions \ {s} => lock'[f] = lock[f]

LEMMA ReplacingIsAlone ==
  ASSUME TypeOK, NEW s \in Sessions, NEW t \in CallState, CallFits(t),
         tx' = [tx EXCEPT ![s] = t], UNCHANGED world,
         lock' = lock \/ lock' = Unlocked(s)
           \/ \E f \in Findings : lock[f] = None /\ lock' = [lock EXCEPT ![f] = s]
  PROVE  Alone(s) /\ tx'[s] = t
<1>0. tx \in [Sessions -> CallState] /\ (\A u \in Sessions : CallFits(tx[u]))
      /\ lock \in [Findings -> Sessions \cup {None}]
  BY DEF TypeOK
<1>1. /\ tx' \in [Sessions -> CallState] /\ tx'[s] = t
      /\ \A u \in Sessions \ {s} : tx'[u] = tx[u]
  BY <1>0
<1>2. \A u \in Sessions : CallFits(tx'[u])
  BY <1>0, <1>1
<1>3. lock' \in [Findings -> Sessions \cup {None}]
      /\ \A f \in Findings : lock[f] \in Sessions \ {s} => lock'[f] = lock[f]
  <2>1. None \notin Sessions
    BY AuthorityAssumption
  <2> QED
    BY <1>0, <2>1 DEF Unlocked
<1> QED
  BY <1>1, <1>2, <1>3 DEF Alone

\* An answer ends the call of s and changes no other.
LEMMA AnswerIsAlone ==
  ASSUME TypeOK, NEW s \in Sessions, NEW r \in Requests, NEW result \in Results, NEW got,
         IF result = "effect" THEN got \in Rows ELSE got = None,
         Answer(s, r, result, got), UNCHANGED world
  PROVE  Alone(s) /\ tx'[s] = Ended(r, result, got)
<1>1. Ended(r, result, got) \in CallState /\ CallFits(Ended(r, result, got))
  BY EndedIsTyped DEF TypeOK
<1> QED
  BY <1>1, ReplacingIsAlone DEF Answer

LEMMA ForgetIsAlone ==
  ASSUME TypeOK, NEW s \in Sessions, Forget(s), UNCHANGED world
  PROVE  Alone(s) /\ tx'[s] = Idle
<1>1. Idle \in CallState /\ CallFits(Idle)
  <2>1. Ended(None, "none", None) \in CallState /\ CallFits(Ended(None, "none", None))
    BY EndedIsTyped DEF TypeOK, Results
  <2> QED
    BY <2>1 DEF Idle
<1> QED
  BY <1>1, ReplacingIsAlone DEF Forget

\* The row of a request's key answers it with an effect or a conflict.
LEMMA ReplayIsAlone ==
  ASSUME TypeOK, NEW s \in Sessions, NEW r \in Requests, Replay(s, r), UNCHANGED world
  PROVE  /\ UNCHANGED rows /\ Alone(s)
         /\ \E l \in Known(r) :
              \/ tx'[s] = Ended(r, "effect", l) /\ l.req = r
              \/ tx'[s] = Ended(r, "conflict", None) /\ l.req # r
<1>1. PICK l \in Known(r) :
        /\ IF l.req = r THEN Answer(s, r, "effect", l) ELSE Answer(s, r, "conflict", None)
        /\ UNCHANGED rows
  BY DEF Replay
<1>2. l \in Rows
  BY <1>1 DEF Known, TypeOK
<1>3. CASE l.req = r
  <2>1. Alone(s) /\ tx'[s] = Ended(r, "effect", l)
    BY <1>1, <1>2, <1>3, AnswerIsAlone DEF Results
  <2> QED
    BY <1>1, <1>3, <2>1
<1>4. CASE l.req # r
  <2>1. Alone(s) /\ tx'[s] = Ended(r, "conflict", None)
    BY <1>1, <1>4, AnswerIsAlone DEF Results
  <2> QED
    BY <1>1, <1>4, <2>1
<1> QED
  BY <1>3, <1>4

LEMMA RefusalIsAlone ==
  ASSUME TypeOK, NEW s \in Sessions, NEW r \in Requests, Answer(s, r, "refused", None),
         UNCHANGED world
  PROVE  Alone(s) /\ tx'[s] = Ended(r, "refused", None)
BY AnswerIsAlone DEF Results

LEMMA TargetIsFinding ==
  ASSUME TypeOK, NEW r \in Requests, Located(r)
  PROVE  Target(r) \in Findings
<1>1. \A q \in OfOp("CREATE") : q.finding \in Findings
  BY AuthorityAssumption
<1>2. r.op # "CREATE" => r.proposal \in Proposals
  BY AuthorityAssumption DEF OfOp
<1> QED
  BY <1>1, <1>2 DEF TypeOK, Located, Target, FindingOf, Exists, OfOp

\* A running call has a request, and its finding is known once it is located.
LEMMA RunningHasRequest ==
  ASSUME TypeOK, NEW s \in Sessions, tx[s].pc # "idle"
  PROVE  /\ tx[s].req \in Requests
         /\ Located(tx[s].req) => Target(tx[s].req) \in Findings
<1>1. tx[s].req \in Requests
  BY DEF TypeOK, CallFits
<1> QED
  BY <1>1, TargetIsFinding

\* How a step of the call of s leaves it, and on what grounds.
Outcome(s) ==
  LET t == tx'[s]
  IN  /\ t.pc = "locked" => Open(s) /\ Lock(s, tx[s].req) /\ t = Running("locked", tx[s].req, 0, 0)
      /\ t.pc = "written" => Write(s) /\ Insert(s, tx[s].req) /\ t.req = tx[s].req
      /\ t.pc = "collided" => Collide(s) /\ t.req = tx[s].req
      /\ t.result = "effect" => t.got \in ledger' /\ t.got.req = t.req
      /\ t.result = "conflict" => \E l \in Known(t.req) : l.req # t.req
      /\ t.result = "refused" => Known(t.req) = {} \/ ~Located(t.req)

LEMMA ReplayIsGrounded ==
  ASSUME TypeOK, NEW s \in Sessions, NEW r \in Requests, Replay(s, r), UNCHANGED world
  PROVE  UNCHANGED rows /\ Alone(s) /\ Outcome(s)
<1>1. /\ UNCHANGED rows /\ Alone(s)
      /\ \E l \in Known(r) :
           \/ tx'[s] = Ended(r, "effect", l) /\ l.req = r
           \/ tx'[s] = Ended(r, "conflict", None) /\ l.req # r
  BY ReplayIsAlone
<1>2. ledger' = ledger /\ Known(r) \subseteq ledger
  BY <1>1 DEF rows, Known
<1> QED
  BY <1>1, <1>2 DEF Outcome, Ended

LEMMA RefusalIsGrounded ==
  ASSUME TypeOK, NEW s \in Sessions, NEW r \in Requests, Answer(s, r, "refused", None),
         UNCHANGED world, Known(r) = {} \/ ~Located(r)
  PROVE  Alone(s) /\ Outcome(s)
<1>1. Alone(s) /\ tx'[s] = Ended(r, "refused", None)
  BY RefusalIsAlone
<1> QED
  BY <1>1 DEF Outcome, Ended

LEMMA ForgetIsGrounded ==
  ASSUME TypeOK, NEW s \in Sessions, Forget(s), UNCHANGED world
  PROVE  Alone(s) /\ Outcome(s)
BY ForgetIsAlone DEF Outcome, Idle, Ended

LEMMA CallIsGrounded ==
  ASSUME TypeOK, LocksHeld, NEW s \in Sessions, Call(s)
  PROVE  Alone(s) /\ Outcome(s) /\ (UNCHANGED rows \/ Commit(s))
<1>0. now \in Nat /\ gov \in [Findings -> Nat]
  BY DEF TypeOK
<1>1. ASSUME NEW r \in Requests, Begin(s, r)
      PROVE  Alone(s) /\ Outcome(s) /\ UNCHANGED rows
  <2>0. UNCHANGED world
    BY <1>1 DEF Begin
  <2>1. CASE Replay(s, r)
    BY <2>0, <2>1, ReplayIsGrounded
  <2>2. CASE ~Replay(s, r)
    <3>1. tx' = [tx EXCEPT ![s] = Running("open", r, 0, 0)] /\ UNCHANGED <<rows, lock>>
      BY <1>1, <2>2 DEF Begin
    <3>2. Running("open", r, 0, 0) \in CallState /\ CallFits(Running("open", r, 0, 0))
      BY <1>0, RunningIsTyped
    <3>3. Alone(s) /\ tx'[s] = Running("open", r, 0, 0)
      BY <3>1, <3>2, <2>0, ReplacingIsAlone
    <3> QED
      BY <3>1, <3>3 DEF Outcome, Running
  <2> QED
    BY <2>1, <2>2
<1>2. ASSUME Open(s)
      PROVE  Alone(s) /\ Outcome(s) /\ UNCHANGED rows
  <2> DEFINE r == tx[s].req
  <2>0. UNCHANGED world /\ r \in Requests /\ (Located(r) => Target(r) \in Findings)
    BY <1>2, RunningHasRequest DEF Open, Lock, Unknown
  <2>1. CASE Lock(s, r)
    <3>1. Running("locked", r, 0, 0) \in CallState /\ CallFits(Running("locked", r, 0, 0))
      BY <1>0, <2>0, RunningIsTyped
    <3>2. tx' = [tx EXCEPT ![s] = Running("locked", r, 0, 0)] /\ UNCHANGED rows
      BY <2>1 DEF Lock
    <3>3. Alone(s) /\ tx'[s] = Running("locked", r, 0, 0)
      BY <2>0, <2>1, <3>1, <3>2, ReplacingIsAlone DEF Lock
    <3> QED
      BY <1>2, <2>1, <3>2, <3>3 DEF Outcome, Running
  <2>2. CASE Unknown(s, r)
    BY <2>0, <2>2, RefusalIsGrounded DEF Unknown
  <2> QED
    BY <1>2, <2>1, <2>2 DEF Open
<1>3. ASSUME Write(s)
      PROVE  Alone(s) /\ Outcome(s) /\ UNCHANGED rows
  <2> DEFINE r == tx[s].req
  <2>0. UNCHANGED world /\ r \in Requests /\ Target(r) \in Findings
    BY <1>3, RunningHasRequest DEF Write, LocksHeld, Holds
  <2>1. CASE Replay(s, r)
    BY <2>0, <2>1, ReplayIsGrounded
  <2>2. CASE Insert(s, r)
    <3> DEFINE t == Running("written", r, now, gov[Target(r)])
    <3>1. t \in CallState /\ CallFits(t)
      BY <1>0, <2>0, RunningIsTyped
    <3>2. tx' = [tx EXCEPT ![s] = t] /\ UNCHANGED <<rows, lock>>
      BY <2>2 DEF Insert
    <3>3. Alone(s) /\ tx'[s] = t
      BY <2>0, <3>1, <3>2, ReplacingIsAlone
    <3> QED
      BY <1>3, <2>2, <3>2, <3>3 DEF Outcome, Running
  <2>3. CASE Refuse(s, r) /\ Known(r) = {}
    BY <2>0, <2>3, RefusalIsGrounded DEF Refuse
  <2> QED
    BY <1>3, <2>1, <2>2, <2>3 DEF Write, Decide
<1>4. ASSUME Commit(s)
      PROVE  Alone(s) /\ Outcome(s)
  <2> DEFINE r == tx[s].req
  <2>0. UNCHANGED world /\ r \in Requests
    BY <1>4, RunningHasRequest DEF Commit
  <2>1. PICK p \in Proposals :
          /\ Publish(s, r, p)
          /\ Answer(s, r, "effect", [req |-> r, proposal |-> p]) \/ Forget(s)
    BY <1>4 DEF Commit
  <2>2. CASE Answer(s, r, "effect", [req |-> r, proposal |-> p])
    <3> DEFINE l == [req |-> r, proposal |-> p]
    <3>1. Alone(s) /\ tx'[s] = Ended(r, "effect", l)
      BY <2>0, <2>2, AnswerIsAlone DEF Results, Rows
    <3>2. l \in ledger'
      BY <2>1 DEF Publish
    <3> QED
      BY <3>1, <3>2 DEF Outcome, Ended
  <2>3. CASE Forget(s)
    BY <2>0, <2>3, ForgetIsGrounded
  <2> QED
    BY <2>1, <2>2, <2>3
<1>5. ASSUME Collide(s)
      PROVE  Alone(s) /\ Outcome(s) /\ UNCHANGED rows
  <2> DEFINE t == Running("collided", tx[s].req, 0, 0)
  <2>0. UNCHANGED world /\ tx[s].req \in Requests
    BY <1>5, RunningHasRequest DEF Collide
  <2>1. tx' = [tx EXCEPT ![s] = t] /\ lock' = Unlocked(s) /\ UNCHANGED rows
    BY <1>5 DEF Collide
  <2>2. t \in CallState /\ CallFits(t)
    BY <1>0, <2>0, RunningIsTyped
  <2>3. Alone(s) /\ tx'[s] = t
    BY <2>0, <2>1, <2>2, ReplacingIsAlone
  <2> QED
    BY <1>5, <2>1, <2>3 DEF Outcome, Running
<1>6. ASSUME Resolve(s)
      PROVE  Alone(s) /\ Outcome(s) /\ UNCHANGED rows
  <2>0. UNCHANGED world /\ tx[s].req \in Requests
    BY <1>6, RunningHasRequest DEF Resolve
  <2>1. CASE Replay(s, tx[s].req)
    BY <2>0, <2>1, ReplayIsGrounded
  <2>2. CASE ~Replay(s, tx[s].req)
    BY <1>6, <2>0, <2>2, RefusalIsGrounded DEF Resolve
  <2> QED
    BY <2>1, <2>2
<1>7. ASSUME Fail(s)
      PROVE  Alone(s) /\ Outcome(s) /\ UNCHANGED rows
  BY <1>7, ForgetIsGrounded DEF Fail
<1> QED
  BY <1>1, <1>2, <1>3, <1>4, <1>5, <1>6, <1>7 DEF Call

\* Rows are only added.
LEMMA RowsAreAdded ==
  ASSUME TypeOK, NEW s \in Sessions, UNCHANGED rows \/ Commit(s)
  PROVE  /\ \A p \in Proposals : Exists(p) => proposal'[p] = proposal[p]
         /\ decisions \subseteq decisions' /\ ledger \subseteq ledger'
<1>1. CASE UNCHANGED rows
  BY <1>1 DEF rows
<1>2. CASE Commit(s)
  <2>1. PICK p \in Proposals : Publish(s, tx[s].req, p)
    BY <1>2 DEF Commit
  <2>2. CASE tx[s].req.op = "CREATE"
    BY <2>1, <2>2 DEF Publish, TypeOK
  <2>3. CASE tx[s].req.op # "CREATE"
    BY <2>1, <2>3 DEF Publish
  <2> QED
    BY <2>2, <2>3
<1> QED
  BY <1>1, <1>2

-----------------------------------------------------------------------------
(* Types                                                                   *)

LEMMA RowsAreTyped ==
  ASSUME TypeOK, LocksHeld, NEW s \in Sessions, Commit(s), now' = now
  PROVE  /\ proposal' \in [Proposals -> ProposalRow]
         /\ \A p \in Proposals : Exists(p)' =>
              proposal'[p].req \in OfOp("CREATE") /\ proposal'[p].created <= now'
         /\ decisions' \subseteq Requests \ OfOp("CREATE")
         /\ \A d \in decisions' : Exists(d.proposal)'
         /\ ledger' \subseteq Rows
<1> DEFINE r == tx[s].req
<1>1. PICK p \in Proposals : Publish(s, r, p)
  BY DEF Commit
<1>2. /\ r \in Requests /\ Located(r)
      /\ tx[s].at \in Nat /\ tx[s].at <= now /\ tx[s].gov \in Nat
  <2>1. tx[s] \in CallState /\ CallFits(tx[s]) /\ tx[s].pc = "written"
    BY DEF TypeOK, Commit
  <2> QED
    BY <2>1, RunningHasRequest DEF CallState, CallFits, LocksHeld, Holds
<1>3. ledger' \subseteq Rows
  BY <1>1, <1>2 DEF Publish, TypeOK, Rows
<1>4. CASE r.op = "CREATE"
  <2>1. /\ proposal' = [proposal EXCEPT ![p] = [req |-> r, gov |-> tx[s].gov, created |-> tx[s].at]]
        /\ UNCHANGED decisions
    BY <1>1, <1>4 DEF Publish
  <2>2. [req |-> r, gov |-> tx[s].gov, created |-> tx[s].at] \in ProposalRow
    BY <1>2 DEF ProposalRow
  <2>3. /\ proposal' \in [Proposals -> ProposalRow]
        /\ proposal'[p] = [req |-> r, gov |-> tx[s].gov, created |-> tx[s].at]
        /\ \A q \in Proposals \ {p} : proposal'[q] = proposal[q]
    BY <2>1, <2>2 DEF TypeOK
  <2>4. r \in OfOp("CREATE") /\ r # None
    BY <1>2, <1>4, AuthorityAssumption DEF OfOp
  <2>5. \A q \in Proposals : Exists(q)' =>
              proposal'[q].req \in OfOp("CREATE") /\ proposal'[q].created <= now'
    BY <1>2, <2>3, <2>4 DEF TypeOK, Exists
  <2>6. \A d \in decisions' : Exists(d.proposal)'
    <3>1. \A d \in decisions : d.proposal \in Proposals
      BY AuthorityAssumption DEF TypeOK
    <3> QED
      BY <2>1, <2>3, <2>4, <3>1 DEF TypeOK, Exists
  <2> QED
    BY <1>3, <2>1, <2>3, <2>5, <2>6 DEF TypeOK
<1>5. CASE r.op # "CREATE"
  <2>1. decisions' = decisions \cup {r} /\ UNCHANGED proposal
    BY <1>1, <1>5 DEF Publish
  <2>2. r \in Requests \ OfOp("CREATE") /\ Exists(r.proposal)
    BY <1>2, <1>5 DEF OfOp, Located
  <2> QED
    BY <1>3, <2>1, <2>2 DEF TypeOK, Exists
<1> QED
  BY <1>4, <1>5

LEMMA CallKeepsTypes ==
  ASSUME TypeOK, LocksHeld, NEW s \in Sessions, Call(s)
  PROVE  TypeOK'
<1>1. Alone(s) /\ (UNCHANGED rows \/ Commit(s))
  BY CallIsGrounded
<1>2. /\ gov' = gov /\ state' = state /\ newest' = newest /\ now' = now
      /\ tx' \in [Sessions -> CallState] /\ lock' \in [Findings -> Sessions \cup {None}]
  BY <1>1 DEF Alone, world
<1>3. \A u \in Sessions : CallFits(tx[u])'
  BY <1>1, <1>2 DEF Alone, CallFits
<1>4. CASE UNCHANGED rows
  BY <1>2, <1>3, <1>4 DEF TypeOK, rows, Exists
<1>5. CASE Commit(s)
  BY <1>2, <1>3, <1>5, RowsAreTyped DEF TypeOK
<1> QED
  BY <1>1, <1>4, <1>5

\* A step of the world: rows, locks and calls stay.
World == (\E f \in Findings : Govern(f) \/ Assess(f) \/ Lapse(f)) \/ Tick

WorldTyped ==
  /\ UNCHANGED <<rows, lock, tx>> /\ now' \in Nat /\ now <= now'
  /\ gov' \in [Findings -> Nat] /\ state' \in [Findings -> States]
  /\ newest' \in [Findings -> Nat]

LEMMA WorldKeepsTypes ==
  ASSUME TypeOK, World
  PROVE  TypeOK' /\ UNCHANGED <<rows, lock, tx>> /\ now' \in Nat /\ now <= now'
<1>1. WorldTyped
  <2>1. ASSUME NEW f \in Findings, Govern(f)
        PROVE  WorldTyped
    BY <2>1 DEF Govern, WorldTyped, TypeOK
  <2>2. ASSUME NEW f \in Findings, Assess(f)
        PROVE  WorldTyped
    BY <2>2 DEF Assess, WorldTyped, TypeOK, States
  <2>3. ASSUME NEW f \in Findings, Lapse(f)
        PROVE  WorldTyped
    BY <2>3 DEF Lapse, WorldTyped, TypeOK, States
  <2>4. ASSUME Tick
        PROVE  WorldTyped
    BY <2>4 DEF Tick, WorldTyped, TypeOK
  <2> QED
    BY <2>1, <2>2, <2>3, <2>4 DEF World
<1>2. \A u \in Sessions : CallFits(tx[u])'
  BY <1>1 DEF WorldTyped, TypeOK, CallFits, CallState
<1>3. \A p \in Proposals : Exists(p)' =>
        proposal'[p].req \in OfOp("CREATE") /\ proposal'[p].created <= now'
  BY <1>1 DEF WorldTyped, TypeOK, ProposalRow, rows, Exists
<1> QED
  BY <1>1, <1>2, <1>3 DEF WorldTyped, TypeOK, rows, Exists

LEMMA NextSplits ==
  ASSUME [Next]_vars
  PROVE  (\E s \in Sessions : Call(s)) \/ World \/ UNCHANGED vars
BY DEF Next, World

-----------------------------------------------------------------------------
(* The invariant                                                           *)

LEMMA InitCallInv == Init => CallInv
<1> SUFFICES ASSUME Init PROVE CallInv
  OBVIOUS
<1>1. /\ proposal = [p \in Proposals |-> Absent] /\ decisions = {} /\ ledger = {}
      /\ tx = [s \in Sessions |-> Idle] /\ lock = [f \in Findings |-> None]
      /\ gov = [f \in Findings |-> 0] /\ state = [f \in Findings |-> "eligible"]
      /\ newest = [f \in Findings |-> 1] /\ now = 0
  BY DEF Init
<1>2. Idle \in CallState /\ CallFits(Idle)
  BY <1>1, EndedIsTyped DEF Idle, Results
<1>3. Absent \in ProposalRow /\ Absent.req = None
  BY DEF Absent, ProposalRow
<1>4. Idle.pc = "idle" /\ Idle.result = "none"
  BY DEF Idle, Ended
<1>5. TypeOK
  BY <1>1, <1>2, <1>3 DEF TypeOK, Exists, States
<1>6. LocksHeld /\ StillReady /\ CollisionsAreKeys /\ AnswersAreOwn /\ LedgerFits
  BY <1>1, <1>4 DEF LocksHeld, Holds, StillReady, CollisionsAreKeys, AnswersAreOwn, LedgerFits
<1> QED
  BY <1>5, <1>6 DEF CallInv

\* Where a request's finding is located, it stays.
LEMMA TargetsStay ==
  ASSUME TypeOK, NEW r \in Requests, Located(r),
         \A p \in Proposals : Exists(p) => proposal'[p] = proposal[p]
  PROVE  Located(r)' /\ Target(r)' = Target(r)
<1>1. CASE r.op = "CREATE"
  BY <1>1 DEF Located, Target
<1>2. CASE r.op # "CREATE"
  <2>1. r.proposal \in Proposals /\ Exists(r.proposal)
    BY <1>2, AuthorityAssumption DEF Located, OfOp
  <2> QED
    BY <1>2, <2>1 DEF Located, Target, FindingOf, Exists
<1> QED
  BY <1>1, <1>2

\* What Holds says of a request that is given.
LEMMA HoldsLater ==
  ASSUME NEW u \in Sessions, NEW r \in Requests, tx'[u].req = r,
         Located(r)', lock'[Target(r)'] = u
  PROVE  Holds(u)'
BY DEF Holds, Located, Target, FindingOf, Exists

LEMMA CallKeepsLocks ==
  ASSUME CallInv, NEW s \in Sessions, Call(s)
  PROVE  LocksHeld'
<1>0. /\ TypeOK /\ LocksHeld /\ Alone(s) /\ Outcome(s) /\ (UNCHANGED rows \/ Commit(s))
      /\ \A p \in Proposals : Exists(p) => proposal'[p] = proposal[p]
  BY CallIsGrounded, RowsAreAdded DEF CallInv
<1>1. ASSUME NEW u \in Sessions \ {s}, tx'[u].pc \in {"locked", "written"}
      PROVE  Holds(u)'
  <2>1. tx'[u] = tx[u]
    BY <1>0 DEF Alone
  <2>2. PICK r \in Requests : r = tx[u].req
    BY <1>0, <1>1, <2>1, RunningHasRequest
  <2>3. Located(r) /\ lock[Target(r)] = u /\ Target(r) \in Findings
    BY <1>0, <1>1, <2>1, <2>2, RunningHasRequest DEF LocksHeld, Holds
  <2>4. Located(r)' /\ Target(r)' = Target(r)
    BY <1>0, <2>3, TargetsStay
  <2>5. lock'[Target(r)] = u
    BY <1>0, <2>3 DEF Alone
  <2> QED
    BY <2>1, <2>2, <2>4, <2>5, HoldsLater
<1>2. ASSUME tx'[s].pc = "locked"
      PROVE  Holds(s)'
  <2>1. PICK r \in Requests : r = tx[s].req /\ Lock(s, r) /\ tx'[s] = Running("locked", r, 0, 0)
    BY <1>0, <1>2, RunningHasRequest DEF Outcome, Open
  <2>2. Located(r) /\ lock' = [lock EXCEPT ![Target(r)] = s] /\ UNCHANGED rows
    BY <2>1 DEF Lock
  <2>3. Located(r)' /\ Target(r)' = Target(r) /\ Target(r) \in Findings
    BY <1>0, <2>2, TargetsStay, TargetIsFinding
  <2>4. lock'[Target(r)] = s
    BY <1>0, <2>2, <2>3 DEF TypeOK
  <2> QED
    BY <2>1, <2>3, <2>4, HoldsLater DEF Running
<1>3. ASSUME tx'[s].pc = "written"
      PROVE  Holds(s)'
  <2>1. PICK r \in Requests : r = tx[s].req /\ Write(s) /\ Insert(s, r) /\ tx'[s].req = r
    BY <1>0, <1>3, RunningHasRequest DEF Outcome, Write
  <2>2. Located(r) /\ lock[Target(r)] = s /\ lock' = lock
    BY <1>0, <2>1 DEF LocksHeld, Holds, Write, Insert
  <2>3. Located(r)' /\ Target(r)' = Target(r)
    BY <1>0, <2>2, TargetsStay
  <2> QED
    BY <2>1, <2>2, <2>3, HoldsLater
<1> QED
  <2>1. ASSUME NEW u \in Sessions
        PROVE  Holds(u)'
    BY <1>1, <1>2, <1>3 DEF Holds
  <2> QED
    BY <2>1 DEF LocksHeld

\* Two calls that write are about different findings, so about different
\* proposals: the commit of one leaves the decisions of the other's alone.
LEMMA CommitSparesOthers ==
  ASSUME CallInv, NEW s \in Sessions, NEW u \in Sessions \ {s}, Commit(s),
         tx[u].pc = "written", NEW r \in Requests, r = tx[u].req, r.op # "CREATE"
  PROVE  /\ r.proposal \in Proposals /\ Exists(r.proposal)
         /\ proposal'[r.proposal] = proposal[r.proposal]
         /\ Decisions(r.proposal)' = Decisions(r.proposal)
<1> DEFINE t == tx[s].req
<1>0. TypeOK /\ LocksHeld
  BY DEF CallInv
<1>1. r \in Requests /\ Located(r) /\ lock[Target(r)] = u
  BY <1>0, RunningHasRequest DEF LocksHeld, Holds
<1>2. t \in Requests /\ Located(t) /\ lock[Target(t)] = s
  BY <1>0, RunningHasRequest DEF LocksHeld, Holds, Commit
<1>3. r.proposal \in Proposals /\ Exists(r.proposal)
  BY <1>1, AuthorityAssumption DEF OfOp, Located
<1>4. proposal'[r.proposal] = proposal[r.proposal]
  BY <1>0, <1>3, RowsAreAdded
<1>5. Decisions(r.proposal)' = Decisions(r.proposal)
  <2>1. PICK p \in Proposals : Publish(s, t, p)
    BY DEF Commit
  <2>2. CASE t.op = "CREATE"
    BY <2>1, <2>2 DEF Publish, Decisions
  <2>3. CASE t.op # "CREATE"
    <3>1. t.proposal # r.proposal
      BY <1>1, <1>2, <2>3 DEF Target
    <3>2. decisions' = decisions \cup {t}
      BY <2>1, <2>3 DEF Publish
    <3> QED
      BY <3>1, <3>2 DEF Decisions
  <2> QED
    BY <2>2, <2>3
<1> QED
  BY <1>3, <1>4, <1>5

\* Readiness depends on the request's proposal and its finding only.
LEMMA ReadyStays ==
  ASSUME TypeOK, NEW r \in Requests, Ready(r),
         r.op # "CREATE" =>
           /\ proposal'[r.proposal] = proposal[r.proposal]
           /\ Decisions(r.proposal)' = Decisions(r.proposal),
         r.op = "DECIDE" /\ r.verdict = "APPROVE" =>
           LET f == FindingOf(r.proposal)
           IN  newest'[f] = newest[f] /\ gov'[f] = gov[f] /\ state'[f] = state[f]
  PROVE  Ready(r)'
<1>1. r.op = "DECIDE" =>
        /\ r.actor # proposal'[r.proposal].req.actor
        /\ Decisions(r.proposal)' = {}
        /\ r.verdict = "APPROVE" => ~Stale(r.proposal)' /\ ~Governed(r.proposal)'
  BY DEF Ready, Stale, Governed, FindingOf
<1>2. r.op = "REVOKE" => Kinds(r.proposal)' = {"APPROVE"}
  BY DEF Ready, Kinds
<1> QED
  BY <1>1, <1>2 DEF Ready

LEMMA ReadyLater ==
  ASSUME NEW u \in Sessions, NEW r \in Requests, tx'[u].req = r, Ready(r)'
  PROVE  Ready(tx[u].req)'
BY DEF Ready, Decisions, Kinds, Stale, Governed, FindingOf

LEMMA CallKeepsReady ==
  ASSUME CallInv, NEW s \in Sessions, Call(s)
  PROVE  StillReady'
<1>0. /\ TypeOK /\ StillReady /\ Alone(s) /\ Outcome(s) /\ (UNCHANGED rows \/ Commit(s))
      /\ UNCHANGED world
  BY CallIsGrounded DEF CallInv, Alone
<1>1. ASSUME NEW u \in Sessions \ {s}, tx'[u].pc = "written"
      PROVE  Ready(tx[u].req)'
  <2>1. tx'[u] = tx[u]
    BY <1>0 DEF Alone
  <2>2. PICK r \in Requests : r = tx[u].req
    BY <1>0, <1>1, <2>1, RunningHasRequest
  <2>3. Ready(r)
    BY <1>0, <1>1, <2>1, <2>2 DEF StillReady
  <2>4. r.op # "CREATE" =>
          /\ proposal'[r.proposal] = proposal[r.proposal]
          /\ Decisions(r.proposal)' = Decisions(r.proposal)
    <3>1. CASE UNCHANGED rows
      BY <3>1 DEF rows, Decisions
    <3>2. CASE Commit(s)
      BY <1>1, <2>1, <2>2, <3>2, CommitSparesOthers
    <3> QED
      BY <1>0, <3>1, <3>2
  <2>5. Ready(r)'
    BY <1>0, <2>3, <2>4, ReadyStays DEF world
  <2> QED
    BY <2>1, <2>2, <2>5, ReadyLater
<1>2. ASSUME tx'[s].pc = "written"
      PROVE  Ready(tx[s].req)'
  <2>1. PICK r \in Requests : r = tx[s].req /\ Insert(s, r) /\ tx'[s].req = r
    BY <1>0, <1>2, RunningHasRequest DEF Outcome, Write
  <2>2. Ready(r) /\ UNCHANGED rows
    BY <2>1 DEF Insert, Accepts, AcceptDecide, AcceptRevoke, Blocked, Ready
  <2>3. Ready(r)'
    BY <1>0, <2>2, ReadyStays DEF rows, world, Decisions
  <2> QED
    BY <2>1, <2>3, ReadyLater
<1> QED
  <2>1. ASSUME NEW u \in Sessions, tx'[u].pc = "written"
        PROVE  Ready(tx[u].req)'
    BY <1>1, <1>2, <2>1
  <2> QED
    BY <2>1 DEF StillReady

\* The world changes only findings that no call has locked.
LEMMA WorldKeepsReady ==
  ASSUME CallInv, World
  PROVE  LocksHeld' /\ StillReady'
<1>0. TypeOK /\ LocksHeld /\ StillReady /\ UNCHANGED <<rows, lock, tx>>
  BY WorldKeepsTypes DEF CallInv
<1>1. LocksHeld'
  BY <1>0 DEF LocksHeld, Holds, Located, Target, FindingOf, Exists, rows
<1>2. ASSUME NEW u \in Sessions, tx'[u].pc = "written"
      PROVE  Ready(tx[u].req)'
  <2>1. PICK r \in Requests : r = tx[u].req
    BY <1>0, <1>2, RunningHasRequest
  <2>2. Ready(r) /\ Located(r) /\ lock[Target(r)] = u /\ Target(r) \in Findings
    BY <1>0, <1>2, <2>1, RunningHasRequest DEF StillReady, LocksHeld, Holds
  <2>3. ASSUME r.op = "DECIDE", r.verdict = "APPROVE"
        PROVE  LET f == FindingOf(r.proposal)
               IN  newest'[f] = newest[f] /\ gov'[f] = gov[f] /\ state'[f] = state[f]
    <3> DEFINE f == FindingOf(r.proposal)
    <3>1. f = Target(r) /\ f \in Findings /\ lock[f] # None /\ state[f] = "eligible"
      BY <2>2, <2>3, AuthorityAssumption DEF Target, Ready, Governed
    <3> HIDE DEF f
    <3>2. newest'[f] = newest[f] /\ gov'[f] = gov[f] /\ state'[f] = state[f]
      BY <1>0, <3>1 DEF World, Govern, Assess, Lapse, Tick, TypeOK
    <3> QED
      BY <3>2 DEF f
  <2>4. Ready(r)'
    BY <1>0, <2>2, <2>3, ReadyStays DEF rows, Decisions
  <2> QED
    BY <1>0, <2>1, <2>4, ReadyLater
<1> QED
  BY <1>1, <1>2 DEF StillReady

\* What a commit adds: a row for a key that had none.
LEMMA CommitIsFresh ==
  ASSUME CallInv, NEW s \in Sessions, Commit(s)
  PROVE  \E p \in Proposals, r \in Requests :
           /\ r = tx[s].req /\ Publish(s, r, p)
           /\ Known(r) = {} /\ Located(r) /\ Ready(r)
           /\ ledger' = ledger \cup {[req |-> r, proposal |-> p]}
<1>1. PICK p \in Proposals : Publish(s, tx[s].req, p)
  BY DEF Commit
<1>2. tx[s].req \in Requests /\ Located(tx[s].req) /\ Ready(tx[s].req)
  BY RunningHasRequest DEF CallInv, LocksHeld, Holds, StillReady, Commit
<1>3. Known(tx[s].req) = {}
  BY DEF Commit, Violates
<1> QED
  BY <1>1, <1>2, <1>3 DEF Publish

LEMMA CallKeepsLedger ==
  ASSUME CallInv, NEW s \in Sessions, Call(s)
  PROVE  LedgerFits'
<1>0. /\ TypeOK /\ LedgerFits /\ (UNCHANGED rows \/ Commit(s))
      /\ \A p \in Proposals : Exists(p) => proposal'[p] = proposal[p]
  BY CallIsGrounded, RowsAreAdded DEF CallInv
<1>1. CASE UNCHANGED rows
  BY <1>0, <1>1 DEF LedgerFits, SameKey, Exists, rows
<1>2. CASE Commit(s)
  <2>1. PICK p \in Proposals, r \in Requests :
           /\ Known(r) = {} /\ Located(r)
           /\ ledger' = ledger \cup {[req |-> r, proposal |-> p]}
    BY <1>2, CommitIsFresh
  <2> DEFINE new == [req |-> r, proposal |-> p]
  <2>2. \A l \in ledger : ~SameKey(l.req, r) /\ ~SameKey(r, l.req)
    BY <2>1 DEF Known, SameKey
  <2>3. \A l, m \in ledger' : SameKey(l.req, m.req) => l = m
    BY <1>0, <2>1, <2>2 DEF LedgerFits
  <2>4. \A l \in ledger' : l.req \in Requests
    BY <1>0, <2>1 DEF TypeOK, Rows
  <2>5. \A q \in Requests : q.op # "CREATE" /\ Exists(q.proposal) => Exists(q.proposal)'
    BY <1>0, AuthorityAssumption DEF OfOp, Exists
  <2>6. \A l \in ledger' : l.req.op # "CREATE" => Exists(l.req.proposal)
    BY <1>0, <2>1 DEF LedgerFits, Located
  <2> QED
    BY <2>3, <2>4, <2>5, <2>6 DEF LedgerFits, Exists
<1> QED
  BY <1>0, <1>1, <1>2

\* Under the locks no decision can be taken twice.
LEMMA ReadyIsFree ==
  ASSUME TypeOK, NEW r \in Requests, Ready(r)
  PROVE  Taken(r) = {}
<1>1. r.op \in {"CREATE", "DECIDE", "REVOKE"}
  BY AuthorityAssumption
<1>2. CASE r.op = "CREATE"
  BY <1>2 DEF Taken, TypeOK, OfOp
<1>3. CASE r.op = "DECIDE"
  BY <1>3 DEF Taken, Ready, Decisions
<1>4. CASE r.op = "REVOKE"
  BY <1>4 DEF Taken, Ready, Decisions, Kinds, Kind
<1> QED
  BY <1>1, <1>2, <1>3, <1>4

LEMMA CallKeepsCollisions ==
  ASSUME CallInv, NEW s \in Sessions, Call(s)
  PROVE  CollisionsAreKeys'
<1>0. /\ TypeOK /\ StillReady /\ CollisionsAreKeys /\ Alone(s) /\ Outcome(s)
      /\ ledger \subseteq ledger'
  BY CallIsGrounded, RowsAreAdded DEF CallInv
<1>1. ASSUME NEW u \in Sessions \ {s}, tx'[u].pc = "collided"
      PROVE  Known(tx[u].req)' # {}
  <2>1. tx'[u] = tx[u] /\ Known(tx[u].req) # {}
    BY <1>0, <1>1 DEF Alone, CollisionsAreKeys
  <2> QED
    BY <1>0, <2>1 DEF Known, SameKey
<1>2. ASSUME tx'[s].pc = "collided"
      PROVE  Known(tx[s].req)' # {}
  <2>1. Collide(s) /\ tx'[s].req = tx[s].req
    BY <1>0, <1>2 DEF Outcome
  <2>2. Taken(tx[s].req) = {}
    BY <1>0, <2>1, RunningHasRequest, ReadyIsFree DEF Collide, StillReady
  <2>3. Known(tx[s].req) # {}
    BY <2>1, <2>2 DEF Collide, Violates
  <2> QED
    BY <1>0, <2>1, <2>3 DEF Known, SameKey
<1> QED
  <2>1. ASSUME NEW u \in Sessions, tx'[u].pc = "collided"
        PROVE  Known(tx[u].req)' # {}
    BY <1>1, <1>2, <2>1
  <2> QED
    BY <2>1 DEF CollisionsAreKeys

LEMMA CallKeepsAnswers ==
  ASSUME CallInv, NEW s \in Sessions, Call(s)
  PROVE  AnswersAreOwn'
<1>0. AnswersAreOwn /\ Alone(s) /\ Outcome(s) /\ ledger \subseteq ledger'
  BY CallIsGrounded, RowsAreAdded DEF CallInv
<1>1. \A u \in Sessions \ {s} : tx'[u] = tx[u]
  BY <1>0 DEF Alone
<1>2. tx'[s].result = "effect" => tx'[s].got \in ledger' /\ tx'[s].got.req = tx'[s].req
  BY <1>0 DEF Outcome
<1> QED
  BY <1>0, <1>1, <1>2 DEF AnswersAreOwn

LEMMA StepCallInv == CallInv /\ [Next]_vars => CallInv'
<1> SUFFICES ASSUME CallInv, [Next]_vars
             PROVE  CallInv'
  OBVIOUS
<1>1. ASSUME NEW s \in Sessions, Call(s)
      PROVE  CallInv'
  <2>1. TypeOK'
    BY <1>1, CallKeepsTypes DEF CallInv
  <2> QED
    BY <1>1, <2>1, CallKeepsLocks, CallKeepsReady, CallKeepsLedger, CallKeepsCollisions,
       CallKeepsAnswers DEF CallInv
<1>2. CASE World
  <2>1. TypeOK' /\ UNCHANGED <<rows, lock, tx>>
    BY <1>2, WorldKeepsTypes DEF CallInv
  <2>2. LedgerFits' /\ CollisionsAreKeys' /\ AnswersAreOwn'
    BY <2>1 DEF CallInv, LedgerFits, CollisionsAreKeys, AnswersAreOwn, SameKey, Known, Exists, rows
  <2> QED
    BY <1>2, <2>1, <2>2, WorldKeepsReady DEF CallInv
<1>3. CASE UNCHANGED vars
  <2>1. UNCHANGED rows /\ lock' = lock /\ tx' = tx /\ UNCHANGED world
    BY <1>3 DEF vars
  <2>2. TypeOK'
    BY <2>1 DEF CallInv, TypeOK, CallFits, Exists, rows, world
  <2>3. LocksHeld'
    BY <2>1 DEF CallInv, LocksHeld, Holds, Located, Target, FindingOf, Exists, rows
  <2>4. StillReady'
    BY <2>1 DEF CallInv, StillReady, Ready, Decisions, Kinds, Stale, Governed, FindingOf, rows, world
  <2>5. LedgerFits' /\ CollisionsAreKeys' /\ AnswersAreOwn'
    BY <2>1 DEF CallInv, LedgerFits, CollisionsAreKeys, AnswersAreOwn, SameKey, Known, Exists, rows
  <2> QED
    BY <2>2, <2>3, <2>4, <2>5 DEF CallInv
<1> QED
  BY <1>1, <1>2, <1>3, NextSplits

-----------------------------------------------------------------------------
(* Theorems                                                                *)

\* Types; every answer is the request's own effect; an IntegrityError means a
\* key (RemediationService._mutate).
THEOREM CallsAreSound == Spec => [](TypeOK /\ AnswersAreOwn /\ CollisionsAreKeys)
<1>1. CallInv => TypeOK /\ AnswersAreOwn /\ CollisionsAreKeys
  BY DEF CallInv
<1> QED
  BY <1>1, InitCallInv, StepCallInv, PTL DEF Spec

\* The rows of proposals, decisions and requests, and the open calls, keep their types.
THEOREM CallTypes == Spec => []TypeOK
BY CallsAreSound, PTL

\* _mutate meets an IntegrityError only on a key that is used already.
THEOREM CollisionsAreUsedKeys == Spec => []CollisionsAreKeys
BY CallsAreSound, PTL

\* No request that took effect is refused (the two replays of _mutate).
THEOREM EffectsAreKept == Spec => EffectIsNeverRefused
<1> DEFINE Kept == \A s \in Sessions :
       tx'[s] # tx[s] /\ tx'[s].result \in {"refused", "conflict"}
         => \A l \in ledger : l.req # tx'[s].req
<1>1. ASSUME CallInv, NEW s \in Sessions, Call(s)
      PROVE  Kept
  <2>0. Alone(s) /\ Outcome(s) /\ LedgerFits /\ TypeOK
    BY <1>1, CallIsGrounded DEF CallInv
  <2>1. ASSUME NEW l \in ledger, l.req = tx'[s].req, tx'[s].result = "conflict"
        PROVE  FALSE
    BY <2>0, <2>1 DEF Outcome, LedgerFits, Known, SameKey
  <2>2. ASSUME NEW l \in ledger, l.req = tx'[s].req, tx'[s].result = "refused"
        PROVE  FALSE
    <3>1. Known(tx'[s].req) # {}
      BY <2>2 DEF Known, SameKey
    <3>2. Located(tx'[s].req)
      BY <2>0, <2>2 DEF LedgerFits, Located
    <3> QED
      BY <2>0, <2>2, <3>1, <3>2 DEF Outcome
  <2> QED
    BY <2>0, <2>1, <2>2 DEF Alone
<1>2. ASSUME CallInv, World
      PROVE  Kept
  BY <1>2, WorldKeepsTypes DEF CallInv
<1>3. CallInv /\ [Next]_vars => [Kept]_vars
  BY <1>1, <1>2, NextSplits
<1> QED
  BY <1>3, InitCallInv, StepCallInv, PTL DEF Spec, EffectIsNeverRefused

\* An approval commits while nothing it was judged on has changed (decide,
\* and the lock order it shares with scans and dispositions).
THEOREM ApprovalsAreCurrent == Spec => ApprovedWhileCurrent
<1> DEFINE Current == \A d \in decisions' \ decisions : Kind(d) = "APPROVE"
                        => ~Stale(d.proposal) /\ ~Governed(d.proposal)
<1>1. ASSUME CallInv, NEW s \in Sessions, Call(s)
      PROVE  Current
  <2>1. CASE UNCHANGED rows
    BY <2>1 DEF rows
  <2>2. CASE Commit(s)
    <3>1. PICK p \in Proposals, r \in Requests : Publish(s, r, p) /\ Ready(r)
      BY <1>1, <2>2, CommitIsFresh
    <3>2. decisions' \ decisions \subseteq {r} /\ (r.op = "CREATE" => decisions' = decisions)
      BY <3>1 DEF Publish
    <3>3. r.op \in {"CREATE", "DECIDE", "REVOKE"}
      BY AuthorityAssumption
    <3> QED
      BY <3>1, <3>2, <3>3 DEF Ready, Kind
  <2> QED
    BY <1>1, <2>1, <2>2, CallIsGrounded DEF CallInv
<1>2. ASSUME CallInv, World
      PROVE  Current
  BY <1>2, WorldKeepsTypes DEF CallInv, rows
<1>3. CallInv /\ [Next]_vars => [Current]_vars
  BY <1>1, <1>2, NextSplits
<1> QED
  BY <1>3, InitCallInv, StepCallInv, PTL DEF Spec, ApprovedWhileCurrent

-----------------------------------------------------------------------------
(* Refinement                                                              *)

Effects == {l.req : l \in ledger}

LEMMA InitIsAbstract == Init => Authority!PInit
<1> SUFFICES ASSUME Init PROVE Authority!PInit
  OBVIOUS
<1>1. ledger = {} /\ \A p \in Proposals : ~Exists(p) /\ Kinds(p) = {}
  BY DEF Init, Exists, Absent, Kinds, Decisions
<1>2. \A p \in Proposals : StatusOf(p) = "none" /\ ProposerOf(p) = None
  BY <1>1 DEF StatusOf, ProposerOf
<1>3. {l.req : l \in ledger} = {}
  BY <1>1
<1>4. [p \in Proposals |-> StatusOf(p)] = [p \in Proposals |-> "none"]
  BY <1>2
<1>5. [p \in Proposals |-> ProposerOf(p)] = [p \in Proposals |-> None]
  BY <1>2
<1> QED
  BY <1>3, <1>4, <1>5 DEF Authority!PInit

\* What a proposal's status depends on.
LEMMA StatusStays ==
  ASSUME NEW p \in Proposals, proposal'[p] = proposal[p], Decisions(p)' = Decisions(p)
  PROVE  StatusOf(p)' = StatusOf(p) /\ ProposerOf(p)' = ProposerOf(p)
BY DEF StatusOf, ProposerOf, Exists, Kinds

\* A fresh effect on one proposal is a step of the abstract authority.
LEMMA EffectIsAbstract ==
  ASSUME NEW r \in Requests, NEW p \in Proposals,
         \A t \in Effects : ~Authority!SameKey(r, t),
         Effects' = Effects \cup {r},
         \A q \in Proposals \ {p} :
           StatusOf(q)' = StatusOf(q) /\ ProposerOf(q)' = ProposerOf(q),
         \/ /\ r.op = "CREATE" /\ StatusOf(p) = "none"
            /\ StatusOf(p)' = "PROPOSED" /\ ProposerOf(p)' = r.actor
         \/ /\ r.op = "DECIDE" /\ r.proposal = p /\ StatusOf(p) = "PROPOSED"
            /\ r.actor # ProposerOf(p) /\ ProposerOf(p)' = ProposerOf(p)
            /\ StatusOf(p)' = IF r.verdict = "APPROVE" THEN "APPROVED" ELSE "REJECTED"
         \/ /\ r.op = "REVOKE" /\ r.proposal = p /\ StatusOf(p) = "APPROVED"
            /\ StatusOf(p)' = "REVOKED" /\ ProposerOf(p)' = ProposerOf(p)
  PROVE  Authority!PNext
<1> DEFINE status == [q \in Proposals |-> StatusOf(q)]
           proposer == [q \in Proposals |-> ProposerOf(q)]
<1>1. Authority!Fresh(r)
  BY DEF Authority!Fresh, Effects
<1>2. {l.req : l \in ledger}' = {l.req : l \in ledger} \cup {r}
  BY DEF Effects
<1>3. Authority!PPropose(r, p) \/ Authority!PDecide(r, p) \/ Authority!PRevoke(r, p)
  BY DEF Authority!PPropose, Authority!PDecide, Authority!PRevoke
<1> QED
  BY <1>1, <1>2, <1>3 DEF Authority!PNext

\* The statuses that the kinds of a proposal's decisions give.
LEMMA StatusIs ==
  ASSUME NEW p \in Proposals, Exists(p)
  PROVE  /\ Kinds(p) = {} => StatusOf(p) = "PROPOSED"
         /\ Kinds(p) = {"APPROVE"} => StatusOf(p) = "APPROVED"
BY DEF StatusOf

LEMMA StatusBecomes ==
  ASSUME NEW p \in Proposals, Exists(p)'
  PROVE  /\ Kinds(p)' = {} => StatusOf(p)' = "PROPOSED"
         /\ Kinds(p)' = {"APPROVE"} => StatusOf(p)' = "APPROVED"
         /\ Kinds(p)' = {"REJECT"} => StatusOf(p)' = "REJECTED"
         /\ "REVOKE" \in Kinds(p)' => StatusOf(p)' = "REVOKED"
BY DEF StatusOf

LEMMA CommitIsAbstract ==
  ASSUME CallInv, NEW s \in Sessions, Commit(s)
  PROVE  Authority!PNext
<1>1. PICK p \in Proposals, r \in Requests :
        /\ Publish(s, r, p) /\ Known(r) = {} /\ Located(r) /\ Ready(r)
        /\ ledger' = ledger \cup {[req |-> r, proposal |-> p]}
  BY CommitIsFresh
<1>2. \A t \in Effects : ~Authority!SameKey(r, t)
  BY <1>1 DEF Effects, Known, SameKey, Authority!SameKey
<1>3. Effects' = Effects \cup {r}
  <2> DEFINE new == [req |-> r, proposal |-> p]
  <2>1. ledger' = ledger \cup {new} /\ new.req = r
    BY <1>1
  <2> HIDE DEF new
  <2> QED
    BY <2>1 DEF Effects
<1>4. r.op \in {"CREATE", "DECIDE", "REVOKE"} /\ r # None
  BY AuthorityAssumption
<1>5. CASE r.op = "CREATE"
  <2>1. ~Exists(p) /\ UNCHANGED decisions
        /\ proposal' = [proposal EXCEPT ![p] =
                          [req |-> r, gov |-> tx[s].gov, created |-> tx[s].at]]
    BY <1>1, <1>5 DEF Publish
  <2>2. proposal'[p].req = r /\ \A q \in Proposals \ {p} : proposal'[q] = proposal[q]
    BY <2>1 DEF CallInv, TypeOK
  <2>3. Decisions(p) = {} /\ \A q \in Proposals : Decisions(q)' = Decisions(q)
    BY <2>1 DEF CallInv, TypeOK, Decisions
  <2>4. \A q \in Proposals \ {p} : StatusOf(q)' = StatusOf(q) /\ ProposerOf(q)' = ProposerOf(q)
    BY <2>2, <2>3, StatusStays
  <2>5. StatusOf(p) = "none"
    <3>1. Kinds(p) = {}
      BY <2>3 DEF Kinds
    <3> QED
      BY <2>1, <3>1 DEF StatusOf
  <2>6. Exists(p)' /\ Kinds(p)' = {}
    BY <1>4, <2>2, <2>3 DEF Exists, Kinds
  <2>7. StatusOf(p)' = "PROPOSED" /\ ProposerOf(p)' = r.actor
    BY <2>2, <2>6, StatusBecomes DEF ProposerOf
  <2> QED
    BY <1>2, <1>3, <1>5, <2>4, <2>5, <2>7, EffectIsAbstract
<1>6. CASE r.op # "CREATE"
  <2>1. r.proposal = p /\ decisions' = decisions \cup {r} /\ UNCHANGED proposal
    BY <1>1, <1>6 DEF Publish
  <2>2. Exists(p) /\ Exists(p)' /\ ProposerOf(p) = proposal[p].req.actor
        /\ ProposerOf(p)' = ProposerOf(p)
    BY <1>1, <1>6, <2>1 DEF Located, Exists, ProposerOf
  <2>3. \A q \in Proposals \ {p} : StatusOf(q)' = StatusOf(q) /\ ProposerOf(q)' = ProposerOf(q)
    <3>1. \A q \in Proposals \ {p} : Decisions(q)' = Decisions(q) /\ proposal'[q] = proposal[q]
      BY <2>1 DEF Decisions
    <3> QED
      BY <3>1, StatusStays
  <2>4. Decisions(p)' = Decisions(p) \cup {r}
    BY <2>1 DEF Decisions
  <2>5. Kinds(p)' = Kinds(p) \cup {Kind(r)}
    BY <2>4 DEF Kinds, Kind
  <2>6. CASE r.op = "DECIDE"
    <3>1. Kinds(p) = {} /\ r.actor # ProposerOf(p)
      BY <1>1, <2>1, <2>2, <2>6 DEF Ready, Kinds
    <3>2. r.verdict \in {"APPROVE", "REJECT"} /\ Kind(r) = r.verdict
      BY <2>6, AuthorityAssumption DEF OfOp, Kind
    <3>3. StatusOf(p) = "PROPOSED"
      BY <2>2, <3>1, StatusIs
    <3>4. StatusOf(p)' = IF r.verdict = "APPROVE" THEN "APPROVED" ELSE "REJECTED"
      BY <2>2, <2>5, <3>1, <3>2, StatusBecomes
    <3> QED
      BY <1>2, <1>3, <2>1, <2>2, <2>3, <2>6, <3>1, <3>3, <3>4, EffectIsAbstract
  <2>7. CASE r.op = "REVOKE"
    <3>1. StatusOf(p) = "APPROVED"
      BY <1>1, <2>1, <2>2, <2>7, StatusIs DEF Ready
    <3>2. StatusOf(p)' = "REVOKED"
      BY <2>2, <2>5, <2>7, StatusBecomes DEF Kind
    <3> QED
      BY <1>2, <1>3, <2>1, <2>2, <2>3, <2>7, <3>1, <3>2, EffectIsAbstract
  <2> QED
    BY <1>4, <1>6, <2>6, <2>7
<1> QED
  BY <1>5, <1>6

\* Without new rows the abstract authority stutters.
LEMMA OtherwiseItStutters ==
  ASSUME UNCHANGED rows
  PROVE  UNCHANGED <<{l.req : l \in ledger}, [p \in Proposals |-> StatusOf(p)],
                     [p \in Proposals |-> ProposerOf(p)]>>
<1>1. \A p \in Proposals : StatusOf(p)' = StatusOf(p) /\ ProposerOf(p)' = ProposerOf(p)
  BY StatusStays DEF rows, Decisions
<1>2. ledger' = ledger
  BY DEF rows
<1> QED
  BY <1>1, <1>2

LEMMA StepIsAbstract ==
  CallInv /\ [Next]_vars
    => [Authority!PNext]_<<{l.req : l \in ledger}, [p \in Proposals |-> StatusOf(p)],
                           [p \in Proposals |-> ProposerOf(p)]>>
<1> SUFFICES ASSUME CallInv, [Next]_vars
             PROVE  UNCHANGED rows \/ Authority!PNext
  BY OtherwiseItStutters
<1>1. ASSUME NEW s \in Sessions, Call(s)
      PROVE  UNCHANGED rows \/ Authority!PNext
  BY <1>1, CallIsGrounded, CommitIsAbstract DEF CallInv
<1>2. CASE World
  BY <1>2, WorldKeepsTypes DEF CallInv
<1>3. CASE UNCHANGED vars
  BY <1>3 DEF vars
<1> QED
  BY <1>1, <1>2, <1>3, NextSplits

\* The service implements the abstract authority: a key is spent once, and a
\* proposal is decided once and revoked only after an approval, whatever calls
\* interleave, fail or lose their answer.
THEOREM ImplementsProposalAuthority == Spec => AuthoritySpec
<1>1. CallInv /\ [Next]_vars
        => [Authority!PNext]_<<{l.req : l \in ledger}, [p \in Proposals |-> StatusOf(p)],
                               [p \in Proposals |-> ProposerOf(p)]>>
  BY StepIsAbstract
<1> QED
  BY <1>1, InitCallInv, StepCallInv, InitIsAbstract, PTL DEF Spec, AuthoritySpec, Authority!PSpec
===============================================================================
