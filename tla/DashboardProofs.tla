---------------------------- MODULE DashboardProofs ----------------------------
(***************************************************************************)
(* Proofs about Dashboard, for every set of tabs, sessions and operations     *)
(* and every value of the lifetimes and bounds.                              *)
(***************************************************************************)
EXTENDS Dashboard, TLAPS

Logins == [begun : BOOLEAN, expires : Nat]
SessionRecords == [state : {"unused", "live", "ended"}, expires : Nat, idle : Nat]
OperationStates ==
  {"absent", "PREPARED", "EXPIRED", "IN_FLIGHT", "UNCONFIRMED", "CONFIRMED", "dropped"}
OperationRecords ==
  [state : OperationStates, sid : Sessions \cup {None}, expires : Nat, attempts : Nat]
Calls ==
  [pc : {"idle", "exchanging", "verifying", "reading", "claimed", "posted", "answered", "confirming"},
   kind : {"none", "status", "logout", "read", "prepare", "submit"},
   sid : Sessions \cup {None}, op : Operations \cup {None}, attempt : Nat,
   answer : {"none", "data", "recorded", "refused", "unauthorized"}]

\* Only calls of submit say which operation they are about, so what is sent,
\* and what becomes of it, is about an operation.
TypeOK ==
  /\ now \in Nat
  /\ login \in Logins
  /\ session \in [Sessions -> SessionRecords]
  /\ cookie \in Sessions \cup {None}
  /\ context \in [Tabs -> Sessions \cup {None}]
  /\ operation \in [Operations -> OperationRecords]
  /\ call \in [Tabs -> Calls]
  /\ requests \subseteq [op : Operations, attempt : Nat, at : {"sent", "open", "written"}]
  /\ effects \in [Operations -> Nat]

Attempting == {"claimed", "posted", "answered", "confirming"}

\* What an operation is once an attempt at it was claimed.
WasTried(o) ==
  operation[o].attempts > 0 /\ operation[o].state \in {"IN_FLIGHT", "UNCONFIRMED", "CONFIRMED", "dropped"}

\* A call that attempts an operation attempts one of its own session, and one
\* that reads has the session its tab was told of.
CallFits(t) ==
  /\ call[t].pc = "verifying" => (call[t].kind = "submit" <=> call[t].op \in Operations)
  /\ call[t].pc = "reading" => context[t] = call[t].sid
  /\ call[t].pc \in Attempting =>
       /\ call[t].op \in Operations
       /\ WasTried(call[t].op)
       /\ operation[call[t].op].sid = call[t].sid

OperationFits(o) ==
  /\ operation[o].state # "absent" => operation[o].sid \in Sessions
  /\ operation[o].state = "CONFIRMED" => effects[o] > 0

\* What was sent was claimed before.
SentWasTried ==
  /\ \A r \in requests : WasTried(r.op)
  /\ \A o \in Operations : effects[o] > 0 => WasTried(o)

DashboardInv ==
  /\ TypeOK
  /\ \A t \in Tabs : CallFits(t)
  /\ \A o \in Operations : OperationFits(o)
  /\ SentWasTried
  /\ AttemptsHaveACall
-----------------------------------------------------------------------------
(* Types                                                                   *)

\* Ending sessions, and dropping what they prepared, keeps the types.
LEMMA EndedTyped ==
  ASSUME TypeOK, NEW gone
  PROVE  Ended(gone) \in [Sessions -> SessionRecords] /\ Kept(gone) \in [Operations -> OperationRecords]
BY DEF TypeOK, Ended, Kept, SessionRecords, OperationRecords, OperationStates

LEMMA RevokeTyped ==
  ASSUME TypeOK, NEW s, Revoke(s)
  PROVE  session' \in [Sessions -> SessionRecords] /\ operation' \in [Operations -> OperationRecords]
<1>1. session \in [Sessions -> SessionRecords]
  BY DEF TypeOK
<1>2. QED
  BY <1>1, EndedTyped DEF Revoke

LEMMA SettleTyped ==
  ASSUME TypeOK, NEW t \in Tabs, NEW state \in OperationStates, Settle(t, state)
  PROVE  operation' \in [Operations -> OperationRecords]
<1>1. operation \in [Operations -> OperationRecords]
  BY DEF TypeOK
<1>2. QED
  BY <1>1 DEF Settle, OperationRecords

LEMMA DoneTyped ==
  ASSUME TypeOK, NEW t \in Tabs, Done(t)
  PROVE  call' \in [Tabs -> Calls]
BY DEF TypeOK, Done, Calls, Idle

LEMMA DeliverTyped ==
  ASSUME TypeOK, NEW r, NEW answer \in {"recorded", "refused", "unauthorized"}, Deliver(r, answer)
  PROVE  call' \in [Tabs -> Calls]
<1>1. \A u \in Tabs : call'[u] \in Calls
  <2> TAKE u \in Tabs
  <2>1. call'[u] = call[u] \/ call'[u] = [call[u] EXCEPT !.pc = "answered", !.answer = answer]
    BY DEF Deliver
  <2>2. QED
    BY <2>1 DEF TypeOK, Calls
<1>2. QED
  BY <1>1 DEF Deliver

LEMMA InitTyped == Init => TypeOK
BY DEF Init, TypeOK, NoLogin, NoSession, NoOperation, Idle, Logins, SessionRecords,
       OperationRecords, OperationStates, Calls

LEMMA TimeTyped ==
  ASSUME TypeOK, Tick \/ Restart \/ BeginLogin
  PROVE  TypeOK'
<1>1. CASE Tick
  <2>1. login' \in Logins
    BY <1>1 DEF TypeOK, Tick, Expire, Logins, NoLogin
  <2>2. \A gone : Ended(gone) \in [Sessions -> SessionRecords] /\ Kept(gone) \in [Operations -> OperationRecords]
    BY EndedTyped
  <2>3. session' \in [Sessions -> SessionRecords]
    BY <1>1, <2>2 DEF Tick, Expire
  <2>4. operation' \in [Operations -> OperationRecords]
    <3>1. PICK gone : operation' = [o \in Operations |->
            IF Expires(o, now') /\ operation[o].sid \notin gone
            THEN [operation[o] EXCEPT !.state = "EXPIRED"] ELSE Kept(gone)[o]]
      BY <1>1 DEF Tick, Expire
    <3>2. Kept(gone) \in [Operations -> OperationRecords]
      BY <2>2
    <3>3. QED
      BY <3>1, <3>2 DEF TypeOK, OperationRecords, OperationStates
  <2>5. QED
    BY <1>1, <2>1, <2>3, <2>4 DEF TypeOK, Tick, browserVars, domainVars
<1>2. CASE Restart
  <2>1. session' \in [Sessions -> SessionRecords] /\ operation' \in [Operations -> OperationRecords]
    BY <1>2, EndedTyped DEF Restart
  <2>2. QED
    BY <1>2, <2>1 DEF TypeOK, Restart, browserVars, NoLogin, Logins, Idle, Calls
<1>3. CASE BeginLogin
  <2>1. login' \in Logins
    <3>1. NoLogin \in Logins /\ [login EXCEPT !.begun = TRUE] \in Logins
      BY DEF TypeOK, NoLogin, Logins
    <3>2. QED
      BY <1>3, <3>1 DEF BeginLogin
  <2>2. QED
    BY <1>3, <2>1 DEF TypeOK, BeginLogin, browserVars, domainVars
<1>4. QED
  BY <1>1, <1>2, <1>3

LEMMA SignInTyped ==
  ASSUME TypeOK, NEW t \in Tabs, SignIn(t) \/ Request(t)
  PROVE  TypeOK'
<1> USE DashboardAssumption DEF TypeOK, domainVars, browserVars, storeVars
<1>1. CASE OfferLogin(t)
  BY <1>1 DEF OfferLogin, Logins
<1>2. CASE Callback(t)
  <2>1. session' \in [Sessions -> SessionRecords] /\ operation' \in [Operations -> OperationRecords]
    BY <1>2, RevokeTyped DEF Callback
  <2>2. call' \in [Tabs -> Calls] /\ cookie' \in Sessions \cup {None}
    <3>1. [Idle EXCEPT !.pc = "exchanging", !.sid = cookie] \in Calls
      BY DEF Calls, Idle
    <3>2. QED
      BY <1>2, <3>1 DEF Callback
  <2>3. QED
    BY <1>2, <2>1, <2>2 DEF Callback, NoLogin, Logins
<1>3. CASE CreateSession(t)
  BY <1>3 DEF CreateSession, SessionRecords, Calls, Idle
<1>4. CASE CallbackFails(t)
  BY <1>4 DEF CallbackFails, Calls, Idle
<1>5. ASSUME NEW kind \in {"status", "logout", "read", "prepare", "submit"},
             NEW o \in Operations \cup {None}, Open(t, kind, o)
      PROVE  TypeOK'
  BY <1>5 DEF Open, Calls, Idle
<1>6. QED
  BY <1>1, <1>2, <1>3, <1>4, <1>5 DEF SignIn, Request

LEMMA ReadingTyped ==
  ASSUME TypeOK, NEW t \in Tabs,
         \/ Reject(t) \/ ContextChanged(t) \/ Bootstrap(t) \/ Logout(t)
         \/ Read(t) \/ ReadAnswers(t) \/ ReadRejected(t)
  PROVE  TypeOK'
<1> USE DashboardAssumption DEF domainVars, browserVars, storeVars
<1>1. ASSUME NEW s, Revoke(s), Done(t), login' \in Logins, cookie' \in Sessions \cup {None},
             UNCHANGED <<now, context, domainVars>>
      PROVE  TypeOK'
  BY <1>1, RevokeTyped, DoneTyped DEF TypeOK
<1>2. CASE Reject(t) \/ Logout(t)
  <2>1. NoLogin \in Logins
    BY DEF NoLogin, Logins
  <2>2. Revoke(call[t].sid) /\ Done(t) /\ UNCHANGED <<now, context, domainVars>>
    BY <1>2 DEF Reject, Logout
  <2>3. login' \in Logins /\ cookie' \in Sessions \cup {None}
    BY <1>2, <2>1 DEF TypeOK, Reject, Logout
  <2>4. QED
    BY <1>1, <2>2, <2>3
<1>3. CASE ContextChanged(t) \/ Bootstrap(t)
  <2>1. call' \in [Tabs -> Calls]
    BY <1>3, DoneTyped DEF ContextChanged, Bootstrap
  <2>2. call[t].sid \in Sessions \cup {None}
    BY DEF TypeOK, Calls
  <2>3. context' \in [Tabs -> Sessions \cup {None}]
    BY <1>3, <2>2 DEF TypeOK, ContextChanged, Bootstrap
  <2>4. QED
    BY <1>3, <2>1, <2>3 DEF TypeOK, ContextChanged, Bootstrap
<1>4. CASE Read(t)
  <2>1. call' \in [Tabs -> Calls]
    BY <1>4 DEF TypeOK, Read, Calls
  <2>2. call[t].sid \in Sessions
    BY <1>4 DEF Read, Verified, Live
  <2>3. session' \in [Sessions -> SessionRecords]
    <3>1. now + IdleLife \in Nat
      BY DEF TypeOK
    <3>2. QED
      BY <1>4, <2>2, <3>1 DEF TypeOK, Read, SessionRecords
  <2>4. QED
    BY <1>4, <2>1, <2>3 DEF TypeOK, Read
<1>5. CASE ReadAnswers(t)
  BY <1>5 DEF TypeOK, ReadAnswers, Calls, Idle
<1>6. CASE ReadRejected(t)
  BY <1>1, <1>6, DoneTyped DEF TypeOK, ReadRejected
<1>7. QED
  BY <1>2, <1>3, <1>4, <1>5, <1>6
LEMMA OperationTyped ==
  ASSUME TypeOK, \A u \in Tabs : CallFits(u), NEW t \in Tabs,
         \/ Prepare(t) \/ PrepareRefused(t) \/ Claim(t) \/ NotClaimed(t) \/ Post(t)
         \/ Confirm(t) \/ Confirmed(t) \/ Unconfirmed(t) \/ SubmitRejected(t)
  PROVE  TypeOK'
<1> USE DashboardAssumption DEF domainVars, browserVars, storeVars
<1>1. CASE Prepare(t)
  <2>1. call[t].sid \in Sessions
    BY <1>1 DEF Prepare, Verified, Live
  <2>2. /\ now + OperationLife \in Nat
        /\ session[call[t].sid].expires \in Nat /\ session[call[t].sid].idle \in Nat
    BY <2>1 DEF TypeOK, SessionRecords
  <2>3. operation' \in [Operations -> OperationRecords]
    BY <1>1, <2>1, <2>2 DEF TypeOK, Prepare, OperationRecords, OperationStates, Earlier
  <2>4. QED
    BY <1>1, <2>3, DoneTyped DEF TypeOK, Prepare
<1>2. CASE PrepareRefused(t) \/ NotClaimed(t)
  BY <1>2, DoneTyped DEF TypeOK, PrepareRefused, NotClaimed
<1>3. CASE Claim(t)
  <2>1. call[t].op \in Operations
    BY <1>3 DEF Claim, Verified, CallFits
  <2>2. operation[call[t].op] \in OperationRecords /\ operation[call[t].op].attempts + 1 \in Nat
    BY <2>1 DEF TypeOK, OperationRecords
  <2>3. operation' \in [Operations -> OperationRecords]
    BY <1>3, <2>1, <2>2 DEF TypeOK, Claim, OperationRecords, OperationStates
  <2>4. call' \in [Tabs -> Calls]
    <3>1. PICK n \in Nat : call' = [call EXCEPT ![t].pc = "claimed", ![t].attempt = n]
      BY <1>3, <2>2 DEF Claim
    <3>2. call[t] \in Calls
      BY DEF TypeOK
    <3>3. [[call[t] EXCEPT !.pc = "claimed"] EXCEPT !.attempt = n] \in Calls
      BY <3>2 DEF Calls
    <3>4. QED
      BY <3>1, <3>3 DEF TypeOK
  <2>5. QED
    BY <1>3, <2>3, <2>4 DEF TypeOK, Claim
<1>4. CASE Post(t)
  <2>1. RequestOf(t) \in [op : Operations, attempt : Nat, at : {"sent", "open", "written"}]
    BY <1>4 DEF TypeOK, Post, CallFits, Attempting, RequestOf, Calls
  <2>2. call' \in [Tabs -> Calls]
    BY <1>4 DEF TypeOK, Post, Calls
  <2>3. QED
    BY <1>4, <2>1, <2>2 DEF TypeOK, Post
<1>5. CASE Confirm(t)
  <2>1. call' \in [Tabs -> Calls]
    BY <1>5 DEF TypeOK, Confirm, Calls
  <2>2. QED
    BY <1>5, <2>1 DEF TypeOK, Confirm
<1>6. CASE Confirmed(t) \/ Unconfirmed(t)
  <2>1. operation' \in [Operations -> OperationRecords]
    BY <1>6, SettleTyped DEF Confirmed, Unconfirmed, OperationStates
  <2>2. QED
    BY <1>6, <2>1, DoneTyped DEF TypeOK, Confirmed, Unconfirmed
<1>7. CASE SubmitRejected(t)
  BY <1>7, RevokeTyped, DoneTyped DEF TypeOK, SubmitRejected
<1>8. QED
  BY <1>1, <1>2, <1>3, <1>4, <1>5, <1>6, <1>7

\* What the API does with a request.
Handle(r) == Begin(r) \/ Write(r) \/ Record(r) \/ RefuseRequest(r)
Answers == {"recorded", "refused", "unauthorized"}

\* A request goes on, or ends with an answer to its call; only a commit has an effect.
LEMMA HandleSteps ==
  ASSUME NEW r \in requests, Handle(r)
  PROVE  /\ call' = call \/ \E answer \in Answers : Deliver(r, answer)
         /\ \A q \in requests' : q \in requests \/ \E at \in {"open", "written"} : q = [r EXCEPT !.at = at]
         /\ UNCHANGED <<now, storeVars, browserVars>>
         /\ effects' = effects \/ effects' = [effects EXCEPT ![r.op] = @ + 1]
         /\ Record(r) \/ effects' = effects
<1>1. CASE \E answer \in Answers : End(r, answer)
  BY <1>1 DEF Handle, Begin, Write, Record, RefuseRequest, Replay, Advance, End
<1>2. CASE \E at \in {"open", "written"} : Advance(r, at)
  BY <1>2 DEF Handle, Begin, Write, Record, RefuseRequest, Replay, Advance
<1>3. QED
  BY <1>1, <1>2 DEF Handle, Begin, Write, Record, RefuseRequest, Replay, Answers

LEMMA HandleTyped ==
  ASSUME TypeOK, NEW r \in requests, Handle(r)
  PROVE  TypeOK'
<1>1. call' \in [Tabs -> Calls]
  BY HandleSteps, DeliverTyped DEF TypeOK, Answers
<1>2. r \in [op : Operations, attempt : Nat, at : {"sent", "open", "written"}]
  BY DEF TypeOK
<1>3. requests' \subseteq [op : Operations, attempt : Nat, at : {"sent", "open", "written"}]
  BY <1>2, HandleSteps DEF TypeOK
<1>4. effects' \in [Operations -> Nat]
  BY <1>2, HandleSteps DEF TypeOK
<1>5. UNCHANGED <<now, login, session, cookie, context, operation>>
  BY HandleSteps DEF storeVars, browserVars
<1>6. QED
  BY <1>1, <1>3, <1>4, <1>5 DEF TypeOK

LEMMA TypeStep ==
  ASSUME TypeOK, \A t \in Tabs : CallFits(t), [Next]_vars
  PROVE  TypeOK'
<1>1. CASE UNCHANGED vars
  BY <1>1 DEF TypeOK, vars, storeVars, browserVars, domainVars
<1>2. CASE Next
  BY <1>2, TimeTyped, SignInTyped, ReadingTyped, OperationTyped, HandleTyped DEF Next, Proceed, Handle
<1>3. QED
  BY <1>1, <1>2
-----------------------------------------------------------------------------
(* The invariant                                                           *)

\* What a step may make of an operation: once tried it stays tried and with its
\* session, and a new attempt begins with its call.
Advances(o) ==
  /\ operation'[o].state # "absent" => operation'[o].sid \in Sessions
  /\ WasTried(o) => WasTried(o)' /\ operation'[o].sid = operation[o].sid
  /\ operation'[o].state = "CONFIRMED" => effects'[o] > 0
  /\ operation'[o].state = "IN_FLIGHT" =>
       \/ operation[o].state = "IN_FLIGHT" /\ operation'[o].attempts = operation[o].attempts
       \/ \E t \in Tabs : /\ call'[t].pc \in Attempting
                         /\ call'[t].op = o /\ call'[t].attempt = operation'[o].attempts

\* What a step may make of a call: an attempt goes on, or leaves nothing under way.
Proceeds(t) ==
  /\ call'[t].pc = "verifying" => (call'[t].kind = "submit" <=> call'[t].op \in Operations)
  /\ call'[t].pc = "reading" => context'[t] = call'[t].sid
  /\ call[t].pc \in Attempting =>
       \/ /\ call'[t].pc \in Attempting
          /\ call'[t].op = call[t].op /\ call'[t].sid = call[t].sid /\ call'[t].attempt = call[t].attempt
       \/ /\ call'[t].pc \notin Attempting
          /\ ~ /\ operation'[call[t].op].state = "IN_FLIGHT"
               /\ operation'[call[t].op].attempts = call[t].attempt
  /\ call[t].pc \notin Attempting /\ call'[t].pc \in Attempting =>
       /\ call'[t].op \in Operations
       /\ WasTried(call[t].op)'
       /\ operation'[call'[t].op].sid = call'[t].sid

LEMMA StepFits ==
  ASSUME DashboardInv, TypeOK',
         \A o \in Operations : Advances(o), \A t \in Tabs : Proceeds(t),
         \A r \in requests' : r \in requests \/ WasTried(r.op),
         \A o \in Operations : effects'[o] > 0 => effects[o] > 0 \/ WasTried(o)
  PROVE  DashboardInv'
<1>1. ASSUME NEW t \in Tabs
      PROVE  CallFits(t)'
  <2>1. CallFits(t) /\ Proceeds(t)
    BY DEF DashboardInv
  <2>2. call[t].op \in Operations => Advances(call[t].op)
    OBVIOUS
  <2>3. QED
    BY <2>1, <2>2 DEF CallFits, Proceeds, Advances
<1>2. ASSUME NEW o \in Operations
      PROVE  OperationFits(o)'
  BY DEF OperationFits, Advances
<1>3. SentWasTried'
  <2>1. ASSUME NEW r \in requests'
        PROVE  WasTried(r.op)'
    <3>1. r.op \in Operations
      BY DEF TypeOK
    <3>2. WasTried(r.op)
      BY DEF DashboardInv, SentWasTried
    <3>3. QED
      BY <3>1, <3>2 DEF Advances
  <2>2. ASSUME NEW o \in Operations, effects'[o] > 0
        PROVE  WasTried(o)'
    BY <2>2 DEF DashboardInv, SentWasTried, Advances
  <2>3. QED
    BY <2>1, <2>2 DEF SentWasTried
<1>4. ASSUME NEW o \in Operations, operation'[o].state = "IN_FLIGHT"
      PROVE  \E t \in Tabs : /\ call'[t].pc \in Attempting
                            /\ call'[t].op = o /\ call'[t].attempt = operation'[o].attempts
  <2>1. CASE operation[o].state = "IN_FLIGHT" /\ operation'[o].attempts = operation[o].attempts
    <3>1. PICK t \in Tabs : /\ call[t].pc \in Attempting
                           /\ call[t].op = o /\ call[t].attempt = operation[o].attempts
      BY <2>1 DEF DashboardInv, AttemptsHaveACall, Attempting
    <3>2. Proceeds(t)
      OBVIOUS
    <3>3. QED
      BY <1>4, <2>1, <3>1, <3>2 DEF Proceeds
  <2>2. QED
    BY <1>4, <2>1 DEF Advances
<1>5. AttemptsHaveACall'
  BY <1>4 DEF AttemptsHaveACall, Attempting
<1>6. QED
  BY <1>1, <1>2, <1>3, <1>5 DEF DashboardInv

\* Dropping what sessions held, and passing a deadline, advance every operation.
LEMMA KeptAdvances ==
  ASSUME DashboardInv, effects' = effects, NEW gone, NEW o \in Operations,
         \/ operation'[o] = Kept(gone)[o]
         \/ operation'[o] = operation[o]
         \/ operation[o].state = "PREPARED" /\ operation'[o] = [operation[o] EXCEPT !.state = "EXPIRED"]
  PROVE  Advances(o)
<1>1. OperationFits(o)
  BY DEF DashboardInv
<1>2. operation[o] \in OperationRecords
  BY DEF DashboardInv, TypeOK
<1>3. \/ operation'[o] = operation[o]
      \/ /\ operation[o].sid \in Sessions
         /\ operation'[o] = [operation[o] EXCEPT !.state = "dropped"]
      \/ operation[o].state = "PREPARED" /\ operation'[o] = [operation[o] EXCEPT !.state = "EXPIRED"]
  BY DEF Kept
<1>4. QED
  BY <1>1, <1>2, <1>3 DEF OperationFits, Advances, OperationRecords, WasTried

\* A step that ends calls that attempted nothing, or none, and drops or expires
\* operations.
LEMMA QuietFits ==
  ASSUME DashboardInv, TypeOK', UNCHANGED domainVars, NEW gone,
         \A o \in Operations :
           \/ operation'[o] = Kept(gone)[o]
           \/ operation'[o] = operation[o]
           \/ operation[o].state = "PREPARED" /\ operation'[o] = [operation[o] EXCEPT !.state = "EXPIRED"],
         \A t \in Tabs : Proceeds(t)
  PROVE  DashboardInv'
<1>1. effects' = effects /\ requests' = requests
  BY DEF domainVars
<1>2. \A o \in Operations : Advances(o)
  BY <1>1, KeptAdvances
<1>3. QED
  BY <1>1, <1>2, StepFits

\* The calls of a step that leaves all of them alone but one, which attempted
\* nothing.
LEMMA OneCallProceeds ==
  ASSUME DashboardInv, NEW t \in Tabs, call[t].pc \notin Attempting,
         \A u \in Tabs \ {t} : call'[u] = call[u] /\ context'[u] = context[u],
         call'[t].pc \notin Attempting,
         call'[t].pc = "verifying" => (call'[t].kind = "submit" <=> call'[t].op \in Operations),
         call'[t].pc = "reading" => context'[t] = call'[t].sid
  PROVE  \A u \in Tabs : Proceeds(u)
<1> TAKE u \in Tabs
<1>1. CASE u = t
  BY <1>1 DEF Proceeds
<1>2. CASE u # t
  BY <1>2 DEF Proceeds, DashboardInv, CallFits
<1>3. QED
  BY <1>1, <1>2
LEMMA TimeFits ==
  ASSUME DashboardInv, TypeOK', Tick \/ Restart \/ BeginLogin
  PROVE  DashboardInv'
<1> USE DEF domainVars, browserVars, storeVars
<1>1. CASE Tick
  <2>1. PICK gone : operation' = [o \in Operations |->
          IF Expires(o, now') /\ operation[o].sid \notin gone
          THEN [operation[o] EXCEPT !.state = "EXPIRED"] ELSE Kept(gone)[o]]
    BY <1>1 DEF Tick, Expire
  <2>2. \A o \in Operations :
          \/ operation'[o] = Kept(gone)[o]
          \/ operation[o].state = "PREPARED" /\ operation'[o] = [operation[o] EXCEPT !.state = "EXPIRED"]
    BY <2>1 DEF Expires
  <2>3. \A t \in Tabs : Proceeds(t)
    BY <1>1 DEF Tick, Proceeds, DashboardInv, CallFits
  <2>4. QED
    BY <1>1, <2>2, <2>3, QuietFits DEF Tick
<1>2. CASE Restart
  <2>1. call' = [t \in Tabs |-> Idle] /\ requests' = {} /\ UNCHANGED effects
        /\ operation' = Kept(Sessions)
    BY <1>2 DEF Restart
  <2>2. \A o \in Operations : Advances(o)
    BY <2>1, KeptAdvances
  <2>3. ASSUME NEW t \in Tabs
        PROVE  Proceeds(t)
    <3>1. call'[t].pc = "idle"
      BY <2>1 DEF Idle
    <3>2. CASE call[t].pc \in Attempting
      <4>1. call[t].op \in Operations /\ WasTried(call[t].op)
        BY <3>2 DEF DashboardInv, CallFits
      <4>2. operation[call[t].op].sid \in Sessions
        BY <4>1 DEF DashboardInv, OperationFits, WasTried
      <4>3. operation'[call[t].op].state = "dropped"
        BY <2>1, <4>1, <4>2 DEF Kept, DashboardInv, TypeOK, OperationRecords
      <4>4. QED
        BY <3>1, <4>3 DEF Proceeds, Attempting
    <3>3. QED
      BY <3>1, <3>2 DEF Proceeds, Attempting
  <2>4. QED
    BY <2>1, <2>2, <2>3, StepFits
<1>3. CASE BeginLogin
  <2>1. \A t \in Tabs : Proceeds(t)
    BY <1>3 DEF BeginLogin, Proceeds, DashboardInv, CallFits
  <2>2. QED
    BY <1>3, <2>1, QuietFits DEF BeginLogin
<1>4. QED
  BY <1>1, <1>2, <1>3

LEMMA SignInFits ==
  ASSUME DashboardInv, TypeOK', NEW t \in Tabs, SignIn(t) \/ Request(t)
  PROVE  DashboardInv'
<1> USE DEF domainVars, browserVars, storeVars
<1>1. CASE OfferLogin(t)
  <2>1. \A u \in Tabs : Proceeds(u)
    BY <1>1 DEF OfferLogin, Proceeds, DashboardInv, CallFits
  <2>2. QED
    BY <1>1, <2>1, QuietFits DEF OfferLogin
<1>2. ASSUME NEW c \in Calls, call' = call \/ call' = [call EXCEPT ![t] = c], UNCHANGED <<context, domainVars>>,
             call[t].pc \notin Attempting \cup {"reading"}, c.pc \notin Attempting \cup {"reading"},
             c.pc = "verifying" => (c.kind = "submit" <=> c.op \in Operations),
             NEW gone, operation' = operation \/ operation' = Kept(gone)
      PROVE  DashboardInv'
  <2>1. \A u \in Tabs \ {t} : call'[u] = call[u] /\ context'[u] = context[u]
    BY <1>2 DEF DashboardInv, TypeOK
  <2>2. CallFits(t) /\ (call'[t] = call[t] \/ call'[t] = c)
    BY <1>2 DEF DashboardInv, TypeOK
  <2>3. \A u \in Tabs : Proceeds(u)
    BY <1>2, <2>1, <2>2, OneCallProceeds DEF CallFits
  <2>4. QED
    BY <1>2, <2>3, QuietFits
<1>3. CASE Callback(t)
  <2>1. [Idle EXCEPT !.pc = "exchanging", !.sid = cookie] \in Calls
    BY DEF Idle, Calls, DashboardInv, TypeOK
  <2>2. operation' = Kept({cookie})
    BY <1>3 DEF Callback, Revoke
  <2>3. QED
    BY <1>2, <1>3, <2>1, <2>2 DEF Callback, Idle, Attempting
<1>4. CASE CreateSession(t) \/ CallbackFails(t)
  <2>1. Idle \in Calls /\ Idle.pc = "idle"
    BY DEF Idle, Calls
  <2>2. QED
    BY <1>2, <1>4, <2>1 DEF CreateSession, CallbackFails, Attempting
<1>5. ASSUME NEW kind \in {"status", "logout", "read", "prepare", "submit"},
             NEW o \in Operations \cup {None}, Open(t, kind, o), kind = "submit" <=> o \in Operations
      PROVE  DashboardInv'
  <2> DEFINE c == [Idle EXCEPT !.pc = "verifying", !.kind = kind, !.sid = cookie, !.op = o]
  <2>1. c \in Calls /\ c.pc = "verifying" /\ c.kind = kind /\ c.op = o
    BY <1>5 DEF Idle, Calls, DashboardInv, TypeOK
  <2>2. /\ call' = [call EXCEPT ![t] = c] /\ UNCHANGED <<context, domainVars, operation>>
        /\ call[t].pc = "idle"
    BY <1>5 DEF Open
  <2> HIDE DEF c
  <2>3. QED
    BY <1>2, <1>5, <2>1, <2>2 DEF Attempting
<1>6. QED
  BY <1>1, <1>3, <1>4, <1>5, DashboardAssumption DEF SignIn, Request, DashboardAssumption
LEMMA ReadingFits ==
  ASSUME DashboardInv, TypeOK', NEW t \in Tabs,
         \/ Reject(t) \/ ContextChanged(t) \/ Bootstrap(t) \/ Logout(t)
         \/ Read(t) \/ ReadAnswers(t) \/ ReadRejected(t)
  PROVE  DashboardInv'
<1> USE DEF domainVars, browserVars, storeVars
<1>1. call[t].pc \notin Attempting
  BY DEF Reject, ContextChanged, Bootstrap, Logout, Read, ReadAnswers, ReadRejected, Verified, Attempting
<1>2. UNCHANGED domainVars
  BY DEF Reject, ContextChanged, Bootstrap, Logout, Read, ReadAnswers, ReadRejected
<1>3. \E gone : \A o \in Operations : operation'[o] = Kept(gone)[o] \/ operation'[o] = operation[o]
  BY DEF Reject, ContextChanged, Bootstrap, Logout, Read, ReadAnswers, ReadRejected, Revoke
<1>4. \A u \in Tabs \ {t} : call'[u] = call[u] /\ context'[u] = context[u]
  BY DEF Reject, ContextChanged, Bootstrap, Logout, Read, ReadAnswers, ReadRejected, Done,
         DashboardInv, TypeOK
<1>5. call'[t].pc \in {"idle", "reading"} /\ (call'[t].pc = "reading" => context'[t] = call'[t].sid)
  <2>1. call[t] \in Calls
    BY DEF DashboardInv, TypeOK
  <2>2. CASE Read(t)
    BY <2>1, <2>2 DEF Read, SameContext, Calls, DashboardInv, TypeOK
  <2>3. CASE ~Read(t)
    <3>1. \/ call' = [call EXCEPT ![t] = Idle]
          \/ call' = [call EXCEPT ![t] = [Idle EXCEPT !.sid = call[t].sid, !.answer = "data"]]
      BY <2>3 DEF Reject, ContextChanged, Bootstrap, Logout, ReadAnswers, ReadRejected, Done
    <3>2. call \in [Tabs -> Calls]
      BY DEF DashboardInv, TypeOK
    <3>3. call'[t] = Idle \/ call'[t] = [Idle EXCEPT !.sid = call[t].sid, !.answer = "data"]
      BY <3>1, <3>2
    <3>4. Idle.pc = "idle" /\ [Idle EXCEPT !.sid = call[t].sid, !.answer = "data"].pc = "idle"
      BY DEF Idle
    <3>5. QED
      BY <3>3, <3>4
  <2>4. QED
    BY <2>2, <2>3
<1>6. \A u \in Tabs : Proceeds(u)
  BY <1>1, <1>4, <1>5, OneCallProceeds DEF Attempting
<1>7. QED
  BY <1>2, <1>3, <1>6, QuietFits

\* The steps of a call of submit or prepare that has not claimed anything.
LEMMA PreparingFits ==
  ASSUME DashboardInv, TypeOK', NEW t \in Tabs,
         Prepare(t) \/ PrepareRefused(t) \/ NotClaimed(t)
  PROVE  DashboardInv'
<1> USE DEF domainVars, browserVars, storeVars
<1>1. /\ call[t].pc = "verifying" /\ UNCHANGED <<context, domainVars>> /\ Done(t)
  BY DEF Prepare, PrepareRefused, NotClaimed, Verified
<1>2. \A u \in Tabs : Proceeds(u)
  BY <1>1, OneCallProceeds DEF Done, Idle, Attempting, DashboardInv, TypeOK
<1>3. CASE Prepare(t)
  <2>1. PICK o \in Operations :
          /\ operation[o].state = "absent" /\ \A p \in Operations \ {o} : operation'[p] = operation[p]
          /\ operation'[o].state = "PREPARED" /\ operation'[o].sid = call[t].sid
    BY <1>3 DEF Prepare, DashboardInv, TypeOK
  <2>2. call[t].sid \in Sessions
    BY <1>3 DEF Prepare, Verified, Live
  <2>3. \A p \in Operations : Advances(p)
    BY <1>1, <2>1, <2>2 DEF Advances, DashboardInv, OperationFits, WasTried
  <2>4. QED
    BY <1>1, <1>2, <2>3, StepFits
<1>4. CASE PrepareRefused(t) \/ NotClaimed(t)
  BY <1>1, <1>2, <1>4, QuietFits DEF PrepareRefused, NotClaimed
<1>5. QED
  BY <1>3, <1>4

LEMMA ClaimFits ==
  ASSUME DashboardInv, TypeOK', NEW t \in Tabs, Claim(t)
  PROVE  DashboardInv'
<1> USE DEF domainVars, browserVars
<1> DEFINE o == call[t].op
<1>1. /\ call[t].pc = "verifying" /\ call[t].sid \in Sessions /\ operation[o].sid = call[t].sid
      /\ UNCHANGED <<context, domainVars>>
  BY DEF Claim, Verified, Live
<1>2. o \in Operations
  BY DEF Claim, Verified, DashboardInv, CallFits
<1>3. /\ operation'[o].state = "IN_FLIGHT" /\ operation'[o].sid = operation[o].sid
      /\ operation'[o].attempts = operation[o].attempts + 1 /\ operation'[o].attempts > 0
      /\ \A p \in Operations \ {o} : operation'[p] = operation[p]
  <2>1. operation[o] \in OperationRecords
    BY <1>2 DEF DashboardInv, TypeOK
  <2>2. operation' = [operation EXCEPT ![o].state = "IN_FLIGHT", ![o].attempts = @ + 1]
    BY DEF Claim
  <2>3. QED
    BY <1>2, <2>1, <2>2 DEF DashboardInv, TypeOK, OperationRecords
<1>4. /\ call'[t].pc = "claimed" /\ call'[t].op = o /\ call'[t].sid = call[t].sid
      /\ call'[t].attempt = operation[o].attempts + 1
      /\ \A u \in Tabs \ {t} : call'[u] = call[u]
  BY DEF Claim, DashboardInv, TypeOK, Calls
<1> HIDE DEF o
<1>5. \A p \in Operations : Advances(p)
  BY <1>1, <1>2, <1>3, <1>4 DEF Advances, DashboardInv, OperationFits, WasTried, Attempting
<1>6. ASSUME NEW u \in Tabs
      PROVE  Proceeds(u)
  <2>1. CASE u = t
    BY <1>1, <1>2, <1>3, <1>4, <2>1 DEF Proceeds, Attempting, WasTried
  <2>2. CASE u # t
    BY <1>1, <1>4, <2>2 DEF Proceeds, DashboardInv, CallFits
  <2>3. QED
    BY <2>1, <2>2
<1>7. QED
  BY <1>1, <1>5, <1>6, StepFits

\* The steps of an attempt that goes on.
LEMMA SendingFits ==
  ASSUME DashboardInv, TypeOK', NEW t \in Tabs, Post(t) \/ Confirm(t)
  PROVE  DashboardInv'
<1> USE DEF domainVars, browserVars, storeVars
<1>1. /\ call[t].pc \in Attempting /\ call'[t].pc \in Attempting \ {"reading", "verifying"}
      /\ call'[t].op = call[t].op /\ call'[t].sid = call[t].sid /\ call'[t].attempt = call[t].attempt
      /\ \A u \in Tabs \ {t} : call'[u] = call[u]
  BY DEF Post, Confirm, Attempting, DashboardInv, TypeOK, Calls
<1>2. UNCHANGED <<operation, context, effects>>
  BY DEF Post, Confirm
<1>3. \A u \in Tabs : Proceeds(u)
  BY <1>1, <1>2 DEF Proceeds, DashboardInv, CallFits, Attempting
<1>4. \A o \in Operations : Advances(o)
  BY <1>2 DEF Advances, DashboardInv, OperationFits, WasTried
<1>5. \A r \in requests' : r \in requests \/ WasTried(r.op)
  BY <1>1 DEF Post, Confirm, RequestOf, DashboardInv, CallFits
<1>6. QED
  BY <1>2, <1>3, <1>4, <1>5, StepFits

LEMMA SettlingFits ==
  ASSUME DashboardInv, TypeOK', NEW t \in Tabs, Confirmed(t) \/ Unconfirmed(t)
  PROVE  DashboardInv'
<1> USE DEF domainVars, browserVars
<1> DEFINE o == call[t].op
<1>1. /\ call[t].pc \in Attempting /\ Done(t) /\ UNCHANGED <<context, domainVars>>
  BY DEF Confirmed, Unconfirmed, Attempting
<1>2. call'[t].pc = "idle" /\ \A u \in Tabs \ {t} : call'[u] = call[u]
  BY <1>1 DEF Done, Idle, DashboardInv, TypeOK
<1>3. o \in Operations
  BY <1>1 DEF DashboardInv, CallFits
<1>4. /\ \A p \in Operations \ {o} : operation'[p] = operation[p]
      /\ operation'[o].sid = operation[o].sid /\ operation'[o].attempts = operation[o].attempts
      /\ \/ operation'[o].state = operation[o].state
         \/ operation[o].state = "IN_FLIGHT" /\ operation'[o].state \in {"CONFIRMED", "UNCONFIRMED"}
      /\ operation[o].state = "IN_FLIGHT" /\ operation[o].attempts = call[t].attempt => operation'[o].state # "IN_FLIGHT"
  <2>1. operation[o] \in OperationRecords
    BY <1>3 DEF DashboardInv, TypeOK
  <2>2. PICK state \in {"CONFIRMED", "UNCONFIRMED"} : Settle(t, state)
    BY DEF Confirmed, Unconfirmed
  <2>3. QED
    BY <1>3, <2>1, <2>2 DEF Settle, DashboardInv, TypeOK, OperationRecords
<1>5. operation'[o].state = "CONFIRMED" => operation[o].state = "CONFIRMED" \/ effects[o] > 0
  <2>1. CASE Confirmed(t)
    BY <2>1 DEF Confirmed, Recorded, Known, RequestOf
  <2>2. CASE Unconfirmed(t)
    BY <1>3, <2>2 DEF Unconfirmed, Settle, DashboardInv, TypeOK, OperationRecords
  <2>3. QED
    BY <2>1, <2>2
<1> HIDE DEF o
<1>6. \A p \in Operations : Advances(p)
  BY <1>1, <1>3, <1>4, <1>5 DEF Advances, DashboardInv, OperationFits, WasTried
<1>7. ASSUME NEW u \in Tabs
      PROVE  Proceeds(u)
  <2>1. CASE u = t
    BY <1>1, <1>2, <1>4, <2>1 DEF Proceeds, Attempting, o
  <2>2. CASE u # t
    BY <1>1, <1>2, <2>2 DEF Proceeds, DashboardInv, CallFits
  <2>3. QED
    BY <2>1, <2>2
<1>8. QED
  BY <1>1, <1>6, <1>7, StepFits
LEMMA RejectedFits ==
  ASSUME DashboardInv, TypeOK', NEW t \in Tabs, SubmitRejected(t)
  PROVE  DashboardInv'
<1> USE DEF domainVars, browserVars
<1> DEFINE o == call[t].op
<1>1. /\ call[t].pc \in Attempting /\ Done(t) /\ UNCHANGED <<context, domainVars>>
      /\ operation' = Kept({call[t].sid})
  BY DEF SubmitRejected, Revoke, Attempting
<1>2. call'[t].pc = "idle" /\ \A u \in Tabs \ {t} : call'[u] = call[u]
  BY <1>1 DEF Done, Idle, DashboardInv, TypeOK
<1>3. o \in Operations /\ operation[o].sid = call[t].sid /\ WasTried(o)
  BY <1>1 DEF DashboardInv, CallFits
<1>4. operation[o].sid \in Sessions
  BY <1>3 DEF DashboardInv, OperationFits, WasTried
<1>5. operation'[o].state = "dropped"
  BY <1>1, <1>3, <1>4 DEF Kept, DashboardInv, TypeOK, OperationRecords
<1> HIDE DEF o
<1>6. ASSUME NEW u \in Tabs
      PROVE  Proceeds(u)
  <2>1. CASE u = t
    BY <1>2, <1>5, <2>1 DEF Proceeds, Attempting, o
  <2>2. CASE u # t
    BY <1>1, <1>2, <2>2 DEF Proceeds, DashboardInv, CallFits
  <2>3. QED
    BY <2>1, <2>2
<1>7. QED
  BY <1>1, <1>6, QuietFits

\* What the API does with a request, and the answer to its call.
LEMMA HandleFits ==
  ASSUME DashboardInv, TypeOK', NEW r \in requests, Handle(r)
  PROVE  DashboardInv'
<1>1. UNCHANGED <<operation, context>>
  BY HandleSteps DEF browserVars, storeVars
<1>2. r.op \in Operations /\ WasTried(r.op)
  BY DEF DashboardInv, TypeOK, SentWasTried
<1>3. \A q \in requests' : q \in requests \/ WasTried(q.op)
  <2>1. \A at : [r EXCEPT !.at = at].op = r.op
    BY DEF DashboardInv, TypeOK
  <2>2. QED
    BY <1>2, <2>1, HandleSteps
<1>4. \A o \in Operations : /\ effects'[o] >= effects[o]
                            /\ effects'[o] > effects[o] => o = r.op
  BY HandleSteps DEF DashboardInv, TypeOK
<1>5. \A o \in Operations : effects[o] \in Nat /\ effects'[o] \in Nat
  BY DEF DashboardInv, TypeOK
<1>6. ASSUME NEW u \in Tabs
      PROVE  Proceeds(u)
  <2>1. \/ call'[u] = call[u]
        \/ /\ call[u].pc = "posted"
           /\ \E answer : call'[u] = [call[u] EXCEPT !.pc = "answered", !.answer = answer]
    <3>1. CASE call' = call
      BY <3>1
    <3>2. ASSUME NEW answer, Deliver(r, answer)
          PROVE  \/ call'[u] = call[u]
                 \/ /\ call[u].pc = "posted"
                    /\ call'[u] = [call[u] EXCEPT !.pc = "answered", !.answer = answer]
      BY <3>2 DEF Deliver
    <3>3. QED
      BY <3>1, <3>2, HandleSteps
  <2>2. CallFits(u) /\ call[u] \in Calls
    BY DEF DashboardInv, TypeOK
  <2>3. QED
    BY <1>1, <2>1, <2>2 DEF Proceeds, CallFits, Attempting, Calls
<1>7. \A o \in Operations : Advances(o)
  BY <1>1, <1>4, <1>5 DEF Advances, DashboardInv, OperationFits, WasTried
<1>8. \A o \in Operations : effects'[o] > 0 => effects[o] > 0 \/ WasTried(o)
  BY <1>2, <1>4, <1>5
<1>9. QED
  BY <1>3, <1>6, <1>7, <1>8, StepFits

LEMMA DashboardStep ==
  ASSUME DashboardInv, [Next]_vars
  PROVE  DashboardInv'
<1>1. TypeOK'
  BY TypeStep DEF DashboardInv
<1>2. CASE UNCHANGED vars
  <2>1. UNCHANGED <<operation, call, context, domainVars>>
    BY <1>2 DEF vars, storeVars, browserVars
  <2>2. \A o \in Operations : Advances(o)
    BY <2>1 DEF Advances, DashboardInv, OperationFits, WasTried, domainVars
  <2>3. \A t \in Tabs : Proceeds(t)
    BY <2>1 DEF Proceeds, DashboardInv, CallFits
  <2>4. QED
    BY <1>1, <2>1, <2>2, <2>3, StepFits DEF domainVars
<1>3. ASSUME NEW t \in Tabs, Proceed(t)
      PROVE  DashboardInv'
  BY <1>1, <1>3, ReadingFits, PreparingFits, ClaimFits, SendingFits, SettlingFits, RejectedFits DEF Proceed
<1>4. CASE Next
  BY <1>1, <1>3, <1>4, TimeFits, SignInFits, HandleFits DEF Next, Handle
<1>5. QED
  BY <1>2, <1>4

LEMMA DashboardInit == Init => DashboardInv
<1> SUFFICES ASSUME Init
             PROVE  DashboardInv
  OBVIOUS
<1>1. TypeOK
  BY InitTyped
<1>2. \A t \in Tabs : CallFits(t)
  BY DEF Init, CallFits, Idle, Attempting
<1>3. (\A o \in Operations : OperationFits(o)) /\ AttemptsHaveACall
  BY DEF Init, OperationFits, NoOperation, AttemptsHaveACall
<1>4. QED
  BY <1>1, <1>2, <1>3 DEF Init, DashboardInv, SentWasTried

\* Everything a run of the dashboard reaches has the invariant.
LEMMA DashboardAlways == Spec => []DashboardInv
BY DashboardInit, DashboardStep, PTL DEF Spec

-----------------------------------------------------------------------------
(* Theorems                                                                *)

\* Of the requests of an operation one at most holds the lock with its rows
\* written, and none that does is of an operation already recorded: this is what
\* the second look-up, behind the lock, has to keep.
WritersAreFirst ==
  /\ \A q \in requests, r \in requests :
       q.op = r.op /\ q.at = "written" /\ r.at = "written" => q = r
  /\ \A r \in requests : r.at = "written" => effects[r.op] = 0

EffectInv == DashboardInv /\ WritersAreFirst /\ OneEffectPerOperation

\* A step that writes nothing and records nothing disturbs neither.
LEMMA NothingWritten ==
  ASSUME EffectInv, DashboardInv', effects' = effects,
         \A q \in requests' : q \in requests \/ q.at # "written"
  PROVE  EffectInv'
BY DEF EffectInv, WritersAreFirst, OneEffectPerOperation

\* Outside the API only post adds a request, and it adds one that has not begun.
LEMMA OnlyPostSends ==
  ASSUME NEW t \in Tabs, SignIn(t) \/ Request(t) \/ Proceed(t)
  PROVE  effects' = effects /\ \A q \in requests' : q \in requests \/ q.at # "written"
<1> USE DEF domainVars
<1>1. CASE SignIn(t)
  BY <1>1 DEF SignIn, OfferLogin, Callback, CreateSession, CallbackFails
<1>2. CASE Request(t)
  BY <1>2 DEF Request, Open
<1>3. CASE Post(t)
  BY <1>3 DEF Post, RequestOf
<1>4. CASE Proceed(t) /\ ~Post(t)
  BY <1>4 DEF Proceed, Reject, ContextChanged, Bootstrap, Logout, Read, ReadAnswers, ReadRejected,
       Prepare, PrepareRefused, Claim, NotClaimed, Confirm, Confirmed, Unconfirmed, SubmitRejected
<1>5. QED
  BY <1>1, <1>2, <1>3, <1>4

\* Behind the lock, a request finds the effect another one committed, or it is
\* the only writer of an operation that has none.
LEMMA WriteKeeps ==
  ASSUME EffectInv, DashboardInv', NEW r \in requests, Write(r)
  PROVE  EffectInv'
<1>1. CASE Replay(r)
  BY <1>1, NothingWritten DEF Replay, End
<1>2. CASE ~Known(r) /\ Advance(r, "written") /\ UNCHANGED effects
  <2> DEFINE w == [r EXCEPT !.at = "written"]
  <2>1. r.op \in Operations /\ w.op = r.op /\ effects[r.op] \in Nat
    BY DEF EffectInv, DashboardInv, TypeOK
  <2>2. effects[r.op] = 0
    BY <1>2, <2>1 DEF Known
  <2>3. \A q \in requests : q.op = r.op => q.at # "written"
    BY DEF Write, Locked
  <2>4. requests' = (requests \ {r}) \cup {w}
    BY <1>2 DEF Advance
  <2> HIDE DEF w
  <2>5. WritersAreFirst'
    BY <1>2, <2>1, <2>2, <2>3, <2>4 DEF EffectInv, WritersAreFirst
  <2>6. QED
    BY <1>2, <2>5 DEF EffectInv, OneEffectPerOperation
<1>3. QED
  BY <1>1, <1>2 DEF Write

\* A commit records the first effect of its operation, and leaves no other writer.
LEMMA RecordKeeps ==
  ASSUME EffectInv, DashboardInv', NEW r \in requests, Record(r)
  PROVE  EffectInv'
<1>1. r.op \in Operations /\ r.at = "written" /\ effects \in [Operations -> Nat]
  BY DEF EffectInv, DashboardInv, TypeOK, Record
<1>2. requests' = requests \ {r} /\ effects' = [effects EXCEPT ![r.op] = @ + 1]
  BY DEF Record, End
<1>3. effects[r.op] = 0
  BY <1>1 DEF EffectInv, WritersAreFirst
<1>4. \A q \in requests' : q.at = "written" => q.op # r.op
  BY <1>1, <1>2 DEF EffectInv, WritersAreFirst
<1>5. WritersAreFirst'
  <2>1. \A q \in requests' : q.at = "written" => effects'[q.op] = 0
    BY <1>1, <1>2, <1>4 DEF EffectInv, WritersAreFirst, DashboardInv, TypeOK
  <2>2. QED
    BY <1>2, <2>1 DEF EffectInv, WritersAreFirst
<1>6. OneEffectPerOperation'
  BY <1>1, <1>2, <1>3 DEF EffectInv, OneEffectPerOperation
<1>7. QED
  BY <1>5, <1>6 DEF EffectInv

LEMMA EffectStep ==
  ASSUME EffectInv, [Next]_vars
  PROVE  EffectInv'
<1>1. DashboardInv'
  BY DashboardStep DEF EffectInv
<1>2. CASE Tick \/ Restart \/ BeginLogin \/ UNCHANGED vars
  BY <1>1, <1>2, NothingWritten DEF Tick, Restart, BeginLogin, vars, domainVars
<1>3. ASSUME NEW t \in Tabs, SignIn(t) \/ Request(t) \/ Proceed(t)
      PROVE  EffectInv'
  BY <1>1, <1>3, OnlyPostSends, NothingWritten
<1>4. ASSUME NEW r \in requests, Begin(r) \/ RefuseRequest(r)
      PROVE  EffectInv'
  <2>1. [r EXCEPT !.at = "open"].at = "open"
    BY DEF EffectInv, DashboardInv, TypeOK
  <2>2. effects' = effects /\ \A q \in requests' : q \in requests \/ q.at # "written"
    BY <1>4, <2>1 DEF Begin, RefuseRequest, Replay, End, Advance
  <2>3. QED
    BY <1>1, <2>2, NothingWritten
<1>5. QED
  BY <1>1, <1>2, <1>3, <1>4, WriteKeeps, RecordKeeps DEF Next

\* However often an operation is submitted, and however many of its requests
\* still run after a lost answer, a logout or a timeout, the domain records its
\* effect once: a request that waited for the lock looks its key up again before
\* it writes, and the lock is held until its rows are committed.
THEOREM OneEffect == Spec => []OneEffectPerOperation
<1>1. Init => EffectInv
  BY DashboardInit DEF Init, EffectInv, WritersAreFirst, OneEffectPerOperation
<1>2. EffectInv /\ [Next]_vars => EffectInv'
  BY EffectStep
<1>3. EffectInv => OneEffectPerOperation
  BY DEF EffectInv
<1>4. QED
  BY <1>1, <1>2, <1>3, PTL DEF Spec

\* An operation shown as PREPARED or EXPIRED was never sent, one shown as
\* CONFIRMED is in the history.
THEOREM ShownIsTrue == Spec => []ShownStateIsTrue
<1>1. DashboardInv => ShownStateIsTrue
  BY DEF DashboardInv, TypeOK, SentWasTried, WasTried, OperationFits, ShownStateIsTrue
<1>2. QED
  BY <1>1, DashboardAlways, PTL

\* Whatever ends the wait of submit, an operation is under way only while the
\* call of its newest attempt is.
THEOREM AttemptsAreCalls == Spec => []AttemptsHaveACall
<1>1. DashboardInv => AttemptsHaveACall
  BY DEF DashboardInv
<1>2. QED
  BY <1>1, DashboardAlways, PTL

\* Of all steps only that of read which follows the answer of the API gives data
\* to a tab.
LEMMA OnlyReadAnswers ==
  ASSUME DashboardInv, [Next]_vars, NEW t \in Tabs, call[t].answer # "data", call'[t].answer = "data"
  PROVE  ReadAnswers(t)
<1>1. call \in [Tabs -> Calls]
  BY DEF DashboardInv, TypeOK
<1>2. call' # call /\ ~ UNCHANGED vars
  BY DEF vars
<1>3. ASSUME NEW u \in Tabs, NEW c, c.answer = "none", call' = [call EXCEPT ![u] = c]
      PROVE  FALSE
  BY <1>1, <1>3
<1>4. Idle.answer = "none"
  BY DEF Idle
<1>5. ~Tick /\ ~Restart /\ ~BeginLogin
  BY <1>2, <1>4 DEF Tick, Restart, BeginLogin
<1>6. ASSUME NEW r, NEW answer \in {"recorded", "refused", "unauthorized"}, Deliver(r, answer)
      PROVE  FALSE
  <2>1. call'[t] = call[t] \/ call'[t] = [call[t] EXCEPT !.pc = "answered", !.answer = answer]
    BY <1>6 DEF Deliver
  <2>2. QED
    BY <1>1, <2>1 DEF Calls
<1>7. ASSUME NEW u \in Tabs, SignIn(u) \/ Request(u)
      PROVE  FALSE
  <2>1. CASE SignIn(u)
    <3>1. [Idle EXCEPT !.pc = "exchanging", !.sid = cookie].answer = "none"
      BY DEF Idle
    <3>2. QED
      BY <1>2, <1>3, <1>4, <2>1, <3>1 DEF SignIn, OfferLogin, Callback, CreateSession, CallbackFails
  <2>2. ASSUME NEW kind, NEW o, Open(u, kind, o)
        PROVE  FALSE
    <3>1. [Idle EXCEPT !.pc = "verifying", !.kind = kind, !.sid = cookie, !.op = o].answer = "none"
      BY DEF Idle
    <3>2. QED
      BY <1>3, <2>2, <3>1 DEF Open
  <2>3. QED
    BY <1>7, <2>1, <2>2 DEF Request
<1>8. ASSUME NEW u \in Tabs, Proceed(u), ~ReadAnswers(u)
      PROVE  FALSE
  <2>1. \/ Done(u) \/ \E pc : call' = [call EXCEPT ![u].pc = pc]
        \/ \E pc, n : call' = [call EXCEPT ![u].pc = pc, ![u].attempt = n]
    BY <1>8 DEF Proceed, Reject, ContextChanged, Bootstrap, Logout, Read, ReadRejected, Prepare,
         PrepareRefused, Claim, NotClaimed, Post, Confirm, Confirmed, Unconfirmed, SubmitRejected
  <2>2. call'[t].answer \in {"none", call[t].answer}
    <3>1. CASE Done(u)
      BY <1>1, <1>4, <3>1 DEF Done
    <3>2. ASSUME NEW pc, call' = [call EXCEPT ![u].pc = pc]
          PROVE  call'[t].answer = call[t].answer
      BY <1>1, <3>2 DEF Calls
    <3>3. ASSUME NEW pc, NEW n, call' = [call EXCEPT ![u].pc = pc, ![u].attempt = n]
          PROVE  call'[t].answer = call[t].answer
      BY <1>1, <3>3 DEF Calls
    <3>4. QED
      BY <2>1, <3>1, <3>2, <3>3
  <2>3. QED
    BY <2>2
<1>9. ASSUME NEW u \in Tabs, ReadAnswers(u)
      PROVE  u = t
  BY <1>1, <1>9 DEF ReadAnswers
<1>10. ASSUME NEW r \in requests, Handle(r)
       PROVE  FALSE
  BY <1>2, <1>6, <1>10, HandleSteps DEF Answers
<1>11. QED
  BY <1>2, <1>5, <1>7, <1>8, <1>9, <1>10 DEF Next, Handle

\* read answers with data only in the session it began with, which lives, and
\* only to a tab that was told of this session.
THEOREM DataInSession == Spec => DataOnlyInSession
<1> DEFINE Answered == \A t \in Tabs : call[t].answer # "data" /\ call'[t].answer = "data" =>
                         Live(call[t].sid) /\ context[t] = call[t].sid
<1>1. DashboardInv /\ [Next]_vars => Answered
  <2> SUFFICES ASSUME DashboardInv, [Next]_vars, NEW t \in Tabs,
                      call[t].answer # "data", call'[t].answer = "data"
               PROVE  Live(call[t].sid) /\ context[t] = call[t].sid
    OBVIOUS
  <2>1. ReadAnswers(t)
    BY OnlyReadAnswers
  <2>2. QED
    BY <2>1 DEF ReadAnswers, DashboardInv, CallFits
<1>2. QED
  BY <1>1, DashboardAlways, PTL DEF Spec, DataOnlyInSession
-----------------------------------------------------------------------------
(* Implementation of OperationPromise                                        *)

\* What is over is over: a session that ended, a deadline that passed, and with
\* them what keeps an operation from being attempted.
LifeFits(o) ==
  /\ operation[o].state = "absent" => operation[o].sid = None /\ operation[o].attempts = 0
  /\ operation[o].state = "EXPIRED" => operation[o].expires <= now
  /\ operation[o].sid \in Sessions => session[operation[o].sid].state # "unused"
  /\ operation[o].state = "dropped" => session[operation[o].sid].state = "ended"

LifeInv == DashboardInv /\ \A o \in Operations : LifeFits(o)

\* No session comes back.
SessionsGoOn ==
  \A s \in Sessions :
    /\ session[s].state # "unused" => session'[s].state # "unused"
    /\ session[s].state = "ended" => session'[s].state = "ended"

\* A step that drops operations with their sessions, or lets them expire.
Lapses(o) ==
  \/ operation'[o] = operation[o]
  \/ /\ operation[o].sid \in Sessions /\ session'[operation[o].sid].state # "live"
     /\ operation'[o] = [operation[o] EXCEPT !.state = "dropped"]
  \/ /\ operation[o].state = "PREPARED" /\ operation[o].expires <= now'
     /\ operation'[o] = [operation[o] EXCEPT !.state = "EXPIRED"]

LEMMA EndedGoOn ==
  ASSUME DashboardInv, NEW gone, \A s \in gone \cap Sessions : Live(s) \/ session'[s] = session[s],
         session' = Ended(gone) \/ session' = session
  PROVE  SessionsGoOn
BY DEF Ended, Live, SessionsGoOn, DashboardInv, TypeOK, SessionRecords

LEMMA RevokeGoesOn ==
  ASSUME DashboardInv, NEW s, Revoke(s)
  PROVE  SessionsGoOn /\ \A o \in Operations : Lapses(o)
<1>1. session \in [Sessions -> SessionRecords] /\ operation \in [Operations -> OperationRecords]
  BY DEF DashboardInv, TypeOK
<1>2. CASE Live(s)
  <2>1. session' = Ended({s})
    BY <1>2 DEF Revoke
  <2>2. SessionsGoOn
    BY <1>2, <2>1, EndedGoOn
  <2>3. s \in Sessions /\ session'[s].state = "ended"
    BY <1>1, <1>2, <2>1 DEF Live, Ended, SessionRecords
  <2>4. QED
    BY <2>2, <2>3 DEF Revoke, Kept, Lapses
<1>3. CASE ~Live(s)
  <2>1. session' = session
    BY <1>3 DEF Revoke
  <2>2. QED
    BY <1>3, <2>1 DEF Live, SessionsGoOn, Revoke, Kept, Lapses
<1>4. QED
  BY <1>2, <1>3

LEMMA TimeGoesOn ==
  ASSUME DashboardInv, Tick \/ Restart
  PROVE  SessionsGoOn /\ \A o \in Operations : Lapses(o)
<1>1. session \in [Sessions -> SessionRecords] /\ operation \in [Operations -> OperationRecords]
  BY DEF DashboardInv, TypeOK
<1>2. CASE Tick
  <2>1. PICK gone \in SUBSET Sessions :
          /\ \A s \in gone : Live(s)
          /\ session' = Ended(gone)
          /\ operation' = [o \in Operations |->
               IF Expires(o, now') /\ operation[o].sid \notin gone
               THEN [operation[o] EXCEPT !.state = "EXPIRED"] ELSE Kept(gone)[o]]
    <3> DEFINE gone == {s \in Sessions : Live(s) /\ Earlier(session[s].expires, session[s].idle) <= now'}
    <3>1. gone \in SUBSET Sessions /\ \A s \in gone : Live(s)
      OBVIOUS
    <3>2. /\ session' = Ended(gone)
          /\ operation' = [o \in Operations |->
               IF Expires(o, now') /\ operation[o].sid \notin gone
               THEN [operation[o] EXCEPT !.state = "EXPIRED"] ELSE Kept(gone)[o]]
      BY <1>2 DEF Tick, Expire
    <3> HIDE DEF gone
    <3>3. QED
      BY <3>1, <3>2
  <2>2. SessionsGoOn
    BY <2>1, EndedGoOn
  <2>3. \A s \in gone : session'[s].state = "ended"
    BY <1>1, <2>1 DEF Ended, SessionRecords
  <2>4. QED
    BY <2>1, <2>2, <2>3 DEF Kept, Lapses, Expires
<1>3. CASE Restart
  <2>1. session' = Ended({s \in Sessions : Live(s)}) /\ operation' = Kept(Sessions)
    BY <1>3 DEF Restart
  <2>2. SessionsGoOn
    BY <2>1, EndedGoOn
  <2>3. \A s \in Sessions : session'[s].state # "live"
    BY <1>1, <2>1 DEF Ended, Live, SessionRecords
  <2>4. QED
    BY <2>1, <2>2, <2>3 DEF Kept, Lapses
<1>4. QED
  BY <1>2, <1>3
\* What a call does to sessions and operations, but for the four steps that
\* move its own operation.
LEMMA CallGoesOn ==
  ASSUME DashboardInv, NEW t \in Tabs, SignIn(t) \/ Request(t) \/ Proceed(t)
  PROVE  /\ SessionsGoOn /\ now' = now /\ effects' = effects
         /\ \/ Prepare(t) \/ Claim(t) \/ Confirmed(t) \/ Unconfirmed(t)
            \/ \A o \in Operations : Lapses(o)
<1> USE DEF domainVars, browserVars, storeVars
<1>1. session \in [Sessions -> SessionRecords]
  BY DEF DashboardInv, TypeOK
<1>2. now' = now /\ effects' = effects
  BY DEF SignIn, Request, Proceed, OfferLogin, Callback, CreateSession, CallbackFails, Open, Reject, ContextChanged,
         Bootstrap, Logout, Read, ReadAnswers, ReadRejected, Prepare, PrepareRefused, Claim, NotClaimed, Post,
         Confirm, Confirmed, Unconfirmed, SubmitRejected
<1>3. ASSUME UNCHANGED operation
      PROVE  \A o \in Operations : Lapses(o)
  BY <1>3 DEF Lapses
<1>4. ASSUME UNCHANGED session
      PROVE  SessionsGoOn
  BY <1>4 DEF SessionsGoOn
<1>5. CASE SignIn(t)
  <2>1. CASE Callback(t)
    BY <1>2, <2>1, RevokeGoesOn DEF Callback
  <2>2. CASE CreateSession(t)
    <3>1. PICK s \in Sessions : /\ session[s].state = "unused" /\ session'[s].state = "live"
                               /\ \A u \in Sessions \ {s} : session'[u] = session[u]
      BY <1>1, <2>2 DEF CreateSession
    <3>2. SessionsGoOn
      BY <3>1 DEF SessionsGoOn
    <3>3. QED
      BY <1>2, <1>3, <2>2, <3>2 DEF CreateSession
  <2>3. CASE OfferLogin(t) \/ CallbackFails(t)
    BY <1>2, <1>3, <1>4, <2>3 DEF OfferLogin, CallbackFails
  <2>4. QED
    BY <1>5, <2>1, <2>2, <2>3 DEF SignIn
<1>6. CASE Request(t)
  BY <1>2, <1>3, <1>4, <1>6 DEF Request, Open
<1>7. CASE Reject(t) \/ Logout(t) \/ ReadRejected(t) \/ SubmitRejected(t)
  BY <1>2, <1>3, <1>4, <1>7, RevokeGoesOn DEF Reject, Logout, ReadRejected, SubmitRejected
<1>8. CASE Read(t)
  <2>1. call[t].sid \in Sessions
    BY <1>8 DEF Read, Verified, Live
  <2>2. \A s \in Sessions : session'[s].state = session[s].state
    BY <1>1, <1>8, <2>1 DEF Read, SessionRecords
  <2>3. QED
    BY <1>2, <1>3, <1>8, <2>2 DEF Read, SessionsGoOn
<1>9. CASE \/ ContextChanged(t) \/ Bootstrap(t) \/ ReadAnswers(t) \/ PrepareRefused(t)
           \/ NotClaimed(t) \/ Post(t) \/ Confirm(t)
  BY <1>2, <1>3, <1>4, <1>9 DEF ContextChanged, Bootstrap, ReadAnswers, PrepareRefused, NotClaimed, Post, Confirm
<1>10. CASE Prepare(t) \/ Claim(t) \/ Confirmed(t) \/ Unconfirmed(t)
  BY <1>2, <1>4, <1>10 DEF Prepare, Claim, Confirmed, Unconfirmed
<1>11. QED
  BY <1>5, <1>6, <1>7, <1>8, <1>9, <1>10 DEF Proceed

\* Every step lapses operations, moves that of one call, or records an effect.
LEMMA OperationSteps ==
  ASSUME DashboardInv, [Next]_vars
  PROVE  /\ SessionsGoOn /\ now <= now'
         /\ \/ effects' = effects /\ \A o \in Operations : Lapses(o)
            \/ \E t \in Tabs : (Prepare(t) \/ Claim(t) \/ Confirmed(t) \/ Unconfirmed(t)) /\ effects' = effects
            \/ \E r \in requests : Record(r)
<1> USE DEF domainVars, browserVars, storeVars
<1>1. now \in Nat
  BY DEF DashboardInv, TypeOK
<1>2. CASE Tick \/ Restart
  BY <1>1, <1>2, TimeGoesOn DEF Tick, Restart
<1>3. CASE BeginLogin \/ UNCHANGED vars
  BY <1>1, <1>3 DEF BeginLogin, vars, SessionsGoOn, Lapses
<1>4. ASSUME NEW r \in requests, Handle(r)
      PROVE  /\ SessionsGoOn /\ now <= now'
             /\ Record(r) \/ (effects' = effects /\ \A o \in Operations : Lapses(o))
  BY <1>1, <1>4, HandleSteps DEF SessionsGoOn, Lapses
<1>5. ASSUME NEW t \in Tabs, SignIn(t) \/ Request(t) \/ Proceed(t)
      PROVE  /\ SessionsGoOn /\ now <= now' /\ effects' = effects
             /\ \/ Prepare(t) \/ Claim(t) \/ Confirmed(t) \/ Unconfirmed(t)
                \/ \A o \in Operations : Lapses(o)
  BY <1>1, <1>5, CallGoesOn
<1>6. QED
  BY <1>2, <1>3, <1>4, <1>5 DEF Next, Handle

\* What the call of an operation does to it: prepare offers a new one, claim tries
\* one that may be tried, and settle ends an attempt.
LEMMA OwnOperationMoves ==
  ASSUME LifeInv, NEW t \in Tabs, Prepare(t) \/ Claim(t) \/ Confirmed(t) \/ Unconfirmed(t)
  PROVE  \E o \in Operations :
           /\ \A p \in Operations \ {o} : operation'[p] = operation[p]
           /\ \/ /\ operation[o].state = "absent" /\ operation'[o].state = "PREPARED"
                 /\ operation'[o].attempts = 0
                 /\ operation'[o].sid \in Sessions /\ session[operation'[o].sid].state = "live"
              \/ /\ operation'[o].sid = operation[o].sid /\ operation[o].sid \in Sessions
                 /\ operation'[o].expires = operation[o].expires
                 /\ \/ /\ operation[o].state \in {"PREPARED", "UNCONFIRMED"}
                       /\ operation'[o].state = "IN_FLIGHT"
                       /\ operation'[o].attempts = operation[o].attempts + 1
                    \/ /\ operation'[o].attempts = operation[o].attempts
                       /\ \/ operation'[o].state = operation[o].state
                          \/ operation[o].state = "IN_FLIGHT" /\ operation'[o].state = "UNCONFIRMED"
                          \/ /\ operation[o].state = "IN_FLIGHT" /\ operation'[o].state = "CONFIRMED"
                             /\ effects[o] > 0
<1>1. /\ operation \in [Operations -> OperationRecords] /\ now \in Nat
      /\ session \in [Sessions -> SessionRecords] /\ None \notin Sessions
  BY DashboardAssumption DEF LifeInv, DashboardInv, TypeOK
<1>2. CASE Prepare(t)
  <2>1. call[t].sid \in Sessions /\ session[call[t].sid].state = "live"
    BY <1>2 DEF Prepare, Verified, Live
  <2>2. PICK o \in Operations :
          /\ operation[o].state = "absent" /\ \A p \in Operations \ {o} : operation'[p] = operation[p]
          /\ operation'[o].state = "PREPARED" /\ operation'[o].sid = call[t].sid /\ operation'[o].attempts = 0
    BY <1>1, <1>2 DEF Prepare
  <2>3. QED
    BY <2>1, <2>2
<1> DEFINE o == call[t].op
<1>3. CASE Claim(t)
  <2>1. o \in Operations
    BY <1>3 DEF Claim, Verified, LifeInv, DashboardInv, CallFits
  <2>2. operation[o].sid = call[t].sid /\ operation[o].sid \in Sessions /\ session[operation[o].sid].state = "live"
    BY <1>3 DEF Claim, Verified, Live
  <2>3. operation[o].state \notin {"IN_FLIGHT", "CONFIRMED"} /\ operation[o].expires > now
    BY <1>3 DEF Claim, Claimable
  <2>4. LifeFits(o) /\ operation[o] \in OperationRecords
    BY <1>1, <2>1 DEF LifeInv
  <2>5. operation[o].state \in {"PREPARED", "UNCONFIRMED"}
    <3>1. operation[o].state \notin {"absent", "dropped"}
      BY <1>1, <2>2, <2>4 DEF LifeFits
    <3>2. operation[o].state # "EXPIRED"
      BY <1>1, <2>3, <2>4 DEF LifeFits, OperationRecords
    <3>3. QED
      BY <2>3, <2>4, <3>1, <3>2 DEF OperationRecords, OperationStates
  <2>6. /\ operation'[o].state = "IN_FLIGHT" /\ operation'[o].sid = operation[o].sid
        /\ operation'[o].expires = operation[o].expires
        /\ operation'[o].attempts = operation[o].attempts + 1
        /\ \A p \in Operations \ {o} : operation'[p] = operation[p]
    <3>1. operation' = [operation EXCEPT ![o].state = "IN_FLIGHT", ![o].attempts = @ + 1]
      BY <1>3 DEF Claim
    <3>2. QED
      BY <1>1, <2>1, <3>1 DEF OperationRecords
  <2> HIDE DEF o
  <2>7. QED
    BY <2>1, <2>2, <2>5, <2>6
<1>4. CASE Confirmed(t) \/ Unconfirmed(t)
  <2>1. o \in Operations /\ WasTried(o)
    BY <1>4 DEF Confirmed, Unconfirmed, Attempting, LifeInv, DashboardInv, CallFits
  <2>2. operation[o].sid \in Sessions /\ operation[o] \in OperationRecords
    BY <1>1, <2>1 DEF WasTried, LifeInv, DashboardInv, OperationFits
  <2>3. PICK state \in {"CONFIRMED", "UNCONFIRMED"} :
          Settle(t, state) /\ (state = "CONFIRMED" => effects[o] > 0)
    BY <1>4 DEF Confirmed, Unconfirmed, Recorded, Known, RequestOf
  <2>4. /\ \A p \in Operations \ {o} : operation'[p] = operation[p]
        /\ operation'[o].sid = operation[o].sid /\ operation'[o].attempts = operation[o].attempts
        /\ operation'[o].expires = operation[o].expires
        /\ \/ operation'[o].state = operation[o].state
           \/ operation[o].state = "IN_FLIGHT" /\ operation'[o].state = state
    BY <1>1, <2>1, <2>2, <2>3 DEF Settle, OperationRecords
  <2> HIDE DEF o
  <2>5. QED
    BY <2>1, <2>2, <2>3, <2>4
<1>5. QED
  BY <1>2, <1>3, <1>4

LEMMA LifeStep ==
  ASSUME LifeInv, [Next]_vars
  PROVE  LifeInv'
<1>1. DashboardInv /\ DashboardInv'
  BY DashboardStep DEF LifeInv
<1>2. SessionsGoOn /\ now \in Nat /\ now' \in Nat /\ now <= now'
  BY <1>1, OperationSteps DEF DashboardInv, TypeOK
<1>3. /\ operation \in [Operations -> OperationRecords] /\ operation' \in [Operations -> OperationRecords]
      /\ session' \in [Sessions -> SessionRecords] /\ None \notin Sessions
  BY <1>1, DashboardAssumption DEF DashboardInv, TypeOK
<1>4. ASSUME NEW o \in Operations, Lapses(o)
      PROVE  LifeFits(o)'
  <2>1. LifeFits(o) /\ operation[o] \in OperationRecords
    BY <1>3 DEF LifeInv
  <2>2. CASE operation'[o] = operation[o]
    <3>1. operation[o].state = "dropped" => operation[o].sid \in Sessions
      BY <1>1 DEF DashboardInv, OperationFits
    <3>2. operation[o].expires \in Nat
      BY <2>1 DEF OperationRecords
    <3>3. QED
      BY <1>2, <2>1, <2>2, <3>1, <3>2 DEF LifeFits, SessionsGoOn
  <2>3. CASE /\ operation[o].sid \in Sessions /\ session'[operation[o].sid].state # "live"
             /\ operation'[o] = [operation[o] EXCEPT !.state = "dropped"]
    <3>1. operation'[o].state = "dropped" /\ operation'[o].sid = operation[o].sid
      BY <2>1, <2>3 DEF OperationRecords
    <3>2. session'[operation[o].sid].state = "ended"
      BY <1>2, <1>3, <2>1, <2>3 DEF LifeFits, SessionsGoOn, SessionRecords
    <3>3. QED
      BY <3>1, <3>2 DEF LifeFits
  <2>4. CASE /\ operation[o].state = "PREPARED" /\ operation[o].expires <= now'
             /\ operation'[o] = [operation[o] EXCEPT !.state = "EXPIRED"]
    BY <1>2, <2>1, <2>4 DEF LifeFits, SessionsGoOn, OperationRecords
  <2>5. QED
    BY <1>4, <2>2, <2>3, <2>4 DEF Lapses
<1>5. ASSUME NEW t \in Tabs, Prepare(t) \/ Claim(t) \/ Confirmed(t) \/ Unconfirmed(t), NEW o \in Operations
      PROVE  LifeFits(o)'
  <2>1. PICK p \in Operations :
          /\ \A q \in Operations \ {p} : operation'[q] = operation[q]
          /\ \/ /\ operation'[p].state = "PREPARED" /\ operation'[p].sid \in Sessions
                /\ session[operation'[p].sid].state = "live"
             \/ /\ operation'[p].sid = operation[p].sid /\ operation[p].sid \in Sessions
                /\ operation'[p].expires = operation[p].expires
                /\ \/ operation'[p].state \in {"IN_FLIGHT", "UNCONFIRMED", "CONFIRMED"}
                   \/ operation'[p].state = operation[p].state /\ operation'[p].attempts = operation[p].attempts
    BY <1>5, OwnOperationMoves
  <2>2. session' = session /\ now' = now
    BY <1>5 DEF Prepare, Claim, Confirmed, Unconfirmed, storeVars, browserVars, domainVars
  <2>3. CASE o # p
    BY <1>4, <2>1, <2>3 DEF Lapses
  <2>4. CASE o = p
    BY <1>3, <2>1, <2>2, <2>4 DEF LifeFits, LifeInv
  <2>5. QED
    BY <2>3, <2>4
<1>6. ASSUME NEW r \in requests, Record(r), NEW o \in Operations
      PROVE  LifeFits(o)'
  BY <1>4, <1>6 DEF Record, storeVars, Lapses
<1>7. QED
  BY <1>1, <1>4, <1>5, <1>6, OperationSteps DEF LifeInv
Shown == [o \in Operations |-> operation[o].state]
Attempted == {o \in Operations : operation[o].attempts > 0}
RecordedOperations == {o \in Operations : effects[o] > 0}

\* The steps of the promise, in the terms of the dashboard.
LEMMA LapseIsPromised ==
  ASSUME LifeInv, \A o \in Operations : Lapses(o), effects' = effects
  PROVE  Promise!Lapse
<1> DEFINE expired == {o \in Operations : operation[o].state = "PREPARED" /\ operation'[o].state = "EXPIRED"}
<1> DEFINE gone == {o \in Operations : operation[o].state # "absent" /\ operation'[o].state = "dropped"}
<1>1. ASSUME NEW o \in Operations
      PROVE  /\ operation'[o].state = IF o \in gone THEN "dropped"
                                       ELSE IF o \in expired THEN "EXPIRED" ELSE operation[o].state
             /\ operation'[o].attempts = operation[o].attempts
  <2>1. LifeFits(o) /\ operation[o] \in OperationRecords /\ None \notin Sessions
    BY DashboardAssumption DEF LifeInv, DashboardInv, TypeOK
  <2>2. operation[o].sid \in Sessions => operation[o].state # "absent"
    BY <2>1 DEF LifeFits
  <2>3. CASE operation'[o] = operation[o]
    BY <2>3
  <2>4. CASE operation[o].sid \in Sessions /\ operation'[o] = [operation[o] EXCEPT !.state = "dropped"]
    BY <2>1, <2>2, <2>4 DEF OperationRecords
  <2>5. CASE operation[o].state = "PREPARED" /\ operation'[o] = [operation[o] EXCEPT !.state = "EXPIRED"]
    BY <2>1, <2>5 DEF OperationRecords
  <2>6. QED
    BY <2>3, <2>4, <2>5 DEF Lapses
<1>2. /\ expired \in SUBSET Operations /\ gone \in SUBSET Operations
      /\ \A o \in expired : Shown[o] = "PREPARED"
      /\ \A o \in gone : Shown[o] # "absent"
  BY DEF Shown
<1>3. Shown' = [o \in Operations |->
        IF o \in gone THEN "dropped" ELSE IF o \in expired THEN "EXPIRED" ELSE Shown[o]]
  BY <1>1 DEF Shown
<1>4. UNCHANGED <<Attempted, RecordedOperations>>
  BY <1>1 DEF Attempted, RecordedOperations
<1> HIDE DEF expired, gone
<1>5. QED
  BY <1>2, <1>3, <1>4 DEF Promise!Lapse, Shown, Attempted, RecordedOperations

LEMMA CallIsPromised ==
  ASSUME LifeInv, NEW t \in Tabs, Prepare(t) \/ Claim(t) \/ Confirmed(t) \/ Unconfirmed(t), effects' = effects
  PROVE  [Promise!Next]_(Promise!pvars)
<1>1. PICK o \in Operations :
        /\ \A p \in Operations \ {o} : operation'[p] = operation[p]
        /\ \/ /\ operation[o].state = "absent" /\ operation'[o].state = "PREPARED"
              /\ operation'[o].attempts = 0
           \/ /\ operation[o].state \in {"PREPARED", "UNCONFIRMED"}
              /\ operation'[o].state = "IN_FLIGHT"
              /\ operation'[o].attempts = operation[o].attempts + 1
           \/ /\ operation'[o].attempts = operation[o].attempts
              /\ \/ operation'[o].state = operation[o].state
                 \/ operation[o].state = "IN_FLIGHT" /\ operation'[o].state = "UNCONFIRMED"
                 \/ /\ operation[o].state = "IN_FLIGHT" /\ operation'[o].state = "CONFIRMED"
                    /\ effects[o] > 0
  BY OwnOperationMoves
<1>2. RecordedOperations' = RecordedOperations
  BY DEF RecordedOperations
<1>3. Shown' = [Shown EXCEPT ![o] = operation'[o].state]
  BY <1>1 DEF Shown
<1>4. Attempted' = IF operation'[o].attempts > 0 THEN Attempted \cup {o} ELSE Attempted \ {o}
  BY <1>1 DEF Attempted
<1>5. LifeFits(o) /\ operation[o].attempts \in Nat
  BY DEF LifeInv, DashboardInv, TypeOK, OperationRecords
<1>6. CASE operation[o].state = "absent" /\ operation'[o].state = "PREPARED" /\ operation'[o].attempts = 0
  <2>1. Attempted' = Attempted
    BY <1>4, <1>5, <1>6 DEF LifeFits, Attempted
  <2>2. Promise!Prepare(o)
    BY <1>2, <1>3, <1>6, <2>1 DEF Promise!Prepare, Promise!Move, Shown, Attempted, RecordedOperations
  <2>3. QED
    BY <2>2 DEF Promise!Next
<1>7. CASE /\ operation[o].state \in {"PREPARED", "UNCONFIRMED"}
           /\ operation'[o].state = "IN_FLIGHT"
           /\ operation'[o].attempts = operation[o].attempts + 1
  <2>1. Attempted' = Attempted \cup {o}
    BY <1>4, <1>5, <1>7
  <2>2. Promise!Attempt(o)
    BY <1>2, <1>3, <1>7, <2>1 DEF Promise!Attempt, Promise!Move, Shown, Attempted, RecordedOperations
  <2>3. QED
    BY <2>2 DEF Promise!Next
<1>8. ASSUME operation'[o].attempts = operation[o].attempts
      PROVE  Attempted' = Attempted
  BY <1>4, <1>8 DEF Attempted
<1>9. CASE operation'[o].attempts = operation[o].attempts /\ operation'[o].state = operation[o].state
  BY <1>2, <1>3, <1>8, <1>9 DEF Promise!pvars, Shown, Attempted, RecordedOperations
<1>10. CASE /\ operation'[o].attempts = operation[o].attempts
            /\ operation[o].state = "IN_FLIGHT" /\ operation'[o].state = "UNCONFIRMED"
  <2>1. Promise!GiveUp(o)
    BY <1>2, <1>3, <1>8, <1>10 DEF Promise!GiveUp, Promise!Move, Shown, Attempted, RecordedOperations
  <2>2. QED
    BY <2>1 DEF Promise!Next
<1>11. CASE /\ operation'[o].attempts = operation[o].attempts
            /\ operation[o].state = "IN_FLIGHT" /\ operation'[o].state = "CONFIRMED"
            /\ effects[o] > 0
  <2>1. o \in RecordedOperations
    BY <1>11 DEF RecordedOperations
  <2>2. Promise!Confirm(o)
    BY <1>2, <1>3, <1>8, <1>11, <2>1 DEF Promise!Confirm, Promise!Move, Shown, Attempted, RecordedOperations
  <2>3. QED
    BY <2>2 DEF Promise!Next
<1>12. QED
  BY <1>1, <1>6, <1>7, <1>9, <1>10, <1>11

LEMMA RecordIsPromised ==
  ASSUME LifeInv, NEW r \in requests, Record(r)
  PROVE  Promise!TakeEffect(r.op) /\ r.op \in Operations
<1>1. r.op \in Operations /\ WasTried(r.op)
  BY DEF LifeInv, DashboardInv, TypeOK, SentWasTried
<1>2. r.op \in Attempted
  BY <1>1 DEF WasTried, Attempted
<1>3. UNCHANGED operation /\ effects' = [effects EXCEPT ![r.op] = @ + 1] /\ effects \in [Operations -> Nat]
  BY DEF Record, storeVars, LifeInv, DashboardInv, TypeOK
<1>4. RecordedOperations' = RecordedOperations \cup {r.op}
  BY <1>1, <1>3 DEF RecordedOperations
<1>5. UNCHANGED <<Shown, Attempted>>
  BY <1>3 DEF Shown, Attempted
<1>6. QED
  BY <1>1, <1>2, <1>4, <1>5 DEF Promise!TakeEffect, Shown, Attempted, RecordedOperations

\* The dashboard keeps the promise of OperationPromise: an operation is attempted one
\* at a time and only while it is prepared or unconfirmed, so that what expired or was
\* dropped with its session is never sent again, and it is confirmed only after it
\* took effect.
THEOREM ImplementsPromise == Spec => OperationPromiseSpec
<1>1. Init => LifeInv /\ Promise!Init
  <2> SUFFICES ASSUME Init
               PROVE  LifeInv /\ Promise!Init
    OBVIOUS
  <2>1. \A o \in Operations : operation[o] = NoOperation
    BY DEF Init
  <2>2. LifeInv
    BY <2>1, DashboardInit, DashboardAssumption DEF LifeInv, LifeFits, NoOperation
  <2>3. Shown = [o \in Operations |-> "absent"] /\ Attempted = {} /\ RecordedOperations = {}
    BY <2>1 DEF Init, Shown, Attempted, RecordedOperations, NoOperation
  <2>4. QED
    BY <2>2, <2>3 DEF Promise!Init, Shown, Attempted, RecordedOperations
<1>2. LifeInv /\ [Next]_vars => LifeInv' /\ [Promise!Next]_(Promise!pvars)
  <2> SUFFICES ASSUME LifeInv, [Next]_vars
               PROVE  LifeInv' /\ [Promise!Next]_(Promise!pvars)
    OBVIOUS
  <2>1. LifeInv'
    BY LifeStep
  <2>2. CASE effects' = effects /\ \A o \in Operations : Lapses(o)
    <3>1. Promise!Lapse
      BY <2>2, LapseIsPromised
    <3>2. Promise!Next
      BY <3>1 DEF Promise!Next
    <3>3. QED
      BY <2>1, <3>2
  <2>3. CASE \E t \in Tabs : (Prepare(t) \/ Claim(t) \/ Confirmed(t) \/ Unconfirmed(t)) /\ effects' = effects
    <3>1. [Promise!Next]_(Promise!pvars)
      BY <2>3, CallIsPromised
    <3>2. QED
      BY <2>1, <3>1
  <2>4. CASE \E r \in requests : Record(r)
    <3>1. PICK r \in requests : Promise!TakeEffect(r.op) /\ r.op \in Operations
      BY <2>4, RecordIsPromised
    <3>2. Promise!Next
      BY <3>1 DEF Promise!Next
    <3>3. QED
      BY <2>1, <3>2
  <2>5. QED
    BY <2>1, <2>2, <2>3, <2>4, OperationSteps DEF LifeInv
<1>3. QED
  BY <1>1, <1>2, PTL DEF Spec, OperationPromiseSpec, Promise!Spec
===============================================================================
