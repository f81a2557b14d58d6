------------------------------ MODULE Dashboard ------------------------------
(***************************************************************************)
(* The dashboard boundary: SessionStore and the coroutines of its routes.    *)
(* One browser, whose cookies its tabs share, signs in, reads, and prepares   *)
(* and submits operations; a submission crosses the bearer API with the       *)
(* operation as idempotency key, and may be abandoned while it still runs.    *)
(*                                                                         *)
(* A step is what a coroutine does between two awaits, or what an API request *)
(* does before it waits for a lock, while it holds it, and when it commits.   *)
(* SessionStore expires what it holds before every access, so here it expires *)
(* as time passes.                                                           *)
(***************************************************************************)
EXTENDS Integers, FiniteSets

CONSTANTS
  Tabs,             \* each with one request under way at most
  Sessions,         \* identifiers that create draws
  Operations,       \* identifiers that prepare draws
  LoginLife, SessionLife, IdleLife, OperationLife,   \* 300, 3600, 900 and 300 s
  MaxPerSession,    \* 16 operations
  None,
  Horizon,          \* bound of the clock
  MaxAttempts       \* bound: submissions of one operation

ASSUME DashboardAssumption ==
  /\ None \notin Sessions /\ None \notin Operations
  /\ LoginLife \in Nat \ {0} /\ SessionLife \in Nat \ {0} /\ IdleLife \in Nat \ {0}
  /\ OperationLife \in Nat \ {0} /\ MaxPerSession \in Nat \ {0}
  /\ Horizon \in Nat /\ MaxAttempts \in Nat

VARIABLES
  now,
  login,        \* the login of the browser: none, offered or begun
  session,
  cookie,       \* the session cookie of the browser
  context,      \* the session each tab was told of
  operation,
  call,         \* the request of each tab
  requests,     \* submissions the API has under way: sent, open or written
  effects       \* how often it recorded the effect of each operation

storeVars == <<login, session, operation>>
browserVars == <<cookie, context>>
domainVars == <<requests, effects>>
vars == <<now, storeVars, browserVars, call, domainVars>>

NoLogin == [begun |-> FALSE, expires |-> 0]
NoSession == [state |-> "unused", expires |-> 0, idle |-> 0]
NoOperation == [state |-> "absent", sid |-> None, expires |-> 0, attempts |-> 0]
Idle == [pc |-> "idle", kind |-> "none", sid |-> None, op |-> None, attempt |-> 0, answer |-> "none"]

Init ==
  /\ now = 0
  /\ login = NoLogin
  /\ session = [s \in Sessions |-> NoSession]
  /\ cookie = None
  /\ context = [t \in Tabs |-> None]
  /\ operation = [o \in Operations |-> NoOperation]
  /\ call = [t \in Tabs |-> Idle]
  /\ requests = {}
  /\ effects = [o \in Operations |-> 0]

Earlier(a, b) == IF a < b THEN a ELSE b

-----------------------------------------------------------------------------
(* SessionStore                                                            *)

Live(s) == s \in Sessions /\ session[s].state = "live"

\* Of a session that ended nothing is kept.
Ended(gone) ==
  [s \in Sessions |-> IF s \in gone THEN [state |-> "ended", expires |-> 0, idle |-> 0] ELSE session[s]]

\* Sessions that ended take their operations with them.
Kept(gone) ==
  [o \in Operations |->
     IF operation[o].sid \in gone \cap Sessions THEN [operation[o] EXCEPT !.state = "dropped"] ELSE operation[o]]

\* revoke
Revoke(s) ==
  /\ session' = IF Live(s) THEN Ended({s}) ELSE session
  /\ operation' = Kept({s})

Expires(o, t) == operation[o].state = "PREPARED" /\ operation[o].expires <= t

\* _expire at time t.
Expire(t) ==
  LET gone == {s \in Sessions : Live(s) /\ Earlier(session[s].expires, session[s].idle) <= t}
  IN  /\ login' = IF login.expires > t THEN login ELSE NoLogin
      /\ session' = Ended(gone)
      /\ operation' = [o \in Operations |->
           IF Expires(o, t) /\ operation[o].sid \notin gone
           THEN [operation[o] EXCEPT !.state = "EXPIRED"] ELSE Kept(gone)[o]]

Tick ==
  /\ now < Horizon
  /\ now' = now + 1
  /\ Expire(now')
  /\ UNCHANGED <<browserVars, call, domainVars>>

\* A restart ends all sessions; what the domain recorded stays.
Restart ==
  /\ \E s \in Sessions : Live(s)
  /\ login' = NoLogin
  /\ session' = Ended({s \in Sessions : Live(s)})
  /\ operation' = Kept(Sessions)
  /\ call' = [t \in Tabs |-> Idle]
  /\ requests' = {}
  /\ UNCHANGED <<now, browserVars, effects>>

-----------------------------------------------------------------------------
(* Signing in and out                                                      *)

\* Every route but the callback first authenticates the session of the cookie.
Open(t, kind, o) ==
  /\ call[t].pc = "idle" /\ Live(cookie)
  /\ call' = [call EXCEPT ![t] = [Idle EXCEPT !.pc = "verifying", !.kind = kind, !.sid = cookie, !.op = o]]
  /\ UNCHANGED <<now, storeVars, browserVars, domainVars>>

\* Without a live session, session_status offers a login.
OfferLogin(t) ==
  /\ call[t].pc = "idle" /\ ~Live(cookie)
  /\ login' = IF login.expires > now THEN login ELSE [begun |-> FALSE, expires |-> now + LoginLife]
  /\ cookie' = None
  /\ UNCHANGED <<now, session, operation, context, call, domainVars>>

\* begin, and authorize: the provider may be unavailable, which discards the login.
BeginLogin ==
  /\ login.expires > now /\ ~login.begun
  /\ login' \in {[login EXCEPT !.begun = TRUE], NoLogin}
  /\ UNCHANGED <<now, session, operation, browserVars, call, domainVars>>

\* The callback consumes the login and ends the session of the cookie, also
\* when no login was begun.
Callback(t) ==
  /\ call[t].pc = "idle"
  /\ login' = NoLogin
  /\ Revoke(cookie)
  /\ IF login.begun
     THEN /\ call' = [call EXCEPT ![t] = [Idle EXCEPT !.pc = "exchanging", !.sid = cookie]]
          /\ UNCHANGED cookie
     ELSE cookie' = None /\ UNCHANGED call
  /\ UNCHANGED <<now, context, domainVars>>

\* exchange answers: a session, which replaces that of the cookie.
CreateSession(t) ==
  /\ call[t].pc = "exchanging"
  /\ \E s \in Sessions, token \in 1..SessionLife :
       /\ session[s].state = "unused"
       /\ session' = [session EXCEPT ![s] =
            [state |-> "live", expires |-> now + token, idle |-> now + IdleLife]]
       /\ cookie' = s
  /\ call' = [call EXCEPT ![t] = Idle]
  /\ UNCHANGED <<now, login, context, operation, domainVars>>

CallbackFails(t) ==
  /\ call[t].pc = "exchanging"
  /\ cookie' = None
  /\ call' = [call EXCEPT ![t] = Idle]
  /\ UNCHANGED <<now, storeVars, context, domainVars>>

-----------------------------------------------------------------------------
(* verified_session, and what each route does with it                      *)

\* A call that ends without an answer of its own.
Done(t) == call' = [call EXCEPT ![t] = Idle]

\* authenticate rejects the token, or the session ended meanwhile.
Reject(t) ==
  /\ call[t].pc = "verifying"
  /\ Revoke(call[t].sid)
  /\ Done(t)
  /\ UNCHANGED <<now, login, browserVars, domainVars>>

\* Mutant of SameContext: a tab may use the session of the cookie.
AnyContext(t) == TRUE

SameContext(t) == context[t] = call[t].sid

\* The session is the one this call began with, and the tab's.
Verified(t, kind) ==
  call[t].pc = "verifying" /\ call[t].kind = kind /\ Live(call[t].sid)

ContextChanged(t) ==
  /\ \E kind \in {"read", "prepare", "submit"} : Verified(t, kind)
  /\ ~SameContext(t)
  /\ Done(t)
  /\ UNCHANGED <<now, storeVars, browserVars, domainVars>>

\* session_status tells the tab of its session.
Bootstrap(t) ==
  /\ Verified(t, "status")
  /\ context' = [context EXCEPT ![t] = call[t].sid]
  /\ Done(t)
  /\ UNCHANGED <<now, storeVars, cookie, domainVars>>

Logout(t) ==
  /\ Verified(t, "logout")
  /\ Revoke(call[t].sid)
  /\ login' = NoLogin /\ cookie' = None
  /\ Done(t)
  /\ UNCHANGED <<now, context, domainVars>>

\* read: the session is used, and the request goes to the API.
Read(t) ==
  /\ Verified(t, "read") /\ SameContext(t)
  /\ session' = [session EXCEPT ![call[t].sid].idle = now + IdleLife]
  /\ call' = [call EXCEPT ![t].pc = "reading"]
  /\ UNCHANGED <<now, login, operation, browserVars, domainVars>>

\* read: the API answered, and the session still lives.
ReadAnswers(t) ==
  /\ call[t].pc = "reading" /\ Live(call[t].sid)
  /\ call' = [call EXCEPT ![t] = [Idle EXCEPT !.sid = call[t].sid, !.answer = "data"]]
  /\ UNCHANGED <<now, storeVars, browserVars, domainVars>>

\* read: the API rejects the token, the session ended meanwhile, or the request
\* fails.
ReadRejected(t) ==
  /\ call[t].pc = "reading"
  /\ Revoke(call[t].sid) \/ UNCHANGED <<session, operation>>
  /\ Done(t)
  /\ UNCHANGED <<now, login, browserVars, domainVars>>

-----------------------------------------------------------------------------
(* Operations                                                              *)

Held(s) == {o \in Operations : operation[o].sid = s /\ operation[o].state # "dropped"}

Prepare(t) ==
  /\ Verified(t, "prepare") /\ SameContext(t)
  /\ Cardinality(Held(call[t].sid)) < MaxPerSession
  /\ \E o \in Operations :
       /\ operation[o].state = "absent"
       /\ operation' = [operation EXCEPT ![o] =
            [state |-> "PREPARED", sid |-> call[t].sid, attempts |-> 0,
             expires |-> Earlier(now + OperationLife,
                                 Earlier(session[call[t].sid].expires, session[call[t].sid].idle))]]
  /\ Done(t)
  /\ UNCHANGED <<now, login, session, browserVars, domainVars>>

PrepareRefused(t) ==
  /\ Verified(t, "prepare") /\ SameContext(t)
  /\ Cardinality(Held(call[t].sid)) >= MaxPerSession
  /\ Done(t)
  /\ UNCHANGED <<now, storeVars, browserVars, domainVars>>

\* Mutant of Claimable: the time of the operation does not matter.
ClaimableLate(o) == operation[o].state \notin {"IN_FLIGHT", "CONFIRMED"}

\* claim: one attempt at a time, none after a confirmation or too late.
Claimable(o) ==
  operation[o].state \notin {"IN_FLIGHT", "CONFIRMED"} /\ operation[o].expires > now

Claim(t) ==
  /\ Verified(t, "submit") /\ SameContext(t)
  /\ LET o == call[t].op
     IN  /\ operation[o].sid = call[t].sid /\ Claimable(o)
         /\ operation[o].attempts < MaxAttempts
         /\ operation' = [operation EXCEPT ![o].state = "IN_FLIGHT", ![o].attempts = @ + 1]
         /\ call' = [call EXCEPT ![t].pc = "claimed", ![t].attempt = operation[o].attempts + 1]
  /\ UNCHANGED <<now, login, session, browserVars, domainVars>>

\* submit answers with the state, or refuses.
NotClaimed(t) ==
  /\ Verified(t, "submit") /\ SameContext(t)
  /\ ~(operation[call[t].op].sid = call[t].sid /\ Claimable(call[t].op))
  /\ Done(t)
  /\ UNCHANGED <<now, storeVars, browserVars, domainVars>>

\* The request of a call.
RequestOf(t) == [op |-> call[t].op, attempt |-> call[t].attempt, at |-> "sent"]

\* client.post
Post(t) ==
  /\ call[t].pc = "claimed"
  /\ requests' = requests \cup {RequestOf(t)}
  /\ call' = [call EXCEPT ![t].pc = "posted"]
  /\ UNCHANGED <<now, storeVars, browserVars, effects>>

\* The answer reaches the call that waits for it, if one still does.
Deliver(r, answer) ==
  call' = [t \in Tabs |->
    IF call[t].pc = "posted" /\ call[t].op = r.op /\ call[t].attempt = r.attempt
    THEN [call[t] EXCEPT !.pc = "answered", !.answer = answer] ELSE call[t]]

-----------------------------------------------------------------------------
(* The remediation API behind client.post, in the same process.  An endpoint *)
(* runs in a thread of its own, which outlives the call that waits for it.   *)

End(r, answer) == requests' = requests \ {r} /\ Deliver(r, answer)

Advance(r, at) ==
  /\ requests' = (requests \ {r}) \cup {[r EXCEPT !.at = at]}
  /\ UNCHANGED call

\* Something is recorded under the key of the request, which is its operation.
Known(r) == effects[r.op] > 0

\* _replay
Replay(r) == Known(r) /\ End(r, "recorded") /\ UNCHANGED effects

\* A transaction begins.  _mutate looks the key up at once, and again when it holds
\* its row; admit and request_verification look it up when they hold their guard.
Begin(r) ==
  /\ r.at = "sent"
  /\ Replay(r) \/ (Advance(r, "open") /\ UNCHANGED effects)
  /\ UNCHANGED <<now, storeVars, browserVars>>

\* Another request of the operation holds the row, or the guard, of this one.
Locked(r) == \E q \in requests : q.op = r.op /\ q.at = "written"

\* Mutant of Write: behind the lock neither the look-up nor a unique key stands.
WriteWithoutReplay(r) ==
  /\ r.at = "open" /\ ~Locked(r)
  /\ Advance(r, "written")
  /\ UNCHANGED <<now, storeVars, browserVars, effects>>

\* With the lock held, what was recorded while it waited is replayed, found by the
\* look-up (the unique key of the ledger would still refuse the rows); otherwise the
\* request passes its checks and inserts its rows, which nobody sees yet.
Write(r) ==
  /\ r.at = "open" /\ ~Locked(r)
  /\ Replay(r) \/ (~Known(r) /\ Advance(r, "written") /\ UNCHANGED effects)
  /\ UNCHANGED <<now, storeVars, browserVars>>

\* The transaction commits, also when the acknowledgment of the commit is lost or
\* what follows it fails.
Record(r) ==
  /\ r.at = "written"
  /\ effects' = [effects EXCEPT ![r.op] = @ + 1]
  /\ \E answer \in {"recorded", "refused"} : End(r, answer)
  /\ UNCHANGED <<now, storeVars, browserVars>>

\* The token is rejected before the endpoint runs, or a check or the database
\* fails, which rolls back what was written.
RefuseRequest(r) ==
  /\ \/ End(r, "refused")
     \/ r.at = "sent" /\ End(r, "unauthorized")
  /\ UNCHANGED <<now, storeVars, browserVars, effects>>

-----------------------------------------------------------------------------
(* The end of a submission                                                 *)

\* Mutant of Settle: only an answer settles.
SettleUnlessNone(t, state) ==
  LET o == call[t].op
  IN  operation' = IF /\ call[t].pc # "posted"
                      /\ operation[o].state = "IN_FLIGHT" /\ operation[o].attempts = call[t].attempt
                   THEN [operation EXCEPT ![o].state = state] ELSE operation

\* settle
Settle(t, state) ==
  LET o == call[t].op
  IN  operation' = IF operation[o].state = "IN_FLIGHT" /\ operation[o].attempts = call[t].attempt
                   THEN [operation EXCEPT ![o].state = state] ELSE operation

\* A recorded answer is confirmed against the READ history.
Confirm(t) ==
  /\ call[t].pc = "answered" /\ call[t].answer = "recorded"
  /\ call' = [call EXCEPT ![t].pc = "confirming"]
  /\ UNCHANGED <<now, storeVars, browserVars, domainVars>>

\* The history has the effect of the operation.
Recorded(t) == Known(RequestOf(t))

Confirmed(t) ==
  /\ call[t].pc = "confirming" /\ Recorded(t)
  /\ Settle(t, "CONFIRMED")
  /\ Done(t)
  /\ UNCHANGED <<now, login, session, browserVars, domainVars>>

\* The time is up, an error was raised, or no reference could be confirmed.
Unconfirmed(t) ==
  /\ \/ call[t].pc \in {"claimed", "posted", "confirming"}
     \/ call[t].pc = "answered" /\ call[t].answer # "unauthorized"
  /\ Settle(t, "UNCONFIRMED")
  /\ Done(t)
  /\ UNCHANGED <<now, login, session, browserVars, domainVars>>

\* The API or its history rejects the token, which ends the session.
SubmitRejected(t) ==
  /\ \/ call[t].pc = "answered" /\ call[t].answer = "unauthorized"
     \/ call[t].pc = "confirming"
  /\ Revoke(call[t].sid)
  /\ Done(t)
  /\ UNCHANGED <<now, login, browserVars, domainVars>>

SignIn(t) == OfferLogin(t) \/ Callback(t) \/ CreateSession(t) \/ CallbackFails(t)

Request(t) ==
  \/ \E kind \in {"status", "logout", "read", "prepare"} : Open(t, kind, None)
  \/ \E o \in Operations : operation[o].state # "absent" /\ Open(t, "submit", o)

\* The steps of a call that has begun.
Proceed(t) ==
  \/ Reject(t) \/ ContextChanged(t) \/ Bootstrap(t) \/ Logout(t)
  \/ Read(t) \/ ReadAnswers(t) \/ ReadRejected(t)
  \/ Prepare(t) \/ PrepareRefused(t) \/ Claim(t) \/ NotClaimed(t)
  \/ Post(t) \/ Confirm(t) \/ Confirmed(t) \/ Unconfirmed(t) \/ SubmitRejected(t)

Next ==
  \/ Tick \/ Restart \/ BeginLogin
  \/ \E t \in Tabs : SignIn(t) \/ Request(t) \/ Proceed(t)
  \/ \E r \in requests : Begin(r) \/ Write(r) \/ Record(r) \/ RefuseRequest(r)

Spec == Init /\ [][Next]_vars

-----------------------------------------------------------------------------
(* Properties                                                              *)

\* An operation that is submitted again after a lost answer takes effect once,
\* though the request of the earlier attempt may still run, has looked its key up
\* before the other committed, or comes after it.
OneEffectPerOperation == \A o \in Operations : effects[o] <= 1

\* What an operation is shown as is true of the domain: PREPARED and EXPIRED
\* say that nothing was sent, CONFIRMED that the effect is in the history.
ShownStateIsTrue ==
  \A o \in Operations :
    /\ operation[o].state \in {"PREPARED", "EXPIRED"} =>
         /\ effects[o] = 0
         /\ \A r \in requests : r.op # o
    /\ operation[o].state = "CONFIRMED" => effects[o] > 0

\* No data is answered after the session of the request ended, nor to a tab
\* that was told of another session, whatever other tabs do meanwhile.
DataOnlyInSession ==
  [][\A t \in Tabs : call[t].answer # "data" /\ call'[t].answer = "data" =>
       Live(call[t].sid) /\ context[t] = call[t].sid]_vars

\* An attempt shown as under way has a call that will settle it, whatever ended
\* its wait: none stays under way for ever.
AttemptsHaveACall ==
  \A o \in Operations : operation[o].state = "IN_FLIGHT" =>
    \E t \in Tabs :
      /\ call[t].pc \in {"claimed", "posted", "answered", "confirming"}
      /\ call[t].op = o /\ call[t].attempt = operation[o].attempts
-----------------------------------------------------------------------------
(* The dashboard implements OperationPromise                                 *)

Promise == INSTANCE OperationPromise WITH
  shown <- [o \in Operations |-> operation[o].state],
  attempted <- {o \in Operations : operation[o].attempts > 0},
  recorded <- {o \in Operations : effects[o] > 0}

\* Whatever interleaves, expires or restarts, an operation is attempted only while
\* it may be, and what was dropped or had expired is not attempted again.
OperationPromiseSpec == Promise!Spec
===============================================================================
