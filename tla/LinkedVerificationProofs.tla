---------------------- MODULE LinkedVerificationProofs ----------------------
(***************************************************************************)
(* Proofs about LinkedVerification, for any callers, runners, executions,   *)
(* documents and bounds.  The strengthening says what the guard row gives   *)
(* (a caller that decides still sees the current rows) and what every call  *)
(* and every runner knows of the verification it holds.                     *)
(***************************************************************************)
EXTENDS LinkedVerification, FiniteSetTheorems, TLAPS

-----------------------------------------------------------------------------
(* The inductive invariant                                                 *)

\* What a caller read under the guard row is what the tables say.
Sees(r) ==
  /\ r.doc \in Documents
  /\ r.prior = Cardinality(Attempts(r.doc.exec))
  /\ ~r.open => \A k \in Attempts(r.doc.exec) : receipt[<<r.doc.exec, k>>] # "none"

SeenIsCurrent ==
  \A c \in Callers : call[c].pc = "deciding" => guard = c /\ Sees(call[c])

\* Every attempt before one that was made has its receipt.
InOrder ==
  \A e \in Executions : \A k \in 1..MaxAttempts : \A j \in 1..MaxAttempts :
    scan[<<e, k>>] # "absent" /\ j < k => receipt[<<e, j>>] # "none"

\* A call past its decision holds a verification that exists, of its document.
CallsLinked ==
  \A c \in Callers : call[c].pc \notin {"idle", "deciding"} =>
    /\ call[c].slot \in Slots /\ scan[call[c].slot] # "absent"
    /\ doc[call[c].slot] = call[c].doc

\* A scan that a read saw ended has ended so.
ViewsFresh ==
  \A c \in Callers : call[c].pc = "receipt" =>
    /\ call[c].scan # "absent"
    /\ call[c].scan \in Terminal => scan[call[c].slot] = call[c].scan

\* A verification exists only for a write that was acknowledged before it.
Acknowledged ==
  \A v \in Slots : scan[v] # "absent" =>
    ackAt[v[1]] # NoTime /\ ackAt[v[1]] <= createdAt[v] /\ createdAt[v] <= now

\* A runner holds a verification, and what it observed was so at that time.
RunsLinked ==
  /\ \A v \in queued : scan[v] # "absent"
  /\ \A w \in Runners : run[w].pc # "idle" =>
       /\ run[w].slot \in Slots /\ scan[run[w].slot] # "absent"
       /\ run[w].pc = "saving" /\ run[w].ev.proof =>
            /\ createdAt[run[w].slot] <= run[w].ev.at /\ run[w].ev.at <= now
            /\ run[w].ev.pass => run[w].ev.at \in wasOn[run[w].slot[1]]

OnIsRecorded == \A e \in Executions : setting[e] => now \in wasOn[e]

\* A receipt can be computed again from what the scan retained.
ReceiptsMatch ==
  \A v \in Slots : receipt[v] # "none" => receipt[v] = OutcomeOf(v, scan[v], evidence[v])

VInv ==
  /\ TypeOK /\ SealedIffEnded /\ SeenIsCurrent /\ InOrder /\ CallsLinked /\ ViewsFresh
  /\ Acknowledged /\ RunsLinked /\ OnIsRecorded /\ ReceiptsMatch /\ VerifiedMeansOn
-----------------------------------------------------------------------------
(* Facts about values                                                      *)

\* The constants of the calls and the runners have the types of their variables.
LEMMA Initially ==
  /\ NoCall \in CallRecords /\ NoRun \in RunRecords /\ NoEvidence \in Evidence
<1>1. NoEvidence \in Evidence
  BY VerificationAssumption DEF NoEvidence, Evidence
<1>2. NoRun \in RunRecords
  BY <1>1 DEF NoRun, RunRecords
<1>3. 0 \in 0..MaxAttempts
  BY VerificationAssumption
<1>4. NoCall \in CallRecords
  BY <1>3 DEF NoCall, CallRecords
<1> QED
  BY <1>1, <1>2, <1>4

\* The attempts of an execution are finitely many.
LEMMA AttemptCount ==
  ASSUME NEW e
  PROVE  /\ Attempts(e) \subseteq 1..MaxAttempts
         /\ Cardinality(Attempts(e)) \in 0..MaxAttempts
<1>1. IsFiniteSet(1..MaxAttempts) /\ Cardinality(1..MaxAttempts) = MaxAttempts
  BY FS_Interval, VerificationAssumption
<1>2. Attempts(e) \subseteq 1..MaxAttempts
  BY DEF Attempts
<1>3. /\ IsFiniteSet(Attempts(e))
      /\ Cardinality(Attempts(e)) <= MaxAttempts
  BY <1>1, <1>2, FS_Subset
<1>4. Cardinality(Attempts(e)) \in Nat
  BY <1>3, FS_CardinalityType
<1> QED
  BY <1>2, <1>3, <1>4, VerificationAssumption

\* Attempts that are numbered without a gap fill the numbers up to their count.
LEMMA NextAttempt ==
  ASSUME InOrder, SealedIffEnded, NEW e \in Executions,
         scan \in [Slots -> {"absent", "RUNNING"} \cup Terminal],
         NEW k \in 1..MaxAttempts, k = Cardinality(Attempts(e)) + 1,
         scan[<<e, k>>] = "absent", NEW j \in 1..MaxAttempts, j < k
  PROVE  scan[<<e, j>>] # "absent"
<1> SUFFICES ASSUME scan[<<e, j>>] = "absent"
             PROVE  FALSE
  OBVIOUS
<1>1. \A i \in 1..MaxAttempts : <<e, i>> \in Slots
  BY DEF Slots
<1>2. Attempts(e) \subseteq 1..j - 1
  <2> SUFFICES ASSUME NEW i \in Attempts(e)
               PROVE  i < j
    BY DEF Attempts
  <2>1. i \in 1..MaxAttempts /\ scan[<<e, i>>] # "absent" /\ i # j
    BY DEF Attempts
  <2>2. j < i => receipt[<<e, j>>] # "none"
    BY <2>1 DEF InOrder
  <2>3. receipt[<<e, j>>] = "none"
    BY <1>1 DEF SealedIffEnded, Terminal
  <2> QED
    BY <2>1, <2>2, <2>3
<1>3. IsFiniteSet(1..j - 1) /\ Cardinality(1..j - 1) = j - 1
  <2>1. j \in Int /\ j >= 1
    BY VerificationAssumption
  <2>2. j - 1 \in Int /\ 1 \in Int /\ (1 > j - 1 => j - 1 = 0) /\ (j - 1) - 1 + 1 = j - 1
    BY <2>1
  <2> QED
    BY <2>2, FS_Interval
<1>4. Cardinality(Attempts(e)) <= j - 1
  BY <1>2, <1>3, FS_Subset
<1> QED
  BY <1>4, AttemptCount, VerificationAssumption

\* fail_pending_scan and persist_scan_result end a scan that is RUNNING.
LEMMA EndTypes ==
  ASSUME TypeOK, NEW v \in Slots, NEW status \in Terminal, NEW ev \in Evidence,
         EndScan(v, status, ev)
  PROVE  /\ scan' \in [Slots -> {"absent", "RUNNING"} \cup Terminal]
         /\ evidence' \in [Slots -> Evidence]
         /\ receipt' \in [Slots -> Outcomes \cup {"none"}]
         /\ scan'[v] = status /\ evidence'[v] = ev /\ receipt'[v] = OutcomeOf(v, status, ev)
         /\ receipt'[v] \in Outcomes
         /\ \A u \in Slots \ {v} : /\ scan'[u] = scan[u] /\ evidence'[u] = evidence[u]
                                   /\ receipt'[u] = receipt[u]
         /\ doc' = doc /\ createdAt' = createdAt
BY DEF EndScan, TypeOK, OutcomeOf, Outcomes

-----------------------------------------------------------------------------
(* Steps that write no row                                                 *)

\* Without a step of the world or of a row, the facts about rows remain.
LEMMA RowsKept ==
  ASSUME VInv, UNCHANGED rowVars, UNCHANGED clockVars
  PROVE  /\ SealedIffEnded' /\ InOrder' /\ Acknowledged' /\ OnIsRecorded' /\ ReceiptsMatch'
         /\ VerifiedMeansOn'
<1> USE DEF rowVars, clockVars
<1>1. SealedIffEnded' /\ InOrder'
  BY DEF VInv, SealedIffEnded, InOrder
<1>2. Acknowledged' /\ OnIsRecorded'
  BY DEF VInv, Acknowledged, OnIsRecorded
<1>3. ReceiptsMatch' /\ VerifiedMeansOn'
  BY DEF VInv, ReceiptsMatch, VerifiedMeansOn, OutcomeOf, LaterThan
<1> QED
  BY <1>1, <1>2, <1>3

\* A caller that decides keeps the guard row while another call moves.
LEMMA SeenKept ==
  ASSUME VInv, UNCHANGED rowVars,
         NEW c \in Callers, \A d \in Callers \ {c} : call'[d] = call[d],
         guard' = guard \/ guard = c, call'[c].pc # "deciding"
  PROVE  SeenIsCurrent'
<1>1. \A x : Attempts(x)' = Attempts(x)
  BY DEF Attempts, rowVars
<1> SUFFICES ASSUME NEW d \in Callers, call'[d].pc = "deciding"
             PROVE  guard' = d /\ Sees(call[d])'
  BY DEF SeenIsCurrent
<1>2. d # c
  OBVIOUS
<1>3. call'[d] = call[d] /\ guard = d /\ Sees(call[d])
  BY <1>2 DEF VInv, SeenIsCurrent
<1>4. guard' = guard
  BY <1>3, <1>2
<1> QED
  BY <1>1, <1>3, <1>4 DEF Sees, rowVars

\* When nothing but one call and the pool change, the facts about the other
\* calls remain.
LEMMA OneCall ==
  ASSUME VInv, UNCHANGED rowVars, UNCHANGED clockVars,
         RunsLinked', queued' \in SUBSET Slots, run' \in [Runners -> RunRecords],
         faults' \in 0..MaxFaults, SeenIsCurrent', guard' \in Callers \cup {Nobody},
         NEW c \in Callers,
         call' \in [Callers -> CallRecords], \A d \in Callers \ {c} : call'[d] = call[d],
         call'[c].pc \notin {"idle", "deciding"} =>
           /\ call'[c].slot \in Slots /\ scan[call'[c].slot] # "absent"
           /\ doc[call'[c].slot] = call'[c].doc,
         call'[c].pc = "receipt" =>
           /\ call'[c].scan # "absent"
           /\ call'[c].scan \in Terminal => scan[call'[c].slot] = call'[c].scan
  PROVE  VInv'
<1>1. /\ SealedIffEnded' /\ InOrder' /\ Acknowledged' /\ OnIsRecorded' /\ ReceiptsMatch'
      /\ VerifiedMeansOn'
  BY RowsKept
<1>2. TypeOK'
  BY DEF VInv, TypeOK, rowVars, clockVars
<1>3. CallsLinked'
  BY DEF VInv, CallsLinked, rowVars
<1>4. ViewsFresh'
  BY DEF VInv, ViewsFresh, rowVars
<1> QED
  BY <1>1, <1>2, <1>3, <1>4 DEF VInv

\* A step that changes neither the pool nor the clock keeps what runners know.
LEMMA PoolKept ==
  ASSUME VInv, UNCHANGED rowVars, UNCHANGED clockVars, UNCHANGED poolVars, UNCHANGED faults
  PROVE  /\ RunsLinked' /\ queued' \in SUBSET Slots /\ run' \in [Runners -> RunRecords]
         /\ faults' \in 0..MaxFaults
<1>1. RunsLinked'
  BY DEF VInv, RunsLinked, rowVars, clockVars, poolVars
<1> QED
  BY <1>1 DEF VInv, TypeOK, poolVars

\* A step of the pool alone.
LEMMA PoolOnly ==
  ASSUME VInv, UNCHANGED <<rowVars, clockVars, guard, call>>,
         RunsLinked', queued' \in SUBSET Slots, run' \in [Runners -> RunRecords],
         faults' \in 0..MaxFaults
  PROVE  VInv'
<1>1. /\ SealedIffEnded' /\ InOrder' /\ Acknowledged' /\ OnIsRecorded' /\ ReceiptsMatch'
      /\ VerifiedMeansOn'
  BY RowsKept
<1>2. TypeOK'
  BY DEF VInv, TypeOK, rowVars, clockVars
<1>3. \A x : Attempts(x)' = Attempts(x)
  BY DEF Attempts, rowVars
<1>4. SeenIsCurrent'
  BY <1>3 DEF VInv, SeenIsCurrent, Sees, rowVars
<1>5. CallsLinked' /\ ViewsFresh'
  BY DEF VInv, CallsLinked, ViewsFresh, rowVars
<1> QED
  BY <1>1, <1>2, <1>4, <1>5 DEF VInv

-----------------------------------------------------------------------------
(* request_verification and get_verification                               *)

\* The caller that took the guard row sees the rows as they are.
LEMMA EnterKeeps == ASSUME VInv, NEW c \in Callers, Enter(c) PROVE VInv'
<1>1. PICK d \in Documents :
        call' = [call EXCEPT ![c] =
         [NoCall EXCEPT
           !.pc = "deciding", !.doc = d,
           !.mine = {v \in Slots : SameKey(d, v)},
           !.prior = Cardinality(Attempts(d.exec)),
           !.open = \E k \in Attempts(d.exec) : receipt[<<d.exec, k>>] = "none"]]
  BY DEF Enter
<1> DEFINE rec == [NoCall EXCEPT
           !.pc = "deciding", !.doc = d,
           !.mine = {v \in Slots : SameKey(d, v)},
           !.prior = Cardinality(Attempts(d.exec)),
           !.open = \E k \in Attempts(d.exec) : receipt[<<d.exec, k>>] = "none"]
<1>2. rec \in CallRecords
  <2>1. Cardinality(Attempts(d.exec)) \in 0..MaxAttempts
    BY AttemptCount
  <2>2. {v \in Slots : SameKey(d, v)} \in SUBSET Slots
    OBVIOUS
  <2>3. (\E k \in Attempts(d.exec) : receipt[<<d.exec, k>>] = "none") \in BOOLEAN
    OBVIOUS
  <2> HIDE DEF rec
  <2> QED
    BY <2>1, <2>2, <2>3 DEF rec, NoCall, CallRecords, NoSlot
<1>3. rec.pc = "deciding" /\ Sees(rec)
  BY DEF Sees, NoCall
<1>4. /\ UNCHANGED <<rowVars, clockVars, poolVars, faults>>
      /\ guard' = c /\ guard = Nobody
  BY DEF Enter, GuardFree
<1> HIDE DEF rec
<1>5. call' = [call EXCEPT ![c] = rec]
  BY <1>1 DEF rec
<1>6. /\ call' \in [Callers -> CallRecords] /\ call'[c] = rec
      /\ \A d1 \in Callers \ {c} : call'[d1] = call[d1]
  BY <1>2, <1>5 DEF VInv, TypeOK
<1>7. \A x : Attempts(x)' = Attempts(x)
  BY <1>4 DEF Attempts, rowVars
<1>8. SeenIsCurrent'
  <2> SUFFICES ASSUME NEW d2 \in Callers, call'[d2].pc = "deciding"
               PROVE  guard' = d2 /\ Sees(call[d2])'
    BY DEF SeenIsCurrent
  <2>1. d2 = c
    BY <1>4, <1>6, VerificationAssumption DEF VInv, SeenIsCurrent
  <2> QED
    BY <2>1, <1>3, <1>4, <1>6, <1>7 DEF Sees, rowVars
<1>9. /\ guard' \in Callers \cup {Nobody} /\ UNCHANGED rowVars /\ UNCHANGED clockVars
      /\ UNCHANGED poolVars /\ UNCHANGED faults
  BY <1>4
<1>10. call'[c].pc = "deciding"
  BY <1>3, <1>6
<1> QED
  BY <1>6, <1>8, <1>9, <1>10, OneCall, PoolKept

\* A caller that gives up its transaction forgets what it read.
LEMMA AbandonKeeps == ASSUME VInv, NEW c \in Callers, Abandon(c) PROVE VInv'
<1>1. /\ UNCHANGED <<rowVars, clockVars, poolVars, faults>>
      /\ guard' = Nobody /\ guard = c /\ call' = [call EXCEPT ![c] = NoCall]
  BY DEF Abandon, VInv, SeenIsCurrent
<1>2. NoCall \in CallRecords /\ NoCall.pc = "idle"
  BY Initially DEF NoCall
<1>3. /\ guard' \in Callers \cup {Nobody} /\ UNCHANGED rowVars /\ UNCHANGED clockVars
      /\ UNCHANGED poolVars /\ UNCHANGED faults
  BY <1>1
<1>4. /\ call' \in [Callers -> CallRecords] /\ call'[c] = NoCall
      /\ \A d \in Callers \ {c} : call'[d] = call[d]
  BY <1>1, <1>2 DEF VInv, TypeOK
<1>5. SeenIsCurrent'
  BY <1>1, <1>2, <1>3, <1>4, SeenKept
<1> QED
  BY <1>2, <1>3, <1>4, <1>5, OneCall, PoolKept

\* What an answer holds.
LEMMA ReplyRecord ==
  ASSUME TypeOK, NEW c \in Callers, NEW v \in Slots
  PROVE  LET rec == [NoCall EXCEPT !.pc = "answered", !.doc = call[c].doc, !.slot = v]
         IN  rec \in CallRecords /\ rec.pc = "answered" /\ rec.slot = v /\ rec.doc = call[c].doc
<1>1. call[c].doc \in Documents \cup {NoDocument}
  BY DEF TypeOK, CallRecords
<1> QED
  BY <1>1, Initially DEF NoCall, CallRecords

\* A key that is spent is answered with its own verification.
LEMMA ReplayKeeps == ASSUME VInv, NEW c \in Callers, Replay(c) PROVE VInv'
<1>1. PICK v \in call[c].mine : doc[v] = call[c].doc /\ Reply(c, v)
  BY DEF Replay
<1>2. /\ UNCHANGED <<rowVars, clockVars, poolVars, faults>>
      /\ guard' = Nobody /\ guard = c
  BY DEF Replay, VInv, SeenIsCurrent
<1>3. v \in Slots
  BY <1>1 DEF VInv, TypeOK, CallRecords
<1>4. scan[v] # "absent"
  <2>1. call[c].doc \in Documents
    BY DEF Replay, VInv, SeenIsCurrent, Sees
  <2> QED
    BY <1>1, <1>3, <2>1, VerificationAssumption DEF VInv, TypeOK
<1> DEFINE rec == [NoCall EXCEPT !.pc = "answered", !.doc = call[c].doc, !.slot = v]
<1>5. rec \in CallRecords /\ rec.pc = "answered" /\ rec.slot = v /\ rec.doc = call[c].doc
  BY <1>3, ReplyRecord DEF VInv
<1>6. call' = [call EXCEPT ![c] = rec]
  BY <1>1 DEF Reply
<1> HIDE DEF rec
<1>7. /\ call' \in [Callers -> CallRecords] /\ call'[c] = rec
      /\ \A d \in Callers \ {c} : call'[d] = call[d]
  BY <1>5, <1>6 DEF VInv, TypeOK
<1>8. /\ call'[c].pc = "answered" /\ call'[c].slot = v /\ call'[c].doc = call[c].doc
  BY <1>5, <1>7
<1>9. /\ guard' \in Callers \cup {Nobody} /\ UNCHANGED rowVars /\ UNCHANGED clockVars
      /\ UNCHANGED poolVars /\ UNCHANGED faults
  BY <1>2
<1>10. SeenIsCurrent'
  BY <1>2, <1>7, <1>8, <1>9, SeenKept
<1> QED
  BY <1>1, <1>3, <1>4, <1>7, <1>8, <1>9, <1>10, OneCall, PoolKept

\* A scan is handed to the pool, or the pool refuses it.
LEMMA SubmitKeeps ==
  ASSUME VInv, NEW c \in Callers, Submit(c) \/ SubmitRaises(c)
  PROVE  VInv'
<1>1. /\ call[c].pc = "submitting" /\ call[c].slot \in Slots
      /\ scan[call[c].slot] # "absent" /\ doc[call[c].slot] = call[c].doc
  BY DEF Submit, SubmitRaises, VInv, CallsLinked
<1>2. call[c] \in CallRecords
  BY DEF VInv, TypeOK
<1>3. CASE Submit(c)
  <2> DEFINE rec == [call[c] EXCEPT !.pc = "scan"]
  <2>1. call' = [call EXCEPT ![c] = rec]
    BY <1>3 DEF Submit
  <2>2. /\ rec \in CallRecords /\ rec.pc = "scan"
        /\ rec.slot = call[c].slot /\ rec.doc = call[c].doc
    BY <1>2 DEF CallRecords
  <2>3. UNCHANGED <<rowVars, clockVars, guard, run, faults>> /\ queued' \subseteq queued \cup {call[c].slot}
    BY <1>3 DEF Submit
  <2>4. RunsLinked' /\ queued' \in SUBSET Slots
    BY <1>1, <2>3 DEF VInv, TypeOK, RunsLinked, rowVars, clockVars
  <2>5. guard' \in Callers \cup {Nobody} /\ run' \in [Runners -> RunRecords] /\ faults' \in 0..MaxFaults
    BY <2>3 DEF VInv, TypeOK
  <2> HIDE DEF rec
  <2>8. /\ call' \in [Callers -> CallRecords] /\ call'[c] = rec
        /\ \A d \in Callers \ {c} : call'[d] = call[d]
    BY <2>1, <2>2 DEF VInv, TypeOK
  <2>9. /\ UNCHANGED rowVars /\ UNCHANGED clockVars /\ guard' = guard
        /\ guard' \in Callers \cup {Nobody}
    BY <2>3 DEF VInv, TypeOK
  <2>10. SeenIsCurrent'
    BY <1>1, <2>2, <2>4, <2>5, <2>8, <2>9, SeenKept
  <2> QED
    BY <1>1, <2>2, <2>4, <2>5, <2>8, <2>9, <2>10, OneCall
<1>4. CASE SubmitRaises(c)
  <2> DEFINE rec == [call[c] EXCEPT !.pc = "failing"]
  <2>1. call' = [call EXCEPT ![c] = rec]
    BY <1>4 DEF SubmitRaises
  <2>2. /\ rec \in CallRecords /\ rec.pc = "failing"
        /\ rec.slot = call[c].slot /\ rec.doc = call[c].doc
    BY <1>2 DEF CallRecords
  <2>3. UNCHANGED <<rowVars, clockVars, guard, poolVars, faults>>
    BY <1>4 DEF SubmitRaises
  <2>4. guard' \in Callers \cup {Nobody}
    BY <2>3 DEF VInv, TypeOK
  <2> HIDE DEF rec
  <2>8. /\ call' \in [Callers -> CallRecords] /\ call'[c] = rec
        /\ \A d \in Callers \ {c} : call'[d] = call[d]
    BY <2>1, <2>2 DEF VInv, TypeOK
  <2>9. /\ UNCHANGED rowVars /\ UNCHANGED clockVars /\ guard' = guard
        /\ guard' \in Callers \cup {Nobody}
        /\ UNCHANGED poolVars /\ UNCHANGED faults
    BY <2>3 DEF VInv, TypeOK
  <2>10. SeenIsCurrent'
    BY <1>1, <2>2, <2>3, <2>4, <2>8, <2>9, SeenKept
  <2> QED
    BY <1>1, <2>2, <2>3, <2>4, <2>8, <2>9, <2>10, OneCall, PoolKept
<1> QED
  BY <1>3, <1>4

\* The three steps of a read.
LEMMA ViewKeeps ==
  ASSUME VInv, NEW c \in Callers, OpenView(c) \/ ViewScan(c) \/ ViewReceipt(c)
  PROVE  VInv'
<1>1. UNCHANGED <<rowVars, clockVars, guard, poolVars, faults>> /\ call[c] \in CallRecords
  BY DEF OpenView, ViewScan, ViewReceipt, VInv, TypeOK
<1>2. guard' \in Callers \cup {Nobody}
  BY <1>1 DEF VInv, TypeOK
<1>3. CASE OpenView(c)
  <2>1. PICK v \in Slots :
          /\ scan[v] # "absent"
          /\ call' = [call EXCEPT ![c] = [NoCall EXCEPT !.pc = "scan", !.slot = v, !.doc = doc[v]]]
    BY <1>3 DEF OpenView
  <2> DEFINE rec == [NoCall EXCEPT !.pc = "scan", !.slot = v, !.doc = doc[v]]
  <2>2. doc[v] \in Documents \cup {NoDocument}
    BY DEF VInv, TypeOK
  <2>3. rec \in CallRecords /\ rec.pc = "scan" /\ rec.slot = v /\ rec.doc = doc[v]
    BY <2>2, Initially DEF NoCall, CallRecords
  <2>4. call' = [call EXCEPT ![c] = rec]
    BY <2>1
  <2> HIDE DEF rec
  <2>8. /\ call' \in [Callers -> CallRecords] /\ call'[c] = rec
        /\ \A d \in Callers \ {c} : call'[d] = call[d]
    BY <2>3, <2>4 DEF VInv, TypeOK
  <2>9. /\ UNCHANGED rowVars /\ UNCHANGED clockVars /\ guard' = guard
        /\ guard' \in Callers \cup {Nobody}
        /\ UNCHANGED poolVars /\ UNCHANGED faults
    BY <1>1 DEF VInv, TypeOK
  <2>10. SeenIsCurrent'
    BY <1>1, <1>2, <2>1, <2>3, <2>8, <2>9, SeenKept
  <2> QED
    BY <1>1, <1>2, <2>1, <2>3, <2>8, <2>9, <2>10, OneCall, PoolKept
<1>4. CASE ViewScan(c)
  <2> DEFINE rec == [call[c] EXCEPT !.pc = "receipt", !.scan = scan[call[c].slot]]
  <2>1. call' = [call EXCEPT ![c] = rec] /\ call[c].pc = "scan"
    BY <1>4 DEF ViewScan
  <2>2. /\ call[c].slot \in Slots /\ scan[call[c].slot] # "absent"
        /\ doc[call[c].slot] = call[c].doc
    BY <2>1 DEF VInv, CallsLinked
  <2>3. scan[call[c].slot] \in {"absent", "RUNNING"} \cup Terminal
    BY <2>2 DEF VInv, TypeOK
  <2>4. /\ rec \in CallRecords /\ rec.pc = "receipt" /\ rec.scan = scan[call[c].slot]
        /\ rec.slot = call[c].slot /\ rec.doc = call[c].doc
    BY <1>1, <2>3 DEF CallRecords
  <2> HIDE DEF rec
  <2>8. /\ call' \in [Callers -> CallRecords] /\ call'[c] = rec
        /\ \A d \in Callers \ {c} : call'[d] = call[d]
    BY <2>1, <2>4 DEF VInv, TypeOK
  <2>9. /\ UNCHANGED rowVars /\ UNCHANGED clockVars /\ guard' = guard
        /\ guard' \in Callers \cup {Nobody}
        /\ UNCHANGED poolVars /\ UNCHANGED faults
    BY <1>1 DEF VInv, TypeOK
  <2>10. SeenIsCurrent'
    BY <1>1, <1>2, <2>1, <2>2, <2>4, <2>8, <2>9, SeenKept
  <2> QED
    BY <1>1, <1>2, <2>1, <2>2, <2>4, <2>8, <2>9, <2>10, OneCall, PoolKept
<1>5. CASE ViewReceipt(c)
  <2>1. /\ call[c].slot \in Slots /\ scan[call[c].slot] # "absent"
        /\ doc[call[c].slot] = call[c].doc
    BY <1>5 DEF ViewReceipt, VInv, CallsLinked
  <2> DEFINE rec == [NoCall EXCEPT !.pc = "answered", !.doc = call[c].doc, !.slot = call[c].slot]
  <2>2. call' = [call EXCEPT ![c] = rec]
    BY <1>5 DEF ViewReceipt, Reply
  <2>3. /\ rec \in CallRecords /\ rec.pc = "answered" /\ rec.slot = call[c].slot
        /\ rec.doc = call[c].doc
    BY <2>1, ReplyRecord DEF VInv
  <2> HIDE DEF rec
  <2>8. /\ call' \in [Callers -> CallRecords] /\ call'[c] = rec
        /\ \A d \in Callers \ {c} : call'[d] = call[d]
    BY <2>2, <2>3 DEF VInv, TypeOK
  <2>9. /\ UNCHANGED rowVars /\ UNCHANGED clockVars /\ guard' = guard
        /\ guard' \in Callers \cup {Nobody}
        /\ UNCHANGED poolVars /\ UNCHANGED faults
    BY <1>1 DEF VInv, TypeOK
  <2>10. SeenIsCurrent'
    BY <1>1, <1>2, <2>1, <2>3, <2>8, <2>9, SeenKept
  <2> QED
    BY <1>1, <1>2, <2>1, <2>3, <2>8, <2>9, <2>10, OneCall, PoolKept
<1> QED
  BY <1>3, <1>4, <1>5


\* The next attempt of an execution is admitted when all before it have ended.
LEMMA AdmitKeeps == ASSUME VInv, NEW c \in Callers, Admit(c) PROVE VInv'
<1> DEFINE d == call[c].doc
           v == <<d.exec, call[c].prior + 1>>
<1>1. /\ call[c].pc = "deciding" /\ guard = c /\ d \in Documents
      /\ call[c].prior = Cardinality(Attempts(d.exec))
      /\ ~call[c].open => \A k \in Attempts(d.exec) : receipt[<<d.exec, k>>] # "none"
  BY DEF Admit, VInv, SeenIsCurrent, Sees
<1>2. /\ ackAt[d.exec] # NoTime /\ now >= ackAt[d.exec] /\ ~call[c].open
      /\ call[c].prior < MaxAttempts
  BY DEF Admit, Admissible
<1>3. /\ scan[v] = "absent"
      /\ scan' = [scan EXCEPT ![v] = "RUNNING"] /\ doc' = [doc EXCEPT ![v] = d]
      /\ createdAt' = [createdAt EXCEPT ![v] = now]
      /\ call' = [call EXCEPT ![c] = [NoCall EXCEPT !.pc = "submitting", !.doc = d, !.slot = v]]
      /\ guard' = Nobody /\ UNCHANGED <<clockVars, evidence, receipt, poolVars, faults>>
  BY DEF Admit
<1>4. d.exec \in Executions /\ d # NoDocument /\ call[c].prior + 1 \in 1..MaxAttempts
  <2>1. call[c].prior \in Nat
    BY VerificationAssumption DEF VInv, TypeOK, CallRecords
  <2> QED
    BY <1>1, <1>2, <2>1, VerificationAssumption
<1>5. v \in Slots /\ v[1] = d.exec
  BY <1>4 DEF Slots
<1> DEFINE rec == [NoCall EXCEPT !.pc = "submitting", !.doc = d, !.slot = v]
<1>6. rec \in CallRecords /\ rec.pc = "submitting" /\ rec.doc = d /\ rec.slot = v
  BY <1>1, <1>5, Initially DEF NoCall, CallRecords
<1>7. /\ call' \in [Callers -> CallRecords] /\ call'[c] = rec
      /\ \A b \in Callers \ {c} : call'[b] = call[b]
  <2> HIDE DEF rec
  <2>1. call' = [call EXCEPT ![c] = rec]
    BY <1>3 DEF rec
  <2> QED
    BY <1>6, <2>1 DEF VInv, TypeOK
<1>8. /\ scan'[v] = "RUNNING" /\ doc'[v] = d /\ createdAt'[v] = now
      /\ receipt[v] = "none" /\ receipt' = receipt /\ evidence' = evidence
      /\ \A u \in Slots \ {v} : scan'[u] = scan[u] /\ doc'[u] = doc[u] /\ createdAt'[u] = createdAt[u]
  BY <1>3, <1>5 DEF VInv, TypeOK, SealedIffEnded, Terminal
<1> HIDE DEF rec, d, v
<1>9. now \in 0..Horizon /\ now # NoTime
  BY VerificationAssumption DEF VInv, TypeOK
<1>10. TypeOK'
  <2>1. scan' \in [Slots -> {"absent", "RUNNING"} \cup Terminal]
    BY <1>3, <1>5 DEF VInv, TypeOK
  <2>2. doc' \in [Slots -> Documents \cup {NoDocument}]
    BY <1>1, <1>3, <1>5 DEF VInv, TypeOK
  <2>3. createdAt' \in [Slots -> (0..Horizon) \cup {NoTime}]
    BY <1>3, <1>5, <1>9 DEF VInv, TypeOK
  <2>4. \A u \in Slots : scan'[u] = "absent" <=> doc'[u] = NoDocument
    BY <1>4, <1>5, <1>8 DEF VInv, TypeOK
  <2>5. \A u \in Slots : scan'[u] = "absent" <=> createdAt'[u] = NoTime
    BY <1>5, <1>8, <1>9 DEF VInv, TypeOK
  <2> QED
    BY <1>3, <1>7, <2>1, <2>2, <2>3, <2>4, <2>5 DEF VInv, TypeOK, clockVars, poolVars
<1>11. SealedIffEnded'
  BY <1>5, <1>8 DEF VInv, SealedIffEnded, Terminal
<1>12. SeenIsCurrent'
  BY <1>1, <1>6, <1>7, VerificationAssumption DEF VInv, SeenIsCurrent
<1>13. InOrder'
  <2> SUFFICES ASSUME NEW e \in Executions, NEW k \in 1..MaxAttempts, NEW j \in 1..MaxAttempts,
                      scan'[<<e, k>>] # "absent", j < k
               PROVE  receipt[<<e, j>>] # "none"
    BY <1>8 DEF InOrder
  <2>1. <<e, k>> \in Slots /\ <<e, j>> \in Slots
    BY DEF Slots
  <2>2. CASE <<e, k>> # v
    BY <2>1, <2>2, <1>8 DEF VInv, InOrder
  <2>3. CASE <<e, k>> = v
    <3>1. e = d.exec /\ k = Cardinality(Attempts(d.exec)) + 1
      BY <2>3, <1>1 DEF v
    <3>2. scan[<<e, j>>] # "absent"
      <4>1. scan[<<e, k>>] = "absent"
        BY <2>3, <1>3
      <4>2. k = Cardinality(Attempts(e)) + 1
        BY <3>1
      <4> QED
        BY <4>1, <4>2, NextAttempt DEF VInv, TypeOK
    <3>3. j \in Attempts(d.exec)
      BY <3>1, <3>2 DEF Attempts
    <3> QED
      BY <1>1, <1>2, <3>1, <3>3
  <2> QED
    BY <2>2, <2>3
<1>14. CallsLinked'
  <2> SUFFICES ASSUME NEW b \in Callers, call'[b].pc \notin {"idle", "deciding"}
               PROVE  /\ call'[b].slot \in Slots /\ scan'[call'[b].slot] # "absent"
                      /\ doc'[call'[b].slot] = call'[b].doc
    BY DEF CallsLinked
  <2>1. CASE b = c
    BY <2>1, <1>5, <1>6, <1>7, <1>8
  <2>2. CASE b # c
    <3>1. /\ call'[b] = call[b] /\ call[b].slot \in Slots /\ scan[call[b].slot] # "absent"
          /\ doc[call[b].slot] = call[b].doc
      BY <2>2, <1>7 DEF VInv, CallsLinked
    <3>2. call[b].slot # v
      BY <3>1, <1>3
    <3> QED
      BY <3>1, <3>2, <1>8
  <2> QED
    BY <2>1, <2>2
<1>15. ViewsFresh'
  <2> SUFFICES ASSUME NEW b \in Callers, call'[b].pc = "receipt"
               PROVE  /\ call'[b].scan # "absent"
                      /\ call'[b].scan \in Terminal => scan'[call'[b].slot] = call'[b].scan
    BY DEF ViewsFresh
  <2>1. b # c /\ call'[b] = call[b]
    BY <1>6, <1>7
  <2>2. call[b].slot \in Slots /\ scan[call[b].slot] # "absent"
    BY <2>1 DEF VInv, CallsLinked
  <2>3. call[b].slot # v
    BY <2>2, <1>3
  <2> QED
    BY <2>1, <2>2, <2>3, <1>8 DEF VInv, ViewsFresh
<1>16. Acknowledged'
  BY <1>2, <1>3, <1>5, <1>8, <1>9, VerificationAssumption DEF VInv, TypeOK, Acknowledged, clockVars
<1>17. RunsLinked'
  <2>1. \A u \in Slots : scan[u] # "absent" =>
          scan'[u] # "absent" /\ createdAt'[u] = createdAt[u]
    BY <1>3, <1>8
  <2> QED
    BY <2>1, <1>3 DEF VInv, TypeOK, RunsLinked, clockVars, poolVars
<1>18. OnIsRecorded' /\ ReceiptsMatch' /\ VerifiedMeansOn'
  <2>1. OnIsRecorded'
    BY <1>3 DEF VInv, OnIsRecorded, clockVars
  <2>2. ReceiptsMatch'
    BY <1>3, <1>8 DEF VInv, ReceiptsMatch, OutcomeOf, LaterThan, clockVars
  <2>3. VerifiedMeansOn'
    BY <1>3, <1>8 DEF VInv, VerifiedMeansOn, clockVars
  <2> QED
    BY <2>1, <2>2, <2>3
<1> QED
  BY <1>10, <1>11, <1>12, <1>13, <1>14, <1>15, <1>16, <1>17, <1>18 DEF VInv


-----------------------------------------------------------------------------
(* The executor                                                            *)

\* What a runner knows stays true while rows are only added to and time passes.
LEMMA ResumeKeeps == ASSUME VInv, NEW v \in Slots, Resume(v) PROVE VInv'
<1>1. /\ UNCHANGED rowVars /\ UNCHANGED clockVars /\ UNCHANGED guard /\ UNCHANGED call
      /\ UNCHANGED run /\ UNCHANGED faults /\ queued' = queued \cup {v} /\ scan[v] = "RUNNING"
  BY DEF Resume
<1>2. RunsLinked' /\ queued' \in SUBSET Slots
  BY <1>1 DEF VInv, TypeOK, RunsLinked, rowVars, clockVars
<1>3. run' \in [Runners -> RunRecords] /\ faults' \in 0..MaxFaults
  BY <1>1 DEF VInv, TypeOK
<1> QED
  BY <1>1, <1>2, <1>3, PoolOnly

\* A step of one runner that leaves the rows alone.
LEMMA OneRun ==
  ASSUME VInv, NEW w \in Runners, NEW rec \in RunRecords,
         run' = [run EXCEPT ![w] = rec], queued' \subseteq queued,
         UNCHANGED rowVars, UNCHANGED clockVars, UNCHANGED guard, UNCHANGED call, UNCHANGED faults,
         rec.pc # "idle" => rec.slot \in Slots /\ scan[rec.slot] # "absent",
         rec.pc = "saving" /\ rec.ev.proof =>
           /\ createdAt[rec.slot] <= rec.ev.at /\ rec.ev.at <= now
           /\ rec.ev.pass => rec.ev.at \in wasOn[rec.slot[1]]
  PROVE  VInv'
<1>1. run' \in [Runners -> RunRecords] /\ run'[w] = rec /\ \A x \in Runners \ {w} : run'[x] = run[x]
  BY DEF VInv, TypeOK
<1>2. RunsLinked'
  <2>1. \A u \in queued' : scan'[u] # "absent"
    BY DEF VInv, RunsLinked, rowVars
  <2>2. ASSUME NEW x \in Runners, run'[x].pc # "idle"
        PROVE  /\ run'[x].slot \in Slots /\ scan'[run'[x].slot] # "absent"
               /\ run'[x].pc = "saving" /\ run'[x].ev.proof =>
                    /\ createdAt'[run'[x].slot] <= run'[x].ev.at /\ run'[x].ev.at <= now'
                    /\ run'[x].ev.pass => run'[x].ev.at \in wasOn'[run'[x].slot[1]]
    <3>1. CASE x = w
      BY <1>1, <2>2, <3>1 DEF rowVars, clockVars
    <3>2. CASE x # w
      BY <1>1, <2>2, <3>2 DEF VInv, RunsLinked, rowVars, clockVars
    <3> QED
      BY <3>1, <3>2
  <2> QED
    BY <2>1, <2>2 DEF RunsLinked
<1>3. queued' \in SUBSET Slots /\ faults' \in 0..MaxFaults
  BY DEF VInv, TypeOK
<1> QED
  BY <1>1, <1>2, <1>3, PoolOnly

\* A runner takes a scan, and what it observes holds at the time it reads it.
LEMMA CollectKeeps ==
  ASSUME VInv, NEW w \in Runners, StartScan(w) \/ Collect(w) \/ RunRaises(w)
  PROVE  VInv'
<1>1. /\ UNCHANGED rowVars /\ UNCHANGED clockVars /\ UNCHANGED guard /\ UNCHANGED call
      /\ UNCHANGED faults
  BY DEF StartScan, Collect, RunRaises
<1>2. run[w] \in RunRecords /\ run = [run EXCEPT ![w] = run[w]]
  BY DEF VInv, TypeOK
<1>3. CASE StartScan(w)
  <2>1. PICK v \in queued :
          /\ queued' = queued \ {v}
          /\ run' = IF scan[v] = "RUNNING"
                    THEN [run EXCEPT ![w] = [NoRun EXCEPT !.pc = "collecting", !.slot = v]]
                    ELSE run
    BY <1>3 DEF StartScan
  <2>2. v \in Slots /\ run[w].pc = "idle"
    BY <1>3 DEF StartScan, VInv, TypeOK
  <2>3. CASE scan[v] = "RUNNING"
    <3> DEFINE rec == [NoRun EXCEPT !.pc = "collecting", !.slot = v]
    <3>1. rec \in RunRecords /\ rec.pc = "collecting" /\ rec.slot = v
      BY <2>2, Initially DEF NoRun, RunRecords
    <3>2. run' = [run EXCEPT ![w] = rec]
      BY <2>1, <2>3
    <3> HIDE DEF rec
    <3> QED
      BY <1>1, <2>1, <2>2, <2>3, <3>1, <3>2, OneRun
  <2>4. CASE scan[v] # "RUNNING"
    <3>1. UNCHANGED run
      BY <2>1, <2>4
    <3>2. RunsLinked' /\ queued' \in SUBSET Slots /\ run' \in [Runners -> RunRecords]
          /\ faults' \in 0..MaxFaults
      BY <1>1, <2>1, <3>1 DEF VInv, TypeOK, RunsLinked, rowVars, clockVars
    <3> QED
      BY <1>1, <3>2, PoolOnly
  <2> QED
    BY <2>3, <2>4
<1>4. CASE Collect(w)
  <2>1. PICK status \in {"COMPLETED", "PARTIAL"}, ev \in Observed(run[w].slot[1]) :
          run' = [run EXCEPT ![w].pc = "saving", ![w].status = status, ![w].ev = ev]
    BY <1>4 DEF Collect
  <2>2. run[w].slot \in Slots /\ scan[run[w].slot] # "absent" /\ UNCHANGED queued
    BY <1>4 DEF Collect, VInv, RunsLinked
  <2>3. run[w].slot[1] \in Executions
    BY <2>2 DEF Slots
  <2>4. /\ ev \in Evidence
        /\ ev.proof => ev.at = now /\ (ev.pass => setting[run[w].slot[1]])
    <3>1. CASE ev = NoEvidence
      BY <3>1, Initially DEF NoEvidence
    <3>2. CASE ev \in [proof : {TRUE}, at : {now}, pass : {setting[run[w].slot[1]]}]
      BY <2>3, <3>2 DEF VInv, TypeOK, Evidence
    <3> QED
      BY <3>1, <3>2 DEF Observed
  <2>5. setting[run[w].slot[1]] => now \in wasOn[run[w].slot[1]]
    BY <2>3 DEF VInv, OnIsRecorded
  <2>6. createdAt[run[w].slot] <= now /\ now <= now
    BY <2>2, VerificationAssumption DEF VInv, Acknowledged, TypeOK
  <2> DEFINE rec == [run[w] EXCEPT !.pc = "saving", !.status = status, !.ev = ev]
  <2>7. /\ rec \in RunRecords /\ rec.pc = "saving" /\ rec.slot = run[w].slot /\ rec.ev = ev
    BY <1>2, <2>4 DEF RunRecords
  <2>8. run' = [run EXCEPT ![w] = rec]
    BY <2>1
  <2> HIDE DEF rec
  <2> QED
    BY <1>1, <2>2, <2>4, <2>5, <2>6, <2>7, <2>8, OneRun
<1>5. CASE RunRaises(w)
  <2>1. /\ run[w].slot \in Slots /\ scan[run[w].slot] # "absent" /\ UNCHANGED queued
        /\ run' = [run EXCEPT ![w].pc = "failing"]
    BY <1>5 DEF RunRaises, VInv, RunsLinked
  <2> DEFINE rec == [run[w] EXCEPT !.pc = "failing"]
  <2>2. rec \in RunRecords /\ rec.pc = "failing" /\ rec.slot = run[w].slot
    BY <1>2 DEF RunRecords
  <2>3. run' = [run EXCEPT ![w] = rec]
    BY <2>1
  <2> HIDE DEF rec
  <2> QED
    BY <1>1, <2>1, <2>2, <2>3, OneRun
<1> QED
  BY <1>3, <1>4, <1>5

-----------------------------------------------------------------------------
(* The transaction that ends a scan                                        *)

\* What the end of a scan leaves of the rows.
LEMMA EndKeepsRows ==
  ASSUME VInv, NEW v \in Slots, scan[v] = "RUNNING",
         NEW status \in Terminal, NEW ev \in Evidence, EndScan(v, status, ev),
         UNCHANGED clockVars,
         ev.proof => createdAt[v] <= ev.at /\ (ev.pass => ev.at \in wasOn[v[1]])
  PROVE  /\ SealedIffEnded' /\ InOrder' /\ Acknowledged' /\ OnIsRecorded' /\ ReceiptsMatch'
         /\ VerifiedMeansOn'
         /\ \A u \in Slots : scan[u] # "absent" => scan'[u] # "absent" /\ doc'[u] = doc[u]
         /\ \A u \in Slots : scan[u] \in Terminal => scan'[u] = scan[u]
         /\ createdAt' = createdAt
<1>1. /\ scan'[v] = status /\ evidence'[v] = ev /\ receipt'[v] = OutcomeOf(v, status, ev)
      /\ receipt'[v] \in Outcomes
      /\ \A u \in Slots \ {v} : /\ scan'[u] = scan[u] /\ evidence'[u] = evidence[u]
                                /\ receipt'[u] = receipt[u]
      /\ doc' = doc /\ createdAt' = createdAt
  BY EndTypes DEF VInv
<1>2. SealedIffEnded'
  BY <1>1 DEF VInv, SealedIffEnded, Outcomes
<1>3. InOrder'
  <2> SUFFICES ASSUME NEW e \in Executions, NEW k \in 1..MaxAttempts, NEW j \in 1..MaxAttempts,
                      scan'[<<e, k>>] # "absent", j < k
               PROVE  receipt'[<<e, j>>] # "none"
    BY DEF InOrder
  <2>1. <<e, k>> \in Slots /\ <<e, j>> \in Slots
    BY DEF Slots
  <2>2. scan[<<e, k>>] # "absent"
    BY <1>1, <2>1
  <2>3. receipt[<<e, j>>] # "none"
    BY <2>2 DEF VInv, InOrder
  <2> QED
    BY <1>1, <2>1, <2>3 DEF Outcomes
<1>4. Acknowledged' /\ OnIsRecorded'
  BY <1>1 DEF VInv, Acknowledged, OnIsRecorded, clockVars, Terminal
<1>5. ReceiptsMatch'
  <2> SUFFICES ASSUME NEW u \in Slots, receipt'[u] # "none"
               PROVE  receipt'[u] = OutcomeOf(u, scan'[u], evidence'[u])
    BY DEF ReceiptsMatch, OutcomeOf, LaterThan, clockVars
  <2>1. CASE u = v
    BY <1>1, <2>1
  <2>2. CASE u # v
    BY <1>1, <2>2 DEF VInv, ReceiptsMatch
  <2> QED
    BY <2>1, <2>2
<1>6. VerifiedMeansOn'
  <2> SUFFICES ASSUME NEW u \in Slots, receipt'[u] = "VERIFIED"
               PROVE  \E t \in wasOn[u[1]] :
                        t > ackAt[u[1]] /\ t > BaselineAt[u[1]] /\ t >= createdAt[u]
    BY <1>1 DEF VerifiedMeansOn, clockVars
  <2>1. CASE u = v
    <3>1. /\ ev.proof /\ LaterThan(ev.at, v[1]) /\ ev.pass
      BY <1>1, <2>1 DEF OutcomeOf
    <3>2. createdAt[v] \in Nat /\ ev.at \in Nat
      BY VerificationAssumption DEF VInv, TypeOK, Evidence
    <3> QED
      BY <2>1, <3>1, <3>2 DEF LaterThan
  <2>2. CASE u # v
    BY <1>1, <2>2 DEF VInv, VerifiedMeansOn
  <2> QED
    BY <2>1, <2>2
<1> QED
  BY <1>1, <1>2, <1>3, <1>4, <1>5, <1>6 DEF Terminal

\* A step that ends a scan under the guard row, one call and one run at most.
LEMMA EndKeeps ==
  ASSUME VInv, NEW v \in Slots, scan[v] = "RUNNING",
         NEW status \in Terminal, NEW ev \in Evidence, EndScan(v, status, ev),
         ev.proof => createdAt[v] <= ev.at /\ (ev.pass => ev.at \in wasOn[v[1]]),
         UNCHANGED clockVars, UNCHANGED guard, UNCHANGED queued, faults' \in 0..MaxFaults,
         GuardFree,
         call' \in [Callers -> CallRecords],
         \A c \in Callers : \/ call'[c] = call[c]
                            \/ /\ call'[c].pc = "answered" /\ call'[c].slot = call[c].slot
                               /\ call'[c].doc = call[c].doc
                               /\ call[c].pc \notin {"idle", "deciding"},
         run' \in [Runners -> RunRecords],
         \A w \in Runners : run'[w] = run[w] \/ run'[w].pc = "idle"
  PROVE  VInv'
<1>1. /\ SealedIffEnded' /\ InOrder' /\ Acknowledged' /\ OnIsRecorded' /\ ReceiptsMatch'
      /\ VerifiedMeansOn'
      /\ \A u \in Slots : scan[u] # "absent" => scan'[u] # "absent" /\ doc'[u] = doc[u]
      /\ \A u \in Slots : scan[u] \in Terminal => scan'[u] = scan[u]
      /\ createdAt' = createdAt
  BY EndKeepsRows
<1>2. TypeOK'
  <2>1. /\ scan' \in [Slots -> {"absent", "RUNNING"} \cup Terminal]
        /\ evidence' \in [Slots -> Evidence]
        /\ receipt' \in [Slots -> Outcomes \cup {"none"}]
        /\ doc' = doc /\ createdAt' = createdAt
    BY EndTypes DEF VInv
  <2>2. \A u \in Slots : scan'[u] = "absent" <=> scan[u] = "absent"
    BY EndTypes DEF VInv, Terminal
  <2> QED
    BY <2>1, <2>2 DEF VInv, TypeOK, clockVars
<1>3. \A c \in Callers : call[c].pc # "deciding"
  BY VerificationAssumption DEF VInv, SeenIsCurrent, GuardFree
<1>4. SeenIsCurrent'
  BY <1>3 DEF SeenIsCurrent
<1>5. CallsLinked'
  <2> SUFFICES ASSUME NEW c \in Callers, call'[c].pc \notin {"idle", "deciding"}
               PROVE  /\ call'[c].slot \in Slots /\ scan'[call'[c].slot] # "absent"
                      /\ doc'[call'[c].slot] = call'[c].doc
    BY DEF CallsLinked
  <2>1. /\ call[c].slot \in Slots /\ scan[call[c].slot] # "absent"
        /\ doc[call[c].slot] = call[c].doc
    BY DEF VInv, CallsLinked
  <2> QED
    BY <1>1, <2>1
<1>6. ViewsFresh'
  BY <1>1 DEF VInv, ViewsFresh, CallsLinked
<1>7. RunsLinked'
  BY <1>1 DEF VInv, TypeOK, RunsLinked, clockVars
<1> QED
  BY <1>1, <1>2, <1>4, <1>5, <1>6, <1>7 DEF VInv

\* A failed submission ends its scan unless it has ended.
LEMMA FailSubmissionKeeps == ASSUME VInv, NEW c \in Callers, FailSubmission(c) PROVE VInv'
<1>1. /\ call[c].slot \in Slots /\ scan[call[c].slot] # "absent"
      /\ doc[call[c].slot] = call[c].doc /\ call[c].pc = "failing"
  BY DEF FailSubmission, VInv, CallsLinked
<1> DEFINE rec == [NoCall EXCEPT !.pc = "answered", !.doc = call[c].doc, !.slot = call[c].slot]
<1>2. rec \in CallRecords /\ rec.pc = "answered" /\ rec.slot = call[c].slot /\ rec.doc = call[c].doc
  BY <1>1, ReplyRecord DEF VInv
<1>3. call' = [call EXCEPT ![c] = rec]
  BY DEF FailSubmission, Reply
<1> HIDE DEF rec
<1>4. /\ call' \in [Callers -> CallRecords] /\ call'[c] = rec
      /\ \A d \in Callers \ {c} : call'[d] = call[d]
  BY <1>2, <1>3 DEF VInv, TypeOK
<1>5. UNCHANGED clockVars /\ UNCHANGED guard /\ UNCHANGED queued /\ UNCHANGED run /\ UNCHANGED poolVars
  BY DEF FailSubmission, poolVars
<1>6. faults' \in 0..MaxFaults
  BY VerificationAssumption DEF FailSubmission, VInv, TypeOK
<1>7. CASE UNCHANGED rowVars
  <2>1. RunsLinked' /\ queued' \in SUBSET Slots /\ run' \in [Runners -> RunRecords]
    BY <1>5, <1>7 DEF VInv, TypeOK, RunsLinked, rowVars, clockVars
  <2>2. guard' \in Callers \cup {Nobody} /\ guard' = guard
    BY <1>5 DEF VInv, TypeOK
  <2>3. SeenIsCurrent'
    BY <1>2, <1>4, <1>7, <2>2, SeenKept
  <2> QED
    BY <1>1, <1>2, <1>4, <1>5, <1>6, <1>7, <2>1, <2>2, <2>3, OneCall
<1>8. CASE GuardFree /\ scan[call[c].slot] = "RUNNING" /\ EndScan(call[c].slot, "FAILED", NoEvidence)
  <2>1. "FAILED" \in Terminal /\ NoEvidence \in Evidence /\ ~NoEvidence.proof
    BY Initially DEF Terminal, NoEvidence
  <2>2. \A d \in Callers : \/ call'[d] = call[d]
                           \/ /\ call'[d].pc = "answered" /\ call'[d].slot = call[d].slot
                              /\ call'[d].doc = call[d].doc
                              /\ call[d].pc \notin {"idle", "deciding"}
    BY <1>1, <1>2, <1>4
  <2>3. run' \in [Runners -> RunRecords] /\ \A w \in Runners : run'[w] = run[w]
    BY <1>5 DEF VInv, TypeOK
  <2> QED
    BY <1>1, <1>4, <1>5, <1>6, <1>8, <2>1, <2>2, <2>3, EndKeeps
<1> QED
  BY <1>7, <1>8 DEF FailSubmission, FailPending

\* A run ends with its result, with a failure, or without either.
LEMMA RunEnds == ASSUME VInv, NEW w \in Runners, Persist(w) \/ FailRun(w) PROVE VInv'
<1>1. run[w].slot \in Slots /\ scan[run[w].slot] # "absent" /\ run[w] \in RunRecords
  BY DEF Persist, FailRun, VInv, RunsLinked, TypeOK
<1>2. UNCHANGED clockVars /\ UNCHANGED guard /\ UNCHANGED call /\ UNCHANGED queued
  BY DEF Persist, FailRun
<1>3. faults' \in 0..MaxFaults
  BY VerificationAssumption DEF Persist, FailRun, VInv, TypeOK
<1>4. NoRun \in RunRecords /\ NoRun.pc = "idle"
  BY Initially DEF NoRun
<1>5. ASSUME run' = [run EXCEPT ![w] = NoRun]
      PROVE  run' \in [Runners -> RunRecords] /\ \A x \in Runners : run'[x] = run[x] \/ run'[x].pc = "idle"
  BY <1>4, <1>5 DEF VInv, TypeOK
<1>6. call' \in [Callers -> CallRecords] /\ \A c \in Callers : call'[c] = call[c]
  BY <1>2 DEF VInv, TypeOK
<1>7. CASE Persist(w) /\ scan[run[w].slot] = "RUNNING"
  <2>1. /\ EndScan(run[w].slot, run[w].status, run[w].ev) /\ GuardFree
        /\ run' = [run EXCEPT ![w] = NoRun] /\ run[w].pc = "saving"
    BY <1>7 DEF Persist
  <2>2. run[w].status \in Terminal /\ run[w].ev \in Evidence
    BY <1>1 DEF RunRecords, Terminal
  <2>3. run[w].ev.proof => /\ createdAt[run[w].slot] <= run[w].ev.at
                           /\ run[w].ev.pass => run[w].ev.at \in wasOn[run[w].slot[1]]
    BY <2>1 DEF VInv, RunsLinked
  <2> QED
    BY <1>1, <1>2, <1>3, <1>5, <1>6, <1>7, <2>1, <2>2, <2>3, EndKeeps
<1>8. CASE FailRun(w) /\ GuardFree /\ scan[run[w].slot] = "RUNNING" /\ EndScan(run[w].slot, "FAILED", NoEvidence)
  <2>1. "FAILED" \in Terminal /\ NoEvidence \in Evidence /\ ~NoEvidence.proof
    BY Initially DEF Terminal, NoEvidence
  <2>2. run' = [run EXCEPT ![w] = NoRun]
    BY <1>8 DEF FailRun
  <2> QED
    BY <1>1, <1>2, <1>3, <1>5, <1>6, <1>8, <2>1, <2>2, EndKeeps
<1>9. CASE UNCHANGED rowVars
  <2>1. \/ run' = [run EXCEPT ![w] = NoRun]
        \/ run' = [run EXCEPT ![w].pc = "failing"]
    BY DEF Persist, FailRun
  <2>2. /\ run' \in [Runners -> RunRecords]
        /\ \A x \in Runners : \/ run'[x] = run[x] \/ run'[x].pc = "idle"
                              \/ run'[x].pc = "failing" /\ run'[x].slot = run[w].slot
    <3>1. CASE run' = [run EXCEPT ![w] = NoRun]
      BY <1>5, <3>1
    <3>2. CASE run' = [run EXCEPT ![w].pc = "failing"]
      <4> DEFINE rec == [run[w] EXCEPT !.pc = "failing"]
      <4>1. rec \in RunRecords /\ rec.pc = "failing" /\ rec.slot = run[w].slot
        BY <1>1 DEF RunRecords
      <4>2. run' = [run EXCEPT ![w] = rec]
        BY <3>2
      <4> HIDE DEF rec
      <4> QED
        BY <4>1, <4>2 DEF VInv, TypeOK
    <3> QED
      BY <2>1, <3>1, <3>2
  <2>3. RunsLinked' /\ queued' \in SUBSET Slots
    BY <1>1, <1>2, <1>9, <2>2 DEF VInv, TypeOK, RunsLinked, rowVars, clockVars
  <2> QED
    BY <1>2, <1>3, <1>9, <2>2, <2>3, PoolOnly
<1> QED
  BY <1>7, <1>8, <1>9 DEF Persist, FailRun, FailPending

-----------------------------------------------------------------------------
(* The world                                                               *)

\* Time passes, or the write is acknowledged once, after which nothing that was
\* verified can come into question.
LEMMA WorldKeeps ==
  ASSUME VInv, Tick \/ \E e \in Executions : Acknowledge(e)
  PROVE  VInv'
<1>1. UNCHANGED rowVars /\ UNCHANGED guard /\ UNCHANGED call /\ UNCHANGED poolVars /\ UNCHANGED faults
  BY DEF Tick, Acknowledge
<1>2. /\ now' \in 0..Horizon /\ now' >= now /\ now \in 0..Horizon
      /\ setting' \in [Executions -> BOOLEAN]
      /\ wasOn' \in [Executions -> SUBSET (0..Horizon)]
      /\ \A e \in Executions : wasOn[e] \subseteq wasOn'[e]
      /\ ackAt' \in [Executions -> (0..Horizon) \cup {NoTime}]
      /\ \A e \in Executions : ackAt[e] # NoTime => ackAt'[e] = ackAt[e]
  <2>1. CASE Tick
    <3>1. now' = now + 1 /\ now' \in 0..Horizon /\ UNCHANGED ackAt
      BY <2>1, VerificationAssumption DEF Tick, VInv, TypeOK
    <3>2. /\ setting' \in [Executions -> BOOLEAN]
          /\ wasOn' = [e \in Executions |-> IF setting'[e] THEN wasOn[e] \cup {now'} ELSE wasOn[e]]
      BY <2>1 DEF Tick
    <3> QED
      BY <3>1, <3>2, VerificationAssumption DEF VInv, TypeOK
  <2>2. CASE \E e \in Executions : Acknowledge(e)
    BY <2>2, VerificationAssumption DEF Acknowledge, VInv, TypeOK
  <2> QED
    BY <2>1, <2>2
<1>3. OnIsRecorded'
  BY <1>2 DEF Tick, Acknowledge, VInv, TypeOK, OnIsRecorded
<1>4. TypeOK'
  BY <1>1, <1>2 DEF VInv, TypeOK, rowVars, poolVars
<1>5. \A v \in Slots : scan[v] # "absent" => ackAt'[v[1]] = ackAt[v[1]]
  BY <1>2 DEF VInv, Acknowledged, Slots
<1>6. SealedIffEnded' /\ InOrder' /\ CallsLinked' /\ ViewsFresh'
  BY <1>1 DEF VInv, SealedIffEnded, InOrder, CallsLinked, ViewsFresh, rowVars
<1>7. SeenIsCurrent'
  <2>1. \A x : Attempts(x)' = Attempts(x)
    BY <1>1 DEF Attempts, rowVars
  <2> QED
    BY <1>1, <2>1 DEF VInv, SeenIsCurrent, Sees, rowVars
<1>8. Acknowledged'
  BY <1>1, <1>2, <1>5, VerificationAssumption DEF VInv, TypeOK, Acknowledged, rowVars
<1>9. RunsLinked'
  <2>1. \A w \in Runners : run[w].ev.at \in Nat
    BY VerificationAssumption DEF VInv, TypeOK, RunRecords, Evidence
  <2>2. \A w \in Runners : run[w].ev.at <= now => run[w].ev.at <= now'
    BY <1>2, <2>1, VerificationAssumption
  <2> QED
    BY <1>1, <1>2, <2>2 DEF VInv, RunsLinked, rowVars, poolVars, Slots
<1>10. ReceiptsMatch'
  <2>1. \A v \in Slots : receipt[v] # "none" => scan[v] # "absent"
    BY DEF VInv, SealedIffEnded, Terminal
  <2>2. \A v \in Slots : scan[v] # "absent" => OutcomeOf(v, scan[v], evidence[v])' = OutcomeOf(v, scan[v], evidence[v])
    BY <1>1, <1>5 DEF OutcomeOf, LaterThan, rowVars
  <2> QED
    BY <1>1, <2>1, <2>2 DEF VInv, ReceiptsMatch, rowVars
<1>11. VerifiedMeansOn'
  <2>1. \A v \in Slots : receipt[v] # "none" => scan[v] # "absent"
    BY DEF VInv, SealedIffEnded, Terminal
  <2> QED
    BY <1>1, <1>2, <1>5, <2>1 DEF VInv, VerifiedMeansOn, rowVars, Slots
<1> QED
  BY <1>3, <1>4, <1>6, <1>7, <1>8, <1>9, <1>10, <1>11 DEF VInv

\* The end of the process leaves the tables.
LEMMA CrashKeeps == ASSUME VInv, Crash PROVE VInv'
<1>1. /\ UNCHANGED rowVars /\ UNCHANGED clockVars /\ guard' = Nobody
      /\ call' = [c \in Callers |-> NoCall] /\ queued' = {} /\ run' = [w \in Runners |-> NoRun]
      /\ faults' \in 0..MaxFaults
  BY VerificationAssumption DEF Crash, VInv, TypeOK
<1>2. NoCall \in CallRecords /\ NoRun \in RunRecords /\ NoCall.pc = "idle" /\ NoRun.pc = "idle"
  BY Initially DEF NoCall, NoRun
<1>3. /\ SealedIffEnded' /\ InOrder' /\ Acknowledged' /\ OnIsRecorded' /\ ReceiptsMatch'
      /\ VerifiedMeansOn'
  BY <1>1, RowsKept
<1>4. TypeOK'
  BY <1>1, <1>2 DEF VInv, TypeOK, rowVars, clockVars
<1>5. SeenIsCurrent' /\ CallsLinked' /\ ViewsFresh' /\ RunsLinked'
  BY <1>1, <1>2 DEF SeenIsCurrent, CallsLinked, ViewsFresh, RunsLinked
<1> QED
  BY <1>3, <1>4, <1>5 DEF VInv

-----------------------------------------------------------------------------
(* The inductive invariant                                                 *)

\* It holds of the empty tables.
LEMMA InitVInv == Init => VInv
<1> SUFFICES ASSUME Init PROVE VInv
  OBVIOUS
<1>1. NoCall.pc = "idle" /\ NoRun.pc = "idle"
  BY DEF NoCall, NoRun
<1>2. TypeOK
  BY Initially, VerificationAssumption DEF Init, TypeOK, Outcomes
<1>3. SealedIffEnded /\ InOrder /\ Acknowledged /\ OnIsRecorded /\ ReceiptsMatch /\ VerifiedMeansOn
  BY DEF Init, SealedIffEnded, InOrder, Acknowledged, OnIsRecorded, ReceiptsMatch,
         VerifiedMeansOn, Terminal, Slots
<1>4. SeenIsCurrent /\ CallsLinked /\ ViewsFresh /\ RunsLinked
  BY <1>1 DEF Init, SeenIsCurrent, CallsLinked, ViewsFresh, RunsLinked
<1> QED
  BY <1>2, <1>3, <1>4 DEF VInv

\* Every step keeps it.
LEMMA StepKeeps == VInv /\ [Next]_vars => VInv'
<1> SUFFICES ASSUME VInv, [Next]_vars PROVE VInv'
  OBVIOUS
<1>1. CASE UNCHANGED vars
  <2>1. UNCHANGED rowVars /\ UNCHANGED clockVars /\ UNCHANGED guard /\ UNCHANGED call
        /\ UNCHANGED poolVars /\ UNCHANGED faults
    BY <1>1 DEF vars
  <2> QED
    BY <2>1, PoolKept, PoolOnly
<1>2. CASE World
  BY <1>2, WorldKeeps, CrashKeeps DEF World
<1>3. ASSUME NEW c \in Callers, Call(c)
      PROVE  VInv'
  BY <1>3, EnterKeeps, AbandonKeeps, ReplayKeeps, AdmitKeeps, SubmitKeeps, FailSubmissionKeeps,
     ViewKeeps DEF Call, KeyConflict, Refuse, DatabaseFails
<1>4. ASSUME NEW v \in Slots, Resume(v)
      PROVE  VInv'
  BY <1>4, ResumeKeeps
<1>5. ASSUME NEW w \in Runners, Execute(w)
      PROVE  VInv'
  BY <1>5, CollectKeeps, RunEnds DEF Execute
<1> QED
  BY <1>1, <1>2, <1>3, <1>4, <1>5 DEF Next

THEOREM VerificationInductive == Spec => []VInv
BY InitVInv, StepKeeps, PTL DEF Spec

-----------------------------------------------------------------------------
(* What the invariant gives                                                *)

\* Rows, calls and runs keep the values their columns and records admit.
THEOREM VerificationTypes == Spec => []TypeOK
BY VerificationInductive, PTL DEF VInv

\* seal_receipt runs in the transaction that ends the scan: an attempt is ended
\* and sealed together, whatever calls, crashes and failures there are.
THEOREM SealingIsAtomic == Spec => []SealedIffEnded
BY VerificationInductive, PTL DEF VInv

\* postcondition_for says VERIFIED only of a setting that was on after the
\* acknowledgement, the baseline and the request.
THEOREM VerifiedCorrect == Spec => []VerifiedMeansOn
BY VerificationInductive, PTL DEF VInv

\* _receipt, which loads the scan again, never meets half of a sealed scan.
THEOREM ReadsCorrect == Spec => []ReadsNeverConflict
<1>1. VInv => ReadsNeverConflict
  <2> SUFFICES ASSUME VInv, NEW c \in Callers, call[c].pc = "receipt"
               PROVE  Shown(c) # "conflict"
    BY DEF ReadsNeverConflict
  <2> DEFINE v == call[c].slot
  <2>1. v \in Slots /\ scan[v] # "absent" /\ scan[v] \in {"absent", "RUNNING"} \cup Terminal
    BY DEF VInv, CallsLinked, TypeOK
  <2>2. /\ call[c].scan # "absent" /\ call[c].scan \in {"absent", "RUNNING"} \cup Terminal
        /\ call[c].scan \in Terminal => scan[v] = call[c].scan
    BY DEF VInv, ViewsFresh, TypeOK, CallRecords
  <2>3. CASE receipt[v] = "none"
    <3>1. scan[v] \notin Terminal
      BY <2>1, <2>3 DEF VInv, SealedIffEnded
    <3>2. call[c].scan = "RUNNING"
      BY <2>2, <3>1
    <3> QED
      BY <2>3, <3>2 DEF Shown
  <2>4. CASE receipt[v] # "none"
    <3>1. scan[v] \in Terminal /\ receipt[v] = OutcomeOf(v, scan[v], evidence[v])
      BY <2>1, <2>4 DEF VInv, SealedIffEnded, ReceiptsMatch
    <3>2. ScanBeside(c) = scan[v]
      BY <2>2 DEF ScanBeside
    <3> QED
      BY <2>4, <3>1, <3>2 DEF Shown
  <2> QED
    BY <2>3, <2>4
<1> QED
  BY <1>1, VerificationInductive, PTL

\* A retry is answered with the verification of its own document.
THEOREM AnswersCorrect == Spec => []AnswersAreOwn
<1>1. VInv => AnswersAreOwn
  BY DEF VInv, CallsLinked, AnswersAreOwn
<1> QED
  BY <1>1, VerificationInductive, PTL

-----------------------------------------------------------------------------
(* The refinement                                                          *)

\* The abstract state.
ReceiptsOf == [e \in Executions |-> [k \in 1..MaxAttempts |-> Attempt(<<e, k>>)]]

\* A step of one verification is a step of its attempt alone.
LEMMA OneAttempt ==
  ASSUME NEW e \in Executions, NEW k \in 1..MaxAttempts,
         \A u \in Slots \ {<<e, k>>} : scan'[u] = scan[u] /\ receipt'[u] = receipt[u]
  PROVE  ReceiptsOf' = [ReceiptsOf EXCEPT ![e][k] = Attempt(<<e, k>>)']
<1>1. \A f \in Executions, j \in 1..MaxAttempts :
        <<f, j>> \in Slots /\ (<<f, j>> = <<e, k>> <=> f = e /\ j = k)
  BY DEF Slots
<1>2. \A f \in Executions, j \in 1..MaxAttempts :
        ~(f = e /\ j = k) => Attempt(<<f, j>>)' = Attempt(<<f, j>>)
  BY <1>1 DEF Attempt
<1> QED
  BY <1>1, <1>2 DEF ReceiptsOf

\* Admit opens the next attempt.
LEMMA AdmitOpens ==
  ASSUME VInv, NEW c \in Callers, Admit(c)
  PROVE  Promise!ANext
<1>1. /\ call[c].pc = "deciding" /\ ~call[c].open /\ call[c].prior < MaxAttempts
  BY DEF Admit, Admissible
<1>2. /\ call[c].doc \in Documents /\ call[c].prior = Cardinality(Attempts(call[c].doc.exec))
      /\ \A j \in Attempts(call[c].doc.exec) : receipt[<<call[c].doc.exec, j>>] # "none"
  BY <1>1 DEF VInv, SeenIsCurrent, Sees
<1>3. call[c].doc.exec \in Executions /\ call[c].prior + 1 \in 1..MaxAttempts
  <2>1. call[c].prior \in Nat
    BY VerificationAssumption DEF VInv, TypeOK, CallRecords
  <2> QED
    BY <1>1, <1>2, <2>1, VerificationAssumption
<1>4. PICK e \in Executions, k \in 1..MaxAttempts : e = call[c].doc.exec /\ k = call[c].prior + 1
  BY <1>3
<1>5. /\ scan[<<e, k>>] = "absent" /\ scan' = [scan EXCEPT ![<<e, k>>] = "RUNNING"]
      /\ receipt' = receipt /\ k = Cardinality(Attempts(e)) + 1
      /\ \A j \in Attempts(e) : receipt[<<e, j>>] # "none"
  BY <1>2, <1>4 DEF Admit
<1>6. <<e, k>> \in Slots
  BY DEF Slots
<1>7. scan'[<<e, k>>] = "RUNNING" /\ receipt[<<e, k>>] = "none"
      /\ \A u \in Slots \ {<<e, k>>} : scan'[u] = scan[u] /\ receipt'[u] = receipt[u]
  BY <1>5, <1>6 DEF VInv, TypeOK, SealedIffEnded, Terminal
<1>8. Attempt(<<e, k>>) = "unused" /\ Attempt(<<e, k>>)' = "open"
  BY <1>5, <1>7 DEF Attempt
<1>9. \A j \in 1..k - 1 : Attempt(<<e, j>>) \in Outcomes
  <2> SUFFICES ASSUME NEW j \in 1..k - 1
               PROVE  Attempt(<<e, j>>) \in Outcomes
    OBVIOUS
  <2>1. j \in 1..MaxAttempts /\ j < k
    BY VerificationAssumption
  <2>2. scan[<<e, j>>] # "absent"
    BY <1>5, <2>1, NextAttempt DEF VInv, TypeOK
  <2>3. j \in Attempts(e) /\ <<e, j>> \in Slots
    BY <2>1, <2>2 DEF Attempts, Slots
  <2>4. receipt[<<e, j>>] # "none" /\ receipt[<<e, j>>] \in Outcomes \cup {"none"}
    BY <1>5, <2>3 DEF VInv, TypeOK
  <2> QED
    BY <2>2, <2>4 DEF Attempt
<1>10. ReceiptsOf' = [ReceiptsOf EXCEPT ![e][k] = Attempt(<<e, k>>)']
  BY <1>7, OneAttempt
<1>11. ReceiptsOf[e][k] = "unused" /\ \A j \in 1..k - 1 : ReceiptsOf[e][j] \in Outcomes
  BY <1>8, <1>9, VerificationAssumption DEF ReceiptsOf
<1>12. ReceiptsOf' = [ReceiptsOf EXCEPT ![e][k] = "open"]
  BY <1>8, <1>10
<1>13. Promise!AOpen(e, k)
  BY <1>11, <1>12 DEF Promise!AOpen, ReceiptsOf
<1> QED
  BY <1>13 DEF Promise!ANext

\* The end of a scan gives its attempt an outcome.
LEMMA EndSeals ==
  ASSUME VInv, NEW v \in Slots, scan[v] = "RUNNING",
         NEW status \in Terminal, NEW ev \in Evidence, EndScan(v, status, ev)
  PROVE  Promise!ANext
<1>1. PICK e \in Executions, k \in 1..MaxAttempts : v = <<e, k>>
  BY DEF Slots
<1>2. /\ scan'[v] = status /\ receipt'[v] \in Outcomes
      /\ \A u \in Slots \ {v} : scan'[u] = scan[u] /\ receipt'[u] = receipt[u]
  BY EndTypes DEF VInv
<1>3. receipt[v] = "none"
  BY DEF VInv, TypeOK, SealedIffEnded, Terminal
<1>4. Attempt(<<e, k>>) = "open" /\ Attempt(<<e, k>>)' = receipt'[v] /\ receipt'[v] \in Outcomes
  BY <1>1, <1>2, <1>3 DEF Attempt, Terminal, Outcomes
<1>5. ReceiptsOf' = [ReceiptsOf EXCEPT ![e][k] = Attempt(<<e, k>>)']
  BY <1>1, <1>2, OneAttempt
<1>6. ReceiptsOf[e][k] = "open"
  BY <1>4 DEF ReceiptsOf
<1>7. \E o \in Outcomes : ReceiptsOf' = [ReceiptsOf EXCEPT ![e][k] = o]
  BY <1>4, <1>5
<1>8. Promise!ASeal(e, k)
  BY <1>6, <1>7 DEF Promise!ASeal, ReceiptsOf
<1> QED
  BY <1>8 DEF Promise!ANext

\* Every step is a step of the attempts or none.
LEMMA StepRefines == VInv /\ VInv' /\ [Next]_vars => [Promise!ANext]_ReceiptsOf
<1> SUFFICES ASSUME VInv, VInv', [Next]_vars
             PROVE  Promise!ANext \/ ReceiptsOf' = ReceiptsOf
  OBVIOUS
<1>1. CASE UNCHANGED <<scan, receipt>>
  BY <1>1 DEF ReceiptsOf, Attempt
<1>2. ASSUME NEW c \in Callers, Call(c)
      PROVE  Promise!ANext \/ UNCHANGED <<scan, receipt>>
  <2>1. CASE Admit(c)
    BY <2>1, AdmitOpens
  <2>2. CASE FailSubmission(c)
    <3>1. call[c].slot \in Slots
      BY <2>2 DEF FailSubmission, VInv, CallsLinked
    <3>2. "FAILED" \in Terminal /\ NoEvidence \in Evidence
      BY Initially DEF Terminal
    <3> QED
      BY <2>2, <3>1, <3>2, EndSeals DEF FailSubmission, FailPending, rowVars
  <2>3. CASE ~Admit(c) /\ ~FailSubmission(c)
    BY <1>2, <2>3 DEF Call, Enter, Replay, KeyConflict, Refuse, DatabaseFails, Abandon, Submit,
       SubmitRaises, OpenView, ViewScan, ViewReceipt, rowVars
  <2> QED
    BY <2>1, <2>2, <2>3
<1>3. ASSUME NEW w \in Runners, Execute(w)
      PROVE  Promise!ANext \/ UNCHANGED <<scan, receipt>>
  <2>1. CASE Persist(w) \/ FailRun(w)
    <3>1. run[w].slot \in Slots /\ run[w] \in RunRecords
      BY <2>1 DEF Persist, FailRun, VInv, RunsLinked, TypeOK
    <3>2. "FAILED" \in Terminal /\ NoEvidence \in Evidence
      BY Initially DEF Terminal
    <3>3. run[w].status \in Terminal /\ run[w].ev \in Evidence
      BY <3>1 DEF RunRecords, Terminal
    <3> QED
      BY <2>1, <3>1, <3>2, <3>3, EndSeals DEF Persist, FailRun, FailPending, rowVars
  <2>2. CASE StartScan(w) \/ Collect(w) \/ RunRaises(w)
    BY <2>2 DEF StartScan, Collect, RunRaises, rowVars
  <2> QED
    BY <1>3, <2>1, <2>2 DEF Execute
<1>4. World => UNCHANGED <<scan, receipt>>
  BY DEF World, Tick, Acknowledge, Crash, rowVars
<1>5. \A v \in Slots : Resume(v) => UNCHANGED <<scan, receipt>>
  BY DEF Resume, rowVars
<1>6. UNCHANGED vars => UNCHANGED <<scan, receipt>>
  BY DEF vars, rowVars
<1> QED
  BY <1>1, <1>2, <1>3, <1>4, <1>5, <1>6 DEF Next

\* Linked verification implements numbered attempts with final outcomes.
THEOREM VerificationRefines == Spec => AttemptsSpec
<1>1. Init => Promise!AInit
  BY DEF Init, Promise!AInit, Attempt, Slots
<1>2. VInv /\ VInv' /\ [Next]_vars => [Promise!ANext]_ReceiptsOf
  BY StepRefines
<1> QED
  BY <1>1, <1>2, VerificationInductive, PTL DEF Spec, AttemptsSpec, Promise!ASpec, ReceiptsOf

=============================================================================
