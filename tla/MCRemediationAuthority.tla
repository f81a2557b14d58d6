----------------------- MODULE MCRemediationAuthority -----------------------
(***************************************************************************)
(* A small instance of RemediationAuthority.  alice proposes on two         *)
(* findings, twice under one key; bob decides, and reuses a key; alice      *)
(* tries to decide on her own proposal.                                     *)
(***************************************************************************)
EXTENDS RemediationAuthority, TLC

CONSTANTS alice, bob, k1, k2, f1, f2, p1, p2, s1, s2

Create(key, f) ==
  [op |-> "CREATE", actor |-> alice, key |-> key, finding |-> f, occurrence |-> 1]
Verdict(actor, key, p, verdict) ==
  [op |-> "DECIDE", actor |-> actor, key |-> key, proposal |-> p, verdict |-> verdict]
Revocation(actor, key, p) ==
  [op |-> "REVOKE", actor |-> actor, key |-> key, proposal |-> p]

MCRequests ==
  {Create(k1, f1), Create(k1, f2), Create(k2, f1),
   Verdict(bob, k1, p1, "APPROVE"), Verdict(bob, k2, p1, "REJECT"),
   Verdict(bob, k1, p2, "APPROVE"), Verdict(alice, k1, p1, "APPROVE"),
   Revocation(alice, k1, p1)}

\* Only the first finding is governed and scanned again.
MCMaxEvents == [f \in Findings |-> IF f = f1 THEN 1 ELSE 0]
MCMaxScans == [f \in Findings |-> IF f = f1 THEN 2 ELSE 1]

Symmetric == Permutations(Sessions)
==============================================================================
