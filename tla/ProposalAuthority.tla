-------------------------- MODULE ProposalAuthority --------------------------
(***************************************************************************)
(* What proposing and deciding promises: a key of an actor is spent on one  *)
(* request, and a proposal is approved or rejected once, revoked only after *)
(* an approval, and decided by somebody other than its proposer.            *)
(***************************************************************************)
CONSTANTS Proposals, Requests, Nobody

VARIABLES
  taken,     \* requests that took effect
  status,    \* approval_status of each proposal
  proposer   \* the actor of each proposal

SameKey(r, t) == r.actor = t.actor /\ r.op = t.op /\ r.key = t.key

PInit ==
  /\ taken = {}
  /\ status = [p \in Proposals |-> "none"]
  /\ proposer = [p \in Proposals |-> Nobody]

Fresh(r) == r \in Requests /\ \A t \in taken : ~SameKey(r, t)

PPropose(r, p) ==
  /\ r.op = "CREATE" /\ status[p] = "none"
  /\ status' = [status EXCEPT ![p] = "PROPOSED"]
  /\ proposer' = [proposer EXCEPT ![p] = r.actor]

PDecide(r, p) ==
  /\ r.op = "DECIDE" /\ r.proposal = p /\ status[p] = "PROPOSED"
  /\ r.actor # proposer[p]
  /\ status' = [status EXCEPT ![p] = IF r.verdict = "APPROVE" THEN "APPROVED" ELSE "REJECTED"]
  /\ UNCHANGED proposer

PRevoke(r, p) ==
  /\ r.op = "REVOKE" /\ r.proposal = p /\ status[p] = "APPROVED"
  /\ status' = [status EXCEPT ![p] = "REVOKED"]
  /\ UNCHANGED proposer

PNext ==
  \E r \in Requests, p \in Proposals :
    /\ Fresh(r)
    /\ taken' = taken \cup {r}
    /\ PPropose(r, p) \/ PDecide(r, p) \/ PRevoke(r, p)

PSpec == PInit /\ [][PNext]_<<taken, status, proposer>>
==============================================================================
