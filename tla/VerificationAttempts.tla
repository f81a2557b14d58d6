------------------------ MODULE VerificationAttempts ------------------------
(***************************************************************************)
(* What linked verification promises of one execution: its attempts are     *)
(* numbered from 1 without a gap, at most one of them is open, there are at *)
(* most MaxAttempts, and an attempt that has an outcome keeps it.           *)
(***************************************************************************)
EXTENDS Integers

CONSTANTS Executions, MaxAttempts, Outcomes

VARIABLE attempts     \* of each execution: what became of each attempt

AInit == attempts = [e \in Executions |-> [k \in 1..MaxAttempts |-> "unused"]]

AOpen(e, k) ==
  /\ attempts[e][k] = "unused"
  /\ \A j \in 1..k - 1 : attempts[e][j] \in Outcomes
  /\ attempts' = [attempts EXCEPT ![e][k] = "open"]

ASeal(e, k) ==
  /\ attempts[e][k] = "open"
  /\ \E o \in Outcomes : attempts' = [attempts EXCEPT ![e][k] = o]

ANext == \E e \in Executions, k \in 1..MaxAttempts : AOpen(e, k) \/ ASeal(e, k)

ASpec == AInit /\ [][ANext]_attempts
=============================================================================
