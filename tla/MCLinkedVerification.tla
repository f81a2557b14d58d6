------------------------ MODULE MCLinkedVerification ------------------------
(***************************************************************************)
(* Small instances of LinkedVerification: two keys are used for the same      *)
(* execution, of which one is used again with another reason.                *)
(***************************************************************************)
EXTENDS LinkedVerification, TLC

CONSTANTS e1, k1, k2

MCDocuments ==
  {[key |-> k1, exec |-> e1, reason |-> "first"],
   [key |-> k1, exec |-> e1, reason |-> "second"],
   [key |-> k2, exec |-> e1, reason |-> "first"]}

\* Callers differ in nothing.
MCSymmetry == Permutations(Callers)

MCBaselineAt == [e \in Executions |-> 0]
=============================================================================
