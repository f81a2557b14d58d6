------------------------- MODULE MCRemediationWorker -------------------------
(***************************************************************************)
(* Small instances of RemediationWorker: proposals a and b compete for the *)
(* target t1, and c, when it is an execution, has the target t2.           *)
(***************************************************************************)
EXTENDS RemediationWorker

CONSTANTS a, b, c, t1, t2, w1, w2

MCTargetOf == [e \in Execs |-> IF e = c THEN t2 ELSE t1]

\* The proposal of a expires before an execution window that starts late.
MCProposalExpiry == [e \in Execs |-> IF e = a THEN 3 ELSE Horizon]
==============================================================================
