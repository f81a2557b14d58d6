----------------------------- MODULE WriteAuthority -----------------------------
(***************************************************************************)
(* What the remediation subsystem promises about writes to AWS, with no    *)
(* leases, tokens, reads, journals or processes.                           *)
(*                                                                         *)
(* An execution first holds its target, is then granted one write, and     *)
(* gives the target up again only when it never got the grant or when the  *)
(* write is known to have landed.  A write whose outcome is unknown keeps  *)
(* the target for ever.  An execution that was barred before its grant is  *)
(* never granted, and nothing is issued twice.                             *)
(***************************************************************************)
CONSTANTS
  Execs,    \* the executions
  TargetOf  \* the target each of them writes to

VARIABLES
  stage,    \* where each execution stands
  barred,   \* executions whose authority is gone
  issued,   \* executions whose write was sent
  pending   \* sent writes that may still take effect

avars == <<stage, barred, issued, pending>>

Stages == {"waiting", "holding", "granted", "confirmed", "uncertain", "dropped"}

Rivals(e) == {x \in Execs \ {e} : TargetOf[x] = TargetOf[e]}

Init ==
  /\ stage = [e \in Execs |-> "waiting"]
  /\ barred \subseteq Execs
  /\ issued = {}
  /\ pending = {}

\* Authority is lost by any number of executions at once (time passes) and is
\* only ever gained before the execution exists.
Bar ==
  /\ barred' \in SUBSET Execs
  /\ \A e \in barred \ barred' : stage[e] = "waiting"
  /\ UNCHANGED <<stage, issued, pending>>

\* Takes the target; rivals that held it without a grant lose it, and so may
\* other executions whose authority is gone.
Hold(e) ==
  /\ stage[e] = "waiting" /\ e \notin barred
  /\ \E D \in SUBSET {x \in barred : stage[x] = "holding"} :
       /\ \A x \in Rivals(e) : stage[x] \in {"holding", "granted", "uncertain"} => x \in D
       /\ stage' = [[x \in Execs |-> IF x \in D THEN "dropped" ELSE stage[x]]
                     EXCEPT ![e] = "holding"]
  /\ UNCHANGED <<barred, issued, pending>>

Move(e, from, to) ==
  /\ stage[e] \in from
  /\ stage' = [stage EXCEPT ![e] = to]
  /\ UNCHANGED <<barred, issued, pending>>

Drop(e) == Move(e, {"holding"}, "dropped")
Grant(e) == e \notin barred /\ Move(e, {"holding"}, "granted")
Doubt(e) == Move(e, {"granted"}, "uncertain")
Confirm(e) == e \in issued \ pending /\ Move(e, {"granted"}, "confirmed")

Issue(e) ==
  /\ stage[e] \in {"granted", "uncertain"}
  /\ e \notin issued
  /\ issued' = issued \cup {e}
  /\ pending' = pending \cup {e}
  /\ UNCHANGED <<stage, barred>>

Land(e) ==
  /\ e \in pending
  /\ pending' = pending \ {e}
  /\ UNCHANGED <<stage, barred, issued>>

Next ==
  \/ Bar
  \/ \E e \in Execs : \/ Hold(e) \/ Drop(e) \/ Grant(e) \/ Doubt(e) \/ Confirm(e)
                      \/ Issue(e) \/ Land(e)

Spec == Init /\ [][Next]_avars
-----------------------------------------------------------------------------
\* At most one execution of a target holds it, with or without a grant.
OneHolderPerTarget ==
  \A e \in Execs : \A x \in Rivals(e) :
    ~ {stage[e], stage[x]} \subseteq {"holding", "granted", "uncertain"}

\* A write that may still take effect belongs to the target's current holder.
PendingWriteHoldsTarget ==
  \A e \in pending : stage[e] \in {"granted", "uncertain"}
=============================================================================
