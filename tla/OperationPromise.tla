--------------------------- MODULE OperationPromise ---------------------------
(***************************************************************************)
(* What the dashboard promises about an operation, with no tabs, sessions,    *)
(* cookies, calls or clock: it is attempted while it is prepared or without a *)
(* confirmed outcome, one attempt at a time, takes effect only once it was     *)
(* attempted, and is confirmed only once it took effect. What expired or was   *)
(* dropped with its session is never attempted again.                          *)
(***************************************************************************)
CONSTANT Operations

VARIABLES
  shown,      \* what the browser is shown of each operation
  attempted,  \* operations of which an attempt was made
  recorded    \* operations that took effect

pvars == <<shown, attempted, recorded>>

Init == shown = [o \in Operations |-> "absent"] /\ attempted = {} /\ recorded = {}

Move(o, from, to) == shown[o] \in from /\ shown' = [shown EXCEPT ![o] = to]

Prepare(o) == Move(o, {"absent"}, "PREPARED") /\ UNCHANGED <<attempted, recorded>>

\* Time passes or sessions end.
Lapse ==
  /\ \E expired, gone \in SUBSET Operations :
       /\ \A o \in expired : shown[o] = "PREPARED"
       /\ \A o \in gone : shown[o] # "absent"
       /\ shown' = [o \in Operations |->
            IF o \in gone THEN "dropped" ELSE IF o \in expired THEN "EXPIRED" ELSE shown[o]]
  /\ UNCHANGED <<attempted, recorded>>

Attempt(o) ==
  /\ Move(o, {"PREPARED", "UNCONFIRMED"}, "IN_FLIGHT")
  /\ attempted' = attempted \cup {o}
  /\ UNCHANGED recorded

GiveUp(o) == Move(o, {"IN_FLIGHT"}, "UNCONFIRMED") /\ UNCHANGED <<attempted, recorded>>

Confirm(o) == o \in recorded /\ Move(o, {"IN_FLIGHT"}, "CONFIRMED") /\ UNCHANGED <<attempted, recorded>>

\* Also after the attempt was given up.
TakeEffect(o) ==
  /\ o \in attempted
  /\ recorded' = recorded \cup {o}
  /\ UNCHANGED <<shown, attempted>>

Next ==
  \/ Lapse
  \/ \E o \in Operations :
       Prepare(o) \/ Attempt(o) \/ GiveUp(o) \/ Confirm(o) \/ TakeEffect(o)

Spec == Init /\ [][Next]_pvars
===============================================================================
