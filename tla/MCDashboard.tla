---- MODULE MCDashboard ----
(***************************************************************************)
(* Two tabs of one browser and one operation that is submitted twice, for    *)
(* safety with a second session that replaces the first.  A session ends     *)
(* with its time, by a logout, a sign-in, a rejected token or a restart,     *)
(* before or after the operation expires.                                    *)
(***************************************************************************)
EXTENDS Dashboard, TLC

\* Tabs differ in nothing, sessions neither.
MCSymmetry == Permutations(Tabs) \cup Permutations(Sessions)
====
