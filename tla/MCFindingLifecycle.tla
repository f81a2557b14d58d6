-------------------------- MODULE MCFindingLifecycle --------------------------
(***************************************************************************)
(* Small instances of FindingLifecycle.  Scans s2 and s3 observe at the     *)
(* same moment, between s1 and s4.                                          *)
(***************************************************************************)
EXTENDS FindingLifecycle, TLC

CONSTANTS s1, s2, s3, s4, k1, k2, k3

MCObservedAt == [s \in Scans |-> IF s = s1 THEN 1 ELSE IF s = s4 THEN 3 ELSE 2]

\* Scans that observe at the same moment differ in nothing.
MCSymmetry == Permutations({s2, s3})

MCResourceOf == [k \in Keys |-> IF k = k2 THEN 2 ELSE IF k = k3 THEN 3 ELSE 1]
===============================================================================
