---------------------------- MODULE MCScanExecutor ----------------------------
(***************************************************************************)
(* Small instances of ScanExecutor: scans s1 to s5 start in this order.     *)
(***************************************************************************)
EXTENDS ScanExecutor, TLC

CONSTANTS s1, s2, s3, s4, s5

MCStartedAt == [s \in Scans |-> IF s = s1 THEN 1 ELSE IF s = s2 THEN 2
                                ELSE IF s = s3 THEN 3
                                ELSE IF s = s4 THEN 4 ELSE 5]

\* Futures have no identity of their own.
MCSymmetry == Permutations(Jobs)
===============================================================================
