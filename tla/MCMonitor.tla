----------------------------- MODULE MCMonitor ------------------------------
(***************************************************************************)
(* An instance of Monitor for TLC.                                         *)
(***************************************************************************)
EXTENDS Monitor

CONSTANTS t1, t2, t3

\* One thread that comes twice, and two that come once.
Bounds == [t \in {t1, t2, t3} |-> IF t = t1 THEN 2 ELSE 1]
=============================================================================
