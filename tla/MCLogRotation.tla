--------------------------- MODULE MCLogRotation ---------------------------
(* Instances of LogRotation for TLC: two threads of one process, or one     *)
(* thread each of the parent and the worker.                                 *)
EXTENDS LogRotation

CONSTANTS t1, t2, p1, p2

MCHomes == {[t \in {t1, t2} |-> p1], [t \in {t1, t2} |-> IF t = t1 THEN p1 ELSE p2]}
=============================================================================
