------------------------------ MODULE MCSched ------------------------------
(* Instances of the scheduler for TLC.                                     *)
EXTENDS Sched

None     == [t \in Tasks |-> 0]

\* The older task is the bigger one.
Graded   == [t \in Tasks |-> IF t = 1 THEN 2 ELSE 1]
=============================================================================
