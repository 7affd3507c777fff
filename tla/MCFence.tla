------------------------------- MODULE MCFence -------------------------------
(* Instances of Fence for TLC.                                              *)
EXTENDS Fence

\* Runs 1 and 2 are of one task, the others of tasks of their own.
Resumed == [r \in Runs |-> IF r = 2 THEN 1 ELSE r]
=============================================================================
