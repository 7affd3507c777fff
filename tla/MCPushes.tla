------------------------------ MODULE MCPushes ------------------------------
(* Instances of Pushes for TLC.                                             *)
EXTENDS Pushes, TLC

\* A feature branch whose last segment is a name somebody else may have chosen.
LastSegment == [b \in Branches |-> "web"]

\* Where pushes land in the instance: run names, a branch, a pass marker, and what
\* holds the result of another task.
Landings == {AnonRef, OKRef("web")} \cup {TaskRef(n) : n \in Names} \cup ({"heads"} \X Branches)
              \cup {ResultRef(p) : p \in Pushes}

Symmetry == Permutations(Pushes) \cup Permutations(Commits)
=============================================================================
