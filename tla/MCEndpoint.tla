----------------------------- MODULE MCEndpoint -----------------------------
(* Instances of Endpoint for TLC: requests are interchangeable. *)
EXTENDS Endpoint, TLC

Symmetry == Permutations(Requests)
=============================================================================
