-------------------------- MODULE MCRetailerEvents --------------------------
(* Instances of RetailerEvents for TLC. *)
EXTENDS RetailerEvents, TLC

Symmetry == Permutations(Workers) \cup Permutations(Events)
=============================================================================
