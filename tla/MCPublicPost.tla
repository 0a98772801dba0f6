---------------------------- MODULE MCPublicPost ----------------------------
(* Instances of PublicPost for TLC.  The callers run the same code and no     *)
(* property names one, so the runs with two of them may use symmetry.         *)
EXTENDS PublicPost, TLC

CallerSymmetry == Permutations(Callers)
=============================================================================
