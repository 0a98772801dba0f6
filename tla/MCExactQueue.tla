---------------------------- MODULE MCExactQueue ----------------------------
(* Instances of ExactQueue for TLC.  Workers are interchangeable: no action
   or invariant names one, so the safety run with two of them uses symmetry.
   Prices are only compared for equality, so that run starts with one of them:
   what the item costs first makes no difference. *)
EXTENDS ExactQueue, TLC

WorkerSymmetry == Permutations(Workers)

FirstPrice == CHOOSE p \in Prices : TRUE
OnePriceInit == Init /\ world = FirstPrice
OnePriceSpec == OnePriceInit /\ [][Next]_vars
=============================================================================
