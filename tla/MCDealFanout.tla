---------------------------- MODULE MCDealFanout ----------------------------
(* Instances of DealFanout for TLC: every offer has the same price. *)
EXTENDS DealFanout

OnePrice == [o \in Offers |-> 1]
=============================================================================
