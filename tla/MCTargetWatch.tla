---------------------------- MODULE MCTargetWatch ----------------------------
(* Instances of TargetWatch for TLC. *)
EXTENDS TargetWatch

Offer(p, r, s, m) == [price |-> p, regular |-> r, stock |-> s, promo |-> m]

(* A regular price, a drop and a drop out of stock. *)
FewOffers == {Offer(10, 10, "in", "none"), Offer(5, 10, "in", "none"),
              Offer(5, 10, "out", "none")}
=============================================================================
