---------------------------- MODULE MCPostedDeals ----------------------------
(* Instances of PostedDeals for TLC. *)
EXTENDS PostedDeals
=============================================================================
