------------------------- MODULE MCRequestCoordinator -------------------------
(* The instance of RequestCoordinator for TLC. *)
EXTENDS RequestCoordinator
=============================================================================
