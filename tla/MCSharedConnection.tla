-------------------------- MODULE MCSharedConnection --------------------------
(* The instance of SharedConnection for TLC: its constants are in the .cfg. *)
EXTENDS SharedConnection
=============================================================================
