----------------------------- MODULE MCPersist -----------------------------
(* Instances of Persist for TLC; the constants are given in the .cfg files. *)
EXTENDS Persist
=============================================================================
