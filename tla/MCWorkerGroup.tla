--------------------------- MODULE MCWorkerGroup ---------------------------
(* Instances of WorkerGroup for TLC; the constants are in the .cfg files.  *)
EXTENDS WorkerGroup
=============================================================================
