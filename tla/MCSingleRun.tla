---------------------------- MODULE MCSingleRun ----------------------------
(* Instances of SingleRun for TLC; the constants are in the .cfg files.    *)
EXTENDS SingleRun
=============================================================================
