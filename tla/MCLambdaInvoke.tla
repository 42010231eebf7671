--------------------------- MODULE MCLambdaInvoke ---------------------------
(* Instances of LambdaInvoke for TLC.                                      *)
EXTENDS LambdaInvoke
=============================================================================
