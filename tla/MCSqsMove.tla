----------------------------- MODULE MCSqsMove -----------------------------
(***************************************************************************)
(* The instances of SqsMove for TLC.                                       *)
(***************************************************************************)
EXTENDS SqsMove, TLC

\* A redrive, and a move of a queue to itself.
RedriveAndSelf == {<<"d", "s">>, <<"d", "d">>}

=============================================================================
