------------------------------- MODULE MCSqs -------------------------------
(***************************************************************************)
(* Instances of SqsQueue for TLC: the redrive policies the configurations  *)
(* choose from.                                                            *)
(***************************************************************************)
EXTENDS SqsQueue, TLC

\* Groups and deduplication ids are only compared for equality.
Symmetry == Permutations(Groups) \cup Permutations(DedupIds)

\* A source queue and its dead-letter queue, one receive allowed.
PolicySD == {<<"s", "d", 1>>}

\* The same with two receives.
PolicySD2 == {<<"s", "d", 2>>}
=============================================================================
