----------------------------- MODULE MCSqsLocks -----------------------------
(* Instances of SqsLocks for TLC: a source queue and its dead-letter queue. *)
EXTENDS SqsLocks, TLC

CONSTANTS t1, t2, t3

SourceAndDlq == [q \in Queues |-> IF q = "s" THEN "d" ELSE NoQueue]

\* Every operation that respects the lock order, the pairs that meet in
\* different goroutines among them.
Ordered ==
  (t1 :> {"receive", "set", "table"}) @@ (t2 :> {"visibility", "get", "set"})
    @@ (t3 :> {"prune", "receive"})

\* A sender beside readers and writers of attributes.
WithSend == [t \in Threads |-> {"send", "get", "set"}]
=============================================================================
