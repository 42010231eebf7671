------------------------------ MODULE SqsLease ------------------------------
(***************************************************************************)
(* What the SQS service promises of its messages, without its slices, its  *)
(* clocks and its passes: an accepted message is ready in one queue, or    *)
(* leased to one consumer under a receipt handle, or retired; a receipt    *)
(* handle is issued once.  SqsQueue implements it (ImplementsLease).       *)
(***************************************************************************)
EXTENDS Integers, FiniteSets

CONSTANTS Queue, Msg, Handle

VARIABLES ready,    \* set of <<queue, message>>
          leased,   \* set of <<queue, message, handle>>
          retired,  \* messages deleted, purged or expired
          issued    \* receipt handles issued so far

leaseVars == <<ready, leased, retired, issued>>

ReadyMsgs == {r[2] : r \in ready}
LeasedMsgs == {l[2] : l \in leased}
LeasedHandles == {l[3] : l \in leased}

LeaseInit == ready = {} /\ leased = {} /\ retired = {} /\ issued = {}

\* A message is accepted: it is new.
Accept(n, m) ==
  /\ m \notin ReadyMsgs \cup LeasedMsgs \cup retired
  /\ ready' = ready \cup {<<n, m>>}
  /\ UNCHANGED <<leased, retired, issued>>

\* A consumer deletes a message by the handle of its lease.
Ack(n, m, h) ==
  /\ <<n, m, h>> \in leased
  /\ leased' = leased \ {<<n, m, h>>}
  /\ retired' = retired \cup {m}
  /\ UNCHANGED <<ready, issued>>

FreshHandles == Handle \ issued

\* The messages queue n may act on when the leases over end.
Pool(n, over) ==
  {r[2] : r \in {x \in ready : x[1] = n}} \cup {l[2] : l \in over}

\* The messages that end up ready in queue n.
Stay(n, over, drop, route, lend) ==
  Pool(n, over) \ (drop \cup route \cup {x[1] : x \in lend})

\* Queue n is served: some leases end, some messages are dropped, some are
\* moved to queue d, some are leased under fresh handles (lend is a set of
\* <<message, handle>>); the rest is ready in n.
Serve(n, d, over, drop, route, lend) ==
  /\ drop \cap route = {}
  /\ {x[1] : x \in lend} \cap (drop \cup route) = {}
  /\ \A x, y \in lend : x[1] = y[1] <=> x[2] = y[2]
  /\ ready' = {r \in ready : r[1] # n}
                \cup {<<n, m>> : m \in Stay(n, over, drop, route, lend)}
                \cup {<<d, m>> : m \in route}
  /\ leased' = (leased \ over) \cup {<<n, x[1], x[2]>> : x \in lend}
  /\ retired' = retired \cup drop
  /\ issued' = issued \cup {x[2] : x \in lend}

LeaseNext ==
  \/ \E n \in Queue, m \in Msg : Accept(n, m)
  \/ \E n \in Queue, m \in Msg, h \in Handle : Ack(n, m, h)
  \/ \E n, d \in Queue : \E over \in SUBSET {l \in leased : l[1] = n} :
       \E drop, route \in SUBSET Pool(n, over) :
         \E lend \in SUBSET (Pool(n, over) \X FreshHandles) :
           Serve(n, d, over, drop, route, lend)

LeaseSpec == LeaseInit /\ [][LeaseNext]_leaseVars
-----------------------------------------------------------------------------
LeaseTypes ==
  /\ ready \subseteq Queue \X Msg
  /\ leased \subseteq Queue \X Msg \X Handle
  /\ retired \subseteq Msg /\ issued \subseteq Handle

\* A message is never ready twice, ready and leased, leased twice, or ready
\* or leased after it was retired.
OneHome ==
  /\ \A r, s \in ready : r[2] = s[2] => r = s
  /\ \A l, k \in leased : l[2] = k[2] => l = k
  /\ ReadyMsgs \cap LeasedMsgs = {}
  /\ retired \cap (ReadyMsgs \cup LeasedMsgs) = {}

\* A handle names at most one lease and was issued.
HandleOwner ==
  /\ LeasedHandles \subseteq issued
  /\ \A l, k \in leased : l[3] = k[3] => l = k

\* A handle whose lease has ended stays dead: a late DeleteMessage or
\* ChangeMessageVisibility cannot touch the lease of a later consumer.
HandlesStayDead ==
  [][\A h \in issued : h \notin LeasedHandles => h \notin LeasedHandles']_leaseVars

LeaseInv == LeaseTypes /\ OneHome /\ HandleOwner
=============================================================================
