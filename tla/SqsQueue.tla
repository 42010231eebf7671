------------------------------ MODULE SqsQueue ------------------------------
(***************************************************************************)
(* The message core of the SQS service (services/sqs): sending with FIFO   *)
(* deduplication and rate limiting, receiving with visibility timeouts and *)
(* message groups, deleting, changing visibility, purging, redriving to a  *)
(* dead-letter queue, the janitor's sweep, and a restart of the server     *)
(* from its snapshot.                                                      *)
(*                                                                         *)
(* Every operation works under the queue's mutex q.mu and is one action.   *)
(* The code shares *Message pointers between the pending slice, the        *)
(* in-flight slice, the receive-attempt cache and the dead-letter queue,   *)
(* so messages live in a heap (msg) and the slices hold their indices.     *)
(* The operators below take and return a world w, the heap with the        *)
(* queues, so that the passes of one receive compose as they do in Go.     *)
(***************************************************************************)
EXTENDS Integers, Sequences, FiniteSets, SequencesExt

CONSTANTS
  Queues,         \* queue names
  FifoQueues,     \* those with the .fifo suffix
  Sources,        \* queues that producers send to
  RateLimited,    \* those with FifoThroughputLimit = perMessageGroupId
  Groups,         \* MessageGroupId values used on FIFO queues
  DedupIds,       \* MessageDeduplicationId values used on FIFO queues
  Delays,         \* DelaySeconds values (0: none)
  Timeouts,       \* visibility timeouts callers ask for
  BatchSizes,     \* MaxNumberOfMessages values
  AttemptIds,     \* ReceiveRequestAttemptId values
  Created,        \* redrive policies given at CreateQueue: <<q, dlq, max>>
  Redrives,       \* redrive policies given at SetQueueAttributes
  Retention,      \* MessageRetentionPeriod
  DedupWindow,    \* deduplicationWindowSecs
  AttemptTTL,     \* receiveAttemptTTL
  PurgeCooldown,  \* purgeCooldownSecs
  FifoTPS,        \* fifoPerGroupTPS
  MaxInFlight,    \* maxInFlightStandard / maxInFlightFIFO
  MaxDedup,       \* maxDedupEntriesPerQueue
  LockWait,       \* time a goroutine may wait for q.mu after time.Now()
  MaxMsgs, MaxHandles, MaxTime, MaxRestarts,  \* bounds of the model
  None            \* no group, no deduplication id, no attempt id, no DLQ

ASSUME SetsAssumption ==
  /\ FifoQueues \subseteq Queues /\ RateLimited \subseteq FifoQueues
  /\ Sources \subseteq Queues
  /\ None \notin Queues \cup Groups \cup DedupIds \cup AttemptIds
  /\ 0 \notin BatchSizes

ASSUME PolicyAssumption ==
  \A p \in Created \cup Redrives :
    /\ p[1] \in Queues /\ p[2] \in Queues /\ p[1] # p[2]
    /\ p[3] \in Nat \ {0}
    /\ p[1] \in FifoQueues <=> p[2] \in FifoQueues

\* The handlers refuse a visibility timeout, a delay or a batch size below zero.
ASSUME NumbersAssumption ==
  /\ Timeouts \subseteq Nat /\ BatchSizes \subseteq Nat /\ Delays \subseteq Nat
  /\ IsFiniteSet(Queues)
  /\ DedupWindow \in Nat /\ LockWait \in Nat /\ MaxDedup \in Nat
  /\ FifoTPS \in Nat /\ MaxMsgs \in Nat /\ MaxHandles \in Nat

VARIABLES
  msg,      \* heap: message number -> message
  queues,   \* queue name -> queue
  now,      \* the clock, in seconds
  uuid,     \* receipt handles issued so far
  gone,     \* messages deleted, purged or past their retention
  draining, \* <<queue, time>>: its RedrivePolicy is being applied; or None
  restarts  \* restarts of the server so far

vars == <<msg, queues, now, uuid, gone, draining, restarts>>

World == [msg |-> msg, q |-> queues, uuid |-> uuid, gone |-> gone]

\* A loop over a slice: from base, visit takes in one element after the other.
Pass(visit(_, _), base, s) ==
  LET after[i \in 0 .. Len(s)] ==
        IF i = 0 THEN base ELSE visit(after[i - 1], s[i])
  IN after[Len(s)]

IsFIFO(n) == n \in FifoQueues
Ids(w) == 1 .. Len(w.msg)

\* A new queue, created with the redrive policy of Created if it has one.
NewQueue(n) ==
  LET pol == {p \in Created : p[1] = n}
      p == CHOOSE x \in pol : TRUE
  IN [messages |-> <<>>, inflight |-> <<>>, byHandle |-> {}, dedup |-> {},
      seqCtr |-> 0, delayed |-> 0, active |-> FALSE, attempts |-> {},
      sends |-> [g \in Groups |-> <<>>], delay |-> 0, purges |-> 0,
      purgedAt |-> -PurgeCooldown,
      maxRC |-> IF pol = {} THEN 0 ELSE p[3],
      dlq |-> IF pol = {} THEN None ELSE p[2]]

Init ==
  /\ msg = <<>>
  /\ queues = [n \in Queues |-> NewQueue(n)]
  /\ now = 0 /\ uuid = 0 /\ gone = {} /\ draining = None /\ restarts = 0
-----------------------------------------------------------------------------
(* Dead-letter routing and requeueing.                                     *)

\* Mutants of tryRouteToDLQ's condition: one receive too many; any receive.
ShouldRouteLate(w, n, m) ==
  /\ w.q[n].maxRC > 0 /\ w.q[n].dlq # None
  /\ w.msg[m].rc > w.q[n].maxRC
ShouldRouteAny(w, n, m) ==
  /\ w.q[n].maxRC > 0 /\ w.q[n].dlq # None
  /\ w.msg[m].rc > 0

ShouldRoute(w, n, m) ==
  /\ w.q[n].maxRC > 0 /\ w.q[n].dlq # None
  /\ w.msg[m].rc >= w.q[n].maxRC

\* tryRouteToDLQ when it does route: the same pointer goes to the DLQ's tail.
Route(w, n, m, t) ==
  LET d == w.q[n].dlq
      late == IF t < w.msg[m].visibleAt THEN 1 ELSE 0
  IN [w EXCEPT !.msg[m].handle = 0,
               !.q[d].messages = Append(@, m),
               !.q[d].delayed = @ + late,
               !.q[d].active = TRUE]

\* sort.Search: the binary search for the first message with a larger
\* sequence number.  On a slice that is not sorted it returns what the
\* halving happens to reach.
SearchSeq(w, s, x) ==
  LET search[r \in (0 .. Len(s)) \X (0 .. Len(s))] ==
        LET h == (r[1] + r[2]) \div 2
        IN CASE r[1] >= r[2] -> r[1]
             [] r[1] < r[2] /\ w.msg[s[h + 1]].seq > x -> search[<<r[1], h>>]
             [] OTHER -> search[<<h + 1, r[2]>>]
  IN search[<<0, Len(s)>>]

\* Mutant of requeueMessage: the append of standard queues for every queue.
RequeueAtTail(w, n, m) == [w EXCEPT !.q[n].messages = Append(@, m)]

\* Mutant of requeueMessage: the message is forgotten.
RequeueNever(w, n, m) == w

Requeue(w, n, m) ==
  LET s == w.q[n].messages
  IN IF IsFIFO(n)
     THEN [w EXCEPT !.q[n].messages =
             InsertAt(@, SearchSeq(w, s, w.msg[m].seq) + 1, m)]
     ELSE [w EXCEPT !.q[n].messages = Append(@, m)]

RouteOrRequeue(w, n, m, t) ==
  IF ShouldRoute(w, n, m) THEN Route(w, n, m, t) ELSE Requeue(w, n, m)
-----------------------------------------------------------------------------
(* Sending.                                                                *)

\* dedupKey in the default scope, messageGroup.
DedupKey(g, d) == <<g, d>>
LiveDedup(q, key, t) == {e \in q.dedup : e.key = key /\ t < e.exp}

\* Mutant of checkFIFOPerGroupRateLimit: sends of this second are pruned too.
RecentSendsNone(q, g, t) ==
  Pass(LAMBDA kept, s : IF s > t THEN Append(kept, s) ELSE kept,
       <<>>, q.sends[g])

\* checkFIFOPerGroupRateLimit: the sends of the last second.
RecentSends(q, g, t) ==
  Pass(LAMBDA kept, s : IF s > t - 1 THEN Append(kept, s) ELSE kept,
       <<>>, q.sends[g])

\* The cap of the deduplication maps: the entries that expire first go.
EvictOldest(dedup) ==
  IF Cardinality(dedup) < MaxDedup THEN dedup
  ELSE dedup \ {CHOOSE e \in dedup : \A f \in dedup : e.exp <= f.exp}

\* resolveMessageVisibleAt, the zero time being 0.
VisibleAt(q, delay, t) ==
  IF delay > 0 THEN t + delay ELSE IF q.delay > 0 THEN t + q.delay ELSE 0

\* Mutant of storeDedup: the entry is already expired.
DedupEntryExpired(g, d, t, m) == [key |-> DedupKey(g, d), exp |-> t, m |-> m]

DedupEntry(g, d, t, m) ==
  [key |-> DedupKey(g, d), exp |-> t + DedupWindow, m |-> m]

\* The tail of sendMessageLocked: sequence number, deduplication entry,
\* delayed counter, append and activity flag.
Enqueue(w, n, g, d, delay, t) ==
  LET q == w.q[n]
      m == Len(w.msg) + 1
      seq == IF IsFIFO(n) THEN q.seqCtr + 1 ELSE 0
      vis == VisibleAt(q, delay, t)
  IN [w EXCEPT
       !.msg = Append(@, [home |-> n, group |-> g, dedup |-> d, seq |-> seq,
                          sent |-> t, visibleAt |-> vis, rc |-> 0,
                          handle |-> 0, epoch |-> q.purges,
                          at |-> IF IsFIFO(n) THEN now ELSE 0,
                          boot |-> IF IsFIFO(n) THEN restarts ELSE 0]),
       !.q[n] = [q EXCEPT
         !.seqCtr = seq,
         !.dedup = IF IsFIFO(n)
                   THEN EvictOldest({e \in @ : e.key # DedupKey(g, d)})
                          \cup {DedupEntry(g, d, t, m)}
                   ELSE @,
         !.delayed = @ + IF t < vis THEN 1 ELSE 0,
         !.messages = Append(@, m),
         !.active = TRUE]]

\* preflightFIFOSend, then the send itself.  A call over the rate limit and
\* a duplicate leave no message; the rate limit counts duplicates too.
SendLocked(w, n, g, d, delay, t) ==
  LET q == w.q[n]
      recent == RecentSends(q, g, t)
      limited == n \in RateLimited /\ Len(recent) >= FifoTPS
      counted == IF n \notin RateLimited THEN w
                 ELSE [w EXCEPT !.q[n].sends[g] =
                         IF limited THEN recent ELSE Append(recent, t)]
      duplicate == LiveDedup(q, DedupKey(g, d), t) # {}
  IN IF ~IsFIFO(n) THEN Enqueue(w, n, g, d, delay, t)
     ELSE IF limited \/ duplicate THEN counted
     ELSE Enqueue(counted, n, g, d, delay, t)
-----------------------------------------------------------------------------
(* Receiving: the two passes of prepareAndPickMessages.                    *)

Expired(w, m, t) == w.msg[m].sent < t - Retention

\* Mutant of sweepInFlight: leases end one second early.
LeaseOverEarly(inf, t) == t >= inf.visibleAt

\* now.After(inf.VisibleAt)
LeaseOver(inf, t) == t > inf.visibleAt

\* Pass 1, sweepInFlight, at one lease: dropped, given back or kept.
SweepOne(a, inf, n, t) ==
  CASE Expired(a.w, inf.m, t) ->
         [a EXCEPT !.w.q[n].byHandle = @ \ {inf.handle},
                   !.w.gone = @ \cup {inf.m}]
    [] ~Expired(a.w, inf.m, t) /\ LeaseOver(inf, t) ->
         [a EXCEPT !.w = RouteOrRequeue(
            [a.w EXCEPT !.q[n].byHandle = @ \ {inf.handle}], n, inf.m, t)]
    [] OTHER -> [a EXCEPT !.kept = Append(@, inf)]

Sweep(w, n, t) ==
  LET done == Pass(LAMBDA a, inf : SweepOne(a, inf, n, t),
                   [w |-> w, kept |-> <<>>], w.q[n].inflight)
  IN [done.w EXCEPT !.q[n].inflight = done.kept]

\* Mutant of buildBlockedGroups: no group is blocked.
BlockedGroupsNone(w, n) == {}

BlockedGroups(w, n) ==
  IF ~IsFIFO(n) THEN {}
  ELSE {w.msg[inf.m].group : inf \in ToSet(w.q[n].inflight)} \ {None}

\* enqueueReceivedMessage: a fresh handle, one more receive, a new lease.
Lease(w, n, m, vt, t, batch) ==
  LET h == w.uuid + 1
  IN [w EXCEPT !.uuid = h, !.msg[m].handle = h, !.msg[m].rc = @ + 1,
               !.q[n].inflight = Append(@, [m |-> m, handle |-> h,
                                  visibleAt |-> t + vt, batch |-> batch]),
               !.q[n].byHandle = @ \cup {h}]

Blocked(w, n, m, blocked) == IsFIFO(n) /\ w.msg[m].group \in blocked

\* tryFastPickMessages: the first min(max, len) messages, if nothing stands
\* in the way of any of them.  The first obstacle ends the attempt; when it
\* is a message over its receive count, it has been routed by then.
FastPick(w, n, max, vt, t, blocked) ==
  LET s == w.q[n].messages
      k == IF max <= Len(s) THEN max ELSE Len(s)
      stuck == {i \in 1 .. k :
                  \/ Expired(w, s[i], t) \/ ShouldRoute(w, n, s[i])
                  \/ Blocked(w, n, s[i], blocked)
                  \/ t < w.msg[s[i]].visibleAt}
      first == CHOOSE i \in stuck : \A j \in stuck : i <= j
      routes == /\ stuck # {} /\ ~Expired(w, s[first], t)
                /\ ShouldRoute(w, n, s[first])
      leased == Pass(LAMBDA a, m : Lease(a, n, m, vt, t, w.uuid),
                         w, SubSeq(s, 1, k))
  IN IF k > 0 /\ stuck = {}
     THEN [ok |-> TRUE, picked |-> SubSeq(s, 1, k),
           w |-> [leased EXCEPT !.q[n].messages = SubSeq(s, k + 1, Len(s))]]
     ELSE [ok |-> FALSE, picked |-> <<>>,
           w |-> IF routes THEN Route(w, n, s[first], t) ELSE w]

\* pickVisibleMessages, at one message: dropped, routed, leased or kept.
PickOne(a, m, n, max, vt, t, batch) ==
  CASE Expired(a.w, m, t) -> [a EXCEPT !.w.gone = @ \cup {m}]
    [] ~Expired(a.w, m, t) /\ ShouldRoute(a.w, n, m) ->
         [a EXCEPT !.w = Route(a.w, n, m, t)]
    [] /\ ~Expired(a.w, m, t) /\ ~ShouldRoute(a.w, n, m)
       /\ ~Blocked(a.w, n, m, a.blocked)
       /\ Len(a.picked) < max /\ t >= a.w.msg[m].visibleAt ->
         [a EXCEPT !.w = Lease(a.w, n, m, vt, t, batch),
                   !.picked = Append(@, m),
                   !.blocked = @ \cup ({a.w.msg[m].group} \ {None})]
    [] OTHER -> [a EXCEPT !.kept = Append(@, m)]

SlowPick(w, n, max, vt, t, blocked) ==
  LET done == Pass(LAMBDA a, m : PickOne(a, m, n, max, vt, t, w.uuid),
                   [w |-> w, kept |-> <<>>, picked |-> <<>>,
                    blocked |-> blocked], w.q[n].messages)
  IN [picked |-> done.picked,
      w |-> [done.w EXCEPT !.q[n].messages = done.kept]]

\* The end of prepareAndPickMessages: delayedCount is recomputed if positive.
RecountDelayed(w, n, t) ==
  IF w.q[n].delayed = 0 THEN w
  ELSE [w EXCEPT !.q[n].delayed = Cardinality(
          {i \in DOMAIN w.q[n].messages :
             t < w.msg[w.q[n].messages[i]].visibleAt})]

\* prepareAndPickMessages; max = 0 only cleans up.
PrepareAndPick(w, n, max, vt, t) ==
  LET swept == Sweep(w, n, t)
      blocked == BlockedGroups(swept, n)
      fast == FastPick(swept, n, max, vt, t, blocked)
      slow == SlowPick(fast.w, n, max, vt, t, blocked)
      res == IF fast.ok THEN fast ELSE slow
  IN [picked |-> res.picked, w |-> RecountDelayed(res.w, n, t)]

\* pruneDedup and pruneReceiveAttempts, on FIFO queues.
PruneDedup(w, n, t) ==
  IF ~IsFIFO(n) THEN w
  ELSE [w EXCEPT !.q[n].dedup = {e \in @ : t < e.exp}]

PruneAttempts(w, n, t) ==
  IF ~IsFIFO(n) THEN w
  ELSE [w EXCEPT !.q[n].attempts = {e \in @ : t < e.exp}]

\* receiveOnce: the answer of a repeated attempt comes from the cache, a
\* queue at its in-flight cap answers OverLimit; both leave the queue alone.
ReceiveOnce(w0, n, max, vt, att, t) ==
  LET w == PruneAttempts(PruneDedup(w0, n, t), n, t)
      cached == \E e \in w.q[n].attempts : e.id = att
      got == PrepareAndPick(w, n, max, vt, t)
      entry == [id |-> att, msgs |-> got.picked, exp |-> t + AttemptTTL]
  IN IF cached \/ Len(w.q[n].inflight) >= MaxInFlight THEN w
     ELSE IF IsFIFO(n) /\ att # None /\ got.picked # <<>>
     THEN [got.w EXCEPT !.q[n].attempts = @ \cup {entry}]
     ELSE got.w
-----------------------------------------------------------------------------
(* Deleting and changing visibility.                                       *)

\* The swap-delete of an in-flight slice.
SwapDelete(s, i) ==
  IF i = Len(s) THEN SubSeq(s, 1, i - 1)
  ELSE SubSeq([s EXCEPT ![i] = s[Len(s)]], 1, Len(s) - 1)

\* The lease with handle h.
IndexOfHandle(w, n, h) ==
  CHOOSE i \in DOMAIN w.q[n].inflight : w.q[n].inflight[i].handle = h

\* Mutant of the removal of a lease: the slice keeps it.
DropLeaseIndexOnly(w, n, h) == [w EXCEPT !.q[n].byHandle = @ \ {h}]

DropLease(w, n, h) ==
  [w EXCEPT !.q[n].byHandle = @ \ {h},
            !.q[n].inflight = SwapDelete(@, IndexOfHandle(w, n, h))]

LeasedMsg(w, n, h) == w.q[n].inflight[IndexOfHandle(w, n, h)].m

\* changeVisibility with a timeout of 0: back to the queue or to the DLQ.
ReturnNow(w, n, h, t) ==
  LET m == LeasedMsg(w, n, h)
  IN DropLease(RouteOrRequeue([w EXCEPT !.msg[m].visibleAt = t], n, m, t),
               n, h)

\* changeVisibility with a positive timeout: the lease runs from now on.
Extend(w, n, h, vt, t) ==
  [w EXCEPT !.q[n].inflight[IndexOfHandle(w, n, h)].visibleAt = t + vt]
-----------------------------------------------------------------------------
(* The operations.                                                         *)

Become(w) ==
  /\ msg' = w.msg /\ queues' = w.q /\ uuid' = w.uuid /\ gone' = w.gone

\* SendMessage reads the clock under q.mu; an entry of SendMessageBatch
\* carries the time read before q.mu was taken.
SendMessage(n, g, d, delay, t) ==
  /\ draining = None
  /\ Len(msg) < MaxMsgs
  /\ Become(SendLocked(World, n, g, d, delay, t))
  /\ UNCHANGED <<now, draining, restarts>>

ReceiveMessage(n, max, vt, att) ==
  /\ uuid + max <= MaxHandles
  /\ Become(ReceiveOnce(World, n, max, vt, att, now))
  /\ UNCHANGED <<now, draining, restarts>>

\* DeleteMessage of a handle in flight; any other handle is an error.
DeleteMessage(n, h) ==
  /\ draining = None
  /\ h \in queues[n].byHandle
  /\ Become([DropLease(World, n, h)
               EXCEPT !.gone = @ \cup {LeasedMsg(World, n, h)}])
  /\ UNCHANGED <<now, draining, restarts>>

ChangeMessageVisibility(n, h, vt) ==
  /\ h \in {inf.handle : inf \in ToSet(queues[n].inflight)}
  /\ Become(IF vt = 0 THEN ReturnNow(World, n, h, now)
            ELSE Extend(World, n, h, vt, now))
  /\ UNCHANGED <<now, draining, restarts>>

\* Mutant of PurgeQueue: the in-flight slice is kept, its index is not.
PurgeQueueIndexOnly(n) ==
  /\ draining = None
  /\ now - queues[n].purgedAt >= PurgeCooldown
  /\ queues' = [queues EXCEPT ![n].messages = <<>>, ![n].byHandle = {},
                              ![n].delayed = 0, ![n].purgedAt = now]
  /\ gone' = gone \cup ToSet(queues[n].messages)
  /\ UNCHANGED <<msg, now, uuid, draining, restarts>>

PurgeQueue(n) ==
  /\ draining = None
  /\ now - queues[n].purgedAt >= PurgeCooldown
  /\ queues' = [queues EXCEPT ![n] = [queues[n] EXCEPT
       !.messages = <<>>, !.inflight = <<>>, !.byHandle = {},
       !.delayed = 0, !.purgedAt = now,
       !.purges = IF IsFIFO(n) THEN @ + 1 ELSE @,
       !.dedup = IF IsFIFO(n) THEN {} ELSE @]]
  /\ gone' = gone \cup ToSet(queues[n].messages)
                  \cup {inf.m : inf \in ToSet(queues[n].inflight)}
  /\ UNCHANGED <<msg, now, uuid, draining, restarts>>

\* SetQueueAttributes of DelaySeconds: for the sends that follow.
SetDelay(n, delay) ==
  /\ draining = None
  /\ queues' = [queues EXCEPT ![n].delay = delay]
  /\ UNCHANGED <<msg, now, uuid, gone, draining, restarts>>

\* applyRedrivePolicy: the policy is written under b.mu alone; the clock is
\* read and q.mu is taken afterwards, for the drain.  A receive, a change of visibility or a
\* sweep that had already found the queue may come between the two; an
\* operation that needs b.mu again may not.
ApplyRedrivePolicy(p) ==
  /\ draining = None
  /\ queues' = [queues EXCEPT ![p[1]].maxRC = p[3], ![p[1]].dlq = p[2]]
  /\ draining' = <<p[1], now>>
  /\ UNCHANGED <<msg, now, uuid, gone, restarts>>

\* The drain: the pending messages over the receive count are routed.
DrainOne(a, m, n, t) ==
  IF ShouldRoute(a.w, n, m) THEN [a EXCEPT !.w = Route(a.w, n, m, t)]
  ELSE [a EXCEPT !.kept = Append(@, m)]

Drain(w, n, t) ==
  LET done == Pass(LAMBDA a, m : DrainOne(a, m, n, t),
                   [w |-> w, kept |-> <<>>], w.q[n].messages)
  IN [done.w EXCEPT !.q[n].messages = done.kept]

DrainToDLQ ==
  /\ draining # None
  /\ Become(Drain(World, draining[1], draining[2]))
  /\ draining' = None
  /\ UNCHANGED <<now, restarts>>

\* An empty RedrivePolicy removes the DLQ.
RemoveRedrivePolicy(n) ==
  /\ draining = None
  /\ queues[n].dlq # None
  /\ queues' = [queues EXCEPT ![n].maxRC = 0, ![n].dlq = None]
  /\ UNCHANGED <<msg, now, uuid, gone, draining, restarts>>

Idle(q) == q.messages = <<>> /\ q.inflight = <<>> /\ q.dedup = {}

\* pruneState on one queue, with the time the sweep started.
PruneState(n, t) ==
  /\ queues[n].active \/ IsFIFO(n)
  /\ LET w == PrepareAndPick(PruneDedup(World, n, t), n, 0, 0, t).w
     IN Become([w EXCEPT !.q[n].active = IF Idle(w.q[n]) THEN FALSE ELSE @])
  /\ UNCHANGED <<now, draining, restarts>>

\* Mutants of restoreQueueFromSnapshot: the activity flag looks at pending
\* messages only; the sequence counter starts again.
RestoredIdle(q, t) ==
  [q EXCEPT !.active = q.messages # <<>>, !.attempts = {}]
RestoredUnnumbered(q, t) == [q EXCEPT !.seqCtr = 0, !.attempts = {}]

\* The queue a snapshot leaves: slices, deduplication entries, counters and
\* attributes are in it, receive attempts and send stamps are not; the handle
\* index, delayedCount and the activity flag are computed anew.
Restored(q, t) ==
  [q EXCEPT
     !.byHandle = {inf.handle : inf \in ToSet(q.inflight)},
     !.delayed = Cardinality({i \in DOMAIN q.messages :
                                t < msg[q.messages[i]].visibleAt}),
     !.active = q.messages # <<>> \/ q.inflight # <<>>,
     !.attempts = {}, !.sends = [g \in Groups |-> <<>>]]

\* Snapshot at a quiet shutdown, then Restore: every queue is rebuilt, and
\* the RedrivePolicy of each is applied again in the order of a Go map.
Restart ==
  /\ restarts < MaxRestarts /\ draining = None
  /\ restarts' = restarts + 1
  /\ LET w == [World EXCEPT !.q = [n \in Queues |-> Restored(queues[n], now)]]
     IN \E order \in SetToSeqs(Queues) :
          Become(Pass(LAMBDA a, n : Drain(a, n, now), w, order))
  /\ UNCHANGED <<now, draining>>

Tick ==
  /\ now < MaxTime
  /\ now' = now + 1
  /\ UNCHANGED <<msg, queues, uuid, gone, draining, restarts>>

\* Times a goroutine that waited for q.mu may carry.
Clocks == {t \in now - LockWait .. now : t >= 0}

SendStandard ==
  \E n \in Sources \ FifoQueues, delay \in Delays, t \in Clocks :
    SendMessage(n, None, None, delay, t)

SendFIFO ==
  \E n \in Sources \cap FifoQueues, g \in Groups, d \in DedupIds, t \in Clocks :
    SendMessage(n, g, d, 0, t)

Receive ==
  \E n \in Queues, max \in BatchSizes, vt \in Timeouts,
     att \in AttemptIds \cup {None} : ReceiveMessage(n, max, vt, att)

Delete == \E n \in Queues : \E h \in queues[n].byHandle : DeleteMessage(n, h)

ChangeVisibility ==
  \E n \in Queues, vt \in Timeouts \cup {0} :
    \E h \in {inf.handle : inf \in ToSet(queues[n].inflight)} :
      ChangeMessageVisibility(n, h, vt)

Next ==
  \/ SendStandard \/ SendFIFO \/ Receive \/ Delete \/ ChangeVisibility
  \/ \E n \in Queues : PurgeQueue(n)
  \/ \E n \in Sources, delay \in Delays : SetDelay(n, delay)
  \/ \E p \in Redrives : ApplyRedrivePolicy(p)
  \/ DrainToDLQ
  \/ \E n \in Queues : RemoveRedrivePolicy(n)
  \/ \E n \in Queues, t \in Clocks : PruneState(n, t)
  \/ Restart
  \/ Tick

Spec == Init /\ [][Next]_vars
-----------------------------------------------------------------------------
(* Properties.                                                             *)

Messages == [home : Queues, group : Groups \cup {None},
             dedup : DedupIds \cup {None}, seq : 0 .. MaxMsgs,
             sent : 0 .. MaxTime, visibleAt : Nat, rc : Nat,
             handle : 0 .. MaxHandles, at : 0 .. MaxTime, epoch : Nat,
             boot : 0 .. MaxRestarts]

\* The shape of the heap and of the queues: slices hold messages that exist,
\* counters are never negative.
TypeOK ==
  /\ Len(msg) <= MaxMsgs
  /\ \A m \in DOMAIN msg : msg[m] \in Messages
  /\ now \in 0 .. MaxTime /\ uuid \in 0 .. MaxHandles
  /\ gone \subseteq DOMAIN msg /\ draining \in {None} \cup (Queues \X (0 .. now))
  /\ \A n \in Queues :
       /\ ToSet(queues[n].messages) \subseteq DOMAIN msg
       /\ queues[n].delayed \in Nat /\ queues[n].seqCtr \in 0 .. MaxMsgs
       /\ queues[n].dlq \in Queues \cup {None} /\ queues[n].maxRC \in Nat
       /\ \A inf \in ToSet(queues[n].inflight) :
            inf.m \in DOMAIN msg /\ inf.handle \in 1 .. uuid

\* The places of message m: its positions in the pending and in the
\* in-flight slices of all queues.
Places(m) ==
  UNION {{<<n, "pending", i>> : i \in {j \in DOMAIN queues[n].messages :
             queues[n].messages[j] = m}}
         \cup {<<n, "inflight", i>> : i \in {j \in DOMAIN queues[n].inflight :
             queues[n].inflight[j].m = m}} : n \in Queues}

\* No accepted message is lost: until it is deleted, purged or past its
\* retention it is pending or in flight somewhere, whatever sweeps,
\* requeues, redrives and visibility changes come between.
NoLoss == \A m \in DOMAIN msg \ gone : Places(m) # {}

\* No message is in two places: requeueing, leasing and dead-letter routing
\* move a message and never copy it (tryRouteToDLQ "moves msg to the DLQ").
OnePlace == \A m \in DOMAIN msg : Cardinality(Places(m)) <= 1

\* inFlightByHandle indexes exactly the in-flight slice, and no two leases
\* share a handle: a receipt handle is valid as long as its lease exists.
HandleIndex ==
  \A n \in Queues :
    LET inf == queues[n].inflight
    IN /\ queues[n].byHandle = {inf[i].handle : i \in DOMAIN inf}
       /\ \A i, j \in DOMAIN inf : inf[i].handle = inf[j].handle => i = j

\* The janitor skips standard queues without the activity flag, so a queue
\* that holds messages, leases included, always has it.
ActivityFlag ==
  \A n \in Queues :
    queues[n].messages # <<>> \/ queues[n].inflight # <<>> => queues[n].active

\* All leases of a FIFO group were handed out by one receive: while a group
\* has a message in flight, no second consumer gets a message of it.
GroupExclusive ==
  \A n \in FifoQueues : \A e, f \in ToSet(queues[n].inflight) :
    msg[e.m].group = msg[f.m].group => e.batch = f.batch

\* The queues a redrive policy names as a dead-letter queue.
DeadLetters == {p[2] : p \in Created \cup Redrives}

\* q.messages of a FIFO queue is in ascending SequenceNumber order, no two
\* messages with the same number, after a restart too: the binary search of
\* requeueMessage relies on it.  A dead-letter queue gets the numbers of its
\* source in the order the leases end.
SeqAscending ==
  \A n \in FifoQueues \ DeadLetters : \A i, j \in DOMAIN queues[n].messages :
    LET s == queues[n].messages
    IN i < j => s[i] = s[j] \/ msg[s[i]].seq < msg[s[j]].seq

\* Of the messages with one deduplication key, no two are accepted within
\* the deduplication window, unless the queue was purged in between.  A
\* batch entry carries a clock reading that is up to LockWait old.
DedupOnce ==
  \A k, m \in DOMAIN msg :
    /\ k < m /\ msg[k].home = msg[m].home /\ msg[k].home \in FifoQueues
    /\ msg[k].group = msg[m].group /\ msg[k].dedup = msg[m].dedup
    /\ msg[k].epoch = msg[m].epoch
    => msg[m].at - msg[k].at >= DedupWindow - LockWait

\* In each second a group of a high-throughput FIFO queue accepts at most
\* FifoTPS of the sends whose clock reading is current, whatever stamps of
\* delayed batch entries are stored and pruned between them.  The stamps do
\* not survive a restart, so the bound is per run of the server.
RateBounded ==
  \A n \in RateLimited, g \in Groups, t \in 0 .. MaxTime,
     b \in 0 .. MaxRestarts :
    Cardinality({m \in DOMAIN msg : /\ msg[m].home = n /\ msg[m].group = g
                                    /\ msg[m].sent = t /\ msg[m].at = t
                                    /\ msg[m].boot = b}) <= FifoTPS

\* The leases a step hands out: those with a handle it issued.
Fresh(n) == {inf \in ToSet(queues[n].inflight') : inf.handle > uuid}

\* A message is handed out again only after its lease has run out, was given
\* up with a visibility timeout of 0, or moved to the dead-letter queue: no
\* receive takes a message from the consumer that holds it.
LeaseRespected ==
  [][\A n \in Queues : \A f \in Fresh(n) : \A k \in Queues :
       \A e \in ToSet(queues[k].inflight) :
         e.m = f.m => k = n /\ e.visibleAt < now]_vars

\* A FIFO message is handed out only when every earlier message of its group
\* in the queue has left it or goes out in the same receive ("strict
\* per-group ordering", buildBlockedGroups).
DeliverInOrder ==
  [][\A n \in FifoQueues : \A f \in Fresh(n) :
       LET earlier(k) == /\ msg'[k].group = msg'[f.m].group
                         /\ msg'[k].seq < msg'[f.m].seq
       IN /\ \A k \in ToSet(queues[n].messages') : ~earlier(k)
          /\ \A e \in ToSet(queues[n].inflight') :
               earlier(e.m) => e \in Fresh(n)]_vars

\* With a redrive policy in force no message is handed out more than
\* maxReceiveCount times by its queue.
PoisonBounded ==
  [][\A n \in Queues : \A f \in Fresh(n) :
       queues[n].dlq # None => msg'[f.m].rc <= queues[n].maxRC]_vars

\* A message changes queue only along a redrive policy and only after it has
\* been received maxReceiveCount times.
RoutedByPolicy ==
  [][\A d \in Queues : \A m \in ToSet(queues[d].messages') :
       \/ m \in ToSet(queues[d].messages) \/ m \notin DOMAIN msg
       \/ \E e \in ToSet(queues[d].inflight) : e.m = m
       \/ \E n \in Queues : /\ queues[n].dlq = d /\ queues[n].maxRC > 0
                             /\ msg[m].rc >= queues[n].maxRC]_vars
-----------------------------------------------------------------------------
(* The refinement: what SqsLease sees of the slices.                       *)

ReadyPairs ==
  UNION {{<<n, m>> : m \in ToSet(queues[n].messages)} : n \in Queues}
LeasedTriples ==
  UNION {{<<n, inf.m, inf.handle>> : inf \in ToSet(queues[n].inflight)} : n \in Queues}

Promise == INSTANCE SqsLease WITH
  Queue <- Queues, Msg <- 1 .. MaxMsgs, Handle <- 1 .. MaxHandles,
  ready <- ReadyPairs, leased <- LeasedTriples, retired <- gone, issued <- 1 .. uuid

\* Every operation of the queues, the two passes of a receive, the redrive
\* and the janitor included, is a step of the lease specification: messages
\* move between ready, leased and retired as it allows, under fresh handles.
ImplementsLease == Promise!LeaseSpec
=============================================================================
