------------------------------ MODULE SqsPoll ------------------------------
(***************************************************************************)
(* Long polling and the life of a queue (services/sqs): ReceiveMessage     *)
(* with a wait time against sends, visibility changes, lease ends,         *)
(* DeleteQueue, Purge, Reset and CreateQueue of one queue name.            *)
(*                                                                         *)
(* The queue is a standard one: a requeued message goes to the tail, and   *)
(* no group is blocked.  In a FIFO queue the picks pass over visible       *)
(* messages of a blocked group and DeleteMessage, which unblocks it, tells *)
(* nobody, so that neither NoMissedWake nor Served is true of it.          *)
(*                                                                         *)
(* A queue wakes its polls by closing q.notify.  Calls look the queue up   *)
(* under b.mu and work under q.mu afterwards, so they may hold a queue     *)
(* that has left the table; DeleteQueue closes q.notify without q.mu.      *)
(* Channels are numbers; one that nobody refers to any more is reused.     *)
(* Time is relative: Tick lets one second pass in every timer.             *)
(***************************************************************************)
EXTENDS Naturals, Sequences, FiniteSets, SequencesExt

CONSTANTS
  Pollers,      \* goroutines that receive with a wait time
  Callers,      \* goroutines that send or give a message back
  Msgs,         \* messages
  Chans,        \* channels, at least one more than can be referred to
  Wait,         \* WaitTimeSeconds
  LeaseTime,    \* the visibility timeout
  Delays,       \* DelaySeconds of sends
  MaxInFlight,  \* maxInFlightStandard
  Cooldown,     \* queueDeletedRecentlyWindowSecs
  MaxQueues     \* bound: queues of the name, one after the other

Recheck == 1    \* recheckInterval, in seconds

ASSUME PollAssumption ==
  /\ Chans \subseteq Nat \ {0} /\ 1 \in Chans /\ IsFiniteSet(Chans)
  /\ IsFiniteSet(Pollers) /\ IsFiniteSet(Callers) /\ IsFiniteSet(Msgs) /\ MaxQueues \in Nat \ {0}
  /\ Cardinality(Chans) >=
       MaxQueues + Cardinality(Pollers) + Cardinality(Callers) + 2
  /\ Wait \in Nat \ {0} /\ LeaseTime \in Nat /\ Delays \subseteq Nat /\ Cooldown \in Nat

VARIABLES
  table,    \* the queue the name stands for, 0: none
  queue,    \* queue number -> [pending, leased, notify]
  made,     \* queues created so far
  cooldown, \* seconds for which CreateQueue refuses the name
  msg,      \* message -> [t: seconds until visible, loud: posted with a broadcast]
  unsent,   \* messages that were not in this queue yet
  closed,   \* closed channels
  poll,     \* poller -> [pc, q, ch, left, alarm]
  call,     \* caller -> [pc, q, old]
  deleter   \* the channel a DeleteQueue has read and not closed yet, 0: none

vars == <<table, queue, made, cooldown, msg, unsent, closed, poll, call, deleter>>

None == 0
Idle == [pc |-> "idle", q |-> None, ch |-> None, left |-> 0, alarm |-> 0]
NoCall == [pc |-> "idle", q |-> None, old |-> None]

\* A new channel: one that nobody refers to.
Used == {queue[i].notify : i \in DOMAIN queue} \cup {poll[p].ch : p \in Pollers}
          \cup {call[c].old : c \in Callers} \cup {deleter}
MakeChan == CHOOSE c \in Chans : c \notin Used

Live(i) == i # None /\ table = i
Visible(m) == msg[m].t = 0

\* q.mu is held over the whole of a broadcast.
Locked(i) == \E c \in Callers : call[c].pc = "close" /\ call[c].q = i

Init ==
  /\ table = 1 /\ made = 1 /\ cooldown = 0
  /\ queue = <<[pending |-> <<>>, leased |-> {}, notify |-> 1]>>
  /\ msg = [m \in Msgs |-> [t |-> 0, loud |-> FALSE]]
  /\ unsent = Msgs /\ closed = {}
  /\ poll = [p \in Pollers |-> Idle]
  /\ call = [c \in Callers |-> NoCall]
  /\ deleter = None
-----------------------------------------------------------------------------
(* Receiving.                                                              *)

\* ReceiveMessage with a wait time: the deadline is set.
StartPoll(p) ==
  /\ poll[p].pc = "idle"
  /\ poll' = [poll EXCEPT ![p] = [Idle EXCEPT !.pc = "lookup", !.left = Wait]]
  /\ UNCHANGED <<table, queue, made, cooldown, msg, unsent, closed, call, deleter>>

\* receiveOnce finds the queue under b.mu; an unknown one ends the poll.
Lookup(p) ==
  /\ poll[p].pc = "lookup" /\ deleter = None
  /\ poll' = [poll EXCEPT ![p] = IF table = None THEN Idle
                                 ELSE [@ EXCEPT !.pc = "pick", !.q = table]]
  /\ UNCHANGED <<table, queue, made, cooldown, msg, unsent, closed, call, deleter>>

RunOut(q) == {m \in q.leased : Visible(m)}

\* sweepInFlight: of the leases that ran out, those in order go back to the
\* tail, the others to the dead-letter queue, and nobody is told.
Swept(q, order) ==
  [q EXCEPT !.pending = @ \o order, !.leased = @ \ RunOut(q)]

\* The messages that are not over their receive count, which is left open.
Requeued(q) == UNION {SetToSeqs(back) : back \in SUBSET RunOut(q)}

\* The first visible message of the slice.
FirstVisible(s) ==
  IF \E k \in DOMAIN s : Visible(s[k])
  THEN CHOOSE k \in DOMAIN s : /\ Visible(s[k])
                               /\ \A j \in 1 .. k - 1 : ~Visible(s[j])
  ELSE 0

\* The messages whose lease was swept came back without a broadcast.
Quiet(ms) == [m \in Msgs |-> IF m \in ms THEN [msg[m] EXCEPT !.loud = FALSE]
                             ELSE msg[m]]

\* receiveOnce refuses a queue at its in-flight cap before it sweeps it.
PickOverLimit(p) ==
  /\ poll[p].pc = "pick" /\ ~Locked(poll[p].q)
  /\ Cardinality(queue[poll[p].q].leased) >= MaxInFlight
  /\ poll' = [poll EXCEPT ![p] = Idle]
  /\ UNCHANGED <<table, queue, made, cooldown, msg, unsent, closed, call, deleter>>

\* The rest of receiveOnce under q.mu, and pollReceive up to its select: a
\* message is leased and ends the poll, or nothing is visible and the poll
\* ends at its deadline or waits on the channel read under the same lock.
Pick(p) ==
  /\ poll[p].pc = "pick" /\ ~Locked(poll[p].q)
  /\ Cardinality(queue[poll[p].q].leased) < MaxInFlight
  /\ LET i == poll[p].q IN \E order \in Requeued(queue[i]) :
       LET q == Swept(queue[i], order)
           k == FirstVisible(q.pending)
           m == q.pending[k]
       IN IF k > 0
          THEN /\ queue' = [queue EXCEPT ![i] =
                    [q EXCEPT !.pending = RemoveAt(@, k), !.leased = @ \cup {m}]]
               /\ msg' = [Quiet(ToSet(order)) EXCEPT
                            ![m] = [t |-> LeaseTime + 1, loud |-> FALSE]]
               /\ poll' = [poll EXCEPT ![p] = Idle]
          ELSE /\ queue' = [queue EXCEPT ![i] = q]
               /\ msg' = Quiet(ToSet(order))
               /\ poll' = [poll EXCEPT ![p] =
                    IF @.left = 0 THEN Idle
                    ELSE [@ EXCEPT !.pc = "wait", !.ch = q.notify,
                                   !.alarm = Recheck]]
  /\ UNCHANGED <<table, made, cooldown, unsent, closed, call, deleter>>

\* Mutant of the select: only the channel is waited for.
WakeByChannel(p) ==
  /\ poll[p].pc = "wait"
  /\ poll[p].ch \in closed
  /\ poll' = [poll EXCEPT ![p] = [@ EXCEPT !.pc = "lookup", !.q = None,
                                           !.ch = None, !.alarm = 0]]
  /\ UNCHANGED <<table, queue, made, cooldown, msg, unsent, closed, call, deleter>>

\* The select: a closed channel or the timer, and the loop starts again.
Wake(p) ==
  /\ poll[p].pc = "wait"
  /\ poll[p].ch \in closed \/ poll[p].alarm = 0
  /\ poll' = [poll EXCEPT ![p] = [@ EXCEPT !.pc = "lookup", !.q = None,
                                           !.ch = None, !.alarm = 0]]
  /\ UNCHANGED <<table, queue, made, cooldown, msg, unsent, closed, call, deleter>>
-----------------------------------------------------------------------------
(* Sending, giving back, deleting and sweeping messages.                   *)

\* SendMessage and ChangeMessageVisibility find the queue under b.mu.
Find(c) ==
  /\ call[c].pc = "idle" /\ deleter = None /\ table # None
  /\ call' = [call EXCEPT ![c] = [NoCall EXCEPT !.pc = "locked", !.q = table]]
  /\ UNCHANGED <<table, queue, made, cooldown, msg, unsent, closed, poll, deleter>>

\* The first half of a broadcast, under q.mu: old := q.notify; q.notify = make.
Renew(c, i, q) ==
  /\ call' = [call EXCEPT ![c] = [@ EXCEPT !.pc = "close",
                                           !.old = queue[i].notify]]
  /\ queue' = [queue EXCEPT ![i] = [q EXCEPT !.notify = MakeChan]]
  /\ closed' = closed \ {MakeChan}

\* sendMessageLocked.
Send(c, m, delay) ==
  /\ call[c].pc = "locked" /\ ~Locked(call[c].q) /\ m \in unsent
  /\ LET i == call[c].q
     IN Renew(c, i, [queue[i] EXCEPT !.pending = Append(@, m)])
  /\ msg' = [msg EXCEPT ![m] = [t |-> delay, loud |-> delay = 0]]
  /\ unsent' = unsent \ {m}
  /\ UNCHANGED <<table, made, cooldown, poll, deleter>>

\* changeVisibility with a timeout of 0, of a message in flight: it is pending
\* again, or in the dead-letter queue.  The polls of this queue are woken.
GiveBack(c, m) ==
  /\ call[c].pc = "locked" /\ ~Locked(call[c].q)
  /\ LET i == call[c].q
     IN /\ m \in queue[i].leased
        /\ \E back \in {<<m>>, <<>>} :
             /\ Renew(c, i, [queue[i] EXCEPT !.pending = @ \o back, !.leased = @ \ {m}])
             /\ msg' = [msg EXCEPT ![m] = [t |-> 0, loud |-> back # <<>>]]
  /\ UNCHANGED <<table, made, cooldown, unsent, poll, deleter>>

\* A call that fails its validation, or whose handle is unknown, just returns.
CallFails(c) ==
  /\ call[c].pc = "locked" /\ ~Locked(call[c].q)
  /\ call' = [call EXCEPT ![c] = NoCall]
  /\ UNCHANGED <<table, queue, made, cooldown, msg, unsent, closed, poll, deleter>>

\* Mutant of the broadcast: the old channel is dropped and not closed.
BroadcastNobody(c) ==
  /\ call[c].pc = "close"
  /\ call' = [call EXCEPT ![c] = NoCall]
  /\ UNCHANGED <<table, queue, made, cooldown, msg, unsent, closed, poll, deleter>>

\* close(old), then q.mu is released.  When DeleteQueue has closed the same
\* channel the close panics; the deferred unlock releases q.mu all the same.
Broadcast(c) ==
  /\ call[c].pc = "close"
  /\ closed' = closed \cup {call[c].old}
  /\ call' = [call EXCEPT ![c] = NoCall]
  /\ UNCHANGED <<table, queue, made, cooldown, msg, unsent, poll, deleter>>

\* DeleteMessage of a leased message.
Ack(m) ==
  /\ table # None /\ ~Locked(table) /\ m \in queue[table].leased
  /\ queue' = [queue EXCEPT ![table].leased = @ \ {m}]
  /\ msg' = [msg EXCEPT ![m] = [t |-> 0, loud |-> FALSE]]
  /\ UNCHANGED <<table, made, cooldown, unsent, closed, poll, call, deleter>>

\* tryRouteToDLQ of another queue, whose dead-letter queue this is, in the table
\* or not: the polls here are not woken.
DeadLetter(i, m) ==
  /\ i <= made /\ ~Locked(i) /\ m \in unsent
  /\ queue' = [queue EXCEPT ![i].pending = Append(@, m)]
  /\ msg' = [msg EXCEPT ![m] = [t |-> 0, loud |-> FALSE]]
  /\ unsent' = unsent \ {m}
  /\ UNCHANGED <<table, made, cooldown, closed, poll, call, deleter>>

\* Mutant of pruneState: the sweep does nothing.
SweepNever ==
  /\ table # None /\ ~Locked(table) /\ RunOut(queue[table]) # {}
  /\ UNCHANGED vars

\* The janitor's sweep, pruneState.
Sweep ==
  /\ table # None /\ ~Locked(table) /\ RunOut(queue[table]) # {}
  /\ \E order \in Requeued(queue[table]) :
       /\ queue' = [queue EXCEPT ![table] = Swept(@, order)]
       /\ msg' = Quiet(ToSet(order))
  /\ UNCHANGED <<table, made, cooldown, unsent, closed, poll, call, deleter>>
-----------------------------------------------------------------------------
(* The life of the queue.                                                  *)

\* DeleteQueue or purgeQueue, under b.mu, reads q.notify without q.mu ...
DeleteQueue ==
  /\ table # None /\ deleter = None
  /\ deleter' = queue[table].notify
  /\ UNCHANGED <<table, queue, made, cooldown, msg, unsent, closed, poll, call>>

\* ... and closes it.  A channel that a broadcast closed in between panics
\* and leaves the queue in the table; otherwise the queue goes.  DeleteQueue
\* remembers the name for a while, Purge does not.
DeleteCloses ==
  /\ deleter # None
  /\ IF deleter \in closed THEN UNCHANGED <<table, cooldown, closed>>
     ELSE /\ closed' = closed \cup {deleter}
          /\ table' = None
          /\ cooldown' \in {cooldown, Cooldown}
  /\ deleter' = None
  /\ UNCHANGED <<queue, made, msg, unsent, poll, call>>

\* Reset empties the tables; no channel is closed.
Reset ==
  /\ table # None /\ deleter = None
  /\ table' = None /\ cooldown' = 0
  /\ UNCHANGED <<queue, made, msg, unsent, closed, poll, call, deleter>>

\* CreateQueue refuses a name that was deleted less than a minute ago.
CreateQueue ==
  /\ table = None /\ cooldown = 0 /\ made < MaxQueues
  /\ table' = made + 1 /\ made' = made + 1
  /\ queue' = Append(queue, [pending |-> <<>>, leased |-> {}, notify |-> MakeChan])
  /\ closed' = closed \ {MakeChan}
  /\ UNCHANGED <<cooldown, msg, unsent, poll, call, deleter>>

Less(t) == IF t = 0 THEN 0 ELSE t - 1

\* One second passes.
Tick ==
  /\ cooldown' = Less(cooldown)
  /\ msg' = [m \in Msgs |-> [msg[m] EXCEPT !.t = Less(@)]]
  /\ poll' = [p \in Pollers |-> [poll[p] EXCEPT !.left = Less(@), !.alarm = Less(@)]]
  /\ UNCHANGED <<table, queue, made, unsent, closed, call, deleter>>

PollStep(p) == Lookup(p) \/ Pick(p) \/ PickOverLimit(p) \/ Wake(p)

Next ==
  \/ \E p \in Pollers : StartPoll(p) \/ Lookup(p) \/ Pick(p) \/ PickOverLimit(p) \/ Wake(p)
  \/ \E c \in Callers : Find(c) \/ CallFails(c) \/ Broadcast(c)
  \/ \E c \in Callers, m \in Msgs, delay \in Delays : Send(c, m, delay)
  \/ \E c \in Callers, m \in Msgs : GiveBack(c, m)
  \/ \E m \in Msgs : Ack(m)
  \/ \E m \in Msgs, i \in 1 .. MaxQueues : DeadLetter(i, m)
  \/ Sweep
  \/ DeleteQueue \/ DeleteCloses \/ Reset \/ CreateQueue \/ Tick

\* Goroutines in a call run on, the janitor sweeps, time passes.  Polls and
\* sweeps wait for mutexes, which do not starve a waiter.
Running ==
  /\ \A p \in Pollers : SF_vars(PollStep(p))
  /\ \A c \in Callers : WF_vars(CallFails(c) \/ Broadcast(c))
  /\ WF_vars(DeleteCloses) /\ SF_vars(Sweep) /\ WF_vars(Tick)

\* Clients that poll again whenever their poll has returned.
Consuming == \A p \in Pollers : WF_vars(StartPoll(p))

Spec == Init /\ [][Next]_vars /\ Running /\ Consuming
-----------------------------------------------------------------------------
(* Properties.                                                             *)

\* Queues hold messages that were sent; a waiting poll has a channel.
TypeOK ==
  /\ table \in 0 .. made /\ made = Len(queue) /\ made <= MaxQueues
  /\ cooldown \in 0 .. Cooldown /\ unsent \subseteq Msgs /\ closed \subseteq Chans
  /\ \A i \in DOMAIN queue : /\ queue[i].leased \subseteq Msgs \ unsent
                             /\ ToSet(queue[i].pending) \subseteq Msgs \ unsent
                             /\ queue[i].notify \in Chans
  /\ \A p \in Pollers : poll[p].pc = "wait" => poll[p].ch \in Chans

\* No missed wake-up: while a poll of a standard queue sleeps on an open channel,
\* its queue holds no visible message that a send to it or a visibility change of
\* its own put there, although the poll checked for messages before it went to
\* sleep and those calls may come at any moment since, the queue deleted and
\* created again included.  Of messages that come back when a lease or a delay
\* ends, and of dead letters of other queues, no poll is told.
NoMissedWake ==
  \A p \in Pollers :
    poll[p].pc = "wait" /\ poll[p].ch \notin closed /\ ~Locked(poll[p].q) =>
      \A m \in ToSet(queue[poll[p].q].pending) : ~(msg[m].loud /\ Visible(m))

\* Every poll returns, with messages, empty or with an error: whether its
\* queue is deleted, reset or starved, and however often it is woken.
PollReturns == \A p \in Pollers : poll[p].pc # "idle" ~> poll[p].pc = "idle"

\* With clients that go on polling, a message pending in a live standard queue
\* is handed out, or the queue goes: the ends of delays and leases and dead
\* letters, of which no poll is told, and an in-flight cap that only the janitor
\* lowers, included.
Served ==
  \A m \in Msgs, i \in 1 .. MaxQueues :
    (i <= made /\ Live(i) /\ m \in ToSet(queue[i].pending))
      ~> ~(Live(i) /\ m \in ToSet(queue[i].pending))
=============================================================================
