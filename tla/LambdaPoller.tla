---------------------------- MODULE LambdaPoller ----------------------------
(***************************************************************************)
(* The event source poller of Lambda (services/lambda): one goroutine that *)
(* reads the event source of a mapping, an SQS queue or a shard of a       *)
(* stream, and hands batches to the function as Event invocations.         *)
(*                                                                         *)
(* The queue is SQS as its reader sees it: a received message is leased    *)
(* under a new handle, and when the lease runs out the handle is worth     *)
(* nothing and the message comes back.  A shard of Kinesis is a ring whose *)
(* readers count from its oldest record, a shard of DynamoDB Streams is    *)
(* read by sequence number.  Mappings are created, updated, disabled and   *)
(* deleted while the poller is at work.                                    *)
(***************************************************************************)
EXTENDS Integers, Sequences, FiniteSets, SequencesExt, FiniteSetsExt

CONSTANTS
  Msgs,         \* messages of the queue
  Configs,      \* [unmatched, windowed, bisect, size] a mapping may have
  MaxReceive,   \* maxBatchSize of SQS: a receive of more is refused
  RingSize,     \* maxRecordsPerShard, maxStreamRecords
  MaxRecords,   \* bound: records put into the shard
  MaxMappings   \* bound: mappings created, one after the other

Mappings == 1 .. MaxMappings
Records == 1 .. MaxRecords
Handles == 1 .. MaxMappings + 1   \* handles of one message, reused when forgotten
None == -1                        \* no iterator

ASSUME PollerAssumption ==
  /\ IsFiniteSet(Msgs)
  /\ Configs \subseteq [unmatched : SUBSET (Msgs \cup Records), windowed : BOOLEAN,
                         bisect : BOOLEAN, size : Nat \ {0}]
  /\ MaxReceive \in Nat /\ RingSize \in Nat \ {0} /\ MaxRecords \in Nat
  /\ MaxMappings \in Nat \ {0}

VARIABLES
  source,    \* the event source: "sqs", "kinesis" or "dynamodb"
  start,     \* StartingPosition
  config,    \* of the mapping, read anew at every step of a poll:
             \* unmatched: the messages and records that satisfy none of the filters
             \* windowed: MaximumBatchingWindowInSeconds > 0
             \* bisect: BisectBatchOnFunctionError
             \* size: BatchSize
  mapping,   \* [id, state] of the mapping
  msg,       \* message -> [st, handle]
  old,       \* messages older than MaximumRecordAgeInSeconds
  buf,       \* sqsBatchBuffers: mapping -> handles in order
  elapsed,   \* mappings whose window is over
  log,       \* records put into the shard so far
  dropped,   \* the oldest of them, which the shard holds no more
  iter,      \* shardIterators: mapping -> position of the next read
  run,       \* the poller: [pc, id, in: received, a set, work, del: handles in order,
             \* conf: the configuration of a mapping that was replaced while polled]
  tried,     \* messages and records an invocation was attempted with
  accepted,  \* messages of accepted invocations
  filtered   \* messages and records that matched no filter when they were read

queueVars == <<msg, old, buf, elapsed, tried>>
streamVars == <<log, dropped, iter>>
mappingVars == <<source, start, config>>
vars == <<mappingVars, mapping, queueVars, streamVars, run, accepted, filtered>>

Unset == [unmatched |-> {}, windowed |-> FALSE, bisect |-> FALSE, size |-> 0]
Idle == [pc |-> "idle", id |-> 0, in |-> {}, work |-> <<>>, del |-> <<>>, conf |-> Unset]

\* A message that is not leased.
Without(st) == [st |-> st, handle |-> 0]

Init ==
  /\ config \in Configs
  /\ \/ source = "sqs" /\ start = "LATEST"
     \/ source \in {"kinesis", "dynamodb"} /\ start \in {"TRIM_HORIZON", "LATEST"}
  /\ mapping = [id |-> 1, state |-> "Enabled"]
  /\ msg = [m \in Msgs |-> Without("unsent")]
  /\ old = {} /\ buf = [u \in Mappings |-> <<>>] /\ elapsed = {}
  /\ log = 0 /\ dropped = 0 /\ iter = [u \in Mappings |-> None]
  /\ run = Idle /\ tried = {} /\ accepted = {} /\ filtered = {}

\* A handle, with its message, is worth something.
Current(h) == msg[h[1]].st = "leased" /\ msg[h[1]].handle = h[2]
MsgsOf(s) == {h[1] : h \in ToSet(s)}
-----------------------------------------------------------------------------
(* The event source.                                                       *)

SendMessage(m) ==
  /\ source = "sqs" /\ msg[m].st = "unsent"
  /\ msg' = [msg EXCEPT ![m] = Without("visible")]
  /\ UNCHANGED <<mappingVars, mapping, old, buf, elapsed, streamVars, run, tried, accepted, filtered>>

\* The visibility timeout is over.
LeaseEnds(m) ==
  /\ msg[m].st = "leased" /\ msg' = [msg EXCEPT ![m] = Without("visible")]
  /\ UNCHANGED <<mappingVars, mapping, old, buf, elapsed, streamVars, run, tried, accepted, filtered>>

Ages(m) ==
  /\ msg[m].st \in {"visible", "leased"} /\ m \notin old /\ old' = old \cup {m}
  /\ UNCHANGED <<mappingVars, mapping, msg, buf, elapsed, streamVars, run, tried, accepted, filtered>>

\* The records a shard holds: dropped + 1 .. log.
Held == log - dropped

\* shardRecords.push: in a full ring the oldest record makes room.  A DynamoDB
\* stream splits its shard when its ring is full, which ends this one.
PutRecord ==
  /\ log < MaxRecords /\ log' = log + 1
  /\ \/ source = "kinesis" /\ dropped' = IF Held = RingSize THEN dropped + 1 ELSE dropped
     \/ source = "dynamodb" /\ Held < RingSize /\ UNCHANGED dropped
  /\ UNCHANGED <<mappingVars, mapping, queueVars, iter, run, accepted, filtered>>

\* The sweep of the janitor.  Kinesis drops the records older than the retention
\* period; DynamoDB drops all it holds once half of them are too old.
Trim ==
  /\ Held > 0
  /\ \/ source = "kinesis" /\ dropped' \in dropped + 1 .. log
     \/ source = "dynamodb" /\ dropped' = log
  /\ UNCHANGED <<mappingVars, mapping, queueVars, log, iter, run, accepted, filtered>>
-----------------------------------------------------------------------------
(* Mappings.                                                               *)

\* UpdateEventSourceMapping and applyESMUpdate: the mapping is enabled, disabled
\* or configured anew; a window of 0 is no change.  What the poller holds for it
\* stays, and a poll under way sees the new configuration.
Update ==
  /\ mapping.state \in {"Enabled", "Disabled"}
  /\ \E s \in {"Enabled", "Disabled"} : mapping' = [mapping EXCEPT !.state = s]
  /\ config' \in {c \in Configs : config.windowed => c.windowed}
  /\ UNCHANGED <<source, start, queueVars, streamVars, run, accepted, filtered>>

\* The poller's state of a mapping is removed.
Forget(us) ==
  /\ buf' = [u \in Mappings |-> IF u \in us THEN <<>> ELSE buf[u]]
  /\ elapsed' = elapsed \ us
  /\ iter' = [u \in Mappings |-> IF u \in us THEN None ELSE iter[u]]

\* DeleteEventSourceMapping and RemoveMapping; a poll may be under way.
DeleteMapping ==
  /\ mapping.state \in {"Enabled", "Disabled"}
  /\ mapping' = [mapping EXCEPT !.state = "Deleted"]
  /\ Forget({mapping.id})
  /\ UNCHANGED <<mappingVars, msg, old, log, dropped, run, tried, accepted, filtered>>

\* A poll of the mapping that is gone goes on with its configuration.
CreateMapping ==
  /\ mapping.state = "Deleted" /\ mapping.id < MaxMappings
  /\ mapping' = [id |-> mapping.id + 1, state |-> "Enabled"]
  /\ config' \in Configs
  /\ run' = IF run.id = mapping.id THEN [run EXCEPT !.conf = config] ELSE run
  /\ UNCHANGED <<source, start, queueVars, streamVars, accepted, filtered>>
-----------------------------------------------------------------------------
(* One poll of an SQS mapping.                                             *)

Visible == {m \in Msgs : msg[m].st = "visible"}

\* A new handle: one the poller does not remember.
NewHandle(m) ==
  CHOOSE n \in Handles : \A u \in Mappings : <<m, n>> \notin ToSet(buf[u])

Received(ms) == {<<m, NewHandle(m)>> : m \in ms}

\* ReceiveMessagesLocal, at most size of the visible messages, and
\* splitByRecordAge.  An SQS receive of more than MaxReceive is an error.  The
\* messages come in any order; it is chosen where it first matters.
Receive ==
  /\ run.pc = "idle" /\ source = "sqs" /\ mapping.state = "Enabled"
  /\ IF config.size > MaxReceive
     THEN run' = [Idle EXCEPT !.pc = "sweep", !.id = mapping.id] /\ UNCHANGED msg
     ELSE \E ms \in kSubset(Min({config.size, Cardinality(Visible)}), Visible) :
          \E drop \in SetToSeqs(Received(ms \cap old)) :
            /\ msg' = [m \in Msgs |-> IF m \in ms
                         THEN [st |-> "leased", handle |-> NewHandle(m)] ELSE msg[m]]
            /\ run' = [Idle EXCEPT !.pc = "expired", !.id = mapping.id,
                                   !.in = Received(ms \ old), !.del = drop]
  /\ UNCHANGED <<mappingVars, mapping, old, buf, elapsed, streamVars, tried, accepted, filtered>>

\* DeleteMessagesLocal, one message: a handle that is not current ends it, and
\* the messages after it stay leased.
DeleteNext ==
  /\ run.del # <<>>
  /\ IF Current(Head(run.del))
     THEN /\ msg' = [msg EXCEPT ![Head(run.del)[1]] = Without("deleted")]
          /\ run' = [run EXCEPT !.del = Tail(@)]
     ELSE /\ run' = [run EXCEPT !.del = <<>>]
          /\ UNCHANGED msg
  /\ UNCHANGED <<mappingVars, mapping, old, buf, elapsed, streamVars, tried, accepted, filtered>>

\* The configuration of the mapping that is being polled.
Conf == IF run.id = mapping.id THEN config ELSE run.conf

\* splitByFilter: what matches no filter is deleted.
Filter ==
  /\ run.pc = "expired" /\ run.del = <<>>
  /\ LET out == {h \in run.in : h[1] \in Conf.unmatched} IN
       /\ \E drop \in SetToSeqs(out) :
            run' = [run EXCEPT !.pc = "filtered", !.del = drop, !.in = @ \ out]
       /\ filtered' = filtered \cup {h[1] : h \in out}
  /\ UNCHANGED <<mappingVars, mapping, queueVars, streamVars, accepted>>

\* A message already buffered gets its new handle, in place.
Refreshed(b, in) ==
  [k \in DOMAIN b |-> IF \E h \in in : h[1] = b[k][1]
                      THEN CHOOSE h \in in : h[1] = b[k][1] ELSE b[k]]

\* Mutant of accumulateSQSBatch: buf.index is not looked at.
UnbufferedAll(b, in) == in

\* The received messages that are appended.
Unbuffered(b, in) == {h \in in : h[1] \notin MsgsOf(b)}

\* What the mapping has gathered before this receive.
Gathered == IF Conf.windowed THEN buf[run.id] ELSE <<>>

\* Mutant of accumulateSQSBatch: the end of the window is not looked at.
AccumulateFull ==
  /\ run.pc = "filtered" /\ run.del = <<>>
  /\ \E new \in SetToSeqs(Unbuffered(Gathered, run.in)) :
       LET all == Refreshed(Gathered, run.in) \o new
           flush == all # <<>> /\ (Conf.windowed => Len(all) >= Conf.size)
       IN  /\ run' = [run EXCEPT !.pc = IF flush THEN "invoke" ELSE "sweep", !.in = {},
                                 !.work = IF flush THEN <<all>> ELSE <<>>]
           /\ buf' = [buf EXCEPT ![run.id] = IF flush \/ ~Conf.windowed THEN <<>> ELSE all]
  /\ UNCHANGED <<mappingVars, mapping, msg, old, elapsed, streamVars, tried, accepted, filtered>>

\* accumulateSQSBatch: without a window the messages are the batch; with one they
\* are buffered until size is reached or the window is over.
Accumulate ==
  /\ run.pc = "filtered" /\ run.del = <<>>
  /\ \E new \in SetToSeqs(Unbuffered(Gathered, run.in)) :
       LET all == Refreshed(Gathered, run.in) \o new
           flush == all # <<>> /\ (Conf.windowed => Len(all) >= Conf.size \/ run.id \in elapsed)
       IN  /\ run' = [run EXCEPT !.pc = IF flush THEN "invoke" ELSE "sweep", !.in = {},
                                 !.work = IF flush THEN <<all>> ELSE <<>>]
           /\ buf' = [buf EXCEPT ![run.id] = IF flush \/ ~Conf.windowed THEN <<>> ELSE all]
           /\ elapsed' = IF flush THEN elapsed \ {run.id} ELSE elapsed
  /\ UNCHANGED <<mappingVars, mapping, msg, old, streamVars, tried, accepted, filtered>>

\* The window of a buffer is over.
WindowElapses(u) ==
  /\ buf[u] # <<>> /\ u \notin elapsed /\ elapsed' = elapsed \cup {u}
  /\ UNCHANGED <<mappingVars, mapping, msg, old, buf, streamVars, run, tried, accepted, filtered>>

Half(s) == <<SubSeq(s, 1, Len(s) \div 2), SubSeq(s, Len(s) \div 2 + 1, Len(s))>>

\* Mutant of deliverSQSBatch: a refused batch is deleted as well.
DeliverDeletesRefused ==
  /\ run.pc = "invoke" /\ source = "sqs" /\ run.work # <<>>
  /\ tried' = tried \cup MsgsOf(Head(run.work))
  /\ accepted' \in {accepted, accepted \cup MsgsOf(Head(run.work))}
  /\ run' = [run EXCEPT !.work = Tail(@), !.del = @ \o Head(run.work)]
  /\ UNCHANGED <<mappingVars, mapping, msg, old, buf, elapsed, streamVars, filtered>>

\* deliverSQSBatch, one invocation: InvokeFunction accepts the Event and the
\* batch may be deleted, whatever becomes of it; or it is refused (no such
\* function, throttled, no runtime) and the batch is halved or left alone.
Deliver ==
  /\ run.pc = "invoke" /\ source = "sqs" /\ run.work # <<>>
  /\ LET batch == Head(run.work) IN
       /\ tried' = tried \cup MsgsOf(batch)
       /\ \/ /\ accepted' = accepted \cup MsgsOf(batch)
             /\ run' = [run EXCEPT !.work = Tail(@), !.del = @ \o batch]
          \/ /\ Conf.bisect /\ Len(batch) > 1
             /\ run' = [run EXCEPT !.work = Half(batch) \o Tail(@)]
             /\ UNCHANGED accepted
          \/ /\ ~Conf.bisect \/ Len(batch) = 1
             /\ run' = [run EXCEPT !.work = Tail(@)]
             /\ UNCHANGED accepted
  /\ UNCHANGED <<mappingVars, mapping, msg, old, buf, elapsed, streamVars, filtered>>

\* The handles are deleted once every part of the batch has been tried.
Delivered ==
  /\ run.pc = "invoke" /\ source = "sqs" /\ run.work = <<>>
  /\ run' = [run EXCEPT !.pc = "delete"]
  /\ UNCHANGED <<mappingVars, mapping, queueVars, streamVars, accepted, filtered>>

\* While handles are being deleted, deliverSQSBatch is over.
Deleting == run.pc \in {"expired", "filtered", "delete"} /\ DeleteNext
-----------------------------------------------------------------------------
(* One poll of a shard.                                                    *)

\* GetShardIterator at StartingPosition.  Kinesis: an offset from the oldest
\* record that is held.  DynamoDB: a sequence number.
StartAt ==
  CASE source = "kinesis" -> IF start = "TRIM_HORIZON" THEN 0 ELSE Held
    [] source = "dynamodb" -> IF start = "TRIM_HORIZON" THEN dropped + 1 ELSE log + 1

\* The iterator the poller has, or a new one.
Position == IF iter[mapping.id] = None THEN StartAt ELSE iter[mapping.id]

\* A poll that reads in; the iterator goes to next before the function is invoked.
Reading(in, next) ==
  /\ iter' = [iter EXCEPT ![mapping.id] = next]
  /\ run' = [Idle EXCEPT !.id = mapping.id, !.in = in,
                         !.pc = IF in = {} THEN "sweep" ELSE "invoke"]
  /\ UNCHANGED <<mappingVars, mapping, queueVars, log, dropped, accepted, filtered>>

\* How far a read of Kinesis from offset from may go: no further than size, nor
\* than the shard; the cap of 10 MiB may end it earlier, but not before the
\* first record.
Ends(from) ==
  LET end == Min({from + config.size, Held})
  IN  IF end = from THEN {from} ELSE from + 1 .. end

\* Mutant of GetRecords: the iterator moves on by the limit.
GetRecordsLimit ==
  /\ run.pc = "idle" /\ source = "kinesis" /\ mapping.state = "Enabled"
  /\ LET from == Min({Position, Held}) IN
       \E end \in Ends(from) :
         Reading(dropped + from + 1 .. dropped + end, from + config.size)

\* processMapping and GetRecords of Kinesis: the offset, cut to what the shard
\* holds, counts from the record that is the oldest now.
GetRecords ==
  /\ run.pc = "idle" /\ source = "kinesis" /\ mapping.state = "Enabled"
  /\ LET from == Min({Position, Held}) IN
       \E end \in Ends(from) : Reading(dropped + from + 1 .. dropped + end, end)

\* processDDBShard and GetRecords of DynamoDB Streams: the records from the
\* position on.  One before the trim horizon is an error (GetRecordsFails).  A
\* read that finds nothing leaves the iterator at the last record, which the next
\* read delivers again.
GetStreamRecords ==
  /\ run.pc = "idle" /\ source = "dynamodb" /\ mapping.state = "Enabled"
  /\ dropped = 0 \/ Position > dropped
  /\ LET from == IF Position = 0 THEN 1 ELSE Position
         end == Min({from + config.size - 1, log})
     IN  Reading(from .. end, IF end < from THEN log ELSE end + 1)

\* Reading fails: the iterator is made anew at StartingPosition next time.
GetRecordsFails ==
  /\ run.pc = "idle" /\ source # "sqs" /\ mapping.state = "Enabled"
  /\ iter' = [iter EXCEPT ![mapping.id] = None]
  /\ run' = [Idle EXCEPT !.pc = "sweep", !.id = mapping.id]
  /\ UNCHANGED <<mappingVars, mapping, queueVars, log, dropped, accepted, filtered>>

\* invokeLambda, invokeLambdaForDDB: the function is invoked with what matches a
\* filter; whether it was accepted is only logged.
InvokeRecords ==
  /\ run.pc = "invoke" /\ source # "sqs"
  /\ filtered' = filtered \cup (run.in \cap Conf.unmatched)
  /\ tried' = tried \cup (run.in \ Conf.unmatched)
  /\ run' = [run EXCEPT !.pc = "sweep", !.in = {}]
  /\ UNCHANGED <<mappingVars, mapping, msg, old, buf, elapsed, streamVars, accepted>>
-----------------------------------------------------------------------------
\* sweepStaleIterators at the end of a poll: the mappings it did not list at its
\* beginning are forgotten.
SweepStale ==
  /\ run.pc = "sweep" \/ (run.pc = "delete" /\ run.del = <<>>)
  /\ Forget(Mappings \ {run.id})
  /\ run' = Idle
  /\ UNCHANGED <<mappingVars, mapping, msg, old, log, dropped, tried, accepted, filtered>>

\* A poll that finds no enabled mapping.
PollNothing ==
  /\ run.pc = "idle" /\ mapping.state # "Enabled"
  /\ Forget(Mappings \ IF mapping.state = "Deleted" THEN {} ELSE {mapping.id})
  /\ UNCHANGED <<mappingVars, mapping, msg, old, log, dropped, run, tried, accepted, filtered>>

Poll == \/ Receive \/ Deleting \/ Filter \/ Accumulate \/ Deliver \/ Delivered
        \/ GetRecords \/ GetStreamRecords \/ GetRecordsFails \/ InvokeRecords
        \/ SweepStale \/ PollNothing

Next ==
  \/ Poll \/ PutRecord \/ Trim
  \/ \E m \in Msgs : SendMessage(m) \/ LeaseEnds(m) \/ Ages(m)
  \/ \E u \in Mappings : WindowElapses(u)
  \/ Update \/ DeleteMapping \/ CreateMapping

\* The poller polls on, leases and windows end.
Fairness ==
  /\ WF_vars(Poll)
  /\ \A m \in Msgs : WF_vars(LeaseEnds(m))
  /\ \A u \in Mappings : WF_vars(WindowElapses(u))

Spec == Init /\ [][Next]_vars /\ Fairness
-----------------------------------------------------------------------------
TypeOK ==
  /\ mapping \in [id : Mappings, state : {"Enabled", "Disabled", "Deleted"}]
  /\ msg \in [Msgs -> [st : {"unsent", "visible", "leased", "deleted"}, handle : {0} \cup Handles]]
  /\ run.pc \in {"idle", "expired", "filtered", "invoke", "delete", "sweep"}
  /\ iter \in [Mappings -> {None} \cup Nat] /\ log \in 0 .. MaxRecords /\ dropped \in 0 .. log
  /\ old \subseteq Msgs /\ tried \subseteq Msgs \cup Records

\* The poller removes a message from the queue only when an invocation with it
\* was accepted, when it matches no filter or when it is too old: not for an
\* invocation that was refused, for a half of the batch that was, or for a
\* handle it kept while the message was delivered anew.
NoneDropped ==
  \A m \in Msgs : msg[m].st = "deleted" => m \in accepted \cup filtered \cup old

\* No message occurs twice in the parts of a batch.
Distinct(parts) ==
  \A i, j \in DOMAIN parts : \A k \in DOMAIN parts[i], l \in DOMAIN parts[j] :
    parts[i][k][1] = parts[j][l][1] => i = j /\ k = l

\* A batch never holds a message twice, though its lease may have run out and
\* it was received again while the batch was being gathered.
BatchDistinct ==
  /\ \A u \in Mappings : Distinct(<<buf[u]>>)
  /\ Distinct(run.work)

\* What was handed to the function, is about to be, or matched no filter.
Handed == tried \cup filtered \cup (IF run.pc = "invoke" THEN run.in ELSE {})

\* The records the next read with the iterator of u will not deliver.
Behind(u) ==
  CASE source = "kinesis" -> 1 .. dropped + Min({iter[u], Held})
    [] source = "dynamodb" -> 1 .. iter[u] - 1

\* From TRIM_HORIZON a poller passes over no record but for what the shard lost,
\* whatever iterators are lost on the way.  Of DynamoDB it misses only records
\* that were trimmed; a Kinesis iterator slides with the oldest record, and the
\* poller misses no more records than were trimmed or pushed out.
NothingSkipped ==
  start = "TRIM_HORIZON" /\ iter[mapping.id] # None =>
    LET missed == Behind(mapping.id) \ Handed IN
      /\ source = "kinesis" => Cardinality(missed) <= dropped
      /\ source = "dynamodb" => missed \subseteq 1 .. dropped

\* While the mapping stays enabled, every message of the queue is offered to the
\* function, unless the filters or its age rule it out, though buffers are lost
\* with mappings and handles run out.
EveryMessageTried ==
  <>[](mapping.state = "Enabled") =>
    <>[](\A m \in Msgs : msg[m].st = "unsent" \/ m \in tried \cup filtered \cup old)
=============================================================================
