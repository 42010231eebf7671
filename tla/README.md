# TLA+ models of Gopherstack

Gopherstack is an in-process emulator of AWS (and some Azure) services written
in Go. Every service is an in-memory backend behind an HTTP front end; a common
set of packages starts background work, saves snapshots of the backends to disk
and restores them. This directory holds TLA+ models of the parts where the order
of steps decides whether the result is right, the TLC configurations that check
them on small instances, and TLAPS proofs for every size.

Paths are relative to the repository root.

## 1. The system and its parts

| Part | State | Operations | What is hard |
|---|---|---|---|
| SQS message core (`services/sqs/messages.go`, `message_visibility.go`, `fifo.go`, `dead_letter.go`, `janitor.go`) | per queue: pending slice, in-flight slice and its handle index, deduplication maps, per-group send stamps, receive-attempt cache, delayed counter, activity flag, redrive policy | send, batch send, receive (two passes), delete, change visibility, purge, redrive, janitor sweep | `*Message` pointers are shared by slices, cache and dead-letter queue; leases end lazily, by whoever comes next; binary search over a slice others edit; counters reconciled only now and then |
| SQS queue table (`queues.go`, `queue_attributes.go`, `store.go`) | name → queue, purge cooldowns, move tasks | create, delete, set and get attributes | `b.mu` and `q.mu` are nested in both directions; a policy is published before it is applied |
| SQS long poll (`messages.go`, `queues.go`) | the notify channel of a queue | wait, notify, close | wake-ups that never come, a channel closed under its senders, queues that go while somebody waits |
| SQS move tasks (`message_move_tasks.go`) | tasks, their status and context | start, cancel, the mover goroutine | receive, send and delete are three calls; errors that are ignored; handles read through a shared pointer |
| SQS persistence (`services/sqs/persistence.go`) | a snapshot of the queues | Snapshot, Restore | what a snapshot leaves out must be rebuilt |
| Persistence (`pkgs/persistence`) | per service: generation, timer; on disk: snapshot and temporary files | Notify, timer callback, SaveAll, ImportAll, RestoreAll, FileStore.Save | debounce, callbacks that overtake each other, failure and power loss between file operations |
| Worker supervision (`pkgs/worker`) | stop flag, wait group, timers; one run and its channel | Go, Ticker, After, Stop; Start, Stop | start racing stop; timers that fire while they are being stopped |
| Generic tables (`pkgs/store`, `pkgs/safemap`) | rows and secondary indexes | Put, Delete, Restore | indexes that drift from the rows |
| Lambda invocations (`invocation.go`, `containers.go`, `runtime_api.go`, `janitor.go`, `lifecycle.go` of `services/lambda`) | concurrency counters, runtimes, the queue and the pending requests of each runtime | invoke, enqueue, retry, time out, evict, reset; `next`, `response`, `error` of the Runtime API | slots on a dozen paths; a timer racing an answer; runtimes evicted under their callers |
| Lambda event sources (`event_source_*.go`) | mappings, shard iterators, batch buffers | poll, filter, buffer, invoke, bisect, delete; create, update, delete a mapping | handles that die while a batch is gathered; checkpoints against refusals; mappings that go during a poll |
| SNS, EventBridge, Scheduler, Pipes | subscriptions, rules, schedules | publish, fan-out, due-time runners | delivery across services, retries |
| DynamoDB and streams, Kinesis | items, stream records, shards, iterators | transactions, stream reads | all-or-nothing writes, sequence order |
| Step Functions | executions | start, stop, run a state machine | a JSON interpreter |
| Azure queues (`services/azurequeue`, `services/azureservicebus`) | messages with locks | receive, complete, abandon | leases, again |
| Other services | tables of resources | create, read, update, delete | little: one table under one lock |
| Port allocator (`pkgs/portalloc`) | used ports, a cursor | acquire, release, reserve | wrap-round of the cursor |
| Wiring (`cli.go`), dashboard, UI, telemetry | start-up and shutdown order | | |

How they interact: the front ends call a backend's methods from one goroutine per
request; `persistenceMiddleware` in `cli.go` calls `Notify` after each mutating
request; backends start janitors through `worker.SingleRun` and timers through
`worker.Group`; shutdown stops the workers and then calls `SaveAll`. Services call
each other's backends directly (SNS to SQS, Lambda from SQS, Kinesis and DynamoDB
streams).

What makes the modelled parts correct:

* **SQS**: an accepted message is never lost and never in two places; a receipt
  handle belongs to one lease and dies with it; a lease is not broken by another
  receive; FIFO groups go out in order, one consumer at a time; deduplication and
  rate limits hold across stale clocks; messages move to a dead-letter queue only by
  the policy.
  A restart keeps all of this.
* **Long poll**: a poll returns; in a standard queue a message that stays visible reaches a
  client that keeps polling, and a poll never waits next to a message it was to be woken for.
* **Move tasks**: a move loses nothing and doubles a message only when its lease ran out;
  one task works on a source; a cancelled task ends.
* **Locks**: no deadlock, every call returns.
* **Lambda invocations**: every slot comes back; a request is answered by one POST; an answer
  posted in time is delivered; a hung runtime is not used again; invocations end.
* **Lambda event sources**: a message leaves the queue only when the function got it (or it
  was filtered or too old); every message is tried; no record of a stream is passed over but
  for what its shard lost.
* **Persistence**: the file on disk is an old or a new snapshot, never a torn one;
  a completed save survives power loss; a notified change is saved once notifications cease
  (while they keep coming the save is put off, in the end to the one at shutdown).
* **Workers**: after Stop nothing of the group runs or will run; a run of a
  `SingleRun` always has somebody who can cancel it.

`PROJECT.json` lists every component with its status, the line-by-line map from
definitions to source, and the hazards, each at the line where it bites.

## 2. Modules

| Module | Models | Properties |
|---|---|---|
| `SqsQueue` | the message core | invariants and action properties below |
| `SqsLease` | abstract: messages are ready, leased or retired | what `SqsQueue` implements |
| `SqsQueueProofs` | | proofs of both: nothing lost, handles, deduplication, rates; passes as moves of messages |
| `SqsPlaceProofs` | | proofs of `SqsQueue`: where messages are, leases, groups, order, dead-lettering |
| `SqsPoll`, `SqsPollProofs` | the long poll of a standard queue, the notify channel and the life of the queue | wake-ups, liveness |
| `SqsMove`, `SqsMoveProofs` | move tasks, call by call, between two queues with consumers | nothing lost, nothing doubled |
| `SqsLocks`, `SqsLocksProofs` | `b.mu`, `q.mu` and the lock sequences of the operations | deadlock, return |
| `LambdaInvoke`, `LambdaInvokeProofs` | invocations of one function and its runtimes | slots, answers, timeouts |
| `LambdaPoller`, `LambdaPollerProofs` | the event source poller with one mapping at a time, and the shards it reads | batches, handles, iterators |
| `Persist` | one service's entry in the manager, and the file store step by step | |
| `WorkerGroup` | `worker.Group` | |
| `SingleRun` | `worker.SingleRun` | |
| `RuntimeProofs` | | proofs of these three; the definitions of `SingleRun` have the prefix `SR` and those of `WorkerGroup` the prefix `WG` where they would clash |
| `MC...` | instances for TLC | |

How they compose: `SqsQueue` has the data of a queue and no waiting, `SqsPoll` the waiting
and an abstraction of the data (a message is pending or leased, with the time it has to go),
`SqsMove` uses sends, receives and deletes as single steps, as `SqsLease` promises them.
`LambdaPoller` sees the queue in the same way and an invocation as accepted or refused, which
is what an `Event` invocation of `LambdaInvoke` answers.

### SqsQueue

Messages live in a heap `msg`, slices hold heap indices: this keeps the aliasing of
`*Message` in the code. An operator takes and returns a *world* (heap, queues,
handles issued, messages gone), so that `PrepareAndPick` composes the sweep of expired
leases, the blocked groups, the fast path, the slow path and the recount exactly in
the order of `prepareAndPickMessages`. In particular the fast path may have routed a
message to the dead-letter queue when it gives up, and the slow path starts from the
slice that still holds it. A loop of the code over a slice is `Pass`, a recursive function over the
positions, with one operator for its body (`SweepOne`, `PickOne`, `DrainOne`).

Each operation is one action because it holds `q.mu` throughout. Three exceptions are
modelled as they are:

* `applyRedrivePolicy` writes the policy under `b.mu`, then takes `q.mu` for the
  drain: two actions, with receives, visibility changes and sweeps possible between
  (`draining`); operations that need `b.mu` are not. The policy is two fields, the count and
  the queue, written one after the other (`dead_letter.go:75-76`); a receive that reads between
  them is a data race and sees the new count with the old queue. Here they are written together.
* `SendMessageBatch` and `pruneState` read the clock before they have `q.mu`: their
  time is any of the last `LockWait` seconds (`Clocks`).
* `PurgeQueue` runs under `b.mu` without `q.mu`. It is one action here; the torn
  interleavings with a receive are a data race and are not modelled.

`Restart` is a snapshot followed by a restore in a new process: slices, leases with their
handles and the sequence counter are kept, the handle index is rebuilt, the activity flag is
set, send stamps and the attempt cache are lost. Deduplication entries and purge cooldowns are in the
snapshot (`persistence.go:45-48`, `345-367`) and are kept. Which of these happens is `Restored`,
queue by queue.

Deduplication is keyed by group and id (the default scope). Time is an integer; the zero `time.Time` of a message without delay is 0. Left out:
request validation, bodies, attributes, checksums, the wait loop of a long poll, which is `SqsPoll`
(`pollReceive` is a sequence of `receiveOnce`), and the answer served from the
receive-attempt cache (the cache itself, its expiry and its effect of leaving the
queue alone are there).

`DedupOnce`, `RateBounded` and `PoisonBounded` need history: a message records the
queue it was sent to, the time it was accepted (`at`) and the number of purges before
it (`epoch`) and the restarts before it (`boot`); a lease records the receive it came from (`batch`).

### SqsLease and the refinement

`SqsLease` says what is promised without slices, clocks and passes: `Accept`, `Ack`, and
one action `Serve` in which some leases of a queue end, some messages are dropped, some
move to another queue and some are leased under handles that were never issued. Every
operation of `SqsQueue` is one of these or a stutter. `SqsQueue!ImplementsLease` states it
under the mapping (`Promise`): pending slices → `ready`, in-flight slices → `leased`, `gone` →
`retired`, `1 .. uuid` → `issued`.

### SqsPoll

The queue is a standard one. In a FIFO queue the picks pass over visible messages of a blocked group
(`message_visibility.go:139`, `228`) and a requeued message goes back to its number's place, which
changes what may be promised (section 5); neither is here, and no property is claimed of FIFO queues.

A poll alternates between `receiveOnce`, which looks the queue up under `b.mu` and picks under
`q.mu`, and a `select` over the channel read under that `q.mu` and a one-second timer. A
broadcast is two steps under `q.mu`: a new channel replaces the old one, and the old one is
closed. `DeleteQueue` holds `b.mu` and not `q.mu` while it reads the channel and closes it, so
the two interleave; closing a closed channel panics, which ends the call (a panic in
`DeleteQueue` leaves the queue in the table). `Reset` closes nothing. Queues are numbered, and
callers may still hold one that is out of the table. `loud` marks messages that came with a
broadcast; sweeps are quiet, and so are dead letters of another queue that arrive here
(`DeadLetter`). Receive counts are left open: of the messages whose lease ends in a sweep any part
goes back, in any order, and the others go to a dead-letter queue; likewise a visibility change to
0 gives the message back or dead-letters it, and wakes the polls of this queue only. Time counts down in the state (delays, leases, the poll's
deadline and its timer), which keeps the state space finite under liveness. Channels are
drawn from a pool and reused when nobody refers to them.

### SqsMove

Bodies are moved between two queues by tasks and used by consumers. A copy of a body is
pending, leased (by a consumer or by a task) or gone. The task holds an index of a copy, as the
code holds a `*Message`: its delete and its give-back act on whatever lease that copy has by
then. A receive fails when its queue is gone and, at any time, for too many messages in flight; a
send may fail at any time too. A FIFO queue remembers the deduplication id of a body until `Forget`. `lapsed` is history:
bodies whose lease ran out under a task (bounded to once for each body).

### SqsLocks

An operation is the sequence of lock instructions it executes. `b.mu` is Go's
`sync.RWMutex`: a writer first announces itself, which blocks new readers, then waits
for the readers that are in. This is what makes a nested read lock dangerous.
`Calls[t]` is the set of operations goroutine `t` runs.

### LambdaInvoke

One function. A call is a goroutine with a program counter; each step is what the code does
under `b.mu`, `rt.mu` or with one operation of the pending `sync.Map` or a channel. A
`RequestResponse` call goes through slot, lookup, start, send, wait and deferred release; an
`Event` call is released by its own goroutine after retries. The container is external and
uninhibited: it may take the next request, report an init error, answer any pending request,
or do nothing, as long as its server is up. `posting` holds the POSTs between `LoadAndDelete`
and the send on the result channel. An init error is two steps, since `handleInitError` holds no lock
between its send (`runtime_api.go:317`) and its delete (`322`): `HandleInitError` sends and notes the
request in `told`, `InitDelete` deletes it; in between a POST may claim the request, and a timer may
take it. A POST whose result channel is full waits (`Put` needs room).

`StopWaiting` covers the timer and the client's context, with and without the grace period. The
grace period is a timer and nothing else: `GraceOver` needs `grace = 0`, and `Tick` counts it down.
What relates it to the goroutines is the unit of `Tick`: a goroutine that can run, a POST with
room for its answer or a call with an answer to read, does so before the unit is over. `Grace`
is the length in these units; the code's is 100 ms, so the assumption is that a runnable goroutine
is not kept waiting for 100 ms. The timer of the invocation itself is not measured and may fire at any moment.
`intime` is history: the requests a POST claimed while their call was waiting, before its timer fired.
Limits may change between two calls, so `Acquire`
chooses among no limit and `Limits`. Runtimes leave the map by the janitor, by the LRU bound, by
`DeleteFunction` (`Evict`), by `Reset`, or by a timeout; `cleanupRuntime` follows later or never.

### LambdaPoller

One mapping at a time, over a queue, a shard of Kinesis or a shard of a DynamoDB stream; `Init`
chooses the source and the starting position. `config` has the filters (as the messages and
records that match none), the window, bisection and the batch size; `Update` changes any of them
under a poll, as `applyESMUpdate` does, and a poll of a mapping that was replaced meanwhile keeps the
old one (`run.conf`). A poll of a queue is receive and age split, deletes one by one, filter, deletes,
buffer, invocations one by one (with bisection as a work list), deletes; leases end, messages age and
mappings change between any two of these. `DeleteNext` ends the whole list at the first handle that
is no longer current, as `DeleteMessagesLocal` does.

A shard is a ring. Its records are numbered; `log` of them were put and the oldest `dropped` are
gone, by a push into a full ring (`RingSize`) or by the janitor (`Trim`). An iterator of Kinesis is
what `kinesis/records.go:233-264` makes of it, an offset from the oldest record held, cut to their
number: `GetRecords` reads from `dropped + offset`, so that the same iterator names a later record after
`dropped` has grown. An iterator of DynamoDB is a sequence number (`GetStreamRecords`); one
before the trim horizon is an error, and a read that finds nothing leaves the iterator at the last
record. Both move the iterator before the invocation. `InvokeRecords` applies the filters
(`event_source_poller.go:474`). The shard of a DynamoDB stream is followed until its ring is full, when
the stream splits it; closed and child shards, merges and a stream that is disabled are not modelled.

### Persist

One service. `mem` is the version of the service's state, `last` the number of versions
made so far, `owed` the `Notify` calls that requests have yet to make. A save is named
by the generation its callback captured (`SaveAll` is 0) and goes through
snapshot, create, write, fsync, rename and directory fsync, any of which can fail.
`Notify` stops a pending timer and starts another; since the generation of a timer that was stopped in time is
never looked at, its number is used again, and notifications are not bounded by `MaxGen`.
`may` is the set of contents a power loss could leave in the file: a rename adds to
it, a directory fsync reduces it to the current file, and a rename of a file that was
not fsynced adds `Torn`. `dir` is the service's own directory, which its first save makes
(`file.go:53`): it is fsynced itself and not in its parent, so that it reaches the disk at a time of
its own (`DirReachesDisk`) and until then may be lost as a whole (`Left`). `Restart` covers both the clean restart and the crash, and
restores or fails to restore. `told`, `acked`, `failed` and `overlapped` are history:
the version at the last notification, the newest version whose save returned, whether a
save failed, and whether a save took its snapshot while another was writing.

### WorkerGroup and SingleRun

`WorkerGroup` splits `Stop` at the points where `g.mu` is not held: flag and copy of
the timers, cancel, one step per timer, wait. A timer's goroutine is three steps:
fired, `removeTimer`, end of the callback. `SingleRun` splits `Stop` into the exchange
of the fields, cancel, and the wait, which may give up.

## 3. Runs

All runs use breadth-first search to the end of the state space.

| Run | Instance | Shows |
|---|---|---|
| `sqs_standard` | a standard queue and its dead-letter queue with a limit of one receive, 2 messages, 3 handles, batches of 1 and 2, times 0–2, delays 0 and 1, retention 1, a restart | `NoLoss`, `OnePlace`, `HandleIndex`, `ActivityFlag`, `LeaseRespected`, `ImplementsLease` |
| `sqs_fifo` | one FIFO queue, 2 groups, 2 deduplication ids, 3 messages, 3 handles, batches of 1 and 2, times 0–2, one send per group and second, clock readings up to 1 old | `GroupExclusive`, `DedupOnce`, `RateBounded`, `DeliverInOrder` |
| `sqs_redrive` | a FIFO queue and its dead-letter queue, 2 messages, 2 handles; policy of 2 receives at creation, lowered to 1, removed and set again at any time; attempt ids; a restart | `SeqAscending`, `PoisonBounded`, `RoutedByPolicy` |
| `sqs_poll` | a standard queue, one poller, one other caller, 2 messages, an in-flight cap of 1, 2 incarnations of the queue | `NoMissedWake`, `PollReturns`, `Served` |
| `sqs_move` | 2 tasks, a standard source, a FIFO destination and the source itself as destination, one body | `NotLost`, `MovedOnce`, `OneMover`, `CancelEnds` |
| `sqs_locks` | 3 goroutines; receive, change visibility, get and set attributes, table updates, janitor | `NoDeadlock`, `EveryCallReturns` |
| `lambda_invoke` | one synchronous and one Event call, limit 1, queue of 1, 1 retry, a grace period of one unit, init errors to the synchronous call | `NoSlotLeak`, `OneAnswer`, `HungRuntimeRetired`, `AcceptedDelivered`, `CallsEnd` |
| `lambda_poller` | 2 messages, or 3 records in a ring of 2; 2 mappings in turn; 2 configurations, one with filter and batches of 3, one with window, bisection and batches of 2 | `NoneDropped`, `BatchDistinct`, `NothingSkipped`, `EveryMessageTried` |
| `persist` | 2 versions, 2 timers that fire and the save at shutdown, any number of notifications, 2 restarts | `WholeFile`, `DurableOnceSaved`, `SettledFile`, `EverySaved` |
| `worker_group` | 2 goroutines, 2 callbacks, 2 calls of Stop | `Joined`, `NothingPending`, `StopReturns` |
| `single_run` | 3 runs, 2 goroutines that stop | `NoRunForgotten`, `TakenRunEnds` |
| `sqs_locks_send` | violation of `NoDeadlock` | send, set and get attributes block each other |

`TypeOK` of a module describes its state; for `Persist`, `WorkerGroup` (`WGTypeOK`), `SingleRun` (`SRTypeOK`)
and `SqsLease` (`LeaseTypes`) it is part of a theorem.

**Why the bounds are enough.** *Standard queue*: two messages and three handles let a
message be leased, lost by expiry, leased again under a new handle while the old handle
is still used, with another message in the slice so that the swap-delete moves
something; the restart may come between any two of these. Visibility timeouts are 0, so that leases end at
once; that one is extended beyond the present is left to the theorems, which hold for all timeouts. *FIFO*: three messages in two
groups put a requeued message before, between and after others of the slice; the window of 2
with readings 1 old covers an expiring deduplication entry; at a rate of one every second send
of a group is at the limit. *Redrive*: two handles reach a limit of 1 or 2 in the source and, at
a limit of 1, lease the message in the dead-letter queue. *Poll*: one caller can broadcast
against `DeleteQueue`; with a cap of 1 and 2 messages a lease that ran out blocks the queue until
it is swept; a second incarnation lets old channels and old queue pointers meet a new queue.
*Move*: two tasks are needed for two movers on a source; a body, its copy at the destination and
two more copies in flight is all that one lapse for each body can make. *Locks*: a deadlock of a
reader-writer lock needs a reader, a writer that waits and a third goroutine. *Invoke*: two calls
meet in the counter, in the queue of one, on one runtime and on its successor; one retry makes a
second request id; the longer the grace period the weaker the assumption, so one unit is the strict
case; an init error to the Event call ends in the same two steps (`Failing` leaves it out, the
theorems do not). *Poller*: two messages fill a batch, halve it, and put a dead handle before a
live one; two mappings let a poll outlive its mapping; three records in a ring of two push one out,
and a trim takes one or both. No batch is smaller than the number of messages, so that a receive which
leaves a visible message behind, and may do so for ever, is not among the cases of `EveryMessageTried`. *Persist*: two callbacks suffice for a
superseded callback, and `SaveAll` is a third save; the theorem covers the rest. *Workers*: a
second goroutine, callback or Stop is there to meet the first; the theorem covers the rest. For
*Poll*, *Move*, *Locks*, *Invoke* and *Poller* the theorems of section 4 cover every size of the
safety properties; the instances matter for liveness and for what the properties rest on.

Symmetry is used in `sqs_fifo` and `sqs_redrive` only (groups and deduplication ids are compared
for equality, and all their properties are safety properties). Deadlock checking is off where
the bounds end the behaviour (clock, messages, versions, calls); it is on in `sqs_poll`,
`sqs_locks` and `single_run`, where something can always go on.

**Fairness.** `SqsQueue` has none: it states safety. `SqsPoll` assumes that time passes, that
calls under way go on, that the janitor sweeps, and that a poll gets its mutexes (strong
fairness of a poll and of the sweep: Go's mutexes hand the lock to a waiter that starves);
`Served` moreover assumes clients that poll again when their poll has returned, and nothing of
senders or of those who delete. `SqsMove` assumes that the goroutines of tasks and of
`CancelMessageMoveTask` run on. `LambdaInvoke` assumes that goroutines run on, timers fire, time
passes in grace periods and a send on a channel with room completes; nothing of the container, of clients, of the janitor or of
`cleanupRuntime`. `LambdaPoller` assumes that the poller polls on, leases and windows end, and
nothing of invocations: they may be refused for ever. `SqsLocks` assumes
strong fairness of each goroutine's next lock instruction, because Go's mutexes hand the
lock to a waiter that starves, and `sync.RWMutex` lets the readers that wait behind a
writer in before the next writer. `Persist` assumes that requests reach their `Notify` and
running saves go on or fail. Of the timer it assumes `WF(Fire)` or notifications without end: each `Notify` starts the 500 ms
anew (`manager.go:135-138`), so a timer need fire only if they cease. `WorkerGroup` assumes that a `Stop` in
progress continues, sweeps return, and a goroutine whose context is done returns although
a ticker may also be ready (strong fairness: Go's `select` chooses at random among ready
cases). `SingleRun` assumes that a `Stop` in progress continues and a cancelled runner
returns. No fairness is assumed of requests, ticks, failures or restarts.

## 4. Proofs

| Theorem | Statement |
|---|---|
| `RuntimeProofs!PersistSafe` | `Spec => [](TypeOK /\ WholeFile /\ NoTempLeft /\ DurableOnceSaved /\ SettledFile)` |
| `RuntimeProofs!GroupStops` | `WGSpec => [](WGTypeOK /\ Joined /\ NothingPending)` |
| `RuntimeProofs!RunsAccounted` | `SRSpec => [](SRTypeOK /\ NoRunForgotten /\ StopWaited)` |
| `SqsQueueProofs!QueueSafe` | `Spec => [](NoLoss /\ HandleIndex /\ ActivityFlag)` |
| `SqsQueueProofs!DedupSafe` | `DedupRoom` implies `Spec => []DedupOnce` |
| `SqsQueueProofs!RateSafe` | `Spec => []RateBounded` |
| `SqsPlaceProofs!GroupSafe` | `Spec => []GroupExclusive` |
| `SqsPlaceProofs!SeqSafe` | `Spec => []SeqAscending` |
| `SqsPlaceProofs!OnePlaceSafe` | `Plain` implies `Spec => []OnePlace` |
| `SqsPlaceProofs!HolderSafe` | `Plain` implies `Spec => LeaseRespected` |
| `SqsPlaceProofs!PoisonSafe` | `NoChain` implies `Spec => PoisonBounded` |
| `SqsPlaceProofs!RoutedSafe` | `NoChain` implies `Spec => RoutedByPolicy` |
| `SqsPlaceProofs!OrderSafe` | `InLine` implies `Spec => DeliverInOrder` |
| `SqsPlaceProofs!LeaseImplemented` | `Plain` implies `Spec => ImplementsLease`, the refinement |
| `SqsQueueProofs!LeaseSafe` | `LeaseSpec => [](LeaseTypes /\ OneHome /\ HandleOwner)` |
| `SqsQueueProofs!DeadHandles` | `LeaseSpec => HandlesStayDead`: an ended handle never names a lease again |
| `SqsPollProofs!NoWakeMissed` | `Spec => []NoMissedWake` |
| `SqsMoveProofs!MoversApart` | `Spec => []OneMover` |
| `SqsMoveProofs!MovesOnce` | `Spec => []MovedOnce` |
| `SqsMoveProofs!MovesKeep` | `NoFifoSource` implies `Spec => []NotLost` |
| `SqsLocksProofs!LocksLive` | `OrderedCalls` and `Acyclic` imply `Spec => []NoDeadlock` |
| `LambdaInvokeProofs!InvokeSafe` | `Spec => [](NoSlotLeak /\ HungRuntimeRetired)` |
| `LambdaInvokeProofs!AnswersOnce` | `Spec => []OneAnswer` |
| `LambdaInvokeProofs!AnswersDelivered` | `Spec => []AcceptedDelivered` |
| `LambdaPollerProofs!PollerSafe` | `Spec => [](NoneDropped /\ BatchDistinct /\ NothingSkipped)` |

None of the properties is inductive as it stands; what follows says what had to be added and why.
The inductive invariants of `SqsMove`, `SqsPoll`, `SqsLocks`, `LambdaInvoke` and `LambdaPoller` were checked
with TLC on the instances of section 3 before they were proved.

*Persist.* Assumption: the bounds are natural numbers. `WholeFile` needs `FlushedFirst` (only an
fsynced file is renamed). `DurableOnceSaved` needs `InTurn`: as long as no saves overlapped, there
is one writer, its snapshot is at least as new as every save that returned or is syncing its
directory, and the file holds what the syncing save renamed; this in turn needs `NotAhead`
(snapshots come from the present or the past), and `Synced`, which says of the contents the file may
have what `DurableOnceSaved` says once the directory is on the disk. `SettledFile` needs `Covered`: somebody is
responsible for the last notification, namely a pending timer, its fired callback, a save
that has yet to take its snapshot, a writer with a new enough snapshot, or the file
already has it. `Covered` is where the generation check could go wrong, and it rests on
`FreshSaves`: a pending timer always carries the current generation, so the callback
that fires is never skipped unless a newer `Notify` has armed its own timer.

*WorkerGroup.* No assumption on the sets. `OneStopper` says that one call of `Stop` set
the flag and emptied the map; `Tracked` that every pending timer is in the map or in that
call's copy; with `wg` counting exactly the running goroutines (part of `WGTypeOK`), the
wait joins all of them and a later `Go` is refused.

*SingleRun.* Assumption: the bound on runs is a natural number. The invariant adds
`HoldsRun`: a call of `Stop` that goes on after the exchange holds a run, so what it
cancels is a run that was started.

*SqsQueue.* Assumptions: timeouts, batch sizes, the deduplication window, the cap of its map, the
rate limit, the wait for a lock and the bounds on messages and handles are natural numbers, there are finitely many queues, and no redrive policy names its own queue as the dead-letter queue. The invariant is one of
worlds, `Sound`: the slices have their shape, no queue is its own dead-letter queue, the handle
index is the in-flight slice, no handle is larger than the last one issued (so that a new one is
new), the flag is set where there are messages, and every message is retired or in a slice. There is
one lemma for each operator that the operations are composed of, from `Route` and the binary search
of `Requeue` to `ReceiveOnce` and the drains of a restart, each saying that a sound world is left
sound. In the middle of a pass a world is not sound: the message that a sweep has given back is
still in the in-flight slice, and the handle of a lease that ended is already out of the index. So
each pass has an invariant of its own (`DrainInv`, `SweepInv`, `PickInv`, `FastInv`), which divides
a slice into what was visited and kept, what was visited and is now elsewhere, and what is still to
come. The theorem does not need that a message is in one place, which is false when a receive comes
between a new policy and its drain (section 5).

`DedupSafe` rests on `Sound` and on what a world remembers at the present time, `Remembered`: a
deduplication map has one entry per key, and every message accepted since the last purge of its
queue either has an entry that lives until its window is over or its window is over now; and
messages of one key are a window apart. The window of a message is `DedupWindow - LockWait` from
the moment it was accepted, because its entry counts from a clock reading that is up to `LockWait`
old (`Clocks`). Most steps are *calm* (`Calm`): they write no deduplication map and none of a
message's tags, and `CalmRemembers` is all they need; that the passes of a receive, the drains and a
restart are calm is shown operator by operator. What is left are the send (`SendRemembers`),
pruning with a clock reading that may be stale (`PruneRemembers`: stale drops less), the purge,
which forgets the entries and ends the epoch of its messages, and the passing of time.
`DedupRoom` says that there are at most as many keys as the map has room for; then `NoEviction`,
a pigeonhole on the keys. Without it the code evicts its oldest live entry and accepts a copy
(section 5), so the hypothesis cannot be dropped. The instance of `sqs_fifo` satisfies it.

`RateSafe` needs neither `DedupRoom` nor another hypothesis. Its invariant, `Paced`, compares two
counts: in the present second of the present run of the server the messages that a group accepted
with a current clock reading are at most the stamps of this second that the rate limiter has for
the group, and in no second of any run are they more than the limit. The hard step is the pruning
in `RecentSends`: a batch that waited for the lock prunes with a reading that may be a second or
more old and appends a stamp with it, between sends with a current reading. `RecentKeeps` says
that whatever the reading, pruning loses no stamp of the present second (a reading is never ahead
of the clock), by a count along the pass (`CountStep`, `CountAppend`, `RecentRun`); `SendPaced`
that a send which is let through adds a stamp for the message it adds. A new second or a new run,
whose limiter starts empty, has no messages yet (`LaterPaced`). `StepKinds` sorts the steps of
`Next` once for both theorems: sends to a standard and to a FIFO queue, calm steps, pruning, the
purge, a restart, the passing of time.

The theorems of `SqsPlaceProofs` are about where messages are. A *view* of a world has what they see
of it: per queue the pending slice, the set of leases, the policy, the counter and the delay, and
the messages. In the middle of a pass it joins what was kept and what is still to be visited, so
that a visit of a pass is one *move* of one message (`Move`): a lease ends and its message is
retired, pending again at its place or dead-lettered; a pending message is retired, dead-lettered,
copied to the dead-letter queue or handed out. A pass is a run of moves (`Chain`), and `StepViews`
says that every step of the queues is a run of one queue, a run of redirections, or one of a few
plain changes (`Step`). This is proved once, operator by operator (the single visits at the end of
`SqsQueueProofs`), and the moves say what the code has checked: a message is handed out when its
group is not blocked and what is before it in the group is delayed (`Free`), it goes back to where
its number belongs in a sorted slice (`Fits`), it is dead-lettered when it is over the count
(`Routes`). After that no slice, index or clock is needed any more.

* `PlaceInv` (`Placed`) is inductive with no hypothesis: the leases of a group are of one batch,
  sequence numbers follow the order of arrival, and a queue that no policy names as a dead-letter
  queue is sorted, has its own messages only and none of them twice. `GroupSafe` and `SeqSafe` follow.
* `SoleInv` adds `Unique` (one place for every message) and `Settled` (no pending message is over
  its count), under `Plain`: the policies are those given at `CreateQueue` and no dead-letter queue has one. Under `Plain`
  no message is ever redirected or copied from a pending slice, it goes to the dead-letter queue
  from its lease. Without it the code does put a message in two places (section 5).
  `OnePlaceSafe` follows, and `HolderSafe` by following a lease along a run.
* `PoisonSafe` and `RoutedSafe` allow policies that change at any time; `NoChain` says that no
  dead-letter queue has a policy. They follow the leases issued in a run (`Bounded`) and where a pending message comes
  from (`Traced`). With a chain of policies a message arrives over the count in the
  middle queue, is copied on, and both bounds are about a copy.
* `OrderSafe` needs `InLine`: no FIFO queue is a dead-letter queue, whose slice is not sorted, and
  there are no delays (a delayed message lets later ones of its group pass). The
  invariant adds `Prompt` (what is pending is visible), and `Ordered` says along a run that what was handed
  out is before what is pending.

* `LeaseImplemented` is the refinement, under `Plain`. The predicate `Served(a, v, n)` says what the moves of a run add up
  to: only one queue was acted on; what it acted on, its pending messages and those whose lease
  ended, is still pending there, in its dead-letter queue, under a lease of the run, or retired; and
  the leases of the run have exactly the handles issued in it. `ServedMove` shows that one more move
  keeps this, kind by kind, and `ServedRun` that a run has it, with `Unique` and `Settled` at every
  view on the way. `StepKind` sorts the steps into services, steps that move nothing and new
  messages; `ServeStep`, `UnmovedStep` and `AcceptStep` find the action of `SqsLease` for each. The
  invariant adds `Spent` (only accepted messages are retired), so that an accepted message is new.

Each of the hypotheses is met by the instance of the run that checks the property.

*SqsLease.* The three conjuncts together are inductive. The one large step is `Serve`;
lemma `PoolIsolated` says that the messages it acts on are nowhere else. Together with
`LeaseImplemented` the theorems say what the concrete queue promises: under `Plain` a message of
the code's slices is ready, leased or retired, in one place, and a handle whose lease ended is
never the handle of a lease again.

*SqsPoll.* The theorem is about standard queues, as the module is. Assumption: finitely many pollers and callers, bounds that are natural numbers, enough
channels. The invariant `AllTold` says that the channel of a waiting poll is closed, or is the
current one of a queue without a visible message that was announced, or was taken out of the queue
by a call under way that is about to close it. It needs
`Apart` (a message is in one queue, so that what is sent or given back in one says nothing about
those who wait on another), `LoudVisible` (a message that came with a broadcast waits for no delay,
so that it does not become visible later in silence), and that the channel drawn from the pool is
referred to by nobody, which is the pigeonhole lemma `FreshChan`.

*SqsMove.* Assumption: finitely many tasks and bodies, room for their copies. `MoversApart` needs
`Registered`: a task that may still take a message is in the table and active there, so that the
check of a new task sees it. `MovesOnce` counts: the copies of a body on which no lease lapsed are
those that tasks are about to delete, each leased by its task alone (`HeldAlone`), and one that
stays (`OneStays`). `MovesKeep` strengthens `NotLost` to `Kept`: a body that was sent and not
dropped has a live copy that no task is about to delete. The step that could break it is a FIFO
destination that answers without storing, so `Remembered` says that what a FIFO queue remembers is
in it, or was dropped; a move takes nothing out of such a queue, because `Sources` and `HeldSource`
say that a task deletes in the source of a move only. `NoFifoSource` says that no move starts at a FIFO queue; with one
the code does lose messages (section 5), so the hypothesis cannot be dropped.

*SqsLocks.* `OrderedCalls`: the goroutines run any operations but `SendMessage` and
`DeleteMessage`, which take `b.mu` under `q.mu` and do deadlock (`sqs_locks_send`). `Acyclic`: each
queue has a height that falls along dead-letter queues; with a cycle the code deadlocks (section 5).
`Discipline` says, of each instruction of each operation, which locks are held when it comes and
what may be waited for with them; the invariant says that whoever has a lock is at an instruction
where its operation has it. If all are stuck, `NoneOnQueue` takes a goroutine that waits for a
queue of least height and finds that the owner would have to wait for a lower one; then nobody
waits for a queue, so readers leave, and after them the writer.

*LambdaInvoke.* Assumption: finitely many invocations, each synchronous or not, limits that are
natural numbers. `NextSlots` shows that a step keeps the set of holders and does not raise the
counter, or one call enters the set and the counter grows by one, or one call leaves it and the
counter falls by one unless it is 0; `SlotsCount` turns this into the inequality. It needs
`Untracked`: a call that has not begun holds nothing. `HungRuntimeRetired` needs `HasRuntime`
(past the lookup a call has a registered runtime) because a new runtime gets a number that no call
has, and `OutLate` (why a call stopped is known only after it waited). `AnswersOnce` follows a
request id through its life: it is unused, queued, pending, claimed by a POST or answered by one, in one
place at a time and on one runtime (`QueuedOnce` to `UnusedNowhere`). The answer of an init error is
kept apart: it may be in the channel of a request that is still pending or claimed, so that a POST
may wait for it to be read, and the theorem counts the answers of POSTs. `AnswersDelivered` needs `DeliveryInv`: a
request that was claimed in time has its answer coming, with a POST or in the channel, as long as the call
waits or is in its grace period, and that grace period is not yet used up. The second half is where
`Tick` enters: time does not pass while an answer can be sent or read, and in the grace period one
of the two is the case, also when a POST has first to wait for an init error's answer to be read,
because that answer ends the call. When the timer fires and finds the request pending, no
POST has claimed it (`PendingAlone`), and the call ends without a grace period.

*LambdaPoller.* Assumption: finite sets of messages, bounds that are natural numbers. `NoneDropped`
needs `MayDelete`: what a poll has on its list to delete was accepted, filtered out or too old, at
every stage of the poll. `BatchDistinct` needs that one receive returns each message once and that
a message received again replaces its handle in the buffer. `NothingSkipped` needs `Covered` of
every mapping and not only of the present one, since a mapping that was disabled comes back with its
iterator. For Kinesis `Covered` counts: among the records up to where the iterator points now (`Reach`)
at least as many as the offset were handed over; a push or a trim moves the place and not the offset, a
read moves both by the records it returns. `MissedOnly` turns this into the bound: the place is at
most `dropped` beyond the offset. For DynamoDB every record before the iterator was handed over or
trimmed.

Only model-checked:

* the liveness properties, which need fairness and `ENABLED`: out of this prover's reach;
* the recursive definitions are not proved to compute what a reference does for every input
  (induction over data); what the proofs need of them is proved along their runs.

## 5. Where the code and its documents disagree

Checked as a run that ends in a violation:

* **Lock order** (`sqs_locks_send`). `SendMessage` emits its metric, which reads `b.mu`,
  under `q.mu`; the attribute calls take `q.mu` under `b.mu`; with a writer waiting for
  `b.mu` nobody can go on. `services/sqs/PARITY.md` forbids this order. `DeleteMessage` does
  the same; `sqs_locks` runs the other operations.

Seen while modelling, and bounded out of the passing runs or expressed in a property's
exception.

SQS queues:

* **Routed twice.** `tryFastPickMessages` routes a message that is over its receive count and
  then falls back to `pickVisibleMessages`, which routes it again, since it is still in the
  slice: the dead-letter queue holds it twice. It takes a pending message over the count, as in
  a dead-letter queue with a dead-letter queue, or after the policy was lowered and before it
  was drained. `OnePlace` fails on such an instance (queues `s`, `d`, `e` with policies of one
  receive from `s` to `d` and from `d` to `e`).
* A FIFO dead-letter queue receives messages with the sequence numbers of their source, in
  the order their leases end, so its slice is not sorted;
  `SeqAscending` speaks of the other queues.
* A delayed FIFO message does not block its group: if `DelaySeconds` is lowered between two
  sends of a group, `DeliverInOrder` fails. `sqs_fifo` has one delay.
* Stamps of delayed batch entries and the pruning of the rate limiter interfere: of the
  sends that carry a *stale* clock reading a group may accept more than the limit.
  `RateBounded` speaks of sends with a current reading.
* At the cap of the deduplication map live entries are evicted; `DedupOnce` is checked
  and proved below the cap.
* Dead-letter relations with a cycle are not refused, and `tryRouteToDLQ` takes one queue's
  mutex under the other's: `NoDeadlock` fails for them.
* `PurgeQueue`, and `Snapshot` of a queue, work on the slices without `q.mu`.

Long polls:

* `DeleteQueue` closes the notify channel without `q.mu`. A sender that found the queue before
  panics when it closes the same channel, and so does `DeleteQueue` when a broadcast came in
  between; it then leaves the queue in the table.
* The comment in `DeleteQueue` says that waiting polls "wake up immediately"; after such a race
  and after `Reset`, which closes nothing, they wake by the timer of the next second.
* **FIFO queues.** A poll sleeps beside a visible message of a blocked group, and `DeleteMessage`,
  which unblocks the group (`messages.go:539-556`), notifies nobody: the poll finds the message at
  its next recheck, up to a second later. A head that is received and never acknowledged goes
  back in front (`message_visibility.go:74-80`), and the rest of its group is never served.
  `NoMissedWake` and `Served` are about standard queues.
* A message that reaches a dead-letter queue wakes no poll of that queue; a visibility change that
  sends it there wakes those of the source. `NoMissedWake` excepts dead letters, `Served` has them.
* A receive at the in-flight cap fails before it sweeps, so that leases that ran out keep the
  queue closed until the janitor comes.

Move tasks:

* A move keeps the deduplication id. If the FIFO destination still remembers it, as when a
  dead-letter queue is moved back to its source inside the window, the send succeeds without
  storing anything and the only copy is deleted: `NotLost` fails with FIFO queues on both
  sides and moves in both directions.
* After its own lease ran out the task deletes, or gives back, the message under the lease of
  another consumer, because it reads the handle through the shared pointer.

Lambda invocations:

* `handleInitError` sends its answer before it deletes the request from `pending`. A timer that fires
  between the two finds the request, skips the grace period and throws the delivered error away. A
  POST that claims the request between the two waits for the error to be read; if the call has given
  up nobody reads it, and the handler of the POST waits for ever.
* A POST that claims its request during the grace period, because the request was still queued when
  the timer fired, may send too late and is answered as accepted. `AcceptedDelivered` excepts
  both this and init errors.
* A synchronous call whose runtime cannot be started gives its slot back twice, and `Reset`
  forgets the calls under way: more calls than the limit may run. `NoSlotLeak` is the other
  direction.
* `invoke` "blocks until the container responds or timeout is reached" (`runtime_api.go`), but
  waits for room in the queue before it sets the timer. On a runtime that was evicted with a
  full queue it waits until its client goes away. `CallsEnd` begins where the call is queued.
* Without a port or a listener the entry stays in the map and every later call gets the same
  error, until the entry is evicted for another reason.
* `cleanupTimedOutRuntime` removes whichever runtime is current; an entry that is cleaned up
  before it was started is started later, outside the map.
* The timer of an Event invocation throws away an answer that a POST is about to send, and a
  timed out Event is neither retried nor sent to its destination.
* A request that timed out in the queue is still executed later.

Event sources:

* Messages are deleted once the Event is accepted; the comment on `DeleteMessagesLocal` says
  "successfully processed". For the same reason `ReportBatchItemFailures` never applies: an
  Event invocation has no response body.
* `BatchSize` is passed to `ReceiveMessage`, which refuses more than 10: a mapping with the
  default of 100 never receives anything. `EveryMessageTried` is checked below that.
* The iterator of a shard moves before the invocation, so that refused records are lost, and a
  `LATEST` mapping whose read failed starts at the new end. `NothingSkipped` counts refused records as
  handed over and speaks of `TRIM_HORIZON`.
* A Kinesis iterator is an offset from the oldest record held. After a trim, or a push into a shard
  that holds 10,000 records, it names a later record, and the poller passes over records that are
  still there; once the offset is 10,000 it reads nothing any more from a shard that stays full.
  `NothingSkipped` bounds what is missed by the number of records trimmed or pushed out.
* After a read that found nothing the DynamoDB iterator stands at the last record, which the next
  read delivers again, and so on at every other poll.
* A batch from a window may be larger than `BatchSize`.

Persistence and workers:

* **Overlapping saves.** The generation check of `saveIfCurrent` is over before the save
  begins, so an old callback can write beside a newer one and rename last, although the comment
  says the check "prevents a stale callback" from running concurrently. `SaveAll` cannot stop a
  callback that has fired either. Both set `overlapped`, after which `DurableOnceSaved` and
  `SettledFile` promise nothing.
* **The debounce has no limit.** Every `Notify` starts the 500 ms anew and every mutating request
  notifies (`cli.go:12296`, `12308`), so steady traffic puts the save off until `SaveAll`, and a
  crash loses all of it. `EverySaved` promises a save once notifications cease.
* The service's directory is not fsynced in its parent, so a power loss may take the first snapshot
  with it after its save returned. `DurableOnceSaved` begins when the directory is on the disk.
* A snapshot that cannot be restored is overwritten by the next save; `ImportAll` notifies
  nobody.
* **Callbacks after Stop.** `Group.Stop` does not wait for the goroutine of a timer that has
  fired, although its comment says that "nothing outlives the service". A second `Stop`
  returns at once while the first still waits.
* `SingleRun.Stop` clears the fields before the run has ended: a `Start` in that moment
  begins a second run beside the first. `NoRunForgotten` holds nevertheless.

## 6. Plan

Done: SQS with queues, long polls, move tasks, restarts, locks and the abstract lease
specification; Lambda invocations and event sources, with the records and iterators of the shards
they read; persistence and worker supervision.

Next for long polls: groups in `SqsPoll`, to say which wake-ups a FIFO queue does promise. Next theorem: a receive of `SqsPoll` is one of `SqsLease`, so that the wake-ups and the leases are
promises about the same queue.

Modules that would follow, in this order: `StoreTable` (rows and secondary indexes, refined to a
set of rows), DynamoDB transactions with their stream records, resharding of streams, SNS fan-out
and the schedulers, the Azure queues against `SqsLease`.

## 7. Not modelled

* Request parsing and formatting, validation that changes no state, checksums, tags and
  permissions.
* The CRUD services: tables of resources under one lock, which make up most of the repository's
  lines and have no steps to interleave.
* Docker and network wrappers, the port allocator, the dashboard and UI, telemetry, developer
  tools.
* The interpreter of Step Functions and the expression languages of DynamoDB and EventBridge.
* In SQS: torn reads of slices that are edited without `q.mu` (data races), the answers from
  the receive-attempt cache (the cache itself, its expiry and that a repeated attempt leaves the
  queue alone are there), move tasks in snapshots, long polls of FIFO queues.
* In Lambda: `Close`, ports, layers, aliases, fault injection, the recursion check, several
  shards, paging of mappings, and the sweep of mappings whose function is gone.
