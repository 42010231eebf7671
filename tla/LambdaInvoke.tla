---------------------------- MODULE LambdaInvoke ----------------------------
(***************************************************************************)
(* Invocations of one Lambda function (services/lambda): the concurrency   *)
(* counter, the runtime of the function, the Runtime API its container     *)
(* talks to, timeouts, retries of Event invocations, and eviction.         *)
(*                                                                         *)
(* Each call is a goroutine.  b.mu, rt.mu and the pending sync.Map make    *)
(* the steps below atomic; in between everything interleaves.  The timer   *)
(* of an invocation may fire at any moment after it was set; only the      *)
(* grace period is measured (Tick).  The container is external and may do  *)
(* anything the Runtime API lets it do, or nothing.                        *)
(***************************************************************************)
EXTENDS Naturals, Sequences, FiniteSets

CONSTANTS
  Sync,        \* RequestResponse invocations
  Event,       \* Event invocations
  Cancellable, \* the Sync invocations whose client may go away
  Limits,      \* reserved concurrencies, or MaxExecutionEnvironments, that may be put
  QueueSize,   \* runtimeQueueSize
  MaxRetries,  \* MaximumRetryAttempts
  Failing,     \* bound: the calls an init error of a container may go to
  Grace        \* containerResponseGracePeriod, in units of Tick

Calls == Sync \cup Event
Ids == Calls \X (0 .. MaxRetries)      \* requestID: one for each attempt
Answers == {"ok", "error"}             \* what a POST for a request says
InitError == "init"                    \* the answer an init/error gives, an error

\* What a container may answer: only an attempt that can be repeated tells an
\* error from a result.
AnswersTo(id) ==
  IF id[1] \in Event /\ id[2] < MaxRetries THEN Answers ELSE {"ok"}
Runtimes == 1 .. Cardinality(Calls)    \* functionRuntime objects: a call makes at most one
NoRuntime == 0

ASSUME InvokeAssumption ==
  /\ IsFiniteSet(Sync) /\ IsFiniteSet(Event) /\ Sync \cap Event = {}
  /\ Cancellable \subseteq Sync
  /\ Limits \subseteq Nat
  /\ QueueSize \in Nat \ {0} /\ MaxRetries \in Nat /\ Grace \in Nat \ {0}

VARIABLES
  active,   \* b.activeConcurrencies of the function
  cur,      \* b.runtimes of the function
  made,     \* runtimes registered so far
  rt,       \* runtime -> [started, err, up, queue, pending, told: the pending requests
            \*             an init/error has answered and is about to delete]
  dying,    \* runtimes out of the map whose cleanupRuntime is still to come
  call,     \* call -> [pc, rt, att, tracked, out: why it stopped waiting]
  result,   \* request -> the contents of its result channel, capacity 1
  posting,  \* <<request, answer>> claimed by a POST that has not sent it yet
  grace,    \* Sync call -> what is left of its grace period
  intime    \* history: requests a POST claimed while their call was waiting

delivery == <<result, posting, grace, intime>>
vars == <<active, cur, made, rt, dying, call, result, posting, grace, intime>>

Fresh == [started |-> FALSE, err |-> FALSE, up |-> FALSE, queue |-> <<>>,
          pending |-> {}, told |-> {}]

NoCall == [pc |-> "idle", rt |-> NoRuntime, att |-> 0, tracked |-> FALSE,
           out |-> "none"]

Init ==
  /\ active = 0 /\ cur = NoRuntime /\ made = 0 /\ dying = {}
  /\ rt = [r \in Runtimes |-> Fresh]
  /\ call = [i \in Calls |-> NoCall]
  /\ result = [id \in Ids |-> <<>>] /\ posting = {}
  /\ grace = [i \in Sync |-> 0] /\ intime = {}

Id(i) == <<i, call[i].att>>
To(i, pc) == call' = [call EXCEPT ![i].pc = pc]
Stop(i, pc, out) == call' = [call EXCEPT ![i].pc = pc, ![i].out = out]

Done(i) == call' = [call EXCEPT ![i] = [NoCall EXCEPT !.pc = "done"]]

\* The request of a synchronous call that waits for its answer.
Waiting(id) == id[1] \in Sync /\ id = Id(id[1]) /\ call[id[1]].pc = "wait"

Room(r) == Len(rt[r].queue) < QueueSize
Push(i) == rt' = [rt EXCEPT ![call[i].rt].queue = Append(@, Id(i))]

\* Tracked invocations that have not given their slot back.
Holding == {i \in Calls : call[i].tracked}
-----------------------------------------------------------------------------
(* Slots.                                                                  *)

\* releaseConcurrencySlot: the counter stops at zero.
Released(n) == IF n > 0 THEN n - 1 ELSE 0

\* acquireConcurrencySlot: counted only when a limit is set, refused at it.  The
\* limit (PutFunctionConcurrency, DeleteFunctionConcurrency, the scaling
\* configuration) may change between any two calls and is read nowhere else.
Acquire(i) ==
  /\ call[i].pc = "idle"
  /\ \/ /\ To(i, "lookup") /\ UNCHANGED active
     \/ \E limit \in Limits :
          \/ /\ active >= limit
             /\ Done(i) /\ UNCHANGED active
          \/ /\ active < limit
             /\ call' = [call EXCEPT ![i].pc = "lookup", ![i].tracked = TRUE]
             /\ active' = active + 1
  /\ UNCHANGED <<cur, made, rt, dying, delivery>>
-----------------------------------------------------------------------------
(* Runtimes.                                                               *)

\* lookupOrRegisterRuntime: the runtime in the map, or a new one, which takes a
\* port range and a container engine.
Lookup(i) ==
  /\ call[i].pc = "lookup"
  /\ \/ LET r == IF cur = NoRuntime THEN made + 1 ELSE cur IN
          /\ cur' = r
          /\ made' = IF cur = NoRuntime THEN r ELSE made
          /\ call' = [call EXCEPT ![i].pc = "start", ![i].rt = r]
     \/ cur = NoRuntime /\ To(i, "fail") /\ UNCHANGED <<cur, made>>
  /\ UNCHANGED <<active, rt, dying, delivery>>

\* getOrCreateRuntime under rt.mu: the first caller gets a port, starts the
\* server and the container; the others see what became of it.  Without a port
\* or a listener the entry stays in the map, without a container it is removed
\* (Unmap).  An entry that was evicted and cleaned up meanwhile is started too.
Start(i) ==
  /\ call[i].pc = "start"
  /\ LET r == call[i].rt IN
       \/ /\ rt[r].started /\ ~rt[r].err
          /\ To(i, "send") /\ UNCHANGED rt
       \/ /\ rt[r].started /\ rt[r].err
          /\ To(i, "fail") /\ UNCHANGED rt
       \/ /\ ~rt[r].started
          /\ rt' = [rt EXCEPT ![r].started = TRUE, ![r].up = TRUE]
          /\ To(i, "send")
       \/ /\ ~rt[r].started
          /\ rt' = [rt EXCEPT ![r].started = TRUE, ![r].err = TRUE]
          /\ \E pc \in {"fail", "unmap"} : To(i, pc)
  /\ UNCHANGED <<active, cur, made, dying, delivery>>

\* handleContainerStartFailure, its second half under b.mu.
Unmap(i) ==
  /\ call[i].pc = "unmap"
  /\ cur' = IF cur = call[i].rt THEN NoRuntime ELSE cur
  /\ To(i, "fail")
  /\ UNCHANGED <<active, made, rt, dying, delivery>>

\* No runtime: the slot is given back here, and once more by the deferred call
\* when the invocation is synchronous.
StartFailed(i) ==
  /\ call[i].pc = "fail"
  /\ active' = IF call[i].tracked THEN Released(active) ELSE active
  /\ IF i \in Sync THEN To(i, "return") ELSE Done(i)
  /\ UNCHANGED <<cur, made, rt, dying, delivery>>

\* The entry, if there is one, leaves the map and cleanupRuntime is to follow.
Retire == cur' = NoRuntime /\ dying' = dying \cup ({cur} \ {NoRuntime})

\* sweepIdleRuntimes, evictLRURuntimeLocked for another function, DeleteFunction:
\* none of them looks at the invocations under way.
Evict ==
  /\ cur # NoRuntime /\ Retire
  /\ UNCHANGED <<active, made, rt, call, delivery>>

\* Reset also forgets the count.
Reset ==
  /\ Retire /\ active' = 0
  /\ UNCHANGED <<made, rt, call, delivery>>

\* cleanupRuntime: the server stops and the container goes.  What is queued or
\* pending stays where it is.
CleanupRuntime(r) ==
  /\ r \in dying /\ dying' = dying \ {r}
  /\ rt' = [rt EXCEPT ![r].up = FALSE]
  /\ UNCHANGED <<active, cur, made, call, delivery>>

\* Mutant of cleanupTimedOutRuntime: a runtime somebody else uses is spared.
EvictTimedOutUnused(i) ==
  /\ call[i].pc = "evict"
  /\ IF \E j \in Calls \ {i} : call[j].rt = cur /\ call[j].pc = "wait"
     THEN UNCHANGED <<cur, dying>>
     ELSE Retire
  /\ To(i, IF i \in Sync THEN "return" ELSE "finish")
  /\ UNCHANGED <<active, made, rt, delivery>>

\* cleanupTimedOutRuntime: the entry of the function goes, whichever runtime the
\* call was on.  When cleanupSem is full cleanupRuntime never comes.
EvictTimedOut(i) ==
  /\ call[i].pc = "evict" /\ Retire
  /\ To(i, IF i \in Sync THEN "return" ELSE "finish")
  /\ UNCHANGED <<active, made, rt, delivery>>
-----------------------------------------------------------------------------
(* Synchronous invocations.                                                *)

\* runtimeServer.invoke: the queue is waited for without a timer.
Send(i) ==
  /\ i \in Sync /\ call[i].pc = "send" /\ Room(call[i].rt)
  /\ Push(i) /\ To(i, "wait")
  /\ UNCHANGED <<active, cur, made, dying, delivery>>

\* The client has gone, or goes away while the queue is full.
GiveUp(i) ==
  /\ i \in Cancellable /\ call[i].pc = "send"
  /\ To(i, "return")
  /\ UNCHANGED <<active, cur, made, rt, dying, delivery>>

\* pending.LoadAndDelete and pending.Delete.
Delete(r, id) == rt' = [rt EXCEPT ![r].pending = @ \ {id}, ![r].told = @ \ {id}]
Withdraw(i) == Delete(call[i].rt, Id(i))

AfterTimer(out) == IF out = "timeout" THEN "evict" ELSE "return"

\* Mutant of invoke: a claimed invocation is not waited for.
StopWaitingAtOnce(i) ==
  /\ i \in Sync /\ call[i].pc = "wait"
  /\ \E out \in {"timeout"} \cup {"cancelled" : c \in Cancellable \cap {i}} :
       Stop(i, AfterTimer(out), out)
  /\ Withdraw(i)
  /\ UNCHANGED <<active, cur, made, dying, delivery>>

\* The timer fires or the client goes away, maybe with the answer already
\* there.  A request that LoadAndDelete does not find was claimed by a POST or
\* answered by an init/error, or it is still queued, and the grace period begins.
StopWaiting(i) ==
  /\ i \in Sync /\ call[i].pc = "wait"
  /\ \E out \in {"timeout"} \cup {"cancelled" : c \in Cancellable \cap {i}} :
       \/ /\ Id(i) \in rt[call[i].rt].pending
          /\ Stop(i, AfterTimer(out), out) /\ UNCHANGED grace
       \/ /\ Id(i) \notin rt[call[i].rt].pending
          /\ Stop(i, "grace", out) /\ grace' = [grace EXCEPT ![i] = Grace]
  /\ Withdraw(i)
  /\ UNCHANGED <<active, cur, made, dying, result, posting, intime>>

\* containerResponseGracePeriod is over.
GraceOver(i) ==
  /\ i \in Sync /\ call[i].pc = "grace" /\ grace[i] = 0
  /\ To(i, AfterTimer(call[i].out))
  /\ UNCHANGED <<active, cur, made, rt, dying, delivery>>

\* The answer arrives.
Answered(i) ==
  /\ i \in Sync /\ call[i].pc \in {"wait", "grace"} /\ result[Id(i)] # <<>>
  /\ result' = [result EXCEPT ![Id(i)] = Tail(@)]
  /\ Stop(i, "return", "none")
  /\ grace' = [grace EXCEPT ![i] = 0]
  /\ UNCHANGED <<active, cur, made, rt, dying, posting, intime>>

\* The deferred release.
Return(i) ==
  /\ call[i].pc = "return"
  /\ active' = IF call[i].tracked THEN Released(active) ELSE active
  /\ Done(i)
  /\ UNCHANGED <<cur, made, rt, dying, delivery>>
-----------------------------------------------------------------------------
(* Event invocations.                                                      *)

\* Mutant of enqueueAsyncInvocation: the dropped invocation keeps its slot.
EnqueueAsyncKeepsSlot(i) ==
  /\ i \in Event /\ call[i].pc = "send"
  /\ IF ~call[i].tracked /\ Room(call[i].rt)
     THEN Push(i) /\ To(i, "wait")
     ELSE UNCHANGED rt /\ (To(i, "enqueue") \/ Done(i))
  /\ UNCHANGED <<active, cur, made, dying, delivery>>

\* enqueueAsyncInvocation: at once when no slot is held and there is room, else
\* from a goroutine.  These are bounded over all functions: any invocation may
\* find asyncEnqueueWaiters full and is dropped then.
EnqueueAsync(i) ==
  /\ i \in Event /\ call[i].pc = "send"
  /\ \/ /\ ~call[i].tracked /\ Room(call[i].rt)
        /\ Push(i) /\ To(i, "wait") /\ UNCHANGED active
     \/ /\ call[i].tracked \/ ~Room(call[i].rt)
        /\ To(i, "enqueue") /\ UNCHANGED <<rt, active>>
     \/ /\ call[i].tracked \/ ~Room(call[i].rt)
        /\ active' = IF call[i].tracked THEN Released(active) ELSE active
        /\ Done(i) /\ UNCHANGED rt
  /\ UNCHANGED <<cur, made, dying, delivery>>

\* The goroutine, and scheduleAsyncRetry, find room on the server the call began
\* with.
Enqueued(i) ==
  /\ call[i].pc \in {"enqueue", "retry"} /\ Room(call[i].rt)
  /\ Push(i) /\ To(i, "wait")
  /\ UNCHANGED <<active, cur, made, dying, delivery>>

\* Mutant of scheduleAsyncRetry: the queue is waited for without a timeout.
NotEnqueuedFirst(i) ==
  /\ call[i].pc = "enqueue"
  /\ To(i, "finish")
  /\ UNCHANGED <<active, cur, made, rt, dying, delivery>>

\* They do not within asyncInvocationEnqueueTimeout, or the event is too old for
\* a retry.
NotEnqueued(i) ==
  /\ call[i].pc \in {"enqueue", "retry"}
  /\ To(i, "finish")
  /\ UNCHANGED <<active, cur, made, rt, dying, delivery>>

\* runAsyncInvocationRetryLoop has a result: the outcome is dispatched, or the
\* function failed and another attempt is made.
Attempted(i) ==
  /\ i \in Event /\ call[i].pc = "wait" /\ result[Id(i)] # <<>>
  /\ result' = [result EXCEPT ![Id(i)] = Tail(@)]
  /\ IF Head(result[Id(i)]) = "ok" \/ call[i].att = MaxRetries
     THEN To(i, "finish")
     ELSE call' = [call EXCEPT ![i].pc = "retry", ![i].att = @ + 1]
  /\ UNCHANGED <<active, cur, made, rt, dying, posting, grace, intime>>

\* waitForAsyncResult gives up, for good: no retry and no outcome, even if the
\* answer has just come.
AsyncTimeout(i) ==
  /\ i \in Event /\ call[i].pc = "wait"
  /\ Withdraw(i)
  /\ Stop(i, "evict", "timeout")
  /\ UNCHANGED <<active, cur, made, dying, delivery>>

\* waitAndCleanPending returns the slot.
Finish(i) ==
  /\ call[i].pc = "finish"
  /\ active' = IF call[i].tracked THEN Released(active) ELSE active
  /\ Done(i)
  /\ UNCHANGED <<cur, made, rt, dying, delivery>>

-----------------------------------------------------------------------------
(* The Runtime API.  The container is free to call it in any order; one    *)
(* that hangs or died takes no step.                                       *)

\* handleNext.
HandleNext(r) ==
  /\ rt[r].up /\ rt[r].queue # <<>>
  /\ rt' = [rt EXCEPT ![r].queue = Tail(@), ![r].pending = @ \cup {Head(rt[r].queue)}]
  /\ UNCHANGED <<active, cur, made, dying, call, delivery>>

\* handleInitError: the call of a pending request gets the error if its channel
\* has room.  (Range reads the entry before; a request taken in between gets the
\* error as if it was taken after the send, or has no more use for it.)
HandleInitError(r) ==
  /\ rt[r].up
  /\ \E id \in {x \in rt[r].pending : x[1] \in Failing} :
       /\ result' = [result EXCEPT ![id] = IF @ = <<>> THEN <<InitError>> ELSE @]
       /\ rt' = [rt EXCEPT ![r].told = @ \cup {id}]
  /\ UNCHANGED <<active, cur, made, dying, call, posting, grace, intime>>

\* Its pending.Delete.  Until then a POST or a timer may take the request, and
\* nothing is left to delete.
InitDelete(r) ==
  /\ \E id \in rt[r].told : Delete(r, id)
  /\ UNCHANGED <<active, cur, made, dying, call, delivery>>

\* Mutant of handleInvocationResult: the invocation is looked up and not removed.
HandleResultKeepsPending(r) ==
  /\ rt[r].up
  /\ \E id \in rt[r].pending : \E a \in AnswersTo(id) :
       /\ posting' = posting \cup {<<id, a>>}
       /\ intime' = IF Waiting(id) THEN intime \cup {id} ELSE intime
  /\ UNCHANGED <<active, cur, made, rt, dying, call, result, grace>>

\* handleInvocationResult up to its send: the first POST claims the invocation,
\* a repeated or late one is not found and changes nothing.
HandleResult(r) ==
  /\ rt[r].up
  /\ \E id \in rt[r].pending : \E a \in AnswersTo(id) :
       /\ posting' = posting \cup {<<id, a>>}
       /\ intime' = IF Waiting(id) THEN intime \cup {id} ELSE intime
       /\ Delete(r, id)
  /\ UNCHANGED <<active, cur, made, dying, call, result, grace>>

\* Its send on the result channel, once that has room.
Put(p) ==
  /\ p \in posting /\ result[p[1]] = <<>>
  /\ result' = [result EXCEPT ![p[1]] = <<p[2]>>]
  /\ posting' = posting \ {p}
  /\ UNCHANGED <<active, cur, made, rt, dying, call, grace, intime>>

Less(t) == IF t = 0 THEN 0 ELSE t - 1

\* Time passes for the grace periods.  The unit is what a goroutine takes at most
\* to run when it can: a POST with room for its answer sends it, a call with an
\* answer reads it, before the unit is over.
Tick ==
  /\ \E i \in Sync : grace[i] > 0
  /\ \A p \in posting : result[p[1]] # <<>>
  /\ \A i \in Sync : call[i].pc = "grace" => result[Id(i)] = <<>>
  /\ grace' = [i \in Sync |-> Less(grace[i])]
  /\ UNCHANGED <<active, cur, made, rt, dying, call, result, posting, intime>>
-----------------------------------------------------------------------------
SyncStep(i) == \/ Send(i) \/ StopWaiting(i) \/ GraceOver(i) \/ Answered(i) \/ Return(i)
EventStep(i) == \/ EnqueueAsync(i) \/ Enqueued(i) \/ NotEnqueued(i) \/ Attempted(i)
                \/ AsyncTimeout(i) \/ Finish(i)
CallStep(i) == \/ Lookup(i) \/ Start(i) \/ Unmap(i) \/ StartFailed(i)
               \/ EvictTimedOut(i) \/ SyncStep(i) \/ EventStep(i)
RuntimeAPI(r) == HandleNext(r) \/ HandleInitError(r) \/ InitDelete(r) \/ HandleResult(r)

Next ==
  \/ \E i \in Calls : Acquire(i) \/ GiveUp(i) \/ CallStep(i)
  \/ \E r \in Runtimes : RuntimeAPI(r) \/ CleanupRuntime(r)
  \/ \E p \in posting : Put(p)
  \/ Evict \/ Reset \/ Tick

\* Goroutines go on, timers fire, sends with room complete and time passes.
\* Nothing is assumed of the container, of the client, or of the calls it makes.
Fairness ==
  /\ \A i \in Calls : WF_vars(CallStep(i))
  /\ WF_vars(\E p \in posting : Put(p)) /\ WF_vars(Tick)

Spec == Init /\ [][Next]_vars /\ Fairness
-----------------------------------------------------------------------------
TypeOK ==
  /\ active \in Nat
  /\ made \in {0} \cup Runtimes /\ cur \in 0 .. made /\ dying \subseteq 1 .. made
  /\ posting \subseteq Ids \X Answers

\* The counter never exceeds the tracked invocations that still hold a slot: no
\* path of an invocation loses one, which would throttle the function for ever.
\* (It may be smaller: a synchronous invocation that finds no runtime gives its
\* slot back twice, and Reset forgets those under way.)
NoSlotLeak == active <= Cardinality(Holding)

\* A request is pending, claimed by one POST, or answered by one, never two of
\* these, whatever init errors, timers and repeated POSTs come between: a request
\* is answered by one POST at most, and the send of that POST can wait only for
\* the answer of an init error to be read.  (An init error answers a request that
\* stays pending until the next step of the handler, and that a POST may answer
\* too.)
OneAnswer ==
  \A id \in Ids :
    Cardinality({r \in Runtimes : id \in rt[r].pending})
      + Cardinality({p \in posting : p[1] = id})
      + Cardinality({a \in Answers : result[id] = <<a>>}) <= 1

\* The answer to a waiting call is not thrown away: a synchronous call that
\* fails with a timeout, or because its client went, is one whose request no POST
\* had claimed when the timer fired or the client went, however late that POST
\* sends and whatever init errors come between.  (The answer of an init error is
\* thrown away when the timer takes the request between the send and the delete
\* of handleInitError, and so may be that of a POST that claims the request
\* during the grace period.)
AcceptedDelivered ==
  \A i \in Sync :
    call[i].out \in {"timeout", "cancelled"} /\ call[i].pc \in {"evict", "return"}
      => Id(i) \notin intime

\* Once a call has timed out on a runtime and evicted it, later calls of the
\* function do not get that runtime.
HungRuntimeRetired ==
  \A i \in Calls :
    call[i].out = "timeout" /\ call[i].pc \in {"return", "finish"}
      => cur # call[i].rt

\* Every invocation that has begun comes to its end, whatever the container does,
\* but for a synchronous one that waits for ever at the full queue of its
\* runtime.
CallsEnd ==
  <>[](\A i \in Calls :
         \/ call[i].pc \in {"idle", "done"}
         \/ i \in Sync /\ call[i].pc = "send" /\ ~Room(call[i].rt))

=============================================================================
