------------------------------ MODULE SqsLocks ------------------------------
(***************************************************************************)
(* The locks of the SQS backend: the backend's reader-writer lock b.mu,    *)
(* which guards the queue and move-task tables, and the mutex q.mu of each *)
(* queue.  An operation is the sequence of its lock instructions; what it  *)
(* does between them is in SqsQueue.  b.mu is Go's sync.RWMutex: a writer  *)
(* first announces itself, which keeps new readers out, and enters when    *)
(* the readers that are in have left.                                      *)
(***************************************************************************)
EXTENDS Integers, Sequences, FiniteSets

CONSTANTS Threads,  \* goroutines serving requests and the janitor
          Queues,   \* queues
          Dlq,      \* Dlq[q]: the dead-letter queue of q, or NoQueue
          NoQueue,
          Calls     \* Calls[t]: names of the operations goroutine t runs

ASSUME DlqAssumption ==
  NoQueue \notin Queues /\ Dlq \in [Queues -> Queues \cup {NoQueue}]

\* The mark of a lock that nobody has is not a goroutine.
ASSUME ThreadsAssumption == "free" \notin Threads

VARIABLES call,     \* the operation each thread runs: <<name, queue>> or NoCall
          pc,       \* index of its next lock instruction
          readers,  \* threads that hold b.mu for reading
          writer,   \* thread that announced or holds b.mu for writing, or Free
          owner     \* owner[q]: the thread that holds q.mu, or Free

vars == <<call, pc, readers, writer, owner>>

Free == "free"
NoCall == <<"none", NoQueue>>
-----------------------------------------------------------------------------
(* Lock instructions and the operations made of them.                      *)

RLock == <<"rlock", NoQueue>>
RUnlock == <<"runlock", NoQueue>>
Announce == <<"announce", NoQueue>>
Enter == <<"enter", NoQueue>>
WUnlock == <<"wunlock", NoQueue>>
QLock(q) == <<"lock", q>>
QUnlock(q) == <<"unlock", q>>

Write(body) == <<Announce, Enter>> \o body \o <<WUnlock>>
Read(body) == <<RLock>> \o body \o <<RUnlock>>
Guarded(q, body) == <<QLock(q)>> \o body \o <<QUnlock(q)>>

Lookup == Read(<<>>)      \* resolve the queue, let b.mu go
WaitSeconds == Read(<<>>) \* resolveWaitSeconds reads the queue's default
EmitMetric == Read(<<>>)  \* emitMetric reads b.metricEmitter

\* tryRouteToDLQ, if the operation routes a message.
RouteIfAny(q) == IF Dlq[q] = NoQueue THEN <<>> ELSE Guarded(Dlq[q], <<>>)

\* SendMessage, SendMessageBatch and DeleteMessage emit their metric before
\* the deferred unlock of q.mu runs.
SendMessage(q) == Lookup \o Guarded(q, EmitMetric)
DeleteMessage(q) == Lookup \o Guarded(q, EmitMetric)

\* Mutant of ReceiveMessage: the metric is emitted under q.mu.
ReceiveMessageInside(q) ==
  WaitSeconds \o Lookup \o Guarded(q, RouteIfAny(q) \o EmitMetric)

\* receiveOnce has let q.mu go when ReceiveMessage emits its metric.
ReceiveMessage(q) ==
  WaitSeconds \o Lookup \o Guarded(q, RouteIfAny(q)) \o EmitMetric

ChangeMessageVisibility(q) == Lookup \o Guarded(q, RouteIfAny(q))

\* Mutant of GetQueueAttributes: an early return keeps q.mu.
GetQueueAttributesKeeps(q) == <<RLock, QLock(q), RUnlock>>

\* GetQueueAttributes takes q.mu inside its read lock; so does Snapshot.
GetQueueAttributes(q) == Read(Guarded(q, <<>>))

\* SetQueueAttributes applies a redrive policy under its write lock.
SetQueueAttributes(q) == Write(Guarded(q, RouteIfAny(q)))

\* CreateQueue, DeleteQueue, PurgeQueue, Purge, Reset, StartMessageMoveTask.
TableUpdate(q) == Write(<<>>)

\* pruneState: collect, clean each queue, prune the tasks and the cooldowns.
PruneState(q) ==
  Lookup \o Guarded(q, RouteIfAny(q)) \o Write(<<>>) \o Write(<<>>)

Program(c) ==
  LET q == c[2]
  IN CASE c[1] = "send" -> SendMessage(q)
       [] c[1] = "delete" -> DeleteMessage(q)
       [] c[1] = "receive" -> ReceiveMessage(q)
       [] c[1] = "visibility" -> ChangeMessageVisibility(q)
       [] c[1] = "get" -> GetQueueAttributes(q)
       [] c[1] = "set" -> SetQueueAttributes(q)
       [] c[1] = "table" -> TableUpdate(q)
       [] c[1] = "prune" -> PruneState(q)

Programs ==
  [c \in (UNION {Calls[t] : t \in Threads}) \X Queues |-> Program(c)]
-----------------------------------------------------------------------------
Init ==
  /\ call = [t \in Threads |-> NoCall]
  /\ pc = [t \in Threads |-> 1]
  /\ readers = {} /\ writer = Free
  /\ owner = [q \in Queues |-> Free]

Busy(t) == call[t] # NoCall
Finished(t) == Busy(t) /\ pc[t] > Len(Programs[call[t]])
Instr(t) == Programs[call[t]][pc[t]]
At(t, op) == Busy(t) /\ ~Finished(t) /\ Instr(t)[1] = op

\* The instruction of t can be executed now.
CanStep(t) ==
  /\ Busy(t) /\ ~Finished(t)
  /\ Instr(t)[1] \in {"rlock", "announce"} => writer = Free
  /\ Instr(t)[1] = "enter" => readers = {}
  /\ Instr(t)[1] = "lock" => owner[Instr(t)[2]] = Free

Begin(t, name, q) ==
  /\ ~Busy(t)
  /\ call' = [call EXCEPT ![t] = <<name, q>>]
  /\ pc' = [pc EXCEPT ![t] = 1]
  /\ UNCHANGED <<readers, writer, owner>>

Step(t) ==
  /\ CanStep(t)
  /\ pc' = [pc EXCEPT ![t] = @ + 1]
  /\ readers' = CASE At(t, "rlock") -> readers \cup {t}
                  [] At(t, "runlock") -> readers \ {t}
                  [] OTHER -> readers
  /\ writer' = CASE At(t, "announce") -> t
                 [] At(t, "wunlock") -> Free
                 [] OTHER -> writer
  /\ owner' = CASE At(t, "lock") -> [owner EXCEPT ![Instr(t)[2]] = t]
                [] At(t, "unlock") -> [owner EXCEPT ![Instr(t)[2]] = Free]
                [] OTHER -> owner
  /\ UNCHANGED call

Return(t) ==
  /\ Finished(t)
  /\ call' = [call EXCEPT ![t] = NoCall]
  /\ pc' = [pc EXCEPT ![t] = 1]
  /\ UNCHANGED <<readers, writer, owner>>

Next ==
  \E t \in Threads :
    \/ \E name \in Calls[t], q \in Queues : Begin(t, name, q)
    \/ Step(t)
    \/ Return(t)

\* Go's mutexes hand a lock to a goroutine that waits too long, so a lock
\* that is free again and again is eventually taken by each waiter.
Fairness == \A t \in Threads : SF_vars(Step(t)) /\ WF_vars(Return(t))

Spec == Init /\ [][Next]_vars /\ Fairness
-----------------------------------------------------------------------------
\* The threads are never all stuck: while operations run, one of them can go
\* on.
NoDeadlock ==
  (\E t \in Threads : Busy(t)) =>
    \E t \in Threads : CanStep(t) \/ Finished(t)

\* Every operation that starts returns.
EveryCallReturns == \A t \in Threads : Busy(t) ~> ~Busy(t)
=============================================================================
