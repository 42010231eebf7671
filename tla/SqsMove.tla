------------------------------ MODULE SqsMove ------------------------------
(***************************************************************************)
(* Message move tasks (services/sqs/message_move_tasks.go): goroutines     *)
(* that receive from a source queue, send to a destination and delete the  *)
(* original, with consumers on the same queues, leases that run out,       *)
(* cancellation, deletion of either queue and Reset.                       *)
(*                                                                         *)
(* Each ReceiveMessage, SendMessage, ChangeMessageVisibility and           *)
(* DeleteMessage of a task is one step.  A task holds a pointer to the     *)
(* message, not a copy of its receipt handle: its last calls use the       *)
(* handle of whoever leased the message last.                              *)
(***************************************************************************)
EXTENDS Naturals, FiniteSets

CONSTANTS
  Queues, Fifo,  \* queue names, and the FIFO queues among them
  Bodies,        \* what producers send; a body has its own deduplication id
  Tasks,         \* move tasks
  Moves,         \* <<source, destination>> pairs that clients ask for
  MaxCopies,     \* bound: room for messages; one that nobody refers to is reused
  None

ASSUME MoveAssumption ==
  /\ Fifo \subseteq Queues /\ Moves \subseteq Queues \X Queues /\ None # "consumer"
  /\ IsFiniteSet(Tasks) /\ IsFiniteSet(Bodies) /\ MaxCopies \in Nat
  /\ MaxCopies >= 2 * Cardinality(Bodies) + Cardinality(Tasks)

VARIABLES
  exists,   \* queues in the table
  copy,     \* 1 .. MaxCopies -> [body, q, st, by: leased by a consumer]
  dedup,    \* queue -> bodies whose deduplication id is remembered
  sent,     \* bodies some producer sent
  dropped,  \* bodies deleted by a consumer or with their queue
  lapsed,   \* bodies whose lease ended while a task worked on them
  task,     \* task -> [status, src, dst, pc, ctx, m]
  listed    \* tasks in b.moveTasks

vars == <<exists, copy, dedup, sent, dropped, lapsed, task, listed>>

NoCopy == [body |-> None, q |-> None, st |-> "gone", by |-> None]
NoTask == [status |-> None, src |-> None, dst |-> None, pc |-> "idle",
           ctx |-> "open", m |-> 0]

Init ==
  /\ exists = Queues /\ copy = [c \in 1 .. MaxCopies |-> NoCopy] /\ dedup = [q \in Queues |-> {}]
  /\ sent = {} /\ dropped = {} /\ lapsed = {}
  /\ task = [t \in Tasks |-> NoTask] /\ listed = {}

Active(t) == task[t].status \in {"RUNNING", "CANCELLING"}
Going(t) == task[t].pc \notin {"idle", "done"}
Holds(t, c) == task[t].pc \in {"send", "delete", "giveback"} /\ task[t].m = c

\* A deleted message; tasks that point to it still see its body.
Gone(c) == IF \E t \in Tasks : Holds(t, c) THEN [NoCopy EXCEPT !.body = copy[c].body]
           ELSE NoCopy
-----------------------------------------------------------------------------
(* The queues and their other clients.                                     *)

\* Room for a new message.
Free(c) == copy[c].st = "gone" /\ \A t \in Tasks : ~Holds(t, c)
Room == CHOOSE c \in DOMAIN copy : Free(c)

\* SendMessage of body b.  A FIFO queue that remembers the deduplication id
\* answers as if it had stored the message.
Sent(q, b) ==
  IF q \in Fifo /\ b \in dedup[q] THEN UNCHANGED <<copy, dedup>>
  ELSE /\ \E c \in DOMAIN copy : Free(c)
       /\ copy' = [copy EXCEPT ![Room] = [body |-> b, q |-> q, st |-> "pending", by |-> None]]
       /\ dedup' = IF q \in Fifo THEN [dedup EXCEPT ![q] = @ \cup {b}] ELSE dedup

\* A producer sends a new body.
Produce(q, b) ==
  /\ q \in exists /\ b \notin sent
  /\ Sent(q, b)
  /\ sent' = sent \cup {b}
  /\ UNCHANGED <<exists, dropped, lapsed, task, listed>>

\* A deduplication window ends.
Forget(q, b) ==
  /\ b \in dedup[q]
  /\ dedup' = [dedup EXCEPT ![q] = @ \ {b}]
  /\ UNCHANGED <<exists, copy, sent, dropped, lapsed, task, listed>>

\* A consumer receives a message.
Consume(c) ==
  /\ copy[c].st = "pending"
  /\ copy' = [copy EXCEPT ![c].st = "leased", ![c].by = "consumer"]
  /\ UNCHANGED <<exists, dedup, sent, dropped, lapsed, task, listed>>

\* A consumer deletes a message it holds.
Ack(c) ==
  /\ copy[c].st = "leased" /\ copy[c].by = "consumer"
  /\ copy' = [copy EXCEPT ![c] = Gone(c)]
  /\ dropped' = dropped \cup {copy[c].body}
  /\ UNCHANGED <<exists, dedup, sent, lapsed, task, listed>>

\* A visibility timeout ends and somebody's sweep requeues the message; under
\* a task at most once for a body.
LeaseEnds(c) ==
  /\ copy[c].st = "leased"
  /\ copy[c].body \in lapsed => \A t \in Tasks : ~Holds(t, c)
  /\ copy' = [copy EXCEPT ![c].st = "pending", ![c].by = None]
  /\ lapsed' = IF \E t \in Tasks : Holds(t, c) THEN lapsed \cup {copy[c].body}
               ELSE lapsed
  /\ UNCHANGED <<exists, dedup, sent, dropped, task, listed>>
-----------------------------------------------------------------------------
(* Starting and running a task.                                            *)

\* Mutant of hasActiveMoveTaskForSourceLocked: CANCELLING does not count.
BusyRunning(src) ==
  \E t \in listed : task[t].src = src /\ task[t].status = "RUNNING"

\* hasActiveMoveTaskForSourceLocked.
Busy(src) == \E t \in listed : task[t].src = src /\ Active(t)

\* StartMessageMoveTask registers the task under b.mu.
Start(t, src, dst) ==
  /\ task[t] = NoTask /\ {src, dst} \subseteq exists /\ ~Busy(src)
  /\ task' = [task EXCEPT ![t] = [NoTask EXCEPT !.status = "RUNNING", !.src = src,
                                                !.dst = dst, !.pc = "loop"]]
  /\ listed' = listed \cup {t}
  /\ UNCHANGED <<exists, copy, dedup, sent, dropped, lapsed>>

\* The deferred function of runMoveTask; FAILED was set before it.  The
\* queues and the context of an ended task matter to nobody.
Ended(r) ==
  [NoTask EXCEPT !.pc = "done",
                 !.status = IF r.status = "RUNNING" THEN "COMPLETED" ELSE "CANCELLED"]

Failed == [NoTask EXCEPT !.pc = "done", !.status = "FAILED"]

\* Mutant of the loop: the context is not looked at.
LoopOn(t) ==
  /\ task[t].pc = "loop"
  /\ task' = [task EXCEPT ![t].pc = "receive"]
  /\ UNCHANGED <<exists, copy, dedup, sent, dropped, lapsed, listed>>

\* The top of the loop: the context, and the rate ticker if there is one.
Loop(t) ==
  /\ task[t].pc = "loop"
  /\ task' = [task EXCEPT ![t] = IF @.ctx = "done" THEN Ended(@)
                                 ELSE [@ EXCEPT !.pc = "receive"]]
  /\ UNCHANGED <<exists, copy, dedup, sent, dropped, lapsed, listed>>

\* ReceiveMessage of one message: an error (no such queue, or too many messages
\* in flight) fails the task, nothing visible completes it.
Receive(t) ==
  /\ task[t].pc = "receive"
  /\ LET src == task[t].src
         ready == {c \in DOMAIN copy : copy[c].q = src /\ copy[c].st = "pending"}
     IN \/ task' = [task EXCEPT ![t] = Failed] /\ UNCHANGED copy
        \/ /\ src \in exists /\ ready = {}
           /\ task' = [task EXCEPT ![t] = Ended(@)] /\ UNCHANGED copy
        \/ /\ src \in exists
           /\ \E c \in ready :
                /\ task' = [task EXCEPT ![t].pc = "send", ![t].m = c]
                /\ copy' = [copy EXCEPT ![c].st = "leased", ![c].by = None]
  /\ UNCHANGED <<exists, dedup, sent, dropped, lapsed, listed>>

\* SendMessage to the destination succeeds, or so it says.
Send(t) ==
  /\ task[t].pc = "send" /\ task[t].dst \in exists
  /\ Sent(task[t].dst, copy[task[t].m].body)
  /\ task' = [task EXCEPT ![t].pc = "delete"]
  /\ UNCHANGED <<exists, sent, dropped, lapsed, listed>>

\* Mutant of the error path of the send: the original is deleted as usual.
SendFailsSilently(t) ==
  /\ task[t].pc = "send"
  /\ task' = [task EXCEPT ![t].pc = "delete"]
  /\ UNCHANGED <<exists, copy, dedup, sent, dropped, lapsed, listed>>

\* SendMessage fails: no such queue, a FIFO queue over its rate, or a message
\* that the destination's own limits refuse.
SendFails(t) ==
  /\ task[t].pc = "send"
  /\ task' = [task EXCEPT ![t].pc = "giveback"]
  /\ UNCHANGED <<exists, copy, dedup, sent, dropped, lapsed, listed>>

\* ChangeMessageVisibility to 0 with the message's current handle, whose
\* error is ignored; the task fails.
GiveBack(t) ==
  /\ task[t].pc = "giveback"
  /\ LET c == task[t].m
     IN copy' = IF copy[c].st = "leased"
                THEN [copy EXCEPT ![c].st = "pending", ![c].by = None] ELSE copy
  /\ task' = [task EXCEPT ![t] = Failed]
  /\ UNCHANGED <<exists, dedup, sent, dropped, lapsed, listed>>

\* Mutant of the delete: the original stays.
DeleteOriginalNever(t) ==
  /\ task[t].pc = "delete"
  /\ task' = [task EXCEPT ![t].pc = "loop", ![t].m = 0]
  /\ UNCHANGED <<exists, copy, dedup, sent, dropped, lapsed, listed>>

\* DeleteMessage with the message's current handle, whose error is ignored.
DeleteOriginal(t) ==
  /\ task[t].pc = "delete"
  /\ LET c == task[t].m
     IN copy' = IF copy[c].st = "leased" THEN [copy EXCEPT ![c] = Gone(c)] ELSE copy
  /\ task' = [task EXCEPT ![t].pc = "loop", ![t].m = 0]
  /\ UNCHANGED <<exists, dedup, sent, dropped, lapsed, listed>>
-----------------------------------------------------------------------------
(* Cancelling, and queues that go.                                         *)

\* CancelMessageMoveTask marks the task under its mutex ...
Cancel(t) ==
  /\ t \in listed /\ Active(t)
  /\ task' = [task EXCEPT ![t].status = "CANCELLING",
                          ![t].ctx = IF @ = "done" THEN @ ELSE "asked"]
  /\ UNCHANGED <<exists, copy, dedup, sent, dropped, lapsed, listed>>

\* ... and cancels its context after the mutex is released.
CancelContext(t) ==
  /\ task[t].ctx = "asked"
  /\ task' = [task EXCEPT ![t].ctx = "done"]
  /\ UNCHANGED <<exists, copy, dedup, sent, dropped, lapsed, listed>>

\* The messages of the queues qs go with them.
Vanish(qs) ==
  LET lost == {c \in DOMAIN copy : copy[c].q \in qs /\ copy[c].st # "gone"}
  IN /\ exists' = exists \ qs
     /\ copy' = [c \in DOMAIN copy |-> IF c \in lost THEN Gone(c) ELSE copy[c]]
     /\ dedup' = [q \in Queues |-> IF q \in qs THEN {} ELSE dedup[q]]
     /\ dropped' = dropped \cup {copy[c].body : c \in lost}

\* DeleteQueue: the active tasks that involve the queue lose their context,
\* with no word about it in their status.
DeleteQueue(q) ==
  /\ q \in exists
  /\ Vanish({q})
  /\ task' = [t \in Tasks |-> IF t \in listed /\ Active(t) /\ q \in {task[t].src, task[t].dst}
                              THEN [task[t] EXCEPT !.ctx = "done"] ELSE task[t]]
  /\ UNCHANGED <<sent, lapsed, listed>>

\* Reset: every queue and every task leaves its table.
Reset ==
  /\ Vanish(Queues)
  /\ task' = [t \in Tasks |-> IF t \in listed /\ Going(t) THEN [task[t] EXCEPT !.ctx = "done"]
                              ELSE task[t]]
  /\ listed' = {}
  /\ UNCHANGED <<sent, lapsed>>

CreateQueue(q) ==
  /\ q \notin exists
  /\ exists' = exists \cup {q}
  /\ UNCHANGED <<copy, dedup, sent, dropped, lapsed, task, listed>>

MoveStep(t) ==
  Loop(t) \/ Receive(t) \/ Send(t) \/ SendFails(t) \/ GiveBack(t) \/ DeleteOriginal(t)

Next ==
  \/ \E q \in Queues, b \in Bodies : Produce(q, b) \/ Forget(q, b)
  \/ \E c \in DOMAIN copy : Consume(c) \/ Ack(c) \/ LeaseEnds(c)
  \/ \E t \in Tasks, mv \in Moves : Start(t, mv[1], mv[2])
  \/ \E t \in Tasks : \/ Loop(t) \/ Receive(t) \/ Send(t) \/ SendFails(t)
                      \/ GiveBack(t) \/ DeleteOriginal(t)
                      \/ Cancel(t) \/ CancelContext(t)
  \/ \E q \in Queues : DeleteQueue(q) \/ CreateQueue(q)
  \/ Reset

\* The goroutines of tasks and of CancelMessageMoveTask run on.
Spec == /\ Init /\ [][Next]_vars
        /\ \A t \in Tasks : WF_vars(MoveStep(t)) /\ WF_vars(CancelContext(t))
-----------------------------------------------------------------------------
(* Properties.                                                             *)

Copies(b) == {c \in DOMAIN copy : copy[c].body = b /\ copy[c].st # "gone"}

\* The status words of a task and the message it works on.
TypeOK ==
  /\ exists \subseteq Queues /\ listed \subseteq Tasks /\ DOMAIN copy = 1 .. MaxCopies
  /\ \A t \in Tasks :
       /\ task[t].status \in {None, "RUNNING", "CANCELLING", "COMPLETED",
                              "CANCELLED", "FAILED"}
       /\ task[t].pc \in {"send", "delete", "giveback"} => task[t].m \in DOMAIN copy

\* A move loses nothing: what a producer sent stays in some queue until a
\* consumer deletes it or its queue is deleted, whenever the task is
\* cancelled, its send fails, its lease runs out or a queue goes ("Re-make
\* message visible so it is not lost", runMoveTask).
NotLost == \A b \in sent \ dropped : Copies(b) # {}

\* A message is duplicated only when its lease ran out under a task: without
\* that, the copies of a body are the one in a queue and those that a task
\* has sent and is about to delete the original of.
MovedOnce ==
  \A b \in Bodies \ lapsed :
    Cardinality(Copies(b)) <=
      1 + Cardinality({t \in Tasks : task[t].pc = "delete" /\ copy[task[t].m].body = b})

\* No two tasks that may still take a message work on one source queue, a
\* task whose cancellation is under way included (ErrMoveTaskAlreadyRunning).
OneMover ==
  \A t, u \in Tasks :
    /\ Going(t) /\ task[t].ctx # "done" /\ Going(u) /\ task[u].ctx # "done"
    /\ task[t].src = task[u].src
    => t = u

\* A cancelled task ends: its goroutine leaves the loop and the status becomes
\* final, for a task between a queue and itself too.  (A task is started once and
\* there are finitely many, so from some time on none is left that was cancelled
\* and goes on.)
CancelEnds ==
  <>[](\A t \in Tasks : task[t].ctx # "open" => task[t].pc = "done")
=============================================================================
