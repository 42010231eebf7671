--------------------------- MODULE SqsMoveProofs ---------------------------
(***************************************************************************)
(* Proofs about SqsMove: for any queues, bodies, tasks and moves, one task *)
(* at a time takes messages from a queue, a message is duplicated only     *)
(* after a lease ran out under a task, and none is lost as long as no FIFO *)
(* queue is the source of a move.                                          *)
(***************************************************************************)
EXTENDS SqsMove, FiniteSetTheorems, TLAPS

Slots == 1 .. MaxCopies
Words == {"RUNNING", "CANCELLING", "COMPLETED", "CANCELLED", "FAILED", None}
Points == {"idle", "loop", "receive", "send", "delete", "giveback", "done"}

CopyRec == [body : Bodies \cup {None}, q : Queues \cup {None},
            st : {"gone", "pending", "leased"}, by : {None, "consumer"}]
TaskRec == [status : Words, src : Queues \cup {None}, dst : Queues \cup {None},
            pc : Points, ctx : {"open", "asked", "done"}, m : Nat]

\* The tables.
TableTypes ==
  /\ copy \in [Slots -> CopyRec]
  /\ dedup \in [Queues -> SUBSET Bodies]
  /\ exists \subseteq Queues /\ sent \subseteq Bodies

\* The tasks; one that holds a message points to a slot.
TaskTypes ==
  /\ listed \subseteq Tasks
  /\ task \in [Tasks -> TaskRec]

HeldSlots == \A t \in Tasks : task[t].pc \in {"send", "delete", "giveback"} => task[t].m \in Slots

Types == TableTypes /\ TaskTypes /\ HeldSlots

-----------------------------------------------------------------------------
(* The parts of the invariant.                                             *)

\* A task that may still take a message is in the table, and active.
Registered ==
  \A t \in Tasks : Going(t) /\ task[t].ctx # "done" => t \in listed /\ Active(t)

Live(c) == copy[c].st # "gone"
Held(c) == \E t \in Tasks : Holds(t, c)

\* A task has sent the message and is to delete the original.
Deletes(t, c) == task[t].pc = "delete" /\ task[t].m = c
Doomed(c) == \E t \in Tasks : Deletes(t, c)

\* Bodies come from producers.
Known ==
  /\ \A c \in Slots : Live(c) \/ Held(c) => copy[c].body \in sent
  /\ \A q \in Queues : dedup[q] \subseteq sent

\* A message in a task's hands is in its source queue, or gone.
HeldSource ==
  \A t \in Tasks : \A c \in Slots :
    Holds(t, c) => ~Live(c) \/ copy[c].q = task[t].src

\* Sources of tasks are sources of moves.
Sources ==
  \A t \in Tasks : task[t].pc \in {"loop", "receive", "send", "delete", "giveback"}
                     => \E mv \in Moves : task[t].src = mv[1]

NoFifoSource == \A mv \in Moves : mv[1] \notin Fifo

\* What a FIFO queue remembers is in it, or was dropped.
Remembered ==
  \A q \in Queues : \A b \in dedup[q] \ dropped :
    q \in Fifo /\ \E c \in Slots : Live(c) /\ copy[c].body = b /\ copy[c].q = q

\* Of what was sent and not dropped there is a message that no task is about to
\* delete.
Kept ==
  \A b \in sent \ dropped :
    \E c \in Slots : Live(c) /\ copy[c].body = b /\ ~Doomed(c)

\* Until its lease ran out under a task, a message in a task's hands is leased
\* by that task alone, or gone.
HeldAlone ==
  \A t \in Tasks : \A c \in Slots :
    Holds(t, c) /\ copy[c].body \notin lapsed =>
      /\ ~Live(c) \/ (copy[c].st = "leased" /\ copy[c].by # "consumer")
      /\ \A u \in Tasks : Holds(u, c) => u = t

\* A message that is or may still become one to stay.
Stays(c) == ~Doomed(c) /\ (Live(c) \/ Held(c))

\* Until then, one message of a body stays.
OneStays ==
  \A c, d \in Slots :
    Stays(c) /\ Stays(d) /\ copy[c].body = copy[d].body /\ copy[c].body \notin lapsed => c = d

MoveInv == Types /\ Registered /\ OneMover /\ Known /\ HeldSource /\ Sources
OnceInv == MoveInv /\ HeldAlone /\ OneStays
LossInv == MoveInv /\ Remembered /\ Kept
-----------------------------------------------------------------------------
(* Effects of the calls.                                                   *)

\* SendMessage stores the message in free room, or finds it remembered.
LEMMA SentEffect ==
  ASSUME Types, NEW q \in Queues, NEW b \in Bodies, Sent(q, b)
  PROVE  \/ q \in Fifo /\ b \in dedup[q] /\ UNCHANGED <<copy, dedup>>
         \/ /\ dedup' = IF q \in Fifo THEN [dedup EXCEPT ![q] = @ \cup {b}] ELSE dedup
            /\ \E c \in Slots :
                 /\ Free(c)
                 /\ copy' = [copy EXCEPT ![c] =
                               [body |-> b, q |-> q, st |-> "pending", by |-> None]]
<1>1. CASE q \in Fifo /\ b \in dedup[q]
  BY <1>1 DEF Sent
<1>2. CASE ~(q \in Fifo /\ b \in dedup[q])
  <2>1. DOMAIN copy = Slots
    BY DEF Types, TableTypes
  <2>2. \E c \in Slots : Free(c)
    BY <1>2, <2>1 DEF Sent
  <2>3. Room \in Slots /\ Free(Room)
    BY <2>1, <2>2 DEF Room
  <2> QED  BY <1>2, <2>3 DEF Sent
<1> QED  BY <1>1, <1>2

\* A deleted message has a record of the right type, gone, with its body if a
\* task holds it.
LEMMA GoneRec ==
  ASSUME Types, NEW c \in Slots
  PROVE  /\ Gone(c) \in CopyRec /\ Gone(c).st = "gone"
         /\ Held(c) => Gone(c).body = copy[c].body
<1>1. copy[c].body \in Bodies \cup {None}
  BY DEF Types, TableTypes, CopyRec
<1>2. NoCopy \in CopyRec /\ [NoCopy EXCEPT !.body = copy[c].body] \in CopyRec
  BY <1>1 DEF NoCopy, CopyRec
<1>3. NoCopy.st = "gone" /\ [NoCopy EXCEPT !.body = copy[c].body].st = "gone"
      /\ [NoCopy EXCEPT !.body = copy[c].body].body = copy[c].body
  BY DEF NoCopy
<1> QED  BY <1>2, <1>3 DEF Gone, Held

\* A task holds only the message it points to.
LEMMA HeldTyped ==
  ASSUME Types, NEW t \in Tasks, task[t].pc \in {"send", "delete", "giveback"}
  PROVE  task[t].m \in Slots /\ Holds(t, task[t].m)
  BY DEF Types, HeldSlots, Holds

\* What Vanish does to the tables.
LEMMA VanishEffect ==
  ASSUME Types, NEW qs \in SUBSET Queues, Vanish(qs)
  PROVE  /\ exists' = exists \ qs
         /\ dedup' = [q \in Queues |-> IF q \in qs THEN {} ELSE dedup[q]]
         /\ copy' \in [Slots -> CopyRec]
         /\ dropped \subseteq dropped'
         /\ \A c \in Slots :
              IF Live(c) /\ copy[c].q \in qs
              THEN copy'[c] = Gone(c) /\ copy[c].body \in dropped'
              ELSE copy'[c] = copy[c]
<1> DEFINE lost == {c \in DOMAIN copy : copy[c].q \in qs /\ copy[c].st # "gone"}
<1>1. /\ exists' = exists \ qs
      /\ copy' = [c \in DOMAIN copy |-> IF c \in lost THEN Gone(c) ELSE copy[c]]
      /\ dedup' = [q \in Queues |-> IF q \in qs THEN {} ELSE dedup[q]]
      /\ dropped' = dropped \cup {copy[c].body : c \in lost}
  BY DEF Vanish
<1>2. DOMAIN copy = Slots /\ copy \in [Slots -> CopyRec]
  BY DEF Types, TableTypes
<1>3. \A c \in Slots : Gone(c) \in CopyRec
  BY GoneRec
<1> QED
  BY <1>1, <1>2, <1>3 DEF Live
-----------------------------------------------------------------------------
(* Types.                                                                  *)

\* The first state.
LEMMA InitTypes == Init => Types
<1> SUFFICES ASSUME Init PROVE Types
  OBVIOUS
<1>1. NoCopy \in CopyRec /\ NoTask \in TaskRec
  BY DEF NoCopy, NoTask, CopyRec, TaskRec, Words, Points
<1>2. TableTypes
  BY <1>1 DEF Init, TableTypes, Slots
<1>3. TaskTypes /\ HeldSlots
  BY <1>1 DEF Init, TaskTypes, HeldSlots, NoTask
<1> QED  BY <1>2, <1>3 DEF Types

\* The steps that end a task.
LEMMA EndRecs ==
  /\ Failed \in TaskRec /\ Failed.pc = "done"
  /\ \A r : Ended(r) \in TaskRec /\ Ended(r).pc = "done"
  BY DEF Failed, Ended, NoTask, TaskRec, Words, Points

\* Storing a message keeps the types.
LEMMA StoredTypes ==
  ASSUME Types, NEW q \in Queues, NEW b \in Bodies, Sent(q, b)
  PROVE  copy' \in [Slots -> CopyRec] /\ dedup' \in [Queues -> SUBSET Bodies]
<1>1. copy \in [Slots -> CopyRec] /\ dedup \in [Queues -> SUBSET Bodies]
  BY DEF Types, TableTypes
<1>2. [body |-> b, q |-> q, st |-> "pending", by |-> None] \in CopyRec
  BY DEF CopyRec
<1> QED
  BY <1>1, <1>2, SentEffect

\* The body a task is about to send is one that some producer sent.
LEMMA HeldBody ==
  ASSUME Types, Known, NEW t \in Tasks, task[t].pc \in {"send", "delete", "giveback"}
  PROVE  copy[task[t].m].body \in sent /\ copy[task[t].m].body \in Bodies
<1>1. task[t].m \in Slots /\ Held(task[t].m)
  BY HeldTyped DEF Held
<1> QED
  BY <1>1 DEF Known, Types, TableTypes

\* The tables keep their types.
LEMMA TableTypesStep ==
  ASSUME Types, Known, [Next]_vars
  PROVE  TableTypes'
<1>0. /\ copy \in [Slots -> CopyRec] /\ dedup \in [Queues -> SUBSET Bodies]
      /\ exists \subseteq Queues /\ sent \subseteq Bodies /\ DOMAIN copy = Slots
  BY DEF Types, TableTypes
<1> USE DEF TableTypes
<1>1. ASSUME NEW q \in Queues, NEW b \in Bodies, Produce(q, b) PROVE TableTypes'
  BY <1>0, <1>1, StoredTypes DEF Produce
<1>2. ASSUME NEW q \in Queues, NEW b \in Bodies, Forget(q, b) PROVE TableTypes'
  BY <1>0, <1>2 DEF Forget
<1>3. ASSUME NEW c \in Slots, Consume(c) PROVE TableTypes'
  <2>1. copy' \in [Slots -> CopyRec]
    BY <1>0, <1>3, ZenonT(40) DEF Consume, CopyRec
  <2> QED  BY <1>0, <1>3, <2>1 DEF Consume
<1>4. ASSUME NEW c \in Slots, Ack(c) PROVE TableTypes'
  BY <1>0, <1>4, GoneRec DEF Ack
<1>5. ASSUME NEW c \in Slots, LeaseEnds(c) PROVE TableTypes'
  <2>1. copy' \in [Slots -> CopyRec]
    BY <1>0, <1>5, ZenonT(40) DEF LeaseEnds, CopyRec
  <2> QED  BY <1>0, <1>5, <2>1 DEF LeaseEnds
<1>6. ASSUME NEW t \in Tasks, Receive(t) PROVE TableTypes'
  <2>1. copy' \in [Slots -> CopyRec]
    <3>1. CASE UNCHANGED copy
      BY <1>0, <3>1
    <3>2. CASE \E c \in Slots : copy' = [copy EXCEPT ![c].st = "leased", ![c].by = None]
      <4>1. PICK c \in Slots : copy' = [copy EXCEPT ![c].st = "leased", ![c].by = None]
        BY <3>2
      <4> QED  BY <1>0, <4>1, ZenonT(40) DEF CopyRec
    <3> QED  BY <1>0, <1>6, <3>1, <3>2 DEF Receive
  <2> QED  BY <1>0, <1>6, <2>1 DEF Receive
<1>7. ASSUME NEW t \in Tasks, Send(t) PROVE TableTypes'
  <2>1. copy[task[t].m].body \in Bodies /\ task[t].dst \in Queues
    BY <1>0, <1>7, HeldBody DEF Send
  <2> QED  BY <1>0, <1>7, <2>1, StoredTypes DEF Send
<1>8. ASSUME NEW t \in Tasks, GiveBack(t) PROVE TableTypes'
  <2>1. copy' \in [Slots -> CopyRec]
    <3>1. \/ copy' = copy
          \/ \E c \in Slots : copy' = [copy EXCEPT ![c].st = "pending", ![c].by = None]
      BY <1>8, HeldTyped DEF GiveBack
    <3>2. ASSUME NEW c \in Slots, copy' = [copy EXCEPT ![c].st = "pending", ![c].by = None]
          PROVE  copy' \in [Slots -> CopyRec]
      BY <1>0, <3>2, ZenonT(40) DEF CopyRec
    <3> QED  BY <1>0, <3>1, <3>2
  <2> QED  BY <1>0, <1>8, <2>1 DEF GiveBack
<1>9. ASSUME NEW t \in Tasks, DeleteOriginal(t) PROVE TableTypes'
  <2>1. task[t].m \in Slots
    BY <1>9, HeldTyped DEF DeleteOriginal
  <2>2. copy' \in [Slots -> CopyRec]
    BY <1>0, <1>9, <2>1, GoneRec DEF DeleteOriginal
  <2> QED  BY <1>0, <1>9, <2>2 DEF DeleteOriginal
<1>10. ASSUME NEW qs \in SUBSET Queues, Vanish(qs), UNCHANGED sent PROVE TableTypes'
  BY <1>0, <1>10, VanishEffect
<1>11. ASSUME NEW q \in Queues, DeleteQueue(q) \/ CreateQueue(q) PROVE TableTypes'
  BY <1>0, <1>10, <1>11 DEF DeleteQueue, CreateQueue
<1>12. ASSUME Reset PROVE TableTypes'
  BY <1>10, <1>12 DEF Reset
<1>13. UNCHANGED <<copy, dedup, exists, sent>> => TableTypes'
  BY <1>0
<1> QED
  BY <1>0, <1>1, <1>2, <1>3, <1>4, <1>5, <1>6, <1>7, <1>8, <1>9, <1>11, <1>12, <1>13
     DEF Next, Start, Loop, SendFails, Cancel, CancelContext, vars

\* The tasks keep their types.
LEMMA TaskTypesStep ==
  ASSUME Types, [Next]_vars
  PROVE  TaskTypes' /\ HeldSlots'
<1>0. listed \subseteq Tasks /\ task \in [Tasks -> TaskRec] /\ HeldSlots /\ DOMAIN copy = Slots
  BY DEF Types, TaskTypes, TableTypes
<1> DEFINE P == TaskTypes' /\ HeldSlots'
<1>a. ASSUME NEW t \in Tasks, NEW r \in TaskRec, task' = [task EXCEPT ![t] = r],
             r.pc \in {"send", "delete", "giveback"} => r.m \in Slots, listed' \subseteq Tasks
      PROVE  P
  BY <1>0, <1>a DEF TaskTypes, HeldSlots
<1>1. ASSUME NEW t \in Tasks, NEW mv \in Moves, Start(t, mv[1], mv[2]) PROVE P
  <2> DEFINE r == [NoTask EXCEPT !.status = "RUNNING", !.src = mv[1], !.dst = mv[2],
                                 !.pc = "loop"]
  <2>1. mv[1] \in Queues /\ mv[2] \in Queues
    BY MoveAssumption
  <2>2. r \in TaskRec /\ r.pc = "loop"
    BY <2>1 DEF NoTask, TaskRec, Words, Points
  <2>3. task' = [task EXCEPT ![t] = r] /\ listed' \subseteq Tasks
    BY <1>0, <1>1 DEF Start
  <2> QED  BY <1>a, <2>2, <2>3
<1>2. ASSUME NEW t \in Tasks, Loop(t) PROVE P
  <2>1. CASE task[t].ctx = "done"
    <3>1. task' = [task EXCEPT ![t] = Ended(task[t])] /\ listed' = listed
      BY <1>2, <2>1 DEF Loop
    <3> QED  BY <1>a, <1>0, <3>1, EndRecs
  <2>2. CASE task[t].ctx # "done"
    <3> DEFINE r == [task[t] EXCEPT !.pc = "receive"]
    <3>1. task' = [task EXCEPT ![t] = r] /\ listed' = listed
      BY <1>2, <2>2 DEF Loop
    <3>2. r \in TaskRec /\ r.pc = "receive"
      BY <1>0 DEF TaskRec, Points
    <3> QED  BY <1>a, <1>0, <3>1, <3>2
  <2> QED  BY <2>1, <2>2
<1>3. ASSUME NEW t \in Tasks, Receive(t) PROVE P
  <2>1. listed' = listed
    BY <1>3 DEF Receive
  <2>2. CASE task' = [task EXCEPT ![t] = Failed] \/ task' = [task EXCEPT ![t] = Ended(task[t])]
    BY <2>1, <2>2, <1>0, <1>a, EndRecs
  <2>3. CASE \E c \in Slots : task' = [task EXCEPT ![t].pc = "send", ![t].m = c]
    <3>1. PICK c \in Slots : task' = [task EXCEPT ![t].pc = "send", ![t].m = c]
      BY <2>3
    <3> DEFINE r == [task[t] EXCEPT !.pc = "send", !.m = c]
    <3>2. c \in Nat
      BY MoveAssumption DEF Slots
    <3>3. r \in TaskRec /\ r.m = c
      BY <1>0, <3>2 DEF TaskRec, Points
    <3>4. task' = [task EXCEPT ![t] = r]
      BY <3>1
    <3> QED  BY <1>0, <2>1, <1>a, <3>3, <3>4
  <2> QED  BY <1>0, <1>3, <2>2, <2>3 DEF Receive
<1>4. ASSUME NEW t \in Tasks, Send(t) \/ SendFails(t) PROVE P
  <2>1. PICK pc \in {"delete", "giveback"} : task' = [task EXCEPT ![t].pc = pc]
    BY <1>4 DEF Send, SendFails
  <2> DEFINE r == [task[t] EXCEPT !.pc = pc]
  <2>2. r \in TaskRec /\ r.m = task[t].m
    BY <1>0 DEF TaskRec, Points
  <2>3. task' = [task EXCEPT ![t] = r] /\ listed' = listed
    BY <1>4, <2>1 DEF Send, SendFails
  <2>4. task[t].m \in Slots
    BY <1>4, <1>0 DEF Send, SendFails, HeldSlots
  <2> QED  BY <1>0, <1>a, <2>2, <2>3, <2>4
<1>5. ASSUME NEW t \in Tasks, GiveBack(t) PROVE P
  BY <1>0, <1>5, <1>a, EndRecs DEF GiveBack
<1>6. ASSUME NEW t \in Tasks, DeleteOriginal(t) PROVE P
  <2> DEFINE r == [task[t] EXCEPT !.pc = "loop", !.m = 0]
  <2>1. r \in TaskRec /\ r.pc = "loop"
    BY <1>0 DEF TaskRec, Points
  <2>2. task' = [task EXCEPT ![t] = r] /\ listed' = listed
    BY <1>6 DEF DeleteOriginal
  <2> QED  BY <1>0, <1>a, <2>1, <2>2
<1>7. ASSUME NEW t \in Tasks, Cancel(t) \/ CancelContext(t) PROVE P
  <2>1. PICK w \in Words, x \in {"open", "asked", "done"} :
          task' = [task EXCEPT ![t].status = w, ![t].ctx = x]
    <3>1. CASE Cancel(t)
      BY <1>0, <3>1 DEF Cancel, Words
    <3>2. CASE CancelContext(t)
      <4>1. task' = [task EXCEPT ![t].status = task[t].status, ![t].ctx = "done"]
        BY <1>0, <3>2 DEF CancelContext, TaskRec
      <4> QED  BY <1>0, <4>1 DEF TaskRec
    <3> QED  BY <1>7, <3>1, <3>2
  <2> DEFINE r == [task[t] EXCEPT !.status = w, !.ctx = x]
  <2>2. r \in TaskRec /\ r.m = task[t].m /\ r.pc = task[t].pc
    BY <1>0 DEF TaskRec
  <2>3. task' = [task EXCEPT ![t] = r] /\ listed' = listed
    BY <1>7, <2>1 DEF Cancel, CancelContext
  <2>4. task[t].pc \in {"send", "delete", "giveback"} => task[t].m \in Slots
    BY <1>0 DEF HeldSlots
  <2> QED  BY <1>0, <1>a, <2>2, <2>3, <2>4
<1>8. ASSUME listed' \subseteq Tasks, NEW D \in SUBSET Tasks,
             task' = [t \in Tasks |-> IF t \in D THEN [task[t] EXCEPT !.ctx = "done"]
                                      ELSE task[t]]
      PROVE  P
  <2>1. \A t \in Tasks : [task[t] EXCEPT !.ctx = "done"] \in TaskRec
    BY <1>0 DEF TaskRec
  <2>2. task' \in [Tasks -> TaskRec]
    BY <1>0, <1>8, <2>1
  <2>3. \A t \in Tasks : task'[t].pc = task[t].pc /\ task'[t].m = task[t].m
    BY <1>0, <1>8 DEF TaskRec
  <2> QED  BY <1>0, <1>8, <2>2, <2>3 DEF TaskTypes, HeldSlots
<1>9. ASSUME NEW q \in Queues, DeleteQueue(q) PROVE P
  <2> DEFINE D == {t \in Tasks : t \in listed /\ Active(t) /\ q \in {task[t].src, task[t].dst}}
  <2>1. task' = [t \in Tasks |-> IF t \in D THEN [task[t] EXCEPT !.ctx = "done"] ELSE task[t]]
    BY <1>9 DEF DeleteQueue
  <2> QED  BY <1>0, <1>8, <1>9, <2>1 DEF DeleteQueue
<1>10. ASSUME Reset PROVE P
  <2> DEFINE D == {t \in Tasks : t \in listed /\ Going(t)}
  <2>1. task' = [t \in Tasks |-> IF t \in D THEN [task[t] EXCEPT !.ctx = "done"] ELSE task[t]]
    BY <1>10 DEF Reset
  <2> QED  BY <1>0, <1>8, <1>10, <2>1 DEF Reset
<1>11. UNCHANGED <<task, listed>> => P
  BY <1>0 DEF TaskTypes, HeldSlots
<1> HIDE DEF P
<1>12. P
  BY <1>0, <1>1, <1>2, <1>3, <1>4, <1>5, <1>6, <1>7, <1>9, <1>10, <1>11
     DEF Next, Produce, Forget, Consume, Ack, LeaseEnds, CreateQueue, vars
<1> QED  BY <1>12 DEF P
-----------------------------------------------------------------------------
(* One mover.                                                              *)

\* Nobody moves at first.
LEMMA InitMovers == Init => Registered /\ OneMover /\ Sources
  BY DEF Init, Registered, OneMover, Sources, Going, NoTask

Moving == {"loop", "receive", "send", "delete", "giveback"}

\* A step of one task or of its cancellation: it goes on from the same source
\* and stays registered, or it has ended.
GoesOn(t, r) ==
  /\ task' = [task EXCEPT ![t] = r] /\ listed' = listed
  /\ \/ r.pc = "done"
     \/ /\ r.src = task[t].src /\ (r.pc \in Moving <=> task[t].pc \in Moving)
        /\ r.ctx # "done" => task[t].ctx # "done"
        /\ task[t].status \in {"RUNNING", "CANCELLING"}
             => r.status \in {"RUNNING", "CANCELLING"}

\* Such a step lets nobody else in.
LEMMA GoesOnMovers ==
  ASSUME Types, Registered, OneMover, Sources, NEW t \in Tasks, NEW r, r.pc \in Points,
         GoesOn(t, r)
  PROVE  Registered' /\ OneMover' /\ Sources'
<1>0. task \in [Tasks -> TaskRec] /\ \A u \in Tasks : task[u].pc \in Points
  BY DEF Types, TaskTypes, TaskRec
<1>1. task'[t] = r /\ (\A u \in Tasks \ {t} : task'[u] = task[u]) /\ listed' = listed
  BY <1>0 DEF GoesOn
<1>2. r.pc # "done" =>
        /\ r.src = task[t].src /\ (r.pc \in Moving <=> task[t].pc \in Moving)
        /\ r.ctx # "done" => task[t].ctx # "done"
        /\ task[t].status \in {"RUNNING", "CANCELLING"}
             => r.status \in {"RUNNING", "CANCELLING"}
  BY DEF GoesOn
<1>3. \A u \in Tasks : Going(u)' /\ task'[u].ctx # "done" =>
        /\ Going(u) /\ task[u].ctx # "done" /\ task'[u].src = task[u].src
        /\ Active(u) => Active(u)'
  BY <1>0, <1>1, <1>2 DEF Going, Active, Moving, Points
<1>4. Registered'
  BY <1>1, <1>3 DEF Registered
<1>5. OneMover'
  BY <1>3 DEF OneMover
<1>6. Sources'
  BY <1>1, <1>2 DEF Sources, Moving
<1> QED
  BY <1>4, <1>5, <1>6

\* Every step keeps one mover for each source.
LEMMA MoversStep ==
  ASSUME Types, Registered, OneMover, Sources, [Next]_vars
  PROVE  Registered' /\ OneMover' /\ Sources'
<1>0. listed \subseteq Tasks /\ task \in [Tasks -> TaskRec]
  BY DEF Types, TaskTypes
<1> DEFINE P == Registered' /\ OneMover' /\ Sources'
<1>1. ASSUME NEW t \in Tasks, NEW mv \in Moves, Start(t, mv[1], mv[2]) PROVE P
  <2> DEFINE r == [NoTask EXCEPT !.status = "RUNNING", !.src = mv[1], !.dst = mv[2],
                                 !.pc = "loop"]
  <2>1. r.pc = "loop" /\ r.src = mv[1] /\ r.status = "RUNNING" /\ r.ctx = "open"
    BY DEF NoTask
  <2>2. task' = [task EXCEPT ![t] = r] /\ listed' = listed \cup {t}
    BY <1>1 DEF Start
  <2> HIDE DEF r
  <2>3. task'[t] = r /\ \A u \in Tasks \ {t} : task'[u] = task[u]
    BY <1>0, <2>2
  <2>4. \A u \in Tasks \ {t} : (Going(u)' <=> Going(u)) /\ (Active(u)' <=> Active(u))
    BY <2>3 DEF Going, Active
  <2>5. Registered'
    BY <2>1, <2>2, <2>3, <2>4 DEF Registered, Active
  <2>6. \A u \in Tasks \ {t} : Going(u) /\ task[u].ctx # "done" => task[u].src # mv[1]
    BY <1>1 DEF Start, Busy, Registered
  <2>7. OneMover'
    BY <2>1, <2>3, <2>4, <2>6 DEF OneMover
  <2>8. Sources'
    BY <2>1, <2>3 DEF Sources
  <2> QED  BY <2>5, <2>7, <2>8
<1>2. ASSUME NEW t \in Tasks, Loop(t) PROVE P
  <2>1. CASE task[t].ctx = "done"
    <3>1. GoesOn(t, Ended(task[t])) /\ Ended(task[t]).pc \in Points
      BY <1>2, <2>1, EndRecs DEF Loop, GoesOn, TaskRec
    <3> QED  BY <3>1, GoesOnMovers
  <2>2. CASE task[t].ctx # "done"
    <3> DEFINE r == [task[t] EXCEPT !.pc = "receive"]
    <3>1. r.pc = "receive" /\ r.src = task[t].src /\ r.ctx = task[t].ctx
          /\ r.status = task[t].status
      BY <1>0 DEF TaskRec
    <3>2. task' = [task EXCEPT ![t] = r] /\ listed' = listed /\ task[t].pc = "loop"
      BY <1>2, <2>2 DEF Loop
    <3> HIDE DEF r
    <3>3. GoesOn(t, r) /\ r.pc \in Points
      BY <3>1, <3>2 DEF GoesOn, Moving, Points
    <3> QED  BY <3>3, GoesOnMovers
  <2> QED  BY <2>1, <2>2
<1>3. ASSUME NEW t \in Tasks, Receive(t) PROVE P
  <2>1. listed' = listed /\ task[t].pc = "receive"
    BY <1>3 DEF Receive
  <2>2. ASSUME NEW r, r.pc = "done", task' = [task EXCEPT ![t] = r] PROVE P
    <3>1. GoesOn(t, r) /\ r.pc \in Points
      BY <2>1, <2>2 DEF GoesOn, Points
    <3> QED  BY <3>1, GoesOnMovers
  <2>3. ASSUME NEW c, task' = [task EXCEPT ![t].pc = "send", ![t].m = c] PROVE P
    <3> DEFINE r == [task[t] EXCEPT !.pc = "send", !.m = c]
    <3>1. r.pc = "send" /\ r.src = task[t].src /\ r.ctx = task[t].ctx
          /\ r.status = task[t].status
      BY <1>0 DEF TaskRec
    <3>2. task' = [task EXCEPT ![t] = r]
      BY <2>3
    <3> HIDE DEF r
    <3>3. GoesOn(t, r) /\ r.pc \in Points
      BY <2>1, <3>1, <3>2 DEF GoesOn, Moving, Points
    <3> QED  BY <3>3, GoesOnMovers
  <2> QED  BY <1>3, <2>2, <2>3, EndRecs DEF Receive
<1>4. ASSUME NEW t \in Tasks, Send(t) \/ SendFails(t) PROVE P
  <2>1. PICK pc \in {"delete", "giveback"} : task' = [task EXCEPT ![t].pc = pc]
    BY <1>4 DEF Send, SendFails
  <2> DEFINE r == [task[t] EXCEPT !.pc = pc]
  <2>2. r.pc = pc /\ r.src = task[t].src /\ r.ctx = task[t].ctx /\ r.status = task[t].status
    BY <1>0 DEF TaskRec
  <2>3. task' = [task EXCEPT ![t] = r] /\ listed' = listed /\ task[t].pc = "send"
    BY <1>4, <2>1 DEF Send, SendFails
  <2> HIDE DEF r
  <2>4. GoesOn(t, r) /\ r.pc \in Points
    BY <2>2, <2>3 DEF GoesOn, Moving, Points
  <2> QED  BY <2>4, GoesOnMovers
<1>5. ASSUME NEW t \in Tasks, GiveBack(t) PROVE P
  <2>1. GoesOn(t, Failed) /\ Failed.pc \in Points
    BY <1>5, EndRecs DEF GiveBack, GoesOn, TaskRec
  <2> QED  BY <2>1, GoesOnMovers
<1>6. ASSUME NEW t \in Tasks, DeleteOriginal(t) PROVE P
  <2> DEFINE r == [task[t] EXCEPT !.pc = "loop", !.m = 0]
  <2>1. r.pc = "loop" /\ r.src = task[t].src /\ r.ctx = task[t].ctx /\ r.status = task[t].status
    BY <1>0 DEF TaskRec
  <2>2. task' = [task EXCEPT ![t] = r] /\ listed' = listed /\ task[t].pc = "delete"
    BY <1>6 DEF DeleteOriginal
  <2> HIDE DEF r
  <2>3. GoesOn(t, r) /\ r.pc \in Points
    BY <2>1, <2>2 DEF GoesOn, Moving, Points
  <2> QED  BY <2>3, GoesOnMovers
<1>7. ASSUME NEW t \in Tasks, Cancel(t) PROVE P
  <2> DEFINE x == IF task[t].ctx = "done" THEN task[t].ctx ELSE "asked"
  <2> DEFINE r == [task[t] EXCEPT !.status = "CANCELLING", !.ctx = x]
  <2>1. r.pc = task[t].pc /\ r.src = task[t].src /\ r.ctx = x /\ r.status = "CANCELLING"
        /\ r.pc \in Points
    BY <1>0 DEF TaskRec
  <2>2. task' = [task EXCEPT ![t] = r] /\ listed' = listed
    BY <1>7 DEF Cancel
  <2> HIDE DEF r
  <2>3. GoesOn(t, r)
    BY <2>1, <2>2 DEF GoesOn
  <2> QED  BY <2>1, <2>3, GoesOnMovers
<1>8. ASSUME NEW t \in Tasks, CancelContext(t) PROVE P
  <2> DEFINE r == [task[t] EXCEPT !.ctx = "done"]
  <2>1. r.pc = task[t].pc /\ r.src = task[t].src /\ r.ctx = "done"
        /\ r.status = task[t].status /\ r.pc \in Points
    BY <1>0 DEF TaskRec
  <2>2. task' = [task EXCEPT ![t] = r] /\ listed' = listed
    BY <1>8 DEF CancelContext
  <2> HIDE DEF r
  <2>3. GoesOn(t, r)
    BY <2>1, <2>2 DEF GoesOn
  <2> QED  BY <2>1, <2>3, GoesOnMovers
<1>9. ASSUME NEW D \in SUBSET Tasks,
             task' = [t \in Tasks |-> IF t \in D THEN [task[t] EXCEPT !.ctx = "done"]
                                      ELSE task[t]],
             \/ listed' = listed
             \/ \A t \in Tasks \ D : Going(t) => task[t].ctx = "done"
      PROVE  P
  <2>1. \A t \in Tasks : /\ task'[t].pc = task[t].pc /\ task'[t].src = task[t].src
                         /\ task'[t].status = task[t].status
    BY <1>0, <1>9 DEF TaskRec
  <2>2. \A t \in Tasks : task'[t].ctx # "done" => task'[t] = task[t] /\ t \notin D
    BY <1>0, <1>9 DEF TaskRec
  <2>3. Registered'
    BY <1>9, <2>1, <2>2 DEF Registered, Going, Active
  <2>4. OneMover'
    BY <2>1, <2>2 DEF OneMover, Going
  <2>5. Sources'
    BY <2>1 DEF Sources
  <2> QED  BY <2>3, <2>4, <2>5
<1>10. ASSUME NEW q \in Queues, DeleteQueue(q) PROVE P
  <2> DEFINE D == {t \in Tasks : t \in listed /\ Active(t) /\ q \in {task[t].src, task[t].dst}}
  <2>1. task' = [t \in Tasks |-> IF t \in D THEN [task[t] EXCEPT !.ctx = "done"] ELSE task[t]]
        /\ listed' = listed
    BY <1>10 DEF DeleteQueue
  <2> QED  BY <1>9, <2>1
<1>11. ASSUME Reset PROVE P
  <2> DEFINE D == {t \in Tasks : t \in listed /\ Going(t)}
  <2>1. task' = [t \in Tasks |-> IF t \in D THEN [task[t] EXCEPT !.ctx = "done"] ELSE task[t]]
    BY <1>11 DEF Reset
  <2>2. \A t \in Tasks \ D : Going(t) => task[t].ctx = "done"
    BY DEF Registered
  <2> QED  BY <1>9, <2>1, <2>2
<1>12. UNCHANGED <<task, listed>> => P
  BY DEF Registered, OneMover, Sources, Going, Active
<1> HIDE DEF P
<1>13. P
  BY <1>1, <1>2, <1>3, <1>4, <1>5, <1>6, <1>7, <1>8, <1>10, <1>11, <1>12
     DEF Next, Produce, Forget, Consume, Ack, LeaseEnds, CreateQueue, vars
<1> QED  BY <1>13 DEF P
-----------------------------------------------------------------------------
(* What tasks have in hand.                                                *)

\* The task has the same message in hand, for the same purpose.
SameHand(t) ==
  \A c : /\ Holds(t, c)' <=> Holds(t, c)
         /\ Deletes(t, c)' <=> Deletes(t, c)
         /\ Holds(t, c) => task'[t].src = task[t].src

\* Only four calls of a task change what it has in hand, and nobody else's.
LEMMA Hands ==
  ASSUME Types, [Next]_vars
  PROVE  \/ \A u \in Tasks : SameHand(u)
         \/ \E t \in Tasks : /\ Receive(t) \/ Send(t) \/ GiveBack(t) \/ DeleteOriginal(t)
                             /\ \A u \in Tasks \ {t} : SameHand(u)
<1>0. task \in [Tasks -> TaskRec]
  BY DEF Types, TaskTypes
<1> DEFINE All == \A u \in Tasks : SameHand(u)
<1>1. ASSUME NEW t \in Tasks, NEW mv \in Moves, Start(t, mv[1], mv[2]) PROVE All
  <2>1. task[t].pc = "idle"
    BY <1>1 DEF Start, NoTask
  <2>2. task'[t].pc = "loop" /\ \A u \in Tasks \ {t} : task'[u] = task[u]
    BY <1>0, <1>1 DEF Start, NoTask
  <2> QED  BY <2>1, <2>2 DEF SameHand, Holds, Deletes
<1>2. ASSUME NEW t \in Tasks, Loop(t) PROVE All
  <2>1. task[t].pc = "loop"
    BY <1>2 DEF Loop
  <2>2. task'[t].pc \in {"done", "receive"} /\ \A u \in Tasks \ {t} : task'[u] = task[u]
    BY <1>0, <1>2, EndRecs DEF Loop, TaskRec
  <2> QED  BY <2>1, <2>2 DEF SameHand, Holds, Deletes
<1>3. ASSUME NEW t \in Tasks, SendFails(t) PROVE All
  <2>1. task[t].pc = "send"
    BY <1>3 DEF SendFails
  <2>2. /\ task'[t].pc = "giveback" /\ task'[t].m = task[t].m /\ task'[t].src = task[t].src
        /\ \A u \in Tasks \ {t} : task'[u] = task[u]
    BY <1>0, <1>3 DEF SendFails, TaskRec
  <2> QED  BY <2>1, <2>2 DEF SameHand, Holds, Deletes
<1>4. ASSUME \A u \in Tasks : /\ task'[u].pc = task[u].pc /\ task'[u].m = task[u].m
                              /\ task'[u].src = task[u].src
      PROVE  All
  BY <1>4 DEF SameHand, Holds, Deletes
<1>5. ASSUME NEW t \in Tasks, Cancel(t) \/ CancelContext(t) PROVE All
  <2>1. \A u \in Tasks : /\ task'[u].pc = task[u].pc /\ task'[u].m = task[u].m
                         /\ task'[u].src = task[u].src
    BY <1>0, <1>5 DEF Cancel, CancelContext, TaskRec
  <2> QED  BY <2>1, <1>4
<1>6. ASSUME Reset \/ \E q \in Queues : DeleteQueue(q) PROVE All
  <2>1. \A u \in Tasks : task'[u] = task[u] \/ task'[u] = [task[u] EXCEPT !.ctx = "done"]
    BY <1>6 DEF Reset, DeleteQueue
  <2>2. \A u \in Tasks : /\ task'[u].pc = task[u].pc /\ task'[u].m = task[u].m
                         /\ task'[u].src = task[u].src
    BY <1>0, <2>1, ZenonT(40) DEF TaskRec
  <2> QED  BY <2>2, <1>4
<1>7. UNCHANGED task => All
  BY <1>4
<1>8. ASSUME NEW t \in Tasks, Receive(t) \/ Send(t) \/ GiveBack(t) \/ DeleteOriginal(t)
      PROVE  \A u \in Tasks \ {t} : SameHand(u)
  <2>1. \A u \in Tasks \ {t} : task'[u] = task[u]
    BY <1>0, <1>8 DEF Receive, Send, GiveBack, DeleteOriginal
  <2> QED  BY <2>1 DEF SameHand, Holds, Deletes
<1> HIDE DEF All
<1>9. All \/ \E t \in Tasks : /\ Receive(t) \/ Send(t) \/ GiveBack(t) \/ DeleteOriginal(t)
                              /\ \A u \in Tasks \ {t} : SameHand(u)
  BY <1>1, <1>2, <1>3, <1>5, <1>6, <1>7, <1>8
     DEF Next, Produce, Forget, Consume, Ack, LeaseEnds, CreateQueue, vars
<1> QED  BY <1>9 DEF All

\* The effects a step may have on the messages.
\* None: at most something is forgotten.
Quiet ==
  /\ \A u \in Tasks : SameHand(u)
  /\ UNCHANGED <<copy, sent, dropped, lapsed>>
  /\ \A q \in Queues : dedup'[q] \subseteq dedup[q]

\* A new message, of a producer or of a task.
Stores(q, b) ==
  /\ UNCHANGED <<dropped, lapsed>>
  /\ \/ q \in Fifo /\ b \in dedup[q] /\ UNCHANGED <<copy, dedup>>
     \/ /\ dedup' = IF q \in Fifo THEN [dedup EXCEPT ![q] = @ \cup {b}] ELSE dedup
        /\ \E c \in Slots :
             /\ Free(c)
             /\ copy' = [copy EXCEPT ![c] =
                           [body |-> b, q |-> q, st |-> "pending", by |-> None]]

\* A lease begins or ends.
Relabels(c) ==
  /\ UNCHANGED <<sent, dropped, dedup>>
  /\ \A d \in Slots \ {c} : copy'[d] = copy[d]
  /\ Live(c) /\ copy'[c].st # "gone" /\ copy'[c].body = copy[c].body /\ copy'[c].q = copy[c].q

\* Messages go, with a word about it.
Drops ==
  /\ UNCHANGED <<sent, lapsed>> /\ dropped \subseteq dropped'
  /\ \A u \in Tasks : SameHand(u)
  /\ \A c \in Slots :
       \/ copy'[c] = copy[c]
       \/ Live(c) /\ copy'[c] = Gone(c) /\ copy[c].body \in dropped'
  /\ \A q \in Queues : dedup'[q] \subseteq dedup[q]

\* Every step is one of these.
LEMMA StepKinds ==
  ASSUME Types, Known, [Next]_vars
  PROVE  \/ Quiet
         \/ /\ \A u \in Tasks : SameHand(u)
            /\ \E q \in Queues, b \in Bodies :
                 b \notin sent /\ sent' = sent \cup {b} /\ Stores(q, b)
         \/ /\ \A u \in Tasks : SameHand(u)
            /\ \E c \in Slots : Relabels(c) /\ (Consume(c) \/ LeaseEnds(c))
         \/ Drops
         \/ \E t \in Tasks :
              /\ \A u \in Tasks \ {t} : SameHand(u)
              /\ Receive(t) \/ Send(t) \/ GiveBack(t) \/ DeleteOriginal(t)
<1>0. /\ copy \in [Slots -> CopyRec] /\ dedup \in [Queues -> SUBSET Bodies]
      /\ DOMAIN copy = Slots
  BY DEF Types, TableTypes
<1> SUFFICES ASSUME \A u \in Tasks : SameHand(u) PROVE
         \/ Quiet
         \/ \E q \in Queues, b \in Bodies :
                 b \notin sent /\ sent' = sent \cup {b} /\ Stores(q, b)
         \/ \E c \in Slots : Relabels(c) /\ (Consume(c) \/ LeaseEnds(c))
         \/ Drops
         \/ \E t \in Tasks : Receive(t) \/ Send(t) \/ GiveBack(t) \/ DeleteOriginal(t)
  BY Hands
<1>1. ASSUME NEW q \in Queues, NEW b \in Bodies, Produce(q, b)
      PROVE  b \notin sent /\ sent' = sent \cup {b} /\ Stores(q, b)
  BY <1>1, SentEffect DEF Produce, Stores
<1>2. ASSUME NEW q \in Queues, NEW b \in Bodies, Forget(q, b) PROVE Quiet
  BY <1>0, <1>2 DEF Forget, Quiet
<1>3. ASSUME NEW c \in Slots, Consume(c) \/ LeaseEnds(c) PROVE Relabels(c)
  BY <1>0, <1>3 DEF Consume, LeaseEnds, Relabels, Live, CopyRec
<1>4. ASSUME NEW c \in Slots, Ack(c) PROVE Drops
  BY <1>0, <1>4 DEF Ack, Drops, Live
<1>5. ASSUME NEW qs \in SUBSET Queues, Vanish(qs), UNCHANGED <<sent, lapsed>> PROVE Drops
  BY <1>0, <1>5, VanishEffect DEF Drops
<1>6. ASSUME NEW q \in Queues, DeleteQueue(q) PROVE Drops
  BY <1>5, <1>6 DEF DeleteQueue
<1>7. ASSUME Reset PROVE Drops
  BY <1>5, <1>7 DEF Reset
<1>8. UNCHANGED <<copy, dedup, sent, dropped, lapsed>> => Quiet
  BY <1>0 DEF Quiet
<1>9. ASSUME NEW q \in Queues, CreateQueue(q) PROVE UNCHANGED <<copy, dedup, sent, dropped, lapsed>>
  BY <1>9 DEF CreateQueue
<1>10. ASSUME NEW t \in Tasks, Loop(t) \/ SendFails(t) \/ Cancel(t) \/ CancelContext(t)
       PROVE  UNCHANGED <<copy, dedup, sent, dropped, lapsed>>
  BY <1>10 DEF Loop, SendFails, Cancel, CancelContext
<1>11. ASSUME NEW t \in Tasks, NEW mv \in Moves, Start(t, mv[1], mv[2])
       PROVE  UNCHANGED <<copy, dedup, sent, dropped, lapsed>>
  BY <1>11 DEF Start
<1>12. UNCHANGED vars => UNCHANGED <<copy, dedup, sent, dropped, lapsed>>
  BY DEF vars
<1> QED
  BY <1>0, <1>1, <1>2, <1>3, <1>4, <1>6, <1>7, <1>8, <1>9, <1>10, <1>11, <1>12 DEF Next
-----------------------------------------------------------------------------
(* The four calls of a task.                                               *)

\* ReceiveMessage: nothing, or a visible message of the source is leased.
TakesOne(t, c) ==
  /\ Relabels(c) /\ UNCHANGED lapsed
  /\ copy[c].st = "pending" /\ copy[c].q = task[t].src
  /\ copy'[c].st = "leased" /\ copy'[c].by = None
  /\ task'[t].src = task[t].src
  /\ \A d : ~Holds(t, d) /\ (Holds(t, d)' <=> d = c) /\ ~Deletes(t, d)' /\ ~Deletes(t, d)

\* What ReceiveMessage does.
LEMMA ReceiveEffect ==
  ASSUME Types, NEW t \in Tasks, Receive(t), \A u \in Tasks \ {t} : SameHand(u)
  PROVE  Quiet \/ \E c \in Slots : TakesOne(t, c)
<1>0. /\ copy \in [Slots -> CopyRec] /\ DOMAIN copy = Slots /\ task \in [Tasks -> TaskRec]
  BY DEF Types, TableTypes, TaskTypes
<1>1. task[t].pc = "receive" /\ UNCHANGED <<dedup, sent, dropped, lapsed>>
  BY DEF Receive
<1>2. CASE UNCHANGED copy /\ task'[t].pc = "done"
  <2>1. SameHand(t)
    BY <1>1, <1>2 DEF SameHand, Holds, Deletes
  <2> QED  BY <1>1, <1>2, <2>1 DEF Quiet
<1>3. ASSUME NEW c \in Slots, copy[c].q = task[t].src, copy[c].st = "pending",
             task' = [task EXCEPT ![t].pc = "send", ![t].m = c],
             copy' = [copy EXCEPT ![c].st = "leased", ![c].by = None]
      PROVE  TakesOne(t, c)
  <2>1. task'[t].pc = "send" /\ task'[t].m = c /\ task'[t].src = task[t].src
    BY <1>0, <1>3 DEF TaskRec
  <2>2. /\ copy'[c].st = "leased" /\ copy'[c].by = None /\ copy'[c].body = copy[c].body
        /\ copy'[c].q = copy[c].q /\ \A d \in Slots \ {c} : copy'[d] = copy[d]
    BY <1>0, <1>3 DEF CopyRec
  <2>3. \A d : ~Holds(t, d) /\ (Holds(t, d)' <=> d = c) /\ ~Deletes(t, d)' /\ ~Deletes(t, d)
    BY <1>1, <2>1 DEF Holds, Deletes
  <2> QED  BY <1>1, <1>3, <2>1, <2>2, <2>3 DEF TakesOne, Relabels, Live
<1>4. task' = [task EXCEPT ![t] = Failed] \/ task' = [task EXCEPT ![t] = Ended(task[t])]
        => task'[t].pc = "done"
  BY <1>0, EndRecs
<1> QED
  BY <1>0, <1>2, <1>3, <1>4 DEF Receive

\* SendMessage: the task goes on to delete the original.
SendsOne(t) ==
  /\ task[t].pc = "send" /\ task[t].m \in Slots /\ Held(task[t].m)
  /\ task[t].dst \in Queues /\ copy[task[t].m].body \in sent
  /\ Stores(task[t].dst, copy[task[t].m].body) /\ UNCHANGED sent
  /\ task'[t].src = task[t].src
  /\ \A d : (Holds(t, d)' <=> Holds(t, d)) /\ (Deletes(t, d)' <=> d = task[t].m)

\* What SendMessage does.
LEMMA SendEffect ==
  ASSUME Types, Known, NEW t \in Tasks, Send(t)
  PROVE  SendsOne(t)
<1>0. task \in [Tasks -> TaskRec] /\ exists \subseteq Queues
  BY DEF Types, TaskTypes, TableTypes
<1>1. task[t].pc = "send" /\ task[t].dst \in Queues
      /\ UNCHANGED <<sent, dropped, lapsed>>
  BY <1>0 DEF Send
<1>2. task[t].m \in Slots /\ Held(task[t].m)
  BY <1>1, HeldTyped DEF Held
<1>3. copy[task[t].m].body \in sent /\ copy[task[t].m].body \in Bodies
  BY <1>1, HeldBody
<1>4. Stores(task[t].dst, copy[task[t].m].body)
  BY <1>1, <1>3, SentEffect DEF Send, Stores
<1>5. task'[t].pc = "delete" /\ task'[t].m = task[t].m /\ task'[t].src = task[t].src
  BY <1>0 DEF Send, TaskRec
<1>6. \A d : (Holds(t, d)' <=> Holds(t, d)) /\ (Deletes(t, d)' <=> d = task[t].m)
  BY <1>1, <1>5 DEF Holds, Deletes
<1> QED
  BY <1>1, <1>2, <1>3, <1>4, <1>5, <1>6 DEF SendsOne

\* The task lets go of its message.
LetsGo(t) ==
  /\ task[t].m \in Slots
  /\ \A d : (Holds(t, d) <=> d = task[t].m) /\ ~Holds(t, d)' /\ ~Deletes(t, d)'
  /\ UNCHANGED <<sent, dropped, dedup, lapsed>>

\* What ChangeMessageVisibility does after a failed send.
LEMMA GiveBackEffect ==
  ASSUME Types, NEW t \in Tasks, GiveBack(t)
  PROVE  /\ LetsGo(t) /\ \A d : ~Deletes(t, d)
         /\ \/ UNCHANGED copy
            \/ Relabels(task[t].m)
<1>0. task \in [Tasks -> TaskRec] /\ copy \in [Slots -> CopyRec]
  BY DEF Types, TaskTypes, TableTypes
<1>1. /\ task[t].pc = "giveback" /\ task'[t].pc = "done"
      /\ UNCHANGED <<sent, dropped, dedup, lapsed>>
  BY <1>0, EndRecs DEF GiveBack
<1>2. task[t].m \in Slots
  BY <1>1, HeldTyped
<1>3. \A d : (Holds(t, d) <=> d = task[t].m) /\ ~Holds(t, d)' /\ ~Deletes(t, d)'
             /\ ~Deletes(t, d)
  BY <1>1 DEF Holds, Deletes
<1>4. ASSUME NEW c \in Slots, copy[c].st = "leased",
             copy' = [copy EXCEPT ![c].st = "pending", ![c].by = None]
      PROVE  Relabels(c)
  BY <1>0, <1>1, <1>4 DEF Relabels, Live, CopyRec
<1>5. UNCHANGED copy \/ Relabels(task[t].m)
  BY <1>2, <1>4 DEF GiveBack
<1> QED
  BY <1>1, <1>2, <1>3, <1>5 DEF LetsGo

\* What DeleteMessage of the original does.
LEMMA DeleteEffect ==
  ASSUME Types, NEW t \in Tasks, DeleteOriginal(t)
  PROVE  /\ LetsGo(t) /\ \A d : Deletes(t, d) <=> d = task[t].m
         /\ \/ copy[task[t].m].st # "leased" /\ UNCHANGED copy
            \/ Live(task[t].m) /\ copy' = [copy EXCEPT ![task[t].m] = Gone(task[t].m)]
<1>0. task \in [Tasks -> TaskRec]
  BY DEF Types, TaskTypes
<1>1. /\ task[t].pc = "delete" /\ task'[t].pc = "loop"
      /\ UNCHANGED <<sent, dropped, dedup, lapsed>>
  BY <1>0 DEF DeleteOriginal, TaskRec
<1>2. task[t].m \in Slots
  BY <1>1, HeldTyped
<1>3. \A d : (Holds(t, d) <=> d = task[t].m) /\ ~Holds(t, d)' /\ ~Deletes(t, d)'
             /\ (Deletes(t, d) <=> d = task[t].m)
  BY <1>1 DEF Holds, Deletes
<1>4. \/ copy[task[t].m].st # "leased" /\ UNCHANGED copy
      \/ Live(task[t].m) /\ copy' = [copy EXCEPT ![task[t].m] = Gone(task[t].m)]
  BY DEF DeleteOriginal, Live
<1> QED
  BY <1>1, <1>2, <1>3, <1>4 DEF LetsGo
-----------------------------------------------------------------------------
(* Where messages come from.                                               *)

\* Nothing is in the queues at first.
LEMMA InitKnown == Init => Known /\ HeldSource
  BY DEF Init, Known, HeldSource, Live, Held, Holds, NoCopy, NoTask, Slots

\* A new message has a known body and is in nobody's hands.
LEMMA StoresKnown ==
  ASSUME Types, Known, HeldSource, NEW q \in Queues, NEW b, b \in sent', Stores(q, b),
         \A u \in Tasks : \A c : Holds(u, c)' <=> Holds(u, c),
         \A u \in Tasks : \A c : Holds(u, c) => task'[u].src = task[u].src,
         sent \subseteq sent'
  PROVE  Known' /\ HeldSource'
<1>0. copy \in [Slots -> CopyRec] /\ dedup \in [Queues -> SUBSET Bodies]
  BY DEF Types, TableTypes
<1>1. \A c : Held(c)' <=> Held(c)
  BY DEF Held
<1>2. \A p \in Queues : dedup'[p] \subseteq dedup[p] \cup {b}
  BY <1>0 DEF Stores
<1>3. CASE UNCHANGED copy
  BY <1>1, <1>2, <1>3 DEF Known, HeldSource, Live
<1>4. ASSUME NEW c \in Slots, Free(c),
             copy' = [copy EXCEPT ![c] = [body |-> b, q |-> q, st |-> "pending", by |-> None]]
      PROVE  Known' /\ HeldSource'
  <2>1. copy'[c].body = b /\ \A d \in Slots \ {c} : copy'[d] = copy[d]
    BY <1>0, <1>4
  <2>2. Known'
    BY <1>1, <1>2, <2>1 DEF Known, Live
  <2>3. \A u \in Tasks : ~Holds(u, c)
    BY <1>4 DEF Free
  <2>4. HeldSource'
    BY <2>1, <2>3 DEF HeldSource, Live
  <2> QED  BY <2>2, <2>4
<1> QED
  BY <1>3, <1>4 DEF Stores

\* Bodies stay known, and messages in hand are where they were taken.
LEMMA KnownStep ==
  ASSUME Types, Known, HeldSource, [Next]_vars
  PROVE  Known' /\ HeldSource'
<1>0. copy \in [Slots -> CopyRec] /\ dedup \in [Queues -> SUBSET Bodies] /\ sent \subseteq Bodies
  BY DEF Types, TableTypes
<1>a. (\A u \in Tasks : SameHand(u)) =>
        /\ \A c : Held(c)' <=> Held(c)
        /\ \A u \in Tasks : \A c : Holds(u, c)' <=> Holds(u, c)
        /\ \A u \in Tasks : \A c : Holds(u, c) => task'[u].src = task[u].src
  BY DEF SameHand, Held
<1>1. CASE Quiet
  BY <1>1, <1>a DEF Quiet, Known, HeldSource, Live
<1>2. ASSUME \A u \in Tasks : SameHand(u), NEW q \in Queues, NEW b \in Bodies,
             sent' = sent \cup {b}, Stores(q, b)
      PROVE  Known' /\ HeldSource'
  BY <1>2, <1>a, StoresKnown
<1>3. ASSUME \A u \in Tasks : SameHand(u), NEW c \in Slots, Relabels(c)
      PROVE  Known' /\ HeldSource'
  BY <1>3, <1>a DEF Relabels, Known, HeldSource, Live
<1>4. CASE Drops
  <2>1. \A c \in Slots : copy'[c] = copy[c] \/ (copy'[c].st = "gone"
          /\ (Held(c) => copy'[c].body = copy[c].body))
    BY <1>4, GoneRec DEF Drops
  <2>2. sent' = sent /\ (\A q \in Queues : dedup'[q] \subseteq dedup[q])
        /\ \A u \in Tasks : SameHand(u)
    BY <1>4 DEF Drops
  <2>3. Known'
    BY <1>a, <2>1, <2>2 DEF Known, Live
  <2>4. HeldSource'
    BY <1>a, <2>1, <2>2 DEF HeldSource, Live
  <2> QED  BY <2>3, <2>4
<1>5. ASSUME NEW t \in Tasks, \A u \in Tasks \ {t} : SameHand(u), NEW c \in Slots, TakesOne(t, c)
      PROVE  Known' /\ HeldSource'
  <2>1. \A u \in Tasks \ {t} : \A d : /\ Holds(u, d)' <=> Holds(u, d)
                                      /\ Holds(u, d) => task'[u].src = task[u].src
    BY <1>5 DEF SameHand
  <2>2. \A d : Held(d)' => Held(d) \/ d = c
    BY <1>5, <2>1 DEF Held, TakesOne
  <2>3. Known'
    BY <1>5, <2>2 DEF Known, TakesOne, Relabels, Live
  <2>4. HeldSource'
    BY <1>5, <2>1 DEF HeldSource, TakesOne, Relabels, Live
  <2> QED  BY <2>3, <2>4
<1>6. ASSUME NEW t \in Tasks, \A u \in Tasks \ {t} : SameHand(u), Send(t)
      PROVE  Known' /\ HeldSource'
  <2>1. SendsOne(t)
    BY <1>6, SendEffect
  <2>2. \A u \in Tasks : \A d : /\ Holds(u, d)' <=> Holds(u, d)
                                /\ Holds(u, d) => task'[u].src = task[u].src
    BY <1>6, <2>1 DEF SameHand, SendsOne
  <2> QED  BY <2>1, <2>2, StoresKnown DEF SendsOne
<1>7. ASSUME NEW t \in Tasks, \A u \in Tasks \ {t} : SameHand(u), LetsGo(t),
             \/ UNCHANGED copy
             \/ Relabels(task[t].m)
             \/ copy' = [copy EXCEPT ![task[t].m] = Gone(task[t].m)]
      PROVE  Known' /\ HeldSource'
  <2>1. \A u \in Tasks : \A d : /\ Holds(u, d)' => Holds(u, d) /\ u # t
                                /\ Holds(u, d) /\ u # t => task'[u].src = task[u].src
    BY <1>7 DEF SameHand, LetsGo
  <2>2. \A d : Held(d)' => Held(d)
    BY <2>1 DEF Held
  <2>3. \A c \in Slots :
          \/ copy'[c].body = copy[c].body /\ copy'[c].q = copy[c].q /\ (Live(c)' <=> Live(c))
          \/ (copy'[c].st = "gone" /\ (Held(c) => copy'[c].body = copy[c].body))
    BY <1>0, <1>7, GoneRec DEF LetsGo, Relabels, Live
  <2>4. Known'
    BY <1>7, <2>2, <2>3 DEF Known, Live, LetsGo
  <2>5. HeldSource'
    BY <2>1, <2>3 DEF HeldSource, Live
  <2> QED  BY <2>4, <2>5
<1> QED
  BY <1>1, <1>2, <1>3, <1>4, <1>5, <1>6, <1>7, StepKinds, ReceiveEffect, GiveBackEffect,
     DeleteEffect
-----------------------------------------------------------------------------
(* Nothing is doubled.                                                     *)

\* Nothing is there at first.
LEMMA InitOnce == Init => HeldAlone /\ OneStays
  BY DEF Init, HeldAlone, OneStays, Stays, Live, Held, Holds, NoCopy, NoTask, Slots

\* Steps after which no message is in more hands than before and none stays
\* that did not.
LEMMA FewerOnce ==
  ASSUME HeldAlone, OneStays, lapsed \subseteq lapsed',
         \A u \in Tasks : \A c \in Slots : Holds(u, c)' => Holds(u, c),
         \A c \in Slots : Stays(c)' => Stays(c) /\ copy'[c].body = copy[c].body,
         \A c \in Slots : Held(c)' /\ copy'[c].body \notin lapsed' =>
           /\ copy'[c].body = copy[c].body
           /\ \/ ~Live(c)' \/ copy'[c] = copy[c]
              \/ copy'[c].st = "leased" /\ copy'[c].by # "consumer"
  PROVE  HeldAlone' /\ OneStays'
<1>1. OneStays'
  BY DEF OneStays
<1>2. HeldAlone'
  <2> SUFFICES ASSUME NEW t \in Tasks, NEW c \in Slots, Holds(t, c)', copy'[c].body \notin lapsed'
               PROVE  /\ ~Live(c)' \/ (copy'[c].st = "leased" /\ copy'[c].by # "consumer")
                      /\ \A u \in Tasks : Holds(u, c)' => u = t
    BY DEF HeldAlone
  <2>1. Held(c)' /\ copy'[c].body = copy[c].body /\ copy[c].body \notin lapsed
    BY DEF Held
  <2>2. Holds(t, c)
    OBVIOUS
  <2> QED  BY <2>1, <2>2 DEF HeldAlone, Live
<1> QED
  BY <1>1, <1>2

\* A new message stays; the body had none, or its message is now to be deleted.
LEMMA StoresOnce ==
  ASSUME Types, HeldAlone, OneStays, NEW q, NEW b, Stores(q, b),
         \A u \in Tasks : \A c : Holds(u, c)' <=> Holds(u, c),
         \A c \in Slots : Doomed(c) => Doomed(c)',
         \A c \in Slots : Stays(c) /\ copy[c].body = b => b \in lapsed \/ Doomed(c)'
  PROVE  HeldAlone' /\ OneStays'
<1>0. copy \in [Slots -> CopyRec] /\ lapsed' = lapsed
  BY DEF Types, TableTypes, Stores
<1>1. \A c : Held(c)' <=> Held(c)
  BY DEF Held
<1>2. CASE UNCHANGED copy
  <2>1. \A c \in Slots : Stays(c)' => Stays(c)
    BY <1>1, <1>2 DEF Stays, Live
  <2> QED  BY <1>0, <1>2, <2>1, FewerOnce
<1>3. ASSUME NEW c \in Slots, Free(c),
             copy' = [copy EXCEPT ![c] = [body |-> b, q |-> q, st |-> "pending", by |-> None]]
      PROVE  HeldAlone' /\ OneStays'
  <2>1. copy'[c].body = b /\ \A d \in Slots \ {c} : copy'[d] = copy[d]
    BY <1>0, <1>3
  <2>2. ~Held(c) /\ ~Held(c)'
    BY <1>1, <1>3 DEF Free, Held
  <2>3. \A d \in Slots \ {c} : Stays(d)' => Stays(d)
    BY <1>1, <2>1 DEF Stays, Live
  <2>4. HeldAlone'
    BY <1>0, <2>1, <2>2 DEF HeldAlone, Live, Held
  <2>5. OneStays'
    <3> SUFFICES ASSUME NEW d \in Slots, NEW e \in Slots, Stays(d)', Stays(e)',
                        copy'[d].body = copy'[e].body, copy'[d].body \notin lapsed'
                 PROVE  d = e
      BY DEF OneStays
    <3>1. CASE d # c /\ e # c
      BY <1>0, <2>1, <2>3, <3>1 DEF OneStays
    <3>2. ASSUME NEW f \in Slots \ {c}, Stays(f)', copy'[f].body = b, b \notin lapsed
          PROVE  FALSE
      BY <3>2, <2>1, <2>3 DEF Stays
    <3> QED  BY <1>0, <2>1, <3>1, <3>2
  <2> QED  BY <2>4, <2>5
<1> QED
  BY <1>2, <1>3 DEF Stores

\* A message is doubled only by a lease that ran out under a task.
LEMMA OnceStep ==
  ASSUME Types, Known, HeldAlone, OneStays, [Next]_vars
  PROVE  HeldAlone' /\ OneStays'
<1>0. copy \in [Slots -> CopyRec] /\ dedup \in [Queues -> SUBSET Bodies] /\ sent \subseteq Bodies
  BY DEF Types, TableTypes
<1>a. (\A u \in Tasks : SameHand(u)) =>
        /\ \A c : Held(c)' <=> Held(c)
        /\ \A c : Doomed(c)' <=> Doomed(c)
        /\ \A u \in Tasks : \A c : Holds(u, c)' <=> Holds(u, c)
  BY DEF SameHand, Held, Doomed
<1>1. CASE Quiet
  <2>1. \A c : Stays(c)' <=> Stays(c)
    BY <1>1, <1>a DEF Quiet, Stays, Live
  <2> QED  BY <1>1, <1>a, <2>1, FewerOnce DEF Quiet
<1>2. ASSUME \A u \in Tasks : SameHand(u), NEW q \in Queues, NEW b \in Bodies, b \notin sent,
             sent' = sent \cup {b}, Stores(q, b)
      PROVE  HeldAlone' /\ OneStays'
  <2>1. \A c \in Slots : Stays(c) => copy[c].body # b
    BY <1>2 DEF Known, Stays
  <2> QED  BY <1>2, <1>a, <2>1, StoresOnce
<1>3. ASSUME \A u \in Tasks : SameHand(u), NEW c \in Slots, Relabels(c), Consume(c) \/ LeaseEnds(c)
      PROVE  HeldAlone' /\ OneStays'
  <2>1. \A d : Stays(d)' /\ d \in Slots => Stays(d) /\ copy'[d].body = copy[d].body
    BY <1>3, <1>a DEF Relabels, Stays, Live
  <2>2. lapsed \subseteq lapsed' /\ (Held(c) => copy[c].body \in lapsed')
    <3>1. CASE Consume(c)
      BY <3>1 DEF Consume, HeldAlone, Held, Live
    <3>2. CASE LeaseEnds(c)
      BY <3>2 DEF LeaseEnds, Held
    <3> QED  BY <1>3, <3>1, <3>2
  <2>3. \A d \in Slots \ {c} : copy'[d] = copy[d]
    BY <1>3 DEF Relabels
  <2>4. copy'[c].body = copy[c].body
    BY <1>3 DEF Relabels
  <2> QED  BY <1>3, <1>a, <2>1, <2>2, <2>3, <2>4, FewerOnce
<1>4. CASE Drops
  <2>1. \A c \in Slots : copy'[c] = copy[c] \/ (copy'[c].st = "gone" /\ Live(c)
          /\ (Held(c) => copy'[c].body = copy[c].body))
    BY <1>4, GoneRec DEF Drops
  <2>2. lapsed' = lapsed /\ \A u \in Tasks : SameHand(u)
    BY <1>4 DEF Drops
  <2>3. \A c \in Slots : Stays(c)' => Stays(c) /\ copy'[c].body = copy[c].body
    BY <1>a, <2>1, <2>2 DEF Stays, Live
  <2>4. \A c \in Slots : Held(c)' => /\ copy'[c].body = copy[c].body
                                     /\ ~Live(c)' \/ copy'[c] = copy[c]
    BY <1>a, <2>1, <2>2 DEF Live
  <2> QED  BY <1>a, <2>2, <2>3, <2>4, FewerOnce
<1>5. ASSUME NEW t \in Tasks, \A u \in Tasks \ {t} : SameHand(u), NEW c \in Slots, TakesOne(t, c)
      PROVE  HeldAlone' /\ OneStays'
  <2>1. \A u \in Tasks \ {t} : \A d : /\ Holds(u, d)' <=> Holds(u, d)
                                      /\ Deletes(u, d)' <=> Deletes(u, d)
    BY <1>5 DEF SameHand
  <2>2. \A d : /\ ~Holds(t, d) /\ (Holds(t, d)' <=> d = c) /\ ~Deletes(t, d)' /\ ~Deletes(t, d)
    BY <1>5 DEF TakesOne
  <2>3. \A d : (Doomed(d)' <=> Doomed(d)) /\ (Held(d)' => Held(d) \/ d = c)
    BY <2>1, <2>2 DEF Doomed, Held
  <2>4. /\ Live(c) /\ Live(c)' /\ copy'[c].body = copy[c].body /\ lapsed' = lapsed
        /\ copy[c].st = "pending" /\ copy'[c].st = "leased" /\ copy'[c].by = None
        /\ \A d \in Slots \ {c} : copy'[d] = copy[d]
    BY <1>5 DEF TakesOne, Relabels, Live
  <2>5. \A d \in Slots : Stays(d)' => Stays(d)
    BY <2>3, <2>4 DEF Stays, Live
  <2>6. OneStays'
    BY <2>4, <2>5 DEF OneStays
  <2>7. copy[c].body \notin lapsed => \A u \in Tasks : ~Holds(u, c)
    BY <2>4 DEF HeldAlone, Live
  <2>8. None # "consumer"
    BY MoveAssumption
  <2>9. HeldAlone'
    <3> SUFFICES ASSUME NEW u \in Tasks, NEW d \in Slots, Holds(u, d)',
                        copy'[d].body \notin lapsed'
                 PROVE  /\ ~Live(d)' \/ (copy'[d].st = "leased" /\ copy'[d].by # "consumer")
                        /\ \A v \in Tasks : Holds(v, d)' => v = u
      BY DEF HeldAlone
    <3>1. CASE d = c
      BY <2>1, <2>2, <2>4, <2>7, <2>8, <3>1
    <3>2. CASE d # c
      BY <2>1, <2>2, <2>4, <3>2 DEF HeldAlone, Live
    <3> QED  BY <3>1, <3>2
  <2> QED  BY <2>6, <2>9
<1>6. ASSUME NEW t \in Tasks, \A u \in Tasks \ {t} : SameHand(u), Send(t)
      PROVE  HeldAlone' /\ OneStays'
  <2>1. SendsOne(t)
    BY <1>6, SendEffect
  <2>2. \A u \in Tasks : \A d : Holds(u, d)' <=> Holds(u, d)
    BY <1>6, <2>1 DEF SameHand, SendsOne
  <2>3. \A u \in Tasks \ {t} : \A d : Deletes(u, d)' <=> Deletes(u, d)
    BY <1>6 DEF SameHand
  <2>4. \A d : (Deletes(t, d)' <=> d = task[t].m) /\ ~Deletes(t, d)
    BY <2>1 DEF SendsOne, Deletes
  <2>5. \A d : Doomed(d)' <=> Doomed(d) \/ d = task[t].m
    BY <2>3, <2>4 DEF Doomed
  <2>6. Held(task[t].m) /\ task[t].m \in Slots
    BY <2>1 DEF SendsOne
  <2>7. \A d \in Slots : Stays(d) /\ copy[d].body = copy[task[t].m].body =>
                           copy[d].body \in lapsed \/ Doomed(d)'
    <3>1. CASE Doomed(task[t].m)
      <4>1. PICK u \in Tasks : Deletes(u, task[t].m)
        BY <3>1 DEF Doomed
      <4>2. u # t /\ Holds(u, task[t].m) /\ Holds(t, task[t].m)
        BY <4>1, <2>1, <2>4 DEF SendsOne, Deletes, Holds
      <4> QED  BY <4>2, <2>6 DEF HeldAlone
    <3>2. CASE ~Doomed(task[t].m)
      BY <2>5, <2>6, <3>2 DEF OneStays, Stays
    <3> QED  BY <3>1, <3>2
  <2>8. \A d \in Slots : Doomed(d) => Doomed(d)'
    BY <2>5
  <2> QED  BY <2>1, <2>2, <2>7, <2>8, StoresOnce DEF SendsOne
<1>7. ASSUME NEW t \in Tasks, \A u \in Tasks \ {t} : SameHand(u), GiveBack(t)
      PROVE  HeldAlone' /\ OneStays'
  <2>1. LetsGo(t) /\ (\A d : ~Deletes(t, d)) /\ (UNCHANGED copy \/ Relabels(task[t].m))
    BY <1>7, GiveBackEffect
  <2>2. \A u \in Tasks : \A d : /\ Holds(u, d)' => Holds(u, d) /\ u # t
                                /\ Deletes(u, d)' <=> Deletes(u, d)
    BY <1>7, <2>1 DEF SameHand, LetsGo
  <2>3. \A d : (Held(d)' => Held(d)) /\ (Doomed(d)' <=> Doomed(d))
    BY <2>2 DEF Held, Doomed
  <2>4. \A c \in Slots : copy'[c].body = copy[c].body /\ (Live(c)' <=> Live(c))
                         /\ (c # task[t].m => copy'[c] = copy[c])
    <3>1. CASE UNCHANGED copy
      BY <3>1 DEF Live
    <3>2. PICK m \in Slots : m = task[t].m
      BY <2>1 DEF LetsGo
    <3>3. CASE Relabels(task[t].m)
      <4>1. /\ \A c \in Slots \ {m} : copy'[c] = copy[c]
            /\ copy'[m].body = copy[m].body /\ Live(m) /\ copy'[m].st # "gone"
        BY <3>2, <3>3 DEF Relabels, Live
      <4> QED  BY <3>2, <4>1 DEF Live
    <3> QED  BY <2>1, <3>1, <3>3
  <2>5. \A c \in Slots : Stays(c)' => Stays(c)
    BY <2>3, <2>4 DEF Stays
  <2>6. lapsed' = lapsed /\ Holds(t, task[t].m) /\ task[t].m \in Slots
    BY <2>1 DEF LetsGo
  <2>7. \A c \in Slots : Held(c)' /\ copy'[c].body \notin lapsed' => copy'[c] = copy[c]
    BY <2>2, <2>4, <2>6 DEF Held, HeldAlone
  <2> QED  BY <2>2, <2>4, <2>5, <2>6, <2>7, FewerOnce
<1>8. ASSUME NEW t \in Tasks, \A u \in Tasks \ {t} : SameHand(u), DeleteOriginal(t)
      PROVE  HeldAlone' /\ OneStays'
  <2>a. PICK m \in Slots : m = task[t].m
    BY <1>8, DeleteEffect DEF LetsGo
  <2>1. /\ LetsGo(t) /\ \A d : Deletes(t, d) <=> d = m
        /\ \/ copy[m].st # "leased" /\ UNCHANGED copy
           \/ Live(m) /\ copy' = [copy EXCEPT ![m] = Gone(m)]
    BY <1>8, <2>a, DeleteEffect
  <2>2. m \in Slots /\ lapsed' = lapsed /\ Holds(t, m)
    BY <2>1, <2>a DEF LetsGo
  <2>3. \A u \in Tasks : \A d : /\ Holds(u, d)' => Holds(u, d) /\ u # t
                                /\ Deletes(u, d)' <=> Deletes(u, d) /\ u # t
    BY <1>8, <2>1 DEF SameHand, LetsGo
  <2>4. \A d : (Held(d)' => Held(d)) /\ (d # m => (Doomed(d)' <=> Doomed(d)))
    BY <2>1, <2>3 DEF Held, Doomed
  <2>5. \A d \in Slots \ {m} : copy'[d] = copy[d]
    BY <1>0, <2>1
  <2>6. \A d \in Slots \ {m} : Stays(d)' => Stays(d)
    BY <2>4, <2>5 DEF Stays, Live
  <2>7. copy'[m].body = copy[m].body
    <3>1. Held(m)
      BY <2>2 DEF Held
    <3>2. CASE UNCHANGED copy
      BY <3>2
    <3>3. CASE copy' = [copy EXCEPT ![m] = Gone(m)]
      BY <1>0, <2>2, <3>1, <3>3, GoneRec
    <3> QED  BY <2>1, <3>2, <3>3
  <2>8. copy[m].body \notin lapsed => ~Held(m)' /\ ~Live(m)'
    <3> SUFFICES ASSUME copy[m].body \notin lapsed PROVE ~Held(m)' /\ ~Live(m)'
      OBVIOUS
    <3>1. (~Live(m) \/ copy[m].st = "leased") /\ \A u \in Tasks : Holds(u, m) => u = t
      BY <2>2 DEF HeldAlone
    <3>2. ~Held(m)'
      BY <3>1, <2>3 DEF Held
    <3>3. CASE copy[m].st # "leased" /\ UNCHANGED copy
      BY <3>1, <3>2, <3>3 DEF Live
    <3>4. CASE copy' = [copy EXCEPT ![m] = Gone(m)]
      BY <1>0, <2>2, <3>2, <3>4, GoneRec DEF Live
    <3> QED  BY <2>1, <3>2, <3>3, <3>4
  <2>9. OneStays'
    BY <2>2, <2>5, <2>6, <2>7, <2>8 DEF OneStays, Stays
  <2>10. HeldAlone'
    BY <2>2, <2>3, <2>5, <2>7, <2>8 DEF HeldAlone, Held, Live
  <2> QED  BY <2>9, <2>10
<1> QED
  BY <1>1, <1>2, <1>3, <1>4, <1>5, <1>6, <1>7, <1>8, StepKinds, ReceiveEffect
-----------------------------------------------------------------------------
(* Nothing is lost.                                                        *)

\* Nothing is sent at first.
LEMMA InitLoss == Init => Remembered /\ Kept
  BY DEF Init, Remembered, Kept

\* A message in a FIFO queue is in no task's hands.
LEMMA FifoFree ==
  ASSUME NoFifoSource, Sources, HeldSource, NEW c \in Slots, Live(c), copy[c].q \in Fifo
  PROVE  ~Held(c) /\ ~Doomed(c)
<1>1. ASSUME NEW t \in Tasks, Holds(t, c) PROVE FALSE
  <2>1. copy[c].q = task[t].src
    BY <1>1 DEF HeldSource
  <2>2. \E mv \in Moves : task[t].src = mv[1]
    BY <1>1 DEF Sources, Holds
  <2> QED  BY <2>1, <2>2 DEF NoFifoSource
<1> QED
  BY <1>1 DEF Held, Doomed, Deletes, Holds

\* Steps after which every message of a body that is not dropped is still there,
\* and no task is newly to delete one.
LEMMA SteadyLoss ==
  ASSUME Remembered, Kept, sent' = sent, dropped \subseteq dropped',
         \A q \in Queues : dedup'[q] \subseteq dedup[q],
         \A c \in Slots : Doomed(c)' => Doomed(c),
         \A c \in Slots : Live(c) =>
           \/ copy[c].body \in dropped'
           \/ Live(c)' /\ copy'[c].body = copy[c].body /\ copy'[c].q = copy[c].q
  PROVE  Remembered' /\ Kept'
<1>1. Remembered'
  BY DEF Remembered
<1>2. Kept'
  BY DEF Kept
<1> QED  BY <1>1, <1>2

\* SendMessage leaves a message of the body that no task is to delete, the new
\* one or the one remembered.
LEMMA StoresLoss ==
  ASSUME Types, NoFifoSource, Sources, HeldSource, Remembered, Kept,
         NEW q \in Queues, NEW b, Stores(q, b), sent' \subseteq sent \cup {b},
         b \notin sent => b \notin dedup[q],
         \A c : Held(c)' <=> Held(c),
         \A c \in Slots : Doomed(c)' => Doomed(c) \/ (copy[c].body = b /\ Held(c))
  PROVE  Remembered' /\ Kept'
<1>0. /\ copy \in [Slots -> CopyRec] /\ dedup \in [Queues -> SUBSET Bodies]
      /\ dropped' = dropped /\ Fifo \subseteq Queues
  BY MoveAssumption DEF Types, TableTypes, Stores
<1>1. CASE q \in Fifo /\ b \in dedup[q] /\ UNCHANGED <<copy, dedup>>
  <2>1. Remembered'
    BY <1>0, <1>1 DEF Remembered, Live
  <2>2. b \in sent
    BY <1>1
  <2>3. ASSUME b \notin dropped
        PROVE  \E c \in Slots : Live(c)' /\ copy'[c].body = b /\ ~Doomed(c)'
    <3>1. PICK c \in Slots : Live(c) /\ copy[c].body = b /\ copy[c].q = q
      BY <1>1, <2>3 DEF Remembered
    <3>2. ~Held(c) /\ ~Doomed(c)
      BY <1>1, <3>1, FifoFree
    <3> QED  BY <1>1, <3>1, <3>2 DEF Live
  <2>4. ASSUME NEW a \in sent \ dropped, a # b
        PROVE  \E c \in Slots : Live(c)' /\ copy'[c].body = a /\ ~Doomed(c)'
    <3>1. PICK c \in Slots : Live(c) /\ copy[c].body = a /\ ~Doomed(c)
      BY <2>4 DEF Kept
    <3> QED  BY <1>1, <2>4, <3>1 DEF Live
  <2>5. Kept'
    BY <1>0, <2>2, <2>3, <2>4 DEF Kept
  <2> QED  BY <2>1, <2>5
<1>2. ASSUME dedup' = IF q \in Fifo THEN [dedup EXCEPT ![q] = @ \cup {b}] ELSE dedup,
             NEW c \in Slots, Free(c),
             copy' = [copy EXCEPT ![c] = [body |-> b, q |-> q, st |-> "pending", by |-> None]]
      PROVE  Remembered' /\ Kept'
  <2>1. /\ copy'[c].body = b /\ copy'[c].q = q /\ copy'[c].st = "pending"
        /\ \A d \in Slots \ {c} : copy'[d] = copy[d]
    BY <1>0, <1>2
  <2>2. ~Live(c) /\ ~Held(c) /\ ~Doomed(c) /\ Live(c)'
    BY <1>2, <2>1 DEF Free, Live, Held, Doomed, Deletes, Holds
  <2>3. ~Doomed(c)'
    BY <2>2
  <2>4. \A d \in Slots : Live(d) => Live(d)' /\ copy'[d] = copy[d]
    BY <2>1, <2>2 DEF Live
  <2>5. Remembered'
    <3> SUFFICES ASSUME NEW p \in Queues, NEW a \in dedup'[p] \ dropped'
                 PROVE  p \in Fifo /\ \E d \in Slots : Live(d)' /\ copy'[d].body = a
                                                         /\ copy'[d].q = p
      BY DEF Remembered
    <3>1. CASE a \in dedup[p]
      BY <1>0, <2>4, <3>1 DEF Remembered
    <3>2. CASE a \notin dedup[p]
      <4>1. p = q /\ a = b /\ q \in Fifo
        BY <1>0, <1>2, <3>2
      <4> QED  BY <4>1, <2>1, <2>2
    <3> QED  BY <3>1, <3>2
  <2>6. Kept'
    <3> SUFFICES ASSUME NEW a \in sent' \ dropped'
                 PROVE  \E d \in Slots : Live(d)' /\ copy'[d].body = a /\ ~Doomed(d)'
      BY DEF Kept
    <3>1. CASE a = b
      BY <2>1, <2>2, <2>3, <3>1
    <3>2. CASE a # b
      <4>1. PICK d \in Slots : Live(d) /\ copy[d].body = a /\ ~Doomed(d)
        BY <1>0, <3>2 DEF Kept
      <4> QED  BY <3>2, <4>1, <2>4
    <3> QED  BY <3>1, <3>2
  <2> QED  BY <2>5, <2>6
<1> QED
  BY <1>1, <1>2 DEF Stores

\* No step loses the last message of a body.
LEMMA LossStep ==
  ASSUME Types, NoFifoSource, Known, HeldSource, Sources, Remembered, Kept, [Next]_vars
  PROVE  Remembered' /\ Kept'
<1>0. copy \in [Slots -> CopyRec] /\ dedup \in [Queues -> SUBSET Bodies] /\ sent \subseteq Bodies
  BY DEF Types, TableTypes
<1>a. (\A u \in Tasks : SameHand(u)) =>
        /\ \A c : Held(c)' <=> Held(c)
        /\ \A c : Doomed(c)' <=> Doomed(c)
  BY DEF SameHand, Held, Doomed
<1>1. CASE Quiet
  BY <1>1, <1>a, SteadyLoss DEF Quiet, Live
<1>2. ASSUME \A u \in Tasks : SameHand(u), NEW q \in Queues, NEW b \in Bodies, b \notin sent,
             sent' = sent \cup {b}, Stores(q, b)
      PROVE  Remembered' /\ Kept'
  <2>1. b \notin dedup[q]
    BY <1>2 DEF Known
  <2> QED  BY <1>2, <1>a, <2>1, StoresLoss
<1>b. ASSUME NEW c \in Slots, Relabels(c)
      PROVE  \A d \in Slots : Live(d) =>
               Live(d)' /\ copy'[d].body = copy[d].body /\ copy'[d].q = copy[d].q
  BY <1>b DEF Relabels, Live
<1>3. ASSUME \A u \in Tasks : SameHand(u), NEW c \in Slots, Relabels(c)
      PROVE  Remembered' /\ Kept'
  <2>1. UNCHANGED <<sent, dropped, dedup>>
    BY <1>3 DEF Relabels
  <2> QED  BY <1>3, <1>a, <1>b, <2>1, SteadyLoss
<1>4. CASE Drops
  <2>1. \A c \in Slots : copy'[c] = copy[c] \/ copy[c].body \in dropped'
    BY <1>4 DEF Drops
  <2>2. /\ sent' = sent /\ dropped \subseteq dropped'
        /\ \A q \in Queues : dedup'[q] \subseteq dedup[q]
        /\ \A u \in Tasks : SameHand(u)
    BY <1>4 DEF Drops
  <2>3. \A c \in Slots : Live(c) =>
           \/ copy[c].body \in dropped'
           \/ Live(c)' /\ copy'[c].body = copy[c].body /\ copy'[c].q = copy[c].q
    BY <2>1 DEF Live
  <2> QED  BY <1>a, <2>2, <2>3, SteadyLoss
<1>5. ASSUME NEW t \in Tasks, \A u \in Tasks \ {t} : SameHand(u), NEW c \in Slots, TakesOne(t, c)
      PROVE  Remembered' /\ Kept'
  <2>1. \A d : Doomed(d)' => Doomed(d)
    BY <1>5 DEF Doomed, SameHand, TakesOne
  <2>2. Relabels(c) /\ UNCHANGED <<sent, dropped, dedup>>
    BY <1>5 DEF TakesOne, Relabels
  <2> QED  BY <1>b, <2>1, <2>2, SteadyLoss
<1>6. ASSUME NEW t \in Tasks, \A u \in Tasks \ {t} : SameHand(u), Send(t)
      PROVE  Remembered' /\ Kept'
  <2>1. SendsOne(t)
    BY <1>6, SendEffect
  <2>2. \A c : Held(c)' <=> Held(c)
    BY <1>6, <2>1 DEF SameHand, SendsOne, Held
  <2>3. \A c : Doomed(c)' => Doomed(c) \/ c = task[t].m
    BY <1>6, <2>1 DEF SameHand, SendsOne, Doomed
  <2>4. /\ task[t].dst \in Queues /\ copy[task[t].m].body \in sent /\ sent' = sent
        /\ Held(task[t].m) /\ Stores(task[t].dst, copy[task[t].m].body)
    BY <2>1 DEF SendsOne
  <2>5. PICK q \in Queues : q = task[t].dst
    BY <2>4
  <2>6. PICK b : b = copy[task[t].m].body
    OBVIOUS
  <2>7. Stores(q, b) /\ b \in sent
    BY <2>4, <2>5, <2>6
  <2>8. \A c \in Slots : Doomed(c)' => Doomed(c) \/ (copy[c].body = b /\ Held(c))
    BY <2>3, <2>4, <2>6
  <2> QED  BY <2>2, <2>4, <2>7, <2>8, StoresLoss
<1>7. ASSUME NEW t \in Tasks, \A u \in Tasks \ {t} : SameHand(u), GiveBack(t)
      PROVE  Remembered' /\ Kept'
  <2>1. PICK m \in Slots : m = task[t].m
    BY <1>7, GiveBackEffect DEF LetsGo
  <2>2. LetsGo(t) /\ (UNCHANGED copy \/ Relabels(m))
    BY <1>7, <2>1, GiveBackEffect
  <2>3. \A d : Doomed(d)' => Doomed(d)
    BY <1>7, <2>2 DEF SameHand, LetsGo, Doomed
  <2>4. \A d \in Slots : Live(d) =>
               Live(d)' /\ copy'[d].body = copy[d].body /\ copy'[d].q = copy[d].q
    BY <2>2, <1>b DEF Live
  <2>5. UNCHANGED <<sent, dropped, dedup>>
    BY <2>2 DEF LetsGo
  <2> QED  BY <2>3, <2>4, <2>5, SteadyLoss
<1>8. ASSUME NEW t \in Tasks, \A u \in Tasks \ {t} : SameHand(u), DeleteOriginal(t)
      PROVE  Remembered' /\ Kept'
  <2>1. PICK m \in Slots : m = task[t].m
    BY <1>8, DeleteEffect DEF LetsGo
  <2>2. /\ LetsGo(t) /\ \A d : Deletes(t, d) <=> d = m
        /\ UNCHANGED copy \/ (Live(m) /\ copy' = [copy EXCEPT ![m] = Gone(m)])
    BY <1>8, <2>1, DeleteEffect
  <2>3. Doomed(m) /\ Held(m)
    BY <2>1, <2>2 DEF Doomed, Held, LetsGo
  <2>4. \A d : Doomed(d)' => Doomed(d)
    BY <1>8, <2>2 DEF SameHand, LetsGo, Doomed
  <2>5. UNCHANGED <<sent, dropped, dedup>>
    BY <2>2 DEF LetsGo
  <2>6. \A d \in Slots \ {m} : copy'[d] = copy[d]
    BY <1>0, <2>2
  <2>7. Kept'
    BY <2>3, <2>4, <2>5, <2>6 DEF Kept, Live
  <2>8. CASE UNCHANGED copy
    BY <2>4, <2>5, <2>8, SteadyLoss DEF Live
  <2>9. CASE Live(m)
    <3>1. copy[m].q \notin Fifo
      BY <2>3, <2>9, FifoFree
    <3>2. Remembered'
      BY <2>5, <2>6, <3>1 DEF Remembered, Live
    <3> QED  BY <2>7, <3>2
  <2> QED  BY <2>2, <2>8, <2>9
<1> QED
  BY <1>1, <1>2, <1>3, <1>4, <1>5, <1>6, <1>7, <1>8, StepKinds, ReceiveEffect
-----------------------------------------------------------------------------
(* The theorems.                                                           *)

\* The first state and every step keep what all the results rest on.
LEMMA MoveInvariant == Spec => []MoveInv
<1>1. Init => MoveInv
  BY InitTypes, InitMovers, InitKnown DEF MoveInv
<1>2. MoveInv /\ [Next]_vars => MoveInv'
  BY TableTypesStep, TaskTypesStep, MoversStep, KnownStep DEF MoveInv, Types
<1> QED
  BY <1>1, <1>2, PTL DEF Spec

\* However tasks are started, cancelled, ended by DeleteQueue or forgotten by
\* Reset (message_move_tasks.go), no two that may still take a message have the
\* same source: hasActiveMoveTaskForSourceLocked sees each of them.
THEOREM MoversApart == Spec => []OneMover
  BY MoveInvariant, PTL DEF MoveInv

\* The deletions under way, and what they are about to delete.
LEMMA CountCopies ==
  ASSUME OnceInv PROVE MovedOnce
<1> SUFFICES ASSUME NEW b \in Bodies \ lapsed
             PROVE  Cardinality(Copies(b)) <=
                      1 + Cardinality({t \in Tasks : task[t].pc = "delete"
                                                     /\ copy[task[t].m].body = b})
  BY DEF MovedOnce
<1> DEFINE T == {t \in Tasks : task[t].pc = "delete" /\ copy[task[t].m].body = b}
           M == {task[t].m : t \in T}
           S == {c \in Copies(b) : ~Doomed(c)}
<1>1. DOMAIN copy = Slots
  BY DEF OnceInv, MoveInv, Types, TableTypes
<1>2. IsFiniteSet(T) /\ Cardinality(T) \in Nat
  BY MoveAssumption, FS_Subset, FS_CardinalityType
<1>3. IsFiniteSet(M) /\ Cardinality(M) <= Cardinality(T) /\ Cardinality(M) \in Nat
  <2> DEFINE f == [t \in T |-> task[t].m]
  <2>1. f \in Surjection(T, M)
    BY DEF Surjection
  <2> HIDE DEF f, T, M
  <2>2. IsFiniteSet(M) /\ Cardinality(M) <= Cardinality(T)
    BY <1>2, <2>1, FS_Surjection
  <2> QED  BY <2>2, FS_CardinalityType
<1>4. \A c, d \in S : c = d
  BY <1>1 DEF OnceInv, OneStays, Stays, Copies, Live
<1>5. IsFiniteSet(S) /\ Cardinality(S) \in 0 .. 1
  <2>1. CASE S = {}
    BY <2>1, FS_EmptySet
  <2>2. ASSUME NEW c, c \in S PROVE IsFiniteSet(S) /\ Cardinality(S) \in 0 .. 1
    <3>1. S = {c}
      BY <1>4, <2>2
    <3> QED  BY <3>1, FS_Singleton
  <2> QED  BY <2>1, <2>2
<1>6. Copies(b) \subseteq S \cup M
  BY DEF Copies, Doomed, Deletes
<1> HIDE DEF S, M, T
<1>7. IsFiniteSet(S \cup M) /\ Cardinality(S \cup M) <= Cardinality(S) + Cardinality(M)
  <2>1. /\ IsFiniteSet(S \cup M)
        /\ Cardinality(S \cup M) = Cardinality(S) + Cardinality(M) - Cardinality(S \cap M)
    BY <1>3, <1>5, FS_Union
  <2>2. Cardinality(S \cap M) \in Nat
    BY <1>5, FS_Intersection, FS_CardinalityType
  <2> QED  BY <2>1, <2>2, <1>3, <1>5
<1>8. Cardinality(Copies(b)) <= Cardinality(S \cup M) /\ Cardinality(Copies(b)) \in Nat
      /\ Cardinality(S \cup M) \in Nat
  BY <1>6, <1>7, FS_Subset, FS_CardinalityType
<1>9. Cardinality(Copies(b)) <= 1 + Cardinality(T)
  BY <1>2, <1>3, <1>5, <1>7, <1>8
<1> QED
  BY <1>9 DEF T

\* A move doubles nothing on its own (the receive, send and delete of
\* runMoveTask): until a lease runs out under a task, the messages of a body
\* are one, and those that a task has sent on and is about to delete.
THEOREM MovesOnce == Spec => []MovedOnce
<1>1. Init => OnceInv
  BY InitTypes, InitMovers, InitKnown, InitOnce DEF OnceInv, MoveInv
<1>2. OnceInv /\ [Next]_vars => OnceInv'
  BY TableTypesStep, TaskTypesStep, MoversStep, KnownStep, OnceStep DEF OnceInv, MoveInv, Types
<1>3. OnceInv => MovedOnce
  BY CountCopies
<1> QED
  BY <1>1, <1>2, <1>3, PTL DEF Spec

\* A move loses nothing, whenever its task is cancelled, its send fails, its
\* lease runs out or a queue goes (runMoveTask), when the sources of the moves
\* are standard queues.  (Out of a FIFO queue a message may come back to where
\* its deduplication id is still remembered; the queue accepts it without
\* storing it, and the task deletes the original.)
THEOREM MovesKeep == ASSUME NoFifoSource PROVE Spec => []NotLost
<1>1. Init => LossInv
  BY InitTypes, InitMovers, InitKnown, InitLoss DEF LossInv, MoveInv
<1>2. LossInv /\ [Next]_vars => LossInv'
  BY TableTypesStep, TaskTypesStep, MoversStep, KnownStep, LossStep
     DEF LossInv, MoveInv, Types
<1>3. LossInv => NotLost
  BY DEF LossInv, MoveInv, Types, TableTypes, Kept, NotLost, Copies, Live
<1> QED
  BY <1>1, <1>2, <1>3, PTL DEF Spec
=============================================================================
