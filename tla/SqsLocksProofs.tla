--------------------------- MODULE SqsLocksProofs ---------------------------
(***************************************************************************)
(* Proofs about SqsLocks: any number of goroutines on any number of queues *)
(* never block each other for good, as long as they run operations that    *)
(* take b.mu before q.mu and the dead-letter relation has no cycle.        *)
(***************************************************************************)
EXTENDS SqsLocks, WellFoundedInduction, TLAPS

\* The operations that let b.mu go, or have it, before they take q.mu.
\* SendMessage and DeleteMessage are not among them: run sqs_locks_send.
OrderedNames == {"receive", "visibility", "get", "set", "table", "prune"}
OrderedCalls == \A t \in Threads : Calls[t] \subseteq OrderedNames

\* No queue reaches itself along dead-letter queues: each has a height above
\* the end of its chain.
Acyclic ==
  \E height \in [Queues -> Nat] :
    \A q \in Queues : Dlq[q] # NoQueue => height[Dlq[q]] < height[q]

\* Instruction k of operation c, and the locks that are held when it comes.
In(c, k) == k \in 1 .. Len(Program(c))
Op(c, k) == Program(c)[k][1]
On(c, k) == Program(c)[k][2]

Reads(c, k) ==
  /\ In(c, k)
  /\ Op(c, k) = "runlock" \/ (c[1] = "get" /\ Op(c, k) \in {"lock", "unlock"})

Writes(c, k) ==
  /\ In(c, k)
  /\ \/ Op(c, k) \in {"enter", "wunlock"}
     \/ c[1] = "set" /\ Op(c, k) \in {"lock", "unlock"}

Owns(c, k, q) ==
  /\ In(c, k)
  /\ \/ Op(c, k) = "unlock" /\ On(c, k) = q
     \/ Op(c, k) \in {"lock", "unlock"} /\ q = c[2] /\ On(c, k) # q

\* What a step of an operation does to the locks it holds, and what it may
\* wait for while it holds them.
Disciplined(c, k) ==
  /\ Op(c, k) \in {"rlock", "runlock", "announce", "enter", "wunlock", "lock", "unlock"}
  /\ Op(c, k) \in {"lock", "unlock"} => On(c, k) \in Queues
  /\ Op(c, k) = "rlock" => Reads(c, k + 1)
  /\ Reads(c, k) => Op(c, k) \in {"runlock", "lock", "unlock"}
  /\ Reads(c, k) /\ Op(c, k) # "runlock" => Reads(c, k + 1)
  /\ Op(c, k) = "announce" => Writes(c, k + 1)
  /\ Writes(c, k) => Op(c, k) \in {"enter", "wunlock", "lock", "unlock"}
  /\ Writes(c, k) /\ Op(c, k) # "wunlock" => Writes(c, k + 1)
  /\ Op(c, k) = "lock" => Owns(c, k + 1, On(c, k))
  /\ \A q \in Queues :
       Owns(c, k, q) =>
         /\ Op(c, k) = "unlock" \/ (Op(c, k) = "lock" /\ Dlq[q] # NoQueue /\ On(c, k) = Dlq[q])
         /\ ~(Op(c, k) = "unlock" /\ On(c, k) = q) => Owns(c, k + 1, q)

\* Operations on the table of queues.
LEMMA Tables ==
  ASSUME NEW q \in Queues, Dlq[q] # q
  PROVE  /\ Len(Program(<<"table", q>>)) \in Nat
         /\ \A k : In(<<"table", q>>, k) => Disciplined(<<"table", q>>, k)
<1> DEFINE c == <<"table", q>>
           d == Dlq[q]
           p == TableUpdate(q)
<1>1. /\ Len(p) = 3
      /\ p[1] = Announce /\ p[2] = Enter /\ p[3] = WUnlock
  BY DEF p, TableUpdate, Write
<1> HIDE DEF p
<1>2. Program(c) = p
  BY DEF Program, p
<1>3. \A k : In(c, k) <=> k \in 1 .. 3
  BY <1>1, <1>2 DEF In
<1>4. /\ Op(c, 1) = "announce" /\ Op(c, 2) = "enter" /\ Op(c, 3) = "wunlock"
  BY <1>1, <1>2 DEF Op, On, RLock, RUnlock, Announce, Enter, WUnlock, QLock, QUnlock
<1>5. c[1] = "table" /\ c[2] = q /\ d \in Queues \cup {NoQueue}
  BY DlqAssumption
<1> HIDE DEF c, d
<1>6. ASSUME NEW k \in 1 .. 3 PROVE Disciplined(c, k)
  BY <1>3, <1>4, <1>5, <1>6 DEF Disciplined, Reads, Writes, Owns, d
<1> QED
  BY <1>1, <1>2, <1>3, <1>6 DEF c

\* GetQueueAttributes and Snapshot.
LEMMA Gets ==
  ASSUME NEW q \in Queues, Dlq[q] # q
  PROVE  /\ Len(Program(<<"get", q>>)) \in Nat
         /\ \A k : In(<<"get", q>>, k) => Disciplined(<<"get", q>>, k)
<1> DEFINE c == <<"get", q>>
           d == Dlq[q]
           p == GetQueueAttributes(q)
<1>1. /\ Len(p) = 4
      /\ p[1] = RLock /\ p[2] = QLock(q) /\ p[3] = QUnlock(q) /\ p[4] = RUnlock
  BY DEF p, GetQueueAttributes, Read, Guarded
<1> HIDE DEF p
<1>2. Program(c) = p
  BY DEF Program, p
<1>3. \A k : In(c, k) <=> k \in 1 .. 4
  BY <1>1, <1>2 DEF In
<1>4. /\ Op(c, 1) = "rlock" /\ Op(c, 2) = "lock" /\ Op(c, 3) = "unlock" /\ Op(c, 4) = "runlock"
      /\ On(c, 2) = q /\ On(c, 3) = q
  BY <1>1, <1>2 DEF Op, On, RLock, RUnlock, Announce, Enter, WUnlock, QLock, QUnlock
<1>5. c[1] = "get" /\ c[2] = q /\ d \in Queues \cup {NoQueue}
  BY DlqAssumption
<1> HIDE DEF c, d
<1>6. ASSUME NEW k \in 1 .. 4 PROVE Disciplined(c, k)
  BY <1>3, <1>4, <1>5, <1>6 DEF Disciplined, Reads, Writes, Owns, d
<1> QED
  BY <1>1, <1>2, <1>3, <1>6 DEF c

\* SetQueueAttributes of a queue without a dead-letter queue.
LEMMA SetsAlone ==
  ASSUME NEW q \in Queues, Dlq[q] # q, Dlq[q] = NoQueue
  PROVE  /\ Len(Program(<<"set", q>>)) \in Nat
         /\ \A k : In(<<"set", q>>, k) => Disciplined(<<"set", q>>, k)
<1> DEFINE c == <<"set", q>>
           d == Dlq[q]
           p == SetQueueAttributes(q)
<1>1. /\ Len(p) = 5
      /\ p[1] = Announce /\ p[2] = Enter /\ p[3] = QLock(q) /\ p[4] = QUnlock(q)
      /\ p[5] = WUnlock
  BY DEF p, SetQueueAttributes, Write, Guarded, RouteIfAny
<1> HIDE DEF p
<1>2. Program(c) = p
  BY DEF Program, p
<1>3. \A k : In(c, k) <=> k \in 1 .. 5
  BY <1>1, <1>2 DEF In
<1>4. /\ Op(c, 1) = "announce" /\ Op(c, 2) = "enter" /\ Op(c, 3) = "lock" /\ Op(c, 4) = "unlock"
      /\ Op(c, 5) = "wunlock"
      /\ On(c, 3) = q /\ On(c, 4) = q
  BY <1>1, <1>2 DEF Op, On, RLock, RUnlock, Announce, Enter, WUnlock, QLock, QUnlock
<1>5. c[1] = "set" /\ c[2] = q /\ d \in Queues \cup {NoQueue}
  BY DlqAssumption
<1> HIDE DEF c, d
<1>6. ASSUME NEW k \in 1 .. 5 PROVE Disciplined(c, k)
  BY <1>3, <1>4, <1>5, <1>6 DEF Disciplined, Reads, Writes, Owns, d
<1> QED
  BY <1>1, <1>2, <1>3, <1>6 DEF c

\* SetQueueAttributes of a queue that has one, whose mutex it takes under its own.
LEMMA SetsRouting ==
  ASSUME NEW q \in Queues, Dlq[q] # q, Dlq[q] # NoQueue
  PROVE  /\ Len(Program(<<"set", q>>)) \in Nat
         /\ \A k : In(<<"set", q>>, k) => Disciplined(<<"set", q>>, k)
<1> DEFINE c == <<"set", q>>
           d == Dlq[q]
           p == SetQueueAttributes(q)
<1>1. /\ Len(p) = 7
      /\ p[1] = Announce /\ p[2] = Enter /\ p[3] = QLock(q) /\ p[4] = QLock(d)
      /\ p[5] = QUnlock(d) /\ p[6] = QUnlock(q) /\ p[7] = WUnlock
  BY DEF p, SetQueueAttributes, Write, Guarded, RouteIfAny
<1> HIDE DEF p
<1>2. Program(c) = p
  BY DEF Program, p
<1>3. \A k : In(c, k) <=> k \in 1 .. 7
  BY <1>1, <1>2 DEF In
<1>4. /\ Op(c, 1) = "announce" /\ Op(c, 2) = "enter" /\ Op(c, 3) = "lock" /\ Op(c, 4) = "lock"
      /\ Op(c, 5) = "unlock" /\ Op(c, 6) = "unlock" /\ Op(c, 7) = "wunlock"
      /\ On(c, 3) = q /\ On(c, 4) = d /\ On(c, 5) = d /\ On(c, 6) = q
  BY <1>1, <1>2 DEF Op, On, RLock, RUnlock, Announce, Enter, WUnlock, QLock, QUnlock
<1>5. c[1] = "set" /\ c[2] = q /\ d \in Queues \cup {NoQueue}
  BY DlqAssumption
<1> HIDE DEF c, d
<1>6. ASSUME NEW k \in 1 .. 7 PROVE Disciplined(c, k)
  BY <1>3, <1>4, <1>5, <1>6 DEF Disciplined, Reads, Writes, Owns, d
<1> QED
  BY <1>1, <1>2, <1>3, <1>6 DEF c

\* ChangeMessageVisibility of a queue without a dead-letter queue.
LEMMA VisibilitiesAlone ==
  ASSUME NEW q \in Queues, Dlq[q] # q, Dlq[q] = NoQueue
  PROVE  /\ Len(Program(<<"visibility", q>>)) \in Nat
         /\ \A k : In(<<"visibility", q>>, k) => Disciplined(<<"visibility", q>>, k)
<1> DEFINE c == <<"visibility", q>>
           d == Dlq[q]
           p == ChangeMessageVisibility(q)
<1>1. /\ Len(p) = 4
      /\ p[1] = RLock /\ p[2] = RUnlock /\ p[3] = QLock(q) /\ p[4] = QUnlock(q)
  BY DEF p, ChangeMessageVisibility, Lookup, Read, Guarded, RouteIfAny
<1> HIDE DEF p
<1>2. Program(c) = p
  BY DEF Program, p
<1>3. \A k : In(c, k) <=> k \in 1 .. 4
  BY <1>1, <1>2 DEF In
<1>4. /\ Op(c, 1) = "rlock" /\ Op(c, 2) = "runlock" /\ Op(c, 3) = "lock" /\ Op(c, 4) = "unlock"
      /\ On(c, 3) = q /\ On(c, 4) = q
  BY <1>1, <1>2 DEF Op, On, RLock, RUnlock, Announce, Enter, WUnlock, QLock, QUnlock
<1>5. c[1] = "visibility" /\ c[2] = q /\ d \in Queues \cup {NoQueue}
  BY DlqAssumption
<1> HIDE DEF c, d
<1>6. ASSUME NEW k \in 1 .. 4 PROVE Disciplined(c, k)
  BY <1>3, <1>4, <1>5, <1>6 DEF Disciplined, Reads, Writes, Owns, d
<1> QED
  BY <1>1, <1>2, <1>3, <1>6 DEF c

\* ChangeMessageVisibility of a queue that has one, whose mutex it takes under its own.
LEMMA VisibilitiesRouting ==
  ASSUME NEW q \in Queues, Dlq[q] # q, Dlq[q] # NoQueue
  PROVE  /\ Len(Program(<<"visibility", q>>)) \in Nat
         /\ \A k : In(<<"visibility", q>>, k) => Disciplined(<<"visibility", q>>, k)
<1> DEFINE c == <<"visibility", q>>
           d == Dlq[q]
           p == ChangeMessageVisibility(q)
<1>1. /\ Len(p) = 6
      /\ p[1] = RLock /\ p[2] = RUnlock /\ p[3] = QLock(q) /\ p[4] = QLock(d)
      /\ p[5] = QUnlock(d) /\ p[6] = QUnlock(q)
  BY DEF p, ChangeMessageVisibility, Lookup, Read, Guarded, RouteIfAny
<1> HIDE DEF p
<1>2. Program(c) = p
  BY DEF Program, p
<1>3. \A k : In(c, k) <=> k \in 1 .. 6
  BY <1>1, <1>2 DEF In
<1>4. /\ Op(c, 1) = "rlock" /\ Op(c, 2) = "runlock" /\ Op(c, 3) = "lock" /\ Op(c, 4) = "lock"
      /\ Op(c, 5) = "unlock" /\ Op(c, 6) = "unlock"
      /\ On(c, 3) = q /\ On(c, 4) = d /\ On(c, 5) = d /\ On(c, 6) = q
  BY <1>1, <1>2 DEF Op, On, RLock, RUnlock, Announce, Enter, WUnlock, QLock, QUnlock
<1>5. c[1] = "visibility" /\ c[2] = q /\ d \in Queues \cup {NoQueue}
  BY DlqAssumption
<1> HIDE DEF c, d
<1>6. ASSUME NEW k \in 1 .. 6 PROVE Disciplined(c, k)
  BY <1>3, <1>4, <1>5, <1>6 DEF Disciplined, Reads, Writes, Owns, d
<1> QED
  BY <1>1, <1>2, <1>3, <1>6 DEF c

\* ReceiveMessage of a queue without a dead-letter queue.
LEMMA ReceivesAlone ==
  ASSUME NEW q \in Queues, Dlq[q] # q, Dlq[q] = NoQueue
  PROVE  /\ Len(Program(<<"receive", q>>)) \in Nat
         /\ \A k : In(<<"receive", q>>, k) => Disciplined(<<"receive", q>>, k)
<1> DEFINE c == <<"receive", q>>
           d == Dlq[q]
           p == ReceiveMessage(q)
<1>1. /\ Len(p) = 8
      /\ p[1] = RLock /\ p[2] = RUnlock /\ p[3] = RLock /\ p[4] = RUnlock
      /\ p[5] = QLock(q) /\ p[6] = QUnlock(q) /\ p[7] = RLock /\ p[8] = RUnlock
  BY DEF p, ReceiveMessage, WaitSeconds, Lookup, EmitMetric, Read, Guarded, RouteIfAny
<1> HIDE DEF p
<1>2. Program(c) = p
  BY DEF Program, p
<1>3. \A k : In(c, k) <=> k \in 1 .. 8
  BY <1>1, <1>2 DEF In
<1>4. /\ Op(c, 1) = "rlock" /\ Op(c, 2) = "runlock" /\ Op(c, 3) = "rlock" /\ Op(c, 4) = "runlock"
      /\ Op(c, 5) = "lock" /\ Op(c, 6) = "unlock" /\ Op(c, 7) = "rlock" /\ Op(c, 8) = "runlock"
      /\ On(c, 5) = q /\ On(c, 6) = q
  BY <1>1, <1>2 DEF Op, On, RLock, RUnlock, Announce, Enter, WUnlock, QLock, QUnlock
<1>5. c[1] = "receive" /\ c[2] = q /\ d \in Queues \cup {NoQueue}
  BY DlqAssumption
<1> HIDE DEF c, d
<1>6. ASSUME NEW k \in 1 .. 8 PROVE Disciplined(c, k)
  BY <1>3, <1>4, <1>5, <1>6 DEF Disciplined, Reads, Writes, Owns, d
<1> QED
  BY <1>1, <1>2, <1>3, <1>6 DEF c

\* ReceiveMessage of a queue that has one, whose mutex it takes under its own.
LEMMA ReceivesRouting ==
  ASSUME NEW q \in Queues, Dlq[q] # q, Dlq[q] # NoQueue
  PROVE  /\ Len(Program(<<"receive", q>>)) \in Nat
         /\ \A k : In(<<"receive", q>>, k) => Disciplined(<<"receive", q>>, k)
<1> DEFINE c == <<"receive", q>>
           d == Dlq[q]
           p == ReceiveMessage(q)
<1>1. /\ Len(p) = 10
      /\ p[1] = RLock /\ p[2] = RUnlock /\ p[3] = RLock /\ p[4] = RUnlock
      /\ p[5] = QLock(q) /\ p[6] = QLock(d) /\ p[7] = QUnlock(d) /\ p[8] = QUnlock(q)
      /\ p[9] = RLock /\ p[10] = RUnlock
  BY DEF p, ReceiveMessage, WaitSeconds, Lookup, EmitMetric, Read, Guarded, RouteIfAny
<1> HIDE DEF p
<1>2. Program(c) = p
  BY DEF Program, p
<1>3. \A k : In(c, k) <=> k \in 1 .. 10
  BY <1>1, <1>2 DEF In
<1>4. /\ Op(c, 1) = "rlock" /\ Op(c, 2) = "runlock" /\ Op(c, 3) = "rlock" /\ Op(c, 4) = "runlock"
      /\ Op(c, 5) = "lock" /\ Op(c, 6) = "lock" /\ Op(c, 7) = "unlock" /\ Op(c, 8) = "unlock"
      /\ Op(c, 9) = "rlock" /\ Op(c, 10) = "runlock"
      /\ On(c, 5) = q /\ On(c, 6) = d /\ On(c, 7) = d /\ On(c, 8) = q
  BY <1>1, <1>2 DEF Op, On, RLock, RUnlock, Announce, Enter, WUnlock, QLock, QUnlock
<1>5. c[1] = "receive" /\ c[2] = q /\ d \in Queues \cup {NoQueue}
  BY DlqAssumption
<1> HIDE DEF c, d
<1>6. ASSUME NEW k \in 1 .. 10 PROVE Disciplined(c, k)
  BY <1>3, <1>4, <1>5, <1>6 DEF Disciplined, Reads, Writes, Owns, d
<1> QED
  BY <1>1, <1>2, <1>3, <1>6 DEF c

\* pruneState of a queue without a dead-letter queue.
LEMMA PrunesAlone ==
  ASSUME NEW q \in Queues, Dlq[q] # q, Dlq[q] = NoQueue
  PROVE  /\ Len(Program(<<"prune", q>>)) \in Nat
         /\ \A k : In(<<"prune", q>>, k) => Disciplined(<<"prune", q>>, k)
<1> DEFINE c == <<"prune", q>>
           d == Dlq[q]
           p == PruneState(q)
<1>1. /\ Len(p) = 10
      /\ p[1] = RLock /\ p[2] = RUnlock /\ p[3] = QLock(q) /\ p[4] = QUnlock(q)
      /\ p[5] = Announce /\ p[6] = Enter /\ p[7] = WUnlock /\ p[8] = Announce
      /\ p[9] = Enter /\ p[10] = WUnlock
  BY DEF p, PruneState, Lookup, Read, Write, Guarded, RouteIfAny
<1> HIDE DEF p
<1>2. Program(c) = p
  BY DEF Program, p
<1>3. \A k : In(c, k) <=> k \in 1 .. 10
  BY <1>1, <1>2 DEF In
<1>4. /\ Op(c, 1) = "rlock" /\ Op(c, 2) = "runlock" /\ Op(c, 3) = "lock" /\ Op(c, 4) = "unlock"
      /\ Op(c, 5) = "announce" /\ Op(c, 6) = "enter" /\ Op(c, 7) = "wunlock" /\ Op(c, 8) = "announce"
      /\ Op(c, 9) = "enter" /\ Op(c, 10) = "wunlock"
      /\ On(c, 3) = q /\ On(c, 4) = q
  BY <1>1, <1>2 DEF Op, On, RLock, RUnlock, Announce, Enter, WUnlock, QLock, QUnlock
<1>5. c[1] = "prune" /\ c[2] = q /\ d \in Queues \cup {NoQueue}
  BY DlqAssumption
<1> HIDE DEF c, d
<1>6. ASSUME NEW k \in 1 .. 10 PROVE Disciplined(c, k)
  BY <1>3, <1>4, <1>5, <1>6 DEF Disciplined, Reads, Writes, Owns, d
<1> QED
  BY <1>1, <1>2, <1>3, <1>6 DEF c

\* pruneState of a queue that has one, whose mutex it takes under its own.
LEMMA PrunesRouting ==
  ASSUME NEW q \in Queues, Dlq[q] # q, Dlq[q] # NoQueue
  PROVE  /\ Len(Program(<<"prune", q>>)) \in Nat
         /\ \A k : In(<<"prune", q>>, k) => Disciplined(<<"prune", q>>, k)
<1> DEFINE c == <<"prune", q>>
           d == Dlq[q]
           p == PruneState(q)
<1>1. /\ Len(p) = 12
      /\ p[1] = RLock /\ p[2] = RUnlock /\ p[3] = QLock(q) /\ p[4] = QLock(d)
      /\ p[5] = QUnlock(d) /\ p[6] = QUnlock(q) /\ p[7] = Announce /\ p[8] = Enter
      /\ p[9] = WUnlock /\ p[10] = Announce /\ p[11] = Enter /\ p[12] = WUnlock
  BY DEF p, PruneState, Lookup, Read, Write, Guarded, RouteIfAny
<1> HIDE DEF p
<1>2. Program(c) = p
  BY DEF Program, p
<1>3. \A k : In(c, k) <=> k \in 1 .. 12
  BY <1>1, <1>2 DEF In
<1>4. /\ Op(c, 1) = "rlock" /\ Op(c, 2) = "runlock" /\ Op(c, 3) = "lock" /\ Op(c, 4) = "lock"
      /\ Op(c, 5) = "unlock" /\ Op(c, 6) = "unlock" /\ Op(c, 7) = "announce" /\ Op(c, 8) = "enter"
      /\ Op(c, 9) = "wunlock" /\ Op(c, 10) = "announce" /\ Op(c, 11) = "enter" /\ Op(c, 12) = "wunlock"
      /\ On(c, 3) = q /\ On(c, 4) = d /\ On(c, 5) = d /\ On(c, 6) = q
  BY <1>1, <1>2 DEF Op, On, RLock, RUnlock, Announce, Enter, WUnlock, QLock, QUnlock
<1>5. c[1] = "prune" /\ c[2] = q /\ d \in Queues \cup {NoQueue}
  BY DlqAssumption
<1> HIDE DEF c, d
<1>6. ASSUME NEW k \in 1 .. 12 PROVE Disciplined(c, k)
  BY <1>3, <1>4, <1>5, <1>6 DEF Disciplined, Reads, Writes, Owns, d
<1> QED
  BY <1>1, <1>2, <1>3, <1>6 DEF c

-----------------------------------------------------------------------------
\* A dead-letter queue is another queue.
LEMMA OtherDlq == ASSUME Acyclic, NEW q \in Queues PROVE Dlq[q] # q
  BY DlqAssumption DEF Acyclic

\* Every instruction of an ordered operation is disciplined.
LEMMA Discipline ==
  ASSUME Acyclic, NEW c \in OrderedNames \X Queues
  PROVE  Len(Program(c)) \in Nat /\ \A k : In(c, k) => Disciplined(c, k)
<1>1. PICK name \in OrderedNames, q \in Queues : c = <<name, q>>
  OBVIOUS
<1> QED
  BY <1>1, OtherDlq, Tables, Gets, SetsAlone, SetsRouting, VisibilitiesAlone,
     VisibilitiesRouting, ReceivesAlone, ReceivesRouting, PrunesAlone, PrunesRouting
     DEF OrderedNames
-----------------------------------------------------------------------------
(* The locks that are taken are held by operations at the right places.    *)

LockTypes ==
  /\ call \in [Threads -> (OrderedNames \X Queues) \cup {NoCall}]
  /\ pc \in [Threads -> Nat \ {0}]
  /\ \A t \in Threads : Busy(t) => Programs[call[t]] = Program(call[t])
  /\ \A t \in Threads : Busy(t) => pc[t] <= Len(Program(call[t])) + 1
  /\ owner \in [Queues -> Threads \cup {Free}]
  /\ writer \in Threads \cup {Free}
  /\ readers \subseteq Threads

\* Who has a lock is at an instruction at which its operation has it.
ReadersKnown == \A t \in readers : Busy(t) /\ Reads(call[t], pc[t])
WriterKnown == \A t \in Threads : writer = t => Busy(t) /\ Writes(call[t], pc[t])
OwnersKnown ==
  \A q \in Queues, t \in Threads : owner[q] = t => Busy(t) /\ Owns(call[t], pc[t], q)

LInv == LockTypes /\ ReadersKnown /\ WriterKnown /\ OwnersKnown

\* At the start nobody has a lock.
LEMMA InitLInv == Init => LInv
  BY ThreadsAssumption DEF Init, LInv, LockTypes, ReadersKnown, WriterKnown, OwnersKnown, Busy, Free

\* A goroutine that runs an operation is at an instruction of it or at its end.
LEMMA AtInstr ==
  ASSUME LInv, Acyclic, NEW t \in Threads, Busy(t), ~Finished(t)
  PROVE  /\ call[t] \in OrderedNames \X Queues /\ pc[t] \in Nat \ {0}
         /\ In(call[t], pc[t]) /\ Disciplined(call[t], pc[t])
         /\ Instr(t)[1] = Op(call[t], pc[t]) /\ Instr(t)[2] = On(call[t], pc[t])
<1>1. call[t] \in OrderedNames \X Queues
  BY DEF LInv, LockTypes, Busy
<1>2. Len(Program(call[t])) \in Nat
  BY <1>1, Discipline
<1>3. pc[t] \in Nat \ {0} /\ In(call[t], pc[t]) /\ Instr(t) = Program(call[t])[pc[t]]
  BY <1>1, <1>2 DEF LInv, LockTypes, Finished, Instr, In
<1> QED
  BY <1>1, <1>3, Discipline DEF Op, On

\* An operation that starts or returns holds nothing, so the locks are where
\* they were.
LEMMA IdleStep ==
  ASSUME LInv, Acyclic, NEW t \in Threads, ~Busy(t) \/ Finished(t),
         NEW c \in (OrderedNames \X Queues) \cup {NoCall},
         c # NoCall => Programs[c] = Program(c),
         call' = [call EXCEPT ![t] = c], pc' = [pc EXCEPT ![t] = 1],
         UNCHANGED <<readers, writer, owner>>
  PROVE  LInv'
<1>1. /\ \A u \in Threads : u # t => call'[u] = call[u] /\ pc'[u] = pc[u]
      /\ call'[t] = c /\ pc'[t] = 1
  BY DEF LInv, LockTypes
<1>2. LockTypes'
  <2>1. c # NoCall => 1 <= Len(Program(c)) + 1
    BY Discipline
  <2> QED
    BY <1>1, <2>1 DEF LInv, LockTypes, Busy
<1>3. ~(Busy(t) /\ In(call[t], pc[t]))
  BY DEF Finished, In, LInv, LockTypes
<1>4. t \notin readers /\ writer # t /\ \A q \in Queues : owner[q] # t
  <2>1. t \notin readers
    BY <1>3 DEF LInv, ReadersKnown, Reads
  <2>2. writer # t
    BY <1>3, ThreadsAssumption DEF LInv, WriterKnown, Writes, Free
  <2>3. \A q \in Queues : owner[q] # t
    BY <1>3, ThreadsAssumption DEF LInv, OwnersKnown, Owns, Free
  <2> QED  BY <2>1, <2>2, <2>3
<1>5. ReadersKnown'
  BY <1>1, <1>4 DEF LInv, LockTypes, ReadersKnown, Busy
<1>6. WriterKnown'
  BY <1>1, <1>4 DEF LInv, LockTypes, WriterKnown, Busy
<1>7. OwnersKnown'
  BY <1>1, <1>4 DEF LInv, LockTypes, OwnersKnown, Busy
<1> QED
  BY <1>2, <1>5, <1>6, <1>7 DEF LInv

\* An instruction takes a lock on the way to where its operation has it, and
\* leaves a place where the operation has it only by giving it back.
LEMMA LockStep ==
  ASSUME LInv, Acyclic, NEW t \in Threads, Step(t)
  PROVE  LInv'
<1> DEFINE c == call[t]
           k == pc[t]
<1>1. /\ Busy(t) /\ ~Finished(t) /\ CanStep(t)
      /\ UNCHANGED call /\ pc' = [pc EXCEPT ![t] = k + 1]
  BY DEF Step, CanStep
<1>2. /\ c \in OrderedNames \X Queues /\ k \in Nat \ {0} /\ In(c, k) /\ Disciplined(c, k)
      /\ Instr(t)[1] = Op(c, k) /\ Instr(t)[2] = On(c, k)
  BY <1>1, AtInstr
<1>3. \A op : At(t, op) <=> Op(c, k) = op
  BY <1>1, <1>2 DEF At
<1>4. /\ readers' = CASE Op(c, k) = "rlock" -> readers \cup {t}
                      [] Op(c, k) = "runlock" -> readers \ {t}
                      [] OTHER -> readers
      /\ writer' = CASE Op(c, k) = "announce" -> t
                     [] Op(c, k) = "wunlock" -> Free
                     [] OTHER -> writer
      /\ owner' = CASE Op(c, k) = "lock" -> [owner EXCEPT ![On(c, k)] = t]
                    [] Op(c, k) = "unlock" -> [owner EXCEPT ![On(c, k)] = Free]
                    [] OTHER -> owner
  BY <1>2, <1>3 DEF Step
<1>5. /\ \A u \in Threads : Busy(u)' <=> Busy(u)
      /\ \A u \in Threads : u # t => pc'[u] = pc[u]
      /\ pc'[t] = k + 1
  BY <1>1 DEF Busy, LInv, LockTypes
<1> HIDE DEF c, k
<1>6. LockTypes'
  <2>1. k + 1 <= Len(Program(c)) + 1 /\ k + 1 \in Nat \ {0}
    BY <1>2, Discipline DEF In
  <2>2. pc' \in [Threads -> Nat \ {0}] /\ call' = call
    BY <1>1, <2>1 DEF LInv, LockTypes
  <2>3. \A u \in Threads : Busy(u)' => pc'[u] <= Len(Program(call[u])) + 1
    BY <1>5, <2>1 DEF LInv, LockTypes, c, k
  <2>4. owner' \in [Queues -> Threads \cup {Free}]
    BY <1>2, <1>4 DEF LInv, LockTypes, Disciplined
  <2>5. writer' \in Threads \cup {Free} /\ readers' \subseteq Threads
    BY <1>4 DEF LInv, LockTypes
  <2> QED  BY <1>5, <2>2, <2>3, <2>4, <2>5 DEF LInv, LockTypes
<1>7. ReadersKnown'
  <2> SUFFICES ASSUME NEW u \in readers' PROVE Busy(u)' /\ Reads(call[u], pc'[u])
    BY <1>1 DEF ReadersKnown
  <2>1. CASE u # t
    BY <1>4, <1>5, <2>1 DEF LInv, LockTypes, ReadersKnown
  <2>2. CASE u = t
    <3>1. Reads(c, k + 1)
      BY <1>2, <1>4, <2>2 DEF LInv, ReadersKnown, Disciplined, c, k
    <3> QED  BY <1>1, <1>5, <2>2, <3>1 DEF c
  <2> QED  BY <2>1, <2>2
<1>8. WriterKnown'
  <2> SUFFICES ASSUME NEW u \in Threads, writer' = u PROVE Busy(u)' /\ Writes(call[u], pc'[u])
    BY <1>1 DEF WriterKnown
  <2>1. CASE u # t
    BY <1>4, <1>5, <2>1, ThreadsAssumption DEF LInv, WriterKnown, Free
  <2>2. CASE u = t
    <3>1. Writes(c, k + 1)
      BY <1>2, <1>4, <2>2, ThreadsAssumption DEF LInv, WriterKnown, Disciplined, Free, c, k
    <3> QED  BY <1>1, <1>5, <2>2, <3>1 DEF c
  <2> QED  BY <2>1, <2>2
<1>9. OwnersKnown'
  <2> SUFFICES ASSUME NEW q \in Queues, NEW u \in Threads, owner'[q] = u
               PROVE  Busy(u)' /\ Owns(call[u], pc'[u], q)
    BY <1>1 DEF OwnersKnown
  <2>1. /\ Op(c, k) = "lock" /\ On(c, k) = q => u = t
        /\ ~(Op(c, k) = "lock" /\ On(c, k) = q) => owner[q] = u
        /\ ~(Op(c, k) = "unlock" /\ On(c, k) = q)
    BY <1>2, <1>4, ThreadsAssumption DEF LInv, LockTypes, Disciplined, Free
  <2>2. CASE u # t
    BY <1>5, <2>1, <2>2 DEF LInv, OwnersKnown
  <2>3. CASE u = t
    <3>1. Owns(c, k + 1, q)
      BY <1>2, <2>1, <2>3 DEF LInv, OwnersKnown, Disciplined, c, k
    <3> QED  BY <1>1, <1>5, <2>3, <3>1 DEF c
  <2> QED  BY <2>2, <2>3
<1> QED
  BY <1>6, <1>7, <1>8, <1>9 DEF LInv

\* LInv is an invariant.
LEMMA NextLInv ==
  ASSUME OrderedCalls, Acyclic, LInv, [Next]_vars
  PROVE  LInv'
<1>1. ASSUME NEW t \in Threads, NEW name \in Calls[t], NEW q \in Queues, Begin(t, name, q)
      PROVE  LInv'
  <2>1. name \in OrderedNames
    BY DEF OrderedCalls
  <2>2. <<name, q>> \in (UNION {Calls[u] : u \in Threads}) \X Queues
    OBVIOUS
  <2>3. Programs[<<name, q>>] = Program(<<name, q>>)
    BY <2>2 DEF Programs
  <2> QED  BY <1>1, <2>1, <2>3, IdleStep DEF Begin
<1>2. ASSUME NEW t \in Threads, Step(t) PROVE LInv'
  BY <1>2, LockStep
<1>3. ASSUME NEW t \in Threads, Return(t) PROVE LInv'
  BY <1>3, IdleStep DEF Return
<1>4. CASE UNCHANGED vars
  BY <1>4 DEF vars, LInv, LockTypes, ReadersKnown, WriterKnown, OwnersKnown, Busy
<1> QED
  BY <1>1, <1>2, <1>3, <1>4 DEF Next
-----------------------------------------------------------------------------
(* Nobody is stuck.                                                        *)

\* A goroutine that can neither go on nor return.
Stuck(t) == Busy(t) /\ ~CanStep(t) /\ ~Finished(t)

\* What a stuck goroutine waits for.
LEMMA StuckOn ==
  ASSUME LInv, Acyclic, NEW t \in Threads, Stuck(t)
  PROVE  \/ Op(call[t], pc[t]) \in {"rlock", "announce"} /\ writer # Free
         \/ Op(call[t], pc[t]) = "enter" /\ readers # {}
         \/ /\ Op(call[t], pc[t]) = "lock" /\ On(call[t], pc[t]) \in Queues
            /\ owner[On(call[t], pc[t])] # Free
  BY AtInstr DEF Stuck, CanStep, Disciplined

\* A set of numbers has a least one.
LEMMA Least ==
  ASSUME NEW T \in SUBSET Nat, T # {}
  PROVE  \E x \in T : \A y \in T : x <= y
<1> DEFINE R == OpToRel(<, Nat)
<1>1. IsWellFoundedOn(R, Nat)
  BY NatLessThanWellFounded
<1>2. \A x, y \in Nat : y < x => <<y, x>> \in R
  BY DEF OpToRel
<1> HIDE DEF R
<1>3. PICK x \in T : \A y \in T : ~(<<y, x>> \in R)
  BY <1>1, WFMin
<1>4. ASSUME NEW y \in T PROVE x <= y
  <2>1. x \in Nat /\ y \in Nat /\ ~(y < x)
    BY <1>2, <1>3
  <2> QED  BY <2>1
<1> QED
  BY <1>4

\* If all are stuck, nobody waits for the mutex of a queue: of those who do, take
\* one that wants a queue of least height; whoever owns it gives it back or wants
\* its dead-letter queue, which is lower.
LEMMA NoneOnQueue ==
  ASSUME LInv, Acyclic, \A u \in Threads : Busy(u) => Stuck(u),
         NEW t \in Threads, Busy(t)
  PROVE  Op(call[t], pc[t]) # "lock"
<1>1. PICK height \in [Queues -> Nat] :
         \A q \in Queues : Dlq[q] # NoQueue => height[Dlq[q]] < height[q]
  BY DEF Acyclic
<1> DEFINE Wants(u, q) == Busy(u) /\ Op(call[u], pc[u]) = "lock" /\ On(call[u], pc[u]) = q
           S == {h \in Nat : \E u \in Threads, q \in Queues : Wants(u, q) /\ h = height[q]}
<1>2. SUFFICES ASSUME Op(call[t], pc[t]) = "lock" PROVE FALSE
  OBVIOUS
<1>3. On(call[t], pc[t]) \in Queues
  BY <1>2, StuckOn
<1>4. S # {}
  BY <1>2, <1>3
<1>5. PICK h \in S : \A g \in S : h <= g
  BY <1>4, Least
<1>6. PICK u \in Threads, q \in Queues : Wants(u, q) /\ h = height[q]
  BY <1>5
<1>7. owner[q] # Free
  BY <1>6, StuckOn
<1>8. PICK o \in Threads : owner[q] = o
  BY <1>7 DEF LInv, LockTypes
<1>9. Busy(o) /\ Owns(call[o], pc[o], q) /\ Stuck(o)
  BY <1>8 DEF LInv, OwnersKnown
<1>10. Disciplined(call[o], pc[o])
  BY <1>9, AtInstr DEF Stuck
<1>11. Wants(o, Dlq[q]) /\ Dlq[q] # NoQueue
  BY <1>9, <1>10, StuckOn DEF Disciplined
<1>12. Dlq[q] \in Queues
  BY <1>11, DlqAssumption
<1>13. height[Dlq[q]] \in S
  BY <1>11, <1>12
<1> QED
  BY <1>1, <1>5, <1>6, <1>11, <1>12, <1>13

\* No deadlock of b.mu and the mutexes of the queues (messages.go,
\* message_visibility.go, queue_attributes.go, janitor.go): with any number of
\* goroutines, queues and calls, as long as nobody sends or deletes, which take
\* b.mu under q.mu, and dead-letter queues form no cycle.
THEOREM LocksLive == ASSUME OrderedCalls, Acyclic PROVE Spec => []NoDeadlock
<1>1. Init => LInv
  BY InitLInv
<1>2. LInv /\ [Next]_vars => LInv'
  BY NextLInv
<1>3. LInv => NoDeadlock
  <2> SUFFICES ASSUME LInv, \A u \in Threads : Busy(u) => Stuck(u),
                      NEW t \in Threads, Busy(t)
               PROVE  FALSE
    BY DEF NoDeadlock, Stuck
  <2>1. \A u \in Threads : Busy(u) => Op(call[u], pc[u]) # "lock"
    BY NoneOnQueue
  <2>2. \A u \in Threads : Busy(u) => Disciplined(call[u], pc[u])
    BY AtInstr DEF Stuck
  <2>3. readers = {}
    <3> SUFFICES ASSUME NEW r \in readers PROVE FALSE
      OBVIOUS
    <3>1. r \in Threads /\ Busy(r) /\ Reads(call[r], pc[r])
      BY DEF LInv, LockTypes, ReadersKnown
    <3>2. Op(call[r], pc[r]) \in {"runlock", "lock", "unlock"}
      BY <2>2, <3>1 DEF Disciplined
    <3> QED  BY <2>1, <3>1, <3>2, StuckOn
  <2>4. writer = Free
    <3> SUFFICES ASSUME writer # Free PROVE FALSE
      OBVIOUS
    <3>1. PICK w \in Threads : writer = w
      BY DEF LInv, LockTypes
    <3>2. Busy(w) /\ Writes(call[w], pc[w])
      BY <3>1 DEF LInv, WriterKnown
    <3>3. Op(call[w], pc[w]) \in {"enter", "wunlock", "lock", "unlock"}
      BY <2>2, <3>2 DEF Disciplined
    <3> QED  BY <2>1, <2>3, <3>2, <3>3, StuckOn
  <2> QED  BY <2>1, <2>3, <2>4, StuckOn
<1> QED
  BY <1>1, <1>2, <1>3, PTL DEF Spec
=============================================================================
