---------------------------- MODULE SqsPollProofs ----------------------------
(***************************************************************************)
(* Proofs about SqsPoll, for any polls, calls, messages, queues and times: *)
(* a poll of a standard queue that sleeps on an open channel misses no     *)
(* message.                                                                *)
(***************************************************************************)
EXTENDS SqsPoll, FiniteSetTheorems, SequenceTheorems, WellFoundedInduction, TLAPS

-----------------------------------------------------------------------------
(* The invariant.                                                          *)

Queues == [pending : Seq(Msgs), leased : SUBSET Msgs, notify : Chans]
Polls == [pc : {"idle", "lookup", "pick", "wait"}, q : Nat, ch : Chans \cup {None},
          left : Nat, alarm : Nat]
Calls == [pc : {"idle", "locked", "close"}, q : Nat, old : Chans \cup {None}]

\* The messages in a queue.
Holds(q) == ToSet(q.pending) \cup q.leased

QueueTypes ==
  /\ queue \in Seq(Queues) /\ made = Len(queue) /\ made <= MaxQueues
  /\ table \in 0 .. made

MsgTypes ==
  /\ msg \in [Msgs -> [t : Nat, loud : BOOLEAN]]
  /\ unsent \subseteq Msgs

\* Only what is visible at once is announced.
LoudVisible == \A m \in Msgs : msg[m].loud => Visible(m)

PollTypes ==
  /\ poll \in [Pollers -> Polls]
  /\ \A p \in Pollers : poll[p].pc \in {"pick", "wait"} => poll[p].q \in 1 .. made

CallTypes ==
  /\ call \in [Callers -> Calls]
  /\ \A c \in Callers : call[c].pc \in {"locked", "close"} => call[c].q \in 1 .. made

\* A message is in one queue, and in none before it is sent.
Apart ==
  /\ \A i, j \in 1 .. made : i # j => Holds(queue[i]) \cap Holds(queue[j]) = {}
  /\ \A i \in 1 .. made : Holds(queue[i]) \cap unsent = {}

\* Nothing that was announced is there to be received.
Silent(q) == \A m \in ToSet(q.pending) : ~(msg[m].loud /\ Visible(m))

\* A sleeping poll has been told, has nothing to be told, or a call that has
\* taken its channel out of the queue is about to close it.
Told(p) ==
  \/ poll[p].ch \in closed
  \/ poll[p].ch = queue[poll[p].q].notify /\ Silent(queue[poll[p].q])
  \/ \E c \in Callers : /\ call[c].pc = "close" /\ call[c].q = poll[p].q
                        /\ call[c].old = poll[p].ch

AllTold == \A p \in Pollers : poll[p].pc = "wait" => Told(p)

Types == QueueTypes /\ MsgTypes /\ PollTypes /\ CallTypes
IInv == Types /\ LoudVisible /\ Apart /\ AllTold
-----------------------------------------------------------------------------
(* Channels and sequences.                                                 *)

\* The values of a function on a finite set are no more than its arguments.
LEMMA ValuesBound ==
  ASSUME NEW S, IsFiniteSet(S), NEW f, DOMAIN f = S
  PROVE  /\ IsFiniteSet({f[x] : x \in S})
         /\ Cardinality({f[x] : x \in S}) <= Cardinality(S)
<1> DEFINE T == {f[x] : x \in S}
           g == [x \in S |-> f[x]]
<1>1. g \in Surjection(S, T)
  BY DEF Surjection
<1> QED
  BY <1>1, FS_Surjection

\* The union of two finite sets is no larger than both together.
LEMMA UnionBound ==
  ASSUME NEW S, NEW T, IsFiniteSet(S), IsFiniteSet(T), NEW a \in Nat, NEW b \in Nat,
         Cardinality(S) <= a, Cardinality(T) <= b
  PROVE  IsFiniteSet(S \cup T) /\ Cardinality(S \cup T) <= a + b
<1>1. /\ IsFiniteSet(S \cup T)
      /\ Cardinality(S \cup T) = Cardinality(S) + Cardinality(T) - Cardinality(S \cap T)
  BY FS_Union
<1>2. IsFiniteSet(S \cap T)
  BY FS_Intersection
<1>3. Cardinality(S) \in Nat /\ Cardinality(T) \in Nat /\ Cardinality(S \cap T) \in Nat
  BY <1>2, FS_CardinalityType
<1> QED
  BY <1>1, <1>3

\* There is a channel that nobody refers to.
LEMMA FreshChan ==
  ASSUME Types
  PROVE  MakeChan \in Chans /\ MakeChan \notin Used
<1> DEFINE A == {queue[i].notify : i \in DOMAIN queue}
           B == {poll[p].ch : p \in Pollers}
           C == {call[c].old : c \in Callers}
           np == Cardinality(Pollers)
           nc == Cardinality(Callers)
<1>1. np \in Nat /\ nc \in Nat /\ Cardinality(Chans) \in Nat /\ MaxQueues \in Nat
  BY PollAssumption, FS_CardinalityType
<1>2. IsFiniteSet(A) /\ Cardinality(A) <= MaxQueues
  <2> DEFINE f == [i \in 1 .. made |-> queue[i].notify]
  <2>1. made \in Nat /\ made <= MaxQueues /\ DOMAIN queue = 1 .. made
    BY LenProperties DEF Types, QueueTypes
  <2>2. IsFiniteSet(1 .. made) /\ Cardinality(1 .. made) = made
    BY <2>1, FS_Interval
  <2>3. A = {f[i] : i \in 1 .. made} /\ DOMAIN f = 1 .. made
    BY <2>1
  <2> HIDE DEF A, f
  <2>4. IsFiniteSet(A) /\ Cardinality(A) <= made
    BY <2>2, <2>3, ValuesBound
  <2> QED  BY <1>1, <2>1, <2>4, FS_CardinalityType
<1>3. IsFiniteSet(B) /\ Cardinality(B) <= np
  <2> DEFINE f == [p \in Pollers |-> poll[p].ch]
  <2>1. B = {f[p] : p \in Pollers} /\ DOMAIN f = Pollers
    OBVIOUS
  <2> HIDE DEF B, f
  <2> QED  BY <2>1, PollAssumption, ValuesBound
<1>4. IsFiniteSet(C) /\ Cardinality(C) <= nc
  <2> DEFINE f == [c \in Callers |-> call[c].old]
  <2>1. C = {f[c] : c \in Callers} /\ DOMAIN f = Callers
    OBVIOUS
  <2> HIDE DEF C, f
  <2> QED  BY <2>1, PollAssumption, ValuesBound
<1>5. IsFiniteSet({deleter}) /\ Cardinality({deleter}) <= 1
  <2>1. IsFiniteSet({deleter}) /\ Cardinality({deleter}) = 1
    BY FS_Singleton
  <2> QED  BY <2>1
<1>6. Used = A \cup B \cup C \cup {deleter}
  BY DEF Used
<1> HIDE DEF A, B, C, np, nc
<1>7. IsFiniteSet(A \cup B) /\ Cardinality(A \cup B) <= MaxQueues + np
  BY <1>1, <1>2, <1>3, UnionBound
<1>8. IsFiniteSet(A \cup B \cup C) /\ Cardinality(A \cup B \cup C) <= MaxQueues + np + nc
  <2>1. MaxQueues + np \in Nat
    BY <1>1
  <2> QED  BY <1>1, <1>4, <1>7, <2>1, UnionBound
<1>9. IsFiniteSet(Used) /\ Cardinality(Used) <= MaxQueues + np + nc + 1
  <2>1. MaxQueues + np + nc \in Nat /\ 1 \in Nat
    BY <1>1
  <2> QED  BY <1>5, <1>6, <1>8, <2>1, UnionBound
<1>10. ~(Chans \subseteq Used)
  <2> SUFFICES ASSUME Chans \subseteq Used PROVE FALSE
    OBVIOUS
  <2>1. Cardinality(Chans) <= Cardinality(Used)
    BY <1>9, FS_Subset
  <2>2. Cardinality(Used) \in Nat
    BY <1>9, FS_CardinalityType
  <2>3. Cardinality(Chans) >= MaxQueues + np + nc + 2
    BY PollAssumption DEF np, nc
  <2> QED  BY <1>1, <1>9, <2>1, <2>2, <2>3
<1> QED
  BY <1>10 DEF MakeChan

\* What a concatenation, an element taken out and one added hold.
LEMMA ConcatSet ==
  ASSUME NEW S, NEW s \in Seq(S), NEW t \in Seq(S)
  PROVE  s \o t \in Seq(S) /\ ToSet(s \o t) = ToSet(s) \cup ToSet(t)
<1>1. s \o t \in Seq(S) /\ Len(s \o t) = Len(s) + Len(t)
  OBVIOUS
<1>2. ASSUME NEW x \in ToSet(s \o t) PROVE x \in ToSet(s) \cup ToSet(t)
  BY <1>2 DEF ToSet
<1>3. ASSUME NEW x \in ToSet(s) PROVE x \in ToSet(s \o t)
  BY <1>3 DEF ToSet
<1>4. ASSUME NEW x \in ToSet(t) PROVE x \in ToSet(s \o t)
  <2>1. PICK k \in 1 .. Len(t) : x = t[k]
    BY <1>4 DEF ToSet
  <2>2. (s \o t)[Len(s) + k] = x /\ Len(s) + k \in 1 .. Len(s \o t)
    BY <2>1
  <2> QED
    BY <1>1, <2>2 DEF ToSet
<1> QED
  BY <1>1, <1>2, <1>3, <1>4

\* A message put at the end is the only new element.
LEMMA AppendSet ==
  ASSUME NEW S, NEW s \in Seq(S), NEW x \in S
  PROVE  Append(s, x) \in Seq(S) /\ ToSet(Append(s, x)) = ToSet(s) \cup {x}
<1>1. Append(s, x) = s \o <<x>> /\ <<x>> \in Seq(S)
  BY AppendIsConcat
<1>2. ToSet(<<x>>) = {x}
  BY DEF ToSet
<1> DEFINE t == <<x>>
<1>3. t \in Seq(S)
  BY <1>1
<1> HIDE DEF t
<1>4. s \o t \in Seq(S) /\ ToSet(s \o t) = ToSet(s) \cup ToSet(t)
  BY <1>3, ConcatSet
<1> QED
  BY <1>1, <1>2, <1>4 DEF t

\* Taking an element out brings nothing in.
LEMMA RemoveSet ==
  ASSUME NEW S, NEW s \in Seq(S), NEW k \in 1 .. Len(s)
  PROVE  RemoveAt(s, k) \in Seq(S) /\ ToSet(RemoveAt(s, k)) \subseteq ToSet(s)
<1> DEFINE a == SubSeq(s, 1, k - 1)
           b == SubSeq(s, k + 1, Len(s))
<1>1. Len(s) \in Nat /\ \A i \in 1 .. Len(s) : s[i] \in S
  BY LenProperties
<1>2. a \in Seq(S) /\ ToSet(a) \subseteq ToSet(s)
  <2>1. \A i \in 1 .. k - 1 : s[i] \in S
    BY <1>1
  <2>2. /\ a \in Seq(S) /\ Len(a) = IF 1 <= k - 1 THEN (k - 1) - 1 + 1 ELSE 0
        /\ \A i \in 1 .. (k - 1) - 1 + 1 : a[i] = s[1 + i - 1]
    BY <1>1, <2>1, SubSeqProperties
  <2> HIDE DEF a
  <2>3. \A i \in DOMAIN a : i \in 1 .. k - 1 /\ a[i] = s[i]
    BY <1>1, <2>2
  <2>4. \A i \in DOMAIN a : i \in 1 .. Len(s)
    BY <1>1, <2>3
  <2> QED  BY <2>2, <2>3, <2>4 DEF ToSet
<1>3. b \in Seq(S) /\ ToSet(b) \subseteq ToSet(s)
  <2>1. \A i \in k + 1 .. Len(s) : s[i] \in S
    BY <1>1
  <2>2. /\ b \in Seq(S)
        /\ Len(b) = IF k + 1 <= Len(s) THEN Len(s) - (k + 1) + 1 ELSE 0
        /\ \A i \in 1 .. Len(s) - (k + 1) + 1 : b[i] = s[k + 1 + i - 1]
    BY <1>1, <2>1, SubSeqProperties
  <2> HIDE DEF b
  <2>3. ASSUME NEW i \in DOMAIN b
        PROVE  b[i] = s[k + 1 + i - 1] /\ k + 1 + i - 1 \in 1 .. Len(s)
    <3>1. DOMAIN b = 1 .. Len(b)
      BY <2>2, LenProperties
    <3>2. i \in 1 .. Len(s) - (k + 1) + 1
      BY <1>1, <2>2, <3>1
    <3>3. k + 1 + i - 1 \in 1 .. Len(s)
      BY <1>1, <3>2
    <3>4. b[i] = s[k + 1 + i - 1]
      BY <2>2, <3>2
    <3> QED  BY <3>3, <3>4
  <2> QED  BY <2>2, <2>3 DEF ToSet
<1>4. RemoveAt(s, k) = a \o b
  BY DEF RemoveAt
<1> HIDE DEF a, b
<1>5. a \o b \in Seq(S) /\ ToSet(a \o b) = ToSet(a) \cup ToSet(b)
  BY <1>2, <1>3, ConcatSet
<1> QED
  BY <1>2, <1>3, <1>4, <1>5

\* An order of a finite set of messages.
LEMMA OrderSet ==
  ASSUME NEW S, IsFiniteSet(S), NEW f \in SetToSeqs(S)
  PROVE  f \in Seq(S) /\ ToSet(f) \subseteq S
<1>1. Cardinality(S) \in Nat
  BY FS_CardinalityType
<1>2. f \in [1 .. Cardinality(S) -> S]
  BY DEF SetToSeqs
<1> QED
  BY <1>1, <1>2 DEF SetToSeqs, ToSet
-----------------------------------------------------------------------------
(* What the steps do to a queue and its messages.                          *)

\* Queues that are there, one of them renewed.
LEMMA QueueAt ==
  ASSUME QueueTypes, NEW i \in 1 .. made, NEW q \in Queues
  PROVE  /\ queue[i] \in Queues
         /\ [queue EXCEPT ![i] = q] \in Seq(Queues)
         /\ Len([queue EXCEPT ![i] = q]) = made
         /\ \A j \in 1 .. made : [queue EXCEPT ![i] = q][j] = IF j = i THEN q ELSE queue[j]
<1>1. queue \in Seq(Queues) /\ made = Len(queue)
  BY DEF QueueTypes
<1>2. queue[i] \in Queues
  BY <1>1, ElementOfSeq
<1> QED
  BY <1>1, <1>2, ExceptSeq

\* A set of numbers has a least one.
LEMMA Least ==
  ASSUME NEW T \in SUBSET Nat, T # {}
  PROVE  \E x \in T : \A y \in T : x <= y
<1> DEFINE R == OpToRel(<, Nat)
<1>1. IsWellFoundedOn(R, Nat)
  BY NatLessThanWellFounded
<1>2. \A x, y \in Nat : y < x => <<y, x>> \in R
  BY DEF OpToRel
<1> HIDE DEF R
<1>3. PICK x \in T : \A y \in T : ~(<<y, x>> \in R)
  BY <1>1, WFMin
<1>4. ASSUME NEW y \in T PROVE x <= y
  <2>1. x \in Nat /\ y \in Nat /\ ~(y < x)
    BY <1>2, <1>3
  <2> QED  BY <2>1
<1> QED
  BY <1>4

\* The first visible message is in the slice, and there is none if it is 0.
LEMMA FirstVisibleOK ==
  ASSUME NEW s \in Seq(Msgs)
  PROVE  \/ FirstVisible(s) \in 1 .. Len(s) /\ Visible(s[FirstVisible(s)])
         \/ FirstVisible(s) = 0 /\ \A k \in 1 .. Len(s) : ~Visible(s[k])
<1>1. Len(s) \in Nat /\ DOMAIN s = 1 .. Len(s)
  BY LenProperties
<1>2. CASE \E k \in DOMAIN s : Visible(s[k])
  <2> DEFINE T == {k \in 1 .. Len(s) : Visible(s[k])}
  <2>1. T \in SUBSET Nat /\ T # {}
    BY <1>1, <1>2
  <2>2. PICK x \in T : \A y \in T : x <= y
    BY <2>1, Least
  <2>3. x \in DOMAIN s /\ Visible(s[x]) /\ \A j \in 1 .. x - 1 : ~Visible(s[j])
    BY <1>1, <2>2
  <2>4. /\ FirstVisible(s) \in DOMAIN s /\ Visible(s[FirstVisible(s)])
    BY <1>2, <2>3 DEF FirstVisible
  <2> QED  BY <1>1, <2>4
<1>3. CASE ~ \E k \in DOMAIN s : Visible(s[k])
  BY <1>1, <1>3 DEF FirstVisible
<1> QED
  BY <1>2, <1>3

\* sweepInFlight: a queue gains no message, and what comes back is silent.
LEMMA SweptOK ==
  ASSUME MsgTypes, NEW q \in Queues, NEW order \in Requeued(q)
  PROVE  /\ Swept(q, order) \in Queues /\ Swept(q, order).notify = q.notify
         /\ ToSet(Swept(q, order).pending) = ToSet(q.pending) \cup ToSet(order)
         /\ Holds(Swept(q, order)) \subseteq Holds(q)
         /\ ToSet(order) \subseteq Msgs
<1>2. RunOut(q) \subseteq q.leased /\ RunOut(q) \subseteq Msgs
  BY DEF RunOut, Queues
<1>0. PICK back \in SUBSET RunOut(q) : order \in SetToSeqs(back)
  BY DEF Requeued
<1>1. order \in Seq(back) /\ ToSet(order) \subseteq RunOut(q)
  <2>1. IsFiniteSet(back)
    BY <1>0, <1>2, PollAssumption, FS_Subset
  <2>2. order \in Seq(back) /\ ToSet(order) \subseteq back
    BY <1>0, <2>1, OrderSet
  <2> QED  BY <1>0, <2>2
<1>3. order \in Seq(Msgs)
  BY <1>0, <1>1, <1>2, SeqMonotonic
<1>4. q.pending \in Seq(Msgs) /\ q.leased \in SUBSET Msgs
  BY DEF Queues
<1>5. /\ q.pending \o order \in Seq(Msgs)
      /\ ToSet(q.pending \o order) = ToSet(q.pending) \cup ToSet(order)
  BY <1>3, <1>4, ConcatSet
<1>6. /\ Swept(q, order).pending = q.pending \o order
      /\ Swept(q, order).leased = q.leased \ RunOut(q)
      /\ Swept(q, order).notify = q.notify
      /\ Swept(q, order) \in Queues
  BY <1>4, <1>5 DEF Swept, Queues
<1> QED
  BY <1>1, <1>2, <1>5, <1>6 DEF Holds

\* Messages that come back without a broadcast.
LEMMA QuietOK ==
  ASSUME MsgTypes, NEW ms \in SUBSET Msgs
  PROVE  /\ Quiet(ms) \in [Msgs -> [t : Nat, loud : BOOLEAN]]
         /\ \A m \in Msgs : Quiet(ms)[m].t = msg[m].t
         /\ \A m \in Msgs : m \in ms => ~Quiet(ms)[m].loud
         /\ \A m \in Msgs : m \notin ms => Quiet(ms)[m] = msg[m]
  BY DEF Quiet, MsgTypes

\* A step on queue i that announces nothing leaves q there.
Calm(i, q) ==
  /\ q \in Queues /\ q.notify = queue[i].notify
  /\ queue' = [queue EXCEPT ![i] = q]
  /\ msg' \in [Msgs -> [t : Nat, loud : BOOLEAN]]
  /\ \A m \in Msgs : msg'[m].loud => msg[m].loud /\ msg'[m].t = msg[m].t
  /\ \A m \in ToSet(q.pending) : msg'[m].loud => m \in ToSet(queue[i].pending)

\* pruneState.
LEMMA SweepStep ==
  ASSUME Types, Sweep
  PROVE  /\ table \in 1 .. made
         /\ \E q \in Queues : Calm(table, q) /\ Holds(q) \subseteq Holds(queue[table])
<1>1. table \in 1 .. made
  BY DEF Types, QueueTypes, Sweep, None
<1>2. queue[table] \in Queues
  BY <1>1, ElementOfSeq DEF Types, QueueTypes
<1>3. PICK order \in Requeued(queue[table]) :
      /\ queue' = [queue EXCEPT ![table] = Swept(queue[table], order)]
      /\ msg' = Quiet(ToSet(order))
  BY DEF Sweep
<1> DEFINE q == Swept(queue[table], order)
<1>4. /\ q \in Queues /\ q.notify = queue[table].notify
      /\ ToSet(q.pending) = ToSet(queue[table].pending) \cup ToSet(order)
      /\ Holds(q) \subseteq Holds(queue[table]) /\ ToSet(order) \in SUBSET Msgs
  BY <1>2, SweptOK DEF Types
<1>5. queue' = [queue EXCEPT ![table] = q]
  BY <1>3
<1> HIDE DEF q
<1>6. /\ msg' \in [Msgs -> [t : Nat, loud : BOOLEAN]]
      /\ \A m \in Msgs : msg'[m].t = msg[m].t
      /\ \A m \in Msgs : m \in ToSet(order) => ~msg'[m].loud
      /\ \A m \in Msgs : m \notin ToSet(order) => msg'[m] = msg[m]
  BY <1>3, <1>4, QuietOK DEF Types
<1>7. \A m \in ToSet(q.pending) : msg'[m].loud => m \in ToSet(queue[table].pending)
  BY <1>4, <1>6
<1>8. \A m \in Msgs : msg'[m].loud => msg[m].loud /\ msg'[m].t = msg[m].t
  BY <1>6
<1> QED
  BY <1>1, <1>4, <1>5, <1>6, <1>7, <1>8 DEF Calm

\* receiveOnce: a message is taken, or nothing visible is left to wait for.
LEMMA PickStep ==
  ASSUME Types, NEW p \in Pollers, Pick(p)
  PROVE  /\ poll[p].q \in 1 .. made
         /\ \E q \in Queues :
              /\ Calm(poll[p].q, q) /\ Holds(q) \subseteq Holds(queue[poll[p].q])
              /\ \/ poll' = [poll EXCEPT ![p] = Idle]
                 \/ /\ poll' = [poll EXCEPT ![p] = [@ EXCEPT !.pc = "wait", !.ch = q.notify,
                                                             !.alarm = Recheck]]
                    /\ \A m \in ToSet(q.pending) : msg'[m].t # 0
<1> DEFINE i == poll[p].q
<1>1. i \in 1 .. made
  BY DEF Types, PollTypes, Pick
<1>2. queue[i] \in Queues
  BY <1>1, ElementOfSeq DEF Types, QueueTypes
<1>3. PICK order \in Requeued(queue[i]) :
      LET q == Swept(queue[i], order)
          k == FirstVisible(q.pending)
          m == q.pending[k]
      IN IF k > 0
         THEN /\ queue' = [queue EXCEPT ![i] =
                   [q EXCEPT !.pending = RemoveAt(@, k), !.leased = @ \cup {m}]]
              /\ msg' = [Quiet(ToSet(order)) EXCEPT
                           ![m] = [t |-> LeaseTime + 1, loud |-> FALSE]]
              /\ poll' = [poll EXCEPT ![p] = Idle]
         ELSE /\ queue' = [queue EXCEPT ![i] = q]
              /\ msg' = Quiet(ToSet(order))
              /\ poll' = [poll EXCEPT ![p] =
                   IF @.left = 0 THEN Idle
                   ELSE [@ EXCEPT !.pc = "wait", !.ch = q.notify, !.alarm = Recheck]]
  BY DEF Pick
<1> DEFINE q == Swept(queue[i], order)
           k == FirstVisible(q.pending)
           m == q.pending[k]
           quiet == Quiet(ToSet(order))
<1>4. /\ q \in Queues /\ q.notify = queue[i].notify
      /\ ToSet(q.pending) = ToSet(queue[i].pending) \cup ToSet(order)
      /\ Holds(q) \subseteq Holds(queue[i]) /\ ToSet(order) \in SUBSET Msgs
  BY <1>2, SweptOK DEF Types
<1>5. /\ quiet \in [Msgs -> [t : Nat, loud : BOOLEAN]]
      /\ \A n \in Msgs : quiet[n].t = msg[n].t
      /\ \A n \in Msgs : n \in ToSet(order) => ~quiet[n].loud
      /\ \A n \in Msgs : n \notin ToSet(order) => quiet[n] = msg[n]
  BY <1>4, QuietOK DEF Types
<1>6. /\ q.pending \in Seq(Msgs) /\ ToSet(q.pending) \subseteq Msgs
      /\ q.leased \in SUBSET Msgs /\ q.notify \in Chans
  <2>1. q.pending \in Seq(Msgs) /\ q.leased \in SUBSET Msgs /\ q.notify \in Chans
    BY <1>4 DEF Queues
  <2> QED  BY <2>1, <1>4 DEF Queues, ToSet
<1>7. \/ k \in 1 .. Len(q.pending)
      \/ k = 0 /\ \A j \in 1 .. Len(q.pending) : ~Visible(q.pending[j])
  BY <1>6, FirstVisibleOK
<1>8. CASE k \in 1 .. Len(q.pending)
  <2> DEFINE r == [q EXCEPT !.pending = RemoveAt(@, k), !.leased = @ \cup {m}]
  <2>1. k > 0 /\ m \in Msgs /\ m \in ToSet(q.pending)
    BY <1>6, <1>8 DEF ToSet
  <2>2. queue' = [queue EXCEPT ![i] = r] /\ poll' = [poll EXCEPT ![p] = Idle]
        /\ msg' = [quiet EXCEPT ![m] = [t |-> LeaseTime + 1, loud |-> FALSE]]
    BY <1>3, <2>1
  <2>3. /\ RemoveAt(q.pending, k) \in Seq(Msgs)
        /\ ToSet(RemoveAt(q.pending, k)) \subseteq ToSet(q.pending)
    BY <1>6, <1>8, RemoveSet
  <2> HIDE DEF q, k, m, quiet
  <2>4. /\ r.pending = RemoveAt(q.pending, k) /\ r.leased = q.leased \cup {m}
        /\ r.notify = q.notify /\ r \in Queues
    BY <1>4, <1>6, <2>1, <2>3 DEF Queues
  <2> HIDE DEF r
  <2>5. Holds(r) \subseteq Holds(queue[i])
    BY <1>4, <2>1, <2>3, <2>4 DEF Holds
  <2>6. LeaseTime + 1 \in Nat
    BY PollAssumption
  <2>7. msg' \in [Msgs -> [t : Nat, loud : BOOLEAN]]
    BY <1>5, <2>1, <2>2, <2>6
  <2>8. /\ ~msg'[m].loud
        /\ \A n \in Msgs : n # m => msg'[n] = quiet[n]
    BY <1>5, <2>1, <2>2
  <2>9. \A n \in Msgs : msg'[n].loud => msg[n].loud /\ msg'[n].t = msg[n].t
    BY <1>5, <2>8
  <2>10. \A n \in ToSet(r.pending) : msg'[n].loud => n \in ToSet(queue[i].pending)
    BY <1>4, <1>5, <1>6, <2>3, <2>4, <2>8
  <2> QED  BY <1>1, <1>4, <2>2, <2>4, <2>5, <2>7, <2>9, <2>10 DEF Calm
<1>9. CASE k = 0 /\ \A j \in 1 .. Len(q.pending) : ~Visible(q.pending[j])
  <2>1. /\ queue' = [queue EXCEPT ![i] = q] /\ msg' = quiet
        /\ poll' = [poll EXCEPT ![p] =
             IF @.left = 0 THEN Idle
             ELSE [@ EXCEPT !.pc = "wait", !.ch = q.notify, !.alarm = Recheck]]
    BY <1>3, <1>9
  <2> HIDE DEF q, k, m, quiet
  <2>2. \A n \in ToSet(q.pending) : msg'[n].t # 0
    <3> TAKE n \in ToSet(q.pending)
    <3>1. PICK j \in 1 .. Len(q.pending) : n = q.pending[j]
      BY <1>6 DEF ToSet
    <3>2. ~Visible(n) /\ n \in Msgs
      BY <1>6, <1>9, <3>1
    <3> QED  BY <1>5, <2>1, <3>2 DEF Visible
  <2>3. \A n \in ToSet(q.pending) : msg'[n].loud => n \in ToSet(queue[i].pending)
    BY <1>4, <1>5, <1>6, <2>1
  <2>4. \A n \in Msgs : msg'[n].loud => msg[n].loud /\ msg'[n].t = msg[n].t
    BY <1>5, <2>1
  <2>5. Calm(i, q)
    BY <1>4, <1>5, <2>1, <2>3, <2>4 DEF Calm
  <2>6. \/ poll' = [poll EXCEPT ![p] = Idle]
        \/ poll' = [poll EXCEPT ![p] = [@ EXCEPT !.pc = "wait", !.ch = q.notify,
                                                 !.alarm = Recheck]]
    BY <2>1
  <2> QED  BY <1>1, <1>4, <2>2, <2>5, <2>6
<1> QED
  BY <1>7, <1>8, <1>9

\* sendMessageLocked and changeVisibility: message m is posted to the queue of
\* call c or, given back, routed to the dead-letter queue; the call has put a new channel there and not yet closed the old one.
Posted(c, m, q) ==
  /\ q \in Queues /\ q.notify = MakeChan
  /\ ToSet(q.pending) \subseteq ToSet(queue[call[c].q].pending) \cup {m}
  /\ q.leased \subseteq queue[call[c].q].leased
  /\ queue' = [queue EXCEPT ![call[c].q] = q]
  /\ call' = [call EXCEPT ![c] = [@ EXCEPT !.pc = "close", !.old = queue[call[c].q].notify]]
  /\ closed' = closed \ {MakeChan}
  /\ msg' \in [Msgs -> [t : Nat, loud : BOOLEAN]]
  /\ \A n \in Msgs : n # m => msg'[n] = msg[n]
  /\ msg'[m].loud => msg'[m].t = 0
  /\ \/ m \in unsent /\ unsent' = unsent \ {m}
     \/ m \in queue[call[c].q].leased /\ UNCHANGED unsent
  /\ UNCHANGED <<poll, made, table>>

\* A send and a give-back both put their message into the queue and replace its
\* channel, leaving the old one to be closed.
LEMMA PostStep ==
  ASSUME Types, NEW c \in Callers, NEW m \in Msgs,
         GiveBack(c, m) \/ \E delay \in Delays : Send(c, m, delay)
  PROVE  /\ call[c].q \in 1 .. made /\ call[c].pc = "locked" /\ ~Locked(call[c].q)
         /\ \E q \in Queues : Posted(c, m, q)
<1> DEFINE i == call[c].q
           o == queue[i]
<1>1. call[c].pc = "locked" /\ ~Locked(i) /\ i \in 1 .. made
  BY DEF GiveBack, Send, Types, CallTypes
<1>2. o \in Queues /\ o.pending \in Seq(Msgs) /\ o.leased \in SUBSET Msgs
  <2>1. o \in Queues
    BY <1>1, ElementOfSeq DEF Types, QueueTypes
  <2> QED  BY <2>1 DEF Queues
<1>3. /\ Append(o.pending, m) \in Seq(Msgs)
      /\ ToSet(Append(o.pending, m)) = ToSet(o.pending) \cup {m}
  BY <1>2, AppendSet
<1>4. MakeChan \in Chans
  BY FreshChan
<1>5. msg \in [Msgs -> [t : Nat, loud : BOOLEAN]]
  BY DEF Types, MsgTypes
<1>6. CASE GiveBack(c, m)
  <2>0. PICK back \in {<<m>>, <<>>} :
          /\ Renew(c, i, [o EXCEPT !.pending = @ \o back, !.leased = @ \ {m}])
          /\ msg' = [msg EXCEPT ![m] = [t |-> 0, loud |-> back # <<>>]]
    BY <1>6 DEF GiveBack
  <2> DEFINE q == [[o EXCEPT !.pending = @ \o back, !.leased = @ \ {m}]
                     EXCEPT !.notify = MakeChan]
             loud == back # <<>>
  <2>1. /\ m \in o.leased
        /\ queue' = [queue EXCEPT ![i] = q]
        /\ call' = [call EXCEPT ![c] = [@ EXCEPT !.pc = "close", !.old = o.notify]]
        /\ closed' = closed \ {MakeChan}
        /\ msg' = [msg EXCEPT ![m] = [t |-> 0, loud |-> loud]]
        /\ UNCHANGED <<table, made, unsent, poll>>
    BY <1>6, <2>0 DEF GiveBack, Renew
  <2>a. back \in Seq(Msgs) /\ ToSet(back) \subseteq {m} /\ loud \in BOOLEAN
    <3>1. <<m>> \in Seq(Msgs) /\ ToSet(<<m>>) \subseteq {m}
      BY DEF ToSet
    <3>2. <<>> \in Seq(Msgs) /\ ToSet(<<>>) \subseteq {m}
      BY DEF ToSet
    <3>3. loud \in BOOLEAN
      OBVIOUS
    <3>4. back = <<m>> \/ back = <<>>
      BY <2>0
    <3> QED  BY <3>1, <3>2, <3>3, <3>4, Zenon
  <2> HIDE DEF loud
  <2>b. /\ o.pending \o back \in Seq(Msgs)
        /\ ToSet(o.pending \o back) = ToSet(o.pending) \cup ToSet(back)
    BY <1>2, <2>a, ConcatSet
  <2>2. /\ q \in Queues /\ q.notify = MakeChan /\ q.pending = o.pending \o back
        /\ q.leased = o.leased \ {m}
    BY <1>2, <1>4, <2>b DEF Queues
  <2> HIDE DEF q
  <2>3. /\ msg' \in [Msgs -> [t : Nat, loud : BOOLEAN]]
        /\ \A n \in Msgs : n # m => msg'[n] = msg[n]
        /\ msg'[m].t = 0
    BY <1>5, <2>1, <2>a
  <2>4. ToSet(q.pending) \subseteq ToSet(o.pending) \cup {m}
    BY <2>2, <2>a, <2>b
  <2>5. Posted(c, m, q)
    BY <2>1, <2>2, <2>3, <2>4 DEF Posted
  <2> QED  BY <1>1, <2>2, <2>5
<1>7. ASSUME NEW delay \in Delays, Send(c, m, delay)
      PROVE  \E q \in Queues : Posted(c, m, q)
  <2> DEFINE q == [[o EXCEPT !.pending = Append(@, m)] EXCEPT !.notify = MakeChan]
  <2>1. /\ m \in unsent /\ unsent' = unsent \ {m}
        /\ queue' = [queue EXCEPT ![i] = q]
        /\ call' = [call EXCEPT ![c] = [@ EXCEPT !.pc = "close", !.old = o.notify]]
        /\ closed' = closed \ {MakeChan}
        /\ msg' = [msg EXCEPT ![m] = [t |-> delay, loud |-> delay = 0]]
        /\ UNCHANGED <<table, made, poll>>
    BY <1>7 DEF Send, Renew
  <2>2. /\ q \in Queues /\ q.notify = MakeChan /\ q.pending = Append(o.pending, m)
        /\ q.leased = o.leased
    BY <1>2, <1>3, <1>4 DEF Queues
  <2> HIDE DEF q
  <2>3. delay \in Nat /\ (delay = 0) \in BOOLEAN
    BY PollAssumption
  <2>4. /\ msg' \in [Msgs -> [t : Nat, loud : BOOLEAN]]
        /\ \A n \in Msgs : n # m => msg'[n] = msg[n]
    BY <1>5, <2>1, <2>3
  <2>5. msg'[m].loud => msg'[m].t = 0
    BY <1>5, <2>1, <2>3
  <2>6. Posted(c, m, q)
    BY <1>3, <2>1, <2>2, <2>4, <2>5 DEF Posted
  <2> QED  BY <2>2, <2>6
<1> QED
  BY <1>1, <1>6, <1>7

\* DeleteMessage takes a message out of a queue.
LEMMA AckStep ==
  ASSUME Types, NEW m \in Msgs, Ack(m)
  PROVE  /\ table \in 1 .. made
         /\ UNCHANGED <<poll, call, closed>>
         /\ \E q \in Queues : Calm(table, q) /\ Holds(q) \subseteq Holds(queue[table])
<1>1. table \in 1 .. made
  BY DEF Types, QueueTypes, Ack, None
<1>2. queue[table] \in Queues
  BY <1>1, ElementOfSeq DEF Types, QueueTypes
<1> DEFINE q == [queue[table] EXCEPT !.leased = @ \ {m}]
<1>3. /\ queue' = [queue EXCEPT ![table] = q] /\ UNCHANGED <<poll, call, closed>>
      /\ msg' = [msg EXCEPT ![m] = [t |-> 0, loud |-> FALSE]]
  BY <1>1, <1>2 DEF Ack, Types, QueueTypes
<1>4. /\ q \in Queues /\ q.notify = queue[table].notify
      /\ q.pending = queue[table].pending /\ q.leased \subseteq queue[table].leased
  BY <1>2 DEF Queues
<1> HIDE DEF q
<1>5. Holds(q) \subseteq Holds(queue[table])
  BY <1>4 DEF Holds
<1>6. /\ msg' \in [Msgs -> [t : Nat, loud : BOOLEAN]]
      /\ \A n \in Msgs : msg'[n].loud => msg[n].loud /\ msg'[n].t = msg[n].t
  BY <1>3 DEF Types, MsgTypes
<1> QED
  BY <1>1, <1>3, <1>4, <1>5, <1>6 DEF Calm

\* tryRouteToDLQ of another queue brings a message and announces nothing.
LEMMA DeadLetterStep ==
  ASSUME Types, NEW m \in Msgs, NEW i \in 1 .. MaxQueues, DeadLetter(i, m)
  PROVE  /\ i \in 1 .. made /\ m \in unsent /\ unsent' = unsent \ {m}
         /\ UNCHANGED <<table, made, poll, call, closed>>
         /\ \E q \in Queues : Calm(i, q) /\ Holds(q) \subseteq Holds(queue[i]) \cup {m}
<1>1. /\ i \in 1 .. made /\ m \in unsent /\ unsent' = unsent \ {m}
      /\ UNCHANGED <<table, made, poll, call, closed>>
  BY LenProperties DEF Types, QueueTypes, DeadLetter
<1>2. queue[i] \in Queues /\ queue[i].pending \in Seq(Msgs)
  <2>1. queue[i] \in Queues
    BY <1>1, ElementOfSeq DEF Types, QueueTypes
  <2> QED  BY <2>1 DEF Queues
<1> DEFINE q == [queue[i] EXCEPT !.pending = Append(@, m)]
<1>3. /\ queue' = [queue EXCEPT ![i] = q]
      /\ msg' = [msg EXCEPT ![m] = [t |-> 0, loud |-> FALSE]]
  BY <1>1, <1>2 DEF DeadLetter, Types, QueueTypes
<1>4. /\ Append(queue[i].pending, m) \in Seq(Msgs)
      /\ ToSet(Append(queue[i].pending, m)) = ToSet(queue[i].pending) \cup {m}
  BY <1>2, AppendSet
<1>5. /\ q \in Queues /\ q.notify = queue[i].notify
      /\ q.pending = Append(queue[i].pending, m) /\ q.leased = queue[i].leased
  BY <1>2, <1>4 DEF Queues
<1> HIDE DEF q
<1>6. Holds(q) \subseteq Holds(queue[i]) \cup {m}
  BY <1>4, <1>5 DEF Holds
<1>7. /\ msg' \in [Msgs -> [t : Nat, loud : BOOLEAN]] /\ ~msg'[m].loud
      /\ \A n \in Msgs : msg'[n].loud => msg[n].loud /\ msg'[n].t = msg[n].t
  BY <1>3 DEF Types, MsgTypes
<1>8. \A n \in ToSet(q.pending) : msg'[n].loud => n \in ToSet(queue[i].pending)
  BY <1>4, <1>5, <1>7
<1> QED
  BY <1>1, <1>3, <1>5, <1>6, <1>7, <1>8 DEF Calm

\* CreateQueue.
LEMMA CreateStep ==
  ASSUME Types, CreateQueue
  PROVE  /\ made' = made + 1 /\ made' \in Nat /\ made' <= MaxQueues /\ table' = made'
         /\ queue' \in Seq(Queues) /\ Len(queue') = made'
         /\ \A j \in 1 .. made : queue'[j] = queue[j]
         /\ Holds(queue'[made']) = {} /\ queue'[made'].pending = <<>>
<1> DEFINE q == [pending |-> <<>>, leased |-> {}, notify |-> MakeChan]
<1>1. /\ made \in Nat /\ made < MaxQueues /\ made' = made + 1 /\ table' = made + 1
      /\ queue' = Append(queue, q) /\ queue \in Seq(Queues) /\ Len(queue) = made
  BY LenProperties DEF Types, QueueTypes, CreateQueue
<1>2. q \in Queues /\ Holds(q) = {} /\ q.pending = <<>>
  BY FreshChan DEF Queues, Holds, ToSet
<1> HIDE DEF q
<1>3. /\ queue' \in Seq(Queues) /\ Len(queue') = made + 1
      /\ \A j \in 1 .. made : queue'[j] = queue[j]
      /\ queue'[made + 1] = q
  BY <1>1, <1>2, AppendProperties
<1> QED
  BY <1>1, <1>2, <1>3, PollAssumption
-----------------------------------------------------------------------------
(* Every step keeps the types.                                             *)

\* The queues made so far keep their types, and the table names one of them or none.
LEMMA QueueTypesStep ==
  ASSUME Types, [Next]_vars
  PROVE  QueueTypes'
<1>t. queue \in Seq(Queues) /\ made = Len(queue) /\ made \in Nat /\ made <= MaxQueues
      /\ table \in 0 .. made
  BY LenProperties DEF Types, QueueTypes
<1>1. ASSUME NEW i \in 1 .. made, NEW q \in Queues, queue' = [queue EXCEPT ![i] = q],
             UNCHANGED <<made, table>>
      PROVE  QueueTypes'
  BY <1>t, <1>1, QueueAt DEF QueueTypes, Types
<1>2. CASE UNCHANGED <<queue, made>> /\ table' \in {table, None}
  BY <1>t, <1>2 DEF QueueTypes, None
<1>3. ASSUME NEW p \in Pollers, Pick(p) PROVE QueueTypes'
  <2>1. UNCHANGED <<made, table>>
    BY <1>3 DEF Pick
  <2> QED  BY <1>1, <1>3, <2>1, PickStep, ZenonT(40) DEF Calm
<1>4. CASE Sweep
  <2>1. UNCHANGED <<made, table>>
    BY <1>4 DEF Sweep
  <2> QED  BY <1>1, <1>4, <2>1, SweepStep DEF Calm
<1>5. ASSUME NEW m \in Msgs, Ack(m) PROVE QueueTypes'
  <2>1. UNCHANGED <<made, table>>
    BY <1>5 DEF Ack
  <2> QED  BY <1>1, <1>5, <2>1, AckStep DEF Calm
<1>6. ASSUME NEW c \in Callers, NEW m \in Msgs,
             GiveBack(c, m) \/ \E delay \in Delays : Send(c, m, delay)
      PROVE  QueueTypes'
  BY <1>1, <1>6, PostStep DEF Posted
<1>7. CASE CreateQueue
  BY <1>7, CreateStep DEF QueueTypes
<1>8. ASSUME NEW m \in Msgs, NEW i \in 1 .. MaxQueues, DeadLetter(i, m) PROVE QueueTypes'
  BY <1>1, <1>8, DeadLetterStep DEF Calm
<1> QED
  BY <1>2, <1>3, <1>4, <1>5, <1>6, <1>7, <1>8
  DEF Next, vars, StartPoll, Lookup, PickOverLimit, Wake, Find, CallFails, Broadcast,
      DeleteQueue, DeleteCloses, Reset, Tick

\* One second less.
LEMMA LessNat == \A t \in Nat : Less(t) \in Nat /\ (t = 0 => Less(t) = 0)
  BY DEF Less

\* A second passes for the messages.
LEMMA TickMsgs ==
  ASSUME Types, Tick
  PROVE  /\ msg' \in [Msgs -> [t : Nat, loud : BOOLEAN]]
         /\ \A m \in Msgs : msg'[m].loud = msg[m].loud /\ msg'[m].t = Less(msg[m].t)
<1>1. msg \in [Msgs -> [t : Nat, loud : BOOLEAN]]
  BY DEF Types, MsgTypes
<1>2. msg' = [m \in Msgs |-> [msg[m] EXCEPT !.t = Less(@)]]
  BY DEF Tick
<1>3. ASSUME NEW m \in Msgs
      PROVE  /\ msg'[m] \in [t : Nat, loud : BOOLEAN]
             /\ msg'[m].loud = msg[m].loud /\ msg'[m].t = Less(msg[m].t)
  BY <1>1, <1>2, LessNat
<1> QED
  BY <1>2, <1>3

\* A message that came with a broadcast has no delay left.
LEMMA MsgTypesStep ==
  ASSUME Types, LoudVisible, [Next]_vars
  PROVE  MsgTypes' /\ LoudVisible'
<1>t. msg \in [Msgs -> [t : Nat, loud : BOOLEAN]] /\ unsent \subseteq Msgs
  BY DEF Types, MsgTypes
<1>1. ASSUME NEW i, NEW q, Calm(i, q), unsent' \subseteq unsent PROVE MsgTypes' /\ LoudVisible'
  BY <1>t, <1>1 DEF Calm, MsgTypes, LoudVisible, Visible
<1>2. CASE UNCHANGED <<msg, unsent>>
  BY <1>2, <1>t DEF MsgTypes, LoudVisible, Visible
<1>3. ASSUME NEW p \in Pollers, Pick(p) PROVE MsgTypes' /\ LoudVisible'
  <2>1. UNCHANGED unsent
    BY <1>3 DEF Pick
  <2> QED  BY <1>1, <1>3, <2>1, PickStep
<1>4. CASE Sweep
  <2>1. UNCHANGED unsent
    BY <1>4 DEF Sweep
  <2> QED  BY <1>1, <1>4, <2>1, SweepStep
<1>5. ASSUME NEW c \in Callers, NEW m \in Msgs,
             GiveBack(c, m) \/ \E delay \in Delays : Send(c, m, delay)
      PROVE  MsgTypes' /\ LoudVisible'
  <2>1. PICK q \in Queues : Posted(c, m, q)
    BY <1>5, PostStep
  <2>2. MsgTypes'
    BY <1>t, <2>1 DEF Posted, MsgTypes
  <2>3. LoudVisible'
    BY <2>1 DEF Posted, LoudVisible, Visible
  <2> QED  BY <2>2, <2>3
<1>6. CASE Tick
  <2>1. MsgTypes'
    BY <1>t, <1>6, TickMsgs DEF MsgTypes, Tick
  <2>2. LoudVisible'
    BY <1>t, <1>6, TickMsgs, LessNat DEF LoudVisible, Visible
  <2> QED  BY <2>1, <2>2
<1>7. ASSUME NEW m \in Msgs, Ack(m) PROVE MsgTypes' /\ LoudVisible'
  <2>1. UNCHANGED unsent
    BY <1>7 DEF Ack
  <2> QED  BY <1>1, <1>7, <2>1, AckStep
<1>8. ASSUME NEW m \in Msgs, NEW i \in 1 .. MaxQueues, DeadLetter(i, m)
      PROVE  MsgTypes' /\ LoudVisible'
  BY <1>1, <1>8, DeadLetterStep
<1> QED
  BY <1>2, <1>3, <1>4, <1>5, <1>6, <1>7, <1>8
  DEF Next, vars, StartPoll, Lookup, PickOverLimit, Wake, Find, CallFails, Broadcast,
      DeleteQueue, DeleteCloses, Reset, CreateQueue

\* Queues are only added.
LEMMA MadeGrows ==
  ASSUME Types, [Next]_vars
  PROVE  made \in Nat /\ made' \in Nat /\ made <= made'
<1>1. made \in Nat
  BY LenProperties DEF Types, QueueTypes
<1>2. made' = made \/ made' = made + 1
  BY DEF Next, vars, StartPoll, Lookup, Pick, PickOverLimit, Wake, Find, CallFails,
     Broadcast, Send, GiveBack, Ack, DeadLetter, Sweep, DeleteQueue, DeleteCloses, Reset, CreateQueue, Tick
<1> QED
  BY <1>1, <1>2

\* A poll that picks or waits does so on a queue that was made.
LEMMA PollTypesStep ==
  ASSUME Types, [Next]_vars
  PROVE  PollTypes'
<1>t. poll \in [Pollers -> Polls] /\ table \in 0 .. made
      /\ \A p \in Pollers : poll[p].pc \in {"pick", "wait"} => poll[p].q \in 1 .. made
  BY DEF Types, PollTypes, QueueTypes
<1>m. made \in Nat /\ made' \in Nat /\ made <= made'
  BY MadeGrows
<1>i. Idle \in Polls /\ Idle.pc = "idle"
  BY DEF Polls, Idle, None
<1>1. ASSUME NEW p \in Pollers, NEW r \in Polls, poll' = [poll EXCEPT ![p] = r],
             r.pc \in {"pick", "wait"} => r.q \in 1 .. made
      PROVE  PollTypes'
  <2>1. poll' \in [Pollers -> Polls]
    BY <1>t, <1>1
  <2>2. ASSUME NEW x \in Pollers, poll'[x].pc \in {"pick", "wait"} PROVE poll'[x].q \in 1 .. made'
    <3>1. poll'[x].q \in 1 .. made
      BY <1>t, <1>1, <2>2
    <3> QED  BY <1>m, <3>1
  <2> QED  BY <2>1, <2>2 DEF PollTypes
<1>2. CASE UNCHANGED poll
  BY <1>t, <1>m, <1>2 DEF PollTypes
<1>3. ASSUME NEW p \in Pollers, StartPoll(p) PROVE PollTypes'
  <2> DEFINE r == [Idle EXCEPT !.pc = "lookup", !.left = Wait]
  <2>1. r \in Polls /\ r.pc = "lookup"
    BY PollAssumption DEF Polls, Idle, None
  <2> QED  BY <1>1, <1>3, <2>1 DEF StartPoll
<1>4. ASSUME NEW p \in Pollers, Lookup(p) PROVE PollTypes'
  <2>1. CASE table = None
    BY <1>1, <1>i, <1>4, <2>1 DEF Lookup
  <2>2. CASE table # None
    <3> DEFINE r == [poll[p] EXCEPT !.pc = "pick", !.q = table]
    <3>1. table \in 1 .. made /\ table \in Nat
      BY <1>t, <1>m, <2>2 DEF None
    <3>2. r \in Polls /\ r.q = table
      BY <1>t, <3>1 DEF Polls
    <3>3. poll' = [poll EXCEPT ![p] = r]
      BY <1>4, <2>2 DEF Lookup
    <3> HIDE DEF r
    <3> QED  BY <1>1, <3>1, <3>2, <3>3
  <2> QED  BY <2>1, <2>2
<1>5. ASSUME NEW p \in Pollers, PickOverLimit(p) PROVE PollTypes'
  BY <1>1, <1>i, <1>5 DEF PickOverLimit
<1>6. ASSUME NEW p \in Pollers, Wake(p) PROVE PollTypes'
  <2> DEFINE r == [poll[p] EXCEPT !.pc = "lookup", !.q = None, !.ch = None, !.alarm = 0]
  <2>1. r \in Polls /\ r.pc = "lookup"
    BY <1>t DEF Polls, None
  <2>2. poll' = [poll EXCEPT ![p] = r]
    BY <1>6 DEF Wake
  <2> HIDE DEF r
  <2> QED  BY <1>1, <2>1, <2>2
<1>7. ASSUME NEW p \in Pollers, Pick(p) PROVE PollTypes'
  <2>1. PICK q \in Queues :
        \/ poll' = [poll EXCEPT ![p] = Idle]
        \/ poll' = [poll EXCEPT ![p] = [@ EXCEPT !.pc = "wait", !.ch = q.notify,
                                                 !.alarm = Recheck]]
    BY <1>7, PickStep
  <2> DEFINE r == [poll[p] EXCEPT !.pc = "wait", !.ch = q.notify, !.alarm = Recheck]
  <2>2. r \in Polls /\ r.q = poll[p].q
    BY <1>t DEF Polls, Recheck, Queues
  <2>3. poll[p].q \in 1 .. made
    BY <1>7, PickStep
  <2>4. poll' = [poll EXCEPT ![p] = Idle] \/ poll' = [poll EXCEPT ![p] = r]
    BY <2>1
  <2> HIDE DEF r
  <2> QED  BY <1>1, <1>i, <2>2, <2>3, <2>4
<1>8. CASE Tick
  <2>1. ASSUME NEW p \in Pollers
        PROVE  poll'[p] \in Polls /\ poll'[p].pc = poll[p].pc /\ poll'[p].q = poll[p].q
    <3>1. poll[p] \in Polls /\ Less(poll[p].left) \in Nat /\ Less(poll[p].alarm) \in Nat
      BY <1>t, LessNat DEF Polls
    <3>2. poll'[p] = [poll[p] EXCEPT !.left = Less(@), !.alarm = Less(@)]
      BY <1>8 DEF Tick
    <3> QED  BY <3>1, <3>2 DEF Polls
  <2>2. poll' \in [Pollers -> Polls] /\ made' = made
    BY <1>8, <2>1 DEF Tick
  <2> QED  BY <1>t, <2>1, <2>2 DEF PollTypes
<1> QED
  BY <1>2, <1>3, <1>4, <1>5, <1>6, <1>7, <1>8
  DEF Next, vars, Find, CallFails, Broadcast, Send, GiveBack, Ack, DeadLetter, Sweep,
      DeleteQueue, DeleteCloses, Reset, CreateQueue

\* A call that has found its queue has found one that was made.
LEMMA CallTypesStep ==
  ASSUME Types, [Next]_vars
  PROVE  CallTypes'
<1>t. call \in [Callers -> Calls] /\ table \in 0 .. made
      /\ \A c \in Callers : call[c].pc \in {"locked", "close"} => call[c].q \in 1 .. made
  BY DEF Types, CallTypes, QueueTypes
<1>m. made \in Nat /\ made' \in Nat /\ made <= made'
  BY MadeGrows
<1>i. NoCall \in Calls /\ NoCall.pc = "idle"
  BY DEF Calls, NoCall, None
<1>1. ASSUME NEW c \in Callers, NEW r \in Calls, call' = [call EXCEPT ![c] = r],
             r.pc \in {"locked", "close"} => r.q \in 1 .. made
      PROVE  CallTypes'
  <2>1. call' \in [Callers -> Calls]
    BY <1>t, <1>1
  <2>2. ASSUME NEW x \in Callers, call'[x].pc \in {"locked", "close"} PROVE call'[x].q \in 1 .. made'
    <3>1. call'[x].q \in 1 .. made
      BY <1>t, <1>1, <2>2
    <3> QED  BY <1>m, <3>1
  <2> QED  BY <2>1, <2>2 DEF CallTypes
<1>2. CASE UNCHANGED call
  BY <1>t, <1>m, <1>2 DEF CallTypes
<1>3. ASSUME NEW c \in Callers, Find(c) PROVE CallTypes'
  <2> DEFINE r == [NoCall EXCEPT !.pc = "locked", !.q = table]
  <2>1. table \in 1 .. made /\ table \in Nat
    BY <1>3, <1>t, <1>m DEF Find, None
  <2>2. r \in Calls /\ r.q = table
    BY <2>1 DEF Calls, NoCall, None
  <2> QED  BY <1>1, <1>3, <2>1, <2>2 DEF Find
<1>4. ASSUME NEW c \in Callers, CallFails(c) \/ Broadcast(c) PROVE CallTypes'
  BY <1>1, <1>i, <1>4 DEF CallFails, Broadcast
<1>5. ASSUME NEW c \in Callers, NEW m \in Msgs,
             GiveBack(c, m) \/ \E delay \in Delays : Send(c, m, delay)
      PROVE  CallTypes'
  <2> DEFINE r == [call[c] EXCEPT !.pc = "close", !.old = queue[call[c].q].notify]
  <2>1. call[c].q \in 1 .. made /\ call' = [call EXCEPT ![c] = r]
    BY <1>5, PostStep DEF Posted
  <2>2. queue[call[c].q].notify \in Chans
    <3>1. queue[call[c].q] \in Queues
      BY <2>1, ElementOfSeq DEF Types, QueueTypes
    <3> QED  BY <3>1 DEF Queues
  <2>3. r \in Calls /\ r.q = call[c].q
    BY <1>t, <2>2 DEF Calls
  <2> HIDE DEF r
  <2> QED  BY <1>1, <2>1, <2>3
<1> QED
  BY <1>2, <1>3, <1>4, <1>5
  DEF Next, vars, StartPoll, Lookup, Pick, PickOverLimit, Wake, Ack, DeadLetter, Sweep,
      DeleteQueue, DeleteCloses, Reset, CreateQueue, Tick
-----------------------------------------------------------------------------
(* A message is in one queue.                                              *)

\* No step puts a message into a second queue: what is sent was nowhere, what is
\* given back was leased in that queue.
LEMMA ApartStep ==
  ASSUME Types, Apart, [Next]_vars
  PROVE  Apart'
<1>t. made \in Nat /\ QueueTypes
  BY LenProperties DEF Types, QueueTypes
<1>1. ASSUME UNCHANGED <<made, unsent>>,
             \A j \in 1 .. made : Holds(queue'[j]) \subseteq Holds(queue[j])
      PROVE  Apart'
  <2>1. \A i, j \in 1 .. made : i # j => Holds(queue'[i]) \cap Holds(queue'[j]) = {}
    BY <1>1 DEF Apart
  <2>2. \A i \in 1 .. made : Holds(queue'[i]) \cap unsent = {}
    BY <1>1 DEF Apart
  <2> QED  BY <1>1, <2>1, <2>2 DEF Apart, Holds
<1>2. ASSUME NEW i \in 1 .. made, NEW q \in Queues, Calm(i, q),
             Holds(q) \subseteq Holds(queue[i]), UNCHANGED <<made, unsent>>
      PROVE  Apart'
  <2>1. \A j \in 1 .. made : queue'[j] = IF j = i THEN q ELSE queue[j]
    BY <1>t, <1>2, QueueAt DEF Calm
  <2>2. \A j \in 1 .. made : Holds(queue'[j]) \subseteq Holds(queue[j])
    BY <1>2, <2>1 DEF Calm
  <2> QED  BY <1>1, <1>2, <2>2
<1>3. CASE UNCHANGED <<queue, made, unsent>>
  BY <1>1, <1>3
<1>4. ASSUME NEW p \in Pollers, Pick(p) PROVE Apart'
  <2>1. UNCHANGED <<made, unsent>>
    BY <1>4 DEF Pick
  <2> QED  BY <1>2, <1>4, <2>1, PickStep
<1>5. CASE Sweep
  <2>1. UNCHANGED <<made, unsent>>
    BY <1>5 DEF Sweep
  <2> QED  BY <1>2, <1>5, <2>1, SweepStep
<1>6. ASSUME NEW m \in Msgs, Ack(m) PROVE Apart'
  <2>1. UNCHANGED <<made, unsent>>
    BY <1>6 DEF Ack
  <2> QED  BY <1>2, <1>6, <2>1, AckStep
<1>7. ASSUME NEW c \in Callers, NEW m \in Msgs,
             GiveBack(c, m) \/ \E delay \in Delays : Send(c, m, delay)
      PROVE  Apart'
  <2> DEFINE i == call[c].q
  <2>1. PICK q \in Queues : Posted(c, m, q)
    BY <1>7, PostStep
  <2>2. i \in 1 .. made
    BY <1>7, PostStep
  <2>3. \A j \in 1 .. made : queue'[j] = IF j = i THEN q ELSE queue[j]
    BY <1>t, <2>1, <2>2, QueueAt DEF Posted
  <2>4. /\ Holds(q) \subseteq Holds(queue[i]) \cup {m} /\ made' = made
        /\ unsent' \subseteq unsent
    BY <2>1 DEF Posted, Holds
  <2>5. \A j \in 1 .. made : j # i => m \notin Holds(queue[j])
    <3>1. CASE m \in unsent
      BY <3>1 DEF Apart
    <3>2. CASE m \in queue[i].leased
      BY <2>2, <3>2 DEF Apart, Holds
    <3> QED  BY <2>1, <3>1, <3>2 DEF Posted
  <2>6. m \notin unsent'
    <3>1. CASE unsent' = unsent \ {m}
      BY <3>1
    <3>2. CASE m \in queue[i].leased /\ UNCHANGED unsent
      BY <2>2, <3>2 DEF Apart, Holds
    <3> QED  BY <2>1, <3>1, <3>2 DEF Posted
  <2> HIDE DEF i
  <2>7. ASSUME NEW j \in 1 .. made, NEW k \in 1 .. made, j # k
        PROVE  Holds(queue'[j]) \cap Holds(queue'[k]) = {}
    <3>1. Holds(queue[j]) \cap Holds(queue[k]) = {}
      BY <2>7 DEF Apart
    <3>2. CASE j = i
      BY <2>3, <2>4, <2>5, <2>7, <3>1, <3>2
    <3>3. CASE k = i
      BY <2>3, <2>4, <2>5, <2>7, <3>1, <3>3
    <3>4. CASE j # i /\ k # i
      BY <2>3, <3>1, <3>4
    <3> QED  BY <3>2, <3>3, <3>4
  <2>8. ASSUME NEW j \in 1 .. made PROVE Holds(queue'[j]) \cap unsent' = {}
    <3>1. Holds(queue[j]) \cap unsent = {}
      BY DEF Apart
    <3> QED  BY <2>3, <2>4, <2>6, <3>1
  <2> QED  BY <2>4, <2>7, <2>8 DEF Apart, Holds
<1>8. CASE CreateQueue
  <2>1. /\ made' = made + 1 /\ UNCHANGED unsent
        /\ \A j \in 1 .. made : queue'[j] = queue[j]
        /\ Holds(queue'[made']) = {}
    BY <1>8, CreateStep DEF CreateQueue
  <2>2. \A j \in 1 .. made' : j \in 1 .. made \/ j = made'
    BY <1>t, <2>1
  <2>3. \A j \in 1 .. made' : Holds(queue'[j]) = {} \/ (j \in 1 .. made /\ queue'[j] = queue[j])
    BY <2>1, <2>2
  <2>4. \A i, j \in 1 .. made' : i # j => Holds(queue'[i]) \cap Holds(queue'[j]) = {}
    BY <2>3 DEF Apart
  <2>5. \A i \in 1 .. made' : Holds(queue'[i]) \cap unsent' = {}
    BY <2>1, <2>3 DEF Apart
  <2> QED  BY <2>4, <2>5 DEF Apart, Holds
<1>9. ASSUME NEW m \in Msgs, NEW i \in 1 .. MaxQueues, DeadLetter(i, m) PROVE Apart'
  <2>1. i \in 1 .. made /\ m \in unsent /\ unsent' = unsent \ {m} /\ made' = made
    BY <1>9, DeadLetterStep
  <2>2. PICK q \in Queues : Calm(i, q) /\ Holds(q) \subseteq Holds(queue[i]) \cup {m}
    BY <1>9, DeadLetterStep
  <2>3. \A j \in 1 .. made : queue'[j] = IF j = i THEN q ELSE queue[j]
    BY <1>t, <2>1, <2>2, QueueAt DEF Calm
  <2>4. \A j \in 1 .. made : m \notin Holds(queue[j])
    BY <2>1 DEF Apart
  <2>5. ASSUME NEW j \in 1 .. made, NEW k \in 1 .. made, j # k
        PROVE  Holds(queue'[j]) \cap Holds(queue'[k]) = {}
    <3>1. Holds(queue[j]) \cap Holds(queue[k]) = {}
      BY <2>5 DEF Apart
    <3> QED  BY <2>2, <2>3, <2>4, <2>5, <3>1
  <2>6. ASSUME NEW j \in 1 .. made PROVE Holds(queue'[j]) \cap unsent' = {}
    <3>1. Holds(queue[j]) \cap unsent = {}
      BY DEF Apart
    <3> QED  BY <2>1, <2>2, <2>3, <3>1
  <2> QED  BY <2>1, <2>5, <2>6 DEF Apart, Holds
<1> QED
  BY <1>3, <1>4, <1>5, <1>6, <1>7, <1>8, <1>9
  DEF Next, vars, StartPoll, Lookup, PickOverLimit, Wake, Find, CallFails, Broadcast,
      DeleteQueue, DeleteCloses, Reset, Tick
-----------------------------------------------------------------------------
(* No poll misses a message.                                               *)

\* A channel that somebody refers to is not made anew.
LEMMA ChanKept ==
  ASSUME Types, NEW p \in Pollers
  PROVE  poll[p].ch # MakeChan
  BY FreshChan DEF Used

\* A poll that waits next to a message it was to be woken for has a channel that is
\* closed or about to be, whatever broadcasts, deletions and resets come between.
LEMMA AllToldStep ==
  ASSUME Types, LoudVisible, Apart, AllTold, [Next]_vars
  PROVE  AllTold'
<1>t. /\ QueueTypes /\ made \in Nat /\ poll \in [Pollers -> Polls] /\ call \in [Callers -> Calls]
      /\ msg \in [Msgs -> [t : Nat, loud : BOOLEAN]]
      /\ \A p \in Pollers : poll[p].pc = "wait" => poll[p].q \in 1 .. made
      /\ \A i \in 1 .. made : queue[i] \in Queues /\ ToSet(queue[i].pending) \subseteq Msgs
  <2>1. queue \in Seq(Queues) /\ made = Len(queue)
    BY DEF Types, QueueTypes
  <2>2. \A i \in 1 .. made : queue[i] \in Queues
    BY <2>1, ElementOfSeq
  <2>3. \A q \in Queues : ToSet(q.pending) \subseteq Msgs
    BY DEF Queues, ToSet
  <2> QED  BY <2>1, <2>2, <2>3, LenProperties DEF Types, QueueTypes, PollTypes, CallTypes, MsgTypes
\* Polls that were asleep and stay so.
<1> DEFINE Stays(p) == poll[p].pc = "wait" /\ poll'[p].ch = poll[p].ch /\ poll'[p].q = poll[p].q
\* Channels are closed, and the calls and the queues are as they were.
<1>1. ASSUME UNCHANGED <<queue, msg, call>>, closed \subseteq closed',
             \A p \in Pollers : poll'[p].pc = "wait" => Stays(p)
      PROVE  AllTold'
  BY <1>1 DEF AllTold, Told, Silent, Visible
\* A queue is left by a receive or a sweep.
<1>2. ASSUME NEW i \in 1 .. made, NEW q \in Queues, Calm(i, q), UNCHANGED <<call, closed>>,
             NEW p \in Pollers, Stays(p)
      PROVE  Told(p)'
  <2>1. \A j \in 1 .. made : queue'[j] = IF j = i THEN q ELSE queue[j]
    BY <1>t, <1>2, QueueAt DEF Calm
  <2>2. Told(p) /\ poll[p].q \in 1 .. made
    BY <1>2, <1>t DEF AllTold
  <2> DEFINE j == poll[p].q
  <2>3. queue'[j].notify = queue[j].notify
    BY <1>2, <2>1, <2>2 DEF Calm
  <2>4. ASSUME Silent(queue[j]), NEW m \in ToSet(queue'[j].pending)
        PROVE  ~(msg'[m].loud /\ msg'[m].t = 0)
    <3> SUFFICES ASSUME msg'[m].loud, msg'[m].t = 0 PROVE FALSE
      OBVIOUS
    <3>1. m \in ToSet(queue[j].pending)
      <4>1. CASE j = i
        BY <1>2, <2>1, <2>2, <2>4, <4>1 DEF Calm
      <4>2. CASE j # i
        BY <2>1, <2>2, <2>4, <4>2
      <4> QED  BY <4>1, <4>2
    <3>2. m \in Msgs
      BY <1>t, <2>2, <3>1
    <3>3. msg[m].loud /\ msg[m].t = 0
      BY <1>2, <3>2 DEF Calm
    <3> QED  BY <2>4, <3>1, <3>3 DEF Silent, Visible
  <2>5. CASE poll[p].ch \in closed
    BY <1>2, <2>5 DEF Told
  <2>6. CASE poll[p].ch = queue[j].notify /\ Silent(queue[j])
    BY <1>2, <2>3, <2>4, <2>6 DEF Told, Silent, Visible
  <2>7. CASE \E c \in Callers : /\ call[c].pc = "close" /\ call[c].q = poll[p].q
                                /\ call[c].old = poll[p].ch
    BY <1>2, <2>7 DEF Told
  <2> QED  BY <2>2, <2>5, <2>6, <2>7 DEF Told
<1>3. ASSUME NEW p \in Pollers, StartPoll(p) \/ Lookup(p) \/ PickOverLimit(p) \/ Wake(p)
      PROVE  AllTold'
  <2>1. UNCHANGED <<queue, msg, call, closed>> /\ \E r : poll' = [poll EXCEPT ![p] = r]
    BY <1>3 DEF StartPoll, Lookup, PickOverLimit, Wake
  <2>2. \A x \in Pollers : x # p => poll'[x] = poll[x]
    BY <1>t, <2>1
  <2>3. poll'[p].pc # "wait"
    <3>1. CASE StartPoll(p)
      BY <1>t, <3>1 DEF StartPoll, Idle
    <3>2. CASE Lookup(p)
      BY <1>t, <3>2 DEF Lookup, Idle, Polls
    <3>3. CASE PickOverLimit(p)
      BY <1>t, <3>3 DEF PickOverLimit, Idle
    <3>4. CASE Wake(p)
      BY <1>t, <3>4 DEF Wake, Polls
    <3> QED  BY <1>3, <3>1, <3>2, <3>3, <3>4
  <2> QED  BY <1>1, <2>1, <2>2, <2>3
<1>4. ASSUME NEW p \in Pollers, Pick(p) PROVE AllTold'
  <2> DEFINE i == poll[p].q
  <2>1. PICK q \in Queues :
          /\ Calm(i, q)
          /\ \/ poll' = [poll EXCEPT ![p] = Idle]
             \/ /\ poll' = [poll EXCEPT ![p] = [@ EXCEPT !.pc = "wait", !.ch = q.notify,
                                                         !.alarm = Recheck]]
                /\ \A m \in ToSet(q.pending) : msg'[m].t # 0
    BY <1>4, PickStep
  <2>2. i \in 1 .. made /\ UNCHANGED <<call, closed>>
    BY <1>4, PickStep DEF Pick
  <2>3. ASSUME NEW x \in Pollers, x # p, poll'[x].pc = "wait" PROVE Told(x)'
    <3>1. poll'[x] = poll[x]
      BY <1>t, <2>1, <2>3
    <3> QED  BY <1>2, <2>1, <2>2, <2>3, <3>1
  <2>4. ASSUME poll'[p].pc = "wait" PROVE Told(p)'
    <3>1. poll'[p].ch = q.notify /\ poll'[p].q = i /\ \A m \in ToSet(q.pending) : msg'[m].t # 0
      <4>1. poll' # [poll EXCEPT ![p] = Idle]
        BY <1>t, <2>4 DEF Idle
      <4>2. poll'[p] = [poll[p] EXCEPT !.pc = "wait", !.ch = q.notify, !.alarm = Recheck]
        BY <1>t, <2>1, <4>1
      <4> QED  BY <1>t, <2>1, <4>1, <4>2 DEF Polls
    <3>2. queue'[i] = q
      BY <1>t, <2>1, <2>2, QueueAt DEF Calm
    <3> QED  BY <3>1, <3>2 DEF Told, Silent, Visible
  <2> QED  BY <2>3, <2>4 DEF AllTold
<1>5. CASE Sweep
  <2>1. UNCHANGED <<poll, call, closed>>
    BY <1>5 DEF Sweep
  <2> QED  BY <1>2, <1>5, <2>1, SweepStep DEF AllTold
<1>6. ASSUME NEW m \in Msgs, Ack(m) PROVE AllTold'
  BY <1>2, <1>6, AckStep DEF AllTold
<1>7. ASSUME NEW c \in Callers, Find(c) \/ CallFails(c) PROVE AllTold'
  <2>1. /\ UNCHANGED <<queue, msg, poll, closed>> /\ call[c].pc # "close"
        /\ \A x \in Callers : x # c => call'[x] = call[x]
    BY <1>7, <1>t DEF Find, CallFails
  <2>2. ASSUME NEW p \in Pollers, Told(p) PROVE Told(p)'
    BY <2>1, <2>2 DEF Told, Silent, Visible
  <2> QED  BY <2>1, <2>2 DEF AllTold
<1>8. ASSUME NEW c \in Callers, Broadcast(c) PROVE AllTold'
  <2>1. /\ UNCHANGED <<queue, msg, poll>> /\ closed' = closed \cup {call[c].old}
        /\ \A x \in Callers : x # c => call'[x] = call[x]
    BY <1>8, <1>t DEF Broadcast
  <2>2. ASSUME NEW p \in Pollers, Told(p) PROVE Told(p)'
    <3>1. CASE \E x \in Callers : /\ call[x].pc = "close" /\ call[x].q = poll[p].q
                                  /\ call[x].old = poll[p].ch
      <4>1. PICK x \in Callers : /\ call[x].pc = "close" /\ call[x].q = poll[p].q
                                 /\ call[x].old = poll[p].ch
        BY <3>1
      <4>2. CASE x = c
        BY <2>1, <4>1, <4>2 DEF Told
      <4>3. CASE x # c
        BY <2>1, <4>1, <4>3 DEF Told
      <4> QED  BY <4>2, <4>3
    <3>2. CASE poll[p].ch \in closed
      BY <2>1, <3>2 DEF Told
    <3>3. CASE poll[p].ch = queue[poll[p].q].notify /\ Silent(queue[poll[p].q])
      BY <2>1, <3>3 DEF Told, Silent, Visible
    <3> QED  BY <2>2, <3>1, <3>2, <3>3 DEF Told
  <2> QED  BY <2>1, <2>2 DEF AllTold
<1>9. ASSUME NEW c \in Callers, NEW m \in Msgs,
             GiveBack(c, m) \/ \E delay \in Delays : Send(c, m, delay)
      PROVE  AllTold'
  <2> DEFINE i == call[c].q
  <2>1. PICK q \in Queues : Posted(c, m, q)
    BY <1>9, PostStep
  <2>2. i \in 1 .. made /\ call[c].pc = "locked" /\ ~Locked(i)
    BY <1>9, PostStep
  <2>3. \A j \in 1 .. made : queue'[j] = IF j = i THEN q ELSE queue[j]
    BY <1>t, <2>1, <2>2, QueueAt DEF Posted
  <2>4. /\ UNCHANGED poll /\ closed' = closed \ {MakeChan}
        /\ call'[c].pc = "close" /\ call'[c].q = i /\ call'[c].old = queue[i].notify
        /\ \A x \in Callers : x # c => call'[x] = call[x]
    BY <1>t, <2>1 DEF Posted, Calls
  <2>5. ASSUME NEW p \in Pollers, poll[p].pc = "wait" PROVE Told(p)'
    <3>1. Told(p) /\ poll[p].q \in 1 .. made
      BY <2>5, <1>t DEF AllTold
    <3>2. CASE poll[p].ch \in closed
      BY <2>4, <3>2, ChanKept DEF Told
    <3>3. CASE \E x \in Callers : /\ call[x].pc = "close" /\ call[x].q = poll[p].q
                                  /\ call[x].old = poll[p].ch
      BY <2>2, <2>4, <3>3 DEF Told
    <3>4. CASE poll[p].ch = queue[poll[p].q].notify /\ Silent(queue[poll[p].q])
      <4>1. CASE poll[p].q = i
        BY <2>4, <3>4, <4>1 DEF Told
      <4>2. CASE poll[p].q # i
        <5> DEFINE j == poll[p].q
        <5>1. queue'[j] = queue[j]
          BY <2>3, <3>1, <4>2
        <5>2. m \notin ToSet(queue[j].pending)
          <6>1. CASE m \in unsent
            BY <3>1, <6>1 DEF Apart, Holds
          <6>2. CASE m \in queue[i].leased
            BY <2>2, <3>1, <4>2, <6>2 DEF Apart, Holds
          <6> QED  BY <2>1, <6>1, <6>2 DEF Posted
        <5>3. \A n \in ToSet(queue[j].pending) : n \in Msgs /\ msg'[n] = msg[n]
          BY <1>t, <2>1, <3>1, <5>2 DEF Posted
        <5> QED  BY <2>4, <3>4, <5>1, <5>3 DEF Told, Silent, Visible
      <4> QED  BY <4>1, <4>2
    <3> QED  BY <3>1, <3>2, <3>3, <3>4 DEF Told
  <2> QED  BY <2>4, <2>5 DEF AllTold
<1>10. CASE CreateQueue
  <2>1. /\ UNCHANGED <<msg, poll, call>> /\ closed' = closed \ {MakeChan}
        /\ \A j \in 1 .. made : queue'[j] = queue[j]
    BY <1>10, CreateStep DEF CreateQueue
  <2>2. ASSUME NEW p \in Pollers, poll[p].pc = "wait" PROVE Told(p)'
    <3>1. Told(p) /\ queue'[poll[p].q] = queue[poll[p].q]
      BY <1>t, <2>1, <2>2 DEF AllTold
    <3> QED  BY <2>1, <3>1, ChanKept DEF Told, Silent, Visible
  <2> QED  BY <2>1, <2>2 DEF AllTold
<1>11. CASE Tick
  <2>1. UNCHANGED <<queue, call, closed>>
    BY <1>11 DEF Tick
  <2>2. \A p \in Pollers : poll'[p].pc = poll[p].pc /\ poll'[p].ch = poll[p].ch
                           /\ poll'[p].q = poll[p].q
    BY <1>t, <1>11 DEF Tick, Polls
  <2>3. ASSUME NEW m \in Msgs, msg'[m].loud PROVE msg[m].loud /\ msg[m].t = 0
    <3>1. msg[m].loud
      BY <1>11, <2>3, TickMsgs
    <3> QED  BY <3>1 DEF LoudVisible, Visible
  <2>4. ASSUME NEW p \in Pollers, poll[p].pc = "wait" PROVE Told(p)'
    <3>1. Told(p) /\ ToSet(queue[poll[p].q].pending) \subseteq Msgs
      BY <1>t, <2>4 DEF AllTold
    <3>2. Silent(queue[poll[p].q]) => \A m \in ToSet(queue[poll[p].q].pending) : ~msg'[m].loud
      BY <2>3, <3>1 DEF Silent, Visible
    <3> QED  BY <2>1, <2>2, <3>1, <3>2 DEF Told, Silent, Visible
  <2> QED  BY <2>2, <2>4 DEF AllTold
<1>12. CASE DeleteQueue \/ DeleteCloses \/ Reset \/ UNCHANGED vars
  <2>1. UNCHANGED <<queue, msg, call, poll>> /\ closed \subseteq closed'
    BY <1>12 DEF DeleteQueue, DeleteCloses, Reset, vars
  <2> QED  BY <1>1, <2>1
<1>13. ASSUME NEW m \in Msgs, NEW i \in 1 .. MaxQueues, DeadLetter(i, m) PROVE AllTold'
  <2>1. i \in 1 .. made /\ UNCHANGED <<poll, call, closed>>
    BY <1>13, DeadLetterStep
  <2>2. PICK q \in Queues : Calm(i, q)
    BY <1>13, DeadLetterStep
  <2> QED  BY <1>2, <2>1, <2>2 DEF AllTold
<1> QED
  BY <1>3, <1>4, <1>5, <1>6, <1>7, <1>8, <1>9, <1>10, <1>11, <1>12, <1>13 DEF Next

\* The initial state.
LEMMA InitOK == Init => IInv
<1> SUFFICES ASSUME Init PROVE IInv
  OBVIOUS
<1>1. QueueTypes /\ Holds(queue[1]) = {} /\ made = 1
  <2> DEFINE q == [pending |-> <<>>, leased |-> {}, notify |-> 1]
  <2>1. q \in Queues /\ Holds(q) = {}
    BY PollAssumption DEF Queues, Holds, ToSet
  <2>2. queue = <<q>> /\ made = 1 /\ table = 1
    BY DEF Init
  <2> HIDE DEF q
  <2> QED  BY <2>1, <2>2, PollAssumption DEF QueueTypes
<1>2. MsgTypes /\ LoudVisible
  BY DEF Init, MsgTypes, LoudVisible
<1>3. PollTypes /\ AllTold
  BY DEF Init, PollTypes, AllTold, Polls, Idle, None
<1>4. CallTypes
  BY DEF Init, CallTypes, Calls, NoCall, None
<1>5. Apart
  BY <1>1 DEF Apart
<1> QED
  BY <1>1, <1>2, <1>3, <1>4, <1>5 DEF IInv, Types

\* Long polling (pollReceive, sendMessageLocked, changeVisibility): a poll of a
\* standard queue that sleeps on an open channel has missed no message that was announced, however
\* many polls, calls and queues there are and whenever they come.
THEOREM NoWakeMissed == Spec => []NoMissedWake
<1>1. IInv /\ [Next]_vars => IInv'
  BY QueueTypesStep, MsgTypesStep, PollTypesStep, CallTypesStep, ApartStep, AllToldStep
  DEF IInv, Types
<1>2. IInv => NoMissedWake
  BY DEF IInv, AllTold, Told, Silent, Locked, NoMissedWake
<1> QED
  BY InitOK, <1>1, <1>2, PTL DEF Spec
=============================================================================
