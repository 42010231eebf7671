--------------------------- MODULE SqsQueueProofs ---------------------------
(***************************************************************************)
(* The message core loses no message, keeps its handle index and its       *)
(* activity flag, accepts no copy of a message within its deduplication    *)
(* window and no more messages of a group in a second than its rate limit, *)
(* for every value of the constants; and the lease specification, which it *)
(* implements, keeps every message in one place.                           *)
(*                                                                         *)
(* The invariant is one of worlds (Sound).  A pass over a slice is a run   *)
(* f[0], f[1], ... of worlds, f[i] the visit of element i to f[i - 1]; for *)
(* each pass there is an invariant of the runs that says which messages    *)
(* are in slices, in the part already kept and in the part to be visited.  *)
(* For deduplication the invariant is what the queues remember at a time   *)
(* (Remembered), for the rate limit what its stamps count (Paced).         *)
(* StepKinds sorts the steps for both; the calm ones neither send nor      *)
(* forget (Calm).                                                          *)
(*                                                                         *)
(* The last part sees a world as a view, what is where per queue: there a  *)
(* visit of a pass is a move of one message (Move), and the visits of a    *)
(* pass a run of moves (Chain).  SqsPlaceProofs builds on it.              *)
(***************************************************************************)
EXTENDS SqsQueue, SqsLease, SequenceTheorems, FiniteSetTheorems,
        WellFoundedInduction, TLAPS

\* What a lease holds.
Leases == [m : Nat, handle : Nat, visibleAt : Int, batch : Nat]

\* The fields of a queue.
QFields == {"messages", "inflight", "byHandle", "dedup", "seqCtr", "delayed",
            "active", "attempts", "sends", "delay", "purges", "purgedAt",
            "maxRC", "dlq"}

\* A queue: its slices hold message numbers and leases, its DLQ is a queue.
QShape(q) ==
  /\ DOMAIN q = QFields
  /\ q.messages \in Seq(Nat) /\ q.inflight \in Seq(Leases)
  /\ q.dlq \in Queues \cup {None}

\* The flag the janitor looks at.
IsActive(q) == q.active = TRUE

\* A heap of messages, whatever they hold.
IsSeq(s) == \E S : s \in Seq(S)

\* The shape of a world.
Shape(w) ==
  /\ DOMAIN w = {"msg", "q", "uuid", "gone"}
  /\ IsSeq(w.msg) /\ w.uuid \in Nat
  /\ DOMAIN w.q = Queues /\ \A k \in Queues : QShape(w.q[k])

\* The messages that are pending, the messages in flight, the handles of a
\* slice of leases.
Pending(q) == {q.messages[i] : i \in DOMAIN q.messages}
Out(q) == {q.inflight[i].m : i \in DOMAIN q.inflight}
Handles(s) == {s[i].handle : i \in DOMAIN s}

\* The handle index of a queue, handles being issued up to top.
Distinct(s) == \A i, j \in DOMAIN s : s[i].handle = s[j].handle => i = j
\* inFlightByHandle is the set of handles of the leases, all issued by now.
Indexed(q, top) ==
  /\ q.byHandle = Handles(q.inflight)
  /\ Distinct(q.inflight)
  /\ \A h \in Handles(q.inflight) : h <= top

\* A queue with messages has the activity flag.
Flagged(q) == q.messages # <<>> \/ q.inflight # <<>> => IsActive(q)

\* Message m is retired or in a slice.
Held(w, m) ==
  m \in w.gone \/ \E k \in Queues : m \in Pending(w.q[k]) \cup Out(w.q[k])

\* The invariant of a world: no queue is its own DLQ, the handle index and
\* the activity flag are right, every message is retired or in a slice.
Sound(w) ==
  /\ Shape(w)
  /\ \A k \in Queues : w.q[k].dlq # k
  /\ \A k \in Queues : Indexed(w.q[k], w.uuid)
  /\ \A k \in Queues : Flagged(w.q[k])
  /\ \A m \in 1 .. Len(w.msg) : Held(w, m)

\* Steps from w to v that leave the leases, the handles and the policies.
Frame(w, v) ==
  /\ Shape(v)
  /\ v.uuid = w.uuid /\ v.gone = w.gone /\ Len(v.msg) = Len(w.msg)
  /\ \A k \in Queues : /\ v.q[k].inflight = w.q[k].inflight
                       /\ v.q[k].byHandle = w.q[k].byHandle
                       /\ v.q[k].dlq = w.q[k].dlq
                       /\ IsActive(w.q[k]) => IsActive(v.q[k])
                       /\ Pending(w.q[k]) \subseteq Pending(v.q[k])

-----------------------------------------------------------------------------
\* A set of numbers that is not empty has a least one.
LEMMA Least ==
  ASSUME NEW T \in SUBSET Nat, T # {}
  PROVE  \E x \in T : \A y \in T : x <= y
<1> DEFINE R == OpToRel(<, Nat)
<1>1. IsWellFoundedOn(R, Nat)
  BY NatLessThanWellFounded
<1>2. \A x, y \in Nat : y < x => <<y, x>> \in R
  BY DEF OpToRel
<1> HIDE DEF R
<1>3. PICK x \in T : \A y \in T : ~(<<y, x>> \in R)
  BY <1>1, WFMin
<1>4. ASSUME NEW y \in T PROVE x <= y
  <2>1. x \in Nat /\ y \in Nat /\ ~(y < x)
    BY <1>2, <1>3
  <2> QED  BY <2>1
<1> QED
  BY <1>4

\* Counting up to N.
LEMMA Upward ==
  ASSUME NEW N \in Nat, NEW T, 0 \in T, \A i \in 1 .. N : i - 1 \in T => i \in T
  PROVE  N \in T
<1> SUFFICES ASSUME N \notin T PROVE FALSE
  OBVIOUS
<1> DEFINE U == {i \in 0 .. N : i \notin T}
<1>1. U \in SUBSET Nat /\ N \in U
  OBVIOUS
<1>2. PICK x \in U : \A y \in U : x <= y
  BY <1>1, Least
<1>3. x \in 1 .. N /\ x - 1 \in 0 .. N /\ x - 1 \notin U
  BY <1>2
<1> QED
  BY <1>2, <1>3

\* A write to the heap leaves a heap of the same length.
LEMMA HeapUpdate ==
  ASSUME NEW s, IsSeq(s), NEW m, NEW e
  PROVE  IsSeq([s EXCEPT ![m] = e]) /\ Len([s EXCEPT ![m] = e]) = Len(s)
<1>1. PICK S : s \in Seq(S)
  BY DEF IsSeq
<1> DEFINE v == [s EXCEPT ![m] = e]
<1>2. Len(s) \in Nat /\ DOMAIN s = 1 .. Len(s) /\ \A i \in 1 .. Len(s) : s[i] \in S
  BY <1>1
<1>3. v = [i \in 1 .. Len(s) |-> v[i]]
  BY <1>2
<1>4. \A i \in 1 .. Len(s) : v[i] \in S \cup {e}
  BY <1>2
<1> HIDE DEF v
<1>5. v \in Seq(S \cup {e}) /\ Len(v) = Len(s)
  BY <1>2, <1>3, <1>4
<1> QED
  BY <1>5 DEF IsSeq, v

\* An append: the old elements stay where they are, the new one is last.
LEMMA AppendRange ==
  ASSUME NEW S, NEW s \in Seq(S), NEW e \in S, NEW r, r = Append(s, e)
  PROVE  /\ r \in Seq(S) /\ Len(r) = Len(s) + 1 /\ Len(r) \in Nat \ {0}
         /\ DOMAIN r = 1 .. Len(r) /\ r[Len(r)] = e
         /\ \A i \in DOMAIN s : i \in DOMAIN r /\ r[i] = s[i]
         /\ \A i \in DOMAIN r : i \in DOMAIN s \/ i = Len(r)
  OBVIOUS

\* Dead-letter routing adds the message to the DLQ and flags the DLQ.
LEMMA RouteEffect ==
  ASSUME NEW w, Shape(w), NEW n \in Queues, w.q[n].dlq # None,
         NEW m \in Nat, NEW t
  PROVE  LET v == Route(w, n, m, t)
             d == w.q[n].dlq
         IN /\ Frame(w, v) /\ d \in Queues
            /\ m \in Pending(v.q[d]) /\ IsActive(v.q[d])
            /\ \A k \in Queues : k # d => v.q[k] = w.q[k]
<1> DEFINE d == w.q[n].dlq
           v == Route(w, n, m, t)
<1>1. d \in Queues
  BY DEF Shape, QShape
<1>a. \A k \in Queues : DOMAIN w.q[k] = QFields
  BY DEF Shape, QShape
<1>2. /\ DOMAIN v = {"msg", "q", "uuid", "gone"} /\ DOMAIN v.q = Queues
      /\ v.uuid = w.uuid /\ v.gone = w.gone
      /\ \E e : v.msg = [w.msg EXCEPT ![m] = e]
  BY <1>1 DEF Route, Shape
<1>3. \A k \in Queues : k # d => v.q[k] = w.q[k]
  BY <1>1 DEF Route, Shape
<1>4. /\ DOMAIN v.q[d] = QFields
      /\ v.q[d].inflight = w.q[d].inflight /\ v.q[d].byHandle = w.q[d].byHandle
      /\ v.q[d].dlq = w.q[d].dlq
      /\ v.q[d].messages = Append(w.q[d].messages, m) /\ IsActive(v.q[d])
  <2>1. DOMAIN w.q[d] = QFields /\ DOMAIN w.q = Queues /\ DOMAIN w = {"msg", "q", "uuid", "gone"}
    BY <1>1, <1>a DEF Shape
  <2>2. DOMAIN v.q[d] = QFields
    BY <1>1, <2>1 DEF Route
  <2>3. v.q[d].inflight = w.q[d].inflight /\ v.q[d].byHandle = w.q[d].byHandle
      /\ v.q[d].dlq = w.q[d].dlq
    BY <1>1, <2>1 DEF Route, QFields
  <2>4. v.q[d].messages = Append(w.q[d].messages, m)
    BY <1>1, <2>1 DEF Route, QFields
  <2>5. IsActive(v.q[d])
    BY <1>1, <2>1 DEF Route, QFields, IsActive
  <2> QED  BY <2>2, <2>3, <2>4, <2>5
<1> HIDE DEF v, d
<1>5. v.q[d].messages \in Seq(Nat) /\ m \in Pending(v.q[d])
      /\ Pending(w.q[d]) \subseteq Pending(v.q[d])
  <2> DEFINE s == w.q[d].messages
             r == v.q[d].messages
  <2>1. s \in Seq(Nat) /\ r = Append(s, m)
    BY <1>1, <1>4 DEF Shape, QShape
  <2> HIDE DEF r, s
  <2>2. /\ r \in Seq(Nat) /\ DOMAIN r = 1 .. Len(r) /\ Len(r) \in Nat \ {0}
        /\ r[Len(r)] = m
        /\ \A i \in DOMAIN s : i \in DOMAIN r /\ r[i] = s[i]
    BY <2>1, AppendRange
  <2> QED  BY <2>2, SMTT(30) DEF Pending, r, s
<1>6. IsSeq(v.msg) /\ Len(v.msg) = Len(w.msg)
  <2>1. PICK e : v.msg = [w.msg EXCEPT ![m] = e]
    BY <1>2
  <2>2. IsSeq(w.msg)
    BY DEF Shape
  <2>3. /\ IsSeq([w.msg EXCEPT ![m] = e])
        /\ Len([w.msg EXCEPT ![m] = e]) = Len(w.msg)
    BY <2>2, HeapUpdate, Zenon
  <2> QED  BY <2>1, <2>3, Zenon
<1>7. \A k \in Queues : QShape(v.q[k])
  BY <1>1, <1>3, <1>4, <1>5 DEF Shape, QShape
<1>8. \A k \in Queues : /\ v.q[k].inflight = w.q[k].inflight
                        /\ v.q[k].byHandle = w.q[k].byHandle
                        /\ v.q[k].dlq = w.q[k].dlq
                        /\ IsActive(w.q[k]) => IsActive(v.q[k])
                        /\ Pending(w.q[k]) \subseteq Pending(v.q[k])
  BY <1>3, <1>4, <1>5
<1>9. Frame(w, v)
  BY <1>2, <1>6, <1>7, <1>8 DEF Frame, Shape
<1> QED
  BY <1>1, <1>3, <1>4, <1>5, <1>9 DEF v, d

\* The halving of sort.Search: g is where the search in an interval ends.
Middle(r) == (r[1] + r[2]) \div 2
SearchRun(w, s, x, g) ==
  \A r \in (0 .. Len(s)) \X (0 .. Len(s)) :
    g[r] = IF r[1] >= r[2] THEN r[1]
           ELSE IF w.msg[s[Middle(r) + 1]].seq > x THEN g[<<r[1], Middle(r)>>]
           ELSE g[<<Middle(r) + 1, r[2]>>]

\* The halves of an interval are shorter.
LEMMA Halves ==
  ASSUME NEW N \in Nat, NEW r \in (0 .. N) \X (0 .. N), r[1] < r[2]
  PROVE  LET h == Middle(r)
         IN /\ <<r[1], h>> \in (0 .. N) \X (0 .. N)
            /\ <<h + 1, r[2]>> \in (0 .. N) \X (0 .. N)
            /\ h \in Nat /\ r[1] \in Nat /\ r[2] \in Nat
            /\ r[1] <= h /\ h < r[2]
            /\ h - r[1] < r[2] - r[1] /\ r[2] - (h + 1) < r[2] - r[1]
  BY SMTT(40) DEF Middle

\* The binary search is such a halving, from the whole slice on.
LEMMA SearchPass ==
  ASSUME NEW w, NEW s \in Seq(Nat), NEW x
  PROVE  \E g : SearchRun(w, s, x, g) /\ SearchSeq(w, s, x) = g[<<0, Len(s)>>]
<1> DEFINE N == Len(s)
           D == (0 .. N) \X (0 .. N)
           up(r) == w.msg[s[((r[1] + r[2]) \div 2) + 1]].seq > x
           body(f, r) == LET h == (r[1] + r[2]) \div 2
                         IN CASE r[1] >= r[2] -> r[1]
                              [] r[1] < r[2] /\ w.msg[s[h + 1]].seq > x -> f[<<r[1], h>>]
                              [] OTHER -> f[<<h + 1, r[2]>>]
           g == CHOOSE f : f = [r \in D |-> body(f, r)]
           mid(r) == (r[1] + r[2]) \div 2
           Below(k) == {r \in D : r[2] - r[1] <= k}
<1>1. SearchSeq(w, s, x) = g[<<0, N>>]
  BY DEF SearchSeq
<1>2. N \in Nat
  OBVIOUS
<1>3. ASSUME NEW f, NEW r \in D
      PROVE  body(f, r) = IF r[1] >= r[2] THEN r[1]
                          ELSE IF up(r) THEN f[<<r[1], mid(r)>>]
                          ELSE f[<<mid(r) + 1, r[2]>>]
  OBVIOUS
<1> HIDE DEF N
<1>4. ASSUME NEW r \in D, r[1] < r[2]
      PROVE  /\ <<r[1], mid(r)>> \in D /\ <<mid(r) + 1, r[2]>> \in D
             /\ mid(r) \in Nat /\ r[1] \in Nat /\ r[2] \in Nat
             /\ mid(r) - r[1] < r[2] - r[1]
             /\ r[2] - (mid(r) + 1) < r[2] - r[1]
  BY <1>4, <1>2, Halves DEF Middle
<1> HIDE DEF up, mid, body, g
<1>5. \E f : f = [r \in D |-> body(f, r)]
  <2> DEFINE Q(f, k) == \A r \in D : r[2] - r[1] <= k => f[r] = body(f, r)
             T == {k \in 0 .. N : \E f : f = [r \in D |-> f[r]] /\ Q(f, k)}
  <2>1. 0 \in T
    <3> DEFINE f == [r \in D |-> r[1]]
    <3>1. \A r \in D : r[2] - r[1] <= 0 => r[1] >= r[2]
      BY <1>2
    <3>2. f = [r \in D |-> f[r]] /\ Q(f, 0)
      BY <3>1, <1>3
    <3> HIDE DEF f, Q
    <3> QED  BY <3>2, <1>2
  <2>2. ASSUME NEW i \in 1 .. N, i - 1 \in T PROVE i \in T
    <3>1. PICK f : f = [r \in D |-> f[r]] /\ Q(f, i - 1)
      BY <2>2
    <3> DEFINE e == [r \in D |-> body(f, r)]
    <3>2. ASSUME NEW r \in D, r[2] - r[1] <= i PROVE e[r] = body(e, r)
      <4>1. CASE r[1] >= r[2]
        BY <4>1, <1>3
      <4>2. CASE ~(r[1] >= r[2])
        <5>1. r[1] < r[2] /\ i \in Nat /\ r[1] \in Nat /\ r[2] \in Nat
          BY <4>2, <1>2
        <5>2. /\ <<r[1], mid(r)>> \in D /\ <<mid(r) + 1, r[2]>> \in D
              /\ mid(r) \in Nat
              /\ mid(r) - r[1] <= i - 1 /\ r[2] - (mid(r) + 1) <= i - 1
          <6>1. /\ <<r[1], mid(r)>> \in D /\ <<mid(r) + 1, r[2]>> \in D
                /\ mid(r) \in Nat /\ mid(r) - r[1] < r[2] - r[1]
                /\ r[2] - (mid(r) + 1) < r[2] - r[1]
            BY <5>1, <1>4
          <6> QED  BY <5>1, <6>1, <3>2
        <5>3. /\ f[<<r[1], mid(r)>>] = e[<<r[1], mid(r)>>]
              /\ f[<<mid(r) + 1, r[2]>>] = e[<<mid(r) + 1, r[2]>>]
          BY <3>1, <5>2
        <5>4. e[r] = body(f, r)
          OBVIOUS
        <5> HIDE DEF e
        <5> QED  BY <5>3, <5>4, <1>3
      <4> QED  BY <4>1, <4>2
    <3>3. e = [r \in D |-> e[r]]
      OBVIOUS
    <3> HIDE DEF e
    <3>4. Q(e, i)
      BY <3>2
    <3> HIDE DEF Q
    <3> QED  BY <3>3, <3>4, <1>2
  <2>3. N \in T
    <3> HIDE DEF T
    <3> QED  BY <1>2, <2>1, <2>2, Upward
  <2>4. PICK f : f = [r \in D |-> f[r]] /\ Q(f, N)
    BY <2>3
  <2>5. \A r \in D : r[2] - r[1] <= N
    BY <1>2
  <2>6. f = [r \in D |-> body(f, r)]
    BY <2>4, <2>5
  <2> QED  BY <2>6
<1>6. g = [r \in D |-> body(g, r)]
  BY <1>5 DEF g
<1>7. ASSUME NEW r \in D
      PROVE  g[r] = IF r[1] >= r[2] THEN r[1]
                    ELSE IF up(r) THEN g[<<r[1], mid(r)>>]
                    ELSE g[<<mid(r) + 1, r[2]>>]
  <2>1. g[r] = body(g, r)
    BY <1>6
  <2> QED  BY <1>3, <2>1
<1>8. SearchRun(w, s, x, g)
  BY <1>7 DEF SearchRun, Middle, up, mid, N
<1> QED
  BY <1>1, <1>8 DEF N

\* The binary search ends at a position of the slice.
LEMMA SearchRange ==
  ASSUME NEW w, NEW s \in Seq(Nat), NEW x
  PROVE  SearchSeq(w, s, x) \in 0 .. Len(s)
<1> DEFINE N == Len(s)
           D == (0 .. N) \X (0 .. N)
           mid(r) == Middle(r)
<1>1. PICK g : SearchRun(w, s, x, g) /\ SearchSeq(w, s, x) = g[<<0, N>>]
  BY SearchPass
<1>2. N \in Nat
  OBVIOUS
<1>3. \A r \in D : g[r] = IF r[1] >= r[2] THEN r[1]
                         ELSE IF w.msg[s[mid(r) + 1]].seq > x THEN g[<<r[1], mid(r)>>]
                         ELSE g[<<mid(r) + 1, r[2]>>]
  BY <1>1 DEF SearchRun
<1> HIDE DEF mid, N
<1>7. \A r \in D : g[r] \in 0 .. N
  <2> DEFINE T == {k \in 0 .. N : \A r \in D : r[2] - r[1] <= k => g[r] \in 0 .. N}
  <2>1. \A r \in D : r[1] >= r[2] => g[r] \in 0 .. N
    BY <1>3
  <2>2. 0 \in T
    BY <2>1, <1>2
  <2>3. ASSUME NEW i \in 1 .. N, i - 1 \in T PROVE i \in T
    <3>1. ASSUME NEW r \in D, r[2] - r[1] <= i, r[1] < r[2] PROVE g[r] \in 0 .. N
      <4>1. /\ <<r[1], mid(r)>> \in D /\ <<mid(r) + 1, r[2]>> \in D
            /\ mid(r) \in Nat
            /\ mid(r) - r[1] <= i - 1 /\ r[2] - (mid(r) + 1) <= i - 1
        <5>1. /\ <<r[1], mid(r)>> \in D /\ <<mid(r) + 1, r[2]>> \in D
              /\ mid(r) \in Nat /\ mid(r) - r[1] < r[2] - r[1]
              /\ r[2] - (mid(r) + 1) < r[2] - r[1]
              /\ r[1] \in Nat /\ r[2] \in Nat
          BY <3>1, <1>2, Halves DEF mid
        <5> QED  BY <5>1, <3>1
      <4>2. g[<<r[1], mid(r)>>] \in 0 .. N /\ g[<<mid(r) + 1, r[2]>>] \in 0 .. N
        BY <4>1, <2>3
      <4> QED  BY <4>2, <1>3, <3>1
    <3> QED  BY <3>1, <2>1, <1>2
  <2>4. N \in T
    <3> HIDE DEF T
    <3> QED  BY <1>2, <2>2, <2>3, Upward
  <2>5. \A r \in D : r[2] - r[1] <= N
    BY <1>2
  <2> QED  BY <2>4, <2>5
<1> QED
  BY <1>1, <1>2, <1>7 DEF N

\* In a slice sorted by sequence number the binary search ends where number x
\* belongs: after the last one that is not larger.
LEMMA SearchSorted ==
  ASSUME NEW w, NEW s \in Seq(Nat), NEW x \in Int,
         \A i \in 1 .. Len(s) : w.msg[s[i]].seq \in Int,
         \A i, j \in 1 .. Len(s) : i < j => w.msg[s[i]].seq <= w.msg[s[j]].seq
  PROVE  /\ \A j \in 1 .. SearchSeq(w, s, x) : w.msg[s[j]].seq <= x
         /\ \A j \in SearchSeq(w, s, x) + 1 .. Len(s) : x < w.msg[s[j]].seq
<1> DEFINE N == Len(s)
           D == (0 .. N) \X (0 .. N)
           mid(r) == Middle(r)
           v(j) == w.msg[s[j]].seq
           Low(i) == \A j \in 1 .. i : v(j) <= x
           High(i) == \A j \in i + 1 .. N : x < v(j)
           Bounds(r) == r[1] <= r[2] /\ Low(r[1]) /\ High(r[2])
<1>1. PICK g : SearchRun(w, s, x, g) /\ SearchSeq(w, s, x) = g[<<0, N>>]
  BY SearchPass
<1>2. N \in Nat
  OBVIOUS
<1>3. \A r \in D : g[r] = IF r[1] >= r[2] THEN r[1]
                         ELSE IF v(mid(r) + 1) > x THEN g[<<r[1], mid(r)>>]
                         ELSE g[<<mid(r) + 1, r[2]>>]
  BY <1>1 DEF SearchRun
<1>4. /\ \A i \in 1 .. N : v(i) \in Int
      /\ \A i, j \in 1 .. N : i < j => v(i) <= v(j)
  OBVIOUS
<1> HIDE DEF mid, N, v
<1> DEFINE T == {k \in 0 .. N : \A r \in D : r[2] - r[1] <= k /\ Bounds(r) => Low(g[r]) /\ High(g[r])}
<1>5. ASSUME NEW r \in D, Bounds(r), r[1] >= r[2] PROVE Low(g[r]) /\ High(g[r])
  <2>1. g[r] = r[1]
    BY <1>3, <1>5
  <2>2. r[1] \in Nat /\ r[2] \in Nat /\ r[1] <= r[2]
    BY <1>2, <1>5
  <2>3. r[1] = r[2]
    BY <1>5, <2>2
  <2> QED  BY <1>5, <2>1, <2>3
<1>6. 0 \in T
  <2>1. \A r \in D : r[2] - r[1] <= 0 => r[1] >= r[2]
    BY <1>2
  <2> HIDE DEF Bounds, Low, High
  <2> QED  BY <1>2, <1>5, <2>1
<1>7. ASSUME NEW i \in 1 .. N, i - 1 \in T PROVE i \in T
  <2>1. ASSUME NEW r \in D, r[2] - r[1] <= i, r[1] < r[2], Bounds(r)
        PROVE  Low(g[r]) /\ High(g[r])
    <3>1. /\ <<r[1], mid(r)>> \in D /\ <<mid(r) + 1, r[2]>> \in D
          /\ mid(r) \in Nat /\ mid(r) - r[1] < r[2] - r[1]
          /\ r[2] - (mid(r) + 1) < r[2] - r[1]
          /\ r[1] \in 0 .. N /\ r[2] \in 0 .. N
          /\ r[1] <= mid(r) /\ mid(r) < r[2]
      BY <2>1, <1>2, Halves DEF mid
    <3>2. mid(r) - r[1] <= i - 1 /\ r[2] - (mid(r) + 1) <= i - 1 /\ mid(r) + 1 \in 1 .. N
      BY <2>1, <1>2, <3>1
    <3>a. ~(r[1] >= r[2])
      BY <2>1, <3>1
    <3>b. g[r] = IF v(mid(r) + 1) > x THEN g[<<r[1], mid(r)>>]
                 ELSE g[<<mid(r) + 1, r[2]>>]
      <4> HIDE DEF Bounds, Low, High, T
      <4> QED  BY <1>3, <3>a
    <3>3. CASE v(mid(r) + 1) > x
      <4>1. High(mid(r))
        <5> SUFFICES ASSUME NEW j \in mid(r) + 1 .. N PROVE x < v(j)
          OBVIOUS
        <5>1. j \in 1 .. N /\ (j = mid(r) + 1 \/ mid(r) + 1 < j)
          BY <1>2, <3>1
        <5> QED  BY <1>4, <3>2, <3>3, <5>1
      <4>2. Bounds(<<r[1], mid(r)>>)
        BY <2>1, <3>1, <4>1
      <4> HIDE DEF Bounds, Low, High
      <4>3. g[r] = g[<<r[1], mid(r)>>]
        BY <3>b, <3>3
      <4> QED  BY <1>7, <3>1, <3>2, <4>2, <4>3
    <3>4. CASE ~(v(mid(r) + 1) > x)
      <4>1. Low(mid(r) + 1)
        <5> SUFFICES ASSUME NEW j \in 1 .. mid(r) + 1 PROVE v(j) <= x
          OBVIOUS
        <5>1. j \in 1 .. N /\ (j = mid(r) + 1 \/ j < mid(r) + 1)
          BY <1>2, <3>1
        <5> QED  BY <1>4, <3>2, <3>4, <5>1
      <4>2. Bounds(<<mid(r) + 1, r[2]>>)
        BY <2>1, <3>1, <4>1
      <4> HIDE DEF Bounds, Low, High
      <4>3. g[r] = g[<<mid(r) + 1, r[2]>>]
        BY <3>b, <3>4
      <4> QED  BY <1>7, <3>1, <3>2, <4>2, <4>3
    <3> QED  BY <3>3, <3>4
  <2>2. \A r \in D : r[1] >= r[2] \/ r[1] < r[2]
    BY <1>2
  <2> HIDE DEF Bounds, Low, High
  <2> QED  BY <1>5, <2>1, <2>2
<1>8. N \in T
  <2> HIDE DEF T
  <2> QED  BY <1>2, <1>6, <1>7, Upward
<1>9. <<0, N>> \in D /\ N - 0 <= N /\ Bounds(<<0, N>>)
  BY <1>2
<1>10. Low(g[<<0, N>>]) /\ High(g[<<0, N>>])
  <2> HIDE DEF Bounds, Low, High
  <2> QED  BY <1>8, <1>9
<1> QED
  BY <1>1, <1>10 DEF N, v

\* An insertion keeps every element and has the new one.
LEMMA InsertRange ==
  ASSUME NEW s \in Seq(Nat), NEW p \in Nat, p <= Len(s), NEW e \in Nat
  PROVE  LET r == InsertAt(s, p + 1, e)
         IN /\ r \in Seq(Nat)
            /\ \E j \in DOMAIN r : r[j] = e
            /\ \A j \in DOMAIN s : \E k \in DOMAIN r : r[k] = s[j]
            /\ Len(r) = Len(s) + 1 /\ r[p + 1] = e
            /\ \A j \in 1 .. p : r[j] = s[j]
            /\ \A j \in p + 1 .. Len(s) : r[j + 1] = s[j]
<1> DEFINE r == InsertAt(s, p + 1, e)
<1>1. PICK N \in Nat : N = Len(s) /\ DOMAIN s = 1 .. N
  OBVIOUS
<1>2. p \in Nat /\ p <= N /\ (p + 1) - 1 = p
  BY <1>1
<1> DEFINE a == SubSeq(s, 1, p)
           b == SubSeq(s, p + 1, N)
           u == <<e>>
           c == a \o u
<1>3. r = c \o b
  <2>1. r = SubSeq(s, 1, (p + 1) - 1) \o <<e>> \o SubSeq(s, p + 1, Len(s))
    BY Zenon DEF InsertAt
  <2> QED  BY <2>1, <1>1, <1>2, Zenon
<1> HIDE DEF r
<1>4. /\ a \in Seq(Nat) /\ Len(a) = p /\ \A j \in 1 .. p : a[j] = s[j]
  BY <1>1, <1>2, SubSeqProperties
<1>5. /\ b \in Seq(Nat) /\ Len(b) = N - p
      /\ \A j \in 1 .. N - p : b[j] = s[p + j]
  <2>1. /\ p + 1 \in Int /\ N \in Int /\ (p + 1 <= N \/ N - p = 0)
        /\ N - (p + 1) + 1 = N - p
        /\ \A j \in 1 .. N - p : (p + 1) + j - 1 = p + j
        /\ \A j \in p + 1 .. N : j \in 1 .. N
    BY <1>2
  <2>2. \A j \in p + 1 .. N : s[j] \in Nat
    BY <1>1, <2>1
  <2>3. /\ b \in Seq(Nat)
        /\ Len(b) = IF p + 1 <= N THEN N - (p + 1) + 1 ELSE 0
        /\ \A j \in 1 .. N - (p + 1) + 1 : b[j] = s[(p + 1) + j - 1]
    <3>1. p + 1 \in Int /\ N \in Int
      BY <2>1
    <3>2. SubSeq(s, p + 1, N) \in Seq(Nat)
      BY <3>1, <2>2, SubSeqProperties
    <3>3. Len(SubSeq(s, p + 1, N)) = IF p + 1 <= N THEN N - (p + 1) + 1 ELSE 0
      BY <3>1, <2>2, SubSeqProperties
    <3>4. \A j \in 1 .. N - (p + 1) + 1 : SubSeq(s, p + 1, N)[j] = s[(p + 1) + j - 1]
      BY <3>1, <2>2, SubSeqProperties
    <3> QED  BY <3>2, <3>3, <3>4
  <2> HIDE DEF b
  <2> QED  BY <2>1, <2>3, Zenon
<1>6. u \in Seq(Nat) /\ Len(u) = 1 /\ u[1] = e
  OBVIOUS
<1> HIDE DEF a, b, u
<1>7. /\ c \in Seq(Nat) /\ Len(c) = Len(a) + Len(u)
      /\ \A j \in 1 .. Len(a) + Len(u) :
           c[j] = IF j <= Len(a) THEN a[j] ELSE u[j - Len(a)]
  BY <1>4, <1>6, ConcatProperties, Zenon
<1> HIDE DEF c
<1>8. /\ Len(c) = p + 1 /\ c[p + 1] = e /\ \A j \in 1 .. p : c[j] = s[j]
  <2>1. Len(c) = p + 1 /\ \A j \in 1 .. p + 1 : c[j] = IF j <= p THEN a[j] ELSE u[j - p]
    BY <1>4, <1>6, <1>7, Zenon
  <2>2. p + 1 \in 1 .. p + 1 /\ ~(p + 1 <= p) /\ (p + 1) - p = 1
        /\ \A j \in 1 .. p : j \in 1 .. p + 1 /\ j <= p
    BY <1>2
  <2> QED  BY <2>1, <2>2, <1>4, <1>6, Zenon
<1>9. /\ r \in Seq(Nat) /\ Len(r) = N + 1
      /\ \A j \in 1 .. N + 1 : r[j] = IF j <= p + 1 THEN c[j] ELSE b[j - (p + 1)]
  <2>1. /\ c \o b \in Seq(Nat) /\ Len(c \o b) = Len(c) + Len(b)
        /\ \A j \in 1 .. Len(c) + Len(b) :
             (c \o b)[j] = IF j <= Len(c) THEN c[j] ELSE b[j - Len(c)]
    <3>1. c \in Seq(Nat) /\ b \in Seq(Nat)
      BY <1>5, <1>7
    <3> QED  BY <3>1, ConcatProperties, Zenon
  <2>2. (p + 1) + (N - p) = N + 1
    BY <1>2
  <2> QED  BY <1>3, <1>5, <1>8, <2>1, <2>2, Zenon
<1>10. DOMAIN r = 1 .. N + 1
  BY <1>9
<1>11. /\ r[p + 1] = e /\ \A j \in 1 .. p : r[j] = s[j]
       /\ \A j \in p + 1 .. N : r[j + 1] = s[j]
  <2>1. p + 1 \in 1 .. N + 1 /\ p + 1 <= p + 1
    BY <1>2
  <2>2. \A j \in 1 .. p : j \in 1 .. N + 1 /\ j <= p + 1
    BY <1>2
  <2>3. ASSUME NEW j \in p + 1 .. N PROVE r[j + 1] = s[j]
    <3>1. /\ j + 1 \in 1 .. N + 1 /\ ~(j + 1 <= p + 1)
          /\ (j + 1) - (p + 1) = j - p /\ j - p \in 1 .. N - p /\ p + (j - p) = j
      BY <1>2
    <3> QED  BY <3>1, <1>5, <1>9, Zenon
  <2> QED  BY <2>1, <2>2, <2>3, <1>8, <1>9, Zenon
<1>12. /\ p + 1 \in DOMAIN r
       /\ \A j \in 1 .. p : j \in DOMAIN r
       /\ \A j \in p + 1 .. N : j + 1 \in DOMAIN r
       /\ \A j \in 1 .. N : j \in 1 .. p \/ j \in p + 1 .. N
  BY <1>2, <1>10
<1>13. \A j \in DOMAIN s : \E k \in DOMAIN r : r[k] = s[j]
  BY <1>1, <1>11, <1>12
<1> QED
  BY <1>1, <1>9, <1>11, <1>12, <1>13 DEF r

\* A queue's pending slice is replaced.
WithMessages(w, n, s) == [w EXCEPT !.q[n].messages = s]

\* A new pending slice changes nothing else.
LEMMA SetMessages ==
  ASSUME NEW w, Shape(w), NEW n \in Queues, NEW s \in Seq(Nat),
         NEW v, v = WithMessages(w, n, s)
  PROVE  /\ Shape(v)
         /\ v.msg = w.msg /\ v.uuid = w.uuid /\ v.gone = w.gone
         /\ \A k \in Queues : k # n => v.q[k] = w.q[k]
         /\ v.q[n].messages = s /\ v.q[n].inflight = w.q[n].inflight
         /\ v.q[n].byHandle = w.q[n].byHandle /\ v.q[n].dlq = w.q[n].dlq
         /\ (IsActive(v.q[n]) <=> IsActive(w.q[n]))
<1>1. /\ DOMAIN w = {"msg", "q", "uuid", "gone"} /\ DOMAIN w.q = Queues
      /\ DOMAIN w.q[n] = QFields
  BY DEF Shape, QShape
<1>2. /\ DOMAIN v = {"msg", "q", "uuid", "gone"} /\ DOMAIN v.q = Queues
      /\ v.msg = w.msg /\ v.uuid = w.uuid /\ v.gone = w.gone
      /\ \A k \in Queues : k # n => v.q[k] = w.q[k]
  BY <1>1 DEF WithMessages
<1>3. DOMAIN v.q[n] = QFields /\ v.q[n].messages = s
  BY <1>1 DEF WithMessages, QFields
<1>4. /\ v.q[n].inflight = w.q[n].inflight /\ v.q[n].byHandle = w.q[n].byHandle
      /\ v.q[n].dlq = w.q[n].dlq /\ (IsActive(v.q[n]) <=> IsActive(w.q[n]))
  BY <1>1 DEF WithMessages, QFields, IsActive
<1>5. QShape(v.q[n])
  BY <1>3, <1>4 DEF Shape, QShape
<1>6. Shape(v)
  BY <1>2, <1>5 DEF Shape
<1> QED
  BY <1>2, <1>3, <1>4, <1>6

\* Requeueing, at the tail or by the binary search, adds the message to
\* the slice and loses no other.
LEMMA RequeueEffect ==
  ASSUME NEW w, Shape(w), NEW n \in Queues, NEW m \in Nat
  PROVE  LET v == Requeue(w, n, m)
         IN /\ Frame(w, v) /\ m \in Pending(v.q[n])
            /\ (IsActive(v.q[n]) <=> IsActive(w.q[n]))
            /\ \A k \in Queues : k # n => v.q[k] = w.q[k]
<1> DEFINE v == Requeue(w, n, m)
           s == w.q[n].messages
           i == SearchSeq(w, s, w.msg[m].seq)
           r == IF IsFIFO(n) THEN InsertAt(s, i + 1, m) ELSE Append(s, m)
<1>1. s \in Seq(Nat)
  BY DEF Shape, QShape
<1>2. v = WithMessages(w, n, r)
  BY DEF Requeue, WithMessages
<1>3. i \in Nat /\ i <= Len(s)
  <2>1. i \in 0 .. Len(s)
    <3> HIDE DEF s
    <3> QED  BY <1>1, SearchRange
  <2>2. Len(s) \in Nat
    BY <1>1
  <2> HIDE DEF i, s
  <2> QED  BY <2>1, <2>2
<1> HIDE DEF v, s, i
<1>4. /\ r \in Seq(Nat)
      /\ \E j \in DOMAIN r : r[j] = m
      /\ \A j \in DOMAIN s : \E k \in DOMAIN r : r[k] = s[j]
  <2>1. CASE IsFIFO(n)
    <3>1. r = InsertAt(s, i + 1, m)
      BY <2>1
    <3> HIDE DEF r
    <3>2. LET z == InsertAt(s, i + 1, m)
          IN /\ z \in Seq(Nat)
             /\ \E j \in DOMAIN z : z[j] = m
             /\ \A j \in DOMAIN s : \E k \in DOMAIN z : z[k] = s[j]
      BY <1>1, <1>3, InsertRange, Zenon
    <3> QED  BY <3>1, <3>2, Zenon
  <2>2. CASE ~IsFIFO(n)
    <3>1. r = Append(s, m)
      BY <2>2
    <3> HIDE DEF r
    <3>2. /\ r \in Seq(Nat) /\ DOMAIN r = 1 .. Len(r) /\ Len(r) \in Nat \ {0}
          /\ r[Len(r)] = m
          /\ \A j \in DOMAIN s : j \in DOMAIN r /\ r[j] = s[j]
      BY <1>1, <3>1, AppendRange
    <3> QED  BY <3>2
  <2> QED  BY <2>1, <2>2
<1> HIDE DEF r
<1>5. /\ Shape(v)
      /\ v.msg = w.msg /\ v.uuid = w.uuid /\ v.gone = w.gone
      /\ \A k \in Queues : k # n => v.q[k] = w.q[k]
      /\ v.q[n].messages = r /\ v.q[n].inflight = w.q[n].inflight
      /\ v.q[n].byHandle = w.q[n].byHandle /\ v.q[n].dlq = w.q[n].dlq
      /\ (IsActive(v.q[n]) <=> IsActive(w.q[n]))
  BY <1>2, <1>4, SetMessages
<1>6. m \in Pending(v.q[n]) /\ Pending(w.q[n]) \subseteq Pending(v.q[n])
  BY <1>4, <1>5 DEF Pending, s
<1>7. Frame(w, v)
  BY <1>5, <1>6 DEF Frame
<1> QED
  BY <1>5, <1>6, <1>7 DEF v

\* A message that is routed or requeued is pending somewhere.
LEMMA RouteOrRequeueEffect ==
  ASSUME NEW w, Shape(w), NEW n \in Queues, NEW m \in Nat, NEW t
  PROVE  LET v == RouteOrRequeue(w, n, m, t)
         IN /\ Frame(w, v) /\ \E k \in Queues : m \in Pending(v.q[k])
            /\ \A k \in Queues : k # n => v.q[k] = w.q[k] \/ IsActive(v.q[k])
<1>1. CASE ShouldRoute(w, n, m)
  <2>1. w.q[n].dlq # None
    BY <1>1 DEF ShouldRoute
  <2> DEFINE v == Route(w, n, m, t)
             d == w.q[n].dlq
  <2>2. /\ Frame(w, v) /\ d \in Queues /\ m \in Pending(v.q[d])
        /\ IsActive(v.q[d])
        /\ \A k \in Queues : k # d => v.q[k] = w.q[k]
    BY <2>1, RouteEffect
  <2>3. RouteOrRequeue(w, n, m, t) = v
    BY <1>1 DEF RouteOrRequeue
  <2> HIDE DEF v, d
  <2> QED  BY <2>2, <2>3
<1>2. CASE ~ShouldRoute(w, n, m)
  <2> DEFINE v == Requeue(w, n, m)
  <2>1. /\ Frame(w, v) /\ m \in Pending(v.q[n])
        /\ \A k \in Queues : k # n => v.q[k] = w.q[k]
    BY RequeueEffect
  <2>2. RouteOrRequeue(w, n, m, t) = v
    BY <1>2 DEF RouteOrRequeue
  <2> HIDE DEF v
  <2> QED  BY <2>1, <2>2
<1> QED
  BY <1>1, <1>2

-----------------------------------------------------------------------------
\* The visits of the drain.
DrainRun(w, n, t, f) ==
  LET s == w.q[n].messages
  IN /\ f[0] = [w |-> w, kept |-> <<>>]
     /\ \A i \in 1 .. Len(s) : f[i] = DrainOne(f[i - 1], s[i], n, t)
     /\ Drain(w, n, t) = WithMessages(f[Len(s)].w, n, f[Len(s)].kept)

\* The drain as a sequence of visits.
LEMMA DrainPass ==
  ASSUME NEW w, NEW n, NEW t, w.q[n].messages \in Seq(Nat)
  PROVE  \E f : DrainRun(w, n, t, f)
<1> DEFINE s == w.q[n].messages
           N == Len(s)
           base == [w |-> w, kept |-> <<>>]
           visit(a, m) == DrainOne(a, m, n, t)
           h == CHOOSE f : f = [i \in 0 .. N |->
                  IF i = 0 THEN base ELSE visit(f[i - 1], s[i])]
<1>1. Drain(w, n, t) = WithMessages(h[N].w, n, h[N].kept)
  BY DEF Drain, Pass, WithMessages
<1>2. N \in Nat
  OBVIOUS
<1> HIDE DEF s, N, base, visit, h
<1>3. \E f : f = [i \in 0 .. N |-> IF i = 0 THEN base ELSE visit(f[i - 1], s[i])]
  <2> DEFINE Q(f, k) == /\ f[0] = base
                        /\ \A i \in 1 .. k : f[i] = visit(f[i - 1], s[i])
             T == {k \in 0 .. N : \E f : Q(f, k)}
  <2>1. 0 \in T
    <3>1. Q([i \in 0 .. N |-> base], 0)
      BY <1>2
    <3> HIDE DEF Q
    <3> QED  BY <3>1, <1>2
  <2>2. ASSUME NEW k \in 1 .. N, k - 1 \in T PROVE k \in T
    <3>1. PICK f : Q(f, k - 1)
      BY <2>2
    <3> DEFINE e == [i \in 0 .. N |-> IF i = k THEN visit(f[k - 1], s[k]) ELSE f[i]]
    <3>2. /\ e[0] = base /\ e[k] = visit(f[k - 1], s[k]) /\ e[k - 1] = f[k - 1]
      BY <3>1, <1>2
    <3>3. \A i \in 1 .. k - 1 : e[i] = f[i] /\ e[i - 1] = f[i - 1]
      BY <1>2
    <3> HIDE DEF e
    <3>4. \A i \in 1 .. k : i = k \/ i \in 1 .. k - 1
      BY <1>2
    <3>5. Q(e, k)
      BY <3>1, <3>2, <3>3, <3>4
    <3> HIDE DEF Q
    <3> QED  BY <3>5, <1>2
  <2>3. N \in T
    <3> HIDE DEF T
    <3> QED  BY <1>2, <2>1, <2>2, Upward
  <2>4. PICK f : Q(f, N)
    BY <2>3
  <2> DEFINE e == [i \in 0 .. N |-> f[i]]
  <2>5. e = [i \in 0 .. N |-> IF i = 0 THEN base ELSE visit(e[i - 1], s[i])]
    BY <2>4, <1>2
  <2> HIDE DEF e
  <2> QED  BY <2>5
<1>4. h = [i \in 0 .. N |-> IF i = 0 THEN base ELSE visit(h[i - 1], s[i])]
  BY <1>3 DEF h
<1>5. /\ h[0] = base
      /\ \A i \in 1 .. N : h[i] = visit(h[i - 1], s[i])
  BY <1>2, <1>4
<1> QED
  BY <1>1, <1>5 DEF N, s, base, visit, DrainRun

\* A message in the slices of w other than the pending slice of n.
HeldBut(w, n, m) ==
  \/ m \in w.gone
  \/ \E k \in Queues : k # n /\ m \in Pending(w.q[k])
  \/ \E k \in Queues : m \in Out(w.q[k])

\* Where the drain of queue n is after i of its messages.
DrainInv(w, n, a, i) ==
  /\ DOMAIN a = {"w", "kept"}
  /\ Frame(w, a.w) /\ a.w.q[n] = w.q[n]
  /\ \A k \in Queues : a.w.q[k] = w.q[k] \/ IsActive(a.w.q[k])
  /\ a.kept \in Seq(Nat) /\ Len(a.kept) <= i
  /\ \A m \in 1 .. Len(w.msg) :
       \/ HeldBut(a.w, n, m)
       \/ \E j \in DOMAIN a.kept : a.kept[j] = m
       \/ \E j \in i + 1 .. Len(w.q[n].messages) : w.q[n].messages[j] = m

\* Frames compose.
LEMMA FrameChain ==
  ASSUME NEW w, NEW u, NEW v, Frame(w, u), Frame(u, v)
  PROVE  Frame(w, v)
  BY DEF Frame

\* A frame keeps what the other slices hold.
LEMMA FrameHeld ==
  ASSUME NEW w, NEW v, NEW n, NEW m, Frame(w, v), HeldBut(w, n, m)
  PROVE  HeldBut(v, n, m)
  BY DEF Frame, HeldBut, Out

\* One message of the drain.
LEMMA DrainStep ==
  ASSUME NEW w, Sound(w), NEW n \in Queues, NEW t, NEW a,
         NEW i \in 1 .. Len(w.q[n].messages), DrainInv(w, n, a, i - 1)
  PROVE  DrainInv(w, n, DrainOne(a, w.q[n].messages[i], n, t), i)
<1> DEFINE s == w.q[n].messages
           x == s[i]
           b == DrainOne(a, x, n, t)
           N == Len(s)
<1>1. s \in Seq(Nat) /\ N \in Nat /\ x \in Nat /\ i \in 1 .. N
  BY DEF Sound, Shape, QShape
<1>2. /\ DOMAIN a = {"w", "kept"}
      /\ Frame(w, a.w) /\ a.w.q[n] = w.q[n]
      /\ \A k \in Queues : a.w.q[k] = w.q[k] \/ IsActive(a.w.q[k])
      /\ a.kept \in Seq(Nat) /\ Len(a.kept) <= i - 1
      /\ \A m \in 1 .. Len(w.msg) :
           \/ HeldBut(a.w, n, m)
           \/ \E j \in DOMAIN a.kept : a.kept[j] = m
           \/ \E j \in i - 1 + 1 .. N : s[j] = m
  BY DEF DrainInv
<1>3. Shape(a.w) /\ a.w.q[n].dlq # n
  BY <1>2 DEF Frame, Sound
<1> HIDE DEF s, x, b, N
<1>4. ASSUME NEW j \in i - 1 + 1 .. N PROVE j \in i + 1 .. N \/ s[j] = x
  BY <1>1 DEF x
<1>5. CASE ShouldRoute(a.w, n, x)
  <2> DEFINE d == a.w.q[n].dlq
             v == Route(a.w, n, x, t)
  <2>1. a.w.q[n].dlq # None
    BY <1>5 DEF ShouldRoute
  <2>2. /\ Frame(a.w, v) /\ d \in Queues /\ x \in Pending(v.q[d])
        /\ IsActive(v.q[d])
        /\ \A k \in Queues : k # d => v.q[k] = a.w.q[k]
    <3> DEFINE u == a.w
               y == Route(u, n, x, t)
               l == u.q[n].dlq
    <3>1. Shape(u) /\ u.q[n].dlq # None /\ x \in Nat
      BY <1>1, <1>3, <2>1
    <3> HIDE DEF u
    <3>2. /\ Frame(u, y) /\ l \in Queues /\ x \in Pending(y.q[l])
          /\ IsActive(y.q[l])
          /\ \A k \in Queues : k # l => y.q[k] = u.q[k]
      BY <3>1, RouteEffect
    <3> QED  BY <3>2, Zenon DEF u
  <2>3. DOMAIN b = {"w", "kept"} /\ b.w = v /\ b.kept = a.kept
    BY <1>2, <1>5 DEF b, DrainOne
  <2>4. d # n
    BY <1>3
  <2> HIDE DEF d, v
  <2>5. Frame(w, b.w) /\ b.w.q[n] = w.q[n]
    BY <1>2, <2>2, <2>3, <2>4, FrameChain
  <2>6. \A k \in Queues : b.w.q[k] = w.q[k] \/ IsActive(b.w.q[k])
    BY <1>2, <2>2, <2>3
  <2>7. b.kept \in Seq(Nat) /\ Len(b.kept) <= i
    BY <1>1, <1>2, <2>3
  <2>8. HeldBut(b.w, n, x)
    BY <2>2, <2>3, <2>4 DEF HeldBut
  <2>9. ASSUME NEW m, HeldBut(a.w, n, m) PROVE HeldBut(b.w, n, m)
    BY <2>2, <2>3, <2>9, FrameHeld
  <2>10. ASSUME NEW m \in 1 .. Len(w.msg)
         PROVE  \/ HeldBut(b.w, n, m)
                \/ \E j \in DOMAIN b.kept : b.kept[j] = m
                \/ \E j \in i + 1 .. N : s[j] = m
    BY <1>2, <1>4, <2>3, <2>8, <2>9
  <2> QED
    BY <2>3, <2>5, <2>6, <2>7, <2>10 DEF DrainInv, b, x, s, N
<1>6. CASE ~ShouldRoute(a.w, n, x)
  <2> DEFINE c == a.kept
             e == b.kept
  <2>1. DOMAIN b = {"w", "kept"} /\ b.w = a.w /\ e = Append(c, x)
    BY <1>2, <1>6 DEF b, DrainOne
  <2>2. c \in Seq(Nat) /\ Len(c) <= i - 1
    BY <1>2
  <2> HIDE DEF c, e
  <2>3. /\ e \in Seq(Nat) /\ Len(e) = Len(c) + 1 /\ Len(e) \in Nat \ {0}
        /\ DOMAIN e = 1 .. Len(e) /\ e[Len(e)] = x
        /\ \A j \in DOMAIN c : j \in DOMAIN e /\ e[j] = c[j]
    BY <1>1, <2>1, <2>2, AppendRange
  <2>4. Len(e) <= i
    <3>1. Len(c) \in Nat
      BY <2>2
    <3> QED  BY <1>1, <2>2, <2>3, <3>1
  <2>5. ASSUME NEW m \in 1 .. Len(w.msg)
        PROVE  \/ HeldBut(b.w, n, m)
               \/ \E j \in DOMAIN e : e[j] = m
               \/ \E j \in i + 1 .. N : s[j] = m
    <3>1. CASE HeldBut(a.w, n, m)
      BY <3>1, <2>1
    <3>2. CASE \E j \in DOMAIN c : c[j] = m
      BY <3>2, <2>3
    <3>3. CASE \E j \in i - 1 + 1 .. N : s[j] = m
      BY <3>3, <1>4, <2>3
    <3> QED  BY <1>2, <3>1, <3>2, <3>3 DEF c
  <2> QED
    BY <1>2, <2>1, <2>3, <2>4, <2>5 DEF DrainInv, b, x, s, N, e
<1> QED
  BY <1>5, <1>6 DEF b, x, s

\* After each visit of the drain.
LEMMA DrainAlong ==
  ASSUME NEW w, Sound(w), NEW n \in Queues, NEW t, NEW f, DrainRun(w, n, t, f)
  PROVE  \A i \in 0 .. Len(w.q[n].messages) : DrainInv(w, n, f[i], i)
<1> DEFINE s == w.q[n].messages
           N == Len(s)
<1>1. s \in Seq(Nat) /\ N \in Nat
  BY DEF Sound, Shape, QShape
<1>2. /\ f[0] = [w |-> w, kept |-> <<>>]
      /\ \A i \in 1 .. N : f[i] = DrainOne(f[i - 1], s[i], n, t)
  BY DEF DrainRun
<1>3. DrainInv(w, n, f[0], 0)
  <2>1. /\ f[0].w = w /\ f[0].kept = <<>> /\ DOMAIN f[0] = {"w", "kept"}
    BY <1>2
  <2>2. Frame(w, w)
    BY DEF Frame, Sound
  <2>3. ASSUME NEW m \in 1 .. Len(w.msg)
        PROVE  HeldBut(w, n, m) \/ \E j \in 0 + 1 .. N : s[j] = m
    <3>1. Held(w, m)
      BY DEF Sound
    <3>2. ASSUME m \in Pending(w.q[n]) PROVE \E j \in 0 + 1 .. N : s[j] = m
      BY <3>2, <1>1 DEF Pending
    <3> HIDE DEF s, N
    <3> QED  BY <3>1, <3>2 DEF Held, HeldBut
  <2>4. <<>> \in Seq(Nat) /\ Len(<<>>) = 0
    OBVIOUS
  <2> QED  BY <2>1, <2>2, <2>3, <2>4 DEF DrainInv
<1>4. ASSUME NEW k \in 0 .. N PROVE DrainInv(w, n, f[k], k)
  <2> DEFINE T == {i \in 0 .. N : DrainInv(w, n, f[i], i)}
  <2>1. 0 \in T
    BY <1>1, <1>3
  <2>2. ASSUME NEW i \in 1 .. N, i - 1 \in T PROVE i \in T
    <3> DEFINE a == f[i - 1]
    <3>1. DrainInv(w, n, a, i - 1) /\ f[i] = DrainOne(a, s[i], n, t)
      BY <1>2, <2>2
    <3> HIDE DEF a
    <3>2. DrainInv(w, n, DrainOne(a, s[i], n, t), i)
      BY <3>1, DrainStep
    <3> QED  BY <3>1, <3>2, <1>1
  <2> HIDE DEF T
  <2>3. k \in Nat /\ \A i \in 1 .. k : i \in 1 .. N
    BY <1>1
  <2>4. k \in T
    BY <2>1, <2>2, <2>3, Upward
  <2> QED  BY <2>4 DEF T
<1> QED
  BY <1>4

\* Pending messages of n are in the new pending slice: the world stays whole.
LEMMA DrainKeeps ==
  ASSUME NEW w, Sound(w), NEW n \in Queues, NEW t
  PROVE  Sound(Drain(w, n, t))
<1> DEFINE s == w.q[n].messages
           N == Len(s)
           v == Drain(w, n, t)
<1>1. s \in Seq(Nat) /\ N \in Nat
  BY DEF Sound, Shape, QShape
<1>a. PICK f : DrainRun(w, n, t, f)
  BY <1>1, DrainPass
<1>2. /\ f[0] = [w |-> w, kept |-> <<>>]
      /\ \A i \in 1 .. N : f[i] = DrainOne(f[i - 1], s[i], n, t)
      /\ v = WithMessages(f[N].w, n, f[N].kept)
  BY <1>a DEF DrainRun
<1> HIDE DEF v
<1>3. N \in 0 .. N
  BY <1>1
<1>4. DrainInv(w, n, f[N], N)
  BY <1>a, <1>3, DrainAlong
<1> DEFINE u == f[N].w
           c == f[N].kept
<1>5. /\ Frame(w, u) /\ u.q[n] = w.q[n]
      /\ \A k \in Queues : u.q[k] = w.q[k] \/ IsActive(u.q[k])
      /\ c \in Seq(Nat) /\ Len(c) <= N
      /\ \A m \in 1 .. Len(w.msg) : \/ HeldBut(u, n, m)
                                    \/ \E j \in DOMAIN c : c[j] = m
  <2>1. N + 1 .. N = {}
    BY <1>1
  <2> QED  BY <1>4, <2>1 DEF DrainInv
<1> HIDE DEF u, c
<1>6. v = WithMessages(u, n, c)
  BY <1>2 DEF u, c
<1>7. /\ Shape(v)
      /\ v.msg = u.msg /\ v.uuid = u.uuid /\ v.gone = u.gone
      /\ \A k \in Queues : k # n => v.q[k] = u.q[k]
      /\ v.q[n].messages = c /\ v.q[n].inflight = u.q[n].inflight
      /\ v.q[n].byHandle = u.q[n].byHandle /\ v.q[n].dlq = u.q[n].dlq
      /\ (IsActive(v.q[n]) <=> IsActive(u.q[n]))
  BY <1>5, <1>6, SetMessages DEF Frame
<1>8. \A k \in Queues : v.q[k].dlq # k /\ Indexed(v.q[k], v.uuid)
  BY <1>5, <1>7 DEF Sound, Frame, Indexed
<1>9. ASSUME NEW k \in Queues PROVE Flagged(v.q[k])
  <2>1. CASE k # n
    BY <2>1, <1>5, <1>7 DEF Sound, Flagged
  <2>2. CASE k = n
    <3>1. c # <<>> => s # <<>>
      BY <1>1, <1>5
    <3> QED  BY <2>2, <3>1, <1>5, <1>7 DEF Sound, Flagged
  <2> QED  BY <2>1, <2>2
<1>10. ASSUME NEW m \in 1 .. Len(v.msg) PROVE Held(v, m)
  <2>1. HeldBut(u, n, m) \/ \E j \in DOMAIN c : c[j] = m
    BY <1>5, <1>7 DEF Frame
  <2>2. ASSUME \E j \in DOMAIN c : c[j] = m PROVE m \in Pending(v.q[n])
    BY <2>2, <1>7 DEF Pending
  <2> QED  BY <2>1, <2>2, <1>7 DEF Held, HeldBut, Out
<1>11. Sound(v)
  BY <1>7, <1>8, <1>9, <1>10 DEF Sound
<1> QED
  BY <1>11 DEF v

-----------------------------------------------------------------------------
(* sweepInFlight.                                                          *)

\* A handle leaves the index of queue n; message m is retired.
Unindex(w, n, h) == [w EXCEPT !.q[n].byHandle = @ \ {h}]
Retire(w, m) == [w EXCEPT !.gone = @ \cup {m}]

\* A handle taken from the index changes nothing else.
LEMMA UnindexEffect ==
  ASSUME NEW w, Shape(w), NEW n \in Queues, NEW h, NEW v, v = Unindex(w, n, h)
  PROVE  /\ Shape(v)
         /\ v.msg = w.msg /\ v.uuid = w.uuid /\ v.gone = w.gone
         /\ \A k \in Queues : k # n => v.q[k] = w.q[k]
         /\ v.q[n].messages = w.q[n].messages
         /\ v.q[n].inflight = w.q[n].inflight
         /\ v.q[n].byHandle = w.q[n].byHandle \ {h}
         /\ v.q[n].dlq = w.q[n].dlq
         /\ (IsActive(v.q[n]) <=> IsActive(w.q[n]))
<1>1. /\ DOMAIN w = {"msg", "q", "uuid", "gone"} /\ DOMAIN w.q = Queues
      /\ DOMAIN w.q[n] = QFields
  BY DEF Shape, QShape
<1>2. /\ DOMAIN v = {"msg", "q", "uuid", "gone"} /\ DOMAIN v.q = Queues
      /\ v.msg = w.msg /\ v.uuid = w.uuid /\ v.gone = w.gone
      /\ \A k \in Queues : k # n => v.q[k] = w.q[k]
  BY <1>1 DEF Unindex
<1>3. DOMAIN v.q[n] = QFields /\ v.q[n].byHandle = w.q[n].byHandle \ {h}
  BY <1>1 DEF Unindex, QFields
<1>4. /\ v.q[n].messages = w.q[n].messages /\ v.q[n].inflight = w.q[n].inflight
      /\ v.q[n].dlq = w.q[n].dlq /\ (IsActive(v.q[n]) <=> IsActive(w.q[n]))
  BY <1>1 DEF Unindex, QFields, IsActive
<1>5. QShape(v.q[n])
  BY <1>3, <1>4 DEF Shape, QShape
<1>6. Shape(v)
  BY <1>2, <1>5 DEF Shape
<1> QED
  BY <1>2, <1>3, <1>4, <1>6

\* A message retired changes nothing else.
LEMMA RetireEffect ==
  ASSUME NEW w, Shape(w), NEW m, NEW v, v = Retire(w, m)
  PROVE  /\ Shape(v) /\ v.msg = w.msg /\ v.uuid = w.uuid /\ v.q = w.q
         /\ v.gone = w.gone \cup {m}
  BY DEF Shape, Retire

\* A message in the slices of w other than the in-flight slice of n.
HeldOff(w, n, m) ==
  \/ m \in w.gone
  \/ \E k \in Queues : m \in Pending(w.q[k])
  \/ \E k \in Queues : k # n /\ m \in Out(w.q[k])

\* What the sweep of queue n leaves alone.
SweepFrame(w, n, u) ==
  /\ Shape(u) /\ u.uuid = w.uuid /\ Len(u.msg) = Len(w.msg)
  /\ \A k \in Queues :
       /\ u.q[k].inflight = w.q[k].inflight /\ u.q[k].dlq = w.q[k].dlq
       /\ IsActive(w.q[k]) => IsActive(u.q[k])
       /\ k # n => /\ u.q[k].byHandle = w.q[k].byHandle
                   /\ u.q[k] = w.q[k] \/ IsActive(u.q[k])

\* Where the sweep of queue n is after i of its leases: c has the kept ones.
SweepInv(w, n, u, c, i) ==
  LET s == w.q[n].inflight
  IN /\ SweepFrame(w, n, u)
     /\ c \in Seq(Leases) /\ Len(c) <= i /\ Distinct(c)
     /\ \A p \in DOMAIN c : \E j \in 1 .. i : c[p] = s[j]
     /\ u.q[n].byHandle
          = Handles(c) \cup {s[j].handle : j \in i + 1 .. Len(s)}
     /\ \A m \in 1 .. Len(w.msg) :
          \/ HeldOff(u, n, m)
          \/ \E p \in DOMAIN c : c[p].m = m
          \/ \E j \in i + 1 .. Len(s) : s[j].m = m

\* A lease that ends: u without its handle, v with its message elsewhere.
LEMMA SweepEnds ==
  ASSUME NEW w, Sound(w), NEW n \in Queues, NEW u, NEW c,
         NEW i \in 1 .. Len(w.q[n].inflight), SweepInv(w, n, u, c, i - 1),
         NEW v, SweepFrame(w, n, v),
         v.q[n].byHandle = u.q[n].byHandle \ {w.q[n].inflight[i].handle},
         \A m : HeldOff(u, n, m) => HeldOff(v, n, m),
         HeldOff(v, n, w.q[n].inflight[i].m)
  PROVE  SweepInv(w, n, v, c, i)
<1> DEFINE s == w.q[n].inflight
           x == s[i]
           N == Len(s)
<1>1. /\ s \in Seq(Leases) /\ N \in Nat /\ i \in 1 .. N
      /\ DOMAIN s = 1 .. N /\ Distinct(s)
  BY DEF Sound, Shape, QShape, Indexed
<1>2. /\ c \in Seq(Leases) /\ Len(c) <= i - 1 /\ Distinct(c)
      /\ \A p \in DOMAIN c : \E j \in 1 .. i - 1 : c[p] = s[j]
      /\ u.q[n].byHandle = Handles(c) \cup {s[j].handle : j \in i - 1 + 1 .. N}
      /\ \A m \in 1 .. Len(w.msg) :
           \/ HeldOff(u, n, m)
           \/ \E p \in DOMAIN c : c[p].m = m
           \/ \E j \in i - 1 + 1 .. N : s[j].m = m
  BY DEF SweepInv
<1> HIDE DEF s, N
<1>3. /\ \A j \in i - 1 + 1 .. N : j \in i + 1 .. N \/ j = i
      /\ \A j \in i + 1 .. N : j \in i - 1 + 1 .. N /\ j # i /\ j \in 1 .. N
      /\ \A j \in 1 .. i - 1 : j # i /\ j \in 1 .. N /\ j \in 1 .. i
      /\ i - 1 + 1 = i /\ i \in i - 1 + 1 .. N /\ i - 1 <= i
  BY <1>1
<1>4. x.handle \notin Handles(c)
  <2> SUFFICES ASSUME NEW p \in DOMAIN c, c[p].handle = x.handle PROVE FALSE
    BY DEF Handles
  <2>1. PICK j \in 1 .. i - 1 : c[p] = s[j]
    BY <1>2
  <2>2. j # i /\ j \in DOMAIN s /\ i \in DOMAIN s /\ s[j].handle = s[i].handle
    BY <1>1, <1>3, <2>1
  <2> QED  BY <1>1, <2>2 DEF Distinct
<1>5. x.handle \notin {s[j].handle : j \in i + 1 .. N}
  BY <1>1, <1>3 DEF Distinct
<1>6. v.q[n].byHandle = Handles(c) \cup {s[j].handle : j \in i + 1 .. N}
  <2>1. v.q[n].byHandle = u.q[n].byHandle \ {x.handle}
    BY DEF s
  <2>2. {s[j].handle : j \in i - 1 + 1 .. N}
          = {s[j].handle : j \in i + 1 .. N} \cup {x.handle}
    BY <1>3
  <2> QED  BY <1>2, <1>4, <1>5, <2>1, <2>2
<1>7. ASSUME NEW m \in 1 .. Len(w.msg)
      PROVE  \/ HeldOff(v, n, m)
             \/ \E p \in DOMAIN c : c[p].m = m
             \/ \E j \in i + 1 .. N : s[j].m = m
  <2>1. HeldOff(v, n, x.m)
    BY DEF s
  <2> QED  BY <1>2, <1>3, <2>1
<1>8. Len(c) <= i
  BY <1>1, <1>2
<1>9. \A p \in DOMAIN c : \E j \in 1 .. i : c[p] = s[j]
  BY <1>2, <1>3
<1> QED
  BY <1>2, <1>6, <1>7, <1>8, <1>9 DEF SweepInv, s, N

\* The in-flight slice of a queue is replaced.
WithInflight(w, n, s) == [w EXCEPT !.q[n].inflight = s]

\* A new in-flight slice changes nothing else.
LEMMA SetInflight ==
  ASSUME NEW w, Shape(w), NEW n \in Queues, NEW s \in Seq(Leases),
         NEW v, v = WithInflight(w, n, s)
  PROVE  /\ Shape(v)
         /\ v.msg = w.msg /\ v.uuid = w.uuid /\ v.gone = w.gone
         /\ \A k \in Queues : k # n => v.q[k] = w.q[k]
         /\ v.q[n].messages = w.q[n].messages /\ v.q[n].inflight = s
         /\ v.q[n].byHandle = w.q[n].byHandle /\ v.q[n].dlq = w.q[n].dlq
         /\ (IsActive(v.q[n]) <=> IsActive(w.q[n]))
<1>1. /\ DOMAIN w = {"msg", "q", "uuid", "gone"} /\ DOMAIN w.q = Queues
      /\ DOMAIN w.q[n] = QFields
  BY DEF Shape, QShape
<1>2. /\ DOMAIN v = {"msg", "q", "uuid", "gone"} /\ DOMAIN v.q = Queues
      /\ v.msg = w.msg /\ v.uuid = w.uuid /\ v.gone = w.gone
      /\ \A k \in Queues : k # n => v.q[k] = w.q[k]
  BY <1>1 DEF WithInflight
<1>3. DOMAIN v.q[n] = QFields /\ v.q[n].inflight = s
  BY <1>1 DEF WithInflight, QFields
<1>4. /\ v.q[n].messages = w.q[n].messages /\ v.q[n].byHandle = w.q[n].byHandle
      /\ v.q[n].dlq = w.q[n].dlq /\ (IsActive(v.q[n]) <=> IsActive(w.q[n]))
  BY <1>1 DEF WithInflight, QFields, IsActive
<1>5. QShape(v.q[n])
  BY <1>3, <1>4 DEF Shape, QShape
<1>6. Shape(v)
  BY <1>2, <1>5 DEF Shape
<1> QED
  BY <1>2, <1>3, <1>4, <1>6

\* One lease of the sweep.
SweepAt(w, n, a, i) ==
  /\ DOMAIN a = {"w", "kept"} /\ a = [w |-> a.w, kept |-> a.kept]
  /\ SweepInv(w, n, a.w, a.kept, i)

\* One lease of the sweep: dropped, given back or kept.
LEMMA SweepStep ==
  ASSUME NEW w, Sound(w), NEW n \in Queues, NEW t, NEW a,
         NEW i \in 1 .. Len(w.q[n].inflight), SweepAt(w, n, a, i - 1)
  PROVE  SweepAt(w, n, SweepOne(a, w.q[n].inflight[i], n, t), i)
<1> DEFINE u == a.w
           c == a.kept
           b == SweepOne(a, w.q[n].inflight[i], n, t)
<1>b. SweepInv(w, n, u, c, i - 1)
  BY DEF SweepAt
<1>a. DOMAIN a = {"w", "kept"} /\ a.w = u /\ a.kept = c /\ a = [w |-> u, kept |-> c]
  BY DEF SweepAt
<1> HIDE DEF u, c, b
<1> DEFINE s == w.q[n].inflight
           x == s[i]
           N == Len(s)
<1>1. /\ s \in Seq(Leases) /\ N \in Nat /\ i \in 1 .. N /\ DOMAIN s = 1 .. N
      /\ Distinct(s)
  BY DEF Sound, Shape, QShape, Indexed
<1>2. x \in Leases /\ x.m \in Nat /\ x.handle \in Nat
  <2>1. x \in Leases
    BY <1>1
  <2> HIDE DEF x
  <2> QED  BY <2>1 DEF Leases
<1>3. /\ SweepFrame(w, n, u)
      /\ c \in Seq(Leases) /\ Len(c) <= i - 1 /\ Distinct(c)
      /\ \A p \in DOMAIN c : \E j \in 1 .. i - 1 : c[p] = s[j]
      /\ u.q[n].byHandle = Handles(c) \cup {s[j].handle : j \in i - 1 + 1 .. N}
      /\ \A m \in 1 .. Len(w.msg) :
           \/ HeldOff(u, n, m)
           \/ \E p \in DOMAIN c : c[p].m = m
           \/ \E j \in i - 1 + 1 .. N : s[j].m = m
  BY <1>b DEF SweepInv
<1>4. Shape(u)
  BY <1>3 DEF SweepFrame
<1> HIDE DEF s, N, x
<1> DEFINE h == x.handle
           g == x.m
           y == Unindex(u, n, h)
<1>5. b = SweepOne(a, x, n, t)
  BY DEF x, s, b
<1> HIDE DEF h, g, y
<1>6. /\ Shape(y)
      /\ y.msg = u.msg /\ y.uuid = u.uuid /\ y.gone = u.gone
      /\ \A k \in Queues : k # n => y.q[k] = u.q[k]
      /\ y.q[n].messages = u.q[n].messages
      /\ y.q[n].inflight = u.q[n].inflight
      /\ y.q[n].byHandle = u.q[n].byHandle \ {h}
      /\ y.q[n].dlq = u.q[n].dlq
      /\ (IsActive(y.q[n]) <=> IsActive(u.q[n]))
  BY <1>4, UnindexEffect DEF y
<1>7. /\ SweepFrame(w, n, y)
      /\ \A m : HeldOff(u, n, m) => HeldOff(y, n, m)
  <2>1. \A k \in Queues : Pending(y.q[k]) = Pending(u.q[k])
    BY <1>6 DEF Pending
  <2>2. \A k \in Queues : k # n => Out(y.q[k]) = Out(u.q[k])
    BY <1>6
  <2>3. \A m : HeldOff(u, n, m) => HeldOff(y, n, m)
    BY <1>6, <2>1, <2>2 DEF HeldOff
  <2>4. SweepFrame(w, n, y)
    BY <1>3, <1>6 DEF SweepFrame
  <2> QED  BY <2>3, <2>4
<1>8. CASE Expired(u, g, t)
  <2> DEFINE v == Retire(y, g)
  <2>1. b = [w |-> v, kept |-> c]
    <3>1. b = [a EXCEPT !.w.q[n].byHandle = @ \ {h}, !.w.gone = @ \cup {g}]
      BY <1>5, <1>8, <1>a DEF SweepOne, g, h
    <3>2. v = [u EXCEPT !.q[n].byHandle = @ \ {h}, !.gone = @ \cup {g}]
      BY <1>4 DEF y, Unindex, Retire, Shape
    <3> QED  BY <3>1, <3>2, <1>4, <1>a DEF Shape
  <2>2. /\ Shape(v) /\ v.msg = y.msg /\ v.uuid = y.uuid /\ v.q = y.q
        /\ v.gone = y.gone \cup {g}
    BY <1>6, RetireEffect
  <2> HIDE DEF v
  <2>3. SweepFrame(w, n, v)
    BY <1>7, <2>2 DEF SweepFrame
  <2>4. v.q[n].byHandle = u.q[n].byHandle \ {h}
    BY <1>6, <2>2
  <2>5. HeldOff(v, n, g) /\ \A m : HeldOff(u, n, m) => HeldOff(v, n, m)
    BY <1>7, <2>2 DEF HeldOff
  <2>6. SweepInv(w, n, v, c, i)
    BY <1>b, <2>3, <2>4, <2>5, SweepEnds DEF h, g, x, s
  <2> QED  BY <2>1, <2>6 DEF SweepAt, b
<1>9. CASE ~Expired(u, g, t) /\ LeaseOver(x, t)
  <2> DEFINE v == RouteOrRequeue(y, n, g, t)
  <2>1. b = [w |-> v, kept |-> c]
    BY <1>5, <1>9, <1>a DEF SweepOne, y, Unindex, g, h
  <2>2. /\ Frame(y, v) /\ \E k \in Queues : g \in Pending(v.q[k])
        /\ \A k \in Queues : k # n => v.q[k] = y.q[k] \/ IsActive(v.q[k])
    <3>1. g \in Nat
      BY <1>2 DEF g
    <3> QED  BY <3>1, <1>6, RouteOrRequeueEffect
  <2> HIDE DEF v
  <2>3. SweepFrame(w, n, v)
    BY <1>7, <2>2 DEF SweepFrame, Frame
  <2>4. v.q[n].byHandle = u.q[n].byHandle \ {h}
    BY <1>6, <2>2 DEF Frame
  <2>5. HeldOff(v, n, g) /\ \A m : HeldOff(u, n, m) => HeldOff(v, n, m)
    <3>1. \A k \in Queues : Out(v.q[k]) = Out(y.q[k])
      BY <2>2 DEF Frame, Out
    <3> QED  BY <1>7, <2>2, <3>1 DEF HeldOff, Frame
  <2>6. SweepInv(w, n, v, c, i)
    BY <1>b, <2>3, <2>4, <2>5, SweepEnds DEF h, g, x, s
  <2> QED  BY <2>1, <2>6 DEF SweepAt, b
<1>10. CASE ~Expired(u, g, t) /\ ~LeaseOver(x, t)
  <2> DEFINE e == Append(c, x)
  <2>1. b = [w |-> u, kept |-> e]
    BY <1>5, <1>10, <1>a DEF SweepOne, g
  <2>2. /\ e \in Seq(Leases) /\ Len(e) = Len(c) + 1 /\ Len(e) \in Nat \ {0}
        /\ DOMAIN e = 1 .. Len(e) /\ e[Len(e)] = x
        /\ \A j \in DOMAIN c : j \in DOMAIN e /\ e[j] = c[j]
        /\ \A j \in DOMAIN e : j \in DOMAIN c \/ j = Len(e)
    BY <1>2, <1>3, AppendRange
  <2> HIDE DEF e
  <2>3. /\ \A j \in i - 1 + 1 .. N : j \in i + 1 .. N \/ j = i
        /\ \A j \in i + 1 .. N : j \in i - 1 + 1 .. N
        /\ \A j \in 1 .. i - 1 : j # i /\ j \in 1 .. N /\ j \in 1 .. i
        /\ i \in i - 1 + 1 .. N /\ i \in 1 .. i
    BY <1>1
  <2>4. Len(e) <= i
    <3>1. Len(c) \in Nat
      BY <1>3
    <3> QED  BY <1>1, <1>3, <2>2, <3>1
  <2>5. \A p \in DOMAIN e : \E j \in 1 .. i : e[p] = s[j]
    BY <1>3, <2>2, <2>3 DEF x
  <2>6. h \notin Handles(c)
    <3> SUFFICES ASSUME NEW p \in DOMAIN c, c[p].handle = h PROVE FALSE
      BY DEF Handles
    <3>1. PICK j \in 1 .. i - 1 : c[p] = s[j]
      BY <1>3
    <3>2. j # i /\ j \in DOMAIN s /\ i \in DOMAIN s /\ s[j].handle = s[i].handle
      BY <1>1, <2>3, <3>1 DEF h, x
    <3> QED  BY <1>1, <3>2 DEF Distinct
  <2>7. Distinct(e)
    <3> SUFFICES ASSUME NEW p \in DOMAIN e, NEW q \in DOMAIN e,
                        e[p].handle = e[q].handle
                 PROVE  p = q
      BY DEF Distinct
    <3>1. \A r \in DOMAIN c : e[r].handle # h
      BY <2>2, <2>6 DEF Handles
    <3> QED  BY <1>3, <2>2, <3>1 DEF Distinct, h
  <2>8. Handles(e) = Handles(c) \cup {h}
    BY <2>2 DEF Handles, h
  <2>9. {s[j].handle : j \in i - 1 + 1 .. N}
          = {s[j].handle : j \in i + 1 .. N} \cup {h}
    BY <2>3 DEF h, x
  <2>10. u.q[n].byHandle = Handles(e) \cup {s[j].handle : j \in i + 1 .. N}
    BY <1>3, <2>8, <2>9
  <2>11. ASSUME NEW m \in 1 .. Len(w.msg)
         PROVE  \/ HeldOff(u, n, m)
                \/ \E p \in DOMAIN e : e[p].m = m
                \/ \E j \in i + 1 .. N : s[j].m = m
    <3>1. CASE HeldOff(u, n, m)
      BY <3>1
    <3>2. CASE \E p \in DOMAIN c : c[p].m = m
      BY <3>2, <2>2
    <3>3. CASE \E j \in i - 1 + 1 .. N : s[j].m = m
      BY <3>3, <2>2, <2>3 DEF x
    <3> QED  BY <1>3, <3>1, <3>2, <3>3
  <2>12. SweepInv(w, n, u, e, i)
    BY <1>3, <2>2, <2>4, <2>5, <2>7, <2>10, <2>11 DEF SweepInv, s, N
  <2> QED  BY <2>1, <2>12 DEF SweepAt, b
<1> QED
  BY <1>8, <1>9, <1>10

\* The visits of the sweep.
SweepRun(w, n, t, f) ==
  LET s == w.q[n].inflight
  IN /\ f[0] = [w |-> w, kept |-> <<>>]
     /\ \A i \in 1 .. Len(s) : f[i] = SweepOne(f[i - 1], s[i], n, t)
     /\ Sweep(w, n, t) = WithInflight(f[Len(s)].w, n, f[Len(s)].kept)

\* The sweep as a sequence of visits.
LEMMA SweepPass ==
  ASSUME NEW w, NEW n, NEW t, w.q[n].inflight \in Seq(Leases)
  PROVE  \E f : SweepRun(w, n, t, f)
<1> DEFINE s == w.q[n].inflight
           N == Len(s)
           base == [w |-> w, kept |-> <<>>]
           visit(a, m) == SweepOne(a, m, n, t)
           h == CHOOSE f : f = [i \in 0 .. N |->
                  IF i = 0 THEN base ELSE visit(f[i - 1], s[i])]
<1>1. Sweep(w, n, t) = WithInflight(h[N].w, n, h[N].kept)
  BY DEF Sweep, Pass, WithInflight
<1>2. N \in Nat
  OBVIOUS
<1> HIDE DEF s, N, base, visit, h
<1>3. \E f : f = [i \in 0 .. N |-> IF i = 0 THEN base ELSE visit(f[i - 1], s[i])]
  <2> DEFINE Q(f, k) == /\ f[0] = base
                        /\ \A i \in 1 .. k : f[i] = visit(f[i - 1], s[i])
             T == {k \in 0 .. N : \E f : Q(f, k)}
  <2>1. 0 \in T
    <3>1. Q([i \in 0 .. N |-> base], 0)
      BY <1>2
    <3> HIDE DEF Q
    <3> QED  BY <3>1, <1>2
  <2>2. ASSUME NEW k \in 1 .. N, k - 1 \in T PROVE k \in T
    <3>1. PICK f : Q(f, k - 1)
      BY <2>2
    <3> DEFINE e == [i \in 0 .. N |-> IF i = k THEN visit(f[k - 1], s[k]) ELSE f[i]]
    <3>2. /\ e[0] = base /\ e[k] = visit(f[k - 1], s[k]) /\ e[k - 1] = f[k - 1]
      BY <3>1, <1>2
    <3>3. \A i \in 1 .. k - 1 : e[i] = f[i] /\ e[i - 1] = f[i - 1]
      BY <1>2
    <3> HIDE DEF e
    <3>4. \A i \in 1 .. k : i = k \/ i \in 1 .. k - 1
      BY <1>2
    <3>5. Q(e, k)
      BY <3>1, <3>2, <3>3, <3>4
    <3> HIDE DEF Q
    <3> QED  BY <3>5, <1>2
  <2>3. N \in T
    <3> HIDE DEF T
    <3> QED  BY <1>2, <2>1, <2>2, Upward
  <2>4. PICK f : Q(f, N)
    BY <2>3
  <2> DEFINE e == [i \in 0 .. N |-> f[i]]
  <2>5. e = [i \in 0 .. N |-> IF i = 0 THEN base ELSE visit(e[i - 1], s[i])]
    BY <2>4, <1>2
  <2> HIDE DEF e
  <2> QED  BY <2>5
<1>4. h = [i \in 0 .. N |-> IF i = 0 THEN base ELSE visit(h[i - 1], s[i])]
  BY <1>3 DEF h
<1>5. /\ h[0] = base
      /\ \A i \in 1 .. N : h[i] = visit(h[i - 1], s[i])
  BY <1>2, <1>4
<1> QED
  BY <1>1, <1>5 DEF N, s, base, visit, SweepRun

\* After each visit of the sweep.
LEMMA SweepAlong ==
  ASSUME NEW w, Sound(w), NEW n \in Queues, NEW t, NEW f, SweepRun(w, n, t, f)
  PROVE  \A i \in 0 .. Len(w.q[n].inflight) : SweepAt(w, n, f[i], i)
<1> DEFINE s == w.q[n].inflight
           N == Len(s)
<1>1. s \in Seq(Leases) /\ N \in Nat /\ DOMAIN s = 1 .. N
  BY DEF Sound, Shape, QShape
<1>2. /\ f[0] = [w |-> w, kept |-> <<>>]
      /\ \A i \in 1 .. N : f[i] = SweepOne(f[i - 1], s[i], n, t)
  BY DEF SweepRun
<1>3. SweepAt(w, n, f[0], 0)
  <2>1. /\ f[0].w = w /\ f[0].kept = <<>> /\ f[0] = [w |-> f[0].w, kept |-> f[0].kept]
        /\ DOMAIN f[0] = {"w", "kept"}
    BY <1>2
  <2>2. SweepFrame(w, n, w)
    BY DEF SweepFrame, Sound
  <2>3. ASSUME NEW m \in 1 .. Len(w.msg)
        PROVE  HeldOff(w, n, m) \/ \E j \in 0 + 1 .. N : s[j].m = m
    <3>1. Held(w, m)
      BY DEF Sound
    <3>2. ASSUME m \in Out(w.q[n]) PROVE \E j \in 0 + 1 .. N : s[j].m = m
      BY <3>2, <1>1 DEF Out
    <3> HIDE DEF s, N
    <3> QED  BY <3>1, <3>2 DEF Held, HeldOff
  <2>4. <<>> \in Seq(Leases) /\ Len(<<>>) = 0 /\ DOMAIN <<>> = {}
    OBVIOUS
  <2>5. w.q[n].byHandle = Handles(<<>>) \cup {s[j].handle : j \in 0 + 1 .. N}
    <3>1. w.q[n].byHandle = Handles(s)
      BY DEF Sound, Indexed
    <3>2. 0 + 1 .. N = DOMAIN s
      BY <1>1
    <3> HIDE DEF s, N
    <3> QED  BY <2>4, <3>1, <3>2 DEF Handles
  <2>6. Distinct(<<>>)
    BY <2>4 DEF Distinct
  <2>7. SweepInv(w, n, w, <<>>, 0)
    BY <2>2, <2>3, <2>4, <2>5, <2>6 DEF SweepInv
  <2> QED  BY <2>1, <2>7 DEF SweepAt
<1>4. ASSUME NEW k \in 0 .. N PROVE SweepAt(w, n, f[k], k)
  <2> DEFINE T == {i \in 0 .. N : SweepAt(w, n, f[i], i)}
  <2>1. 0 \in T
    BY <1>1, <1>3
  <2>2. ASSUME NEW i \in 1 .. N, i - 1 \in T PROVE i \in T
    <3> DEFINE a == f[i - 1]
    <3>1. SweepAt(w, n, a, i - 1) /\ f[i] = SweepOne(a, s[i], n, t)
      BY <1>2, <2>2
    <3> HIDE DEF a
    <3>2. SweepAt(w, n, SweepOne(a, s[i], n, t), i)
      BY <3>1, SweepStep
    <3> QED  BY <3>1, <3>2, <1>1
  <2> HIDE DEF T
  <2>3. k \in Nat /\ \A i \in 1 .. k : i \in 1 .. N
    BY <1>1
  <2>4. k \in T
    BY <2>1, <2>2, <2>3, Upward
  <2> QED  BY <2>4 DEF T
<1> QED
  BY <1>4

\* Pass 1 of a receive, sweepInFlight, keeps the invariant.
LEMMA SweepKeeps ==
  ASSUME NEW w, Sound(w), NEW n \in Queues, NEW t
  PROVE  Sound(Sweep(w, n, t))
<1> DEFINE s == w.q[n].inflight
           N == Len(s)
           v == Sweep(w, n, t)
<1>1. s \in Seq(Leases) /\ N \in Nat /\ DOMAIN s = 1 .. N
  BY DEF Sound, Shape, QShape
<1>a. PICK f : SweepRun(w, n, t, f)
  BY <1>1, SweepPass
<1>2. /\ f[0] = [w |-> w, kept |-> <<>>]
      /\ \A i \in 1 .. N : f[i] = SweepOne(f[i - 1], s[i], n, t)
      /\ v = WithInflight(f[N].w, n, f[N].kept)
  BY <1>a DEF SweepRun
<1> HIDE DEF v
<1>3. N \in 0 .. N
  BY <1>1
<1>4. SweepAt(w, n, f[N], N)
  BY <1>a, <1>3, SweepAlong
<1> DEFINE u == f[N].w
           c == f[N].kept
<1>5. /\ SweepFrame(w, n, u)
      /\ c \in Seq(Leases) /\ Len(c) <= N /\ Distinct(c)
      /\ \A p \in DOMAIN c : \E j \in 1 .. N : c[p] = s[j]
      /\ u.q[n].byHandle = Handles(c)
      /\ \A m \in 1 .. Len(w.msg) : \/ HeldOff(u, n, m)
                                    \/ \E j \in DOMAIN c : c[j].m = m
  <2>1. N + 1 .. N = {}
    BY <1>1
  <2> QED  BY <1>4, <2>1 DEF SweepAt, SweepInv
<1> HIDE DEF u, c
<1>6. v = WithInflight(u, n, c)
  BY <1>2 DEF u, c
<1>7. /\ Shape(v)
      /\ v.msg = u.msg /\ v.uuid = u.uuid /\ v.gone = u.gone
      /\ \A k \in Queues : k # n => v.q[k] = u.q[k]
      /\ v.q[n].messages = u.q[n].messages /\ v.q[n].inflight = c
      /\ v.q[n].byHandle = u.q[n].byHandle /\ v.q[n].dlq = u.q[n].dlq
      /\ (IsActive(v.q[n]) <=> IsActive(u.q[n]))
  BY <1>5, <1>6, SetInflight DEF SweepFrame
<1>8. ASSUME NEW k \in Queues PROVE v.q[k].dlq # k /\ Indexed(v.q[k], v.uuid)
  <2>1. v.q[k].dlq # k
    BY <1>5, <1>7 DEF Sound, SweepFrame
  <2>2. CASE k # n
    BY <2>1, <2>2, <1>5, <1>7 DEF Sound, SweepFrame, Indexed
  <2>3. CASE k = n
    <3>1. \A h \in Handles(s) : h <= w.uuid
      BY DEF Sound, Indexed
    <3>2. Handles(c) \subseteq Handles(s)
      <4> SUFFICES ASSUME NEW p \in DOMAIN c PROVE c[p].handle \in Handles(s)
        BY DEF Handles
      <4>1. PICK j \in 1 .. N : c[p] = s[j]
        BY <1>5
      <4> HIDE DEF s, N
      <4> QED  BY <4>1, <1>1 DEF Handles
    <3> QED  BY <2>1, <2>3, <3>1, <3>2, <1>5, <1>7 DEF SweepFrame, Indexed
  <2> QED  BY <2>2, <2>3
<1>9. ASSUME NEW k \in Queues PROVE Flagged(v.q[k])
  <2>1. CASE k # n
    BY <2>1, <1>5, <1>7 DEF Sound, Flagged, SweepFrame
  <2>2. CASE k = n
    <3>1. c # <<>> => s # <<>>
      BY <1>1, <1>5
    <3>2. CASE s = <<>>
      <4>1. u = w
        BY <1>1, <1>2, <3>2 DEF u
      <4> QED  BY <2>2, <3>1, <3>2, <4>1, <1>7 DEF Sound, Flagged
    <3>3. CASE s # <<>>
      BY <2>2, <3>3, <1>5, <1>7 DEF Sound, Flagged, SweepFrame
    <3> QED  BY <3>2, <3>3
  <2> QED  BY <2>1, <2>2
<1>10. ASSUME NEW m \in 1 .. Len(v.msg) PROVE Held(v, m)
  <2>1. HeldOff(u, n, m) \/ \E j \in DOMAIN c : c[j].m = m
    BY <1>5, <1>7 DEF SweepFrame
  <2>2. ASSUME \E j \in DOMAIN c : c[j].m = m PROVE m \in Out(v.q[n])
    BY <2>2, <1>7 DEF Out
  <2> QED  BY <2>1, <2>2, <1>7 DEF Held, HeldOff, Pending
<1>11. Sound(v)
  BY <1>7, <1>8, <1>9, <1>10 DEF Sound
<1> QED
  BY <1>11 DEF v

-----------------------------------------------------------------------------
(* Leasing and picking.                                                    *)

\* From w to v, message m of queue n got a lease.
Leased(w, v, n, m) ==
  /\ Shape(v) /\ v.gone = w.gone /\ Len(v.msg) = Len(w.msg)
  /\ \A k \in Queues : k # n => v.q[k] = w.q[k]
  /\ v.q[n].messages = w.q[n].messages /\ v.q[n].dlq = w.q[n].dlq
  /\ IsActive(v.q[n]) <=> IsActive(w.q[n])
  /\ \A k \in Queues : Indexed(w.q[k], w.uuid) => Indexed(v.q[k], v.uuid)
  /\ Out(w.q[n]) \subseteq Out(v.q[n]) /\ m \in Out(v.q[n])

\* A lease takes a handle that was never issued before.
LEMMA LeaseEffect ==
  ASSUME NEW w, Shape(w), NEW n \in Queues, NEW m \in Nat, NEW vt \in Int,
         NEW t \in Int, NEW batch \in Nat
  PROVE  Leased(w, Lease(w, n, m, vt, t, batch), n, m)
<1> DEFINE v == Lease(w, n, m, vt, t, batch)
           h == w.uuid + 1
           x == [m |-> m, handle |-> h, visibleAt |-> t + vt, batch |-> batch]
           s == w.q[n].inflight
           r == v.q[n].inflight
<1>1. /\ DOMAIN w = {"msg", "q", "uuid", "gone"} /\ DOMAIN w.q = Queues
      /\ \A k \in Queues : DOMAIN w.q[k] = QFields
      /\ w.uuid \in Nat /\ h \in Nat /\ s \in Seq(Leases)
  BY DEF Shape, QShape
<1>2. x \in Leases /\ x.m = m /\ x.handle = h
  BY <1>1 DEF Leases
<1>3. /\ DOMAIN v = {"msg", "q", "uuid", "gone"} /\ DOMAIN v.q = Queues
      /\ v.uuid = h /\ v.gone = w.gone
      /\ \A k \in Queues : k # n => v.q[k] = w.q[k]
  BY <1>1 DEF Lease
<1>4. \E e : v.msg = [w.msg EXCEPT ![m] = e]
  BY <1>1 DEF Lease
<1>5. DOMAIN v.q[n] = QFields /\ r = Append(s, x)
  BY <1>1 DEF Lease, QFields
<1>6. v.q[n].byHandle = w.q[n].byHandle \cup {h}
  BY <1>1 DEF Lease, QFields
<1>7. /\ v.q[n].messages = w.q[n].messages /\ v.q[n].dlq = w.q[n].dlq
      /\ IsActive(v.q[n]) <=> IsActive(w.q[n])
  BY <1>1 DEF Lease, QFields, IsActive
<1> HIDE DEF v, h, x, s, r
<1>8. IsSeq(v.msg) /\ Len(v.msg) = Len(w.msg)
  <2>1. PICK e : v.msg = [w.msg EXCEPT ![m] = e]
    BY <1>4
  <2>2. IsSeq(w.msg)
    BY DEF Shape
  <2>3. /\ IsSeq([w.msg EXCEPT ![m] = e])
        /\ Len([w.msg EXCEPT ![m] = e]) = Len(w.msg)
    BY <2>2, HeapUpdate, Zenon
  <2> QED  BY <2>1, <2>3, Zenon
<1>9. /\ r \in Seq(Leases) /\ Len(r) = Len(s) + 1 /\ Len(r) \in Nat \ {0}
      /\ DOMAIN r = 1 .. Len(r) /\ r[Len(r)] = x
      /\ \A i \in DOMAIN s : i \in DOMAIN r /\ r[i] = s[i]
      /\ \A i \in DOMAIN r : i \in DOMAIN s \/ i = Len(r)
  BY <1>1, <1>2, <1>5, AppendRange
<1>10. Shape(v)
  <2>1. QShape(v.q[n])
    BY <1>5, <1>7, <1>9 DEF Shape, QShape, r
  <2> QED  BY <1>1, <1>3, <1>8, <2>1 DEF Shape
<1>11. Out(w.q[n]) \subseteq Out(v.q[n]) /\ m \in Out(v.q[n])
  <2>1. Out(w.q[n]) = {s[i].m : i \in DOMAIN s} /\ Out(v.q[n]) = {r[i].m : i \in DOMAIN r}
    BY DEF Out, r, s
  <2> QED  BY <2>1, <1>2, <1>9
<1>12. ASSUME NEW k \in Queues, Indexed(w.q[k], w.uuid)
       PROVE  Indexed(v.q[k], v.uuid)
  <2>1. \A g \in Handles(w.q[k].inflight) : g \in Nat
    <3>1. w.q[k].inflight \in Seq(Leases)
      BY DEF Shape, QShape
    <3>2. \A i \in DOMAIN w.q[k].inflight : w.q[k].inflight[i] \in Leases
      BY <3>1
    <3> QED  BY <3>2 DEF Handles, Leases
  <2>2. /\ w.q[k].byHandle = Handles(w.q[k].inflight) /\ Distinct(w.q[k].inflight)
        /\ \A g \in Handles(w.q[k].inflight) : g <= w.uuid
    BY <1>12 DEF Indexed
  <2>3. CASE k # n
    <3>1. \A g \in Handles(w.q[k].inflight) : g <= v.uuid
      BY <1>1, <1>3, <2>1, <2>2 DEF h
    <3> QED  BY <2>2, <2>3, <3>1, <1>3 DEF Indexed
  <2>4. CASE k = n
    <3>1. /\ w.q[n].byHandle = Handles(s) /\ Distinct(s)
          /\ \A g \in Handles(s) : g <= w.uuid /\ g \in Nat
      BY <2>1, <2>2, <2>4 DEF s
    <3>2. Handles(r) = Handles(s) \cup {h}
      BY <1>2, <1>9 DEF Handles
    <3>3. h \notin Handles(s) /\ \A g \in Handles(r) : g <= h
      BY <1>1, <3>1, <3>2 DEF h
    <3>4. Distinct(r)
      <4> SUFFICES ASSUME NEW i \in DOMAIN r, NEW j \in DOMAIN r,
                          r[i].handle = r[j].handle
                   PROVE  i = j
        BY DEF Distinct
      <4>1. \A l \in DOMAIN s : r[l].handle # h
        BY <1>9, <3>3 DEF Handles
      <4> QED  BY <1>2, <1>9, <3>1, <4>1 DEF Distinct
    <3> QED  BY <2>4, <3>1, <3>2, <3>3, <3>4, <1>3, <1>6 DEF Indexed, r
  <2> QED  BY <2>3, <2>4
<1> QED
  BY <1>3, <1>7, <1>8, <1>10, <1>11, <1>12 DEF Leased, v

\* What picking in queue n leaves alone.
PickWorld(w, n, u) ==
  /\ Shape(u) /\ Len(u.msg) = Len(w.msg)
  /\ u.q[n].messages = w.q[n].messages
  /\ \A k \in Queues :
       /\ u.q[k].dlq = w.q[k].dlq /\ Indexed(u.q[k], u.uuid)
       /\ IsActive(w.q[k]) => IsActive(u.q[k])
       /\ k # n => u.q[k] = w.q[k] \/ IsActive(u.q[k])

\* Where the slow pick in queue n is after i of its messages: c has the kept.
PickInv(w, n, u, c, i) ==
  /\ PickWorld(w, n, u)
  /\ c \in Seq(Nat) /\ Len(c) <= i
  /\ \A m \in 1 .. Len(w.msg) :
       \/ HeldBut(u, n, m)
       \/ \E j \in DOMAIN c : c[j] = m
       \/ \E j \in i + 1 .. Len(w.q[n].messages) : w.q[n].messages[j] = m

\* The record the slow pick carries along.
PickAt(w, n, a, i) ==
  /\ DOMAIN a = {"w", "kept", "picked", "blocked"}
  /\ PickInv(w, n, a.w, a.kept, i)

\* A message that leaves the pending slice.
LEMMA PickMoves ==
  ASSUME NEW w, Sound(w), NEW n \in Queues, NEW u, NEW c,
         NEW i \in 1 .. Len(w.q[n].messages), PickInv(w, n, u, c, i - 1),
         NEW v, PickWorld(w, n, v), \A m : HeldBut(u, n, m) => HeldBut(v, n, m),
         HeldBut(v, n, w.q[n].messages[i])
  PROVE  PickInv(w, n, v, c, i)
<1> DEFINE s == w.q[n].messages
           N == Len(s)
<1>1. s \in Seq(Nat) /\ N \in Nat /\ i \in 1 .. N
  BY DEF Sound, Shape, QShape
<1>2. /\ c \in Seq(Nat) /\ Len(c) <= i - 1
      /\ \A m \in 1 .. Len(w.msg) :
           \/ HeldBut(u, n, m)
           \/ \E j \in DOMAIN c : c[j] = m
           \/ \E j \in i - 1 + 1 .. N : s[j] = m
  BY DEF PickInv
<1>3. HeldBut(v, n, s[i])
  OBVIOUS
<1> HIDE DEF s, N
<1>4. \A j \in i - 1 + 1 .. N : j \in i + 1 .. N \/ j = i
  BY <1>1
<1>5. ASSUME NEW m \in 1 .. Len(w.msg)
      PROVE  \/ HeldBut(v, n, m)
             \/ \E j \in DOMAIN c : c[j] = m
             \/ \E j \in i + 1 .. N : s[j] = m
  BY <1>2, <1>3, <1>4
<1>6. Len(c) <= i
  BY <1>1, <1>2
<1> QED
  BY <1>2, <1>5, <1>6 DEF PickInv, s, N

\* A message that stays.
LEMMA PickKeeps ==
  ASSUME NEW w, Sound(w), NEW n \in Queues, NEW u, NEW c,
         NEW i \in 1 .. Len(w.q[n].messages), PickInv(w, n, u, c, i - 1),
         NEW e, e = Append(c, w.q[n].messages[i])
  PROVE  PickInv(w, n, u, e, i)
<1> DEFINE s == w.q[n].messages
           N == Len(s)
           x == s[i]
<1>1. s \in Seq(Nat) /\ N \in Nat /\ i \in 1 .. N /\ x \in Nat
  BY DEF Sound, Shape, QShape
<1>2. /\ c \in Seq(Nat) /\ Len(c) <= i - 1 /\ PickWorld(w, n, u)
      /\ \A m \in 1 .. Len(w.msg) :
           \/ HeldBut(u, n, m)
           \/ \E j \in DOMAIN c : c[j] = m
           \/ \E j \in i - 1 + 1 .. N : s[j] = m
  BY DEF PickInv
<1>3. e = Append(c, x)
  OBVIOUS
<1> HIDE DEF s, N, x
<1>4. \A j \in i - 1 + 1 .. N : j \in i + 1 .. N \/ s[j] = x
  BY <1>1 DEF x
<1>5. /\ e \in Seq(Nat) /\ Len(e) = Len(c) + 1 /\ Len(e) \in Nat \ {0}
      /\ DOMAIN e = 1 .. Len(e) /\ e[Len(e)] = x
      /\ \A j \in DOMAIN c : j \in DOMAIN e /\ e[j] = c[j]
  BY <1>1, <1>2, <1>3, AppendRange
<1>6. Len(e) <= i
  <2>1. Len(c) \in Nat
    BY <1>2
  <2> QED  BY <1>1, <1>2, <1>5, <2>1
<1>7. ASSUME NEW m \in 1 .. Len(w.msg)
      PROVE  \/ HeldBut(u, n, m)
             \/ \E j \in DOMAIN e : e[j] = m
             \/ \E j \in i + 1 .. N : s[j] = m
  <2>1. CASE HeldBut(u, n, m)
    BY <2>1
  <2>2. CASE \E j \in DOMAIN c : c[j] = m
    BY <2>2, <1>5
  <2>3. CASE \E j \in i - 1 + 1 .. N : s[j] = m
    BY <2>3, <1>4, <1>5, SMTT(30)
  <2> QED  BY <1>2, <2>1, <2>2, <2>3
<1> QED
  BY <1>2, <1>5, <1>6, <1>7 DEF PickInv, s, N

\* The slow pick as a sequence of visits.
SlowRun(w, n, max, vt, t, blocked, f) ==
  LET s == w.q[n].messages
  IN /\ f[0] = [w |-> w, kept |-> <<>>, picked |-> <<>>, blocked |-> blocked]
     /\ \A i \in 1 .. Len(s) :
          f[i] = PickOne(f[i - 1], s[i], n, max, vt, t, w.uuid)
     /\ SlowPick(w, n, max, vt, t, blocked).w
          = WithMessages(f[Len(s)].w, n, f[Len(s)].kept)

\* The slow pick is a run of visits.
LEMMA SlowPass ==
  ASSUME NEW w, NEW n, NEW max, NEW vt, NEW t, NEW blocked,
         w.q[n].messages \in Seq(Nat)
  PROVE  \E f : SlowRun(w, n, max, vt, t, blocked, f)
<1> DEFINE s == w.q[n].messages
           N == Len(s)
           base == [w |-> w, kept |-> <<>>, picked |-> <<>>,
                             blocked |-> blocked]
           visit(a, m) == PickOne(a, m, n, max, vt, t, w.uuid)
           h == CHOOSE f : f = [i \in 0 .. N |->
                  IF i = 0 THEN base ELSE visit(f[i - 1], s[i])]
<1>1. SlowPick(w, n, max, vt, t, blocked).w = WithMessages(h[N].w, n, h[N].kept)
  BY DEF SlowPick, Pass, WithMessages
<1>2. N \in Nat
  OBVIOUS
<1> HIDE DEF s, N, base, visit, h
<1>3. \E f : f = [i \in 0 .. N |-> IF i = 0 THEN base ELSE visit(f[i - 1], s[i])]
  <2> DEFINE Q(f, k) == /\ f[0] = base
                        /\ \A i \in 1 .. k : f[i] = visit(f[i - 1], s[i])
             T == {k \in 0 .. N : \E f : Q(f, k)}
  <2>1. 0 \in T
    <3>1. Q([i \in 0 .. N |-> base], 0)
      BY <1>2
    <3> HIDE DEF Q
    <3> QED  BY <3>1, <1>2
  <2>2. ASSUME NEW k \in 1 .. N, k - 1 \in T PROVE k \in T
    <3>1. PICK f : Q(f, k - 1)
      BY <2>2
    <3> DEFINE e == [i \in 0 .. N |-> IF i = k THEN visit(f[k - 1], s[k]) ELSE f[i]]
    <3>2. /\ e[0] = base /\ e[k] = visit(f[k - 1], s[k]) /\ e[k - 1] = f[k - 1]
      BY <3>1, <1>2
    <3>3. \A i \in 1 .. k - 1 : e[i] = f[i] /\ e[i - 1] = f[i - 1]
      BY <1>2
    <3> HIDE DEF e
    <3>4. \A i \in 1 .. k : i = k \/ i \in 1 .. k - 1
      BY <1>2
    <3>5. Q(e, k)
      BY <3>1, <3>2, <3>3, <3>4
    <3> HIDE DEF Q
    <3> QED  BY <3>5, <1>2
  <2>3. N \in T
    <3> HIDE DEF T
    <3> QED  BY <1>2, <2>1, <2>2, Upward
  <2>4. PICK f : Q(f, N)
    BY <2>3
  <2> DEFINE e == [i \in 0 .. N |-> f[i]]
  <2>5. e = [i \in 0 .. N |-> IF i = 0 THEN base ELSE visit(e[i - 1], s[i])]
    BY <2>4, <1>2
  <2> HIDE DEF e
  <2> QED  BY <2>5
<1>4. h = [i \in 0 .. N |-> IF i = 0 THEN base ELSE visit(h[i - 1], s[i])]
  BY <1>3 DEF h
<1>5. /\ h[0] = base
      /\ \A i \in 1 .. N : h[i] = visit(h[i - 1], s[i])
  BY <1>2, <1>4
<1> QED
  BY <1>1, <1>5 DEF SlowRun, N, s, base, visit

\* One message of the slow pick.
LEMMA PickStep ==
  ASSUME NEW w, Sound(w), NEW n \in Queues, NEW max, NEW vt \in Int,
         NEW t \in Int, NEW a,
         NEW i \in 1 .. Len(w.q[n].messages), PickAt(w, n, a, i - 1)
  PROVE  PickAt(w, n, PickOne(a, w.q[n].messages[i], n, max, vt, t, w.uuid), i)
<1> DEFINE s == w.q[n].messages
           x == s[i]
           u == a.w
           c == a.kept
           batch == w.uuid
           b == PickOne(a, x, n, max, vt, t, batch)
           F == {"w", "kept", "picked", "blocked"}
<1>1. s \in Seq(Nat) /\ x \in Nat /\ batch \in Nat
  BY DEF Sound, Shape, QShape
<1>2. DOMAIN a = F /\ a.w = u /\ a.kept = c /\ PickInv(w, n, u, c, i - 1)
  BY DEF PickAt
<1>3. PickWorld(w, n, u) /\ Shape(u)
  BY <1>2 DEF PickInv, PickWorld
<1>4. u.q[n].dlq # n
  BY <1>3 DEF PickWorld, Sound
<1> HIDE DEF s, x, u, c, batch, b
<1> SUFFICES PickAt(w, n, b, i)
  BY DEF b, x, s, batch
<1>5. ASSUME NEW v, DOMAIN b = F, b.w = v, b.kept = c, PickWorld(w, n, v),
             \A m : HeldBut(u, n, m) => HeldBut(v, n, m), HeldBut(v, n, x)
      PROVE  PickAt(w, n, b, i)
  <2>1. PickInv(w, n, v, c, i)
    BY <1>2, <1>5, PickMoves DEF x, s
  <2> QED  BY <1>5, <2>1 DEF PickAt
<1>6. CASE Expired(u, x, t)
  <2> DEFINE v == Retire(u, x)
  <2>1. DOMAIN b = F /\ b.w = v /\ b.kept = c
    BY <1>2, <1>3, <1>6 DEF b, PickOne, Retire
  <2>2. /\ Shape(v) /\ v.msg = u.msg /\ v.uuid = u.uuid /\ v.q = u.q
        /\ v.gone = u.gone \cup {x}
    BY <1>3, RetireEffect
  <2> HIDE DEF v
  <2>3. PickWorld(w, n, v)
    BY <1>3, <2>2 DEF PickWorld
  <2>4. HeldBut(v, n, x) /\ \A m : HeldBut(u, n, m) => HeldBut(v, n, m)
    BY <2>2 DEF HeldBut
  <2> QED  BY <1>5, <2>1, <2>3, <2>4
<1>7. CASE ~Expired(u, x, t) /\ ShouldRoute(u, n, x)
  <2> DEFINE v == Route(u, n, x, t)
             d == u.q[n].dlq
  <2>1. DOMAIN b = F /\ b.w = v /\ b.kept = c
    BY <1>2, <1>7 DEF b, PickOne
  <2>2. u.q[n].dlq # None
    BY <1>7 DEF ShouldRoute
  <2>3. /\ Frame(u, v) /\ d \in Queues /\ x \in Pending(v.q[d])
        /\ IsActive(v.q[d])
        /\ \A k \in Queues : k # d => v.q[k] = u.q[k]
    <3>1. Shape(u) /\ x \in Nat /\ u.q[n].dlq # None
      BY <1>1, <1>3, <2>2
    <3> QED  BY <3>1, RouteEffect
  <2>4. d # n
    BY <1>4
  <2> HIDE DEF v, d
  <2>5. PickWorld(w, n, v)
    <3>1. \A k \in Queues : Indexed(v.q[k], v.uuid)
      BY <1>3, <2>3 DEF PickWorld, Frame, Indexed
    <3>2. Shape(v) /\ Len(v.msg) = Len(w.msg) /\ v.q[n].messages = w.q[n].messages
      BY <1>3, <2>3, <2>4 DEF PickWorld, Frame
    <3>3. \A k \in Queues :
            /\ v.q[k].dlq = w.q[k].dlq
            /\ IsActive(w.q[k]) => IsActive(v.q[k])
            /\ k # n => v.q[k] = w.q[k] \/ IsActive(v.q[k])
      BY <1>3, <2>3 DEF PickWorld, Frame
    <3> QED  BY <3>1, <3>2, <3>3 DEF PickWorld
  <2>6. HeldBut(v, n, x)
    BY <2>3, <2>4 DEF HeldBut
  <2>7. \A m : HeldBut(u, n, m) => HeldBut(v, n, m)
    BY <2>3, FrameHeld
  <2> QED  BY <1>5, <2>1, <2>5, <2>6, <2>7
<1>8. CASE /\ ~Expired(u, x, t) /\ ~ShouldRoute(u, n, x)
           /\ ~Blocked(u, n, x, a.blocked)
           /\ Len(a.picked) < max /\ t >= u.msg[x].visibleAt
  <2> DEFINE v == Lease(u, n, x, vt, t, batch)
  <2>1. DOMAIN b = F /\ b.w = v /\ b.kept = c
    BY <1>2, <1>8 DEF b, PickOne
  <2>2. Leased(u, v, n, x)
    BY <1>1, <1>3, LeaseEffect
  <2> HIDE DEF v
  <2>3. PickWorld(w, n, v)
    <3>1. \A k \in Queues : Indexed(v.q[k], v.uuid)
      BY <1>3, <2>2 DEF PickWorld, Leased
    <3>2. Shape(v) /\ Len(v.msg) = Len(w.msg) /\ v.q[n].messages = w.q[n].messages
      BY <1>3, <2>2 DEF PickWorld, Leased
    <3>3. \A k \in Queues :
            /\ v.q[k].dlq = w.q[k].dlq
            /\ IsActive(w.q[k]) => IsActive(v.q[k])
            /\ k # n => v.q[k] = w.q[k] \/ IsActive(v.q[k])
      BY <1>3, <2>2 DEF PickWorld, Leased
    <3> QED  BY <3>1, <3>2, <3>3 DEF PickWorld
  <2>4. HeldBut(v, n, x)
    BY <2>2 DEF HeldBut, Leased
  <2>5. \A m : HeldBut(u, n, m) => HeldBut(v, n, m)
    BY <2>2 DEF HeldBut, Leased
  <2> QED  BY <1>5, <2>1, <2>3, <2>4, <2>5
<1>9. CASE /\ ~Expired(u, x, t) /\ ~ShouldRoute(u, n, x)
           /\ ~(/\ ~Blocked(u, n, x, a.blocked)
                /\ Len(a.picked) < max /\ t >= u.msg[x].visibleAt)
  <2> DEFINE e == Append(c, x)
  <2>1. DOMAIN b = F /\ b.w = u /\ b.kept = e
    BY <1>2, <1>9 DEF b, PickOne
  <2>2. PickInv(w, n, u, e, i)
    BY <1>2, PickKeeps DEF x, s
  <2> QED  BY <2>1, <2>2 DEF PickAt
<1> QED
  BY <1>6, <1>7, <1>8, <1>9

\* After each visit of the slow pick.
LEMMA SlowAlong ==
  ASSUME NEW w, Sound(w), NEW n \in Queues, NEW max, NEW vt \in Int,
         NEW t \in Int, NEW blocked, NEW f, SlowRun(w, n, max, vt, t, blocked, f)
  PROVE  \A i \in 0 .. Len(w.q[n].messages) : PickAt(w, n, f[i], i)
<1> DEFINE s == w.q[n].messages
           N == Len(s)
<1>1. s \in Seq(Nat) /\ N \in Nat
  BY DEF Sound, Shape, QShape
<1>b. /\ f[0] = [w |-> w, kept |-> <<>>, picked |-> <<>>, blocked |-> blocked]
      /\ \A i \in 1 .. N : f[i] = PickOne(f[i - 1], s[i], n, max, vt, t, w.uuid)
  BY DEF SlowRun
<1>3. PickAt(w, n, f[0], 0)
  <2>1. /\ f[0].w = w /\ f[0].kept = <<>>
        /\ DOMAIN f[0] = {"w", "kept", "picked", "blocked"}
    BY <1>b
  <2>2. PickWorld(w, n, w)
    BY DEF PickWorld, Sound
  <2>3. ASSUME NEW m \in 1 .. Len(w.msg)
        PROVE  HeldBut(w, n, m) \/ \E j \in 0 + 1 .. N : s[j] = m
    <3>1. Held(w, m)
      BY DEF Sound
    <3>2. ASSUME m \in Pending(w.q[n]) PROVE \E j \in 0 + 1 .. N : s[j] = m
      BY <3>2, <1>1 DEF Pending
    <3> HIDE DEF s, N
    <3> QED  BY <3>1, <3>2 DEF Held, HeldBut
  <2>4. <<>> \in Seq(Nat) /\ Len(<<>>) = 0
    OBVIOUS
  <2> QED  BY <2>1, <2>2, <2>3, <2>4 DEF PickAt, PickInv
<1>4. ASSUME NEW k \in 0 .. N PROVE PickAt(w, n, f[k], k)
  <2> DEFINE T == {i \in 0 .. N : PickAt(w, n, f[i], i)}
  <2>1. 0 \in T
    BY <1>1, <1>3
  <2>2. ASSUME NEW i \in 1 .. N, i - 1 \in T PROVE i \in T
    <3> DEFINE a == f[i - 1]
    <3>1. PickAt(w, n, a, i - 1) /\ f[i] = PickOne(a, s[i], n, max, vt, t, w.uuid)
      BY <1>b, <2>2
    <3> HIDE DEF a
    <3>2. PickAt(w, n, PickOne(a, s[i], n, max, vt, t, w.uuid), i)
      BY <3>1, PickStep
    <3> QED  BY <3>1, <3>2, <1>1
  <2> HIDE DEF T
  <2>3. k \in Nat /\ \A i \in 1 .. k : i \in 1 .. N
    BY <1>1
  <2>4. k \in T
    BY <2>1, <2>2, <2>3, Upward
  <2> QED  BY <2>4 DEF T
<1> QED
  BY <1>4

\* Pass 2 of a receive, pickVisibleMessages, keeps the invariant.
LEMMA SlowKeeps ==
  ASSUME NEW w, Sound(w), NEW n \in Queues, NEW max, NEW vt \in Int,
         NEW t \in Int, NEW blocked
  PROVE  Sound(SlowPick(w, n, max, vt, t, blocked).w)
<1> DEFINE s == w.q[n].messages
           N == Len(s)
           v == SlowPick(w, n, max, vt, t, blocked).w
<1>1. s \in Seq(Nat) /\ N \in Nat
  BY DEF Sound, Shape, QShape
<1>2. PICK f : SlowRun(w, n, max, vt, t, blocked, f)
  BY <1>1, SlowPass
<1>b. /\ f[0] = [w |-> w, kept |-> <<>>, picked |-> <<>>, blocked |-> blocked]
      /\ \A i \in 1 .. N : f[i] = PickOne(f[i - 1], s[i], n, max, vt, t, w.uuid)
      /\ v = WithMessages(f[N].w, n, f[N].kept)
  BY <1>2 DEF SlowRun
<1> HIDE DEF v
<1>3. N \in 0 .. N
  BY <1>1
<1>4. PickAt(w, n, f[N], N)
  BY <1>2, <1>3, SlowAlong
<1> DEFINE u == f[N].w
           c == f[N].kept
<1>5. /\ PickWorld(w, n, u)
      /\ c \in Seq(Nat) /\ Len(c) <= N
      /\ \A m \in 1 .. Len(w.msg) : \/ HeldBut(u, n, m)
                                    \/ \E j \in DOMAIN c : c[j] = m
  <2>1. N + 1 .. N = {}
    BY <1>1
  <2> QED  BY <1>4, <2>1 DEF PickAt, PickInv
<1>a. s = <<>> => u = w
  BY <1>1, <1>b
<1> HIDE DEF u, c
<1>6. v = WithMessages(u, n, c)
  BY <1>b DEF u, c
<1>7. /\ Shape(v)
      /\ v.msg = u.msg /\ v.uuid = u.uuid /\ v.gone = u.gone
      /\ \A k \in Queues : k # n => v.q[k] = u.q[k]
      /\ v.q[n].messages = c /\ v.q[n].inflight = u.q[n].inflight
      /\ v.q[n].byHandle = u.q[n].byHandle /\ v.q[n].dlq = u.q[n].dlq
      /\ (IsActive(v.q[n]) <=> IsActive(u.q[n]))
  BY <1>5, <1>6, SetMessages DEF PickWorld
<1>8. \A k \in Queues : v.q[k].dlq # k /\ Indexed(v.q[k], v.uuid)
  BY <1>5, <1>7 DEF Sound, PickWorld, Indexed
<1>9. ASSUME NEW k \in Queues PROVE Flagged(v.q[k])
  <2>1. CASE k # n
    BY <2>1, <1>5, <1>7 DEF Sound, Flagged, PickWorld
  <2>2. CASE k = n
    <3>1. c # <<>> => s # <<>>
      BY <1>1, <1>5
    <3>2. CASE s = <<>>
      BY <2>2, <3>1, <3>2, <1>7, <1>a DEF Sound, Flagged
    <3>3. CASE s # <<>>
      BY <2>2, <3>3, <1>5, <1>7 DEF Sound, Flagged, PickWorld
    <3> QED  BY <3>2, <3>3
  <2> QED  BY <2>1, <2>2
<1>10. ASSUME NEW m \in 1 .. Len(v.msg) PROVE Held(v, m)
  <2>1. HeldBut(u, n, m) \/ \E j \in DOMAIN c : c[j] = m
    BY <1>5, <1>7 DEF PickWorld
  <2>2. ASSUME \E j \in DOMAIN c : c[j] = m PROVE m \in Pending(v.q[n])
    BY <2>2, <1>7 DEF Pending
  <2> QED  BY <2>1, <2>2, <1>7 DEF Held, HeldBut, Out
<1>11. Sound(v)
  BY <1>7, <1>8, <1>9, <1>10 DEF Sound
<1> QED
  BY <1>11 DEF v

\* A slice from position k + 1 on.
LEMMA TailRange ==
  ASSUME NEW s \in Seq(Nat), NEW k \in Nat, k <= Len(s)
  PROVE  LET r == SubSeq(s, k + 1, Len(s))
         IN /\ r \in Seq(Nat) /\ DOMAIN r = 1 .. Len(r)
            /\ \A j \in k + 1 .. Len(s) : \E p \in DOMAIN r : r[p] = s[j]
<1>1. PICK N \in Nat : N = Len(s) /\ DOMAIN s = 1 .. N
  OBVIOUS
<1> DEFINE r == SubSeq(s, k + 1, N)
<1>2. /\ k + 1 \in Int /\ N \in Int /\ k <= N
      /\ \A j \in k + 1 .. N : j \in 1 .. N /\ j - k \in 1 .. N - (k + 1) + 1
      /\ \A j \in k + 1 .. N : (k + 1) + (j - k) - 1 = j /\ k + 1 <= N
  BY <1>1
<1>3. \A j \in k + 1 .. N : s[j] \in Nat
  BY <1>1, <1>2
<1>4. r \in Seq(Nat)
  BY <1>2, <1>3, SubSeqProperties
<1>5. Len(r) = IF k + 1 <= N THEN N - (k + 1) + 1 ELSE 0
  BY <1>2, <1>3, SubSeqProperties
<1>6. \A j \in 1 .. N - (k + 1) + 1 : r[j] = s[(k + 1) + j - 1]
  BY <1>2, <1>3, SubSeqProperties
<1> HIDE DEF r
<1>7. DOMAIN r = 1 .. Len(r)
  BY <1>4
<1>8. ASSUME NEW j \in k + 1 .. N PROVE \E p \in DOMAIN r : r[p] = s[j]
  <2>1. j - k \in DOMAIN r
    BY <1>2, <1>5, <1>7
  <2>2. r[j - k] = s[j]
    BY <1>2, <1>6
  <2> QED  BY <2>1, <2>2
<1>9. r = SubSeq(s, k + 1, Len(s))
  BY <1>1 DEF r
<1> QED
  BY <1>1, <1>4, <1>7, <1>8, <1>9

\* The fast pick, when it succeeds: the first k messages are leased.
FastRun(w, n, k, vt, t, f) ==
  LET s == w.q[n].messages
  IN /\ f[0] = w
     /\ \A i \in 1 .. k : f[i] = Lease(f[i - 1], n, s[i], vt, t, w.uuid)

\* The leases of the fast pick.
FastLeased(w, n, k, vt, t) ==
  Pass(LAMBDA a, m : Lease(a, n, m, vt, t, w.uuid), w,
       SubSeq(w.q[n].messages, 1, k))

\* The fast pick is a run of leases.
LEMMA FastPass ==
  ASSUME NEW w, NEW n, NEW vt, NEW t, w.q[n].messages \in Seq(Nat),
         NEW k \in Nat, k <= Len(w.q[n].messages)
  PROVE  \E f : /\ FastRun(w, n, k, vt, t, f)
                /\ FastLeased(w, n, k, vt, t) = f[k]
<1> DEFINE s == w.q[n].messages
           r == SubSeq(s, 1, k)
           N == Len(r)
           base == w
           visit(a, m) == Lease(a, n, m, vt, t, w.uuid)
           h == CHOOSE f : f = [i \in 0 .. N |->
                  IF i = 0 THEN base ELSE visit(f[i - 1], r[i])]
<1>1. FastLeased(w, n, k, vt, t) = h[N]
  BY DEF FastLeased, Pass
<1>2. N \in Nat /\ N = k /\ \A i \in 1 .. k : r[i] = s[i]
  <2>1. s \in Seq(Nat) /\ k <= Len(s) /\ Len(s) \in Nat
    OBVIOUS
  <2> HIDE DEF s
  <2>2. /\ 1 \in Int /\ k \in Int /\ \A i \in 1 .. k : s[i] \in Nat
    BY <2>1
  <2>3. Len(SubSeq(s, 1, k)) = IF 1 <= k THEN k - 1 + 1 ELSE 0
    BY <2>2, SubSeqProperties
  <2>4. \A i \in 1 .. k - 1 + 1 : SubSeq(s, 1, k)[i] = s[1 + i - 1]
    BY <2>2, SubSeqProperties
  <2>5. /\ k - 1 + 1 = k /\ \A i \in 1 .. k : 1 + i - 1 = i
        /\ (1 <= k \/ k = 0)
    OBVIOUS
  <2> HIDE DEF r
  <2> QED  BY <2>3, <2>4, <2>5 DEF r
<1> HIDE DEF s, r, N, base, visit, h
<1>3. \E f : f = [i \in 0 .. N |-> IF i = 0 THEN base ELSE visit(f[i - 1], r[i])]
  <2> DEFINE Q(f, j) == /\ f[0] = base
                        /\ \A i \in 1 .. j : f[i] = visit(f[i - 1], r[i])
             T == {j \in 0 .. N : \E f : Q(f, j)}
  <2>1. 0 \in T
    <3>1. Q([i \in 0 .. N |-> base], 0)
      BY <1>2
    <3> HIDE DEF Q
    <3> QED  BY <3>1, <1>2
  <2>2. ASSUME NEW j \in 1 .. N, j - 1 \in T PROVE j \in T
    <3>1. PICK f : Q(f, j - 1)
      BY <2>2
    <3> DEFINE e == [i \in 0 .. N |-> IF i = j THEN visit(f[j - 1], r[j]) ELSE f[i]]
    <3>2. /\ e[0] = base /\ e[j] = visit(f[j - 1], r[j]) /\ e[j - 1] = f[j - 1]
      BY <3>1, <1>2
    <3>3. \A i \in 1 .. j - 1 : e[i] = f[i] /\ e[i - 1] = f[i - 1]
      BY <1>2
    <3> HIDE DEF e
    <3>4. \A i \in 1 .. j : i = j \/ i \in 1 .. j - 1
      BY <1>2
    <3>5. Q(e, j)
      BY <3>1, <3>2, <3>3, <3>4
    <3> HIDE DEF Q
    <3> QED  BY <3>5, <1>2
  <2>3. N \in T
    <3> HIDE DEF T
    <3> QED  BY <1>2, <2>1, <2>2, Upward
  <2>4. PICK f : Q(f, N)
    BY <2>3
  <2> DEFINE e == [i \in 0 .. N |-> f[i]]
  <2>5. e = [i \in 0 .. N |-> IF i = 0 THEN base ELSE visit(e[i - 1], r[i])]
    BY <2>4, <1>2
  <2> HIDE DEF e
  <2> QED  BY <2>5
<1>4. h = [i \in 0 .. N |-> IF i = 0 THEN base ELSE visit(h[i - 1], r[i])]
  BY <1>3 DEF h
<1>5. /\ h[0] = base
      /\ \A i \in 1 .. N : h[i] = visit(h[i - 1], r[i])
  BY <1>2, <1>4
<1>6. FastRun(w, n, k, vt, t, h) /\ FastLeased(w, n, k, vt, t) = h[k]
  BY <1>1, <1>2, <1>5 DEF FastRun, base, visit, s
<1> QED
  BY <1>6

\* Where the fast pick in queue n is after i leases.
FastInv(w, n, u, i) ==
  /\ PickWorld(w, n, u) /\ \A k \in Queues : k # n => u.q[k] = w.q[k]
  /\ \A m : Held(w, m) => Held(u, m)
  /\ \A j \in 1 .. i : w.q[n].messages[j] \in Out(u.q[n])

\* One lease of the fast pick.
LEMMA FastStep ==
  ASSUME NEW w, Sound(w), NEW n \in Queues, NEW vt \in Int, NEW t \in Int,
         NEW u, NEW i \in 1 .. Len(w.q[n].messages), FastInv(w, n, u, i - 1)
  PROVE  FastInv(w, n, Lease(u, n, w.q[n].messages[i], vt, t, w.uuid), i)
<1> DEFINE s == w.q[n].messages
           x == s[i]
           batch == w.uuid
           v == Lease(u, n, x, vt, t, batch)
<1>1. s \in Seq(Nat) /\ x \in Nat /\ batch \in Nat /\ Len(s) \in Nat /\ i \in 1 .. Len(s)
  BY DEF Sound, Shape, QShape
<1>2. /\ PickWorld(w, n, u) /\ \A k \in Queues : k # n => u.q[k] = w.q[k]
      /\ \A m : Held(w, m) => Held(u, m)
      /\ \A j \in 1 .. i - 1 : s[j] \in Out(u.q[n])
  BY DEF FastInv
<1>3. Shape(u)
  BY <1>2 DEF PickWorld
<1> HIDE DEF s, x, batch
<1>4. Leased(u, v, n, x)
  BY <1>1, <1>3, LeaseEffect
<1> HIDE DEF v
<1>5. PickWorld(w, n, v)
  <2>1. \A k \in Queues : Indexed(v.q[k], v.uuid)
    BY <1>2, <1>4 DEF PickWorld, Leased
  <2>2. Shape(v) /\ Len(v.msg) = Len(w.msg) /\ v.q[n].messages = w.q[n].messages
    BY <1>2, <1>4 DEF PickWorld, Leased
  <2>3. \A k \in Queues :
          /\ v.q[k].dlq = w.q[k].dlq
          /\ IsActive(w.q[k]) => IsActive(v.q[k])
          /\ k # n => v.q[k] = w.q[k] \/ IsActive(v.q[k])
    BY <1>2, <1>4 DEF PickWorld, Leased
  <2> QED  BY <2>1, <2>2, <2>3 DEF PickWorld
<1>6. \A m : Held(u, m) => Held(v, m)
  <2>1. \A k \in Queues : /\ Pending(u.q[k]) = Pending(v.q[k])
                          /\ Out(u.q[k]) \subseteq Out(v.q[k])
    BY <1>4 DEF Leased, Pending
  <2>2. v.gone = u.gone
    BY <1>4 DEF Leased
  <2> QED  BY <2>1, <2>2 DEF Held
<1>7. \A j \in 1 .. i : s[j] \in Out(v.q[n])
  <2>1. \A j \in 1 .. i : j \in 1 .. i - 1 \/ j = i
    BY <1>1
  <2>2. Out(u.q[n]) \subseteq Out(v.q[n]) /\ x \in Out(v.q[n])
    BY <1>4 DEF Leased
  <2> QED  BY <1>2, <2>1, <2>2 DEF x
<1>8. \A k \in Queues : k # n => v.q[k] = w.q[k]
  BY <1>2, <1>4 DEF Leased
<1>9. FastInv(w, n, v, i)
  BY <1>2, <1>5, <1>6, <1>7, <1>8 DEF FastInv, s
<1> QED
  BY <1>9 DEF v, x, s, batch

\* Steps that only add to pending slices, and set the flag where they do.
LEMMA FrameKeeps ==
  ASSUME NEW w, Sound(w), NEW v, Frame(w, v),
         \A k \in Queues : Flagged(v.q[k])
  PROVE  Sound(v)
<1>1. Shape(v) /\ v.uuid = w.uuid /\ v.gone = w.gone /\ Len(v.msg) = Len(w.msg)
  BY DEF Frame
<1>2. \A k \in Queues : v.q[k].dlq # k /\ Indexed(v.q[k], v.uuid)
  BY DEF Sound, Frame, Indexed
<1>3. \A k \in Queues : /\ Pending(w.q[k]) \subseteq Pending(v.q[k])
                        /\ Out(w.q[k]) = Out(v.q[k])
  BY DEF Frame, Out
<1>4. \A m \in 1 .. Len(v.msg) : Held(v, m)
  BY <1>1, <1>3 DEF Sound, Held
<1> QED
  BY <1>1, <1>2, <1>4 DEF Sound

\* Routing a message that is still in its slice keeps the invariant.
LEMMA RouteKeeps ==
  ASSUME NEW w, Sound(w), NEW n \in Queues, w.q[n].dlq # None,
         NEW m \in Nat, NEW t
  PROVE  Sound(Route(w, n, m, t))
<1> DEFINE v == Route(w, n, m, t)
           d == w.q[n].dlq
<1>0. Shape(w)
  BY DEF Sound
<1>1. /\ Frame(w, v) /\ d \in Queues /\ IsActive(v.q[d])
      /\ \A k \in Queues : k # d => v.q[k] = w.q[k]
  BY <1>0, RouteEffect
<1> HIDE DEF v, d
<1>2. \A k \in Queues : Flagged(v.q[k])
  BY <1>1 DEF Sound, Flagged
<1>3. Sound(v)
  BY <1>1, <1>2, FrameKeeps
<1> QED
  BY <1>3 DEF v

\* Nothing keeps the fast pick from message m.
Clear(w, n, m, t, blocked) ==
  ~ShouldRoute(w, n, m) /\ ~Blocked(w, n, m, blocked) /\ ~(t < w.msg[m].visibleAt)

\* What tryFastPickMessages leaves: the first messages leased, one message
\* routed, or the queue as it was.
FastOutcome(w, n, max, vt, t, blocked, r) ==
  LET s == w.q[n].messages
  IN \/ \E k \in 1 .. Len(s) :
          /\ r.ok = TRUE /\ k <= max /\ \A i \in 1 .. k : Clear(w, n, s[i], t, blocked)
          /\ r.w = WithMessages(FastLeased(w, n, k, vt, t), n, SubSeq(s, k + 1, Len(s)))
     \/ /\ r.ok = FALSE
        /\ \E i \in 1 .. Len(s) : ShouldRoute(w, n, s[i]) /\ r.w = Route(w, n, s[i], t)
     \/ r.ok = FALSE /\ r.w = w

\* It leaves one of these.
LEMMA FastCases ==
  ASSUME NEW w, Shape(w), NEW n \in Queues, NEW max \in Nat, NEW vt, NEW t,
         NEW blocked, NEW r, r = FastPick(w, n, max, vt, t, blocked)
  PROVE  FastOutcome(w, n, max, vt, t, blocked, r)
<1> DEFINE s == w.q[n].messages
           k == IF max <= Len(s) THEN max ELSE Len(s)
           stuck == {i \in 1 .. k :
                       \/ Expired(w, s[i], t) \/ ShouldRoute(w, n, s[i])
                       \/ Blocked(w, n, s[i], blocked)
                       \/ t < w.msg[s[i]].visibleAt}
           first == CHOOSE i \in stuck : \A j \in stuck : i <= j
           routes == /\ stuck # {} /\ ~Expired(w, s[first], t)
                     /\ ShouldRoute(w, n, s[first])
           rest == SubSeq(s, k + 1, Len(s))
           v == r.w
<1>1. s \in Seq(Nat) /\ Len(s) \in Nat
  BY DEF Shape, QShape
<1>2. k \in Nat /\ k <= Len(s) /\ k <= max
  BY <1>1
<1>3. /\ (k > 0 /\ stuck = {} =>
           r.ok = TRUE /\ v = WithMessages(FastLeased(w, n, k, vt, t), n, rest))
      /\ (~(k > 0 /\ stuck = {}) =>
           r.ok = FALSE /\ v = IF routes THEN Route(w, n, s[first], t) ELSE w)
  <2> DEFINE g == FastLeased(w, n, k, vt, t)
             p == SubSeq(s, 1, k)
             z == IF routes THEN Route(w, n, s[first], t) ELSE w
  <2>1. r = IF k > 0 /\ stuck = {}
            THEN [ok |-> TRUE, picked |-> p, w |-> WithMessages(g, n, rest)]
            ELSE [ok |-> FALSE, picked |-> <<>>, w |-> z]
    BY Zenon DEF FastPick, WithMessages, FastLeased
  <2> HIDE DEF stuck, k, g, p, z, rest
  <2>2. ASSUME k > 0 /\ stuck = {} PROVE r.ok = TRUE /\ r.w = WithMessages(g, n, rest)
    <3>1. r = [ok |-> TRUE, picked |-> p, w |-> WithMessages(g, n, rest)]
      BY <2>1, <2>2, Zenon
    <3> QED  BY <3>1
  <2>3. ASSUME ~(k > 0 /\ stuck = {}) PROVE r.ok = FALSE /\ r.w = z
    <3>1. r = [ok |-> FALSE, picked |-> <<>>, w |-> z]
      BY <2>1, <2>3, Zenon
    <3> QED  BY <3>1
  <2> QED  BY <2>2, <2>3, Zenon DEF g, z
<1>4. stuck # {} => first \in 1 .. k
  <2>1. stuck \in SUBSET Nat /\ \A i \in stuck : i \in 1 .. k
    OBVIOUS
  <2> HIDE DEF stuck
  <2>2. ASSUME stuck # {} PROVE first \in stuck
    <3>1. \E i \in stuck : \A j \in stuck : i <= j
      BY <2>1, <2>2, Least
    <3> QED  BY <3>1
  <2> QED  BY <2>1, <2>2
<1>a. stuck = {} => \A i \in 1 .. k : Clear(w, n, s[i], t, blocked)
  BY DEF Clear
<1> HIDE DEF v, stuck, first, k
<1>5. CASE k > 0 /\ stuck = {}
  <2>1. k \in 1 .. Len(s) /\ k <= max
    BY <1>1, <1>2, <1>5
  <2>2. /\ r.ok = TRUE
        /\ v = WithMessages(FastLeased(w, n, k, vt, t), n, SubSeq(s, k + 1, Len(s)))
    BY <1>3, <1>5
  <2>3. \A i \in 1 .. k : Clear(w, n, s[i], t, blocked)
    BY <1>a, <1>5
  <2> HIDE DEF s, rest, routes
  <2> QED  BY <2>1, <2>2, <2>3 DEF FastOutcome, s, v
<1>6. CASE ~(k > 0 /\ stuck = {}) /\ routes
  <2>1. v = Route(w, n, s[first], t) /\ ShouldRoute(w, n, s[first]) /\ r.ok = FALSE
    BY <1>3, <1>6
  <2>2. first \in 1 .. Len(s)
    BY <1>1, <1>2, <1>4, <1>6
  <2> HIDE DEF s, rest, routes
  <2> QED  BY <2>1, <2>2 DEF FastOutcome, s, v
<1>7. CASE ~(k > 0 /\ stuck = {}) /\ ~routes
  <2>1. v = w /\ r.ok = FALSE
    BY <1>3, <1>7
  <2> QED  BY <2>1 DEF FastOutcome, v
<1> QED
  BY <1>5, <1>6, <1>7, Zenon

\* After each lease of the fast pick.
LEMMA FastAlong ==
  ASSUME NEW w, Sound(w), NEW n \in Queues, NEW vt \in Int, NEW t \in Int,
         NEW k \in Nat, k <= Len(w.q[n].messages), NEW f, FastRun(w, n, k, vt, t, f)
  PROVE  \A i \in 0 .. k : FastInv(w, n, f[i], i)
<1> DEFINE s == w.q[n].messages
           T == {i \in 0 .. k : FastInv(w, n, f[i], i)}
<1>1. s \in Seq(Nat) /\ Len(s) \in Nat /\ k <= Len(s)
  BY DEF Sound, Shape, QShape
<1>2. 0 \in T
  <2>1. f[0] = w
    BY DEF FastRun
  <2>2. FastInv(w, n, w, 0)
    <3>1. PickWorld(w, n, w)
      BY DEF PickWorld, Sound
    <3> QED  BY <3>1 DEF FastInv
  <2> QED  BY <2>1, <2>2
<1>3. ASSUME NEW i \in 1 .. k, i - 1 \in T PROVE i \in T
  <2> DEFINE a == f[i - 1]
  <2>1. FastInv(w, n, a, i - 1) /\ f[i] = Lease(a, n, s[i], vt, t, w.uuid)
    BY <1>3 DEF FastRun
  <2>2. i \in 1 .. Len(s)
    BY <1>1
  <2> HIDE DEF a
  <2>3. FastInv(w, n, Lease(a, n, s[i], vt, t, w.uuid), i)
    BY <2>1, <2>2, FastStep
  <2> QED  BY <2>1, <2>3
<1>4. ASSUME NEW j \in 0 .. k PROVE j \in T
  <2>1. j \in Nat /\ \A i \in 1 .. j : i \in 1 .. k
    OBVIOUS
  <2> HIDE DEF T
  <2> QED  BY <1>2, <1>3, <2>1, Upward
<1> QED
  BY <1>4

\* tryFastPickMessages keeps the invariant, whether it succeeds, fails, or
\* routes a message and fails.
LEMMA FastKeeps ==
  ASSUME NEW w, Sound(w), NEW n \in Queues, NEW max \in Nat, NEW vt \in Int,
         NEW t \in Int, NEW blocked
  PROVE  Sound(FastPick(w, n, max, vt, t, blocked).w)
<1> DEFINE s == w.q[n].messages
           v == FastPick(w, n, max, vt, t, blocked).w
<1>1. s \in Seq(Nat) /\ Len(s) \in Nat /\ DOMAIN s = 1 .. Len(s) /\ Shape(w)
  BY DEF Sound, Shape, QShape
<1>2. \/ \E k \in 1 .. Len(s) :
           v = WithMessages(FastLeased(w, n, k, vt, t), n, SubSeq(s, k + 1, Len(s)))
      \/ \E i \in 1 .. Len(s) : w.q[n].dlq # None /\ v = Route(w, n, s[i], t)
      \/ v = w
  <2> DEFINE r == FastPick(w, n, max, vt, t, blocked)
  <2>1. FastOutcome(w, n, max, vt, t, blocked, r) /\ v = r.w
    BY <1>1, FastCases
  <2> HIDE DEF v, r
  <2> QED  BY <2>1, Zenon DEF FastOutcome, ShouldRoute
<1> HIDE DEF v
<1>3. ASSUME NEW k \in 1 .. Len(s),
             v = WithMessages(FastLeased(w, n, k, vt, t), n, SubSeq(s, k + 1, Len(s)))
      PROVE  Sound(v)
  <2> DEFINE u == FastLeased(w, n, k, vt, t)
             rest == SubSeq(s, k + 1, Len(s))
  <2>0. k \in Nat /\ k <= Len(s) /\ k > 0
    BY <1>1
  <2>1. PICK f : FastRun(w, n, k, vt, t, f) /\ u = f[k]
    <3>1. w.q[n].messages \in Seq(Nat) /\ k \in Nat /\ k <= Len(w.q[n].messages)
      BY <1>1, <2>0
    <3> HIDE DEF s
    <3> QED  BY <3>1, FastPass
  <2>2. FastInv(w, n, u, k)
    <3>1. k \in 0 .. k
      BY <2>0
    <3> HIDE DEF s, u
    <3>2. k <= Len(w.q[n].messages)
      BY <2>0 DEF s
    <3> QED  BY <2>0, <2>1, <3>1, <3>2, FastAlong
  <2>3. v = WithMessages(u, n, rest)
    BY <1>3
  <2> HIDE DEF u
  <2>4. /\ PickWorld(w, n, u) /\ \A j \in Queues : j # n => u.q[j] = w.q[j]
        /\ \A m : Held(w, m) => Held(u, m)
        /\ \A j \in 1 .. k : s[j] \in Out(u.q[n])
    BY <2>2 DEF FastInv
  <2>5. /\ rest \in Seq(Nat) /\ DOMAIN rest = 1 .. Len(rest)
        /\ \A j \in k + 1 .. Len(s) : \E p \in DOMAIN rest : rest[p] = s[j]
    <3> HIDE DEF s
    <3> QED  BY <1>1, <2>0, TailRange
  <2> HIDE DEF rest
  <2>6. /\ Shape(v)
        /\ v.msg = u.msg /\ v.uuid = u.uuid /\ v.gone = u.gone
        /\ \A j \in Queues : j # n => v.q[j] = u.q[j]
        /\ v.q[n].messages = rest /\ v.q[n].inflight = u.q[n].inflight
        /\ v.q[n].byHandle = u.q[n].byHandle /\ v.q[n].dlq = u.q[n].dlq
        /\ (IsActive(v.q[n]) <=> IsActive(u.q[n]))
    BY <2>3, <2>4, <2>5, SetMessages DEF PickWorld
  <2>7. \A j \in Queues : v.q[j].dlq # j /\ Indexed(v.q[j], v.uuid)
    BY <2>4, <2>6 DEF Sound, PickWorld, Indexed
  <2>8. ASSUME NEW j \in Queues PROVE Flagged(v.q[j])
    <3>1. CASE j # n
      BY <3>1, <2>4, <2>6 DEF Sound, Flagged, PickWorld
    <3>2. CASE j = n
      <4>1. s # <<>>
        BY <1>1, <2>0
      <4> QED  BY <3>2, <4>1, <2>4, <2>6 DEF Sound, Flagged, PickWorld
    <3> QED  BY <3>1, <3>2
  <2>9. ASSUME NEW m \in 1 .. Len(v.msg) PROVE Held(v, m)
    <3>1. Held(u, m)
      BY <2>4, <2>6 DEF Sound, PickWorld
    <3>2. Out(v.q[n]) = Out(u.q[n])
      BY <2>6 DEF Out
    <3>3. ASSUME m \in Pending(u.q[n]) PROVE m \in Pending(v.q[n]) \cup Out(v.q[n])
      <4>1. PICK j \in 1 .. Len(s) : s[j] = m
        BY <1>1, <2>4, <3>3 DEF PickWorld, Pending
      <4>2. CASE j \in 1 .. k
        BY <4>1, <4>2, <2>4, <3>2
      <4>3. CASE j \in k + 1 .. Len(s)
        <5>1. PICK p \in DOMAIN rest : rest[p] = s[j]
          BY <2>5, <4>3
        <5> QED  BY <4>1, <5>1, <2>6 DEF Pending
      <4>4. j \in 1 .. k \/ j \in k + 1 .. Len(s)
        BY <1>1, <2>0
      <4> QED  BY <4>2, <4>3, <4>4
    <3> QED  BY <3>1, <3>2, <3>3, <2>6 DEF Held
  <2> QED  BY <2>6, <2>7, <2>8, <2>9 DEF Sound
<1>4. ASSUME NEW i \in 1 .. Len(s), w.q[n].dlq # None, v = Route(w, n, s[i], t)
      PROVE  Sound(v)
  <2> DEFINE m == s[i]
  <2>1. m \in Nat
    BY <1>1
  <2> HIDE DEF m
  <2>2. Sound(Route(w, n, m, t))
    BY <1>4, <2>1, RouteKeeps
  <2> QED  BY <1>4, <2>2 DEF m
<1>5. Sound(v)
  BY <1>2, <1>3, <1>4, Zenon
<1> QED
  BY <1>5 DEF v

-----------------------------------------------------------------------------
(* Steps that rebuild one queue.                                           *)

\* Queue n becomes r, the messages of g are retired.
WithQueue(w, n, r, g) == [w EXCEPT !.q[n] = r, !.gone = g]

\* A rebuilt queue that drops no message without retiring it or having it
\* pending elsewhere keeps the invariant.
LEMMA QueueKeeps ==
  ASSUME NEW w, Sound(w), NEW n \in Queues, NEW r, NEW g,
         QShape(r), r.dlq # n, Indexed(r, w.uuid), Flagged(r), w.gone \subseteq g,
         \A x \in Pending(w.q[n]) \cup Out(w.q[n]) :
           \/ x \in Pending(r) \cup Out(r) \cup g
           \/ \E k \in Queues : k # n /\ x \in Pending(w.q[k])
  PROVE  Sound(WithQueue(w, n, r, g))
<1> DEFINE v == WithQueue(w, n, r, g)
<1>1. DOMAIN w = {"msg", "q", "uuid", "gone"} /\ DOMAIN w.q = Queues
  BY DEF Sound, Shape
<1>2. /\ DOMAIN v = {"msg", "q", "uuid", "gone"} /\ DOMAIN v.q = Queues
      /\ v.msg = w.msg /\ v.uuid = w.uuid /\ v.gone = g /\ v.q[n] = r
      /\ \A k \in Queues : k # n => v.q[k] = w.q[k]
  BY <1>1 DEF WithQueue
<1> HIDE DEF v
<1>3. \A k \in Queues : QShape(v.q[k])
  BY <1>2 DEF Sound, Shape
<1>4. Shape(v)
  BY <1>2, <1>3 DEF Sound, Shape
<1>5. \A k \in Queues : v.q[k].dlq # k /\ Indexed(v.q[k], v.uuid) /\ Flagged(v.q[k])
  BY <1>2 DEF Sound
<1>6. ASSUME NEW m \in 1 .. Len(v.msg) PROVE Held(v, m)
  <2>1. Held(w, m)
    BY <1>2 DEF Sound
  <2>2. CASE m \in w.gone
    BY <2>2, <1>2 DEF Held
  <2>3. CASE m \in Pending(w.q[n]) \cup Out(w.q[n])
    BY <2>3, <1>2 DEF Held
  <2>4. ASSUME NEW k \in Queues, k # n, m \in Pending(w.q[k]) \cup Out(w.q[k])
        PROVE  Held(v, m)
    BY <2>4, <1>2 DEF Held
  <2> QED  BY <2>1, <2>2, <2>3, <2>4 DEF Held
<1>7. Sound(v)
  BY <1>4, <1>5, <1>6 DEF Sound
<1> QED
  BY <1>7 DEF v

\* The fields of a queue that the invariant looks at, unchanged.
Alike(q, r) ==
  /\ DOMAIN r = QFields /\ r.messages = q.messages /\ r.inflight = q.inflight
  /\ r.byHandle = q.byHandle /\ r.dlq = q.dlq
  /\ IsActive(q) => IsActive(r)

\* A queue that differs in other fields only keeps the invariant.
LEMMA AlikeKeeps ==
  ASSUME NEW w, Sound(w), NEW n \in Queues, NEW r, Alike(w.q[n], r)
  PROVE  Sound(WithQueue(w, n, r, w.gone))
<1>1. QShape(r)
  BY DEF Sound, Shape, QShape, Alike
<1>2. r.dlq # n /\ Indexed(r, w.uuid) /\ Flagged(r)
  BY DEF Sound, Indexed, Flagged, Alike
<1>3. Pending(r) = Pending(w.q[n]) /\ Out(r) = Out(w.q[n])
  BY DEF Alike, Pending, Out
<1> QED
  BY <1>1, <1>2, <1>3, QueueKeeps

\* The recount of the delayed messages keeps the invariant.
LEMMA RecountKeeps ==
  ASSUME NEW w, Sound(w), NEW n \in Queues, NEW t
  PROVE  Sound(RecountDelayed(w, n, t))
<1> DEFINE x == Cardinality({i \in DOMAIN w.q[n].messages :
                               t < w.msg[w.q[n].messages[i]].visibleAt})
           r == [w.q[n] EXCEPT !.delayed = x]
<1>1. /\ DOMAIN w = {"msg", "q", "uuid", "gone"} /\ DOMAIN w.q = Queues
      /\ DOMAIN w.q[n] = QFields
  BY DEF Sound, Shape, QShape
<1>2. RecountDelayed(w, n, t) = w \/ RecountDelayed(w, n, t) = [w EXCEPT !.q[n].delayed = x]
  BY DEF RecountDelayed
<1> HIDE DEF x
<1>3. Alike(w.q[n], r)
  BY <1>1 DEF Alike, QFields, IsActive
<1>4. [w EXCEPT !.q[n].delayed = x] = WithQueue(w, n, r, w.gone)
  BY <1>1 DEF WithQueue
<1> HIDE DEF r
<1>5. Sound(WithQueue(w, n, r, w.gone))
  BY <1>3, AlikeKeeps
<1> QED
  BY <1>2, <1>4, <1>5

\* One field of queue n that the invariant does not look at.
LEMMA FieldKeeps ==
  ASSUME NEW w, Sound(w), NEW n \in Queues, NEW x
  PROVE  /\ Sound([w EXCEPT !.q[n].dedup = x])
         /\ Sound([w EXCEPT !.q[n].attempts = x])
         /\ Sound([w EXCEPT !.q[n].sends = x])
         /\ Sound([w EXCEPT !.q[n].delay = x])
<1>1. /\ DOMAIN w = {"msg", "q", "uuid", "gone"} /\ DOMAIN w.q = Queues
      /\ DOMAIN w.q[n] = QFields
  BY DEF Sound, Shape, QShape
<1>2. Sound([w EXCEPT !.q[n].dedup = x])
  <2> DEFINE r == [w.q[n] EXCEPT !.dedup = x]
  <2>1. Alike(w.q[n], r)
    BY <1>1 DEF Alike, QFields, IsActive
  <2>2. [w EXCEPT !.q[n].dedup = x] = WithQueue(w, n, r, w.gone)
    BY <1>1 DEF WithQueue
  <2> HIDE DEF r
  <2> QED  BY <2>1, <2>2, AlikeKeeps
<1>3. Sound([w EXCEPT !.q[n].attempts = x])
  <2> DEFINE r == [w.q[n] EXCEPT !.attempts = x]
  <2>1. Alike(w.q[n], r)
    BY <1>1 DEF Alike, QFields, IsActive
  <2>2. [w EXCEPT !.q[n].attempts = x] = WithQueue(w, n, r, w.gone)
    BY <1>1 DEF WithQueue
  <2> HIDE DEF r
  <2> QED  BY <2>1, <2>2, AlikeKeeps
<1>4. Sound([w EXCEPT !.q[n].sends = x])
  <2> DEFINE r == [w.q[n] EXCEPT !.sends = x]
  <2>1. Alike(w.q[n], r)
    BY <1>1 DEF Alike, QFields, IsActive
  <2>2. [w EXCEPT !.q[n].sends = x] = WithQueue(w, n, r, w.gone)
    BY <1>1 DEF WithQueue
  <2> HIDE DEF r
  <2> QED  BY <2>1, <2>2, AlikeKeeps
<1>5. Sound([w EXCEPT !.q[n].delay = x])
  <2> DEFINE r == [w.q[n] EXCEPT !.delay = x]
  <2>1. Alike(w.q[n], r)
    BY <1>1 DEF Alike, QFields, IsActive
  <2>2. [w EXCEPT !.q[n].delay = x] = WithQueue(w, n, r, w.gone)
    BY <1>1 DEF WithQueue
  <2> HIDE DEF r
  <2> QED  BY <2>1, <2>2, AlikeKeeps
<1> QED
  BY <1>2, <1>3, <1>4, <1>5, Zenon

\* Pruning the deduplication entries and the attempts keeps the invariant.
LEMMA PrunesKeep ==
  ASSUME NEW w, Sound(w), NEW n \in Queues, NEW t
  PROVE  Sound(PruneDedup(w, n, t)) /\ Sound(PruneAttempts(w, n, t))
<1> DEFINE d == {e \in w.q[n].dedup : t < e.exp}
           p == {e \in w.q[n].attempts : t < e.exp}
<1>1. \/ PruneDedup(w, n, t) = w
      \/ PruneDedup(w, n, t) = [w EXCEPT !.q[n].dedup = d]
  BY Zenon DEF PruneDedup
<1>2. \/ PruneAttempts(w, n, t) = w
      \/ PruneAttempts(w, n, t) = [w EXCEPT !.q[n].attempts = p]
  BY Zenon DEF PruneAttempts
<1> HIDE DEF d, p
<1>3. Sound([w EXCEPT !.q[n].dedup = d]) /\ Sound([w EXCEPT !.q[n].attempts = p])
  BY FieldKeeps, Zenon
<1> QED
  BY <1>1, <1>2, <1>3, Zenon

\* prepareAndPickMessages keeps the invariant: sweep, fast pick, slow pick.
LEMMA PrepareKeeps ==
  ASSUME NEW w, Sound(w), NEW n \in Queues, NEW max \in Nat, NEW vt \in Int,
         NEW t \in Int
  PROVE  Sound(PrepareAndPick(w, n, max, vt, t).w)
<1> DEFINE swept == Sweep(w, n, t)
           blocked == BlockedGroups(swept, n)
           fast == FastPick(swept, n, max, vt, t, blocked)
           slow == SlowPick(fast.w, n, max, vt, t, blocked)
           res == IF fast.ok THEN fast ELSE slow
<1>1. PrepareAndPick(w, n, max, vt, t).w = RecountDelayed(res.w, n, t)
  BY DEF PrepareAndPick
<1>2. Sound(swept)
  BY SweepKeeps
<1> HIDE DEF swept, blocked
<1>3. Sound(fast.w)
  BY <1>2, FastKeeps
<1> HIDE DEF fast
<1>4. Sound(slow.w)
  <2> DEFINE y == fast.w
  <2>1. Sound(y)
    BY <1>3
  <2> HIDE DEF y
  <2>2. Sound(SlowPick(y, n, max, vt, t, blocked).w)
    BY <2>1, SlowKeeps
  <2> QED  BY <2>2 DEF y
<1> HIDE DEF slow
<1>5. Sound(res.w)
  BY <1>3, <1>4
<1> DEFINE z == res.w
<1> HIDE DEF res
<1>6. Sound(z)
  BY <1>5
<1> HIDE DEF z
<1>7. Sound(RecountDelayed(z, n, t))
  BY <1>6, RecountKeeps
<1> QED
  BY <1>1, <1>7 DEF z

\* receiveOnce keeps the invariant.
LEMMA ReceiveKeeps ==
  ASSUME NEW w, Sound(w), NEW n \in Queues, NEW max \in Nat, NEW vt \in Int,
         NEW att, NEW t \in Int
  PROVE  Sound(ReceiveOnce(w, n, max, vt, att, t))
<1> DEFINE y == PruneDedup(w, n, t)
           z == PruneAttempts(y, n, t)
           got == PrepareAndPick(z, n, max, vt, t)
           g == got.w
           entry == [id |-> att, msgs |-> got.picked, exp |-> t + AttemptTTL]
           x == g.q[n].attempts \cup {entry}
<1>1. \/ ReceiveOnce(w, n, max, vt, att, t) = z
      \/ ReceiveOnce(w, n, max, vt, att, t) = g
      \/ ReceiveOnce(w, n, max, vt, att, t) = [g EXCEPT !.q[n].attempts = x]
  BY Zenon DEF ReceiveOnce
<1>2. Sound(y)
  BY PrunesKeep
<1> HIDE DEF y
<1>3. Sound(z)
  BY <1>2, PrunesKeep
<1> HIDE DEF z
<1>4. Sound(g)
  BY <1>3, PrepareKeeps
<1> HIDE DEF g, x
<1>5. Sound([g EXCEPT !.q[n].attempts = x])
  BY <1>4, FieldKeeps, Zenon
<1> QED
  BY <1>1, <1>3, <1>4, <1>5, Zenon

-----------------------------------------------------------------------------
(* Deleting and changing visibility.                                       *)

\* The swap-delete puts the last lease in the place of lease i.
LEMMA SwapDeleted ==
  ASSUME NEW s \in Seq(Leases), NEW N \in Nat, N = Len(s), NEW i \in 1 .. N
  PROVE  LET r == SwapDelete(s, i)
         IN /\ r \in Seq(Leases) /\ Len(r) = N - 1 /\ DOMAIN r = 1 .. N - 1
            /\ \A j \in 1 .. N - 1 : r[j] = IF j = i THEN s[N] ELSE s[j]
<1> DEFINE r == SwapDelete(s, i)
           e == [s EXCEPT ![i] = s[N]]
<1>1. DOMAIN s = 1 .. N /\ \A j \in 1 .. N : s[j] \in Leases
  OBVIOUS
<1>2. /\ N - 1 \in Nat /\ 1 \in Int /\ N - 1 \in Int /\ N \in 1 .. N
      /\ \A j \in 1 .. N - 1 : j \in 1 .. N
      /\ (N - 1) - 1 + 1 = N - 1 /\ (1 <= N - 1 \/ N - 1 = 0)
      /\ \A j \in 1 .. N - 1 : 1 + j - 1 = j
  OBVIOUS
<1>3. CASE i = N
  <2>1. r = SubSeq(s, 1, N - 1)
    BY <1>3 DEF SwapDelete
  <2> HIDE DEF r
  <2>2. \A j \in 1 .. N - 1 : s[j] \in Leases
    BY <1>1, <1>2
  <2>3. SubSeq(s, 1, N - 1) \in Seq(Leases)
    BY <1>2, <2>2, SubSeqProperties
  <2>4. Len(SubSeq(s, 1, N - 1)) = IF 1 <= N - 1 THEN (N - 1) - 1 + 1 ELSE 0
    BY <1>2, <2>2, SubSeqProperties
  <2>5. \A j \in 1 .. (N - 1) - 1 + 1 : SubSeq(s, 1, N - 1)[j] = s[1 + j - 1]
    BY <1>2, <2>2, SubSeqProperties
  <2>6. r \in Seq(Leases) /\ Len(r) = N - 1 /\ \A j \in 1 .. N - 1 : r[j] = s[j]
    BY <1>2, <2>1, <2>3, <2>4, <2>5
  <2>7. DOMAIN r = 1 .. N - 1
    BY <2>6
  <2>8. \A j \in 1 .. N - 1 : j # i
    BY <1>3
  <2> QED  BY <2>6, <2>7, <2>8 DEF r
<1>4. CASE i # N
  <2>1. r = SubSeq(e, 1, N - 1)
    BY <1>4 DEF SwapDelete
  <2>2. \A j \in 1 .. N : e[j] = IF j = i THEN s[N] ELSE s[j]
    BY <1>1
  <2> HIDE DEF r, e
  <2>3. \A j \in 1 .. N - 1 : e[j] \in Leases
    BY <1>1, <1>2, <2>2
  <2>4. SubSeq(e, 1, N - 1) \in Seq(Leases)
    BY <1>2, <2>3, SubSeqProperties
  <2>5. Len(SubSeq(e, 1, N - 1)) = IF 1 <= N - 1 THEN (N - 1) - 1 + 1 ELSE 0
    BY <1>2, <2>3, SubSeqProperties
  <2>6. \A j \in 1 .. (N - 1) - 1 + 1 : SubSeq(e, 1, N - 1)[j] = e[1 + j - 1]
    BY <1>2, <2>3, SubSeqProperties
  <2>7. r \in Seq(Leases) /\ Len(r) = N - 1 /\ \A j \in 1 .. N - 1 : r[j] = e[j]
    BY <1>2, <2>1, <2>4, <2>5, <2>6, SMTT(30)
  <2>8. DOMAIN r = 1 .. N - 1
    BY <2>7
  <2> QED  BY <1>2, <2>2, <2>7, <2>8 DEF r
<1> QED
  BY <1>3, <1>4

\* The lease of handle h is gone, every other lease is still there.
LEMMA DropLeaseKeeps ==
  ASSUME NEW w, Sound(w), NEW n \in Queues, NEW h \in Handles(w.q[n].inflight),
         NEW g, w.gone \subseteq g,
         \/ LeasedMsg(w, n, h) \in g
         \/ \E k \in Queues : LeasedMsg(w, n, h) \in Pending(w.q[k])
  PROVE  Sound([DropLease(w, n, h) EXCEPT !.gone = g])
<1> DEFINE s == w.q[n].inflight
           N == Len(s)
           i == IndexOfHandle(w, n, h)
           r == SwapDelete(s, i)
           p == [w.q[n] EXCEPT !.byHandle = @ \ {h}, !.inflight = r]
<1>1. /\ DOMAIN w = {"msg", "q", "uuid", "gone"} /\ DOMAIN w.q = Queues
      /\ DOMAIN w.q[n] = QFields
  BY DEF Sound, Shape, QShape
<1>2. /\ s \in Seq(Leases) /\ N \in Nat /\ DOMAIN s = 1 .. N /\ Distinct(s)
      /\ w.q[n].byHandle = Handles(s) /\ \A x \in Handles(s) : x <= w.uuid
  BY DEF Sound, Shape, QShape, Indexed
<1>3. i \in 1 .. N /\ s[i].handle = h
  <2>1. \E j \in DOMAIN s : s[j].handle = h
    BY DEF Handles
  <2> QED  BY <2>1, <1>2 DEF IndexOfHandle
<1>4. LeasedMsg(w, n, h) = s[i].m
  BY DEF LeasedMsg
<1>5. [DropLease(w, n, h) EXCEPT !.gone = g] = WithQueue(w, n, p, g)
  BY <1>1 DEF DropLease, WithQueue, QFields
<1>6. /\ DOMAIN p = QFields /\ p.byHandle = Handles(s) \ {h} /\ p.inflight = r
  BY <1>1, <1>2 DEF QFields
<1>7. /\ p.messages = w.q[n].messages /\ p.dlq = w.q[n].dlq
      /\ IsActive(p) <=> IsActive(w.q[n])
  BY <1>1 DEF QFields, IsActive
<1> HIDE DEF p, i, N
<1>8. /\ r \in Seq(Leases) /\ Len(r) = N - 1 /\ DOMAIN r = 1 .. N - 1
      /\ \A j \in 1 .. N - 1 : r[j] = IF j = i THEN s[N] ELSE s[j]
  <2> HIDE DEF s
  <2> QED  BY <1>2, <1>3, SwapDeleted DEF N
<1> HIDE DEF r, s
<1>9. /\ N \in 1 .. N /\ \A j \in 1 .. N - 1 : j \in 1 .. N /\ j # N
      /\ \A j \in 1 .. N : j \in 1 .. N - 1 \/ j = N
      /\ (i = N \/ i \in 1 .. N - 1)
  BY <1>2, <1>3
<1>10. Handles(r) = Handles(s) \ {h}
  <2>1. ASSUME NEW j \in 1 .. N - 1
        PROVE  r[j].handle \in Handles(s) /\ r[j].handle # h
    <3>1. CASE j = i
      BY <3>1, <1>2, <1>3, <1>8, <1>9 DEF Handles, Distinct
    <3>2. CASE j # i
      BY <3>2, <1>2, <1>3, <1>8, <1>9 DEF Handles, Distinct
    <3> QED  BY <3>1, <3>2
  <2>2. ASSUME NEW j \in 1 .. N, j # i PROVE s[j].handle \in Handles(r)
    <3>1. CASE j = N
      BY <3>1, <2>2, <1>8, <1>9 DEF Handles
    <3>2. CASE j # N
      BY <3>2, <2>2, <1>8, <1>9 DEF Handles
    <3> QED  BY <3>1, <3>2
  <2> QED  BY <2>1, <2>2, <1>2, <1>3, <1>8, SMTT(30) DEF Handles
<1>11. Distinct(r)
  <2> SUFFICES ASSUME NEW a \in 1 .. N - 1, NEW b \in 1 .. N - 1,
                      r[a].handle = r[b].handle
               PROVE  a = b
    BY <1>8 DEF Distinct
  <2> DEFINE f(j) == IF j = i THEN N ELSE j
  <2>1. /\ f(a) \in DOMAIN s /\ f(b) \in DOMAIN s
        /\ r[a] = s[f(a)] /\ r[b] = s[f(b)]
    BY <1>2, <1>8, <1>9
  <2>2. f(a) = f(b)
    BY <1>2, <2>1 DEF Distinct
  <2> QED  BY <2>2, <1>9
<1>12. ASSUME NEW j \in 1 .. N, j # i PROVE s[j].m \in Out(p)
  <2>1. CASE j = N
    BY <2>1, <1>12, <1>6, <1>8, <1>9 DEF Out
  <2>2. CASE j # N
    BY <2>2, <1>12, <1>6, <1>8, <1>9 DEF Out
  <2> QED  BY <2>1, <2>2
<1>13. QShape(p)
  BY <1>6, <1>7, <1>8 DEF Sound, Shape, QShape
<1>14. p.dlq # n /\ Indexed(p, w.uuid)
  BY <1>2, <1>6, <1>7, <1>10, <1>11 DEF Sound, Indexed
<1>15. Flagged(p)
  <2>1. s # <<>>
    BY <1>2, <1>3
  <2> QED  BY <2>1, <1>7 DEF Sound, Flagged, s
<1>16. ASSUME NEW x \in Pending(w.q[n]) \cup Out(w.q[n])
       PROVE  \/ x \in Pending(p) \cup Out(p) \cup g
              \/ \E k \in Queues : k # n /\ x \in Pending(w.q[k])
  <2>1. Pending(p) = Pending(w.q[n])
    BY <1>7 DEF Pending
  <2>2. CASE x \in Out(w.q[n])
    <3>1. PICK j \in 1 .. N : x = s[j].m
      BY <2>2, <1>2 DEF Out, s
    <3>2. CASE j = i
      BY <3>1, <3>2, <1>4, <2>1
    <3>3. CASE j # i
      BY <3>1, <3>3, <1>12
    <3> QED  BY <3>2, <3>3
  <2> QED  BY <2>1, <2>2
<1>17. Sound(WithQueue(w, n, p, g))
  BY <1>13, <1>14, <1>15, <1>16, QueueKeeps
<1> QED
  BY <1>5, <1>17

\* Routing or requeueing keeps the invariant of a flagged queue.
LEMMA RouteOrRequeueKeeps ==
  ASSUME NEW w, Sound(w), NEW n \in Queues, IsActive(w.q[n]), NEW m \in Nat,
         NEW t
  PROVE  LET v == RouteOrRequeue(w, n, m, t)
         IN /\ Sound(v) /\ v.gone = w.gone
            /\ v.q[n].inflight = w.q[n].inflight
            /\ \E k \in Queues : m \in Pending(v.q[k])
<1> DEFINE v == RouteOrRequeue(w, n, m, t)
<1>1. Shape(w)
  BY DEF Sound
<1>2. /\ Frame(w, v) /\ \E k \in Queues : m \in Pending(v.q[k])
      /\ \A k \in Queues : k # n => v.q[k] = w.q[k] \/ IsActive(v.q[k])
  BY <1>1, RouteOrRequeueEffect
<1> HIDE DEF v
<1>3. IsActive(v.q[n]) /\ v.gone = w.gone /\ v.q[n].inflight = w.q[n].inflight
  BY <1>2 DEF Frame
<1>4. \A k \in Queues : Flagged(v.q[k])
  BY <1>2, <1>3 DEF Sound, Flagged
<1>5. Sound(v)
  BY <1>2, <1>4, FrameKeeps
<1> QED
  BY <1>2, <1>3, <1>5 DEF v

\* A message written in the heap.
Written(w, m, e) == [w EXCEPT !.msg[m] = e]

\* A write to the heap keeps the invariant.
LEMMA WriteKeeps ==
  ASSUME NEW w, Sound(w), NEW m, NEW e
  PROVE  LET v == Written(w, m, e)
         IN Sound(v) /\ v.q = w.q /\ v.gone = w.gone
<1> DEFINE v == Written(w, m, e)
           s == [w.msg EXCEPT ![m] = e]
<1>1. DOMAIN w = {"msg", "q", "uuid", "gone"}
  BY DEF Sound, Shape
<1>2. /\ DOMAIN v = {"msg", "q", "uuid", "gone"} /\ v.msg = s /\ v.q = w.q
      /\ v.uuid = w.uuid /\ v.gone = w.gone
  BY <1>1 DEF Written
<1>3. IsSeq(s) /\ Len(s) = Len(w.msg)
  <2>1. IsSeq(w.msg)
    BY DEF Sound, Shape
  <2> QED  BY <2>1, HeapUpdate, Zenon
<1> HIDE DEF v, s
<1>4. Shape(v)
  BY <1>2, <1>3 DEF Sound, Shape
<1>5. \A k \in 1 .. Len(v.msg) : Held(v, k)
  BY <1>2, <1>3 DEF Sound, Held
<1>6. Sound(v)
  BY <1>2, <1>4, <1>5 DEF Sound
<1> QED
  BY <1>2, <1>6 DEF v

\* A handle of a lease is found in the slice, and its queue is flagged.
LEMMA LeaseAt ==
  ASSUME NEW w, Sound(w), NEW n \in Queues, NEW h \in Handles(w.q[n].inflight)
  PROVE  LET i == IndexOfHandle(w, n, h)
         IN /\ i \in DOMAIN w.q[n].inflight /\ w.q[n].inflight[i].handle = h
            /\ LeasedMsg(w, n, h) = w.q[n].inflight[i].m
            /\ LeasedMsg(w, n, h) \in Nat
            /\ IsActive(w.q[n])
<1> DEFINE s == w.q[n].inflight
           i == IndexOfHandle(w, n, h)
<1>1. s \in Seq(Leases)
  BY DEF Sound, Shape, QShape
<1>2. \E j \in DOMAIN s : s[j].handle = h
  BY DEF Handles
<1>3. i \in DOMAIN s /\ s[i].handle = h
  BY <1>2 DEF IndexOfHandle
<1>4. LeasedMsg(w, n, h) = s[i].m
  BY DEF LeasedMsg
<1>5. s # <<>> /\ s[i].m \in Nat
  <2> HIDE DEF s, i
  <2>1. s[i] \in Leases
    BY <1>1, <1>3
  <2>2. s # <<>>
    BY <1>1, <1>3
  <2> QED  BY <2>1, <2>2 DEF Leases
<1>6. IsActive(w.q[n])
  BY <1>5 DEF Sound, Flagged
<1> QED
  BY <1>3, <1>4, <1>5, <1>6

\* changeVisibility with a timeout of 0 keeps the invariant: the message is
\* pending before its lease is dropped.
LEMMA ReturnKeeps ==
  ASSUME NEW w, Sound(w), NEW n \in Queues, NEW h \in Handles(w.q[n].inflight),
         NEW t
  PROVE  Sound(ReturnNow(w, n, h, t))
<1> DEFINE m == LeasedMsg(w, n, h)
           e == [w.msg[m] EXCEPT !.visibleAt = t]
           u == Written(w, m, e)
           v == RouteOrRequeue(u, n, m, t)
           x == DropLease(v, n, h)
           g == v.gone
<1>0. m \in Nat /\ IsActive(w.q[n])
  BY LeaseAt
<1>1. ReturnNow(w, n, h, t) = x
  BY DEF ReturnNow, Written
<1> HIDE DEF m, e
<1>2. Sound(u) /\ u.q = w.q
  BY WriteKeeps
<1> HIDE DEF u
<1>3. /\ Sound(v) /\ v.q[n].inflight = w.q[n].inflight
      /\ \E k \in Queues : m \in Pending(v.q[k])
  <2>1. IsActive(u.q[n])
    BY <1>0, <1>2
  <2>2. /\ Sound(v) /\ v.q[n].inflight = u.q[n].inflight
        /\ \E k \in Queues : m \in Pending(v.q[k])
    BY <1>0, <1>2, <2>1, RouteOrRequeueKeeps
  <2> QED  BY <1>2, <2>2
<1> HIDE DEF v
<1>4. LeasedMsg(v, n, h) = m /\ h \in Handles(v.q[n].inflight)
  BY <1>3 DEF LeasedMsg, IndexOfHandle, m
<1>5. Sound([x EXCEPT !.gone = g])
  <2>1. v.gone \subseteq g
    OBVIOUS
  <2> HIDE DEF g
  <2> QED  BY <1>3, <1>4, <2>1, DropLeaseKeeps
<1>6. [x EXCEPT !.gone = g] = x
  <2>1. DOMAIN v = {"msg", "q", "uuid", "gone"}
    BY <1>3 DEF Sound, Shape
  <2>2. DOMAIN x = {"msg", "q", "uuid", "gone"} /\ x.gone = g /\ x = [i \in DOMAIN x |-> x[i]]
    BY <2>1 DEF DropLease
  <2> HIDE DEF x, g
  <2> QED  BY <2>2
<1> QED
  BY <1>1, <1>5, <1>6

\* changeVisibility with a positive timeout keeps the invariant.
LEMMA ExtendKeeps ==
  ASSUME NEW w, Sound(w), NEW n \in Queues, NEW h \in Handles(w.q[n].inflight),
         NEW vt \in Int, NEW t \in Int
  PROVE  Sound(Extend(w, n, h, vt, t))
<1> DEFINE s == w.q[n].inflight
           i == IndexOfHandle(w, n, h)
           e == [s[i] EXCEPT !.visibleAt = t + vt]
           r == [s EXCEPT ![i] = e]
           p == [w.q[n] EXCEPT !.inflight = r]
<1>1. /\ DOMAIN w = {"msg", "q", "uuid", "gone"} /\ DOMAIN w.q = Queues
      /\ DOMAIN w.q[n] = QFields /\ s \in Seq(Leases)
  BY DEF Sound, Shape, QShape
<1>2. i \in DOMAIN s /\ IsActive(w.q[n])
  BY LeaseAt
<1>3. Extend(w, n, h, vt, t) = WithQueue(w, n, p, w.gone)
  BY <1>1 DEF Extend, WithQueue, QFields
<1>4. /\ DOMAIN p = QFields /\ p.inflight = r /\ p.messages = w.q[n].messages
      /\ p.dlq = w.q[n].dlq /\ p.byHandle = w.q[n].byHandle
  BY <1>1 DEF QFields
<1>5. IsActive(p)
  BY <1>1, <1>2 DEF QFields, IsActive
<1> HIDE DEF p, s, i
<1>6. e \in Leases /\ e.m = s[i].m /\ e.handle = s[i].handle
  <2>1. s[i] \in Leases
    BY <1>1, <1>2
  <2> QED  BY <2>1 DEF Leases
<1> HIDE DEF e
<1>7. /\ r \in Seq(Leases) /\ DOMAIN r = DOMAIN s
      /\ \A j \in DOMAIN s : r[j] = IF j = i THEN e ELSE s[j]
  BY <1>1, <1>2, <1>6
<1> HIDE DEF r
<1>8. \A j \in DOMAIN s : r[j].m = s[j].m /\ r[j].handle = s[j].handle
  BY <1>6, <1>7
<1>9. Handles(r) = Handles(s) /\ (Distinct(s) => Distinct(r))
  BY <1>7, <1>8 DEF Handles, Distinct
<1>10. Out(p) = Out(w.q[n]) /\ Pending(p) = Pending(w.q[n])
  BY <1>4, <1>7, <1>8 DEF Out, Pending, s
<1>11. QShape(p)
  BY <1>4, <1>7 DEF Sound, Shape, QShape
<1>12. p.dlq # n /\ Indexed(p, w.uuid) /\ Flagged(p)
  BY <1>4, <1>5, <1>9 DEF Sound, Indexed, Flagged, s
<1>13. Sound(WithQueue(w, n, p, w.gone))
  BY <1>10, <1>11, <1>12, QueueKeeps
<1> QED
  BY <1>3, <1>13

\* A send: message e, the next one, is the last one of queue n, now r.
Sent(w, n, e, r) == [w EXCEPT !.msg = Append(@, e), !.q[n] = r]

\* A message appended to the heap and to a queue keeps the invariant.
LEMMA SentKeeps ==
  ASSUME NEW w, Sound(w), NEW n \in Queues, NEW e, NEW r,
         DOMAIN r = QFields, r.messages = Append(w.q[n].messages, Len(w.msg) + 1),
         r.inflight = w.q[n].inflight, r.byHandle = w.q[n].byHandle,
         r.dlq = w.q[n].dlq, IsActive(r)
  PROVE  Sound(Sent(w, n, e, r))
<1> DEFINE v == Sent(w, n, e, r)
           s == w.q[n].messages
           c == w.msg
           N == Len(c)
           b == Append(c, e)
<1>1. DOMAIN w = {"msg", "q", "uuid", "gone"} /\ DOMAIN w.q = Queues
  BY DEF Sound, Shape
<1>2. /\ DOMAIN v = {"msg", "q", "uuid", "gone"} /\ DOMAIN v.q = Queues
      /\ v.msg = b /\ v.uuid = w.uuid /\ v.gone = w.gone /\ v.q[n] = r
      /\ \A k \in Queues : k # n => v.q[k] = w.q[k]
  BY <1>1 DEF Sent
<1> HIDE DEF v
<1>3. IsSeq(b) /\ N \in Nat /\ Len(b) = N + 1
  <2>1. PICK S : c \in Seq(S)
    BY DEF Sound, Shape, IsSeq
  <2> HIDE DEF c
  <2>2. c \in Seq(S \cup {e})
    BY <2>1
  <2>3. b \in Seq(S \cup {e}) /\ N \in Nat /\ Len(b) = N + 1
    BY <2>2
  <2> QED  BY <2>3 DEF IsSeq
<1> HIDE DEF b
<1>4. /\ r.messages \in Seq(Nat) /\ N + 1 \in Pending(r)
      /\ Pending(w.q[n]) \subseteq Pending(r)
  <2>1. s \in Seq(Nat) /\ N + 1 \in Nat
    BY <1>3 DEF Sound, Shape, QShape
  <2> DEFINE y == r.messages
             x == N + 1
  <2>2. y = Append(s, x) /\ x \in Nat
    BY <2>1
  <2> HIDE DEF y, s, x, N
  <2>3. /\ y \in Seq(Nat) /\ DOMAIN y = 1 .. Len(y) /\ Len(y) \in Nat \ {0}
        /\ y[Len(y)] = x
        /\ \A i \in DOMAIN s : i \in DOMAIN y /\ y[i] = s[i]
    BY <2>1, <2>2, AppendRange
  <2>4. x \in Pending(r)
    <3>1. Len(y) \in DOMAIN y
      BY <2>3
    <3> QED  BY <2>3, <3>1 DEF Pending, y
  <2>5. Pending(w.q[n]) \subseteq Pending(r)
    BY <2>3 DEF Pending, y, s
  <2> QED  BY <2>3, <2>4, <2>5 DEF y, x
<1>5. \A k \in Queues : QShape(v.q[k])
  BY <1>2, <1>4 DEF Sound, Shape, QShape
<1>6. Shape(v)
  BY <1>2, <1>3, <1>5 DEF Sound, Shape
<1>7. \A k \in Queues : v.q[k].dlq # k /\ Indexed(v.q[k], v.uuid) /\ Flagged(v.q[k])
  BY <1>2 DEF Sound, Indexed, Flagged
<1>8. ASSUME NEW m \in 1 .. Len(v.msg) PROVE Held(v, m)
  <2>1. m \in 1 .. N \/ m = N + 1
    BY <1>2, <1>3
  <2>2. CASE m = N + 1
    BY <2>2, <1>2, <1>4 DEF Held
  <2>3. CASE m \in 1 .. N
    <3>1. Held(w, m)
      BY <2>3 DEF Sound
    <3>2. \A k \in Queues : /\ Pending(w.q[k]) \subseteq Pending(v.q[k])
                            /\ Out(w.q[k]) = Out(v.q[k])
      BY <1>2, <1>4 DEF Out
    <3> QED  BY <3>1, <3>2, <1>2 DEF Held
  <2> QED  BY <2>1, <2>2, <2>3
<1>9. Sound(v)
  BY <1>6, <1>7, <1>8 DEF Sound
<1> QED
  BY <1>9 DEF v

\* The tail of sendMessageLocked keeps the invariant.
LEMMA EnqueueKeeps ==
  ASSUME NEW w, Sound(w), NEW n \in Queues, NEW g, NEW d, NEW delay, NEW t
  PROVE  Sound(Enqueue(w, n, g, d, delay, t))
<1> DEFINE q == w.q[n]
           m == Len(w.msg) + 1
           seq == IF IsFIFO(n) THEN q.seqCtr + 1 ELSE 0
           vis == VisibleAt(q, delay, t)
           e == [home |-> n, group |-> g, dedup |-> d, seq |-> seq,
                 sent |-> t, visibleAt |-> vis, rc |-> 0,
                 handle |-> 0, epoch |-> q.purges,
                 at |-> IF IsFIFO(n) THEN now ELSE 0,
                 boot |-> IF IsFIFO(n) THEN restarts ELSE 0]
           dd == IF IsFIFO(n)
                 THEN EvictOldest({x \in q.dedup : x.key # DedupKey(g, d)})
                        \cup {DedupEntry(g, d, t, m)}
                 ELSE q.dedup
           late == IF t < vis THEN 1 ELSE 0
           r == [q EXCEPT !.seqCtr = seq, !.dedup = dd, !.delayed = @ + late,
                          !.messages = Append(@, m), !.active = TRUE]
<1>1. /\ DOMAIN w = {"msg", "q", "uuid", "gone"} /\ DOMAIN w.q = Queues
      /\ DOMAIN q = QFields
  BY DEF Sound, Shape, QShape
<1>2. Enqueue(w, n, g, d, delay, t) = Sent(w, n, e, r)
  BY Zenon DEF Enqueue, Sent
<1> HIDE DEF seq, vis, e, dd, late, m
<1>4. /\ DOMAIN r = QFields /\ r.messages = Append(w.q[n].messages, m)
      /\ r.inflight = w.q[n].inflight /\ r.byHandle = w.q[n].byHandle
      /\ r.dlq = w.q[n].dlq
  BY <1>1 DEF QFields
<1>5. IsActive(r)
  BY <1>1 DEF QFields, IsActive
<1> HIDE DEF r, q
<1>6. Sound(Sent(w, n, e, r))
  BY <1>4, <1>5, SentKeeps DEF m
<1> QED
  BY <1>2, <1>6

\* A send keeps the invariant: refused, a duplicate or enqueued.
LEMMA SendKeeps ==
  ASSUME NEW w, Sound(w), NEW n \in Queues, NEW g, NEW d, NEW delay, NEW t
  PROVE  Sound(SendLocked(w, n, g, d, delay, t))
<1> DEFINE q == w.q[n]
           recent == RecentSends(q, g, t)
           limited == n \in RateLimited /\ Len(recent) >= FifoTPS
           y == IF limited THEN recent ELSE Append(recent, t)
           z == [w EXCEPT !.q[n].sends[g] = y]
           counted == IF n \notin RateLimited THEN w ELSE z
           duplicate == LiveDedup(q, DedupKey(g, d), t) # {}
           x == [w.q[n].sends EXCEPT ![g] = y]
<1>1. \/ SendLocked(w, n, g, d, delay, t) = Enqueue(w, n, g, d, delay, t)
      \/ SendLocked(w, n, g, d, delay, t) = counted
      \/ SendLocked(w, n, g, d, delay, t) = Enqueue(counted, n, g, d, delay, t)
  BY Zenon DEF SendLocked
<1> HIDE DEF y
<1>2. Sound(z)
  <2>1. z = [w EXCEPT !.q[n].sends = x]
    OBVIOUS
  <2> HIDE DEF x
  <2>2. Sound([w EXCEPT !.q[n].sends = x])
    BY FieldKeeps, Zenon
  <2> QED  BY <2>1, <2>2, Zenon
<1> HIDE DEF z
<1>3. Sound(counted)
  BY <1>2
<1> HIDE DEF counted
<1>4. Sound(Enqueue(w, n, g, d, delay, t)) /\ Sound(Enqueue(counted, n, g, d, delay, t))
  BY <1>3, EnqueueKeeps
<1> QED
  BY <1>1, <1>3, <1>4, Zenon

\* A purge keeps the invariant: what the slices held is retired.
LEMMA PurgeKeeps ==
  ASSUME NEW w, Sound(w), NEW n \in Queues, NEW r, NEW g,
         DOMAIN r = QFields, r.messages = <<>>, r.inflight = <<>>,
         r.byHandle = {}, r.dlq = w.q[n].dlq,
         g = w.gone \cup Pending(w.q[n]) \cup Out(w.q[n])
  PROVE  Sound(WithQueue(w, n, r, g))
<1>1. QShape(r)
  BY DEF Sound, Shape, QShape
<1>2. Handles(<<>>) = {} /\ Distinct(<<>>)
  BY DEF Handles, Distinct
<1>3. r.dlq # n /\ Indexed(r, w.uuid) /\ Flagged(r)
  BY <1>2 DEF Sound, Indexed, Flagged
<1> QED
  BY <1>1, <1>3, QueueKeeps

\* A new redrive policy, not to the queue itself, keeps the invariant.
LEMMA PolicyKeeps ==
  ASSUME NEW w, Sound(w), NEW n \in Queues, NEW r,
         DOMAIN r = QFields, r.messages = w.q[n].messages,
         r.inflight = w.q[n].inflight, r.byHandle = w.q[n].byHandle,
         r.dlq \in Queues \cup {None}, r.dlq # n,
         IsActive(w.q[n]) => IsActive(r)
  PROVE  Sound(WithQueue(w, n, r, w.gone))
<1>1. QShape(r)
  BY DEF Sound, Shape, QShape
<1>2. Indexed(r, w.uuid) /\ Flagged(r)
  BY DEF Sound, Indexed, Flagged
<1>3. Pending(r) = Pending(w.q[n]) /\ Out(r) = Out(w.q[n])
  BY DEF Pending, Out
<1> QED
  BY <1>1, <1>2, <1>3, QueueKeeps

\* The janitor takes the flag of an idle queue.
LEMMA UnflagKeeps ==
  ASSUME NEW w, Sound(w), NEW n \in Queues
  PROVE  Sound([w EXCEPT !.q[n].active = IF Idle(w.q[n]) THEN FALSE ELSE @])
<1> DEFINE x == IF Idle(w.q[n]) THEN FALSE ELSE w.q[n].active
           r == [w.q[n] EXCEPT !.active = x]
<1>1. /\ DOMAIN w = {"msg", "q", "uuid", "gone"} /\ DOMAIN w.q = Queues
      /\ DOMAIN w.q[n] = QFields
  BY DEF Sound, Shape, QShape
<1>2. [w EXCEPT !.q[n].active = IF Idle(w.q[n]) THEN FALSE ELSE @]
        = WithQueue(w, n, r, w.gone)
  BY <1>1 DEF WithQueue
<1>3. x = w.q[n].active \/ (w.q[n].messages = <<>> /\ w.q[n].inflight = <<>>)
  BY Zenon DEF Idle
<1> HIDE DEF x
<1>4. /\ DOMAIN r = QFields /\ r.messages = w.q[n].messages
      /\ r.inflight = w.q[n].inflight /\ r.byHandle = w.q[n].byHandle
      /\ r.dlq = w.q[n].dlq /\ r.active = x
  BY <1>1 DEF QFields
<1> HIDE DEF r
<1>5. QShape(r)
  BY <1>4 DEF Sound, Shape, QShape
<1>6. r.dlq # n /\ Indexed(r, w.uuid)
  BY <1>4 DEF Sound, Indexed
<1>7. Flagged(r)
  <2>1. CASE x = w.q[n].active
    BY <2>1, <1>4 DEF Sound, Flagged, IsActive
  <2>2. CASE w.q[n].messages = <<>> /\ w.q[n].inflight = <<>>
    BY <2>2, <1>4 DEF Flagged
  <2> QED  BY <1>3, <2>1, <2>2
<1>8. Pending(r) = Pending(w.q[n]) /\ Out(r) = Out(w.q[n])
  BY <1>4 DEF Pending, Out
<1>9. Sound(WithQueue(w, n, r, w.gone))
  BY <1>5, <1>6, <1>7, <1>8, QueueKeeps
<1> QED
  BY <1>2, <1>9

\* A queue read back from a snapshot.
LEMMA RestoredQueue ==
  ASSUME NEW q, QShape(q), NEW t
  PROVE  LET r == Restored(q, t)
         IN /\ DOMAIN r = QFields /\ r.messages = q.messages
            /\ r.inflight = q.inflight /\ r.dlq = q.dlq
            /\ r.byHandle = Handles(q.inflight) /\ Flagged(r)
<1> DEFINE r == Restored(q, t)
           f == q.messages # <<>> \/ q.inflight # <<>>
<1>1. DOMAIN q = QFields
  BY DEF QShape
<1>2. {inf.handle : inf \in ToSet(q.inflight)} = Handles(q.inflight)
  BY DEF ToSet, Handles
<1>3. /\ DOMAIN r = QFields /\ r.messages = q.messages
      /\ r.inflight = q.inflight /\ r.dlq = q.dlq
  BY <1>1 DEF Restored, QFields
<1>4. r.byHandle = Handles(q.inflight)
  BY <1>1, <1>2 DEF Restored, QFields
<1>5. f => IsActive(r)
  <2>1. f => f = TRUE
    OBVIOUS
  <2>2. r.active = f
    BY <1>1 DEF Restored, QFields
  <2> HIDE DEF f
  <2> QED  BY <2>1, <2>2 DEF IsActive
<1> HIDE DEF r
<1>6. Flagged(r)
  BY <1>3, <1>5 DEF Flagged
<1> QED
  BY <1>3, <1>4, <1>6 DEF r

\* All queues read back from a snapshot keep the invariant.
LEMMA RestoredKeeps ==
  ASSUME NEW w, Sound(w), NEW t
  PROVE  Sound([w EXCEPT !.q = [n \in Queues |-> Restored(w.q[n], t)]])
<1> DEFINE v == [w EXCEPT !.q = [n \in Queues |-> Restored(w.q[n], t)]]
<1>1. DOMAIN w = {"msg", "q", "uuid", "gone"} /\ \A k \in Queues : QShape(w.q[k])
  BY DEF Sound, Shape
<1>2. /\ DOMAIN v = {"msg", "q", "uuid", "gone"} /\ DOMAIN v.q = Queues
      /\ v.msg = w.msg /\ v.uuid = w.uuid /\ v.gone = w.gone
      /\ \A k \in Queues : v.q[k] = Restored(w.q[k], t)
  BY <1>1
<1> HIDE DEF v
<1>3. ASSUME NEW k \in Queues
      PROVE  /\ DOMAIN v.q[k] = QFields /\ v.q[k].messages = w.q[k].messages
             /\ v.q[k].inflight = w.q[k].inflight /\ v.q[k].dlq = w.q[k].dlq
             /\ v.q[k].byHandle = Handles(w.q[k].inflight) /\ Flagged(v.q[k])
  <2> DEFINE q == w.q[k]
  <2>1. QShape(q)
    BY <1>1
  <2> HIDE DEF q
  <2>2. LET r == Restored(q, t)
         IN /\ DOMAIN r = QFields /\ r.messages = q.messages
            /\ r.inflight = q.inflight /\ r.dlq = q.dlq
            /\ r.byHandle = Handles(q.inflight) /\ Flagged(r)
    BY <2>1, RestoredQueue
  <2> QED  BY <1>2, <2>2, Zenon DEF q
<1>4. \A k \in Queues : QShape(v.q[k])
  BY <1>1, <1>3 DEF QShape
<1>5. Shape(v)
  BY <1>2, <1>4 DEF Sound, Shape
<1>6. \A k \in Queues : v.q[k].dlq # k /\ Indexed(v.q[k], v.uuid) /\ Flagged(v.q[k])
  BY <1>2, <1>3 DEF Sound, Indexed
<1>7. \A k \in Queues : Pending(v.q[k]) = Pending(w.q[k]) /\ Out(v.q[k]) = Out(w.q[k])
  BY <1>3 DEF Pending, Out
<1>8. \A m \in 1 .. Len(v.msg) : Held(v, m)
  BY <1>2, <1>7 DEF Sound, Held
<1>9. Sound(v)
  BY <1>5, <1>6, <1>8 DEF Sound
<1> QED
  BY <1>9 DEF v

\* An order of the queues lists queues.
LEMMA QueueOrder ==
  ASSUME NEW s \in SetToSeqs(Queues)
  PROVE  Len(s) \in Nat /\ \A i \in 1 .. Len(s) : s[i] \in Queues
<1>1. Cardinality(Queues) \in Nat
  BY NumbersAssumption, FS_CardinalityType
<1>2. s \in [1 .. Cardinality(Queues) -> Queues]
  BY DEF SetToSeqs
<1>3. s \in Seq(Queues)
  BY <1>1, <1>2
<1> QED
  BY <1>3

\* The drains of a restart, over the queues in the order s.
Drains(w, s, t) == Pass(LAMBDA a, n : Drain(a, n, t), w, s)

\* The drains of a restart as a sequence of drains.
DrainsRun(w, s, t, h) ==
  /\ h[0] = w
  /\ \A i \in 1 .. Len(s) : h[i] = Drain(h[i - 1], s[i], t)
  /\ Drains(w, s, t) = h[Len(s)]

\* The drains of a restart are a run of drains.
LEMMA DrainsPass ==
  ASSUME NEW w, NEW s \in SetToSeqs(Queues), NEW t
  PROVE  \E h : DrainsRun(w, s, t, h)
<1> DEFINE N == Len(s)
           visit(a, n) == Drain(a, n, t)
           h == CHOOSE f : f = [i \in 0 .. N |->
                  IF i = 0 THEN w ELSE visit(f[i - 1], s[i])]
<1>1. Drains(w, s, t) = h[N]
  BY DEF Drains, Pass
<1>2. N \in Nat /\ \A i \in 1 .. N : s[i] \in Queues
  BY QueueOrder
<1> HIDE DEF N, visit, h
<1>3. \E f : f = [i \in 0 .. N |-> IF i = 0 THEN w ELSE visit(f[i - 1], s[i])]
  <2> DEFINE Q(f, k) == /\ f[0] = w
                        /\ \A i \in 1 .. k : f[i] = visit(f[i - 1], s[i])
             T == {k \in 0 .. N : \E f : Q(f, k)}
  <2>1. 0 \in T
    <3>1. Q([i \in 0 .. N |-> w], 0)
      BY <1>2
    <3> HIDE DEF Q
    <3> QED  BY <3>1, <1>2
  <2>2. ASSUME NEW k \in 1 .. N, k - 1 \in T PROVE k \in T
    <3>1. PICK f : Q(f, k - 1)
      BY <2>2
    <3> DEFINE e == [i \in 0 .. N |-> IF i = k THEN visit(f[k - 1], s[k]) ELSE f[i]]
    <3>2. /\ e[0] = w /\ e[k] = visit(f[k - 1], s[k]) /\ e[k - 1] = f[k - 1]
      BY <3>1, <1>2
    <3>3. \A i \in 1 .. k - 1 : e[i] = f[i] /\ e[i - 1] = f[i - 1]
      BY <1>2
    <3> HIDE DEF e
    <3>4. \A i \in 1 .. k : i = k \/ i \in 1 .. k - 1
      BY <1>2
    <3>5. Q(e, k)
      BY <3>1, <3>2, <3>3, <3>4
    <3> HIDE DEF Q
    <3> QED  BY <3>5, <1>2
  <2>3. N \in T
    <3> HIDE DEF T
    <3> QED  BY <1>2, <2>1, <2>2, Upward
  <2>4. PICK f : Q(f, N)
    BY <2>3
  <2> DEFINE e == [i \in 0 .. N |-> f[i]]
  <2>5. e = [i \in 0 .. N |-> IF i = 0 THEN w ELSE visit(e[i - 1], s[i])]
    BY <2>4, <1>2
  <2> HIDE DEF e
  <2> QED  BY <2>5
<1>4. h = [i \in 0 .. N |-> IF i = 0 THEN w ELSE visit(h[i - 1], s[i])]
  BY <1>3 DEF h
<1>5. h[0] = w /\ \A i \in 1 .. N : h[i] = visit(h[i - 1], s[i])
  BY <1>2, <1>4
<1> QED
  BY <1>1, <1>5 DEF N, visit, DrainsRun

\* The drains of a restart keep the invariant.
LEMMA DrainsKeep ==
  ASSUME NEW w, Sound(w), NEW s \in SetToSeqs(Queues), NEW t
  PROVE  Sound(Drains(w, s, t))
<1>0. PICK h : DrainsRun(w, s, t, h)
  BY DrainsPass
<1> DEFINE N == Len(s)
<1>1. /\ h[0] = w
      /\ \A i \in 1 .. N : h[i] = Drain(h[i - 1], s[i], t)
      /\ Drains(w, s, t) = h[N]
  BY <1>0 DEF DrainsRun
<1>2. N \in Nat /\ \A i \in 1 .. N : s[i] \in Queues
  BY QueueOrder
<1> HIDE DEF N
<1>3. Sound(h[N])
  <2> DEFINE T == {i \in 0 .. N : Sound(h[i])}
  <2>1. 0 \in T
    BY <1>1, <1>2
  <2>2. ASSUME NEW i \in 1 .. N, i - 1 \in T PROVE i \in T
    <3> DEFINE a == h[i - 1]
    <3>1. Sound(a) /\ h[i] = Drain(a, s[i], t) /\ s[i] \in Queues
      BY <2>2, <1>1, <1>2
    <3> HIDE DEF a
    <3>2. Sound(Drain(a, s[i], t))
      BY <3>1, DrainKeeps
    <3> QED  BY <3>1, <3>2, <1>2
  <2>3. N \in T
    <3> HIDE DEF T
    <3> QED  BY <1>2, <2>1, <2>2, Upward
  <2> QED  BY <2>3
<1> QED
  BY <1>1, <1>3

\* The inductive invariant: the world as the operations leave it, the clock,
\* and the queue whose policy is being applied.
QueueInv ==
  /\ Sound(World) /\ now \in Nat
  /\ draining # None => draining[1] \in Queues

\* An operation whose result satisfies the invariant leads to a state that
\* does.
LEMMA BecomeKeeps ==
  ASSUME NEW v, Sound(v), Become(v)
  PROVE  Sound(World)'
<1> DEFINE u == [msg |-> v.msg, q |-> v.q, uuid |-> v.uuid, gone |-> v.gone]
<1>1. World' = u
  BY DEF Become, World
<1>2. /\ DOMAIN u = {"msg", "q", "uuid", "gone"}
      /\ u.msg = v.msg /\ u.q = v.q /\ u.uuid = v.uuid /\ u.gone = v.gone
  OBVIOUS
<1> HIDE DEF u
<1>3. Sound(u)
  BY <1>2 DEF Sound, Shape, Held
<1> QED
  BY <1>1, <1>3

\* The world is the state.
LEMMA WorldFields ==
  /\ World.msg = msg /\ World.q = queues /\ World.uuid = uuid /\ World.gone = gone
  BY DEF World

\* A step that writes queue n and the retired messages.
LEMMA RenewKeeps ==
  ASSUME NEW n \in Queues, NEW r, NEW g, Sound(WithQueue(World, n, r, g)),
         msg' = msg, uuid' = uuid, queues' = [queues EXCEPT ![n] = r], gone' = g
  PROVE  Sound(World)'
<1> DEFINE v == WithQueue(World, n, r, g)
<1>1. /\ v.msg = msg /\ v.q = [queues EXCEPT ![n] = r]
      /\ v.uuid = uuid /\ v.gone = g
  BY DEF World, WithQueue
<1>2. Become(v)
  BY <1>1 DEF Become
<1> QED
  BY <1>2, BecomeKeeps

\* The new queues satisfy the invariant.
LEMMA InitInv == Init => QueueInv
<1> SUFFICES ASSUME Init PROVE QueueInv
  OBVIOUS
<1> DEFINE w == World
<1>1. /\ DOMAIN w = {"msg", "q", "uuid", "gone"} /\ w.msg = <<>> /\ w.uuid = 0
      /\ w.q = [n \in Queues |-> NewQueue(n)] /\ w.gone = {}
  BY DEF World, Init
<1> HIDE DEF w
<1>2. ASSUME NEW n \in Queues
      PROVE  LET r == w.q[n]
             IN /\ DOMAIN r = QFields /\ r.messages = <<>> /\ r.inflight = <<>>
                /\ r.byHandle = {} /\ r.dlq \in Queues \cup {None} /\ r.dlq # n
  <2> DEFINE pol == {p \in Created : p[1] = n}
             p == CHOOSE x \in pol : TRUE
             d == IF pol = {} THEN None ELSE p[2]
             c == IF pol = {} THEN 0 ELSE p[3]
             a == -PurgeCooldown
             s == [g \in Groups |-> <<>>]
             r == NewQueue(n)
  <2>1. r = [messages |-> <<>>, inflight |-> <<>>, byHandle |-> {}, dedup |-> {},
             seqCtr |-> 0, delayed |-> 0, active |-> FALSE, attempts |-> {},
             sends |-> s, delay |-> 0, purges |-> 0,
             purgedAt |-> a, maxRC |-> c, dlq |-> d]
    BY DEF NewQueue
  <2>2. d \in Queues \cup {None} /\ d # n
    <3>1. CASE pol = {}
      BY <3>1, SetsAssumption
    <3>2. CASE pol # {}
      <4>1. p \in pol
        BY <3>2
      <4>2. p \in Created /\ p[1] = n
        BY <4>1
      <4> HIDE DEF p
      <4>3. p[2] \in Queues /\ p[1] # p[2]
        BY <4>2, PolicyAssumption
      <4> QED  BY <3>2, <4>2, <4>3
    <3> QED  BY <3>1, <3>2
  <2> HIDE DEF r, d, c, a, s
  <2>3. /\ DOMAIN r = QFields /\ r.messages = <<>> /\ r.inflight = <<>>
        /\ r.byHandle = {} /\ r.dlq = d
    BY <2>1 DEF QFields
  <2>4. w.q[n] = r
    BY <1>1 DEF r
  <2> QED  BY <2>2, <2>3, <2>4, Zenon
<1>3. Handles(<<>>) = {} /\ Distinct(<<>>) /\ <<>> \in Seq(Nat) /\ <<>> \in Seq(Leases)
  BY DEF Handles, Distinct
<1>4. \A n \in Queues : QShape(w.q[n])
  BY <1>2, <1>3 DEF QShape
<1>5. Shape(w)
  <2>1. IsSeq(w.msg)
    BY <1>1, <1>3, Zenon DEF IsSeq
  <2>2. DOMAIN w.q = Queues
    BY <1>1
  <2> QED  BY <1>1, <1>4, <2>1, <2>2 DEF Shape
<1>6. \A n \in Queues : w.q[n].dlq # n /\ Indexed(w.q[n], w.uuid) /\ Flagged(w.q[n])
  BY <1>2, <1>3 DEF Indexed, Flagged
<1>7. \A m \in 1 .. Len(w.msg) : Held(w, m)
  BY <1>1
<1>8. Sound(w)
  BY <1>5, <1>6, <1>7 DEF Sound
<1> QED
  BY <1>8 DEF w, QueueInv, Init

\* Every step keeps the invariant.
LEMMA NextInv == QueueInv /\ [Next]_vars => QueueInv'
<1> SUFFICES ASSUME QueueInv, [Next]_vars PROVE QueueInv'
  OBVIOUS
<1> DEFINE w == World
<1>0. /\ Sound(w) /\ now \in Nat /\ (draining # None => draining[1] \in Queues)
      /\ w.msg = msg /\ w.q = queues /\ w.uuid = uuid /\ w.gone = gone
  BY WorldFields DEF QueueInv
<1>1. /\ DOMAIN queues = Queues
      /\ \A n \in Queues : DOMAIN queues[n] = QFields
  BY <1>0 DEF Sound, Shape, QShape
<1>2. \A t \in Clocks : t \in Int
  BY DEF Clocks
<1>3. \A n \in Queues : {inf.handle : inf \in ToSet(queues[n].inflight)}
                          = Handles(w.q[n].inflight)
  BY <1>0 DEF ToSet, Handles
<1> SUFFICES Sound(World)' /\ now' \in Nat /\ (draining' # None => draining'[1] \in Queues)
  BY DEF QueueInv
<1>4. CASE SendStandard
  <2>1. PICK n \in Sources \ FifoQueues, delay \in Delays, t \in Clocks :
          SendMessage(n, None, None, delay, t)
    BY <1>4 DEF SendStandard
  <2>2. n \in Queues
    BY SetsAssumption
  <2> DEFINE v == SendLocked(w, n, None, None, delay, t)
  <2>3. Become(v) /\ now' = now /\ draining' = draining
    BY <2>1 DEF SendMessage
  <2> HIDE DEF w
  <2>4. Sound(v)
    BY <1>0, <2>2, SendKeeps
  <2> HIDE DEF v
  <2> QED  BY <1>0, <2>3, <2>4, BecomeKeeps
<1>5. CASE SendFIFO
  <2>1. PICK n \in Sources \cap FifoQueues, g \in Groups, d \in DedupIds, t \in Clocks :
          SendMessage(n, g, d, 0, t)
    BY <1>5 DEF SendFIFO
  <2>2. n \in Queues
    BY SetsAssumption
  <2> DEFINE v == SendLocked(w, n, g, d, 0, t)
  <2>3. Become(v) /\ now' = now /\ draining' = draining
    BY <2>1 DEF SendMessage
  <2> HIDE DEF w
  <2>4. Sound(v)
    BY <1>0, <2>2, SendKeeps
  <2> HIDE DEF v
  <2> QED  BY <1>0, <2>3, <2>4, BecomeKeeps
<1>6. CASE Receive
  <2>1. PICK n \in Queues, max \in BatchSizes, vt \in Timeouts,
             att \in AttemptIds \cup {None} : ReceiveMessage(n, max, vt, att)
    BY <1>6 DEF Receive
  <2>2. max \in Nat /\ vt \in Int /\ now \in Int
    BY <1>0, NumbersAssumption
  <2> DEFINE v == ReceiveOnce(w, n, max, vt, att, now)
  <2>3. Become(v) /\ now' = now /\ draining' = draining
    BY <2>1 DEF ReceiveMessage
  <2> HIDE DEF w
  <2>4. Sound(v)
    BY <1>0, <2>2, ReceiveKeeps
  <2> HIDE DEF v
  <2> QED  BY <1>0, <2>3, <2>4, BecomeKeeps
<1>7. CASE Delete
  <2>1. PICK n \in Queues : \E h \in queues[n].byHandle : DeleteMessage(n, h)
    BY <1>7 DEF Delete
  <2>2. PICK h \in queues[n].byHandle : DeleteMessage(n, h)
    BY <2>1
  <2>3. h \in Handles(w.q[n].inflight)
    BY <1>0 DEF Sound, Indexed
  <2> DEFINE g == w.gone \cup {LeasedMsg(w, n, h)}
             v == [DropLease(w, n, h) EXCEPT !.gone = g]
  <2>4. Become(v) /\ now' = now /\ draining' = draining
    <3>1. DropLease(w, n, h).gone = w.gone
      BY <1>0 DEF DropLease, World
    <3>2. [DropLease(w, n, h) EXCEPT !.gone = @ \cup {LeasedMsg(w, n, h)}] = v
      BY <3>1
    <3> QED  BY <2>2, <3>2 DEF DeleteMessage
  <2>5. w.gone \subseteq g /\ LeasedMsg(w, n, h) \in g
    OBVIOUS
  <2> HIDE DEF w, g
  <2>6. Sound(v)
    BY <1>0, <2>3, <2>5, DropLeaseKeeps
  <2> HIDE DEF v
  <2> QED  BY <1>0, <2>4, <2>6, BecomeKeeps
<1>8. CASE ChangeVisibility
  <2>1. PICK n \in Queues, vt \in Timeouts \cup {0} :
          \E h \in {inf.handle : inf \in ToSet(queues[n].inflight)} :
            ChangeMessageVisibility(n, h, vt)
    BY <1>8 DEF ChangeVisibility
  <2>2. PICK h \in Handles(w.q[n].inflight) : ChangeMessageVisibility(n, h, vt)
    BY <2>1, <1>3
  <2>3. vt \in Int /\ now \in Int
    BY <1>0, NumbersAssumption
  <2> DEFINE a == ReturnNow(w, n, h, now)
             b == Extend(w, n, h, vt, now)
             v == IF vt = 0 THEN a ELSE b
  <2>4. Become(v) /\ now' = now /\ draining' = draining
    BY <2>2 DEF ChangeMessageVisibility
  <2> HIDE DEF w
  <2>5. Sound(a) /\ Sound(b)
    BY <1>0, <2>3, ReturnKeeps, ExtendKeeps
  <2> HIDE DEF a, b
  <2>6. Sound(v)
    BY <2>5
  <2> HIDE DEF v
  <2> QED  BY <1>0, <2>4, <2>6, BecomeKeeps
<1>9. CASE \E n \in Queues : PurgeQueue(n)
  <2>1. PICK n \in Queues : PurgeQueue(n)
    BY <1>9
  <2> DEFINE r == queues'[n]
             g == w.gone \cup Pending(w.q[n]) \cup Out(w.q[n])
  <2>2. /\ queues' = [queues EXCEPT ![n] = r]
        /\ DOMAIN r = QFields /\ r.messages = <<>> /\ r.inflight = <<>>
        /\ r.byHandle = {} /\ r.dlq = queues[n].dlq
    BY <1>1, <2>1 DEF PurgeQueue, QFields
  <2>3. gone' = g
    BY <1>0, <2>1 DEF PurgeQueue, Pending, Out, ToSet
  <2>4. msg' = msg /\ uuid' = uuid /\ now' = now /\ draining' = draining
    BY <2>1 DEF PurgeQueue
  <2> HIDE DEF r
  <2>5. Sound(WithQueue(w, n, r, g))
    <3> HIDE DEF w
    <3> QED  BY <1>0, <2>2, PurgeKeeps
  <2> HIDE DEF g
  <2> QED  BY <1>0, <2>2, <2>3, <2>4, <2>5, RenewKeeps
<1>10. CASE \E n \in Sources, delay \in Delays : SetDelay(n, delay)
  <2>1. PICK n \in Sources, delay \in Delays : SetDelay(n, delay)
    BY <1>10
  <2>2. n \in Queues
    BY SetsAssumption
  <2> DEFINE r == [queues[n] EXCEPT !.delay = delay]
  <2>3. /\ queues' = [queues EXCEPT ![n] = r]
        /\ msg' = msg /\ uuid' = uuid /\ now' = now /\ draining' = draining /\ gone' = gone
    BY <2>1 DEF SetDelay
  <2>4. Alike(w.q[n], r)
    BY <1>0, <1>1, <2>2 DEF Alike, QFields, IsActive
  <2> HIDE DEF r
  <2>5. Sound(WithQueue(w, n, r, gone))
    <3> HIDE DEF w
    <3> QED  BY <1>0, <2>2, <2>4, AlikeKeeps
  <2> QED  BY <1>0, <2>2, <2>3, <2>5, RenewKeeps
<1>11. CASE \E p \in Redrives : ApplyRedrivePolicy(p)
  <2>1. PICK p \in Redrives : ApplyRedrivePolicy(p)
    BY <1>11
  <2> DEFINE n == p[1]
             r == [queues[n] EXCEPT !.maxRC = p[3], !.dlq = p[2]]
  <2>2. n \in Queues /\ p[2] \in Queues /\ n # p[2]
    BY PolicyAssumption
  <2>3. /\ queues' = [queues EXCEPT ![n] = r]
        /\ msg' = msg /\ uuid' = uuid /\ now' = now /\ gone' = gone
        /\ draining'[1] = n
    BY <1>1, <2>1, <2>2 DEF ApplyRedrivePolicy, QFields
  <2>4. /\ DOMAIN r = QFields /\ r.messages = w.q[n].messages
        /\ r.inflight = w.q[n].inflight /\ r.byHandle = w.q[n].byHandle
        /\ r.dlq = p[2]
    BY <1>0, <1>1, <2>2 DEF QFields
  <2>5. IsActive(w.q[n]) => IsActive(r)
    BY <1>0, <1>1, <2>2 DEF QFields, IsActive
  <2> HIDE DEF r, n
  <2>6. Sound(WithQueue(w, n, r, gone))
    <3> HIDE DEF w
    <3> QED  BY <1>0, <2>2, <2>4, <2>5, PolicyKeeps
  <2> QED  BY <1>0, <2>2, <2>3, <2>6, RenewKeeps
<1>12. CASE DrainToDLQ
  <2> DEFINE n == draining[1]
             t == draining[2]
             v == Drain(w, n, t)
  <2>1. /\ n \in Queues /\ Become(v) /\ draining' = None /\ now' = now
    BY <1>0, <1>12 DEF DrainToDLQ
  <2> HIDE DEF w, n, t
  <2>2. Sound(v)
    BY <1>0, <2>1, DrainKeeps
  <2> HIDE DEF v
  <2> QED  BY <1>0, <2>1, <2>2, BecomeKeeps
<1>13. CASE \E n \in Queues : RemoveRedrivePolicy(n)
  <2>1. PICK n \in Queues : RemoveRedrivePolicy(n)
    BY <1>13
  <2> DEFINE r == [queues[n] EXCEPT !.maxRC = 0, !.dlq = None]
  <2>2. None # n
    BY SetsAssumption
  <2>3. /\ queues' = [queues EXCEPT ![n] = r]
        /\ msg' = msg /\ uuid' = uuid /\ now' = now /\ gone' = gone
        /\ draining' = draining
    BY <1>1, <2>1 DEF RemoveRedrivePolicy, QFields
  <2>4. /\ DOMAIN r = QFields /\ r.messages = w.q[n].messages
        /\ r.inflight = w.q[n].inflight /\ r.byHandle = w.q[n].byHandle
        /\ r.dlq = None
    BY <1>0, <1>1 DEF QFields
  <2>5. IsActive(w.q[n]) => IsActive(r)
    BY <1>0, <1>1 DEF QFields, IsActive
  <2> HIDE DEF r
  <2>6. Sound(WithQueue(w, n, r, gone))
    <3> HIDE DEF w
    <3> QED  BY <1>0, <2>2, <2>4, <2>5, PolicyKeeps
  <2> QED  BY <1>0, <2>3, <2>6, RenewKeeps
<1>14. CASE \E n \in Queues, t \in Clocks : PruneState(n, t)
  <2>1. PICK n \in Queues, t \in Clocks : PruneState(n, t)
    BY <1>14
  <2> DEFINE y == PruneDedup(w, n, t)
             u == PrepareAndPick(y, n, 0, 0, t).w
             v == [u EXCEPT !.q[n].active = IF Idle(u.q[n]) THEN FALSE ELSE @]
  <2>2. Become(v) /\ now' = now /\ draining' = draining
    BY <2>1 DEF PruneState
  <2> HIDE DEF w
  <2>3. Sound(y)
    BY <1>0, PrunesKeep
  <2> HIDE DEF y
  <2>4. Sound(u)
    BY <1>2, <2>3, PrepareKeeps
  <2> HIDE DEF u
  <2>5. Sound(v)
    BY <2>4, UnflagKeeps
  <2> HIDE DEF v
  <2> QED  BY <1>0, <2>2, <2>5, BecomeKeeps
<1>15. CASE Restart
  <2> DEFINE u == [w EXCEPT !.q = [n \in Queues |-> Restored(w.q[n], now)]]
  <2>1. PICK s \in SetToSeqs(Queues) :
          Become(Drains(u, s, now))
    BY <1>0, <1>15 DEF Restart, Drains
  <2>2. now' = now /\ draining' = draining
    BY <1>15 DEF Restart
  <2> HIDE DEF w
  <2>3. Sound(u)
    BY <1>0, RestoredKeeps
  <2> HIDE DEF u
  <2> DEFINE v == Drains(u, s, now)
  <2>4. Sound(v) /\ Become(v)
    BY <2>1, <2>3, DrainsKeep
  <2> HIDE DEF v
  <2> QED  BY <1>0, <2>2, <2>4, BecomeKeeps
<1>16. CASE Tick
  <2>1. World' = w /\ now' \in Nat /\ draining' = draining
    BY <1>0, <1>16 DEF Tick, World
  <2> QED  BY <1>0, <2>1
<1>17. CASE UNCHANGED vars
  <2>1. World' = w /\ now' = now /\ draining' = draining
    BY <1>17 DEF vars, World
  <2> QED  BY <1>0, <2>1
<1> QED
  BY <1>4, <1>5, <1>6, <1>7, <1>8, <1>9, <1>10, <1>11, <1>12, <1>13, <1>14,
     <1>15, <1>16, <1>17 DEF Next

\* The invariant implies the properties.
LEMMA InvSafe == QueueInv => NoLoss /\ HandleIndex /\ ActivityFlag
<1> SUFFICES ASSUME QueueInv PROVE NoLoss /\ HandleIndex /\ ActivityFlag
  OBVIOUS
<1> DEFINE w == World
<1>0. /\ Sound(w) /\ w.msg = msg /\ w.q = queues /\ w.uuid = uuid /\ w.gone = gone
  BY WorldFields DEF QueueInv
<1> HIDE DEF w
<1>1. NoLoss
  <2> SUFFICES ASSUME NEW m \in DOMAIN msg \ gone PROVE Places(m) # {}
    BY DEF NoLoss
  <2>1. DOMAIN msg = 1 .. Len(msg)
    <3>1. PICK S : msg \in Seq(S)
      BY <1>0 DEF Sound, Shape, IsSeq
    <3> QED  BY <3>1
  <2>2. PICK k \in Queues : m \in Pending(queues[k]) \cup Out(queues[k])
    BY <1>0, <2>1 DEF Sound, Held
  <2>3. CASE m \in Pending(queues[k])
    <3>1. PICK i \in DOMAIN queues[k].messages : queues[k].messages[i] = m
      BY <2>3 DEF Pending
    <3>2. <<k, "pending", i>> \in Places(m)
      BY <3>1 DEF Places
    <3> QED  BY <3>2
  <2>4. CASE m \in Out(queues[k])
    <3>1. PICK i \in DOMAIN queues[k].inflight : queues[k].inflight[i].m = m
      BY <2>4 DEF Out
    <3>2. <<k, "inflight", i>> \in Places(m)
      BY <3>1 DEF Places
    <3> QED  BY <3>2
  <2> QED  BY <2>2, <2>3, <2>4
<1>2. HandleIndex
  BY <1>0 DEF Sound, Indexed, Handles, Distinct, HandleIndex
<1>3. ActivityFlag
  BY <1>0 DEF Sound, Flagged, IsActive, ActivityFlag
<1> QED
  BY <1>1, <1>2, <1>3

\* For every set of queues, policies, groups, timeouts and bounds: an accepted
\* message is pending or in flight until it is deleted, purged or past its
\* retention; the handle index is the in-flight slice; and a queue the janitor
\* skips holds nothing.  Redrive policies that change at any time, the sweep,
\* the two picks of a receive and a restart included.
THEOREM QueueSafe == Spec => [](NoLoss /\ HandleIndex /\ ActivityFlag)
<1>1. Spec => []QueueInv
  BY InitInv, NextInv, PTL DEF Spec
<1> QED
  BY <1>1, InvSafe, PTL

-----------------------------------------------------------------------------
(* Deduplication.                                                          *)

\* What a message keeps for good.
Tags == {"home", "group", "dedup", "epoch", "at", "sent", "boot"}

\* The tags of e are those of f.
SameTags(e, f) ==
  /\ Tags \subseteq DOMAIN e /\ Tags \subseteq DOMAIN f
  /\ f.home = e.home /\ f.group = e.group /\ f.dedup = e.dedup
  /\ f.epoch = e.epoch /\ f.at = e.at /\ f.sent = e.sent /\ f.boot = e.boot

\* What queue p remembers, queue r does too.
SameMemory(p, r) ==
  r.dedup = p.dedup /\ r.purges = p.purges /\ r.sends = p.sends

\* Steps from w to v that send nothing and forget nothing: no deduplication
\* entry, no stamp of the rate limiter.
Calm(w, v) ==
  /\ Shape(v) /\ Len(v.msg) = Len(w.msg)
  /\ \A m \in 1 .. Len(w.msg) : SameTags(w.msg[m], v.msg[m])
  /\ \A k \in Queues : SameMemory(w.q[k], v.q[k])

\* The messages of w have their tags.
Tagged(w) == \A m \in 1 .. Len(w.msg) : Tags \subseteq DOMAIN w.msg[m]

\* Nothing done is calm.
LEMMA CalmSelf ==
  ASSUME NEW w, Shape(w), Tagged(w)
  PROVE  Calm(w, w)
  BY DEF Calm, SameMemory, Tagged, SameTags

\* Calm steps compose.
LEMMA CalmChain ==
  ASSUME NEW w, NEW u, NEW v, Calm(w, u), Calm(u, v)
  PROVE  Calm(w, v)
  BY DEF Calm, SameMemory, SameTags

\* A calm step leaves the messages their tags.
LEMMA CalmTagged ==
  ASSUME NEW w, NEW u, Calm(w, u)
  PROVE  Tagged(u)
  BY DEF Calm, SameMemory, SameTags, Tagged

\* A message written, its tags kept.
LEMMA TagsWrite ==
  ASSUME NEW s, IsSeq(s), \A i \in 1 .. Len(s) : Tags \subseteq DOMAIN s[i],
         NEW m, NEW e, m \in 1 .. Len(s) => SameTags(s[m], e)
  PROVE  \A i \in 1 .. Len(s) : SameTags(s[i], [s EXCEPT ![m] = e][i])
<1>1. PICK S : s \in Seq(S)
  BY DEF IsSeq
<1>2. DOMAIN s = 1 .. Len(s)
  BY <1>1
<1>3. ASSUME NEW i \in 1 .. Len(s) PROVE SameTags(s[i], [s EXCEPT ![m] = e][i])
  <2>1. CASE i = m
    BY <1>2, <2>1
  <2>2. CASE i # m
    <3>1. [s EXCEPT ![m] = e][i] = s[i]
      BY <1>2, <2>2
    <3> QED  BY <3>1 DEF SameTags
  <2> QED  BY <2>1, <2>2
<1> QED
  BY <1>3

\* Dead-letter routing is calm: routeToDLQ copies neither the tags nor the
\* deduplication entries of a message.
LEMMA RouteCalm ==
  ASSUME NEW w, Shape(w), Tagged(w), NEW n \in Queues, w.q[n].dlq # None,
         NEW m \in Nat, NEW t
  PROVE  Calm(w, Route(w, n, m, t))
<1> DEFINE d == w.q[n].dlq
           v == Route(w, n, m, t)
           e == [w.msg[m] EXCEPT !.handle = 0]
<1>1. Frame(w, v) /\ d \in Queues /\ \A k \in Queues : k # d => v.q[k] = w.q[k]
  BY RouteEffect
<1>2. /\ DOMAIN w = {"msg", "q", "uuid", "gone"} /\ DOMAIN w.q = Queues
      /\ DOMAIN w.q[d] = QFields /\ IsSeq(w.msg)
  BY <1>1 DEF Shape, QShape
<1>3. v.msg = [w.msg EXCEPT ![m] = e]
  BY <1>1, <1>2 DEF Route
<1>4. SameMemory(w.q[d], v.q[d])
  <2> DEFINE late == IF t < w.msg[m].visibleAt THEN 1 ELSE 0
             x == Append(w.q[d].messages, m)
             y == w.q[d].delayed + late
  <2>1. v.q[d] = [w.q[d] EXCEPT !.messages = x, !.delayed = y, !.active = TRUE]
    BY <1>1, <1>2 DEF Route
  <2> HIDE DEF v, d, x, y
  <2> QED  BY <1>2, <2>1 DEF QFields, SameMemory
<1>5. m \in 1 .. Len(w.msg) => SameTags(w.msg[m], e)
  BY DEF Tagged, Tags, SameTags
<1> HIDE DEF v, d, e
<1>6. \A i \in 1 .. Len(w.msg) : SameTags(w.msg[i], v.msg[i])
  <2> DEFINE s == w.msg
  <2>1. IsSeq(s) /\ \A i \in 1 .. Len(s) : Tags \subseteq DOMAIN s[i]
    BY <1>2 DEF Tagged
  <2>2. m \in 1 .. Len(s) => SameTags(s[m], e)
    BY <1>5
  <2> HIDE DEF s
  <2>3. \A i \in 1 .. Len(s) : SameTags(s[i], [s EXCEPT ![m] = e][i])
    BY <2>1, <2>2, TagsWrite, Zenon
  <2> QED  BY <1>3, <2>3 DEF s
<1>7. Calm(w, v)
  BY <1>1, <1>4, <1>6 DEF Calm, SameMemory, Frame
<1> QED
  BY <1>7 DEF v

\* A new pending slice is calm.
LEMMA MessagesCalm ==
  ASSUME NEW w, Shape(w), Tagged(w), NEW n \in Queues, NEW s,
         NEW v, v = WithMessages(w, n, s), Shape(v)
  PROVE  Calm(w, v)
<1>1. /\ DOMAIN w = {"msg", "q", "uuid", "gone"} /\ DOMAIN w.q = Queues
      /\ DOMAIN w.q[n] = QFields
  BY DEF Shape, QShape
<1>2. SameMemory(w.q[n], v.q[n])
  BY <1>1 DEF WithMessages, QFields, SameMemory
<1>3. v.msg = w.msg /\ \A k \in Queues : k # n => v.q[k] = w.q[k]
  BY <1>1 DEF WithMessages
<1> QED
  BY <1>2, <1>3 DEF Calm, SameMemory, Tagged, SameTags

\* A new in-flight slice is calm.
LEMMA InflightCalm ==
  ASSUME NEW w, Shape(w), Tagged(w), NEW n \in Queues, NEW s,
         NEW v, v = WithInflight(w, n, s), Shape(v)
  PROVE  Calm(w, v)
<1>1. /\ DOMAIN w = {"msg", "q", "uuid", "gone"} /\ DOMAIN w.q = Queues
      /\ DOMAIN w.q[n] = QFields
  BY DEF Shape, QShape
<1>2. SameMemory(w.q[n], v.q[n])
  BY <1>1 DEF WithInflight, QFields, SameMemory
<1>3. v.msg = w.msg /\ \A k \in Queues : k # n => v.q[k] = w.q[k]
  BY <1>1 DEF WithInflight
<1> QED
  BY <1>2, <1>3 DEF Calm, SameMemory, Tagged, SameTags

\* Requeueing is calm.
LEMMA RequeueCalm ==
  ASSUME NEW w, Shape(w), Tagged(w), NEW n \in Queues, NEW m \in Nat
  PROVE  Calm(w, Requeue(w, n, m))
<1> DEFINE v == Requeue(w, n, m)
           s == w.q[n].messages
           x == IF IsFIFO(n) THEN InsertAt(s, SearchSeq(w, s, w.msg[m].seq) + 1, m)
                ELSE Append(s, m)
<1>1. v = WithMessages(w, n, x)
  BY DEF Requeue, WithMessages
<1>2. Shape(v)
  BY RequeueEffect DEF Frame
<1> HIDE DEF v, x
<1>3. Calm(w, v)
  BY <1>1, <1>2, MessagesCalm
<1> QED
  BY <1>3 DEF v

\* A message given back, to the DLQ or to its queue: calm.
LEMMA RouteOrRequeueCalm ==
  ASSUME NEW w, Shape(w), Tagged(w), NEW n \in Queues, NEW m \in Nat, NEW t
  PROVE  Calm(w, RouteOrRequeue(w, n, m, t))
<1>1. CASE ShouldRoute(w, n, m)
  <2>1. w.q[n].dlq # None /\ RouteOrRequeue(w, n, m, t) = Route(w, n, m, t)
    BY <1>1 DEF ShouldRoute, RouteOrRequeue
  <2>2. Calm(w, Route(w, n, m, t))
    BY <2>1, RouteCalm
  <2> QED  BY <2>1, <2>2
<1>2. CASE ~ShouldRoute(w, n, m)
  <2>1. RouteOrRequeue(w, n, m, t) = Requeue(w, n, m)
    BY <1>2 DEF RouteOrRequeue
  <2>2. Calm(w, Requeue(w, n, m))
    BY RequeueCalm
  <2> QED  BY <2>1, <2>2
<1> QED
  BY <1>1, <1>2

\* A lease is calm.
LEMMA LeaseCalm ==
  ASSUME NEW w, Shape(w), Tagged(w), NEW n \in Queues, NEW m \in Nat,
         NEW vt \in Int, NEW t \in Int, NEW batch \in Nat
  PROVE  Calm(w, Lease(w, n, m, vt, t, batch))
<1> DEFINE v == Lease(w, n, m, vt, t, batch)
           h == w.uuid + 1
           e == [w.msg[m] EXCEPT !.handle = h, !.rc = @ + 1]
<1>1. Leased(w, v, n, m)
  BY LeaseEffect
<1>2. /\ DOMAIN w = {"msg", "q", "uuid", "gone"} /\ DOMAIN w.q = Queues
      /\ DOMAIN w.q[n] = QFields /\ IsSeq(w.msg)
  BY DEF Shape, QShape
<1>3. \A i \in 1 .. Len(w.msg) : v.msg[i] = IF i = m THEN e ELSE w.msg[i]
  <2>1. PICK S : w.msg \in Seq(S)
    BY <1>2 DEF IsSeq
  <2>2. DOMAIN w.msg = 1 .. Len(w.msg)
    BY <2>1
  <2> QED  BY <1>2, <2>2 DEF Lease
<1>4. SameMemory(w.q[n], v.q[n])
  BY <1>2 DEF Lease, QFields, SameMemory
<1>5. m \in 1 .. Len(w.msg) => SameTags(w.msg[m], e)
  BY DEF Tagged, Tags, SameTags
<1> HIDE DEF v, e
<1>6. \A i \in 1 .. Len(w.msg) : SameTags(w.msg[i], v.msg[i])
  BY <1>3, <1>5 DEF Tagged, SameTags
<1>7. Calm(w, v)
  BY <1>1, <1>4, <1>6 DEF Calm, SameMemory, Leased
<1> QED
  BY <1>7 DEF v

\* A handle dropped from the index and a message retired: calm.
LEMMA UnindexCalm ==
  ASSUME NEW w, Shape(w), Tagged(w), NEW n \in Queues, NEW h, NEW m
  PROVE  Calm(w, Unindex(w, n, h)) /\ Calm(w, Retire(w, m))
<1> DEFINE v == Unindex(w, n, h)
           u == Retire(w, m)
<1>1. /\ DOMAIN w = {"msg", "q", "uuid", "gone"} /\ DOMAIN w.q = Queues
      /\ DOMAIN w.q[n] = QFields
  BY DEF Shape, QShape
<1>2. Shape(v)
  BY UnindexEffect
<1>3. /\ v.msg = w.msg /\ \A k \in Queues : k # n => v.q[k] = w.q[k]
      /\ SameMemory(w.q[n], v.q[n])
  BY <1>1 DEF Unindex, QFields, SameMemory
<1>4. Shape(u) /\ u.msg = w.msg /\ u.q = w.q
  BY RetireEffect
<1> HIDE DEF v, u
<1>5. Calm(w, v)
  BY <1>2, <1>3 DEF Calm, SameMemory, Tagged, SameTags
<1>6. Calm(w, u)
  BY <1>4 DEF Calm, SameMemory, Tagged, SameTags
<1> QED
  BY <1>5, <1>6 DEF v, u

-----------------------------------------------------------------------------
\* A pass in the middle: its world is calm.
CalmAt(w, a) == {"w", "kept"} \subseteq DOMAIN a /\ Calm(w, a.w)

\* One message of the drain is calm.
LEMMA DrainOneCalm ==
  ASSUME NEW w, NEW a, CalmAt(w, a), NEW n \in Queues, NEW m \in Nat, NEW t
  PROVE  CalmAt(w, DrainOne(a, m, n, t))
<1> DEFINE b == DrainOne(a, m, n, t)
           u == a.w
           v == Route(u, n, m, t)
<1>1. {"w", "kept"} \subseteq DOMAIN a /\ Calm(w, u) /\ Shape(u) /\ Tagged(u)
  BY CalmTagged DEF CalmAt, Calm
<1>2. CASE ShouldRoute(u, n, m)
  <2>1. {"w", "kept"} \subseteq DOMAIN b /\ b.w = v
    BY <1>1, <1>2 DEF DrainOne
  <2>2. u.q[n].dlq # None
    BY <1>2 DEF ShouldRoute
  <2> HIDE DEF b, u
  <2>3. Calm(u, v)
    BY <1>1, <2>2, RouteCalm
  <2>4. Calm(w, v)
    BY <1>1, <2>3, CalmChain
  <2> QED  BY <2>1, <2>4 DEF CalmAt, b
<1>3. CASE ~ShouldRoute(u, n, m)
  <2>1. {"w", "kept"} \subseteq DOMAIN b /\ b.w = u
    BY <1>1, <1>3 DEF DrainOne
  <2> QED  BY <1>1, <2>1 DEF CalmAt
<1> QED
  BY <1>2, <1>3

\* The drain to the DLQ is calm.
LEMMA DrainCalm ==
  ASSUME NEW w, Sound(w), Tagged(w), NEW n \in Queues, NEW t
  PROVE  Calm(w, Drain(w, n, t))
<1> DEFINE s == w.q[n].messages
           N == Len(s)
           v == Drain(w, n, t)
<1>1. s \in Seq(Nat) /\ N \in Nat /\ Shape(w)
  BY DEF Sound, Shape, QShape
<1>a. PICK f : DrainRun(w, n, t, f)
  BY <1>1, DrainPass
<1>2. /\ f[0] = [w |-> w, kept |-> <<>>]
      /\ \A i \in 1 .. N : f[i] = DrainOne(f[i - 1], s[i], n, t)
      /\ v = WithMessages(f[N].w, n, f[N].kept)
  BY <1>a DEF DrainRun
<1>3. Shape(v)
  BY DrainKeeps DEF Sound
<1> HIDE DEF v
<1>4. CalmAt(w, f[0])
  BY <1>1, <1>2, CalmSelf DEF CalmAt
<1>5. CalmAt(w, f[N])
  <2> DEFINE T == {i \in 0 .. N : CalmAt(w, f[i])}
  <2>1. 0 \in T
    BY <1>1, <1>4
  <2>2. ASSUME NEW i \in 1 .. N, i - 1 \in T PROVE i \in T
    <3> DEFINE a == f[i - 1]
               m == s[i]
    <3>1. CalmAt(w, a) /\ f[i] = DrainOne(a, m, n, t) /\ m \in Nat
      BY <1>1, <1>2, <2>2, SMTT(30)
    <3> HIDE DEF a, m
    <3>2. CalmAt(w, DrainOne(a, m, n, t))
      BY <3>1, DrainOneCalm
    <3> QED  BY <3>1, <3>2, <1>1
  <2> HIDE DEF T
  <2>3. N \in T
    BY <1>1, <2>1, <2>2, Upward
  <2> QED  BY <2>3 DEF T
<1> DEFINE u == f[N].w
           c == f[N].kept
<1>6. v = WithMessages(u, n, c) /\ Calm(w, u) /\ Shape(u) /\ Tagged(u)
  BY <1>2, <1>5, CalmTagged DEF CalmAt, Calm
<1> HIDE DEF u, c
<1>7. Calm(u, v)
  BY <1>3, <1>6, MessagesCalm
<1>8. Calm(w, v)
  BY <1>6, <1>7, CalmChain
<1> QED
  BY <1>8 DEF v

\* One lease of the sweep is calm.
LEMMA SweepOneCalm ==
  ASSUME NEW w, NEW a, CalmAt(w, a), NEW n \in Queues, NEW x \in Leases, NEW t
  PROVE  CalmAt(w, SweepOne(a, x, n, t))
<1> DEFINE b == SweepOne(a, x, n, t)
           u == a.w
           y == Unindex(u, n, x.handle)
           v == Retire(y, x.m)
           z == RouteOrRequeue(y, n, x.m, t)
<1>1. {"w", "kept"} \subseteq DOMAIN a /\ Calm(w, u) /\ Shape(u) /\ Tagged(u)
  BY CalmTagged DEF CalmAt, Calm
<1>2. x.m \in Nat
  BY DEF Leases
<1>3. \/ {"w", "kept"} \subseteq DOMAIN b /\ b.w = v
      \/ {"w", "kept"} \subseteq DOMAIN b /\ b.w = z
      \/ {"w", "kept"} \subseteq DOMAIN b /\ b.w = u
  <2>1. CASE Expired(u, x.m, t)
    <3>1. b = [a EXCEPT !.w.q[n].byHandle = @ \ {x.handle},
                        !.w.gone = @ \cup {x.m}]
      BY <2>1 DEF SweepOne
    <3>2. v = [u EXCEPT !.q[n].byHandle = @ \ {x.handle}, !.gone = @ \cup {x.m}]
      BY <1>1 DEF Unindex, Retire, Shape
    <3> QED  BY <3>1, <3>2, <1>1 DEF Shape
  <2>2. CASE ~Expired(u, x.m, t) /\ LeaseOver(x, t)
    <3>1. b = [a EXCEPT !.w = z]
      BY <2>2 DEF SweepOne, Unindex
    <3> HIDE DEF z, b
    <3> QED  BY <3>1, <1>1
  <2>3. CASE ~Expired(u, x.m, t) /\ ~LeaseOver(x, t)
    <3>1. b = [a EXCEPT !.kept = Append(@, x)]
      BY <2>3 DEF SweepOne
    <3> QED  BY <3>1, <1>1
  <2> QED  BY <2>1, <2>2, <2>3
<1> HIDE DEF u, b
<1>4. Calm(u, y)
  BY <1>1, UnindexCalm
<1>5. Shape(y) /\ Tagged(y)
  BY <1>4, CalmTagged DEF Calm
<1> HIDE DEF y
<1>6. Calm(y, v)
  BY <1>5, UnindexCalm
<1>7. Calm(y, z)
  BY <1>2, <1>5, RouteOrRequeueCalm
<1> HIDE DEF v, z
<1>8. Calm(w, v) /\ Calm(w, z)
  BY <1>1, <1>4, <1>6, <1>7, CalmChain
<1> QED
  BY <1>1, <1>3, <1>8 DEF CalmAt, b

\* sweepInFlight is calm.
LEMMA SweepCalm ==
  ASSUME NEW w, Sound(w), Tagged(w), NEW n \in Queues, NEW t
  PROVE  Calm(w, Sweep(w, n, t))
<1> DEFINE s == w.q[n].inflight
           N == Len(s)
           v == Sweep(w, n, t)
<1>1. s \in Seq(Leases) /\ N \in Nat /\ Shape(w)
  BY DEF Sound, Shape, QShape
<1>a. PICK f : SweepRun(w, n, t, f)
  BY <1>1, SweepPass
<1>2. /\ f[0] = [w |-> w, kept |-> <<>>]
      /\ \A i \in 1 .. N : f[i] = SweepOne(f[i - 1], s[i], n, t)
      /\ v = WithInflight(f[N].w, n, f[N].kept)
  BY <1>a DEF SweepRun
<1>3. Shape(v)
  BY SweepKeeps DEF Sound
<1> HIDE DEF v
<1>4. CalmAt(w, f[0])
  BY <1>1, <1>2, CalmSelf DEF CalmAt
<1>5. CalmAt(w, f[N])
  <2> DEFINE T == {i \in 0 .. N : CalmAt(w, f[i])}
  <2>1. 0 \in T
    BY <1>1, <1>4
  <2>2. ASSUME NEW i \in 1 .. N, i - 1 \in T PROVE i \in T
    <3> DEFINE a == f[i - 1]
               x == s[i]
    <3>1. CalmAt(w, a) /\ f[i] = SweepOne(a, x, n, t) /\ x \in Leases
      BY <1>1, <1>2, <2>2
    <3> HIDE DEF a, x
    <3>2. CalmAt(w, SweepOne(a, x, n, t))
      BY <3>1, SweepOneCalm
    <3> QED  BY <3>1, <3>2, <1>1
  <2> HIDE DEF T
  <2>3. N \in T
    BY <1>1, <2>1, <2>2, Upward
  <2> QED  BY <2>3 DEF T
<1> DEFINE u == f[N].w
           c == f[N].kept
<1>6. v = WithInflight(u, n, c) /\ Calm(w, u) /\ Shape(u) /\ Tagged(u)
  BY <1>2, <1>5, CalmTagged DEF CalmAt, Calm
<1> HIDE DEF u, c
<1>7. Calm(u, v)
  BY <1>3, <1>6, InflightCalm
<1>8. Calm(w, v)
  BY <1>6, <1>7, CalmChain
<1> QED
  BY <1>8 DEF v

\* One message of the slow pick is calm.
LEMMA PickOneCalm ==
  ASSUME NEW w, NEW a, CalmAt(w, a), {"picked", "blocked"} \subseteq DOMAIN a,
         NEW n \in Queues, NEW m \in Nat, NEW max, NEW vt \in Int, NEW t \in Int,
         NEW batch \in Nat
  PROVE  LET b == PickOne(a, m, n, max, vt, t, batch)
         IN CalmAt(w, b) /\ {"picked", "blocked"} \subseteq DOMAIN b
<1> DEFINE b == PickOne(a, m, n, max, vt, t, batch)
           F == {"w", "kept", "picked", "blocked"}
           u == a.w
           y == Retire(u, m)
           z == Route(u, n, m, t)
           v == Lease(u, n, m, vt, t, batch)
<1>1. F \subseteq DOMAIN a /\ Calm(w, u) /\ Shape(u) /\ Tagged(u)
  BY CalmTagged DEF CalmAt, Calm
<1>2. \/ F \subseteq DOMAIN b /\ b.w = y
      \/ F \subseteq DOMAIN b /\ b.w = z /\ u.q[n].dlq # None
      \/ F \subseteq DOMAIN b /\ b.w = v
      \/ F \subseteq DOMAIN b /\ b.w = u
  <2>1. CASE Expired(u, m, t)
    <3>1. b = [a EXCEPT !.w.gone = @ \cup {m}]
      BY <2>1 DEF PickOne
    <3> QED  BY <3>1, <1>1 DEF Retire, Shape
  <2>2. CASE ~Expired(u, m, t) /\ ShouldRoute(u, n, m)
    <3>1. b = [a EXCEPT !.w = z] /\ u.q[n].dlq # None
      BY <2>2 DEF PickOne, ShouldRoute
    <3> HIDE DEF z, b
    <3> QED  BY <3>1, <1>1
  <2>3. CASE /\ ~Expired(u, m, t) /\ ~ShouldRoute(u, n, m)
             /\ ~Blocked(u, n, m, a.blocked)
             /\ Len(a.picked) < max /\ t >= u.msg[m].visibleAt
    <3>1. b = [a EXCEPT !.w = v, !.picked = Append(@, m),
                        !.blocked = @ \cup ({u.msg[m].group} \ {None})]
      BY <2>3 DEF PickOne
    <3> HIDE DEF v, b
    <3> QED  BY <3>1, <1>1
  <2>4. CASE /\ ~Expired(u, m, t) /\ ~ShouldRoute(u, n, m)
             /\ ~(/\ ~Blocked(u, n, m, a.blocked)
                  /\ Len(a.picked) < max /\ t >= u.msg[m].visibleAt)
    <3>1. b = [a EXCEPT !.kept = Append(@, m)]
      BY <2>4 DEF PickOne
    <3> QED  BY <3>1, <1>1
  <2> QED  BY <2>1, <2>2, <2>3, <2>4
<1> HIDE DEF u, b
<1>3. Calm(u, y)
  BY <1>1, UnindexCalm
<1>4. u.q[n].dlq # None => Calm(u, z)
  BY <1>1, RouteCalm
<1>5. Calm(u, v)
  BY <1>1, LeaseCalm
<1> HIDE DEF y, z, v
<1>6. Calm(w, y) /\ Calm(w, v) /\ (u.q[n].dlq # None => Calm(w, z))
  BY <1>1, <1>3, <1>4, <1>5, CalmChain
<1> QED
  BY <1>1, <1>2, <1>6 DEF CalmAt, b

\* pickVisibleMessages is calm.
LEMMA SlowCalm ==
  ASSUME NEW w, Sound(w), Tagged(w), NEW n \in Queues, NEW max, NEW vt \in Int,
         NEW t \in Int, NEW blocked
  PROVE  Calm(w, SlowPick(w, n, max, vt, t, blocked).w)
<1> DEFINE s == w.q[n].messages
           N == Len(s)
           v == SlowPick(w, n, max, vt, t, blocked).w
           B == {"picked", "blocked"}
<1>1. s \in Seq(Nat) /\ N \in Nat /\ Shape(w) /\ w.uuid \in Nat
  BY DEF Sound, Shape, QShape
<1>2. PICK f : SlowRun(w, n, max, vt, t, blocked, f)
  BY <1>1, SlowPass
<1>b. /\ f[0] = [w |-> w, kept |-> <<>>, picked |-> <<>>, blocked |-> blocked]
      /\ \A i \in 1 .. N : f[i] = PickOne(f[i - 1], s[i], n, max, vt, t, w.uuid)
      /\ v = WithMessages(f[N].w, n, f[N].kept)
  BY <1>2 DEF SlowRun
<1>3. Shape(v)
  BY SlowKeeps DEF Sound
<1> HIDE DEF v
<1>4. CalmAt(w, f[0]) /\ B \subseteq DOMAIN f[0]
  BY <1>1, <1>b, CalmSelf DEF CalmAt
<1>5. CalmAt(w, f[N])
  <2> DEFINE T == {i \in 0 .. N : CalmAt(w, f[i]) /\ B \subseteq DOMAIN f[i]}
  <2>1. 0 \in T
    BY <1>1, <1>4
  <2>2. ASSUME NEW i \in 1 .. N, i - 1 \in T PROVE i \in T
    <3> DEFINE a == f[i - 1]
               m == s[i]
               batch == w.uuid
               b == PickOne(a, m, n, max, vt, t, batch)
    <3>a. m \in Nat /\ batch \in Nat
      BY <1>1, SMTT(30)
    <3>b. CalmAt(w, a) /\ B \subseteq DOMAIN a
      BY <2>2
    <3>1. CalmAt(w, a) /\ B \subseteq DOMAIN a /\ f[i] = b /\ m \in Nat /\ batch \in Nat
      BY <1>b, <3>a, <3>b, Zenon
    <3> HIDE DEF a, m, batch
    <3>2. CalmAt(w, b) /\ B \subseteq DOMAIN b
      BY <3>1, PickOneCalm
    <3> HIDE DEF b
    <3> QED  BY <3>1, <3>2, <1>1
  <2> HIDE DEF T
  <2>3. N \in T
    BY <1>1, <2>1, <2>2, Upward
  <2> QED  BY <2>3 DEF T
<1> DEFINE u == f[N].w
           c == f[N].kept
<1>6. v = WithMessages(u, n, c) /\ Calm(w, u) /\ Shape(u) /\ Tagged(u)
  BY <1>b, <1>5, CalmTagged DEF CalmAt, Calm
<1> HIDE DEF u, c
<1>7. Calm(u, v)
  BY <1>3, <1>6, MessagesCalm
<1>8. Calm(w, v)
  BY <1>6, <1>7, CalmChain
<1> QED
  BY <1>8 DEF v

\* tryFastPickMessages is calm.
LEMMA FastCalm ==
  ASSUME NEW w, Sound(w), Tagged(w), NEW n \in Queues, NEW max \in Nat,
         NEW vt \in Int, NEW t \in Int, NEW blocked
  PROVE  Calm(w, FastPick(w, n, max, vt, t, blocked).w)
<1> DEFINE s == w.q[n].messages
           v == FastPick(w, n, max, vt, t, blocked).w
<1>1. s \in Seq(Nat) /\ Len(s) \in Nat /\ Shape(w) /\ w.uuid \in Nat
  BY DEF Sound, Shape, QShape
<1>2. \/ \E k \in 1 .. Len(s) :
           v = WithMessages(FastLeased(w, n, k, vt, t), n, SubSeq(s, k + 1, Len(s)))
      \/ \E i \in 1 .. Len(s) : w.q[n].dlq # None /\ v = Route(w, n, s[i], t)
      \/ v = w
  <2> DEFINE r == FastPick(w, n, max, vt, t, blocked)
  <2>1. FastOutcome(w, n, max, vt, t, blocked, r) /\ v = r.w
    BY <1>1, FastCases
  <2> HIDE DEF v, r
  <2> QED  BY <2>1, Zenon DEF FastOutcome, ShouldRoute
<1>3. Shape(v)
  BY FastKeeps DEF Sound
<1> HIDE DEF v
<1>4. ASSUME NEW k \in 1 .. Len(s),
             v = WithMessages(FastLeased(w, n, k, vt, t), n, SubSeq(s, k + 1, Len(s)))
      PROVE  Calm(w, v)
  <2> DEFINE u == FastLeased(w, n, k, vt, t)
  <2>0. k \in Nat /\ k <= Len(s)
    BY <1>1
  <2>1. PICK f : FastRun(w, n, k, vt, t, f) /\ u = f[k]
    <3>1. w.q[n].messages \in Seq(Nat) /\ k <= Len(w.q[n].messages) /\ k \in Nat
      BY <1>1, <2>0
    <3> HIDE DEF s
    <3> QED  BY <3>1, FastPass
  <2>2. /\ f[0] = w
        /\ \A i \in 1 .. k : f[i] = Lease(f[i - 1], n, s[i], vt, t, w.uuid)
    BY <2>1 DEF FastRun
  <2>3. Calm(w, f[k])
    <3> DEFINE T == {i \in 0 .. k : Calm(w, f[i])}
    <3>1. 0 \in T
      BY <1>1, <2>0, <2>2, CalmSelf
    <3>2. ASSUME NEW i \in 1 .. k, i - 1 \in T PROVE i \in T
      <4> DEFINE a == f[i - 1]
                 m == s[i]
                 batch == w.uuid
                 b == Lease(a, n, m, vt, t, batch)
      <4>a. m \in Nat /\ batch \in Nat
        <5>1. i \in 1 .. Len(s)
          BY <1>1, <2>0
        <5> QED  BY <1>1, <5>1, SMTT(30)
      <4>b. Calm(w, a)
        BY <3>2
      <4>1. Calm(w, a) /\ f[i] = b /\ m \in Nat /\ batch \in Nat
        BY <2>2, <4>a, <4>b, Zenon
      <4>2. Shape(a) /\ Tagged(a)
        BY <4>1, CalmTagged DEF Calm
      <4> HIDE DEF a, m, batch
      <4>3. Calm(a, b)
        BY <4>1, <4>2, LeaseCalm
      <4> HIDE DEF b
      <4> QED  BY <4>1, <4>3, CalmChain, <2>0
    <3> HIDE DEF T
    <3>3. k \in T
      BY <2>0, <3>1, <3>2, Upward
    <3> QED  BY <3>3 DEF T
  <2> HIDE DEF u
  <2>4. Calm(w, u) /\ Shape(u) /\ Tagged(u)
    <3>1. Calm(w, u)
      BY <2>1, <2>3, Zenon
    <3> QED  BY <3>1, CalmTagged DEF Calm
  <2>5. Calm(u, v)
    <3> DEFINE r == SubSeq(s, k + 1, Len(s))
    <3>1. v = WithMessages(u, n, r)
      BY <1>4 DEF u
    <3> HIDE DEF r
    <3> QED  BY <1>3, <2>4, <3>1, MessagesCalm
  <2> QED  BY <2>4, <2>5, CalmChain
<1>5. ASSUME NEW i \in 1 .. Len(s), w.q[n].dlq # None, v = Route(w, n, s[i], t)
      PROVE  Calm(w, v)
  <2> DEFINE m == s[i]
  <2>1. m \in Nat
    BY <1>1, SMTT(30)
  <2> HIDE DEF m
  <2>2. Calm(w, Route(w, n, m, t))
    BY <1>1, <1>5, <2>1, RouteCalm
  <2> QED  BY <1>5, <2>2 DEF m
<1>6. ASSUME v = w PROVE Calm(w, v)
  <2>1. Calm(w, w)
    BY <1>1, CalmSelf
  <2> QED  BY <1>6, <2>1, Zenon
<1>7. Calm(w, v)
  BY <1>2, <1>4, <1>5, <1>6, Zenon
<1> QED
  BY <1>7 DEF v

\* Steps that write neither the heap nor what a queue remembers.
LEMMA CalmFields ==
  ASSUME NEW w, Tagged(w), NEW v, Shape(v), v.msg = w.msg,
         \A k \in Queues : SameMemory(w.q[k], v.q[k])
  PROVE  Calm(w, v)
  BY DEF Calm, SameMemory, Tagged, SameTags

\* The attempt cache of queue n.
LEMMA FieldCalm ==
  ASSUME NEW w, Sound(w), Tagged(w), NEW n \in Queues, NEW x
  PROVE  Calm(w, [w EXCEPT !.q[n].attempts = x])
<1>1. /\ DOMAIN w = {"msg", "q", "uuid", "gone"} /\ DOMAIN w.q = Queues
      /\ DOMAIN w.q[n] = QFields
  BY DEF Sound, Shape, QShape
<1> DEFINE v == [w EXCEPT !.q[n].attempts = x]
<1>2. Shape(v)
  BY FieldKeeps, Zenon DEF Sound
<1>3. /\ v.msg = w.msg
      /\ \A k \in Queues : SameMemory(w.q[k], v.q[k])
  BY <1>1 DEF QFields, SameMemory
<1> HIDE DEF v
<1>4. Calm(w, v)
  BY <1>2, <1>3, CalmFields
<1> QED
  BY <1>4 DEF v

\* Pruning the receive attempts is calm.
LEMMA AttemptsCalm ==
  ASSUME NEW w, Sound(w), Tagged(w), NEW n \in Queues, NEW t
  PROVE  Calm(w, PruneAttempts(w, n, t))
<1> DEFINE p == {e \in w.q[n].attempts : t < e.exp}
<1>1. \/ PruneAttempts(w, n, t) = w
      \/ PruneAttempts(w, n, t) = [w EXCEPT !.q[n].attempts = p]
  BY Zenon DEF PruneAttempts
<1> HIDE DEF p
<1>2. Calm(w, [w EXCEPT !.q[n].attempts = p])
  BY FieldCalm, Zenon
<1>3. Calm(w, w)
  BY CalmSelf DEF Sound
<1> QED
  BY <1>1, <1>2, <1>3, Zenon

\* The recount of the delayed messages is calm.
LEMMA RecountCalm ==
  ASSUME NEW w, Sound(w), Tagged(w), NEW n \in Queues, NEW t
  PROVE  Calm(w, RecountDelayed(w, n, t))
<1> DEFINE x == Cardinality({i \in DOMAIN w.q[n].messages :
                               t < w.msg[w.q[n].messages[i]].visibleAt})
           v == RecountDelayed(w, n, t)
<1>1. /\ DOMAIN w = {"msg", "q", "uuid", "gone"} /\ DOMAIN w.q = Queues
      /\ DOMAIN w.q[n] = QFields
  BY DEF Sound, Shape, QShape
<1>2. v = w \/ v = [w EXCEPT !.q[n].delayed = x]
  BY DEF RecountDelayed
<1>3. Shape(v)
  BY RecountKeeps DEF Sound
<1> HIDE DEF v, x
<1>4. /\ v.msg = w.msg
      /\ \A k \in Queues : SameMemory(w.q[k], v.q[k])
  BY <1>1, <1>2 DEF QFields, SameMemory
<1>5. Calm(w, v)
  BY <1>3, <1>4, CalmFields
<1> QED
  BY <1>5 DEF v

\* prepareAndPickMessages is calm: no receive and no tick of the janitor
\* touches a deduplication entry outside pruneDedup.
LEMMA PrepareCalm ==
  ASSUME NEW w, Sound(w), Tagged(w), NEW n \in Queues, NEW max \in Nat,
         NEW vt \in Int, NEW t \in Int
  PROVE  Calm(w, PrepareAndPick(w, n, max, vt, t).w)
<1> DEFINE swept == Sweep(w, n, t)
           blocked == BlockedGroups(swept, n)
           fast == FastPick(swept, n, max, vt, t, blocked)
           slow == SlowPick(fast.w, n, max, vt, t, blocked)
           res == IF fast.ok THEN fast ELSE slow
<1>1. PrepareAndPick(w, n, max, vt, t).w = RecountDelayed(res.w, n, t)
  BY DEF PrepareAndPick
<1>2. Sound(swept) /\ Calm(w, swept) /\ Tagged(swept)
  BY SweepKeeps, SweepCalm, CalmTagged
<1> HIDE DEF swept, blocked
<1>3. Sound(fast.w) /\ Calm(swept, fast.w)
  BY <1>2, FastKeeps, FastCalm
<1> HIDE DEF fast
<1> DEFINE y == fast.w
           x == SlowPick(y, n, max, vt, t, blocked).w
           z == res.w
<1>4. Sound(y) /\ Calm(w, y) /\ Tagged(y)
  BY <1>2, <1>3, CalmChain, CalmTagged
<1>5. z = y \/ z = x
  OBVIOUS
<1> HIDE DEF y, res, slow, z
<1>6. Sound(x) /\ Calm(y, x)
  BY <1>4, SlowKeeps, SlowCalm
<1> HIDE DEF x
<1>7. Sound(z) /\ Calm(w, z) /\ Tagged(z)
  BY <1>4, <1>5, <1>6, CalmChain, CalmTagged
<1>8. Calm(z, RecountDelayed(z, n, t))
  BY <1>7, RecountCalm
<1>9. Calm(w, RecountDelayed(z, n, t))
  BY <1>7, <1>8, CalmChain
<1> QED
  BY <1>1, <1>9 DEF z

\* A delete is calm: the entry of a deleted message stays.
LEMMA DropLeaseCalm ==
  ASSUME NEW w, Sound(w), Tagged(w), NEW n \in Queues,
         NEW h \in Handles(w.q[n].inflight), NEW g, w.gone \subseteq g,
         \/ LeasedMsg(w, n, h) \in g
         \/ \E k \in Queues : LeasedMsg(w, n, h) \in Pending(w.q[k])
  PROVE  Calm(w, [DropLease(w, n, h) EXCEPT !.gone = g])
<1> DEFINE v == [DropLease(w, n, h) EXCEPT !.gone = g]
           i == IndexOfHandle(w, n, h)
<1>1. /\ DOMAIN w = {"msg", "q", "uuid", "gone"} /\ DOMAIN w.q = Queues
      /\ DOMAIN w.q[n] = QFields
  BY DEF Sound, Shape, QShape
<1>2. Shape(v)
  BY DropLeaseKeeps DEF Sound
<1> HIDE DEF i
<1>3. /\ v.msg = w.msg
      /\ \A k \in Queues : SameMemory(w.q[k], v.q[k])
  BY <1>1 DEF DropLease, QFields, SameMemory, i
<1> HIDE DEF v
<1>4. Calm(w, v)
  BY <1>2, <1>3, CalmFields
<1> QED
  BY <1>4 DEF v

\* A visibility timeout of zero is calm.
LEMMA ReturnCalm ==
  ASSUME NEW w, Sound(w), Tagged(w), NEW n \in Queues,
         NEW h \in Handles(w.q[n].inflight), NEW t
  PROVE  Calm(w, ReturnNow(w, n, h, t))
<1> DEFINE m == LeasedMsg(w, n, h)
           e == [w.msg[m] EXCEPT !.visibleAt = t]
           u == Written(w, m, e)
           v == RouteOrRequeue(u, n, m, t)
           x == DropLease(v, n, h)
<1>1. m \in Nat
  BY LeaseAt
<1>2. ReturnNow(w, n, h, t) = x
  BY DEF ReturnNow, Written
<1>3. m \in 1 .. Len(w.msg) => SameTags(w.msg[m], e)
  BY DEF Tagged, Tags, SameTags
<1>4. Shape(x)
  BY <1>2, ReturnKeeps DEF Sound
<1> HIDE DEF m, e
<1>5. Shape(u) /\ u.q = w.q
  BY WriteKeeps DEF Sound
<1>6. u.msg = [w.msg EXCEPT ![m] = e] /\ Len(u.msg) = Len(w.msg)
  <2>1. DOMAIN w = {"msg", "q", "uuid", "gone"} /\ IsSeq(w.msg)
    BY DEF Sound, Shape
  <2>2. u.msg = [w.msg EXCEPT ![m] = e]
    BY <2>1 DEF Written
  <2>3. Len([w.msg EXCEPT ![m] = e]) = Len(w.msg)
    BY <2>1, HeapUpdate, Zenon
  <2> QED  BY <2>2, <2>3, Zenon
<1> HIDE DEF u
<1>7. Calm(w, u)
  <2> DEFINE s == w.msg
  <2>1. IsSeq(s) /\ \A i \in 1 .. Len(s) : Tags \subseteq DOMAIN s[i]
    BY DEF Tagged, Sound, Shape
  <2>2. m \in 1 .. Len(s) => SameTags(s[m], e)
    BY <1>3
  <2> HIDE DEF s
  <2>3. \A i \in 1 .. Len(s) : SameTags(s[i], [s EXCEPT ![m] = e][i])
    BY <2>1, <2>2, TagsWrite, Zenon
  <2> QED  BY <1>5, <1>6, <2>3 DEF s, Calm, SameMemory
<1>8. Calm(u, v)
  <2>1. Tagged(u)
    BY <1>7, CalmTagged
  <2> QED  BY <1>1, <1>5, <2>1, RouteOrRequeueCalm
<1>9. Calm(w, v) /\ Tagged(v) /\ Shape(v)
  <2> HIDE DEF v
  <2>1. Calm(w, v)
    BY <1>7, <1>8, CalmChain
  <2>2. Tagged(v)
    BY <2>1, CalmTagged
  <2> QED  BY <2>1, <2>2 DEF Calm
<1> HIDE DEF v
<1>10. Calm(v, x)
  <2>1. /\ DOMAIN v = {"msg", "q", "uuid", "gone"} /\ DOMAIN v.q = Queues
        /\ DOMAIN v.q[n] = QFields
    BY <1>9 DEF Shape, QShape
  <2>2. /\ x.msg = v.msg
        /\ \A k \in Queues : SameMemory(v.q[k], x.q[k])
    BY <2>1 DEF DropLease, QFields, SameMemory
  <2> HIDE DEF x
  <2> QED  BY <1>4, <1>9, <2>2, CalmFields
<1> HIDE DEF x
<1>11. Calm(w, x)
  BY <1>9, <1>10, CalmChain
<1> QED
  BY <1>2, <1>11

\* A longer visibility timeout is calm.
LEMMA ExtendCalm ==
  ASSUME NEW w, Sound(w), Tagged(w), NEW n \in Queues,
         NEW h \in Handles(w.q[n].inflight), NEW vt \in Int, NEW t \in Int
  PROVE  Calm(w, Extend(w, n, h, vt, t))
<1> DEFINE v == Extend(w, n, h, vt, t)
<1>1. /\ DOMAIN w = {"msg", "q", "uuid", "gone"} /\ DOMAIN w.q = Queues
      /\ DOMAIN w.q[n] = QFields
  BY DEF Sound, Shape, QShape
<1>2. Shape(v)
  BY ExtendKeeps DEF Sound
<1>3. /\ v.msg = w.msg
      /\ \A k \in Queues : SameMemory(w.q[k], v.q[k])
  BY <1>1 DEF Extend, QFields, SameMemory
<1> HIDE DEF v
<1>4. Calm(w, v)
  BY <1>2, <1>3, CalmFields
<1> QED
  BY <1>4 DEF v

\* Clearing the activity flag is calm.
LEMMA UnflagCalm ==
  ASSUME NEW w, Sound(w), Tagged(w), NEW n \in Queues
  PROVE  Calm(w, [w EXCEPT !.q[n].active = IF Idle(w.q[n]) THEN FALSE ELSE @])
<1> DEFINE v == [w EXCEPT !.q[n].active = IF Idle(w.q[n]) THEN FALSE ELSE @]
<1>1. /\ DOMAIN w = {"msg", "q", "uuid", "gone"} /\ DOMAIN w.q = Queues
      /\ DOMAIN w.q[n] = QFields
  BY DEF Sound, Shape, QShape
<1>2. Shape(v)
  BY UnflagKeeps, Zenon DEF Sound
<1>3. /\ v.msg = w.msg
      /\ \A k \in Queues : SameMemory(w.q[k], v.q[k])
  BY <1>1 DEF QFields, SameMemory
<1> HIDE DEF v
<1>4. Calm(w, v)
  BY <1>2, <1>3, CalmFields
<1> QED
  BY <1>4 DEF v

\* The drains of a restart are calm.
LEMMA DrainsCalm ==
  ASSUME NEW w, Sound(w), Tagged(w), NEW s \in SetToSeqs(Queues), NEW t
  PROVE  Calm(w, Drains(w, s, t))
<1>0. PICK h : DrainsRun(w, s, t, h)
  BY DrainsPass
<1> DEFINE N == Len(s)
<1>1. /\ h[0] = w
      /\ \A i \in 1 .. N : h[i] = Drain(h[i - 1], s[i], t)
      /\ Drains(w, s, t) = h[N]
  BY <1>0 DEF DrainsRun
<1>2. N \in Nat /\ \A i \in 1 .. N : s[i] \in Queues
  BY QueueOrder
<1> HIDE DEF N
<1>3. Calm(w, h[N])
  <2> DEFINE T == {i \in 0 .. N : Sound(h[i]) /\ Calm(w, h[i])}
  <2>1. 0 \in T
    BY <1>1, <1>2, CalmSelf DEF Sound
  <2>2. ASSUME NEW i \in 1 .. N, i - 1 \in T PROVE i \in T
    <3> DEFINE a == h[i - 1]
    <3>1. Sound(a) /\ Calm(w, a) /\ h[i] = Drain(a, s[i], t) /\ s[i] \in Queues
      BY <2>2, <1>1, <1>2
    <3>2. Tagged(a)
      BY <3>1, CalmTagged
    <3> HIDE DEF a
    <3>3. Sound(Drain(a, s[i], t)) /\ Calm(a, Drain(a, s[i], t))
      BY <3>1, <3>2, DrainKeeps, DrainCalm
    <3> QED  BY <3>1, <3>3, <1>2, CalmChain
  <2>3. N \in T
    <3> HIDE DEF T
    <3> QED  BY <1>2, <2>1, <2>2, Upward
  <2> QED  BY <2>3
<1> QED
  BY <1>1, <1>3

-----------------------------------------------------------------------------
\* The end of the window in which the copies of message e are refused.
Closed(e) == e.at + DedupWindow - LockWait

\* The deduplication map of a queue: one entry per key.
OneEntry(D) ==
  /\ \A e \in D : e.exp \in Int /\ e.key \in Groups \X DedupIds
  /\ \A e, f \in D : e.key = f.key => e = f

\* Message e has a deduplication entry, or its window is over at time t.
Covered(w, e, t) ==
  \/ Closed(e) <= t
  \/ \E x \in w.q[e.home].dedup : /\ x.key = DedupKey(e.group, e.dedup)
                                  /\ Closed(e) <= x.exp

\* Two messages with one key, k before m, are a window apart.
Apart(e, f) ==
  /\ e.home = f.home /\ e.home \in FifoQueues
  /\ e.group = f.group /\ e.dedup = f.dedup /\ e.epoch = f.epoch
  => f.at - e.at >= DedupWindow - LockWait

\* The tags of message e.
TagTypes(w, e) ==
  /\ Tags \subseteq DOMAIN e
  /\ e.home \in Queues /\ e.at \in Int
  /\ e.epoch \in Int /\ e.epoch <= w.q[e.home].purges

\* What the queues remember at time t.
Remembered(w, t) ==
  /\ \A k \in Queues : w.q[k].purges \in Int /\ OneEntry(w.q[k].dedup)
  /\ \A m \in 1 .. Len(w.msg) : TagTypes(w, w.msg[m])
  /\ \A m \in 1 .. Len(w.msg) :
       w.msg[m].home \in FifoQueues /\ w.msg[m].epoch = w.q[w.msg[m].home].purges
         => Covered(w, w.msg[m], t)
  /\ \A k, m \in 1 .. Len(w.msg) : k < m => Apart(w.msg[k], w.msg[m])

\* The messages a world remembers have their tags.
LEMMA RememberedTagged ==
  ASSUME NEW w, NEW t, Remembered(w, t)
  PROVE  Tagged(w)
  BY DEF Remembered, Tagged, TagTypes

\* A calm step forgets nothing.
LEMMA CalmRemembers ==
  ASSUME NEW w, NEW v, NEW t, Remembered(w, t), Calm(w, v)
  PROVE  Remembered(v, t)
<1>1. /\ Len(v.msg) = Len(w.msg)
      /\ \A m \in 1 .. Len(w.msg) : SameTags(w.msg[m], v.msg[m])
      /\ \A k \in Queues : v.q[k].dedup = w.q[k].dedup /\ v.q[k].purges = w.q[k].purges
  BY DEF Calm, SameMemory
<1>2. \A k \in Queues : v.q[k].purges \in Int /\ OneEntry(v.q[k].dedup)
  BY <1>1 DEF Remembered
<1>3. ASSUME NEW m \in 1 .. Len(w.msg)
      PROVE  /\ TagTypes(v, v.msg[m])
             /\ v.msg[m].home \in FifoQueues /\ v.msg[m].epoch = v.q[v.msg[m].home].purges
                  => Covered(v, v.msg[m], t)
  <2> DEFINE e == w.msg[m]
             f == v.msg[m]
  <2>1. /\ TagTypes(w, e)
        /\ e.home \in FifoQueues /\ e.epoch = w.q[e.home].purges => Covered(w, e, t)
    BY DEF Remembered
  <2>2. SameTags(e, f)
    BY <1>1
  <2> HIDE DEF e, f
  <2>3. TagTypes(v, f)
    BY <1>1, <2>1, <2>2 DEF TagTypes, SameTags
  <2>4. Covered(w, e, t) => Covered(v, f, t)
    BY <1>1, <2>1, <2>2 DEF TagTypes, SameTags, Covered, Closed
  <2>5. f.home \in FifoQueues /\ f.epoch = v.q[f.home].purges => Covered(v, f, t)
    BY <1>1, <2>1, <2>2, <2>4 DEF TagTypes, SameTags
  <2> QED  BY <2>3, <2>5 DEF f
<1>4. ASSUME NEW k \in 1 .. Len(w.msg), NEW m \in 1 .. Len(w.msg), k < m
      PROVE  Apart(v.msg[k], v.msg[m])
  <2>1. Apart(w.msg[k], w.msg[m])
    BY <1>4 DEF Remembered
  <2>2. SameTags(w.msg[k], v.msg[k]) /\ SameTags(w.msg[m], v.msg[m])
    BY <1>1
  <2> QED  BY <2>1, <2>2 DEF Apart, SameTags
<1> QED
  BY <1>1, <1>2, <1>3, <1>4 DEF Remembered

\* A world with the same heap, deduplication maps and purges.
LEMMA FieldsRemember ==
  ASSUME NEW w, NEW v, NEW t, Remembered(w, t), v.msg = w.msg,
         \A k \in Queues : /\ v.q[k].dedup = w.q[k].dedup
                           /\ v.q[k].purges = w.q[k].purges
  PROVE  Remembered(v, t)
<1>1. \A m \in 1 .. Len(w.msg) : w.msg[m].home \in Queues
  BY DEF Remembered, TagTypes
<1>2. ASSUME NEW m \in 1 .. Len(w.msg)
      PROVE  /\ TagTypes(v, w.msg[m])
             /\ w.msg[m].home \in FifoQueues /\ w.msg[m].epoch = v.q[w.msg[m].home].purges
                  => Covered(v, w.msg[m], t)
  <2> DEFINE f == w.msg[m]
  <2>1. /\ TagTypes(w, f) /\ f.home \in Queues
        /\ f.home \in FifoQueues /\ f.epoch = w.q[f.home].purges => Covered(w, f, t)
    BY <1>1 DEF Remembered
  <2> HIDE DEF f
  <2>2. TagTypes(v, f) /\ (Covered(w, f, t) => Covered(v, f, t))
    BY <2>1 DEF TagTypes, Covered
  <2> QED  BY <2>1, <2>2 DEF f
<1>3. \A k \in Queues : v.q[k].purges \in Int /\ OneEntry(v.q[k].dedup)
  BY DEF Remembered
<1> QED
  BY <1>2, <1>3 DEF Remembered

\* Windows that are over stay over.
LEMMA LaterRemembers ==
  ASSUME NEW w, NEW t \in Int, NEW u \in Int, t <= u, Remembered(w, t)
  PROVE  Remembered(w, u)
<1>1. ASSUME NEW m \in 1 .. Len(w.msg), Covered(w, w.msg[m], t)
      PROVE  Covered(w, w.msg[m], u)
  <2>1. Closed(w.msg[m]) \in Int
    BY NumbersAssumption DEF Remembered, TagTypes, Closed
  <2> QED  BY <1>1, <2>1 DEF Covered
<1> QED
  BY <1>1 DEF Remembered

\* pruneDedup, with a clock reading that is not ahead: the entries it drops
\* cover no window that is still open.
LEMMA PruneRemembers ==
  ASSUME NEW w, Sound(w), NEW n \in Queues, NEW t \in Int, NEW u \in Int, t <= u,
         Remembered(w, u)
  PROVE  Remembered(PruneDedup(w, n, t), u)
<1> DEFINE d == {e \in w.q[n].dedup : t < e.exp}
           v == [w EXCEPT !.q[n].dedup = d]
<1>1. /\ DOMAIN w = {"msg", "q", "uuid", "gone"} /\ DOMAIN w.q = Queues
      /\ DOMAIN w.q[n] = QFields
  BY DEF Sound, Shape, QShape
<1>2. PruneDedup(w, n, t) = w \/ PruneDedup(w, n, t) = v
  BY Zenon DEF PruneDedup
<1> HIDE DEF d
<1>3. /\ v.msg = w.msg /\ v.q[n].dedup = d
      /\ \A k \in Queues : /\ v.q[k].purges = w.q[k].purges
                           /\ k # n => v.q[k].dedup = w.q[k].dedup
  BY <1>1 DEF QFields
<1> HIDE DEF v
<1>4. OneEntry(d)
  BY DEF Remembered, OneEntry, d
<1>5. \A k \in Queues : v.q[k].purges \in Int /\ OneEntry(v.q[k].dedup)
  BY <1>3, <1>4 DEF Remembered
<1>6. ASSUME NEW m \in 1 .. Len(w.msg), Covered(w, w.msg[m], u)
      PROVE  Covered(v, w.msg[m], u)
  <2> DEFINE e == w.msg[m]
  <2>1. Closed(e) \in Int /\ e.home \in Queues
    BY NumbersAssumption DEF Remembered, TagTypes, Closed
  <2>2. CASE Closed(e) <= u
    BY <2>2 DEF Covered
  <2>3. ASSUME NEW x \in w.q[e.home].dedup, x.key = DedupKey(e.group, e.dedup),
               Closed(e) <= x.exp
        PROVE  Covered(v, e, u)
    <3>1. x.exp \in Int
      BY <2>1 DEF Remembered, OneEntry
    <3>2. CASE x.exp <= t
      BY <3>1, <3>2, <2>1, <2>3 DEF Covered
    <3>3. CASE t < x.exp
      <4>1. x \in v.q[e.home].dedup
        BY <1>3, <2>1, <3>3 DEF d
      <4> QED  BY <2>3, <4>1 DEF Covered
    <3> QED  BY <3>1, <3>2, <3>3
  <2> QED  BY <1>6, <2>2, <2>3 DEF Covered
<1>7. \A m \in 1 .. Len(w.msg) : TagTypes(v, w.msg[m])
  BY <1>3 DEF Remembered, TagTypes
<1>8. ASSUME NEW m \in 1 .. Len(w.msg), w.msg[m].home \in FifoQueues,
             w.msg[m].epoch = v.q[w.msg[m].home].purges
      PROVE  Covered(v, w.msg[m], u)
  BY <1>3, <1>6, <1>7, <1>8 DEF Remembered, TagTypes
<1>9. Remembered(v, u)
  BY <1>3, <1>5, <1>7, <1>8 DEF Remembered
<1> QED
  BY <1>2, <1>9

\* As many deduplication keys as the map has room for.
DedupRoom ==
  /\ IsFiniteSet(Groups \X DedupIds)
  /\ Cardinality(Groups \X DedupIds) <= MaxDedup

\* With room for every key no entry is evicted.
LEMMA NoEviction ==
  ASSUME DedupRoom, NEW D, OneEntry(D), NEW key \in Groups \X DedupIds,
         \A e \in D : e.key # key
  PROVE  EvictOldest(D) = D
<1> DEFINE K == Groups \X DedupIds
           f == [e \in D |-> e.key]
<1>1. IsFiniteSet(K \ {key}) /\ Cardinality(K \ {key}) = Cardinality(K) - 1
  <2>1. IsFiniteSet(K) /\ key \in K
    BY DEF DedupRoom
  <2> HIDE DEF K
  <2> QED  BY <2>1, FS_RemoveElement
<1>2. f \in Injection(D, K \ {key})
  <2>1. f \in [D -> K \ {key}]
    BY DEF OneEntry
  <2>2. \A a, b \in D : f[a] = f[b] => a = b
    BY DEF OneEntry
  <2> HIDE DEF f, K
  <2> QED  BY <2>1, <2>2 DEF Injection, IsInjective
<1> HIDE DEF f
<1>3. IsFiniteSet(D) /\ Cardinality(D) <= Cardinality(K \ {key})
  <2> DEFINE T == K \ {key}
  <2>1. f \in Injection(D, T) /\ IsFiniteSet(T)
    BY <1>1, <1>2
  <2> HIDE DEF T
  <2>2. IsFiniteSet(D) /\ Cardinality(D) <= Cardinality(T)
    BY <2>1, FS_Injection
  <2> QED  BY <2>2 DEF T
<1>4. Cardinality(D) \in Int /\ Cardinality(K) \in Int
  <2>1. IsFiniteSet(K)
    BY DEF DedupRoom
  <2> HIDE DEF K
  <2> QED  BY <1>3, <2>1, FS_CardinalityType
<1>5. Cardinality(K) <= MaxDedup /\ MaxDedup \in Int
  BY NumbersAssumption DEF DedupRoom
<1> HIDE DEF K
<1>6. Cardinality(D) < MaxDedup
  BY <1>1, <1>3, <1>4, <1>5
<1> QED
  BY <1>6 DEF EvictOldest

\* A message appended to the heap: the last one is e, the others stay.
LEMMA SentHeap ==
  ASSUME NEW s, IsSeq(s), NEW e, NEW b, b = Append(s, e)
  PROVE  /\ Len(s) \in Nat /\ Len(b) = Len(s) + 1 /\ b[Len(s) + 1] = e
         /\ \A i \in 1 .. Len(s) : b[i] = s[i]
         /\ \A i \in 1 .. Len(b) : i \in 1 .. Len(s) \/ i = Len(s) + 1
<1>1. PICK S : s \in Seq(S)
  BY DEF IsSeq
<1>2. s \in Seq(S \cup {e})
  BY <1>1
<1> QED
  BY <1>2

\* A message sent to queue n, now r.
LEMMA SentRemembers ==
  ASSUME NEW w, Sound(w), NEW n \in Queues, NEW t \in Int, Remembered(w, t),
         NEW e, NEW r, r.purges = w.q[n].purges, OneEntry(r.dedup),
         Tags \subseteq DOMAIN e, e.home = n, e.at \in Int, e.epoch = w.q[n].purges,
         n \in FifoQueues => \E x \in r.dedup :
                               x.key = DedupKey(e.group, e.dedup) /\ Closed(e) <= x.exp,
         \A m \in 1 .. Len(w.msg) : Apart(w.msg[m], e),
         \A m \in 1 .. Len(w.msg) :
           /\ w.msg[m].home = n /\ n \in FifoQueues
           /\ w.msg[m].epoch = w.q[n].purges
           => Closed(w.msg[m]) <= t \/
              \E x \in r.dedup :
                /\ x.key = DedupKey(w.msg[m].group, w.msg[m].dedup)
                /\ Closed(w.msg[m]) <= x.exp
  PROVE  Remembered(Sent(w, n, e, r), t)
<1> DEFINE v == Sent(w, n, e, r)
           N == Len(w.msg)
           b == Append(w.msg, e)
<1>1. DOMAIN w = {"msg", "q", "uuid", "gone"} /\ DOMAIN w.q = Queues /\ IsSeq(w.msg)
  BY DEF Sound, Shape
<1>2. /\ v.msg = b /\ v.q[n] = r /\ \A k \in Queues : k # n => v.q[k] = w.q[k]
  BY <1>1 DEF Sent
<1> HIDE DEF v
<1>3. /\ N \in Nat /\ Len(b) = N + 1 /\ b[N + 1] = e
      /\ \A i \in 1 .. N : b[i] = w.msg[i]
      /\ \A i \in 1 .. Len(b) : i \in 1 .. N \/ i = N + 1
  BY <1>1, SentHeap
<1> HIDE DEF b
<1>4. \A k \in Queues : /\ v.q[k].purges = w.q[k].purges
                        /\ v.q[k].purges \in Int /\ OneEntry(v.q[k].dedup)
  BY <1>2 DEF Remembered
<1>5. ASSUME NEW m \in 1 .. Len(b)
      PROVE  /\ TagTypes(v, b[m])
             /\ b[m].home \in FifoQueues /\ b[m].epoch = v.q[b[m].home].purges
                  => Covered(v, b[m], t)
  <2>1. CASE m = N + 1
    <3>1. b[m] = e
      BY <2>1, <1>3
    <3>2. TagTypes(v, e)
      BY <1>4 DEF TagTypes
    <3>3. n \in FifoQueues => Covered(v, e, t)
      BY <1>2 DEF Covered
    <3> QED  BY <3>1, <3>2, <3>3
  <2>2. CASE m \in 1 .. N
    <3> DEFINE f == w.msg[m]
    <3>1. b[m] = f
      BY <2>2, <1>3
    <3>2. /\ TagTypes(w, f)
          /\ f.home \in FifoQueues /\ f.epoch = w.q[f.home].purges => Covered(w, f, t)
      BY <2>2 DEF Remembered
    <3>3. f.home \in Queues
      BY <3>2 DEF TagTypes
    <3>4. /\ f.home = n /\ n \in FifoQueues /\ f.epoch = w.q[n].purges
             => Closed(f) <= t \/
                \E x \in r.dedup : /\ x.key = DedupKey(f.group, f.dedup)
                                   /\ Closed(f) <= x.exp
      BY <2>2
    <3> HIDE DEF f
    <3>5. TagTypes(v, f)
      BY <1>4, <3>2, <3>3 DEF TagTypes
    <3>6. CASE f.home = n
      BY <1>2, <1>4, <3>1, <3>4, <3>5, <3>6 DEF Covered
    <3>7. CASE f.home # n
      BY <1>2, <3>1, <3>2, <3>3, <3>5, <3>7 DEF Covered
    <3> QED  BY <3>6, <3>7
  <2> QED  BY <1>3, <2>1, <2>2
<1>6. ASSUME NEW k \in 1 .. Len(b), NEW m \in 1 .. Len(b), k < m
      PROVE  Apart(b[k], b[m])
  <2>1. k \in 1 .. N
    BY <1>3, <1>6
  <2>2. CASE m = N + 1
    BY <2>1, <2>2, <1>3
  <2>3. CASE m \in 1 .. N
    <3>1. Apart(w.msg[k], w.msg[m])
      BY <1>6, <2>1, <2>3 DEF Remembered
    <3> QED  BY <2>1, <2>3, <3>1, <1>3
  <2> QED  BY <1>3, <2>2, <2>3
<1>7. Remembered(v, t)
  BY <1>2, <1>4, <1>5, <1>6 DEF Remembered
<1> QED
  BY <1>7 DEF v

\* A standard queue remembers nothing of a send.
LEMMA StandardRemembers ==
  ASSUME NEW w, Sound(w), NEW n \in Queues, n \notin FifoQueues, NEW u \in Int,
         Remembered(w, u), NEW g, NEW d, NEW delay, NEW t
  PROVE  Remembered(Enqueue(w, n, g, d, delay, t), u)
<1> DEFINE q == w.q[n]
           m == Len(w.msg) + 1
           vis == VisibleAt(q, delay, t)
           e == [home |-> n, group |-> g, dedup |-> d, seq |-> 0,
                 sent |-> t, visibleAt |-> vis, rc |-> 0,
                 handle |-> 0, epoch |-> q.purges, at |-> 0, boot |-> 0]
           late == IF t < vis THEN 1 ELSE 0
           r == [q EXCEPT !.seqCtr = 0, !.dedup = @, !.delayed = @ + late,
                          !.messages = Append(@, m), !.active = TRUE]
<1>1. DOMAIN q = QFields
  BY DEF Sound, Shape, QShape
<1>2. Enqueue(w, n, g, d, delay, t) = Sent(w, n, e, r)
  <2>1. ~IsFIFO(n)
    BY DEF IsFIFO
  <2> QED  BY <2>1, Zenon DEF Enqueue, Sent
<1> HIDE DEF vis, late, m
<1>3. r.purges = w.q[n].purges /\ r.dedup = w.q[n].dedup
  BY <1>1 DEF QFields
<1>4. /\ Tags \subseteq DOMAIN e /\ e.home = n /\ e.at = 0 /\ e.at \in Int
      /\ e.epoch = w.q[n].purges
  BY DEF Tags
<1> HIDE DEF e, r, q
<1>5. OneEntry(r.dedup)
  BY <1>3 DEF Remembered
<1>6. \A k \in 1 .. Len(w.msg) : Apart(w.msg[k], e)
  BY <1>4 DEF Apart
<1>7. Remembered(Sent(w, n, e, r), u)
  BY <1>3, <1>4, <1>5, <1>6, SentRemembers
<1> QED
  BY <1>2, <1>7

\* A FIFO queue remembers what it accepted.
LEMMA EnqueueRemembers ==
  ASSUME DedupRoom, NEW w, Sound(w), NEW n \in FifoQueues, now \in Int,
         Remembered(w, now), NEW g \in Groups, NEW d \in DedupIds, NEW delay,
         NEW t \in Int, now - LockWait <= t, t <= now,
         LiveDedup(w.q[n], DedupKey(g, d), t) = {}
  PROVE  Remembered(Enqueue(w, n, g, d, delay, t), now)
<1> DEFINE q == w.q[n]
           m == Len(w.msg) + 1
           seq == q.seqCtr + 1
           vis == VisibleAt(q, delay, t)
           e == [home |-> n, group |-> g, dedup |-> d, seq |-> seq,
                 sent |-> t, visibleAt |-> vis, rc |-> 0,
                 handle |-> 0, epoch |-> q.purges, at |-> now, boot |-> restarts]
           key == DedupKey(g, d)
           D == {x \in q.dedup : x.key # key}
           y == DedupEntry(g, d, t, m)
           dd == EvictOldest(D) \cup {y}
           late == IF t < vis THEN 1 ELSE 0
           r == [q EXCEPT !.seqCtr = seq, !.dedup = dd, !.delayed = @ + late,
                          !.messages = Append(@, m), !.active = TRUE]
<1>0. n \in Queues
  BY SetsAssumption
<1>1. DOMAIN q = QFields
  BY <1>0 DEF Sound, Shape, QShape
<1>2. Enqueue(w, n, g, d, delay, t) = Sent(w, n, e, r)
  <2>1. IsFIFO(n)
    BY DEF IsFIFO
  <2> QED  BY <2>1, Zenon DEF Enqueue, Sent
<1>3. /\ key \in Groups \X DedupIds /\ y.key = key /\ y.exp = t + DedupWindow
  BY DEF DedupKey, DedupEntry
<1>4. OneEntry(D) /\ \A x \in D : x.key # key
  BY <1>0 DEF Remembered, OneEntry
<1>5. \A x \in q.dedup : x.key = key => x.exp <= t
  <2>1. \A x \in q.dedup : x.exp \in Int
    BY <1>0 DEF Remembered, OneEntry
  <2> QED  BY <2>1 DEF LiveDedup
<1> HIDE DEF vis, late, m, seq, key, y
<1>6. EvictOldest(D) = D
  <2> HIDE DEF D
  <2> QED  BY <1>3, <1>4, NoEviction
<1> HIDE DEF dd
<1>7. r.purges = q.purges /\ r.dedup = dd
  BY <1>1 DEF QFields
<1>8. /\ Tags \subseteq DOMAIN e /\ e.home = n /\ e.at = now
      /\ e.epoch = q.purges /\ e.group = g /\ e.dedup = d
  BY DEF Tags
<1> HIDE DEF e, r
<1>9. dd = D \cup {y}
  BY <1>6 DEF dd
<1>10. OneEntry(dd)
  <2>1. t + DedupWindow \in Int
    BY NumbersAssumption
  <2> HIDE DEF D
  <2> QED  BY <1>3, <1>4, <1>9, <2>1 DEF OneEntry
<1>11. Closed(e) <= y.exp
  BY <1>3, <1>8, NumbersAssumption DEF Closed
<1>12. ASSUME NEW k \in 1 .. Len(w.msg), w.msg[k].home = n,
              w.msg[k].epoch = q.purges, DedupKey(w.msg[k].group, w.msg[k].dedup) = key
       PROVE  Closed(w.msg[k]) <= now
  <2> DEFINE f == w.msg[k]
  <2>1. Covered(w, f, now) /\ f.at \in Int
    BY <1>12 DEF Remembered, TagTypes
  <2>2. Closed(f) \in Int
    BY <2>1, NumbersAssumption DEF Closed
  <2>3. \A x \in q.dedup : x.exp \in Int
    BY <1>0 DEF Remembered, OneEntry
  <2>4. f.home = n /\ DedupKey(f.group, f.dedup) = key
    BY <1>12
  <2> HIDE DEF f
  <2>5. Closed(f) <= now
    BY <1>5, <2>1, <2>2, <2>3, <2>4 DEF Covered
  <2> QED  BY <2>5 DEF f
<1>13. ASSUME NEW k \in 1 .. Len(w.msg) PROVE Apart(w.msg[k], e)
  <2> DEFINE f == w.msg[k]
  <2> SUFFICES ASSUME f.home = e.home, f.group = e.group, f.dedup = e.dedup,
                      f.epoch = e.epoch
               PROVE  e.at - f.at >= DedupWindow - LockWait
    BY DEF Apart
  <2>1. Closed(f) <= now
    BY <1>8, <1>12 DEF key
  <2>2. f.at \in Int
    BY DEF Remembered, TagTypes
  <2> HIDE DEF f
  <2> QED  BY <1>8, <2>1, <2>2, NumbersAssumption DEF Closed
<1>14. ASSUME NEW k \in 1 .. Len(w.msg), w.msg[k].home = n,
              w.msg[k].epoch = q.purges
       PROVE  \/ Closed(w.msg[k]) <= now
              \/ \E x \in dd : /\ x.key = DedupKey(w.msg[k].group, w.msg[k].dedup)
                               /\ Closed(w.msg[k]) <= x.exp
  <2> DEFINE f == w.msg[k]
  <2>1. Covered(w, f, now)
    BY <1>14 DEF Remembered
  <2>2. CASE DedupKey(f.group, f.dedup) = key
    BY <1>12, <1>14, <2>2
  <2>3. CASE DedupKey(f.group, f.dedup) # key
    BY <1>9, <1>14, <2>1, <2>3 DEF Covered
  <2> QED  BY <2>2, <2>3
<1>15. \E x \in r.dedup : x.key = DedupKey(e.group, e.dedup) /\ Closed(e) <= x.exp
  BY <1>3, <1>7, <1>8, <1>9, <1>11 DEF key
<1> HIDE DEF D
<1>16. Remembered(Sent(w, n, e, r), now)
  BY <1>0, <1>7, <1>8, <1>10, <1>13, <1>14, <1>15, SentRemembers
<1> QED
  BY <1>2, <1>16

\* A send to a FIFO queue: over the rate, a duplicate or accepted.
LEMMA SendRemembers ==
  ASSUME DedupRoom, NEW w, Sound(w), NEW n \in FifoQueues, now \in Int,
         Remembered(w, now), NEW g \in Groups, NEW d \in DedupIds, NEW delay,
         NEW t \in Int, now - LockWait <= t, t <= now
  PROVE  Remembered(SendLocked(w, n, g, d, delay, t), now)
<1> DEFINE q == w.q[n]
           recent == RecentSends(q, g, t)
           limited == n \in RateLimited /\ Len(recent) >= FifoTPS
           y == IF limited THEN recent ELSE Append(recent, t)
           z == [w EXCEPT !.q[n].sends[g] = y]
           counted == IF n \notin RateLimited THEN w ELSE z
           live == LiveDedup(q, DedupKey(g, d), t)
           x == [w.q[n].sends EXCEPT ![g] = y]
<1>0. n \in Queues /\ IsFIFO(n)
  BY SetsAssumption DEF IsFIFO
<1>1. \/ SendLocked(w, n, g, d, delay, t) = counted
      \/ live = {} /\ SendLocked(w, n, g, d, delay, t) = Enqueue(counted, n, g, d, delay, t)
  BY <1>0, Zenon DEF SendLocked
<1> HIDE DEF y
<1>2. Sound(z) /\ Remembered(z, now) /\ z.q[n].dedup = q.dedup
  <2>1. z = [w EXCEPT !.q[n].sends = x]
    OBVIOUS
  <2> HIDE DEF x
  <2>2. Sound([w EXCEPT !.q[n].sends = x])
    BY <1>0, FieldKeeps, Zenon
  <2>3. /\ DOMAIN w = {"msg", "q", "uuid", "gone"} /\ DOMAIN w.q = Queues
        /\ DOMAIN w.q[n] = QFields
    BY <1>0 DEF Sound, Shape, QShape
  <2>4. /\ z.msg = w.msg
        /\ \A k \in Queues : /\ z.q[k].dedup = w.q[k].dedup
                             /\ z.q[k].purges = w.q[k].purges
    BY <2>1, <2>3 DEF QFields
  <2> HIDE DEF z
  <2>5. Remembered(z, now)
    BY <2>4, FieldsRemember
  <2> QED  BY <1>0, <2>1, <2>2, <2>4, <2>5
<1> HIDE DEF z
<1>3. Sound(counted) /\ Remembered(counted, now) /\ counted.q[n].dedup = q.dedup
  BY <1>2
<1> HIDE DEF counted
<1>4. LiveDedup(counted.q[n], DedupKey(g, d), t) = live
  BY <1>3 DEF LiveDedup
<1>5. live = {} => Remembered(Enqueue(counted, n, g, d, delay, t), now)
  BY <1>3, <1>4, EnqueueRemembers
<1> QED
  BY <1>1, <1>3, <1>5

\* A purge of a FIFO queue forgets its entries and starts a new epoch.
LEMMA PurgeRemembers ==
  ASSUME NEW w, NEW n \in Queues, NEW t, Remembered(w, t), NEW v, v.msg = w.msg,
         \A k \in Queues : k # n => v.q[k] = w.q[k],
         IF IsFIFO(n) THEN v.q[n].dedup = {} /\ v.q[n].purges = w.q[n].purges + 1
         ELSE v.q[n].dedup = w.q[n].dedup /\ v.q[n].purges = w.q[n].purges
  PROVE  Remembered(v, t)
<1>1. \A k \in Queues : v.q[k].purges \in Int /\ OneEntry(v.q[k].dedup)
  BY DEF Remembered, OneEntry
<1>2. \A k \in Queues : w.q[k].purges \in Int /\ w.q[k].purges <= v.q[k].purges
  BY DEF Remembered
<1>3. ASSUME NEW m \in 1 .. Len(w.msg)
      PROVE  /\ TagTypes(v, w.msg[m])
             /\ w.msg[m].home \in FifoQueues /\ w.msg[m].epoch = v.q[w.msg[m].home].purges
                  => Covered(v, w.msg[m], t)
  <2> DEFINE f == w.msg[m]
  <2>1. /\ TagTypes(w, f)
        /\ f.home \in FifoQueues /\ f.epoch = w.q[f.home].purges => Covered(w, f, t)
    BY DEF Remembered
  <2> HIDE DEF f
  <2>2. TagTypes(v, f)
    BY <1>1, <1>2, <2>1 DEF TagTypes
  <2>3. CASE f.home = n
    BY <1>2, <2>1, <2>2, <2>3 DEF f, TagTypes, IsFIFO
  <2>4. CASE f.home # n
    BY <2>1, <2>2, <2>4 DEF f, TagTypes, Covered
  <2> QED  BY <2>3, <2>4
<1> QED
  BY <1>1, <1>3 DEF Remembered

\* The next world remembers what v does.
LEMMA BecomeRemembers ==
  ASSUME NEW v, Remembered(v, now), Become(v), now' = now
  PROVE  Remembered(World, now)'
<1>1. World'.msg = v.msg /\ World'.q = v.q
  BY DEF Become, World
<1>2. Remembered(World', now)
  <2> DEFINE u == World'
  <2>1. u.msg = v.msg /\ u.q = v.q
    BY <1>1
  <2> HIDE DEF u
  <2>2. Remembered(u, now)
    BY <2>1 DEF Remembered, TagTypes, Covered
  <2> QED  BY <2>2 DEF u
<1> QED
  BY <1>2

-----------------------------------------------------------------------------
(* The steps, as far as memory goes.                                       *)

\* The next world is v, in the same second and the same run of the server.
Moves(v) == Become(v) /\ now' = now /\ restarts' = restarts

\* A send to a standard queue, a send to a FIFO queue.
StandardSent ==
  \E n \in Sources \ FifoQueues, delay \in Delays, t \in Clocks :
    Moves(Enqueue(World, n, None, None, delay, t))
FifoSent ==
  \E n \in Sources \cap FifoQueues, g \in Groups, d \in DedupIds, t \in Clocks :
    Moves(SendLocked(World, n, g, d, 0, t))

\* A calm step, and a calm step after pruneDedup.
Quiet == \E v : Calm(World, v) /\ Moves(v)
Pruned ==
  \E n \in Queues, t \in Clocks : \E v : Calm(PruneDedup(World, n, t), v) /\ Moves(v)

\* The queues as a restart restores them.
Reborn(w) == [w EXCEPT !.q = [n \in Queues |-> Restored(w.q[n], now)]]

\* A restart: the queues restored, then calm drains.
Rebooted ==
  \E v : /\ Calm(Reborn(World), v) /\ Become(v)
         /\ now' = now /\ restarts' = restarts + 1

\* pruneDedup writes one deduplication map.
LEMMA PrunedTagged ==
  ASSUME NEW w, Sound(w), Tagged(w), NEW n \in Queues, NEW t
  PROVE  /\ Tagged(PruneDedup(w, n, t)) /\ PruneDedup(w, n, t).msg = w.msg
         /\ \A k \in Queues : PruneDedup(w, n, t).q[k].sends = w.q[k].sends
<1> DEFINE d == {e \in w.q[n].dedup : t < e.exp}
           v == [w EXCEPT !.q[n].dedup = d]
           u == PruneDedup(w, n, t)
<1>1. /\ DOMAIN w = {"msg", "q", "uuid", "gone"} /\ DOMAIN w.q = Queues
      /\ DOMAIN w.q[n] = QFields
  BY DEF Sound, Shape, QShape
<1>2. u = w \/ u = v
  BY Zenon DEF PruneDedup
<1> HIDE DEF d, u
<1>3. v.msg = w.msg /\ \A k \in Queues : v.q[k].sends = w.q[k].sends
  BY <1>1 DEF QFields
<1> HIDE DEF v
<1>4. u.msg = w.msg /\ \A k \in Queues : u.q[k].sends = w.q[k].sends
  BY <1>2, <1>3
<1> QED
  BY <1>4 DEF Tagged, u

\* A restart keeps the deduplication maps, which are in the snapshot, and
\* loses the stamps of the rate limiter.
LEMMA RestoredMemory ==
  ASSUME NEW w, Sound(w)
  PROVE  /\ Reborn(w).msg = w.msg
         /\ \A k \in Queues : /\ Reborn(w).q[k].dedup = w.q[k].dedup
                              /\ Reborn(w).q[k].purges = w.q[k].purges
                              /\ Reborn(w).q[k].sends = [g \in Groups |-> <<>>]
<1> DEFINE v == Reborn(w)
<1>1. DOMAIN w = {"msg", "q", "uuid", "gone"} /\ \A k \in Queues : QShape(w.q[k])
  BY DEF Sound, Shape
<1>2. v.msg = w.msg /\ \A k \in Queues : v.q[k] = Restored(w.q[k], now)
  BY <1>1 DEF Reborn
<1> HIDE DEF v
<1>3. ASSUME NEW k \in Queues
      PROVE  /\ v.q[k].dedup = w.q[k].dedup /\ v.q[k].purges = w.q[k].purges
             /\ v.q[k].sends = [g \in Groups |-> <<>>]
  <2> DEFINE q == w.q[k]
  <2>1. DOMAIN q = QFields
    BY <1>1 DEF QShape
  <2> HIDE DEF q
  <2>2. /\ Restored(q, now).dedup = q.dedup /\ Restored(q, now).purges = q.purges
        /\ Restored(q, now).sends = [g \in Groups |-> <<>>]
    BY <2>1 DEF Restored, QFields
  <2> QED  BY <1>2, <2>2, Zenon DEF q
<1> QED
  BY <1>2, <1>3 DEF v

\* A step that writes other fields of the queues is calm.
LEMMA WriteQuiet ==
  ASSUME QueueInv', Tagged(World), msg' = msg, now' = now, restarts' = restarts,
         \A k \in Queues : SameMemory(queues[k], queues'[k])
  PROVE  Quiet
<1> DEFINE w == World
           v == World'
<1>1. w.msg = msg /\ w.q = queues /\ v.msg = msg /\ v.q = queues'
  BY DEF World
<1>2. Shape(v)
  BY DEF QueueInv, Sound
<1>3. Become(v)
  BY DEF Become, World
<1> HIDE DEF w, v
<1>4. Calm(w, v)
  BY <1>1, <1>2, CalmFields DEF w
<1> QED
  BY <1>3, <1>4 DEF Quiet, Moves, w

\* The kinds of steps.
LEMMA StepKinds ==
  ASSUME QueueInv, Tagged(World), [Next]_vars
  PROVE  \/ StandardSent \/ FifoSent \/ Quiet \/ Pruned \/ Rebooted \/ Tick
         \/ \E n \in Queues : PurgeQueue(n)
<1> DEFINE w == World
<1>0. /\ Sound(w) /\ now \in Nat /\ (draining # None => draining[1] \in Queues)
      /\ w.msg = msg /\ w.q = queues /\ w.uuid = uuid /\ w.gone = gone
      /\ Tagged(w) /\ now \in Int
  BY WorldFields DEF QueueInv
<1>1. /\ DOMAIN queues = Queues
      /\ \A n \in Queues : DOMAIN queues[n] = QFields
  BY <1>0 DEF Sound, Shape, QShape
<1>2. /\ \A t \in Clocks : t \in Int
      /\ now \in Clocks
  BY <1>0, NumbersAssumption DEF Clocks
<1>3. \A n \in Queues : {inf.handle : inf \in ToSet(queues[n].inflight)}
                          = Handles(w.q[n].inflight)
  BY <1>0 DEF ToSet, Handles
<1>a. QueueInv'
  BY NextInv
<1>4. CASE SendStandard
  <2>1. PICK n \in Sources \ FifoQueues, delay \in Delays, t \in Clocks :
          SendMessage(n, None, None, delay, t)
    BY <1>4 DEF SendStandard
  <2>2. SendLocked(w, n, None, None, delay, t) = Enqueue(w, n, None, None, delay, t)
    BY Zenon DEF SendLocked, IsFIFO
  <2>3. Moves(Enqueue(w, n, None, None, delay, t))
    BY <2>1, <2>2 DEF SendMessage, Moves
  <2> QED  BY <2>3 DEF StandardSent
<1>5. CASE SendFIFO
  <2>1. PICK n \in Sources \cap FifoQueues, g \in Groups, d \in DedupIds, t \in Clocks :
          SendMessage(n, g, d, 0, t)
    BY <1>5 DEF SendFIFO
  <2>2. Moves(SendLocked(w, n, g, d, 0, t))
    BY <2>1 DEF SendMessage, Moves
  <2> QED  BY <2>2 DEF FifoSent
<1>6. CASE Receive
  <2>1. PICK n \in Queues, max \in BatchSizes, vt \in Timeouts,
             att \in AttemptIds \cup {None} : ReceiveMessage(n, max, vt, att)
    BY <1>6 DEF Receive
  <2>2. max \in Nat /\ vt \in Int
    BY NumbersAssumption
  <2> DEFINE v == ReceiveOnce(w, n, max, vt, att, now)
             y == PruneDedup(w, n, now)
             z == PruneAttempts(y, n, now)
             got == PrepareAndPick(z, n, max, vt, now)
             g == got.w
             entry == [id |-> att, msgs |-> got.picked, exp |-> now + AttemptTTL]
             x == g.q[n].attempts \cup {entry}
  <2>3. Moves(v)
    BY <2>1 DEF ReceiveMessage, Moves
  <2> HIDE DEF w
  <2>4. v = z \/ v = g \/ v = [g EXCEPT !.q[n].attempts = x]
    BY Zenon DEF ReceiveOnce
  <2> HIDE DEF v
  <2>5. Sound(y) /\ Tagged(y)
    BY <1>0, PrunesKeep, PrunedTagged
  <2>6. Sound(z) /\ Calm(y, z) /\ Tagged(z)
    <3> HIDE DEF y
    <3> QED  BY <2>5, PrunesKeep, AttemptsCalm, CalmTagged
  <2> HIDE DEF z, y
  <2>7. Sound(g) /\ Calm(z, g) /\ Tagged(g)
    BY <1>0, <2>2, <2>6, PrepareKeeps, PrepareCalm, CalmTagged
  <2> HIDE DEF g, x
  <2>8. Calm(g, [g EXCEPT !.q[n].attempts = x])
    BY <2>7, FieldCalm, Zenon
  <2>9. Calm(y, v)
    BY <2>4, <2>6, <2>7, <2>8, CalmChain
  <2> QED  BY <1>2, <2>3, <2>9 DEF Pruned, w, y
<1>7. CASE Delete
  <2>1. PICK n \in Queues : \E h \in queues[n].byHandle : DeleteMessage(n, h)
    BY <1>7 DEF Delete
  <2>2. PICK h \in queues[n].byHandle : DeleteMessage(n, h)
    BY <2>1
  <2>3. h \in Handles(w.q[n].inflight)
    BY <1>0 DEF Sound, Indexed
  <2> DEFINE g == w.gone \cup {LeasedMsg(w, n, h)}
             v == [DropLease(w, n, h) EXCEPT !.gone = g]
  <2>4. Moves(v)
    <3>1. DropLease(w, n, h).gone = w.gone
      BY <1>0 DEF DropLease, World
    <3>2. [DropLease(w, n, h) EXCEPT !.gone = @ \cup {LeasedMsg(w, n, h)}] = v
      BY <3>1
    <3> QED  BY <2>2, <3>2 DEF DeleteMessage, Moves
  <2>5. w.gone \subseteq g /\ LeasedMsg(w, n, h) \in g
    OBVIOUS
  <2> HIDE DEF w, g
  <2>6. Calm(w, v)
    BY <1>0, <2>3, <2>5, DropLeaseCalm
  <2> HIDE DEF v
  <2> QED  BY <2>4, <2>6 DEF Quiet, w
<1>8. CASE ChangeVisibility
  <2>1. PICK n \in Queues, vt \in Timeouts \cup {0} :
          \E h \in {inf.handle : inf \in ToSet(queues[n].inflight)} :
            ChangeMessageVisibility(n, h, vt)
    BY <1>8 DEF ChangeVisibility
  <2>2. PICK h \in Handles(w.q[n].inflight) : ChangeMessageVisibility(n, h, vt)
    BY <2>1, <1>3
  <2>3. vt \in Int
    BY NumbersAssumption
  <2> DEFINE a == ReturnNow(w, n, h, now)
             b == Extend(w, n, h, vt, now)
             v == IF vt = 0 THEN a ELSE b
  <2>4. Moves(v)
    BY <2>2 DEF ChangeMessageVisibility, Moves
  <2> HIDE DEF w
  <2>5. Calm(w, a) /\ Calm(w, b)
    BY <1>0, <2>3, ReturnCalm, ExtendCalm
  <2> HIDE DEF a, b
  <2>6. Calm(w, v)
    BY <2>5
  <2> HIDE DEF v
  <2> QED  BY <2>4, <2>6 DEF Quiet, w
<1>9. CASE \E n \in Queues : PurgeQueue(n)
  BY <1>9
<1>10. CASE \E n \in Sources, delay \in Delays : SetDelay(n, delay)
  <2>1. PICK n \in Sources, delay \in Delays : SetDelay(n, delay)
    BY <1>10
  <2>2. /\ \A k \in Queues : SameMemory(queues[k], queues'[k])
        /\ msg' = msg /\ now' = now /\ restarts' = restarts
    BY <1>1, <2>1 DEF SetDelay, QFields, SameMemory
  <2> QED  BY <1>a, <2>2, WriteQuiet
<1>11. CASE \E p \in Redrives : ApplyRedrivePolicy(p)
  <2>1. PICK p \in Redrives : ApplyRedrivePolicy(p)
    BY <1>11
  <2>2. p[1] \in Queues
    BY PolicyAssumption
  <2>3. /\ \A k \in Queues : SameMemory(queues[k], queues'[k])
        /\ msg' = msg /\ now' = now /\ restarts' = restarts
    BY <1>1, <2>1, <2>2 DEF ApplyRedrivePolicy, QFields, SameMemory
  <2> QED  BY <1>a, <2>3, WriteQuiet
<1>12. CASE DrainToDLQ
  <2> DEFINE n == draining[1]
             t == draining[2]
             v == Drain(w, n, t)
  <2>1. n \in Queues /\ Moves(v)
    BY <1>0, <1>12 DEF DrainToDLQ, Moves
  <2> HIDE DEF w, n, t
  <2>2. Calm(w, v)
    BY <1>0, <2>1, DrainCalm
  <2> HIDE DEF v
  <2> QED  BY <2>1, <2>2 DEF Quiet, w
<1>13. CASE \E n \in Queues : RemoveRedrivePolicy(n)
  <2>1. PICK n \in Queues : RemoveRedrivePolicy(n)
    BY <1>13
  <2>2. /\ \A k \in Queues : SameMemory(queues[k], queues'[k])
        /\ msg' = msg /\ now' = now /\ restarts' = restarts
    BY <1>1, <2>1 DEF RemoveRedrivePolicy, QFields, SameMemory
  <2> QED  BY <1>a, <2>2, WriteQuiet
<1>14. CASE \E n \in Queues, t \in Clocks : PruneState(n, t)
  <2>1. PICK n \in Queues, t \in Clocks : PruneState(n, t)
    BY <1>14
  <2> DEFINE y == PruneDedup(w, n, t)
             u == PrepareAndPick(y, n, 0, 0, t).w
             v == [u EXCEPT !.q[n].active = IF Idle(u.q[n]) THEN FALSE ELSE @]
  <2>2. Moves(v)
    BY <2>1 DEF PruneState, Moves
  <2> HIDE DEF w
  <2>3. Sound(y) /\ Tagged(y)
    BY <1>0, PrunesKeep, PrunedTagged
  <2> HIDE DEF y
  <2>4. Sound(u) /\ Calm(y, u) /\ Tagged(u)
    BY <1>2, <2>3, PrepareKeeps, PrepareCalm, CalmTagged
  <2> HIDE DEF u
  <2>5. Calm(u, v)
    BY <2>4, UnflagCalm
  <2> HIDE DEF v
  <2>6. Calm(y, v)
    BY <2>4, <2>5, CalmChain
  <2> QED  BY <2>2, <2>6 DEF Pruned, w, y
<1>15. CASE Restart
  <2> DEFINE u == Reborn(w)
  <2>1. PICK s \in SetToSeqs(Queues) : Become(Drains(u, s, now))
    BY <1>0, <1>15 DEF Restart, Drains, Reborn
  <2>2. now' = now /\ restarts' = restarts + 1
    BY <1>15 DEF Restart
  <2>3. Sound(u) /\ u.msg = w.msg
    <3> HIDE DEF w
    <3> QED  BY <1>0, RestoredKeeps, RestoredMemory DEF Reborn
  <2>4. Tagged(u)
    BY <1>0, <2>3 DEF Tagged
  <2> HIDE DEF u, w
  <2> DEFINE v == Drains(u, s, now)
  <2>5. Calm(u, v) /\ Become(v)
    BY <2>1, <2>3, <2>4, DrainsCalm
  <2> HIDE DEF v
  <2> QED  BY <2>2, <2>5 DEF Rebooted, u, w
<1>16. CASE Tick
  BY <1>16
<1>17. CASE UNCHANGED vars
  <2>1. Moves(w)
    BY <1>17 DEF vars, World, Become, Moves
  <2>2. Calm(w, w)
    BY <1>0, CalmSelf DEF Sound
  <2> QED  BY <2>1, <2>2 DEF Quiet
<1> QED
  BY <1>4, <1>5, <1>6, <1>7, <1>8, <1>9, <1>10, <1>11, <1>12, <1>13, <1>14,
     <1>15, <1>16, <1>17 DEF Next

\* At the start there is nothing to remember.
LEMMA InitRemembers == Init => Remembered(World, now)
<1> SUFFICES ASSUME Init PROVE Remembered(World, now)
  OBVIOUS
<1>1. World.msg = <<>> /\ World.q = queues
  BY DEF World, Init
<1>2. ASSUME NEW k \in Queues PROVE queues[k].purges = 0 /\ queues[k].dedup = {}
  <2>1. queues[k] = NewQueue(k)
    BY DEF Init
  <2>2. NewQueue(k).purges = 0 /\ NewQueue(k).dedup = {}
    BY DEF NewQueue
  <2> QED  BY <2>1, <2>2
<1>3. OneEntry({})
  BY DEF OneEntry
<1> DEFINE w == World
<1>4. 1 .. Len(w.msg) = {} /\ w.q = queues
  BY <1>1
<1> HIDE DEF w
<1>5. \A k \in Queues : w.q[k].purges \in Int /\ OneEntry(w.q[k].dedup)
  <2> SUFFICES ASSUME NEW k \in Queues
               PROVE  w.q[k].purges \in Int /\ OneEntry(w.q[k].dedup)
    OBVIOUS
  <2>1. w.q[k].purges = 0 /\ w.q[k].dedup = {}
    BY <1>2, <1>4
  <2> QED  BY <1>3, <2>1
<1>6. Remembered(w, now)
  BY <1>4, <1>5 DEF Remembered
<1> QED
  BY <1>6 DEF w

\* Every step remembers: the sends, the pruning and the purge by their own
\* lemmas, the passing of time by LaterRemembers, every other step is calm.
LEMMA NextRemembers ==
  ASSUME DedupRoom, QueueInv, Remembered(World, now), [Next]_vars
  PROVE  Remembered(World, now)'
<1> DEFINE w == World
<1>0. /\ Sound(w) /\ w.msg = msg /\ w.q = queues
      /\ Remembered(w, now) /\ Tagged(w) /\ now \in Int
  BY WorldFields, RememberedTagged DEF QueueInv
<1>1. \A t \in Clocks : t \in Int /\ now - LockWait <= t /\ t <= now
  BY <1>0, NumbersAssumption DEF Clocks
<1>2. CASE StandardSent
  <2>1. PICK n \in Sources \ FifoQueues, delay \in Delays, t \in Clocks :
          Moves(Enqueue(w, n, None, None, delay, t))
    BY <1>2 DEF StandardSent
  <2> DEFINE v == Enqueue(w, n, None, None, delay, t)
  <2>2. n \in Queues /\ Become(v) /\ now' = now
    BY <2>1, SetsAssumption DEF Moves
  <2> HIDE DEF w
  <2>3. Remembered(v, now)
    BY <1>0, <2>2, StandardRemembers
  <2> HIDE DEF v
  <2> QED  BY <2>2, <2>3, BecomeRemembers
<1>3. CASE FifoSent
  <2>1. PICK n \in Sources \cap FifoQueues, g \in Groups, d \in DedupIds, t \in Clocks :
          Moves(SendLocked(w, n, g, d, 0, t))
    BY <1>3 DEF FifoSent
  <2> DEFINE v == SendLocked(w, n, g, d, 0, t)
  <2>2. Become(v) /\ now' = now
    BY <2>1 DEF Moves
  <2> HIDE DEF w
  <2>3. Remembered(v, now)
    BY <1>0, <1>1, SendRemembers
  <2> HIDE DEF v
  <2> QED  BY <2>2, <2>3, BecomeRemembers
<1>4. CASE Quiet
  <2>1. PICK v : Calm(w, v) /\ Moves(v)
    BY <1>4 DEF Quiet
  <2> HIDE DEF w
  <2>2. Remembered(v, now)
    BY <1>0, <2>1, CalmRemembers
  <2> QED  BY <2>1, <2>2, BecomeRemembers DEF Moves
<1>5. CASE Pruned
  <2>1. PICK n \in Queues, t \in Clocks : \E v : Calm(PruneDedup(w, n, t), v) /\ Moves(v)
    BY <1>5 DEF Pruned
  <2> DEFINE u == PruneDedup(w, n, t)
  <2>2. PICK v : Calm(u, v) /\ Moves(v)
    BY <2>1
  <2> HIDE DEF w
  <2>3. Remembered(u, now)
    BY <1>0, <1>1, PruneRemembers
  <2> HIDE DEF u
  <2>4. Remembered(v, now)
    BY <2>2, <2>3, CalmRemembers
  <2> QED  BY <2>2, <2>4, BecomeRemembers DEF Moves
<1>6. CASE \E n \in Queues : PurgeQueue(n)
  <2>0. /\ DOMAIN queues = Queues
        /\ \A n \in Queues : DOMAIN queues[n] = QFields
    BY <1>0 DEF Sound, Shape, QShape
  <2>1. PICK n \in Queues : PurgeQueue(n)
    BY <1>6
  <2> DEFINE v == World'
             r == queues'[n]
  <2>2. /\ queues' = [queues EXCEPT ![n] = r] /\ msg' = msg /\ now' = now
    BY <2>0, <2>1 DEF PurgeQueue
  <2>3. /\ r.purges = IF IsFIFO(n) THEN queues[n].purges + 1 ELSE queues[n].purges
        /\ r.dedup = IF IsFIFO(n) THEN {} ELSE queues[n].dedup
    <3> DEFINE q == queues[n]
               X == [q EXCEPT !.messages = <<>>, !.inflight = <<>>, !.byHandle = {},
                              !.delayed = 0, !.purgedAt = now,
                              !.purges = IF IsFIFO(n) THEN @ + 1 ELSE @,
                              !.dedup = IF IsFIFO(n) THEN {} ELSE @]
    <3>1. queues' = [queues EXCEPT ![n] = X]
      BY <2>1 DEF PurgeQueue
    <3>2. DOMAIN q = QFields
      BY <2>0
    <3> HIDE DEF q
    <3>3. X.purges = IF IsFIFO(n) THEN q.purges + 1 ELSE q.purges
      BY <3>2 DEF QFields
    <3>4. X.dedup = IF IsFIFO(n) THEN {} ELSE q.dedup
      BY <3>2 DEF QFields
    <3>5. r = X
      <4> HIDE DEF X
      <4> QED  BY <2>0, <3>1
    <3> HIDE DEF X, r
    <3> QED  BY <3>3, <3>4, <3>5 DEF q
  <2>4. v.msg = msg' /\ v.q = queues'
    BY DEF World
  <2> HIDE DEF r
  <2>5. /\ v.msg = w.msg /\ v.q[n] = r
        /\ \A k \in Queues : k # n => v.q[k] = w.q[k]
    BY <1>0, <2>0, <2>2, <2>4
  <2> HIDE DEF v, w
  <2>6. Remembered(v, now)
    BY <1>0, <2>3, <2>5, PurgeRemembers
  <2> QED  BY <2>2, <2>6 DEF v
<1>7. CASE Rebooted
  <2>1. PICK v : Calm(Reborn(w), v) /\ Become(v) /\ now' = now
    BY <1>7 DEF Rebooted
  <2> HIDE DEF w
  <2> DEFINE u == Reborn(w)
  <2>2. /\ u.msg = w.msg
        /\ \A k \in Queues : /\ u.q[k].dedup = w.q[k].dedup
                             /\ u.q[k].purges = w.q[k].purges
    BY <1>0, RestoredMemory
  <2> HIDE DEF u
  <2>3. Remembered(u, now)
    BY <1>0, <2>2, FieldsRemember
  <2>4. Remembered(v, now)
    BY <2>1, <2>3, CalmRemembers DEF u
  <2> QED  BY <2>1, <2>4, BecomeRemembers
<1>8. CASE Tick
  <2>1. World' = w /\ now' = now + 1
    BY <1>8 DEF Tick, World
  <2>2. now + 1 \in Int /\ now <= now + 1
    BY <1>0
  <2> HIDE DEF w
  <2>3. Remembered(w, now + 1)
    BY <1>0, <2>2, LaterRemembers
  <2> QED  BY <2>1, <2>3
<1> QED
  BY <1>0, <1>2, <1>3, <1>4, <1>5, <1>6, <1>7, <1>8, StepKinds

\* What is remembered implies the property: messages with one key are a
\* window apart.
LEMMA RememberedOnce ==
  ASSUME QueueInv, Remembered(World, now)
  PROVE  DedupOnce
<1>1. PICK S : msg \in Seq(S)
  BY WorldFields DEF QueueInv, Sound, Shape, IsSeq
<1>2. DOMAIN msg = 1 .. Len(msg)
  BY <1>1
<1>3. \A k, m \in 1 .. Len(msg) : k < m => Apart(msg[k], msg[m])
  BY WorldFields DEF Remembered
<1> QED
  BY <1>2, <1>3 DEF DedupOnce, Apart

\* For every set of queues, groups, deduplication ids, windows and lock delays,
\* and a map with room for every key: a FIFO queue accepts no two messages of
\* one group and deduplication id within the window, the janitor pruning with
\* a stale clock, purges, deletes and restarts between them included.  At its
\* cap the map evicts its oldest entry and does accept a copy, hence DedupRoom.
THEOREM DedupSafe == DedupRoom => (Spec => []DedupOnce)
<1> SUFFICES ASSUME DedupRoom PROVE Spec => []DedupOnce
  OBVIOUS
<1> DEFINE Inv == QueueInv /\ Remembered(World, now)
<1>1. Init => Inv
  BY InitInv, InitRemembers
<1>2. Inv /\ [Next]_vars => Inv'
  BY NextInv, NextRemembers
<1>3. Inv => DedupOnce
  BY RememberedOnce
<1> HIDE DEF Inv
<1> QED
  BY <1>1, <1>2, <1>3, PTL DEF Spec

-----------------------------------------------------------------------------
(* The rate limit.                                                         *)

\* How often u is among the first k elements of x.
Count(x, k, u) == Cardinality({j \in 1 .. k : x[j] = u})

\* One element more.
LEMMA CountStep ==
  ASSUME NEW x, NEW k \in Nat, NEW u
  PROVE  /\ Count(x, k, u) \in Nat /\ Count(x, k, u) <= k
         /\ Count(x, k + 1, u) = Count(x, k, u) + (IF x[k + 1] = u THEN 1 ELSE 0)
<1> DEFINE A == {j \in 1 .. k : x[j] = u}
           B == {j \in 1 .. k + 1 : x[j] = u}
<1>1. IsFiniteSet(1 .. k) /\ Cardinality(1 .. k) = k
  <2>1. IsFiniteSet(1 .. k) /\ Cardinality(1 .. k) = IF 1 > k THEN 0 ELSE k - 1 + 1
    BY FS_Interval
  <2> QED  BY <2>1
<1>2. A \subseteq 1 .. k
  OBVIOUS
<1>3. IsFiniteSet(A) /\ Cardinality(A) <= k /\ Cardinality(A) \in Nat
  <2> HIDE DEF A
  <2>1. IsFiniteSet(A) /\ Cardinality(A) <= Cardinality(1 .. k)
    BY <1>1, <1>2, FS_Subset
  <2> QED  BY <1>1, <2>1, FS_CardinalityType
<1>4. CASE x[k + 1] = u
  <2>1. B = A \cup {k + 1} /\ k + 1 \notin A
    BY <1>4
  <2> HIDE DEF A, B
  <2>2. Cardinality(A \cup {k + 1}) = Cardinality(A) + 1
    BY <1>3, <2>1, FS_AddElement
  <2>3. Cardinality(B) = Cardinality(A) + 1
    BY <2>1, <2>2
  <2> QED  BY <1>3, <1>4, <2>3 DEF Count, A, B
<1>5. CASE x[k + 1] # u
  <2>1. B = A
    BY <1>5
  <2> HIDE DEF A, B
  <2>2. Cardinality(B) = Cardinality(A) + 0
    BY <1>3, <2>1
  <2> QED  BY <1>3, <1>5, <2>2 DEF Count, A, B
<1> QED
  BY <1>4, <1>5

\* Nothing is among no elements.
LEMMA CountNone ==
  ASSUME NEW x, NEW u
  PROVE  Count(x, 0, u) = 0
<1>1. {j \in 1 .. 0 : x[j] = u} = {}
  OBVIOUS
<1> QED
  BY <1>1, FS_EmptySet DEF Count

\* An element appended.
LEMMA CountAppend ==
  ASSUME NEW a \in Seq(Int), NEW e \in Int, NEW u
  PROVE  LET b == Append(a, e)
         IN /\ b \in Seq(Int) /\ Len(b) = Len(a) + 1 /\ Len(a) \in Nat
            /\ Count(b, Len(b), u) = Count(a, Len(a), u) + (IF e = u THEN 1 ELSE 0)
<1> DEFINE b == Append(a, e)
           k == Len(a)
<1>1. /\ b \in Seq(Int) /\ Len(b) = k + 1 /\ k \in Nat /\ b[k + 1] = e
      /\ \A j \in 1 .. k : b[j] = a[j]
  OBVIOUS
<1> HIDE DEF b, k
<1>2. {j \in 1 .. k : b[j] = u} = {j \in 1 .. k : a[j] = u}
  BY <1>1
<1>3. Count(b, k, u) = Count(a, k, u)
  BY <1>2 DEF Count
<1>4. Count(b, k + 1, u) = Count(b, k, u) + (IF b[k + 1] = u THEN 1 ELSE 0)
  BY <1>1, CountStep, SMTT(30)
<1> QED
  BY <1>1, <1>3, <1>4 DEF b, k

\* The visits of checkFIFOPerGroupRateLimit to the stamps s.
RecentRun(q, g, t, f) ==
  LET s == q.sends[g]
  IN /\ f[0] = <<>>
     /\ \A i \in 1 .. Len(s) : f[i] = IF s[i] > t - 1 THEN Append(f[i - 1], s[i])
                                      ELSE f[i - 1]
     /\ RecentSends(q, g, t) = f[Len(s)]

\* checkFIFOPerGroupRateLimit goes through the stamps one by one.
LEMMA RecentPass ==
  ASSUME NEW q, NEW g, NEW t, q.sends[g] \in Seq(Int)
  PROVE  \E f : RecentRun(q, g, t, f)
<1> DEFINE s == q.sends[g]
           N == Len(s)
           visit(a, e) == IF e > t - 1 THEN Append(a, e) ELSE a
           h == CHOOSE f : f = [i \in 0 .. N |->
                  IF i = 0 THEN <<>> ELSE visit(f[i - 1], s[i])]
<1>1. RecentSends(q, g, t) = h[N]
  BY DEF RecentSends, Pass
<1>2. N \in Nat
  OBVIOUS
<1> HIDE DEF s, N, visit, h
<1>3. \E f : f = [i \in 0 .. N |-> IF i = 0 THEN <<>> ELSE visit(f[i - 1], s[i])]
  <2> DEFINE Q(f, k) == /\ f[0] = <<>>
                        /\ \A i \in 1 .. k : f[i] = visit(f[i - 1], s[i])
             T == {k \in 0 .. N : \E f : Q(f, k)}
  <2>1. 0 \in T
    <3>1. Q([i \in 0 .. N |-> <<>>], 0)
      BY <1>2
    <3> HIDE DEF Q
    <3> QED  BY <3>1, <1>2
  <2>2. ASSUME NEW k \in 1 .. N, k - 1 \in T PROVE k \in T
    <3>1. PICK f : Q(f, k - 1)
      BY <2>2
    <3> DEFINE e == [i \in 0 .. N |-> IF i = k THEN visit(f[k - 1], s[k]) ELSE f[i]]
    <3>2. /\ e[0] = <<>> /\ e[k] = visit(f[k - 1], s[k]) /\ e[k - 1] = f[k - 1]
      BY <3>1, <1>2
    <3>3. \A i \in 1 .. k - 1 : e[i] = f[i] /\ e[i - 1] = f[i - 1]
      BY <1>2
    <3> HIDE DEF e
    <3>4. \A i \in 1 .. k : i = k \/ i \in 1 .. k - 1
      BY <1>2
    <3>5. Q(e, k)
      BY <3>1, <3>2, <3>3, <3>4
    <3> HIDE DEF Q
    <3> QED  BY <3>5, <1>2
  <2>3. N \in T
    <3> HIDE DEF T
    <3> QED  BY <1>2, <2>1, <2>2, Upward
  <2>4. PICK f : Q(f, N)
    BY <2>3
  <2> DEFINE e == [i \in 0 .. N |-> f[i]]
  <2>5. e = [i \in 0 .. N |-> IF i = 0 THEN <<>> ELSE visit(e[i - 1], s[i])]
    BY <2>4, <1>2
  <2> HIDE DEF e
  <2> QED  BY <2>5
<1>4. h = [i \in 0 .. N |-> IF i = 0 THEN <<>> ELSE visit(h[i - 1], s[i])]
  BY <1>3 DEF h
<1>5. h[0] = <<>> /\ \A i \in 1 .. N : h[i] = visit(h[i - 1], s[i])
  BY <1>2, <1>4
<1> QED
  BY <1>1, <1>5 DEF N, s, visit, RecentRun

\* Pruning with the clock reading t, current or stale, keeps every stamp of
\* the present second u.
LEMMA RecentKeeps ==
  ASSUME NEW q, NEW g, NEW t \in Int, NEW u \in Int, t <= u, q.sends[g] \in Seq(Int)
  PROVE  LET r == RecentSends(q, g, t)
         IN /\ r \in Seq(Int)
            /\ Count(r, Len(r), u) = Count(q.sends[g], Len(q.sends[g]), u)
<1>1. PICK f : RecentRun(q, g, t, f)
  BY RecentPass
<1> DEFINE s == q.sends[g]
           N == Len(s)
<1>2. /\ f[0] = <<>>
      /\ \A i \in 1 .. N : f[i] = IF s[i] > t - 1 THEN Append(f[i - 1], s[i])
                                  ELSE f[i - 1]
      /\ RecentSends(q, g, t) = f[N]
  BY <1>1 DEF RecentRun
<1>3. N \in Nat /\ \A i \in 1 .. N : s[i] \in Int
  OBVIOUS
<1> HIDE DEF s, N
<1> DEFINE P(i) == f[i] \in Seq(Int) /\ Count(f[i], Len(f[i]), u) = Count(s, i, u)
           T == {i \in 0 .. N : P(i)}
<1>4. 0 \in T
  <2>1. Len(<<>>) = 0 /\ <<>> \in Seq(Int)
    OBVIOUS
  <2>2. P(0)
    BY <1>2, <2>1, CountNone
  <2> QED  BY <1>3, <2>2
<1>5. ASSUME NEW i \in 1 .. N, i - 1 \in T PROVE i \in T
  <2> DEFINE a == f[i - 1]
             e == s[i]
             k == i - 1
  <2>1. a \in Seq(Int) /\ Count(a, Len(a), u) = Count(s, k, u) /\ e \in Int /\ k \in Nat
    BY <1>3, <1>5
  <2>2. f[i] = IF e > t - 1 THEN Append(a, e) ELSE a
    BY <1>2
  <2>3. Count(s, i, u) = Count(s, k, u) + (IF e = u THEN 1 ELSE 0) /\ Count(s, k, u) \in Nat
    <3>1. k + 1 = i
      BY <1>3
    <3> HIDE DEF k, e
    <3> QED  BY <2>1, <3>1, CountStep, SMTT(30) DEF e
  <2> HIDE DEF a, e, k
  <2>4. CASE e > t - 1
    <3> DEFINE b == Append(a, e)
    <3>1. /\ b \in Seq(Int)
          /\ Count(b, Len(b), u) = Count(a, Len(a), u) + (IF e = u THEN 1 ELSE 0)
      BY <2>1, CountAppend
    <3>2. f[i] = b
      BY <2>2, <2>4
    <3> HIDE DEF b
    <3> QED  BY <2>1, <2>3, <3>1, <3>2
  <2>5. CASE ~(e > t - 1)
    <3>1. e # u
      BY <2>1, <2>5
    <3> QED  BY <2>1, <2>2, <2>3, <2>5, <3>1
  <2> QED  BY <2>4, <2>5, <1>3
<1>6. N \in T
  <2> HIDE DEF T
  <2> QED  BY <1>3, <1>4, <1>5, Upward
<1> QED
  BY <1>2, <1>6 DEF N, s

\* Message e was accepted by queue n for group g in second s of run b of the
\* server, with a current clock reading.
Counts(e, n, g, s, b) ==
  e.home = n /\ e.group = g /\ e.sent = s /\ e.at = s /\ e.boot = b

\* The messages that count for queue n, group g, second s and run b.
Accepted(w, n, g, s, b) == {m \in 1 .. Len(w.msg) : Counts(w.msg[m], n, g, s, b)}

\* How many stamps of second s the rate limiter has for queue n and group g.
Stamps(w, n, g, s) == Count(w.q[n].sends[g], Len(w.q[n].sends[g]), s)

\* The rate limiter in second t of run b: every message of this second has a
\* stamp, no message is of a later second or run, and no second of any run
\* has too many.
Paced(w, t, b) ==
  /\ Tagged(w)
  /\ \A n \in Queues : w.q[n].sends \in [Groups -> Seq(Int)]
  /\ \A m \in 1 .. Len(w.msg) : /\ w.msg[m].at \in Int /\ w.msg[m].at <= t
                                /\ w.msg[m].boot \in Int /\ w.msg[m].boot <= b
  /\ \A n \in RateLimited, g \in Groups :
       Cardinality(Accepted(w, n, g, t, b)) <= Stamps(w, n, g, t)
  /\ \A n \in RateLimited, g \in Groups, s \in Int, c \in Int :
       Cardinality(Accepted(w, n, g, s, c)) <= FifoTPS

\* They are finitely many.
LEMMA AcceptedType ==
  ASSUME NEW w, IsSeq(w.msg), NEW n, NEW g, NEW s, NEW b
  PROVE  /\ IsFiniteSet(Accepted(w, n, g, s, b))
         /\ Cardinality(Accepted(w, n, g, s, b)) \in Nat
<1> DEFINE A == Accepted(w, n, g, s, b)
           N == Len(w.msg)
<1>1. PICK S : w.msg \in Seq(S)
  BY DEF IsSeq
<1>2. N \in Nat /\ A \subseteq 1 .. N
  BY <1>1 DEF Accepted
<1>3. IsFiniteSet(1 .. N)
  BY <1>2, FS_Interval
<1> HIDE DEF A, N
<1>4. IsFiniteSet(A) /\ Cardinality(A) \in Nat
  BY <1>2, <1>3, FS_Subset, FS_CardinalityType
<1> QED
  BY <1>4 DEF A

\* A message added to the heap.
LEMMA AcceptedGrows ==
  ASSUME NEW w, IsSeq(w.msg), NEW e, NEW v, v.msg = Append(w.msg, e),
         NEW n, NEW g, NEW s, NEW b
  PROVE  /\ Cardinality(Accepted(w, n, g, s, b)) \in Nat
         /\ Cardinality(Accepted(v, n, g, s, b))
              = Cardinality(Accepted(w, n, g, s, b))
                + (IF Counts(e, n, g, s, b) THEN 1 ELSE 0)
<1> DEFINE N == Len(w.msg)
           h == v.msg
           A == Accepted(w, n, g, s, b)
           B == Accepted(v, n, g, s, b)
<1>1. /\ N \in Nat /\ Len(h) = N + 1 /\ h[N + 1] = e
      /\ \A i \in 1 .. N : h[i] = w.msg[i]
      /\ \A i \in 1 .. Len(h) : i \in 1 .. N \/ i = N + 1
  BY SentHeap
<1>2. IsFiniteSet(A) /\ Cardinality(A) \in Nat
  BY AcceptedType
<1>3. \A i \in 1 .. N : i \in 1 .. Len(h) /\ i # N + 1
  BY <1>1
<1> HIDE DEF N, h
<1>4. CASE Counts(e, n, g, s, b)
  <2>1. B = A \cup {N + 1} /\ N + 1 \notin A
    <3>1. N + 1 \in 1 .. Len(h)
      BY <1>1
    <3>2. \A i : i \in B <=> i \in 1 .. Len(h) /\ Counts(h[i], n, g, s, b)
      BY DEF Accepted, h
    <3>3. \A i : i \in A <=> i \in 1 .. N /\ Counts(w.msg[i], n, g, s, b)
      BY DEF Accepted, N
    <3> HIDE DEF A, B
    <3> QED  BY <1>1, <1>3, <1>4, <3>1, <3>2, <3>3
  <2> HIDE DEF A, B
  <2>2. Cardinality(A \cup {N + 1}) = Cardinality(A) + 1
    BY <1>2, <2>1, FS_AddElement
  <2> QED  BY <1>2, <1>4, <2>1, <2>2 DEF A, B
<1>5. CASE ~Counts(e, n, g, s, b)
  <2>1. B = A
    <3>1. \A i : i \in B <=> i \in 1 .. Len(h) /\ Counts(h[i], n, g, s, b)
      BY DEF Accepted, h
    <3>2. \A i : i \in A <=> i \in 1 .. N /\ Counts(w.msg[i], n, g, s, b)
      BY DEF Accepted, N
    <3> HIDE DEF A, B
    <3> QED  BY <1>1, <1>3, <1>5, <3>1, <3>2
  <2> HIDE DEF A, B
  <2>2. Cardinality(B) = Cardinality(A) + 0
    BY <1>2, <2>1
  <2> QED  BY <1>5, <1>2, <2>2 DEF A, B
<1> QED
  BY <1>4, <1>5

\* A count of stamps is a number.
LEMMA StampsType ==
  ASSUME NEW w, NEW n, NEW g, w.q[n].sends[g] \in Seq(Int), NEW s
  PROVE  Stamps(w, n, g, s) \in Nat /\ Stamps(w, n, g, s) <= Len(w.q[n].sends[g])
<1> DEFINE x == w.q[n].sends[g]
           k == Len(x)
<1>1. k \in Nat
  OBVIOUS
<1> HIDE DEF x, k
<1>2. Count(x, k, s) \in Nat /\ Count(x, k, s) <= k
  BY <1>1, CountStep
<1> QED
  BY <1>2 DEF Stamps, x, k

\* What leaves the tags and the stamps leaves the pace.
LEMMA PacedSame ==
  ASSUME NEW w, NEW v, NEW t, NEW b, Paced(w, t, b), Len(v.msg) = Len(w.msg),
         \A m \in 1 .. Len(w.msg) : SameTags(w.msg[m], v.msg[m]),
         \A k \in Queues : v.q[k].sends = w.q[k].sends
  PROVE  Paced(v, t, b)
<1>1. ASSUME NEW n, NEW g, NEW s, NEW c
      PROVE  Accepted(v, n, g, s, c) = Accepted(w, n, g, s, c)
  <2>1. \A m \in 1 .. Len(w.msg) : Counts(v.msg[m], n, g, s, c) <=> Counts(w.msg[m], n, g, s, c)
    BY DEF Counts, SameTags
  <2> QED  BY <2>1 DEF Accepted
<1>2. ASSUME NEW n \in RateLimited, NEW g, NEW s
      PROVE  Stamps(v, n, g, s) = Stamps(w, n, g, s)
  <2>1. n \in Queues
    BY SetsAssumption
  <2> QED  BY <2>1 DEF Stamps
<1>3. Tagged(v)
  BY DEF Tagged, SameTags
<1>4. \A m \in 1 .. Len(v.msg) : /\ v.msg[m].at \in Int /\ v.msg[m].at <= t
                                 /\ v.msg[m].boot \in Int /\ v.msg[m].boot <= b
  BY DEF Paced, SameTags
<1>5. \A n \in Queues : v.q[n].sends \in [Groups -> Seq(Int)]
  BY DEF Paced
<1>6. \A n \in RateLimited, g \in Groups :
        Cardinality(Accepted(v, n, g, t, b)) <= Stamps(v, n, g, t)
  BY <1>1, <1>2 DEF Paced
<1>7. \A n \in RateLimited, g \in Groups, s \in Int, c \in Int :
        Cardinality(Accepted(v, n, g, s, c)) <= FifoTPS
  BY <1>1 DEF Paced
<1> QED
  BY <1>3, <1>4, <1>5, <1>6, <1>7 DEF Paced

\* A later second or a later run begins with no message, whatever stamps
\* there are.
LEMMA LaterPaced ==
  ASSUME NEW w, NEW v, NEW t \in Int, NEW b \in Int, Paced(w, t, b),
         NEW u \in Int, NEW c \in Int, t <= u, b <= c, t < u \/ b < c,
         v.msg = w.msg, \A k \in Queues : v.q[k].sends \in [Groups -> Seq(Int)]
  PROVE  Paced(v, u, c)
<1>1. ASSUME NEW n, NEW g, NEW s, NEW a
      PROVE  Accepted(v, n, g, s, a) = Accepted(w, n, g, s, a)
  BY DEF Accepted
<1>2. ASSUME NEW n \in RateLimited, NEW g \in Groups
      PROVE  Cardinality(Accepted(v, n, g, u, c)) <= Stamps(v, n, g, u)
  <2>1. Accepted(v, n, g, u, c) = {}
    BY DEF Accepted, Counts, Paced
  <2>2. n \in Queues
    BY SetsAssumption
  <2>3. Stamps(v, n, g, u) \in Nat
    <3>1. v.q[n].sends[g] \in Seq(Int)
      BY <2>2
    <3> QED  BY <3>1, StampsType
  <2> QED  BY <2>1, <2>3, FS_EmptySet
<1>3. Tagged(v)
  BY DEF Tagged, Paced
<1>4. \A m \in 1 .. Len(v.msg) : /\ v.msg[m].at \in Int /\ v.msg[m].at <= u
                                 /\ v.msg[m].boot \in Int /\ v.msg[m].boot <= c
  BY DEF Paced
<1>5. \A n \in RateLimited, g \in Groups, s \in Int, a \in Int :
        Cardinality(Accepted(v, n, g, s, a)) <= FifoTPS
  BY <1>1 DEF Paced
<1> QED
  BY <1>2, <1>3, <1>4, <1>5 DEF Paced

\* A message sent to queue n, now r.
LEMMA SentPaced ==
  ASSUME NEW w, Sound(w), NEW n \in Queues, NEW t \in Int, NEW b \in Int,
         Paced(w, t, b), NEW e, NEW r, r.sends = w.q[n].sends,
         Tags \subseteq DOMAIN e, e.home = n, e.at \in Int, e.at <= t,
         e.boot \in Int, e.boot <= b,
         n \in RateLimited /\ e.sent = e.at =>
           /\ e.group \in Groups /\ e.at = t /\ e.boot = b
           /\ Cardinality(Accepted(w, n, e.group, t, b)) < Stamps(w, n, e.group, t)
           /\ Cardinality(Accepted(w, n, e.group, t, b)) < FifoTPS
  PROVE  Paced(Sent(w, n, e, r), t, b)
<1> DEFINE v == Sent(w, n, e, r)
           N == Len(w.msg)
           h == Append(w.msg, e)
<1>1. DOMAIN w = {"msg", "q", "uuid", "gone"} /\ DOMAIN w.q = Queues /\ IsSeq(w.msg)
  BY DEF Sound, Shape
<1>2. /\ v.msg = h /\ v.q[n] = r /\ \A k \in Queues : k # n => v.q[k] = w.q[k]
  BY <1>1 DEF Sent
<1> HIDE DEF v
<1>3. /\ N \in Nat /\ Len(h) = N + 1 /\ h[N + 1] = e
      /\ \A i \in 1 .. N : h[i] = w.msg[i]
      /\ \A i \in 1 .. Len(h) : i \in 1 .. N \/ i = N + 1
  BY <1>1, SentHeap
<1>4. ASSUME NEW k, NEW g, NEW s, NEW c
      PROVE  /\ Cardinality(Accepted(w, k, g, s, c)) \in Nat
             /\ Cardinality(Accepted(v, k, g, s, c))
                  = Cardinality(Accepted(w, k, g, s, c))
                    + (IF Counts(e, k, g, s, c) THEN 1 ELSE 0)
  BY <1>1, <1>2, AcceptedGrows, SMTT(30)
<1> HIDE DEF h
<1>5. \A k \in Queues : v.q[k].sends = w.q[k].sends
  BY <1>2
<1>6. Tagged(v) /\ \A m \in 1 .. Len(v.msg) :
                     /\ v.msg[m].at \in Int /\ v.msg[m].at <= t
                     /\ v.msg[m].boot \in Int /\ v.msg[m].boot <= b
  BY <1>2, <1>3 DEF Paced, Tagged
<1>7. ASSUME NEW k \in RateLimited, NEW g \in Groups
      PROVE  Cardinality(Accepted(v, k, g, t, b)) <= Stamps(v, k, g, t)
  <2>1. k \in Queues
    BY SetsAssumption
  <2>2. Stamps(v, k, g, t) = Stamps(w, k, g, t)
    BY <1>5, <2>1 DEF Stamps
  <2>3. Stamps(w, k, g, t) \in Nat
    <3>1. w.q[k].sends[g] \in Seq(Int)
      BY <2>1 DEF Paced
    <3> QED  BY <3>1, StampsType
  <2>4. Cardinality(Accepted(w, k, g, t, b)) <= Stamps(w, k, g, t)
    BY DEF Paced
  <2>5. CASE Counts(e, k, g, t, b)
    <3>1. Cardinality(Accepted(w, k, g, t, b)) < Stamps(w, k, g, t)
      BY <2>5 DEF Counts
    <3> QED  BY <1>4, <2>2, <2>3, <2>5, <3>1
  <2>6. CASE ~Counts(e, k, g, t, b)
    BY <1>4, <2>2, <2>3, <2>4, <2>6
  <2> QED  BY <2>5, <2>6
<1>8. ASSUME NEW k \in RateLimited, NEW g \in Groups, NEW s \in Int, NEW c \in Int
      PROVE  Cardinality(Accepted(v, k, g, s, c)) <= FifoTPS
  <2>1. Cardinality(Accepted(w, k, g, s, c)) <= FifoTPS /\ FifoTPS \in Int
    BY NumbersAssumption DEF Paced
  <2>2. CASE Counts(e, k, g, s, c)
    <3>1. s = t /\ c = b /\ Cardinality(Accepted(w, k, g, t, b)) < FifoTPS
      BY <2>2 DEF Counts
    <3> QED  BY <1>4, <2>1, <2>2, <3>1
  <2>3. CASE ~Counts(e, k, g, s, c)
    BY <1>4, <2>1, <2>3
  <2> QED  BY <2>2, <2>3
<1>9. \A k \in Queues : v.q[k].sends \in [Groups -> Seq(Int)]
  BY <1>5 DEF Paced
<1>10. Paced(v, t, b)
  BY <1>6, <1>7, <1>8, <1>9 DEF Paced
<1> QED
  BY <1>10 DEF v

\* The state with new stamps for group g of queue n.
Stamped(w, n, g, y) == [w EXCEPT !.q[n].sends[g] = y]

\* No stamp of the present second lost.
LEMMA StampedPaced ==
  ASSUME NEW w, Sound(w), NEW t, NEW b, Paced(w, t, b), NEW n \in Queues,
         NEW g \in Groups, NEW y \in Seq(Int), Stamps(w, n, g, t) <= Count(y, Len(y), t),
         NEW z, z = Stamped(w, n, g, y)
  PROVE  /\ Paced(z, t, b) /\ z.msg = w.msg /\ z.q[n].sends[g] = y
         /\ z.q[n].dedup = w.q[n].dedup
<1>1. /\ DOMAIN w = {"msg", "q", "uuid", "gone"} /\ DOMAIN w.q = Queues
      /\ DOMAIN w.q[n] = QFields
  BY DEF Sound, Shape, QShape
<1>2. \A k \in Queues : w.q[k].sends \in [Groups -> Seq(Int)]
  BY DEF Paced
<1> DEFINE x == [w.q[n].sends EXCEPT ![g] = y]
<1>3. z = [w EXCEPT !.q[n].sends = x]
  BY DEF Stamped
<1>4. x \in [Groups -> Seq(Int)] /\ x[g] = y /\ \A k \in Groups : k # g => x[k] = w.q[n].sends[k]
  BY <1>2
<1> HIDE DEF x
<1>5. /\ z.msg = w.msg /\ z.q[n].sends = x /\ z.q[n].dedup = w.q[n].dedup
      /\ \A k \in Queues : k # n => z.q[k] = w.q[k]
  BY <1>1, <1>3 DEF QFields
<1>6. ASSUME NEW k, NEW j, NEW s, NEW c
      PROVE  Accepted(z, k, j, s, c) = Accepted(w, k, j, s, c)
  BY <1>5 DEF Accepted
<1>7. ASSUME NEW k \in RateLimited, NEW j \in Groups
      PROVE  Cardinality(Accepted(z, k, j, t, b)) <= Stamps(z, k, j, t)
  <2>1. k \in Queues
    BY SetsAssumption
  <2>2. Cardinality(Accepted(z, k, j, t, b)) <= Stamps(w, k, j, t)
    BY <1>6 DEF Paced
  <2>3. Stamps(w, k, j, t) \in Nat
    <3>1. w.q[k].sends[j] \in Seq(Int)
      BY <1>2, <2>1
    <3> QED  BY <3>1, StampsType
  <2>4. Cardinality(Accepted(z, k, j, t, b)) \in Nat
    <3>1. IsSeq(w.msg)
      BY DEF Sound, Shape
    <3>2. Cardinality(Accepted(w, k, j, t, b)) \in Nat
      BY <3>1, AcceptedType
    <3> QED  BY <1>6, <3>2
  <2>5. CASE k = n /\ j = g
    <3>1. Stamps(z, k, j, t) = Count(y, Len(y), t)
      BY <1>4, <1>5, <2>5 DEF Stamps
    <3>2. Count(y, Len(y), t) \in Nat
      <4>1. Len(y) \in Nat
        OBVIOUS
      <4> QED  BY <4>1, CountStep
    <3> QED  BY <2>2, <2>3, <2>4, <2>5, <3>1, <3>2
  <2>6. CASE ~(k = n /\ j = g)
    <3>1. z.q[k].sends[j] = w.q[k].sends[j]
      BY <1>4, <1>5, <2>1, <2>6
    <3> QED  BY <2>2, <3>1 DEF Stamps
  <2> QED  BY <2>5, <2>6
<1>8. \A k \in Queues : z.q[k].sends \in [Groups -> Seq(Int)]
  BY <1>2, <1>4, <1>5
<1>9. Tagged(z) /\ \A m \in 1 .. Len(z.msg) :
                     /\ z.msg[m].at \in Int /\ z.msg[m].at <= t
                     /\ z.msg[m].boot \in Int /\ z.msg[m].boot <= b
  BY <1>5 DEF Tagged, Paced
<1>10. ASSUME NEW k \in RateLimited, NEW j \in Groups, NEW s \in Int, NEW c \in Int
       PROVE  Cardinality(Accepted(z, k, j, s, c)) <= FifoTPS
  <2>1. Cardinality(Accepted(w, k, j, s, c)) <= FifoTPS
    BY DEF Paced
  <2> QED  BY <1>6, <2>1
<1> QED
  BY <1>4, <1>5, <1>7, <1>8, <1>9, <1>10 DEF Paced

\* A standard queue has no rate limit.
LEMMA StandardPaced ==
  ASSUME NEW w, Sound(w), NEW n \in Queues, n \notin FifoQueues, NEW u \in Nat,
         NEW b \in Nat, Paced(w, u, b), NEW g, NEW d, NEW delay, NEW t
  PROVE  Paced(Enqueue(w, n, g, d, delay, t), u, b)
<1> DEFINE q == w.q[n]
           m == Len(w.msg) + 1
           vis == VisibleAt(q, delay, t)
           e == [home |-> n, group |-> g, dedup |-> d, seq |-> 0,
                 sent |-> t, visibleAt |-> vis, rc |-> 0,
                 handle |-> 0, epoch |-> q.purges, at |-> 0, boot |-> 0]
           late == IF t < vis THEN 1 ELSE 0
           r == [q EXCEPT !.seqCtr = 0, !.dedup = @, !.delayed = @ + late,
                          !.messages = Append(@, m), !.active = TRUE]
<1>1. DOMAIN q = QFields
  BY DEF Sound, Shape, QShape
<1>2. Enqueue(w, n, g, d, delay, t) = Sent(w, n, e, r)
  <2>1. ~IsFIFO(n)
    BY DEF IsFIFO
  <2> QED  BY <2>1, Zenon DEF Enqueue, Sent
<1> HIDE DEF vis, late, m
<1>3. r.sends = w.q[n].sends
  BY <1>1 DEF QFields
<1>4. /\ Tags \subseteq DOMAIN e /\ e.home = n /\ e.at = 0 /\ e.boot = 0
  BY DEF Tags
<1> HIDE DEF e, r, q
<1>5. n \notin RateLimited /\ u \in Int /\ b \in Int
  BY SetsAssumption
<1>6. Paced(Sent(w, n, e, r), u, b)
  BY <1>3, <1>4, <1>5, SentPaced
<1> QED
  BY <1>2, <1>6

\* A message accepted by a FIFO queue.
LEMMA EnqueuePaced ==
  ASSUME NEW w, Sound(w), NEW n \in FifoQueues, now \in Int, restarts \in Int,
         Paced(w, now, restarts), NEW g \in Groups, NEW d, NEW delay, NEW t,
         n \in RateLimited /\ t = now =>
           /\ Cardinality(Accepted(w, n, g, now, restarts)) < Stamps(w, n, g, now)
           /\ Cardinality(Accepted(w, n, g, now, restarts)) < FifoTPS
  PROVE  Paced(Enqueue(w, n, g, d, delay, t), now, restarts)
<1> DEFINE q == w.q[n]
           m == Len(w.msg) + 1
           seq == q.seqCtr + 1
           vis == VisibleAt(q, delay, t)
           e == [home |-> n, group |-> g, dedup |-> d, seq |-> seq,
                 sent |-> t, visibleAt |-> vis, rc |-> 0,
                 handle |-> 0, epoch |-> q.purges, at |-> now, boot |-> restarts]
           dd == EvictOldest({x \in q.dedup : x.key # DedupKey(g, d)})
                   \cup {DedupEntry(g, d, t, m)}
           late == IF t < vis THEN 1 ELSE 0
           r == [q EXCEPT !.seqCtr = seq, !.dedup = dd, !.delayed = @ + late,
                          !.messages = Append(@, m), !.active = TRUE]
<1>0. n \in Queues
  BY SetsAssumption
<1>1. DOMAIN q = QFields
  BY <1>0 DEF Sound, Shape, QShape
<1>2. Enqueue(w, n, g, d, delay, t) = Sent(w, n, e, r)
  <2>1. IsFIFO(n)
    BY DEF IsFIFO
  <2> QED  BY <2>1, Zenon DEF Enqueue, Sent
<1> HIDE DEF vis, late, m, seq, dd
<1>3. r.sends = w.q[n].sends
  BY <1>1 DEF QFields
<1>4. /\ Tags \subseteq DOMAIN e /\ e.home = n /\ e.at = now /\ e.sent = t
      /\ e.boot = restarts /\ e.group = g
  BY DEF Tags
<1> HIDE DEF e, r, q
<1>5. Paced(Sent(w, n, e, r), now, restarts)
  BY <1>0, <1>3, <1>4, SentPaced
<1> QED
  BY <1>2, <1>5

\* A send to a FIFO queue: over the rate, a duplicate or accepted.
LEMMA SendPaced ==
  ASSUME NEW w, Sound(w), NEW n \in FifoQueues, now \in Int, restarts \in Int,
         Paced(w, now, restarts), NEW g \in Groups, NEW d, NEW delay,
         NEW t \in Int, t <= now
  PROVE  Paced(SendLocked(w, n, g, d, delay, t), now, restarts)
<1> DEFINE q == w.q[n]
           recent == RecentSends(q, g, t)
           limited == n \in RateLimited /\ Len(recent) >= FifoTPS
           y == IF limited THEN recent ELSE Append(recent, t)
           z == Stamped(w, n, g, y)
           counted == IF n \notin RateLimited THEN w ELSE z
           x == [w.q[n].sends EXCEPT ![g] = y]
           A == Cardinality(Accepted(w, n, g, now, restarts))
           S == Stamps(w, n, g, now)
<1>0. n \in Queues /\ IsFIFO(n)
  BY SetsAssumption DEF IsFIFO
<1>1. \/ SendLocked(w, n, g, d, delay, t) = counted
      \/ ~limited /\ SendLocked(w, n, g, d, delay, t) = Enqueue(counted, n, g, d, delay, t)
  BY <1>0, Zenon DEF SendLocked, Stamped
<1>2. q.sends[g] \in Seq(Int)
  BY <1>0 DEF Paced
<1>3. recent \in Seq(Int) /\ Count(recent, Len(recent), now) = S /\ S \in Nat
  <2>1. /\ recent \in Seq(Int)
        /\ Count(recent, Len(recent), now) = Count(q.sends[g], Len(q.sends[g]), now)
    <3> HIDE DEF q
    <3> QED  BY <1>2, RecentKeeps
  <2>2. S \in Nat
    BY <1>2, StampsType
  <2> QED  BY <2>1, <2>2 DEF Stamps
<1> HIDE DEF recent, S
<1>4. Len(recent) \in Nat /\ S <= Len(recent)
  <2>1. Len(recent) \in Nat
    BY <1>3
  <2> QED  BY <1>3, <2>1, CountStep
<1>5. y \in Seq(Int) /\ Count(y, Len(y), now)
                          = S + (IF ~limited /\ t = now THEN 1 ELSE 0)
  <2> DEFINE b == Append(recent, t)
  <2>1. /\ b \in Seq(Int)
        /\ Count(b, Len(b), now) = Count(recent, Len(recent), now)
                                     + (IF t = now THEN 1 ELSE 0)
    BY <1>3, CountAppend
  <2> HIDE DEF b
  <2>2. CASE limited
    <3>1. y = recent
      BY <2>2
    <3> HIDE DEF y, limited
    <3> QED  BY <1>3, <2>2, <3>1
  <2>3. CASE ~limited
    <3>1. y = b
      BY <2>3 DEF b
    <3> HIDE DEF y, limited
    <3> QED  BY <1>3, <2>1, <2>3, <3>1
  <2> QED  BY <2>2, <2>3
<1>6. A \in Nat /\ (n \in RateLimited => A <= S)
  <2>1. A \in Nat
    BY AcceptedType DEF Sound, Shape
  <2> QED  BY <2>1 DEF Paced, S
<1> HIDE DEF y
<1>7. /\ Sound(z) /\ Paced(z, now, restarts) /\ z.msg = w.msg /\ z.q[n].sends[g] = y
  <2>1. z = [w EXCEPT !.q[n].sends = x]
    BY DEF Stamped
  <2> HIDE DEF x
  <2>2. Sound([w EXCEPT !.q[n].sends = x])
    BY <1>0, FieldKeeps, Zenon
  <2>3. Stamps(w, n, g, now) <= Count(y, Len(y), now)
    <3> HIDE DEF limited
    <3> QED  BY <1>3, <1>5 DEF S
  <2>4. Paced(z, now, restarts) /\ z.msg = w.msg /\ z.q[n].sends[g] = y
    <3>1. z = Stamped(w, n, g, y) /\ y \in Seq(Int)
      BY <1>5
    <3> HIDE DEF z, limited, q
    <3> QED  BY <1>0, <2>3, <3>1, StampedPaced
  <2> QED  BY <2>1, <2>2, <2>4, Zenon
<1> HIDE DEF z
<1>8. Sound(counted) /\ Paced(counted, now, restarts)
  BY <1>7
<1>9. ASSUME ~limited, n \in RateLimited, t = now
      PROVE  /\ Cardinality(Accepted(counted, n, g, now, restarts))
                  < Stamps(counted, n, g, now)
             /\ Cardinality(Accepted(counted, n, g, now, restarts)) < FifoTPS
  <2>1. counted = z
    BY <1>9
  <2>2. Accepted(z, n, g, now, restarts) = Accepted(w, n, g, now, restarts)
    BY <1>7 DEF Accepted
  <2>3. Stamps(z, n, g, now) = S + 1
    BY <1>5, <1>7, <1>9 DEF Stamps
  <2>4. Len(recent) < FifoTPS /\ FifoTPS \in Int
    BY <1>4, <1>9, NumbersAssumption
  <2> HIDE DEF counted, limited
  <2>5. A < S + 1 /\ A < FifoTPS
    BY <1>3, <1>4, <1>6, <1>9, <2>4
  <2> QED  BY <2>1, <2>2, <2>3, <2>5
<1> HIDE DEF counted, limited, A
<1>10. ~limited => Paced(Enqueue(counted, n, g, d, delay, t), now, restarts)
  BY <1>8, <1>9, EnqueuePaced
<1> QED
  BY <1>1, <1>8, <1>10

\* The next world keeps the pace of v.
LEMMA BecomePaced ==
  ASSUME NEW v, NEW t, NEW b, Paced(v, t, b), Become(v)
  PROVE  Paced(World', t, b)
<1> DEFINE u == World'
<1>1. u.msg = v.msg /\ u.q = v.q
  BY DEF Become, World
<1> HIDE DEF u
<1>2. \A m \in 1 .. Len(v.msg) : SameTags(v.msg[m], u.msg[m])
  BY <1>1 DEF Paced, Tagged, SameTags
<1>3. Paced(u, t, b)
  BY <1>1, <1>2, PacedSame
<1> QED
  BY <1>3 DEF u

\* At the start nothing was accepted.
LEMMA InitPaced == Init => restarts \in Nat /\ Paced(World, now, restarts)
<1> SUFFICES ASSUME Init PROVE restarts \in Nat /\ Paced(World, now, restarts)
  OBVIOUS
<1> DEFINE w == World
<1>1. w.msg = <<>> /\ w.q = queues /\ restarts = 0 /\ now = 0
  BY DEF World, Init
<1>2. ASSUME NEW k \in Queues PROVE queues[k].sends = [g \in Groups |-> <<>>]
  <2>1. queues[k] = NewQueue(k)
    BY DEF Init
  <2>2. NewQueue(k).sends = [g \in Groups |-> <<>>]
    BY DEF NewQueue
  <2> QED  BY <2>1, <2>2
<1>3. 1 .. Len(w.msg) = {}
  BY <1>1
<1> HIDE DEF w
<1>4. \A k \in Queues : w.q[k].sends \in [Groups -> Seq(Int)]
  <2>1. [g \in Groups |-> <<>>] \in [Groups -> Seq(Int)]
    OBVIOUS
  <2> QED  BY <1>1, <1>2, <2>1, Zenon
<1>5. \A n, g, s, b : Cardinality(Accepted(w, n, g, s, b)) = 0
  <2>1. \A n, g, s, b : Accepted(w, n, g, s, b) = {}
    BY <1>3 DEF Accepted
  <2> QED  BY <2>1, FS_EmptySet
<1>6. ASSUME NEW n \in RateLimited, NEW g \in Groups
      PROVE  Stamps(w, n, g, now) \in Nat
  <2>1. n \in Queues
    BY SetsAssumption
  <2>2. w.q[n].sends[g] \in Seq(Int)
    BY <1>4, <2>1
  <2> QED  BY <2>2, StampsType
<1>7. Paced(w, now, restarts)
  BY <1>3, <1>4, <1>5, <1>6, NumbersAssumption DEF Paced, Tagged
<1> QED
  BY <1>1, <1>7 DEF w

\* Every step keeps the pace.
LEMMA NextPaced ==
  ASSUME QueueInv, restarts \in Nat, Paced(World, now, restarts), [Next]_vars
  PROVE  restarts' \in Nat /\ Paced(World, now, restarts)'
<1> DEFINE w == World
<1>0. /\ Sound(w) /\ w.msg = msg /\ w.q = queues /\ now \in Nat
      /\ Paced(w, now, restarts) /\ Tagged(w)
      /\ \A k \in Queues : w.q[k].sends \in [Groups -> Seq(Int)]
  BY WorldFields DEF QueueInv, Paced
<1>1. \A t \in Clocks : t \in Int /\ t <= now
  BY <1>0 DEF Clocks
<1>a. now \in Int /\ restarts \in Int
  BY <1>0
<1>2. CASE StandardSent
  <2>1. PICK n \in Sources \ FifoQueues, delay \in Delays, t \in Clocks :
          Moves(Enqueue(w, n, None, None, delay, t))
    BY <1>2 DEF StandardSent
  <2> DEFINE v == Enqueue(w, n, None, None, delay, t)
  <2>2. n \in Queues /\ Moves(v)
    BY <2>1, SetsAssumption
  <2> HIDE DEF w
  <2>3. Paced(v, now, restarts)
    BY <1>0, <2>2, StandardPaced
  <2> HIDE DEF v
  <2> QED  BY <2>2, <2>3, BecomePaced DEF Moves
<1>3. CASE FifoSent
  <2>1. PICK n \in Sources \cap FifoQueues, g \in Groups, d \in DedupIds, t \in Clocks :
          Moves(SendLocked(w, n, g, d, 0, t))
    BY <1>3 DEF FifoSent
  <2> DEFINE v == SendLocked(w, n, g, d, 0, t)
  <2>2. Moves(v)
    BY <2>1
  <2> HIDE DEF w
  <2>3. Paced(v, now, restarts)
    BY <1>0, <1>1, <1>a, SendPaced
  <2> HIDE DEF v
  <2> QED  BY <2>2, <2>3, BecomePaced DEF Moves
<1>4. CASE Quiet
  <2>1. PICK v : Calm(w, v) /\ Moves(v)
    BY <1>4 DEF Quiet
  <2> HIDE DEF w
  <2>2. Paced(v, now, restarts)
    BY <1>0, <2>1, PacedSame DEF Calm, SameMemory
  <2> QED  BY <2>1, <2>2, BecomePaced DEF Moves
<1>5. CASE Pruned
  <2>1. PICK n \in Queues, t \in Clocks : \E v : Calm(PruneDedup(w, n, t), v) /\ Moves(v)
    BY <1>5 DEF Pruned
  <2> DEFINE u == PruneDedup(w, n, t)
  <2>2. PICK v : Calm(u, v) /\ Moves(v)
    BY <2>1
  <2> HIDE DEF w
  <2>3. /\ u.msg = w.msg /\ \A k \in Queues : u.q[k].sends = w.q[k].sends
        /\ Tagged(u)
    BY <1>0, PrunedTagged
  <2> HIDE DEF u
  <2>4. Paced(u, now, restarts)
    BY <1>0, <2>3, PacedSame DEF Tagged, SameTags
  <2>5. Paced(v, now, restarts)
    BY <2>2, <2>4, PacedSame DEF Calm, SameMemory
  <2> QED  BY <2>2, <2>5, BecomePaced DEF Moves
<1>6. CASE \E n \in Queues : PurgeQueue(n)
  <2>0. /\ DOMAIN queues = Queues
        /\ \A n \in Queues : DOMAIN queues[n] = QFields
    BY <1>0 DEF Sound, Shape, QShape
  <2>1. PICK n \in Queues : PurgeQueue(n)
    BY <1>6
  <2>2. /\ msg' = msg /\ now' = now /\ restarts' = restarts
        /\ \A k \in Queues : queues'[k].sends = queues[k].sends
    BY <2>0, <2>1 DEF PurgeQueue, QFields
  <2> DEFINE v == World'
  <2>3. v.msg = w.msg /\ \A k \in Queues : v.q[k].sends = w.q[k].sends
    BY <1>0, <2>2 DEF World
  <2> HIDE DEF v, w
  <2>4. Paced(v, now, restarts)
    BY <1>0, <2>3, PacedSame DEF Tagged, SameTags
  <2> QED  BY <2>2, <2>4 DEF v
<1>7. CASE Rebooted
  <2>1. PICK v : Calm(Reborn(w), v) /\ Become(v) /\ now' = now /\ restarts' = restarts + 1
    BY <1>7 DEF Rebooted
  <2> HIDE DEF w
  <2> DEFINE u == Reborn(w)
             b == restarts + 1
  <2>2. u.msg = w.msg /\ \A k \in Queues : u.q[k].sends = [g \in Groups |-> <<>>]
    BY <1>0, RestoredMemory
  <2>3. \A k \in Queues : u.q[k].sends \in [Groups -> Seq(Int)]
    <3>1. [g \in Groups |-> <<>>] \in [Groups -> Seq(Int)]
      OBVIOUS
    <3> QED  BY <2>2, <3>1, Zenon
  <2>4. b \in Int /\ restarts <= b /\ restarts < b
    BY <1>a
  <2> HIDE DEF u, b
  <2>5. Paced(u, now, b)
    BY <1>0, <1>a, <2>2, <2>3, <2>4, LaterPaced
  <2>6. Paced(v, now, b)
    BY <2>1, <2>5, PacedSame DEF Calm, SameMemory, u
  <2>7. Paced(World', now, b)
    BY <2>1, <2>6, BecomePaced
  <2> QED  BY <2>1, <2>7 DEF b
<1>8. CASE Tick
  <2>1. World' = w /\ now' = now + 1 /\ restarts' = restarts
    BY <1>8 DEF Tick, World
  <2> DEFINE u == now + 1
  <2>2. u \in Int /\ now <= u /\ now < u /\ restarts <= restarts
    BY <1>0
  <2> HIDE DEF w, u
  <2>3. Paced(w, u, restarts)
    BY <1>0, <1>a, <2>2, LaterPaced, Zenon
  <2> QED  BY <2>1, <2>3 DEF u
<1> QED
  BY <1>0, <1>2, <1>3, <1>4, <1>5, <1>6, <1>7, <1>8, StepKinds

\* The pace implies the property.
LEMMA PacedBounded ==
  ASSUME QueueInv, Paced(World, now, restarts)
  PROVE  RateBounded
<1>1. PICK S : msg \in Seq(S)
  BY WorldFields DEF QueueInv, Sound, Shape, IsSeq
<1>2. DOMAIN msg = 1 .. Len(msg)
  BY <1>1
<1>3. World.msg = msg
  BY WorldFields
<1>4. ASSUME NEW n \in RateLimited, NEW g \in Groups, NEW t \in 0 .. MaxTime,
             NEW b \in 0 .. MaxRestarts
      PROVE  Cardinality({m \in DOMAIN msg : /\ msg[m].home = n /\ msg[m].group = g
                                             /\ msg[m].sent = t /\ msg[m].at = t
                                             /\ msg[m].boot = b}) <= FifoTPS
  <2>1. Cardinality(Accepted(World, n, g, t, b)) <= FifoTPS
    BY DEF Paced
  <2> QED  BY <1>2, <1>3, <2>1 DEF Accepted, Counts
<1> QED
  BY <1>4 DEF RateBounded

\* For every set of queues and groups, every limit and every wait for a lock: a
\* group of a high-throughput FIFO queue accepts in each second of each run of
\* the server at most FifoTPS of the sends whose clock reading is current, with
\* stale stamps of delayed batch entries stored and pruned between them.
THEOREM RateSafe == Spec => []RateBounded
<1> DEFINE Inv == QueueInv /\ restarts \in Nat /\ Paced(World, now, restarts)
<1>1. Init => Inv
  BY InitInv, InitPaced
<1>2. Inv /\ [Next]_vars => Inv'
  BY NextInv, NextPaced
<1>3. Inv => RateBounded
  BY PacedBounded
<1> HIDE DEF Inv
<1> QED
  BY <1>1, <1>2, <1>3, PTL DEF Spec

-----------------------------------------------------------------------------
(* The lease specification: for every set of queues, messages and handles. *)

\* The messages queue n acts on were ready in n or leased by n: none of them
\* is retired, and none is ready or leased anywhere else.
LEMMA PoolIsolated ==
  ASSUME LeaseInv, NEW n \in Queue, NEW over \in SUBSET {l \in leased : l[1] = n}
  PROVE  /\ Pool(n, over) \subseteq Msg
         /\ Pool(n, over) \cap retired = {}
         /\ \A r \in ready : r[2] \in Pool(n, over) => r[1] = n
         /\ \A l \in leased \ over : l[2] \notin Pool(n, over)
  BY DEF LeaseInv, LeaseTypes, OneHome, Pool, ReadyMsgs, LeasedMsgs

\* A served queue: one step of Serve keeps the invariant.
LEMMA ServeKeeps ==
  ASSUME LeaseInv, NEW n \in Queue, NEW d \in Queue,
         NEW over \in SUBSET {l \in leased : l[1] = n},
         NEW drop \in SUBSET Pool(n, over), NEW route \in SUBSET Pool(n, over),
         NEW lend \in SUBSET (Pool(n, over) \X FreshHandles),
         Serve(n, d, over, drop, route, lend)
  PROVE  LeaseInv'
<1> DEFINE stay == Stay(n, over, drop, route, lend)
           lent == {x[1] : x \in lend}
<1>1. /\ Pool(n, over) \subseteq Msg
      /\ Pool(n, over) \cap retired = {}
      /\ \A r \in ready : r[2] \in Pool(n, over) => r[1] = n
      /\ \A l \in leased \ over : l[2] \notin Pool(n, over)
  BY PoolIsolated
<1>2. /\ drop \cap route = {}
      /\ lent \cap (drop \cup route) = {}
      /\ \A x, y \in lend : x[1] = y[1] <=> x[2] = y[2]
      /\ ready' = {r \in ready : r[1] # n} \cup {<<n, m>> : m \in stay}
                    \cup {<<d, m>> : m \in route}
      /\ leased' = (leased \ over) \cup {<<n, x[1], x[2]>> : x \in lend}
      /\ retired' = retired \cup drop
      /\ issued' = issued \cup {x[2] : x \in lend}
  BY DEF Serve
<1>3. /\ stay \subseteq Pool(n, over)
      /\ stay \cap (drop \cup route \cup lent) = {}
      /\ lent \subseteq Pool(n, over)
  BY DEF Stay
<1> HIDE DEF stay
<1>4. LeaseTypes'
  <2>1. ready' \subseteq Queue \X Msg
    BY <1>1, <1>2, <1>3 DEF LeaseInv, LeaseTypes
  <2>2. leased' \subseteq Queue \X Msg \X Handle
    <3>1. \A x \in lend : x[1] \in Msg /\ x[2] \in Handle
      BY <1>1 DEF FreshHandles
    <3> QED BY <1>2, <3>1 DEF LeaseInv, LeaseTypes
  <2>3. retired' \subseteq Msg /\ issued' \subseteq Handle
    BY <1>1, <1>2 DEF LeaseInv, LeaseTypes, FreshHandles
  <2> QED BY <2>1, <2>2, <2>3 DEF LeaseTypes
<1>5. OneHome'
  <2>1. \A r \in ready' : \/ r \in ready /\ r[1] # n /\ r[2] \notin Pool(n, over)
                          \/ r[1] = n /\ r[2] \in stay
                          \/ r[1] = d /\ r[2] \in route
    BY <1>1, <1>2
  <2>2. \A l \in leased' : \/ l \in leased \ over /\ l[2] \notin Pool(n, over)
                           \/ \E x \in lend : l = <<n, x[1], x[2]>>
    BY <1>1, <1>2
  <2>3. \A r \in ready' : \E a, b : r = <<a, b>>
    BY <1>2 DEF LeaseInv, LeaseTypes
  <2>4. ASSUME NEW r \in ready', NEW s \in ready', r[2] = s[2] PROVE r = s
    BY <1>3, <2>1, <2>3, <2>4 DEF LeaseInv, OneHome
  <2>5. ASSUME NEW l \in leased', NEW k \in leased', l[2] = k[2] PROVE l = k
    BY <1>2, <1>3, <2>2, <2>5 DEF LeaseInv, OneHome
  <2>6. ASSUME NEW r \in ready', NEW l \in leased' PROVE r[2] # l[2]
    <3>1. l[2] \in lent \/ (l \in leased /\ l[2] \notin Pool(n, over))
      BY <2>2
    <3> QED BY <1>3, <1>2, <2>1, <3>1 DEF LeaseInv, OneHome, ReadyMsgs, LeasedMsgs
  <2>7. ASSUME NEW r \in ready' PROVE r[2] \notin retired'
    BY <1>1, <1>2, <1>3, <2>1 DEF LeaseInv, OneHome, ReadyMsgs
  <2>8. ASSUME NEW l \in leased' PROVE l[2] \notin retired'
    <3>1. l[2] \in lent \/ (l \in leased /\ l[2] \notin Pool(n, over))
      BY <2>2
    <3> QED BY <1>1, <1>2, <1>3, <3>1 DEF LeaseInv, OneHome, LeasedMsgs
  <2> QED BY <2>4, <2>5, <2>6, <2>7, <2>8 DEF OneHome, ReadyMsgs, LeasedMsgs
<1>6. HandleOwner'
  <2>1. \A l \in leased' : \/ l \in leased /\ l[3] \in issued
                           \/ \E x \in lend : l = <<n, x[1], x[2]>>
    BY <1>2 DEF LeaseInv, HandleOwner, LeasedHandles
  <2>2. \A x \in lend : x[2] \notin issued
    BY DEF FreshHandles
  <2>3. \A x \in lend : \E m, h : x = <<m, h>>
    OBVIOUS
  <2>4. ASSUME NEW l \in leased', NEW k \in leased', l[3] = k[3] PROVE l = k
    BY <1>2, <2>1, <2>2, <2>4 DEF LeaseInv, HandleOwner
  <2>5. LeasedHandles' \subseteq issued'
    BY <1>2, <2>1 DEF LeasedHandles
  <2> QED BY <2>4, <2>5 DEF HandleOwner
<1> QED BY <1>4, <1>5, <1>6 DEF LeaseInv

\* A step of the lease specification keeps the invariant.
LEMMA LeaseNextInv == LeaseInv /\ [LeaseNext]_leaseVars => LeaseInv'
<1> SUFFICES ASSUME LeaseInv, [LeaseNext]_leaseVars PROVE LeaseInv'
  OBVIOUS
<1>1. ASSUME NEW n \in Queue, NEW m \in Msg, Accept(n, m) PROVE LeaseInv'
  BY <1>1 DEF LeaseInv, LeaseTypes, OneHome, HandleOwner, Accept, ReadyMsgs, LeasedMsgs,
              LeasedHandles
<1>2. ASSUME NEW n \in Queue, NEW m \in Msg, NEW h \in Handle, Ack(n, m, h)
      PROVE  LeaseInv'
  BY <1>2 DEF LeaseInv, LeaseTypes, OneHome, HandleOwner, Ack, ReadyMsgs, LeasedMsgs,
              LeasedHandles
<1>3. CASE UNCHANGED leaseVars
  BY <1>3 DEF leaseVars, LeaseInv, LeaseTypes, OneHome, HandleOwner, ReadyMsgs, LeasedMsgs,
              LeasedHandles
<1> QED BY <1>1, <1>2, <1>3, ServeKeeps DEF LeaseNext

\* Every message the service accepts is in exactly one place at a time, and
\* every receipt handle names at most one lease.
THEOREM LeaseSafe == LeaseSpec => [](LeaseTypes /\ OneHome /\ HandleOwner)
<1>1. LeaseInit => LeaseInv
  BY DEF LeaseInit, LeaseInv, LeaseTypes, OneHome, HandleOwner, ReadyMsgs, LeasedMsgs,
         LeasedHandles
<1>2. LeaseInv => LeaseTypes /\ OneHome /\ HandleOwner
  BY DEF LeaseInv
<1> QED BY <1>1, <1>2, LeaseNextInv, PTL DEF LeaseSpec

\* A receipt handle whose lease has ended is never valid again: new leases
\* take handles that were not issued before.
THEOREM DeadHandles == LeaseSpec => HandlesStayDead
<1>1. ASSUME LeaseInv, [LeaseNext]_leaseVars
      PROVE  [\A h \in issued : h \notin LeasedHandles
                                  => h \notin LeasedHandles']_leaseVars
  <2>1. ASSUME NEW n \in Queue, NEW d \in Queue,
               NEW over \in SUBSET {l \in leased : l[1] = n},
               NEW drop \in SUBSET Pool(n, over),
               NEW route \in SUBSET Pool(n, over),
               NEW lend \in SUBSET (Pool(n, over) \X FreshHandles),
               Serve(n, d, over, drop, route, lend)
        PROVE  \A h \in issued : h \notin LeasedHandles => h \notin LeasedHandles'
    BY <2>1 DEF Serve, LeasedHandles, FreshHandles
  <2>2. ASSUME NEW n \in Queue, NEW m \in Msg, Accept(n, m)
        PROVE  \A h \in issued : h \notin LeasedHandles => h \notin LeasedHandles'
    BY <2>2 DEF Accept, LeasedHandles
  <2>3. ASSUME NEW n \in Queue, NEW m \in Msg, NEW h \in Handle, Ack(n, m, h)
        PROVE  \A k \in issued : k \notin LeasedHandles => k \notin LeasedHandles'
    BY <2>3 DEF Ack, LeasedHandles
  <2> QED BY <1>1, <2>1, <2>2, <2>3 DEF LeaseNext
<1>2. LeaseInit => LeaseInv
  BY DEF LeaseInit, LeaseInv, LeaseTypes, OneHome, HandleOwner, ReadyMsgs, LeasedMsgs,
         LeasedHandles
<1> QED BY <1>1, <1>2, LeaseNextInv, PTL DEF LeaseSpec, HandlesStayDead

-----------------------------------------------------------------------------
(* Where the messages are.                                                 *)

\* The fields of a message.
MFields == {"home", "group", "dedup", "seq", "sent", "visibleAt", "rc",
            "handle", "epoch", "at", "boot"}

\* A message record.
IsMessage(e) ==
  /\ DOMAIN e = MFields
  /\ e.home \in Queues /\ e.seq \in Nat /\ e.rc \in Nat
  /\ e.sent \in Int /\ e.visibleAt \in Int

\* The leases of a slice.
LeaseSet(s) == {s[i] : i \in DOMAIN s}

\* Pending slices, leases, dead-letter queues, receive limits, sequence
\* counters and delays by queue.
Slices(w) == [k \in Queues |-> w.q[k].messages]
Lent(w) == [k \in Queues |-> LeaseSet(w.q[k].inflight)]
Targets(w) == [k \in Queues |-> w.q[k].dlq]
Limits(w) == [k \in Queues |-> w.q[k].maxRC]
Counters(w) == [k \in Queues |-> w.q[k].seqCtr]
Lags(w) == [k \in Queues |-> w.q[k].delay]

\* World w with pending slices p and leases l: in the middle of a pass some
\* messages are in the part of a slice that is still to be visited, or in the
\* part that was kept.
At(w, p, l) == [p |-> p, l |-> l, dlq |-> Targets(w), max |-> Limits(w),
                ctr |-> Counters(w), lag |-> Lags(w),
                msg |-> w.msg, gone |-> w.gone, uuid |-> w.uuid]

\* The places of a world.
View(w) == At(w, Slices(w), Lent(w))

\* Slice r is s with e put in at position i.
Puts(s, i, e, r) ==
  /\ s \in Seq(Nat) /\ r \in Seq(Nat) /\ Len(r) = Len(s) + 1
  /\ i \in 1 .. Len(r) /\ r[i] = e
  /\ \A j \in 1 .. i - 1 : r[j] = s[j]
  /\ \A j \in i .. Len(s) : r[j + 1] = s[j]

\* What was kept, then the elements of s after the first i.
Joined(c, s, i) ==
  [j \in 1 .. Len(c) + Len(s) - i |-> IF j <= Len(c) THEN c[j] ELSE s[j - Len(c) + i]]

\* A function on an initial segment of the positive numbers is a sequence.
LEMMA SegmentSeq ==
  ASSUME NEW K \in Nat, NEW S, NEW f, f = [j \in 1 .. K |-> f[j]], \A j \in 1 .. K : f[j] \in S
  PROVE  f \in Seq(S) /\ Len(f) = K
<1>1. f \in [1 .. K -> S]
  <2> DEFINE D == 1 .. K
  <2>1. f = [j \in D |-> f[j]] /\ \A j \in D : f[j] \in S
    OBVIOUS
  <2> HIDE DEF D
  <2>2. f \in [D -> S]
    BY <2>1
  <2> QED  BY <2>2 DEF D
<1> QED
  BY <1>1

\* Kept and unvisited elements are a slice.
LEMMA JoinType ==
  ASSUME NEW c \in Seq(Nat), NEW s \in Seq(Nat), NEW i \in 0 .. Len(s)
  PROVE  /\ Joined(c, s, i) \in Seq(Nat) /\ Len(Joined(c, s, i)) = Len(c) + Len(s) - i
         /\ \A j \in 1 .. Len(c) : Joined(c, s, i)[j] = c[j]
         /\ \A j \in i + 1 .. Len(s) : Joined(c, s, i)[j + Len(c) - i] = s[j]
<1> DEFINE M == Len(c)
           N == Len(s)
           K == M + N - i
           a == Joined(c, s, i)
<1>1. M \in Nat /\ N \in Nat /\ i \in 0 .. N /\ K \in Nat /\ M <= K
      /\ DOMAIN c = 1 .. M /\ DOMAIN s = 1 .. N
  OBVIOUS
<1>2. /\ \A j \in 1 .. M : c[j] \in Nat
      /\ \A j \in 1 .. N : s[j] \in Nat
  OBVIOUS
<1>3. a = [j \in 1 .. K |-> IF j <= M THEN c[j] ELSE s[j - M + i]]
  BY DEF Joined
<1> HIDE DEF M, N, a
<1>4. \A j \in 1 .. K : a[j] \in Nat
  <2> SUFFICES ASSUME NEW j \in 1 .. K PROVE a[j] \in Nat
    OBVIOUS
  <2>1. j > M => j - M + i \in 1 .. N
    BY <1>1
  <2>2. j <= M => j \in 1 .. M
    BY <1>1
  <2> QED  BY <1>1, <1>2, <1>3, <2>1, <2>2
<1>5. a = [j \in 1 .. K |-> a[j]]
  BY <1>3
<1> HIDE DEF K
<1>6. a \in Seq(Nat) /\ Len(a) = K
  BY <1>1, <1>4, <1>5, SegmentSeq
<1>7. \A j \in 1 .. M : a[j] = c[j]
  BY <1>1, <1>3
<1>8. ASSUME NEW j \in i + 1 .. N PROVE a[j + M - i] = s[j]
  <2>1. j + M - i \in 1 .. K /\ ~(j + M - i <= M) /\ (j + M - i) - M + i = j
    BY <1>1 DEF K
  <2> QED  BY <1>3, <2>1
<1> QED
  BY <1>6, <1>7, <1>8 DEF a, K, M, N

\* An element visited and not kept leaves the slice.
LEMMA JoinDrop ==
  ASSUME NEW c \in Seq(Nat), NEW s \in Seq(Nat), NEW i \in 1 .. Len(s)
  PROVE  Puts(Joined(c, s, i), Len(c) + 1, s[i], Joined(c, s, i - 1))
<1> DEFINE M == Len(c)
           N == Len(s)
           a == Joined(c, s, i - 1)
           b == Joined(c, s, i)
<1>1. M \in Nat /\ N \in Nat /\ i \in 1 .. N /\ i \in 0 .. N /\ i - 1 \in 0 .. N
  OBVIOUS
<1>2. /\ a \in Seq(Nat) /\ Len(a) = M + N - (i - 1)
      /\ \A j \in 1 .. M : a[j] = c[j]
      /\ \A j \in (i - 1) + 1 .. N : a[j + M - (i - 1)] = s[j]
  BY <1>1, JoinType
<1>3. /\ b \in Seq(Nat) /\ Len(b) = M + N - i
      /\ \A j \in 1 .. M : b[j] = c[j]
      /\ \A j \in i + 1 .. N : b[j + M - i] = s[j]
  BY <1>1, JoinType
<1> HIDE DEF M, N, a, b
<1>4. Len(a) = Len(b) + 1 /\ M + 1 \in 1 .. Len(a)
  BY <1>1, <1>2, <1>3
<1>5. a[M + 1] = s[i]
  <2>1. i \in (i - 1) + 1 .. N /\ i + M - (i - 1) = M + 1
    BY <1>1
  <2>2. a[i + M - (i - 1)] = s[i]
    BY <1>2, <2>1
  <2> QED  BY <2>1, <2>2
<1>6. \A j \in 1 .. (M + 1) - 1 : a[j] = b[j]
  BY <1>1, <1>2, <1>3
<1>7. ASSUME NEW j \in M + 1 .. Len(b) PROVE a[j + 1] = b[j]
  <2> DEFINE k == j - M + i
  <2>1. k \in i + 1 .. N /\ k \in (i - 1) + 1 .. N /\ k + M - i = j /\ k + M - (i - 1) = j + 1
    BY <1>1, <1>3
  <2> HIDE DEF k
  <2>2. b[k + M - i] = s[k] /\ a[k + M - (i - 1)] = s[k]
    BY <1>2, <1>3, <2>1
  <2> QED  BY <2>1, <2>2
<1>8. Puts(b, M + 1, s[i], a)
  BY <1>2, <1>3, <1>4, <1>5, <1>6, <1>7 DEF Puts
<1> QED
  BY <1>8 DEF a, b, M

\* An element visited and kept stays.
LEMMA JoinKeep ==
  ASSUME NEW c \in Seq(Nat), NEW s \in Seq(Nat), NEW i \in 1 .. Len(s)
  PROVE  Joined(Append(c, s[i]), s, i) = Joined(c, s, i - 1)
<1> DEFINE M == Len(c)
           N == Len(s)
           e == Append(c, s[i])
           K == M + N - (i - 1)
<1>1. /\ M \in Nat /\ N \in Nat /\ i \in 1 .. N /\ DOMAIN c = 1 .. M
      /\ Len(e) = M + 1 /\ e[M + 1] = s[i] /\ \A j \in 1 .. M : e[j] = c[j]
      /\ Len(e) + N - i = K
  OBVIOUS
<1> HIDE DEF M, N, e
<1>2. Joined(e, s, i) = [j \in 1 .. K |-> IF j <= M + 1 THEN e[j] ELSE s[j - (M + 1) + i]]
  BY <1>1 DEF Joined, N
<1>3. Joined(c, s, i - 1) = [j \in 1 .. K |-> IF j <= M THEN c[j] ELSE s[j - M + (i - 1)]]
  BY <1>1 DEF Joined, M, N
<1>4. ASSUME NEW j \in 1 .. K
      PROVE  (IF j <= M + 1 THEN e[j] ELSE s[j - (M + 1) + i])
               = (IF j <= M THEN c[j] ELSE s[j - M + (i - 1)])
  <2>1. CASE j <= M
    BY <1>1, <2>1
  <2>2. CASE j = M + 1
    <3>1. j - M + (i - 1) = i
      BY <1>1, <2>2
    <3> QED  BY <1>1, <2>2, <3>1
  <2>3. CASE j > M + 1
    <3>1. j - (M + 1) + i = j - M + (i - 1)
      BY <1>1
    <3> QED  BY <1>1, <2>3, <3>1
  <2> QED  BY <1>1, <2>1, <2>2, <2>3
<1>5. Joined(e, s, i) = Joined(c, s, i - 1)
  BY <1>2, <1>3, <1>4
<1> QED
  BY <1>5 DEF e

\* At the start nothing was visited, at the end everything.
LEMMA JoinEnds ==
  ASSUME NEW c \in Seq(Nat), NEW s \in Seq(Nat)
  PROVE  Joined(<<>>, s, 0) = s /\ Joined(c, s, Len(s)) = c
<1> DEFINE M == Len(c)
           N == Len(s)
<1>1. /\ M \in Nat /\ N \in Nat /\ c = [j \in 1 .. M |-> c[j]]
      /\ s = [j \in 1 .. N |-> s[j]] /\ Len(<<>>) = 0
  OBVIOUS
<1> HIDE DEF M, N
<1>2. Joined(<<>>, s, 0) = [j \in 1 .. 0 + N - 0 |-> IF j <= 0 THEN <<>>[j] ELSE s[j - 0 + 0]]
  BY <1>1 DEF Joined, N
<1>3. Joined(c, s, N) = [j \in 1 .. M + N - N |-> IF j <= M THEN c[j] ELSE s[j - M + N]]
  BY DEF Joined, M, N
<1>4. [j \in 1 .. 0 + N - 0 |-> IF j <= 0 THEN <<>>[j] ELSE s[j - 0 + 0]] = [j \in 1 .. N |-> s[j]]
  BY <1>1
<1>5. [j \in 1 .. M + N - N |-> IF j <= M THEN c[j] ELSE s[j - M + N]] = [j \in 1 .. M |-> c[j]]
  BY <1>1
<1>6. Joined(<<>>, s, 0) = s
  BY <1>1, <1>2, <1>4
<1>7. Joined(c, s, N) = c
  BY <1>1, <1>3, <1>5
<1> QED
  BY <1>6, <1>7 DEF N

\* The messages of a slice; no message is in it twice.
Elems(s) == {s[j] : j \in 1 .. Len(s)}
Once(s) == \A i, j \in 1 .. Len(s) : s[i] = s[j] => i = j

\* What an element put into a slice changes.
LEMMA PutsElems ==
  ASSUME NEW s, NEW i, NEW e, NEW r, Puts(s, i, e, r)
  PROVE  /\ Elems(r) = Elems(s) \cup {e} /\ Elems(r) \subseteq Nat
         /\ s \in Seq(Nat) /\ r \in Seq(Nat) /\ i \in 1 .. Len(r) /\ r[i] = e
<1>1. /\ Len(s) \in Nat /\ Len(r) = Len(s) + 1 /\ i \in 1 .. Len(r) /\ r[i] = e
      /\ \A j \in 1 .. i - 1 : r[j] = s[j]
      /\ \A j \in i .. Len(s) : r[j + 1] = s[j]
      /\ \A j \in 1 .. Len(r) : r[j] \in Nat
  BY DEF Puts
<1>2. ASSUME NEW j \in 1 .. Len(s) PROVE s[j] \in Elems(r)
  <2>1. CASE j < i
    BY <1>1, <2>1 DEF Elems
  <2>2. CASE j >= i
    <3>1. j \in i .. Len(s) /\ j + 1 \in 1 .. Len(r)
      BY <1>1, <2>2
    <3> QED  BY <1>1, <3>1 DEF Elems
  <2> QED  BY <1>1, <2>1, <2>2
<1>3. ASSUME NEW j \in 1 .. Len(r) PROVE r[j] = e \/ r[j] \in Elems(s)
  <2>1. CASE j < i
    <3>1. j \in 1 .. i - 1 /\ j \in 1 .. Len(s)
      BY <1>1, <2>1
    <3> QED  BY <1>1, <3>1 DEF Elems
  <2>2. CASE j > i
    <3>1. j - 1 \in i .. Len(s) /\ j - 1 \in 1 .. Len(s) /\ (j - 1) + 1 = j
      BY <1>1, <2>2
    <3>2. r[(j - 1) + 1] = s[j - 1]
      BY <1>1, <3>1
    <3> QED  BY <3>1, <3>2 DEF Elems
  <2> QED  BY <1>1, <2>1, <2>2
<1>4. e \in Elems(r)
  BY <1>1 DEF Elems
<1>5. Elems(r) \subseteq Nat
  BY <1>1 DEF Elems
<1>6. Elems(r) = Elems(s) \cup {e}
  BY <1>2, <1>3, <1>4 DEF Elems
<1> QED
  BY <1>1, <1>5, <1>6 DEF Puts

\* Slices without repetition.
LEMMA PutsOnce ==
  ASSUME NEW s, NEW i, NEW e, NEW r, Puts(s, i, e, r)
  PROVE  Once(r) <=> Once(s) /\ e \notin Elems(s)
<1>1. /\ Len(s) \in Nat /\ Len(r) = Len(s) + 1 /\ i \in 1 .. Len(r) /\ r[i] = e
      /\ \A j \in 1 .. i - 1 : r[j] = s[j]
      /\ \A j \in i .. Len(s) : r[j + 1] = s[j]
  BY DEF Puts
<1> DEFINE P(j) == IF j < i THEN j ELSE j + 1
<1>2. ASSUME NEW j \in 1 .. Len(s)
      PROVE  P(j) \in 1 .. Len(r) /\ P(j) # i /\ r[P(j)] = s[j]
  <2>1. CASE j < i
    BY <1>1, <2>1
  <2>2. CASE j >= i
    <3>1. j \in i .. Len(s) /\ j + 1 \in 1 .. Len(r) /\ j + 1 # i
      BY <1>1, <2>2
    <3> QED  BY <1>1, <2>2, <3>1
  <2> QED  BY <1>1, <2>1, <2>2
<1>3. \A j, k \in 1 .. Len(s) : P(j) = P(k) => j = k
  BY <1>1
<1>4. ASSUME NEW k \in 1 .. Len(r), k # i PROVE \E j \in 1 .. Len(s) : k = P(j)
  <2>1. CASE k < i
    <3>1. k \in 1 .. Len(s)
      BY <1>1, <2>1
    <3> QED  BY <2>1, <3>1
  <2>2. CASE k > i
    <3>1. k - 1 \in 1 .. Len(s) /\ ~(k - 1 < i) /\ (k - 1) + 1 = k
      BY <1>1, <2>2
    <3> QED  BY <3>1
  <2> QED  BY <1>1, <1>4, <2>1, <2>2
<1> HIDE DEF P
<1>5. ASSUME Once(r) PROVE Once(s) /\ e \notin Elems(s)
  <2>1. ASSUME NEW j \in 1 .. Len(s), NEW k \in 1 .. Len(s), s[j] = s[k] PROVE j = k
    <3>1. r[P(j)] = r[P(k)]
      BY <1>2, <2>1
    <3>2. P(j) = P(k)
      BY <1>2, <1>5, <3>1 DEF Once
    <3> QED  BY <1>3, <3>2
  <2>2. ASSUME NEW j \in 1 .. Len(s), s[j] = e PROVE FALSE
    BY <1>1, <1>2, <1>5, <2>2 DEF Once
  <2> QED  BY <2>1, <2>2 DEF Once, Elems
<1>6. ASSUME Once(s), e \notin Elems(s) PROVE Once(r)
  <2> SUFFICES ASSUME NEW j \in 1 .. Len(r), NEW k \in 1 .. Len(r), r[j] = r[k]
               PROVE  j = k
    BY DEF Once
  <2>1. CASE j = i /\ k = i
    BY <2>1
  <2>2. CASE j # i /\ k # i
    <3>1. PICK a \in 1 .. Len(s) : j = P(a)
      BY <1>4, <2>2
    <3>2. PICK b \in 1 .. Len(s) : k = P(b)
      BY <1>4, <2>2
    <3>3. s[a] = s[b]
      BY <1>2, <3>1, <3>2
    <3>4. a = b
      BY <1>6, <3>3 DEF Once
    <3> QED  BY <3>1, <3>2, <3>4
  <2>3. CASE j = i /\ k # i
    <3>1. PICK a \in 1 .. Len(s) : k = P(a)
      BY <1>4, <2>3
    <3>2. s[a] = e
      BY <1>1, <1>2, <2>3, <3>1
    <3> QED  BY <1>6, <3>2 DEF Elems
  <2>4. CASE j # i /\ k = i
    <3>1. PICK a \in 1 .. Len(s) : j = P(a)
      BY <1>4, <2>4
    <3>2. s[a] = e
      BY <1>1, <1>2, <2>4, <3>1
    <3> QED  BY <1>6, <3>2 DEF Elems
  <2> QED  BY <2>1, <2>2, <2>3, <2>4
<1> QED
  BY <1>5, <1>6

-----------------------------------------------------------------------------
(* One message moves.                                                      *)

\* Message n is dead-lettered when the queue gives it back.
Routes(v, n, m) ==
  v.max[n] > 0 /\ v.dlq[n] # None /\ v.msg[m].rc >= v.max[n]

\* A lease names a message and a handle that was issued, after its batch began.
LeaseOk(v, x) ==
  /\ x \in Leases /\ x.m \in 1 .. Len(v.msg)
  /\ x.handle \in 1 .. v.uuid /\ x.batch < x.handle

\* The redrive policy of queue k is one that was given, or none.
PolicyOk(v, k) ==
  \/ v.dlq[k] = None
  \/ \E p \in Created \cup Redrives : p[1] = k /\ p[2] = v.dlq[k] /\ p[3] = v.max[k]

\* The types of a view.
Good(v) ==
  /\ v.uuid \in Nat /\ IsSeq(v.msg)
  /\ \A m \in 1 .. Len(v.msg) : IsMessage(v.msg[m])
  /\ \A k \in Queues : v.p[k] \in Seq(Nat) /\ Elems(v.p[k]) \subseteq 1 .. Len(v.msg)
  /\ \A k \in Queues : \A x \in v.l[k] : LeaseOk(v, x)
  /\ \A k \in Queues : \A x, y \in v.l[k] : x.handle = y.handle => x = y
  /\ \A k \in Queues : PolicyOk(v, k) /\ v.ctr[k] \in Nat /\ v.lag[k] \in Nat

\* The parts of a message that no receive and no redrive writes.
SameMessage(e, f) ==
  /\ DOMAIN f = DOMAIN e
  /\ f.home = e.home /\ f.group = e.group /\ f.seq = e.seq
  /\ f.sent = e.sent /\ f.visibleAt = e.visibleAt

\* From a to b the policies stay and no message is rewritten; no receive
\* count changes and no handle is issued.
Steady(a, b) ==
  /\ b.dlq = a.dlq /\ b.max = a.max /\ b.ctr = a.ctr /\ b.lag = a.lag
  /\ IsSeq(b.msg) /\ Len(b.msg) = Len(a.msg)
  /\ \A m \in 1 .. Len(a.msg) : SameMessage(a.msg[m], b.msg[m])
Still(a, b) ==
  /\ Steady(a, b) /\ b.uuid = a.uuid
  /\ \A m \in 1 .. Len(a.msg) : b.msg[m].rc = a.msg[m].rc

\* The pending slices outside S, the leases outside S stay.
SamePending(a, b, S) == \A k \in Queues : k \notin S => b.p[k] = a.p[k]
SameLeases(a, b, S) == \A k \in Queues : k \notin S => b.l[k] = a.l[k]

\* Lease x of queue n, older than batch B, ends.
Ends(a, b, n, x, B) ==
  /\ x \in a.l[n] /\ x.handle <= B
  /\ b.l[n] = a.l[n] \ {x} /\ SameLeases(a, b, {n})

\* Message m goes to the tail of queue d.
Tails(a, b, d, m) == Puts(a.p[d], Len(a.p[d]) + 1, m, b.p[d])

\* In a slice sorted by sequence number, i is where message m belongs.
Sorted(v, s) == \A i, j \in 1 .. Len(s) : i < j => v.msg[s[i]].seq <= v.msg[s[j]].seq
Fits(v, s, i, m) ==
  /\ \A j \in 1 .. i - 1 : v.msg[s[j]].seq <= v.msg[m].seq
  /\ \A j \in i .. Len(s) : v.msg[m].seq < v.msg[s[j]].seq

\* Nothing in queue n stands in the way of message i of its pending slice: the
\* leases of its group are of the same batch, what is before it is delayed.
Free(v, n, i, t, B) ==
  LET m == v.p[n][i]
      akin(k) == v.msg[k].group = v.msg[m].group /\ v.msg[m].group # None
  IN /\ \A x \in v.l[n] : akin(x.m) => x.batch = B
     /\ \A j \in 1 .. i - 1 : akin(v.p[n][j]) => t < v.msg[v.p[n][j]].visibleAt

\* Nothing moves.
Stays(a, b) ==
  Still(a, b) /\ SamePending(a, b, {}) /\ SameLeases(a, b, {}) /\ b.gone = a.gone

\* A lease ends: its message is retired, pending again, or dead-lettered.
Drops(a, b, n, B) ==
  /\ Still(a, b) /\ SamePending(a, b, {})
  /\ \E x : Ends(a, b, n, x, B) /\ b.gone = a.gone \cup {x.m}

Backs(a, b, n, t, B) ==
  /\ Still(a, b) /\ SamePending(a, b, {n}) /\ b.gone = a.gone
  /\ \E x, i : /\ Ends(a, b, n, x, B) /\ x.visibleAt < t /\ ~Routes(a, n, x.m)
               /\ Puts(a.p[n], i, x.m, b.p[n])
               /\ IsFIFO(n) /\ Sorted(a, a.p[n]) => Fits(a, a.p[n], i, x.m)

Deads(a, b, n, B) ==
  /\ Still(a, b) /\ SamePending(a, b, {a.dlq[n]}) /\ b.gone = a.gone
  /\ \E x : /\ Ends(a, b, n, x, B) /\ Routes(a, n, x.m)
            /\ Tails(a, b, a.dlq[n], x.m)

\* A pending message is retired, dead-lettered, copied to the dead-letter
\* queue, or handed out.
Discards(a, b, n) ==
  /\ Still(a, b) /\ SamePending(a, b, {n}) /\ SameLeases(a, b, {})
  /\ \E i, m : Puts(b.p[n], i, m, a.p[n]) /\ b.gone = a.gone \cup {m}

Redirects(a, b, n) ==
  /\ Still(a, b) /\ SamePending(a, b, {n, a.dlq[n]}) /\ SameLeases(a, b, {})
  /\ b.gone = a.gone
  /\ \E i, m : /\ Puts(b.p[n], i, m, a.p[n]) /\ Routes(a, n, m)
               /\ Tails(a, b, a.dlq[n], m)

Copies(a, b, n) ==
  /\ Still(a, b) /\ SamePending(a, b, {a.dlq[n]}) /\ SameLeases(a, b, {})
  /\ b.gone = a.gone
  /\ \E m \in Elems(a.p[n]) : Routes(a, n, m) /\ Tails(a, b, a.dlq[n], m)

HandsOut(a, b, n, t, B, i, m, x) ==
  /\ Puts(b.p[n], i, m, a.p[n]) /\ a.msg[m].visibleAt <= t
  /\ Routes(a, n, m) => \E y \in a.l[n] : y.m = m /\ y.batch = B
  /\ x \in Leases /\ x.m = m /\ x.handle = a.uuid + 1 /\ x.batch = B
  /\ b.l[n] = a.l[n] \cup {x}
  /\ \A k \in 1 .. Len(a.msg) :
       b.msg[k].rc = IF k = m THEN a.msg[k].rc + 1 ELSE a.msg[k].rc
  /\ IsFIFO(n) => Free(a, n, i, t, B)

Hands(a, b, n, t, B) ==
  /\ Steady(a, b) /\ SamePending(a, b, {n}) /\ SameLeases(a, b, {n})
  /\ b.gone = a.gone /\ b.uuid = a.uuid + 1
  /\ \E i, m, x : HandsOut(a, b, n, t, B, i, m, x)

\* One of the moves of queue n; a pass over several queues only redirects.
Move(a, b, n, t, B, N) ==
  \/ Stays(a, b) \/ Redirects(a, b, n)
  \/ /\ N = {n}
     /\ \/ Drops(a, b, n, B) \/ Backs(a, b, n, t, B) \/ Deads(a, b, n, B)
        \/ Discards(a, b, n) \/ Copies(a, b, n) \/ Hands(a, b, n, t, B)

\* A run of moves of the queues of N.
Moved(g, K, t, B, N) ==
  \A i \in 1 .. K : \E n \in N : Move(g[i - 1], g[i], n, t, B, N)
Chain(a, b, t, B, N) ==
  \E K \in Nat : \E g : g[0] = a /\ g[K] = b /\ Moved(g, K, t, B, N)

\* A policy that is in force: another queue of the same kind, a positive limit.
LEMMA PolicyInForce ==
  ASSUME NEW v, NEW n \in Queues, PolicyOk(v, n), v.dlq[n] # None
  PROVE  /\ v.dlq[n] \in Queues /\ v.dlq[n] # n /\ v.max[n] \in Nat \ {0}
         /\ (n \in FifoQueues <=> v.dlq[n] \in FifoQueues)
         /\ v.dlq[n] \in {p[2] : p \in Created \cup Redrives}
         /\ n \in {p[1] : p \in Created \cup Redrives}
  BY PolicyAssumption DEF PolicyOk

\* A move of one queue keeps the types.
LEMMA MoveGood ==
  ASSUME NEW a, Good(a), NEW b, NEW n \in Queues, NEW t, NEW B \in Nat, B <= a.uuid,
         NEW N, Move(a, b, n, t, B, N)
  PROVE  Good(b) /\ a.uuid <= b.uuid
<1> USE DEF Good
<1> DEFINE H == Len(a.msg)
<1>1. Steady(a, b)
  BY DEF Move, Stays, Drops, Backs, Deads, Discards, Redirects, Copies, Hands, Still
<1>2. \/ Still(a, b) /\ b.uuid = a.uuid
      \/ Hands(a, b, n, t, B) /\ b.uuid = a.uuid + 1
  BY DEF Move, Stays, Drops, Backs, Deads, Discards, Redirects, Copies, Hands, Still
<1>3. b.uuid \in Nat /\ a.uuid <= b.uuid
  BY <1>2
<1>4. /\ IsSeq(b.msg) /\ Len(b.msg) = Len(a.msg)
      /\ \A m \in 1 .. Len(a.msg) : SameMessage(a.msg[m], b.msg[m])
  BY <1>1 DEF Steady
<1>5. \A m \in 1 .. Len(b.msg) : b.msg[m].rc \in Nat
  <2>1. CASE Still(a, b)
    BY <1>4, <2>1 DEF Still, IsMessage
  <2>2. CASE Hands(a, b, n, t, B)
    <3>1. PICK i, m, x : HandsOut(a, b, n, t, B, i, m, x)
      BY <2>2 DEF Hands
    <3>2. \A k \in 1 .. Len(a.msg) :
            b.msg[k].rc = IF k = m THEN a.msg[k].rc + 1 ELSE a.msg[k].rc
      BY <3>1 DEF HandsOut
    <3>3. \A k \in 1 .. Len(a.msg) : a.msg[k].rc \in Nat
      BY DEF IsMessage
    <3> SUFFICES ASSUME NEW k \in 1 .. Len(b.msg) PROVE b.msg[k].rc \in Nat
      OBVIOUS
    <3>4. k \in 1 .. Len(a.msg)
      BY <1>4
    <3>5. a.msg[k].rc \in Nat
      BY <3>3, <3>4
    <3>6. b.msg[k].rc = a.msg[k].rc + 1 \/ b.msg[k].rc = a.msg[k].rc
      BY <3>2, <3>4
    <3> QED  BY <3>5, <3>6
  <2> QED  BY <1>2, <2>1, <2>2
<1>6. \A m \in 1 .. Len(b.msg) : IsMessage(b.msg[m])
  BY <1>4, <1>5 DEF IsMessage, SameMessage
<1>7. \A k \in Queues : PolicyOk(b, k) /\ b.ctr[k] \in Nat /\ b.lag[k] \in Nat
  BY <1>1 DEF Steady, PolicyOk
<1>8. \A k \in Queues : b.p[k] \in Seq(Nat) /\ Elems(b.p[k]) \subseteq 1 .. Len(b.msg)
  <2>1. CASE \E i, m : Puts(b.p[n], i, m, a.p[n]) /\ SamePending(a, b, {n})
    <3>1. PICK i, m : Puts(b.p[n], i, m, a.p[n])
      BY <2>1
    <3>2. Elems(a.p[n]) = Elems(b.p[n]) \cup {m} /\ b.p[n] \in Seq(Nat)
      BY <3>1, PutsElems
    <3> QED  BY <1>4, <2>1, <3>2 DEF SamePending
  <2>2. CASE SamePending(a, b, {})
    BY <1>4, <2>2 DEF SamePending
  <2>3. CASE \E i, x : Puts(a.p[n], i, x.m, b.p[n]) /\ SamePending(a, b, {n}) /\ x \in a.l[n]
    <3>1. PICK i, x : Puts(a.p[n], i, x.m, b.p[n]) /\ x \in a.l[n]
      BY <2>3
    <3>2. Elems(b.p[n]) = Elems(a.p[n]) \cup {x.m} /\ b.p[n] \in Seq(Nat)
      BY <3>1, PutsElems
    <3>3. x.m \in 1 .. Len(a.msg)
      BY <3>1 DEF LeaseOk
    <3> QED  BY <1>4, <2>3, <3>2, <3>3 DEF SamePending
  <2>4. CASE Redirects(a, b, n)
    <3>1. PICK i, m : /\ Puts(b.p[n], i, m, a.p[n]) /\ Routes(a, n, m)
                      /\ Puts(a.p[a.dlq[n]], Len(a.p[a.dlq[n]]) + 1, m, b.p[a.dlq[n]])
      BY <2>4 DEF Redirects, Tails
    <3>2. a.dlq[n] \in Queues
      BY <3>1, PolicyInForce DEF Routes
    <3>3. Elems(a.p[n]) = Elems(b.p[n]) \cup {m} /\ b.p[n] \in Seq(Nat)
      <4> HIDE DEF Good
      <4> QED  BY <3>1, PutsElems
    <3>4. /\ Elems(b.p[a.dlq[n]]) = Elems(a.p[a.dlq[n]]) \cup {m}
          /\ b.p[a.dlq[n]] \in Seq(Nat)
      <4> HIDE DEF Good
      <4> QED  BY <3>1, PutsElems
    <3> QED  BY <1>4, <2>4, <3>2, <3>3, <3>4 DEF Redirects, SamePending
  <2>5. CASE /\ SamePending(a, b, {a.dlq[n]})
             /\ \E m \in 1 .. Len(a.msg) :
                  /\ Routes(a, n, m)
                  /\ Puts(a.p[a.dlq[n]], Len(a.p[a.dlq[n]]) + 1, m, b.p[a.dlq[n]])
    <3>1. a.dlq[n] \in Queues
      BY <2>5, PolicyInForce DEF Routes
    <3>2. PICK m \in 1 .. Len(a.msg) :
                 Puts(a.p[a.dlq[n]], Len(a.p[a.dlq[n]]) + 1, m, b.p[a.dlq[n]])
      BY <2>5
    <3>3. /\ Elems(b.p[a.dlq[n]]) = Elems(a.p[a.dlq[n]]) \cup {m}
          /\ b.p[a.dlq[n]] \in Seq(Nat)
      BY <3>2, PutsElems
    <3> QED  BY <1>4, <2>5, <3>1, <3>3 DEF SamePending
  <2>6. CASE Deads(a, b, n, B)
    BY <2>5, <2>6 DEF Deads, Ends, LeaseOk, Tails
  <2>7. CASE Copies(a, b, n)
    BY <2>5, <2>7 DEF Copies, Tails
  <2>8. CASE Backs(a, b, n, t, B)
    BY <2>3, <2>8 DEF Backs, Ends
  <2>9. CASE Discards(a, b, n) \/ Hands(a, b, n, t, B)
    BY <2>1, <2>9 DEF Discards, Hands, HandsOut
  <2> QED  BY <2>2, <2>4, <2>6, <2>7, <2>8, <2>9 DEF Move, Stays, Drops
<1>9. /\ \A k \in Queues : \A x \in b.l[k] : LeaseOk(b, x)
      /\ \A k \in Queues : \A x, y \in b.l[k] : x.handle = y.handle => x = y
  <2>1. CASE \A k \in Queues : b.l[k] \subseteq a.l[k]
    <3>1. \A k \in Queues : \A x \in b.l[k] : LeaseOk(a, x)
      BY <2>1
    <3>2. \A k \in Queues : \A x \in b.l[k] : LeaseOk(b, x)
      BY <1>3, <1>4, <3>1 DEF LeaseOk
    <3> QED  BY <2>1, <3>2
  <2>2. CASE Hands(a, b, n, t, B)
    <3>1. PICK i, m, x : HandsOut(a, b, n, t, B, i, m, x)
      BY <2>2 DEF Hands
    <3>2. m \in 1 .. Len(a.msg)
      BY <3>1, PutsElems DEF HandsOut
    <3>3. LeaseOk(b, x)
      BY <1>4, <2>2, <3>1, <3>2 DEF HandsOut, LeaseOk, Hands
    <3>4. \A k \in Queues : \A y \in a.l[k] : LeaseOk(b, y) /\ y.handle # x.handle
      BY <1>3, <1>4, <3>1 DEF HandsOut, LeaseOk
    <3>5. b.l[n] = a.l[n] \cup {x} /\ \A k \in Queues : k # n => b.l[k] = a.l[k]
      BY <2>2, <3>1 DEF HandsOut, Hands, SameLeases
    <3> QED  BY <3>3, <3>4, <3>5
  <2>3. CASE SameLeases(a, b, {})
    BY <2>1, <2>3 DEF SameLeases
  <2>4. CASE \E x : Ends(a, b, n, x, B)
    <3>1. \A k \in Queues : b.l[k] \subseteq a.l[k]
      BY <2>4 DEF Ends, SameLeases
    <3> QED  BY <2>1, <3>1
  <2> QED  BY <2>2, <2>3, <2>4 DEF Move, Stays, Drops, Backs, Deads, Discards, Redirects, Copies
<1> QED
  BY <1>3, <1>4, <1>6, <1>7, <1>8, <1>9

\* One move is a run.
LEMMA ChainOne ==
  ASSUME NEW a, NEW b, NEW n, NEW t, NEW B, NEW N, n \in N, Move(a, b, n, t, B, N)
  PROVE  Chain(a, b, t, B, N)
<1> DEFINE g == [i \in 0 .. 1 |-> IF i = 0 THEN a ELSE b]
<1>1. g[0] = a /\ g[1] = b /\ 1 - 1 = 0
  OBVIOUS
<1> HIDE DEF g
<1>2. ASSUME NEW i \in 1 .. 1 PROVE \E k \in N : Move(g[i - 1], g[i], k, t, B, N)
  <2>1. i = 1
    OBVIOUS
  <2> QED  BY <1>1, <2>1
<1>3. Moved(g, 1, t, B, N)
  BY <1>2 DEF Moved
<1>4. 1 \in Nat
  OBVIOUS
<1> QED
  BY <1>1, <1>3, <1>4, Zenon DEF Chain

\* Nothing happens.
LEMMA ChainSelf ==
  ASSUME NEW a, NEW t, NEW B, NEW N
  PROVE  Chain(a, a, t, B, N)
<1> DEFINE g == [i \in {0} |-> a]
<1>1. g[0] = a /\ Moved(g, 0, t, B, N) /\ 0 \in Nat
  BY DEF Moved
<1> HIDE DEF g
<1> QED
  BY <1>1, Zenon DEF Chain

\* Runs compose.
LEMMA ChainJoin ==
  ASSUME NEW a, NEW b, NEW c, NEW t, NEW B, NEW N, Chain(a, b, t, B, N),
         Chain(b, c, t, B, N)
  PROVE  Chain(a, c, t, B, N)
<1>a. PICK K \in Nat : \E g : g[0] = a /\ g[K] = b /\ Moved(g, K, t, B, N)
  BY DEF Chain
<1>1. PICK g : g[0] = a /\ g[K] = b /\ Moved(g, K, t, B, N)
  BY <1>a
<1>b. PICK L \in Nat : \E h : h[0] = b /\ h[L] = c /\ Moved(h, L, t, B, N)
  BY DEF Chain
<1>2. PICK h : h[0] = b /\ h[L] = c /\ Moved(h, L, t, B, N)
  BY <1>b
<1> DEFINE j == [i \in 0 .. K + L |-> IF i <= K THEN g[i] ELSE h[i - K]]
<1>3. \A i \in 0 .. K : j[i] = g[i]
  OBVIOUS
<1>4. ASSUME NEW i \in K .. K + L PROVE j[i] = h[i - K]
  <2>1. CASE i = K
    <3>1. j[K] = g[K] /\ K - K = 0
      BY <1>3
    <3> QED  BY <1>1, <1>2, <2>1, <3>1
  <2>2. CASE i > K
    BY <2>2
  <2> QED  BY <2>1, <2>2
<1> HIDE DEF j
<1>5. ASSUME NEW i \in 1 .. K + L PROVE \E k \in N : Move(j[i - 1], j[i], k, t, B, N)
  <2>1. CASE i <= K
    <3>1. i \in 1 .. K /\ i \in 0 .. K /\ i - 1 \in 0 .. K
      BY <2>1
    <3> QED  BY <1>1, <1>3, <3>1 DEF Moved
  <2>2. CASE i > K
    <3>1. i - K \in 1 .. L /\ i \in K .. K + L /\ i - 1 \in K .. K + L
          /\ (i - 1) - K = (i - K) - 1
      BY <2>2
    <3>2. j[i] = h[i - K] /\ j[i - 1] = h[(i - K) - 1]
      BY <1>4, <3>1
    <3> QED  BY <1>2, <3>1, <3>2 DEF Moved
  <2> QED  BY <2>1, <2>2
<1>6. Moved(j, K + L, t, B, N) /\ K + L \in Nat
  BY <1>5 DEF Moved
<1>7. j[0] = a /\ j[K + L] = c
  <2>1. 0 \in 0 .. K /\ K + L \in K .. K + L /\ (K + L) - K = L
    OBVIOUS
  <2> QED  BY <1>1, <1>2, <1>3, <1>4, <2>1
<1> QED
  BY <1>6, <1>7, Zenon DEF Chain

\* Worlds with the same places.
LEMMA ChainStays ==
  ASSUME NEW a, NEW b, NEW t, NEW B, NEW N, NEW n \in N, Stays(a, b)
  PROVE  Chain(a, b, t, B, N)
  BY ChainOne DEF Move

\* A run from a view that has its types.
GoodRun(g, K, B) == \A i \in 0 .. K : Good(g[i]) /\ B <= g[i].uuid

\* Along a run of moves every view has its types.
LEMMA ChainRun ==
  ASSUME NEW a, NEW b, NEW t, NEW B \in Nat, NEW N \in SUBSET Queues, Good(a),
         B <= a.uuid, Chain(a, b, t, B, N)
  PROVE  \E K \in Nat : \E g : /\ g[0] = a /\ g[K] = b
                               /\ Moved(g, K, t, B, N) /\ GoodRun(g, K, B)
<1>a. PICK K \in Nat : \E g : g[0] = a /\ g[K] = b /\ Moved(g, K, t, B, N)
  BY DEF Chain
<1>1. PICK g : g[0] = a /\ g[K] = b /\ Moved(g, K, t, B, N)
  BY <1>a
<1> DEFINE T == {i \in 0 .. K : Good(g[i]) /\ B <= g[i].uuid}
<1>2. 0 \in T
  BY <1>1
<1>3. ASSUME NEW i \in 1 .. K, i - 1 \in T PROVE i \in T
  <2>1. Good(g[i - 1]) /\ B <= g[i - 1].uuid
    BY <1>3
  <2>2. PICK n \in N : Move(g[i - 1], g[i], n, t, B, N)
    BY <1>1 DEF Moved
  <2>3. n \in Queues
    OBVIOUS
  <2>4. Good(g[i]) /\ g[i - 1].uuid <= g[i].uuid
    BY <2>1, <2>2, <2>3, MoveGood
  <2>5. g[i - 1].uuid \in Nat /\ g[i].uuid \in Nat
    BY <2>1, <2>4 DEF Good
  <2> QED  BY <2>1, <2>4, <2>5
<1>4. ASSUME NEW k \in 0 .. K PROVE k \in T
  <2>1. k \in Nat /\ \A i \in 1 .. k : i \in 1 .. K
    OBVIOUS
  <2> HIDE DEF T
  <2> QED  BY <1>2, <1>3, <2>1, Upward
<1>5. GoodRun(g, K, B)
  BY <1>4 DEF GoodRun
<1> QED
  BY <1>1, <1>5

-----------------------------------------------------------------------------
(* What the operators do to the places.                                    *)

\* The fields of a world that the places come from.
LEMMA AtFields ==
  ASSUME NEW w, NEW p, NEW l, NEW v, v = At(w, p, l)
  PROVE  /\ v.p = p /\ v.l = l /\ v.msg = w.msg /\ v.gone = w.gone /\ v.uuid = w.uuid
         /\ v.dlq = Targets(w) /\ v.max = Limits(w) /\ v.ctr = Counters(w)
         /\ v.lag = Lags(w)
  BY DEF At

\* The attributes of the queues that no receive and no redrive writes.
SameRules(w, v) ==
  \A k \in Queues : /\ v.q[k].dlq = w.q[k].dlq /\ v.q[k].maxRC = w.q[k].maxRC
                    /\ v.q[k].seqCtr = w.q[k].seqCtr /\ v.q[k].delay = w.q[k].delay

\* The rules stay from one world to the next.
LEMMA RulesTrans ==
  ASSUME NEW w, NEW u, NEW v, SameRules(w, u), SameRules(u, v)
  PROVE  SameRules(w, v)
<1> SUFFICES ASSUME NEW k \in Queues
             PROVE  /\ v.q[k].dlq = w.q[k].dlq /\ v.q[k].maxRC = w.q[k].maxRC
                    /\ v.q[k].seqCtr = w.q[k].seqCtr /\ v.q[k].delay = w.q[k].delay
  BY DEF SameRules
<1>1. /\ u.q[k].dlq = w.q[k].dlq /\ u.q[k].maxRC = w.q[k].maxRC
      /\ u.q[k].seqCtr = w.q[k].seqCtr /\ u.q[k].delay = w.q[k].delay
  BY DEF SameRules
<1>2. /\ v.q[k].dlq = u.q[k].dlq /\ v.q[k].maxRC = u.q[k].maxRC
      /\ v.q[k].seqCtr = u.q[k].seqCtr /\ v.q[k].delay = u.q[k].delay
  BY DEF SameRules
<1> QED
  BY <1>1, <1>2

\* The same rules for the same views.
LEMMA RulesSame ==
  ASSUME NEW w, NEW v, SameRules(w, v)
  PROVE  Targets(v) = Targets(w) /\ Limits(v) = Limits(w) /\ Counters(v) = Counters(w)
         /\ Lags(v) = Lags(w)
  BY DEF SameRules, Targets, Limits, Counters, Lags

\* Messages as the sends make them.
Typed(w) == \A m \in 1 .. Len(w.msg) : IsMessage(w.msg[m])

\* The messages of v are those of w, the fields handle and rc aside.
SameHeap(w, v) ==
  /\ IsSeq(v.msg) /\ Len(v.msg) = Len(w.msg)
  /\ \A m \in 1 .. Len(w.msg) : SameMessage(w.msg[m], v.msg[m])
SameCounts(w, v) == \A m \in 1 .. Len(w.msg) : v.msg[m].rc = w.msg[m].rc

\* The same message.
LEMMA SameSelf ==
  ASSUME NEW e
  PROVE  SameMessage(e, e)
  BY DEF SameMessage

\* From w to v, message m of queue n was added to the DLQ.
RoutedTo(w, n, m, v) ==
  LET d == w.q[n].dlq
  IN /\ Shape(v) /\ d \in Queues /\ SameRules(w, v)
     /\ SameHeap(w, v) /\ SameCounts(w, v)
     /\ v.gone = w.gone /\ v.uuid = w.uuid
     /\ \A k \in Queues : v.q[k].inflight = w.q[k].inflight
     /\ \A k \in Queues : k # d => v.q[k].messages = w.q[k].messages
     /\ v.q[d].messages = Append(w.q[d].messages, m)

\* Dead-letter routing writes the slice of the DLQ and one handle.
LEMMA RoutePlaces ==
  ASSUME NEW w, Shape(w), Typed(w), NEW n \in Queues, w.q[n].dlq # None,
         NEW m \in 1 .. Len(w.msg), NEW t, NEW v, v = Route(w, n, m, t)
  PROVE  RoutedTo(w, n, m, v)
<1> DEFINE d == w.q[n].dlq
<1>1. m \in Nat
  BY DEF Shape, IsSeq
<1>2. /\ Frame(w, v) /\ d \in Queues /\ \A k \in Queues : k # d => v.q[k] = w.q[k]
  BY <1>1, RouteEffect
<1>3. DOMAIN w.q[d] = QFields /\ DOMAIN w.q = Queues /\ DOMAIN w = {"msg", "q", "uuid", "gone"}
  BY <1>2 DEF Shape, QShape
<1>4. /\ v.q[d].maxRC = w.q[d].maxRC /\ v.q[d].seqCtr = w.q[d].seqCtr
      /\ v.q[d].delay = w.q[d].delay
      /\ v.q[d].messages = Append(w.q[d].messages, m)
  BY <1>2, <1>3, ZenonT(40) DEF Route, QFields
<1>5. v.msg = [w.msg EXCEPT ![m].handle = 0]
  BY <1>2, <1>3 DEF Route
<1>6. SameHeap(w, v) /\ SameCounts(w, v)
  <2> DEFINE e == [w.msg[m] EXCEPT !.handle = 0]
  <2>1. IsSeq(w.msg) /\ Len(w.msg) \in Nat /\ DOMAIN w.msg = 1 .. Len(w.msg) /\ IsMessage(w.msg[m])
    BY DEF Shape, IsSeq, Typed
  <2>2. v.msg = [w.msg EXCEPT ![m] = e]
    BY <1>5, <2>1
  <2>3. SameMessage(w.msg[m], e) /\ e.rc = w.msg[m].rc
    BY <2>1 DEF IsMessage, MFields, SameMessage
  <2> HIDE DEF e
  <2>4. IsSeq(v.msg) /\ Len(v.msg) = Len(w.msg)
    BY <2>1, <2>2, HeapUpdate
  <2>5. v.msg[m] = e /\ \A k \in 1 .. Len(w.msg) : k # m => v.msg[k] = w.msg[k]
    BY <2>1, <2>2
  <2> QED  BY <2>3, <2>4, <2>5, SameSelf DEF SameHeap, SameCounts
<1> HIDE DEF d
<1>7. SameRules(w, v)
  BY <1>2, <1>4 DEF SameRules, Frame
<1> QED
  BY <1>2, <1>4, <1>6, <1>7 DEF Frame, RoutedTo, d

\* From w to v, message m was put into the slice of queue n.
RequeuedTo(w, n, m, v) ==
  LET s == w.q[n].messages
  IN /\ Shape(v) /\ SameRules(w, v) /\ v.msg = w.msg
     /\ v.gone = w.gone /\ v.uuid = w.uuid
     /\ \A k \in Queues : v.q[k].inflight = w.q[k].inflight
     /\ \A k \in Queues : k # n => v.q[k].messages = w.q[k].messages
     /\ \E i : /\ Puts(s, i, m, v.q[n].messages)
               /\ IsFIFO(n) => i = SearchSeq(w, s, w.msg[m].seq) + 1

\* Requeueing puts the message into the slice of its queue.
LEMMA RequeuePlaces ==
  ASSUME NEW w, Shape(w), NEW n \in Queues, NEW m \in Nat, NEW v, v = Requeue(w, n, m)
  PROVE  RequeuedTo(w, n, m, v)
<1> DEFINE s == w.q[n].messages
           i == SearchSeq(w, s, w.msg[m].seq)
           r == IF IsFIFO(n) THEN InsertAt(s, i + 1, m) ELSE Append(s, m)
<1>1. s \in Seq(Nat) /\ Len(s) \in Nat
  BY DEF Shape, QShape
<1>2. v = WithMessages(w, n, r)
  BY DEF Requeue, WithMessages
<1>3. i \in Nat /\ i <= Len(s)
  <2>1. i \in 0 .. Len(s)
    <3> HIDE DEF s
    <3> QED  BY <1>1, SearchRange
  <2> HIDE DEF i, s
  <2> QED  BY <1>1, <2>1
<1> HIDE DEF s, i
<1>4. CASE IsFIFO(n)
  <2>1. r = InsertAt(s, i + 1, m)
    BY <1>4
  <2> HIDE DEF r
  <2>2. LET z == InsertAt(s, i + 1, m)
        IN /\ z \in Seq(Nat)
           /\ \E j \in DOMAIN z : z[j] = m
           /\ \A j \in DOMAIN s : \E k \in DOMAIN z : z[k] = s[j]
           /\ Len(z) = Len(s) + 1 /\ z[i + 1] = m
           /\ \A j \in 1 .. i : z[j] = s[j]
           /\ \A j \in i + 1 .. Len(s) : z[j + 1] = s[j]
    BY <1>1, <1>3, InsertRange, ZenonT(40)
  <2>3. /\ r \in Seq(Nat) /\ Len(r) = Len(s) + 1 /\ r[i + 1] = m
        /\ \A j \in 1 .. i : r[j] = s[j]
        /\ \A j \in i + 1 .. Len(s) : r[j + 1] = s[j]
    BY <2>1, <2>2, Zenon
  <2>4. Puts(s, i + 1, m, r)
    BY <1>1, <1>3, <2>3 DEF Puts
  <2>5. /\ Shape(v) /\ v.msg = w.msg /\ v.uuid = w.uuid /\ v.gone = w.gone
        /\ \A k \in Queues : k # n => v.q[k] = w.q[k]
        /\ v.q[n].messages = r /\ v.q[n].inflight = w.q[n].inflight
        /\ v.q[n].dlq = w.q[n].dlq
    BY <1>2, <2>3, SetMessages
  <2>6. /\ v.q[n].maxRC = w.q[n].maxRC /\ v.q[n].seqCtr = w.q[n].seqCtr
        /\ v.q[n].delay = w.q[n].delay
    BY <1>2 DEF WithMessages, Shape, QShape, QFields
  <2> QED  BY <2>4, <2>5, <2>6 DEF SameRules, RequeuedTo, s, i
<1>5. CASE ~IsFIFO(n)
  <2>1. r = Append(s, m)
    BY <1>5
  <2> HIDE DEF r
  <2>3. r \in Seq(Nat) /\ Puts(s, Len(s) + 1, m, r)
    BY <1>1, <2>1 DEF Puts
  <2>5. /\ Shape(v) /\ v.msg = w.msg /\ v.uuid = w.uuid /\ v.gone = w.gone
        /\ \A k \in Queues : k # n => v.q[k] = w.q[k]
        /\ v.q[n].messages = r /\ v.q[n].inflight = w.q[n].inflight
        /\ v.q[n].dlq = w.q[n].dlq
    BY <1>2, <2>3, SetMessages
  <2>6. /\ v.q[n].maxRC = w.q[n].maxRC /\ v.q[n].seqCtr = w.q[n].seqCtr
        /\ v.q[n].delay = w.q[n].delay
    BY <1>2 DEF WithMessages, Shape, QShape, QFields
  <2> QED  BY <1>5, <2>3, <2>5, <2>6 DEF SameRules, RequeuedTo, s
<1> QED
  BY <1>4, <1>5

\* An append puts an element at the tail.
LEMMA AppendPuts ==
  ASSUME NEW s \in Seq(Nat), NEW m \in Nat
  PROVE  Puts(s, Len(s) + 1, m, Append(s, m))
  BY DEF Puts

\* A handle taken from the index, a message retired: the rules stay.
LEMMA UnindexRules ==
  ASSUME NEW w, Shape(w), NEW n \in Queues, NEW h
  PROVE  SameRules(w, Unindex(w, n, h))
<1>1. DOMAIN w = {"msg", "q", "uuid", "gone"} /\ DOMAIN w.q = Queues /\ DOMAIN w.q[n] = QFields
  BY DEF Shape, QShape
<1> QED
  BY <1>1 DEF SameRules, Unindex, QFields

\* From w to v, message m of queue n was leased.
LeasedTo(w, n, m, batch, v) ==
  /\ Shape(v) /\ SameRules(w, v) /\ SameHeap(w, v)
  /\ \A k \in 1 .. Len(w.msg) :
       v.msg[k].rc = IF k = m THEN w.msg[k].rc + 1 ELSE w.msg[k].rc
  /\ v.gone = w.gone /\ v.uuid = w.uuid + 1
  /\ \A k \in Queues : v.q[k].messages = w.q[k].messages
  /\ \A k \in Queues : k # n => v.q[k].inflight = w.q[k].inflight
  /\ \E x \in Leases :
       /\ x.m = m /\ x.handle = w.uuid + 1 /\ x.batch = batch
       /\ v.q[n].inflight = Append(w.q[n].inflight, x)

\* The new lease of a message.
LEMMA LeasePlaces ==
  ASSUME NEW w, Shape(w), Typed(w), NEW n \in Queues, NEW m \in 1 .. Len(w.msg),
         NEW vt \in Int, NEW t \in Int, NEW batch \in Nat,
         NEW v, v = Lease(w, n, m, vt, t, batch)
  PROVE  LeasedTo(w, n, m, batch, v)
<1> DEFINE x == [m |-> m, handle |-> w.uuid + 1, visibleAt |-> t + vt, batch |-> batch]
<1>1. DOMAIN w = {"msg", "q", "uuid", "gone"} /\ DOMAIN w.q = Queues /\ DOMAIN w.q[n] = QFields
  BY DEF Shape, QShape
<1>2. m \in Nat /\ w.uuid \in Nat
  BY DEF Shape, IsSeq
<1>3. Leased(w, v, n, m)
  BY <1>2, LeaseEffect
<1>4. x \in Leases /\ x.m = m /\ x.handle = w.uuid + 1 /\ x.batch = batch
  BY <1>2 DEF Leases
<1>5. /\ v.uuid = w.uuid + 1 /\ v.q[n].inflight = Append(w.q[n].inflight, x)
      /\ v.q[n].maxRC = w.q[n].maxRC /\ v.q[n].seqCtr = w.q[n].seqCtr
      /\ v.q[n].delay = w.q[n].delay
  BY <1>1 DEF Lease, QFields
<1>6. v.msg = [w.msg EXCEPT ![m].handle = w.uuid + 1, ![m].rc = @ + 1]
  BY <1>1 DEF Lease
<1>7. /\ SameHeap(w, v)
      /\ \A k \in 1 .. Len(w.msg) :
           v.msg[k].rc = IF k = m THEN w.msg[k].rc + 1 ELSE w.msg[k].rc
  <2>1. IsSeq(w.msg) /\ IsMessage(w.msg[m]) /\ Len(w.msg) \in Nat /\ DOMAIN w.msg = 1 .. Len(w.msg)
    BY DEF Shape, IsSeq, Typed
  <2> DEFINE e == [[w.msg[m] EXCEPT !.handle = w.uuid + 1] EXCEPT !.rc = w.msg[m].rc + 1]
  <2>2. v.msg = [w.msg EXCEPT ![m] = e]
    BY <1>6, <2>1 DEF IsMessage, MFields
  <2>3. SameMessage(w.msg[m], e) /\ e.rc = w.msg[m].rc + 1
    BY <2>1 DEF IsMessage, MFields, SameMessage
  <2> HIDE DEF e
  <2>4. IsSeq(v.msg) /\ Len(v.msg) = Len(w.msg)
    <3>1. /\ IsSeq([w.msg EXCEPT ![m] = e])
          /\ Len([w.msg EXCEPT ![m] = e]) = Len(w.msg)
      BY <2>1, HeapUpdate, Zenon
    <3> QED  BY <2>2, <3>1, Zenon
  <2>5. v.msg[m] = e /\ \A k \in 1 .. Len(w.msg) : k # m => v.msg[k] = w.msg[k]
    BY <2>1, <2>2
  <2> QED  BY <2>3, <2>4, <2>5, SameSelf DEF SameHeap
<1> HIDE DEF x
<1>8. SameRules(w, v)
  BY <1>3, <1>5 DEF SameRules, Leased
<1>9. \A k \in Queues : v.q[k].messages = w.q[k].messages
  BY <1>3 DEF Leased
<1> QED
  BY <1>3, <1>4, <1>5, <1>7, <1>8, <1>9 DEF Leased, LeasedTo

\* Worlds with the same rules and messages.
LEMMA SteadyWorlds ==
  ASSUME NEW w, NEW v, SameRules(w, v), SameHeap(w, v),
         NEW p, NEW l, NEW q, NEW r, NEW a, a = At(w, p, l), NEW b, b = At(v, q, r)
  PROVE  /\ Steady(a, b)
         /\ SameCounts(w, v) /\ v.uuid = w.uuid => Still(a, b)
<1>1. Targets(v) = Targets(w) /\ Limits(v) = Limits(w) /\ Counters(v) = Counters(w)
      /\ Lags(v) = Lags(w)
  BY RulesSame
<1>2. /\ a.msg = w.msg /\ a.uuid = w.uuid /\ a.dlq = Targets(w) /\ a.max = Limits(w)
      /\ a.ctr = Counters(w) /\ a.lag = Lags(w)
  BY AtFields
<1>3. /\ b.msg = v.msg /\ b.uuid = v.uuid /\ b.dlq = Targets(v) /\ b.max = Limits(v)
      /\ b.ctr = Counters(v) /\ b.lag = Lags(v)
  BY AtFields
<1>4. Steady(a, b)
  BY <1>1, <1>2, <1>3 DEF Steady, SameHeap
<1> QED
  BY <1>2, <1>3, <1>4 DEF Still, SameCounts

\* The same messages.
LEMMA HeapSelf ==
  ASSUME NEW w, NEW v, IsSeq(w.msg), v.msg = w.msg
  PROVE  SameHeap(w, v) /\ SameCounts(w, v)
  BY SameSelf DEF SameHeap, SameCounts

\* Worlds with the same places.
LEMMA PlacesSame ==
  ASSUME NEW w, Shape(w), NEW v, SameRules(w, v), v.msg = w.msg, v.gone = w.gone,
         v.uuid = w.uuid,
         \A k \in Queues : /\ v.q[k].messages = w.q[k].messages
                           /\ v.q[k].inflight = w.q[k].inflight
  PROVE  Stays(View(w), View(v))
<1>1. SameHeap(w, v) /\ SameCounts(w, v)
  BY HeapSelf DEF Shape
<1>2. Still(View(w), View(v))
  BY <1>1, SteadyWorlds DEF View
<1>3. /\ View(w).p = Slices(w) /\ View(v).p = Slices(v)
      /\ View(w).l = Lent(w) /\ View(v).l = Lent(v)
      /\ View(w).gone = w.gone /\ View(v).gone = v.gone
  BY AtFields DEF View
<1>4. \A k \in Queues : Slices(v)[k] = Slices(w)[k] /\ Lent(v)[k] = Lent(w)[k]
  BY DEF Slices, Lent
<1> QED
  BY <1>2, <1>3, <1>4 DEF Stays, SamePending, SameLeases

\* What a view says of the policies.
LEMMA RoutesWorld ==
  ASSUME NEW w, NEW n \in Queues, NEW m, NEW p, NEW l, NEW a, a = At(w, p, l)
  PROVE  Routes(a, n, m) <=> ShouldRoute(w, n, m)
<1>1. a.msg = w.msg /\ a.dlq = Targets(w) /\ a.max = Limits(w)
  BY AtFields
<1>2. a.dlq[n] = w.q[n].dlq /\ a.max[n] = w.q[n].maxRC
  BY <1>1 DEF Targets, Limits
<1> QED
  BY <1>1, <1>2 DEF Routes, ShouldRoute

\* One more lease.
LEMMA AppendLeases ==
  ASSUME NEW y \in Seq(Leases), NEW x \in Leases
  PROVE  LeaseSet(Append(y, x)) = LeaseSet(y) \cup {x}
<1> DEFINE z == Append(y, x)
<1>1. /\ z \in Seq(Leases) /\ DOMAIN z = 1 .. Len(z) /\ z[Len(z)] = x
      /\ \A k \in DOMAIN y : k \in DOMAIN z /\ z[k] = y[k]
      /\ \A k \in DOMAIN z : k \in DOMAIN y \/ k = Len(z)
      /\ Len(z) \in Nat \ {0}
  BY AppendRange
<1> HIDE DEF z
<1>2. \A e \in LeaseSet(z) : e \in LeaseSet(y) \/ e = x
  BY <1>1 DEF LeaseSet
<1>3. LeaseSet(y) \subseteq LeaseSet(z)
  BY <1>1 DEF LeaseSet
<1>4. x \in LeaseSet(z)
  BY <1>1 DEF LeaseSet
<1>5. LeaseSet(z) = LeaseSet(y) \cup {x}
  BY <1>2, <1>3, <1>4
<1> QED
  BY <1>5 DEF z

-----------------------------------------------------------------------------
(* The sweep as a run of moves.                                            *)

\* The leases of queue n after i visits: those kept, those to be visited.
SweepLent(w, n, a, i) ==
  LeaseSet(a.kept) \cup {w.q[n].inflight[j] : j \in i + 1 .. Len(w.q[n].inflight)}
SweepView(w, n, a, i) ==
  At(a.w, Slices(a.w), [Lent(a.w) EXCEPT ![n] = SweepLent(w, n, a, i)])

\* A lease that ends leaves the view.
LEMMA SweepEnd ==
  ASSUME NEW w, Sound(w), NEW n \in Queues, NEW a,
         NEW i \in 1 .. Len(w.q[n].inflight), SweepAt(w, n, a, i - 1),
         NEW b, b.kept = a.kept,
         \A k \in Queues : b.w.q[k].inflight = a.w.q[k].inflight
  PROVE  Ends(SweepView(w, n, a, i - 1), SweepView(w, n, b, i), n,
              w.q[n].inflight[i], w.uuid)
<1> DEFINE s == w.q[n].inflight
           c == a.kept
           N == Len(s)
           y == SweepView(w, n, a, i - 1)
           z == SweepView(w, n, b, i)
<1>1. /\ s \in Seq(Leases) /\ N \in Nat /\ i \in 1 .. N /\ DOMAIN s = 1 .. N
      /\ Distinct(s) /\ \A h \in Handles(s) : h <= w.uuid
  BY DEF Sound, Shape, QShape, Indexed
<1>2. \A p \in DOMAIN c : \E j \in 1 .. i - 1 : c[p] = s[j]
  BY DEF SweepAt, SweepInv
<1>3. /\ y.l = [Lent(a.w) EXCEPT ![n] = SweepLent(w, n, a, i - 1)]
      /\ z.l = [Lent(b.w) EXCEPT ![n] = SweepLent(w, n, b, i)]
  BY AtFields DEF SweepView
<1>4. /\ y.l[n] = SweepLent(w, n, a, i - 1) /\ z.l[n] = SweepLent(w, n, b, i)
      /\ \A k \in Queues : k # n => y.l[k] = Lent(a.w)[k] /\ z.l[k] = Lent(b.w)[k]
  BY <1>3 DEF Lent
<1> HIDE DEF y, z
<1>5. SweepLent(w, n, a, i - 1) = LeaseSet(c) \cup {s[j] : j \in i - 1 + 1 .. N}
  BY DEF SweepLent
<1>6. SweepLent(w, n, b, i) = LeaseSet(c) \cup {s[j] : j \in i + 1 .. N}
  BY DEF SweepLent
<1> HIDE DEF s, N, c
<1>7. {s[j] : j \in i - 1 + 1 .. N} = {s[j] : j \in i + 1 .. N} \cup {s[i]}
  <2>1. \A j : j \in i - 1 + 1 .. N <=> j \in i + 1 .. N \/ j = i
    BY <1>1
  <2> QED  BY <2>1
<1>8. \A j \in 1 .. N : s[j] = s[i] => j = i
  BY <1>1 DEF Distinct
<1>9. s[i] \notin LeaseSet(c) /\ s[i] \notin {s[j] : j \in i + 1 .. N}
  <2>1. \A j \in 1 .. i - 1 : j \in 1 .. N /\ j # i
    BY <1>1
  <2>2. \A j \in i + 1 .. N : j \in 1 .. N /\ j # i
    BY <1>1
  <2> QED  BY <1>2, <1>8, <2>1, <2>2 DEF LeaseSet
<1>10. s[i] \in y.l[n] /\ z.l[n] = y.l[n] \ {s[i]}
  <2> DEFINE S == {s[j] : j \in i + 1 .. N}
             C == LeaseSet(c)
  <2>1. y.l[n] = C \cup (S \cup {s[i]}) /\ z.l[n] = C \cup S /\ s[i] \notin C /\ s[i] \notin S
    BY <1>4, <1>5, <1>6, <1>7, <1>9, Zenon
  <2> HIDE DEF S, C
  <2> QED  BY <2>1
<1>11. s[i].handle <= w.uuid
  BY <1>1 DEF Handles
<1>12. \A k \in Queues : k # n => z.l[k] = y.l[k]
  BY <1>4 DEF Lent
<1> QED
  BY <1>10, <1>11, <1>12 DEF Ends, SameLeases, y, z, s

\* One visit of the sweep is one move.
LEMMA SweepMove ==
  ASSUME NEW w, Sound(w), NEW n \in Queues, NEW t \in Int, NEW a,
         NEW i \in 1 .. Len(w.q[n].inflight), SweepAt(w, n, a, i - 1),
         Good(SweepView(w, n, a, i - 1)),
         NEW b, b = SweepOne(a, w.q[n].inflight[i], n, t)
  PROVE  Move(SweepView(w, n, a, i - 1), SweepView(w, n, b, i), n, t, w.uuid, {n})
<1> DEFINE u == a.w
           c == a.kept
           s == w.q[n].inflight
           x == s[i]
           N == Len(s)
           h == x.handle
           g == x.m
           y == Unindex(u, n, h)
           p == SweepView(w, n, a, i - 1)
           q == SweepView(w, n, b, i)
<1>1. /\ DOMAIN a = {"w", "kept"} /\ a.w = u /\ a.kept = c /\ a = [w |-> u, kept |-> c]
      /\ Shape(u) /\ c \in Seq(Leases)
  BY DEF SweepAt, SweepInv, SweepFrame
<1>2. /\ s \in Seq(Leases) /\ N \in Nat /\ i \in 1 .. N /\ DOMAIN s = 1 .. N /\ x \in Leases
  BY DEF Sound, Shape, QShape
<1>3. /\ p.msg = u.msg /\ p.p = Slices(u) /\ p.gone = u.gone /\ p.uuid = u.uuid
      /\ p.dlq = Targets(u) /\ p.max = Limits(u)
      /\ q.msg = b.w.msg /\ q.p = Slices(b.w) /\ q.gone = b.w.gone
  <2>1. /\ p.msg = u.msg /\ p.p = Slices(u) /\ p.gone = u.gone /\ p.uuid = u.uuid
        /\ p.dlq = Targets(u) /\ p.max = Limits(u)
    BY AtFields DEF SweepView
  <2>2. q.msg = b.w.msg /\ q.p = Slices(b.w) /\ q.gone = b.w.gone
    BY AtFields DEF SweepView
  <2> QED  BY <2>1, <2>2
<1>4. x \in p.l[n]
  <2>1. p.l = [Lent(u) EXCEPT ![n] = SweepLent(w, n, a, i - 1)]
    BY AtFields DEF SweepView
  <2>2. p.l[n] = SweepLent(w, n, a, i - 1)
    BY <2>1 DEF Lent
  <2>3. i \in i - 1 + 1 .. N
    BY <1>2
  <2> QED  BY <2>2, <2>3 DEF SweepLent
<1>a. Good(p)
  OBVIOUS
<1> HIDE DEF s, p, u, c
<1>5. g \in 1 .. Len(u.msg) /\ Typed(u) /\ g \in Nat
  BY <1>a, <1>2, <1>3, <1>4 DEF Good, LeaseOk, Typed, Leases
<1>6. b = SweepOne(a, x, n, t)
  BY DEF s
<1> HIDE DEF x
<1>7. /\ Shape(y) /\ SameRules(u, y)
      /\ y.msg = u.msg /\ y.uuid = u.uuid /\ y.gone = u.gone
      /\ \A k \in Queues : y.q[k].messages = u.q[k].messages
      /\ \A k \in Queues : y.q[k].inflight = u.q[k].inflight
  <2>1. /\ Shape(y)
        /\ y.msg = u.msg /\ y.uuid = u.uuid /\ y.gone = u.gone
        /\ \A k \in Queues : k # n => y.q[k] = u.q[k]
        /\ y.q[n].messages = u.q[n].messages
        /\ y.q[n].inflight = u.q[n].inflight
    BY <1>1, UnindexEffect
  <2> QED  BY <1>1, <2>1, UnindexRules
<1> HIDE DEF q
<1>8. CASE Expired(u, g, t)
  <2> DEFINE v == Retire(y, g)
  <2>1. b = [w |-> v, kept |-> c]
    <3>1. b = [a EXCEPT !.w.q[n].byHandle = @ \ {h}, !.w.gone = @ \cup {g}]
      BY <1>6, <1>8, <1>1 DEF SweepOne
    <3>2. v = [u EXCEPT !.q[n].byHandle = @ \ {h}, !.gone = @ \cup {g}]
      BY <1>1 DEF Unindex, Retire, Shape
    <3> QED  BY <3>1, <3>2, <1>1 DEF Shape
  <2> HIDE DEF y
  <2>2. /\ v.msg = y.msg /\ v.uuid = y.uuid /\ v.q = y.q /\ v.gone = y.gone \cup {g}
    BY <1>7, RetireEffect
  <2> HIDE DEF v
  <2>3. b.w = v /\ b.kept = c
    BY <2>1
  <2>4. Ends(p, q, n, x, w.uuid)
    BY <1>1, <1>7, <2>2, <2>3, SweepEnd DEF p, q, x, s, u
  <2>5. SameRules(u, v) /\ SameHeap(u, v) /\ SameCounts(u, v) /\ v.uuid = u.uuid
    BY <1>1, <1>7, <2>2, HeapSelf DEF SameRules, Shape
  <2>6. Still(p, q)
    BY <2>3, <2>5, SteadyWorlds DEF p, q, SweepView, u
  <2>7. SamePending(p, q, {}) /\ q.gone = p.gone \cup {g}
    BY <1>3, <1>7, <2>2, <2>3 DEF SamePending, Slices
  <2>8. Drops(p, q, n, w.uuid)
    BY <2>4, <2>6, <2>7 DEF Drops
  <2> QED  BY <2>8 DEF Move, p, q
<1>9. CASE ~Expired(u, g, t) /\ LeaseOver(x, t)
  <2> DEFINE v == RouteOrRequeue(y, n, g, t)
  <2>1. b = [w |-> v, kept |-> c]
    BY <1>6, <1>9, <1>1 DEF SweepOne, Unindex
  <2> HIDE DEF y
  <2>2. b.w = v /\ b.kept = c
    BY <2>1
  <2>a. Typed(y) /\ g \in 1 .. Len(y.msg)
    BY <1>5, <1>7 DEF Typed
  <2>3. ShouldRoute(y, n, g) <=> Routes(p, n, g)
    <3>1. Routes(p, n, g) <=> ShouldRoute(u, n, g)
      BY RoutesWorld DEF p, SweepView, u
    <3> QED  BY <1>7, <3>1 DEF ShouldRoute, SameRules
  <2>4. CASE ShouldRoute(y, n, g)
    <3> DEFINE d == y.q[n].dlq
    <3>1. v = Route(y, n, g, t) /\ d # None
      BY <2>4 DEF RouteOrRequeue, ShouldRoute
    <3> HIDE DEF v
    <3>2. /\ Shape(v) /\ d \in Queues /\ SameRules(y, v)
          /\ SameHeap(y, v) /\ SameCounts(y, v)
          /\ v.gone = y.gone /\ v.uuid = y.uuid
          /\ \A k \in Queues : v.q[k].inflight = y.q[k].inflight
          /\ \A k \in Queues : k # d => v.q[k].messages = y.q[k].messages
          /\ v.q[d].messages = Append(y.q[d].messages, g)
      <4>1. RoutedTo(y, n, g, v)
        BY <1>7, <2>a, <3>1, RoutePlaces
      <4> QED  BY <4>1 DEF RoutedTo
    <3>3. Ends(p, q, n, x, w.uuid)
      BY <1>7, <2>2, <3>2, SweepEnd DEF p, q, x, s, u, c
    <3>4. SameRules(u, v) /\ SameHeap(u, v) /\ SameCounts(u, v) /\ v.uuid = u.uuid
      <4>1. SameRules(u, v)
        BY <1>7, <3>2, RulesTrans
      <4> QED  BY <1>7, <3>2, <4>1 DEF SameHeap, SameCounts
    <3>5. Still(p, q)
      BY <2>2, <3>4, SteadyWorlds DEF p, q, SweepView, u
    <3>6. p.dlq[n] = d
      BY <1>3, <1>7 DEF Targets, SameRules
    <3>7. SamePending(p, q, {d}) /\ q.gone = p.gone
      <4>1. \A k \in Queues : p.p[k] = u.q[k].messages /\ q.p[k] = v.q[k].messages
        BY <1>3, <2>2 DEF Slices
      <4>2. \A k \in Queues : k # d => q.p[k] = p.p[k]
        <5> SUFFICES ASSUME NEW k \in Queues, k # d PROVE q.p[k] = p.p[k]
          OBVIOUS
        <5>1. v.q[k].messages = y.q[k].messages
          BY <3>2
        <5>2. y.q[k].messages = u.q[k].messages
          BY <1>7
        <5> QED  BY <4>1, <5>1, <5>2
      <4>3. q.gone = p.gone
        BY <1>3, <1>7, <2>2, <3>2
      <4> HIDE DEF d
      <4> QED  BY <4>2, <4>3 DEF SamePending
    <3>8. Tails(p, q, d, g)
      <4>1. q.p[d] = Append(p.p[d], g) /\ p.p[d] \in Seq(Nat) /\ g \in Nat
        BY <1>3, <1>5, <1>7, <2>2, <3>2, ZenonT(40) DEF Slices, Shape, QShape
      <4> QED  BY <4>1, AppendPuts DEF Tails
    <3>9. Deads(p, q, n, w.uuid)
      BY <2>3, <2>4, <3>3, <3>5, <3>6, <3>7, <3>8 DEF Deads
    <3> QED  BY <3>9 DEF Move, p, q
  <2>5. CASE ~ShouldRoute(y, n, g)
    <3>1. v = Requeue(y, n, g)
      BY <2>5 DEF RouteOrRequeue
    <3> HIDE DEF v
    <3> DEFINE z == y.q[n].messages
    <3>2. /\ Shape(v) /\ SameRules(y, v) /\ v.msg = y.msg
          /\ v.gone = y.gone /\ v.uuid = y.uuid
          /\ \A k \in Queues : v.q[k].inflight = y.q[k].inflight
          /\ \A k \in Queues : k # n => v.q[k].messages = y.q[k].messages
          /\ \E j : /\ Puts(z, j, g, v.q[n].messages)
                    /\ IsFIFO(n) => j = SearchSeq(y, z, y.msg[g].seq) + 1
      <4>1. RequeuedTo(y, n, g, v)
        BY <1>5, <1>7, <3>1, RequeuePlaces
      <4> QED  BY <4>1 DEF RequeuedTo
    <3>3. PICK j : /\ Puts(z, j, g, v.q[n].messages)
                   /\ IsFIFO(n) => j = SearchSeq(y, z, y.msg[g].seq) + 1
      BY <3>2
    <3>4. Ends(p, q, n, x, w.uuid)
      BY <1>7, <2>2, <3>2, SweepEnd DEF p, q, x, s, u, c
    <3>5. SameRules(u, v) /\ SameHeap(u, v) /\ SameCounts(u, v) /\ v.uuid = u.uuid
      <4>1. SameRules(u, v)
        BY <1>7, <3>2 DEF SameRules
      <4>2. IsSeq(u.msg) /\ v.msg = u.msg /\ v.uuid = u.uuid
        BY <1>1, <1>7, <3>2 DEF Shape
      <4> QED  BY <4>1, <4>2, HeapSelf
    <3>6. Still(p, q)
      BY <2>2, <3>5, SteadyWorlds DEF p, q, SweepView, u
    <3>7. SamePending(p, q, {n}) /\ q.gone = p.gone
      BY <1>3, <1>7, <2>2, <3>2 DEF SamePending, Slices
    <3>8. p.p[n] = z /\ q.p[n] = v.q[n].messages
      BY <1>3, <1>7, <2>2 DEF Slices
    <3>9. x.visibleAt < t
      BY <1>2, <1>9 DEF LeaseOver, Leases
    <3>10. ASSUME IsFIFO(n), Sorted(p, p.p[n]) PROVE Fits(p, p.p[n], j, g)
      <4>1. /\ z \in Seq(Nat) /\ j = SearchSeq(y, z, y.msg[g].seq) + 1 /\ p.msg = y.msg
        BY <1>3, <1>7, <3>3, <3>10 DEF Shape, QShape
      <4>2. /\ \A k \in 1 .. Len(z) : z[k] \in 1 .. Len(y.msg)
            /\ \A k \in 1 .. Len(y.msg) : y.msg[k].seq \in Int
        <5>1. Elems(p.p[n]) \subseteq 1 .. Len(p.msg)
          BY <1>a DEF Good
        <5>2. Elems(z) \subseteq 1 .. Len(y.msg)
          BY <3>8, <4>1, <5>1
        <5>3. \A k \in 1 .. Len(z) : z[k] \in 1 .. Len(y.msg)
          BY <5>2 DEF Elems
        <5> QED  BY <2>a, <5>3 DEF Typed, IsMessage
      <4>3. /\ \A k \in 1 .. Len(z) : y.msg[z[k]].seq \in Int
            /\ y.msg[g].seq \in Int
            /\ \A k, l \in 1 .. Len(z) : k < l => y.msg[z[k]].seq <= y.msg[z[l]].seq
        BY <2>a, <3>8, <3>10, <4>1, <4>2 DEF Sorted
      <4> DEFINE r == SearchSeq(y, z, y.msg[g].seq)
      <4>4. /\ \A k \in 1 .. r : y.msg[z[k]].seq <= y.msg[g].seq
            /\ \A k \in r + 1 .. Len(z) : y.msg[g].seq < y.msg[z[k]].seq
        <5> HIDE DEF z
        <5> QED  BY <4>1, <4>3, SearchSorted
      <4>5. r \in 0 .. Len(z)
        <5> HIDE DEF z
        <5> QED  BY <4>1, SearchRange
      <4>6. Len(z) \in Nat
        BY <4>1
      <4> HIDE DEF r
      <4>7. j = r + 1 /\ j - 1 = r
        BY <4>1, <4>5, <4>6 DEF r
      <4> QED  BY <3>8, <4>1, <4>4, <4>7 DEF Fits
    <3>11. Backs(p, q, n, t, w.uuid)
      BY <2>3, <2>5, <3>3, <3>4, <3>6, <3>7, <3>8, <3>9, <3>10 DEF Backs
    <3> QED  BY <3>11 DEF Move, p, q
  <2> QED  BY <2>4, <2>5
<1>10. CASE ~Expired(u, g, t) /\ ~LeaseOver(x, t)
  <2> DEFINE e == Append(c, x)
  <2>1. b = [w |-> u, kept |-> e]
    BY <1>6, <1>10, <1>1 DEF SweepOne
  <2>3. LeaseSet(e) = LeaseSet(c) \cup {x}
    BY <1>1, <1>2, AppendLeases
  <2> HIDE DEF e
  <2>4. b.w = u /\ b.kept = e
    BY <2>1
  <2>5. {s[j] : j \in i - 1 + 1 .. N} = {s[j] : j \in i + 1 .. N} \cup {x}
    <3>1. \A j : j \in i - 1 + 1 .. N <=> j \in i + 1 .. N \/ j = i
      BY <1>2
    <3> QED  BY <3>1 DEF x
  <2>6. SweepLent(w, n, b, i) = SweepLent(w, n, a, i - 1)
    <3>1. /\ SweepLent(w, n, b, i) = LeaseSet(e) \cup {s[j] : j \in i + 1 .. N}
          /\ SweepLent(w, n, a, i - 1) = LeaseSet(c) \cup {s[j] : j \in i - 1 + 1 .. N}
      BY <2>4 DEF SweepLent, s, c
    <3> QED  BY <2>3, <2>5, <3>1
  <2>7. q = p
    BY <2>4, <2>6 DEF p, q, SweepView, u
  <2>8. Stays(p, p)
    <3>1. IsSeq(p.msg)
      BY <1>3, <1>1 DEF Shape
    <3> QED  BY <3>1, SameSelf DEF Stays, Still, Steady, SamePending, SameLeases
  <2> QED  BY <2>7, <2>8 DEF Move, p, q
<1> QED
  BY <1>8, <1>9, <1>10

\* Visits that each make one move are a run; T has what else holds on the way.
LEMMA ChainVisits ==
  ASSUME NEW N \in Nat, NEW h, NEW t, NEW B \in Nat, NEW S \in SUBSET Queues, NEW n \in S,
         Good(h[0]), B <= h[0].uuid, NEW T, 0 \in T,
         \A i \in 1 .. N : i - 1 \in T /\ Good(h[i - 1])
                             => i \in T /\ Move(h[i - 1], h[i], n, t, B, S)
  PROVE  Chain(h[0], h[N], t, B, S) /\ N \in T
<1> DEFINE R == {i \in 0 .. N : i \in T /\ Good(h[i]) /\ B <= h[i].uuid}
           Q == {i \in 1 .. N : Move(h[i - 1], h[i], n, t, B, S)}
<1>1. 0 \in R
  OBVIOUS
<1>2. ASSUME NEW i \in 1 .. N, i - 1 \in R PROVE i \in R /\ i \in Q
  <2>1. i - 1 \in T /\ Good(h[i - 1]) /\ B <= h[i - 1].uuid
    BY <1>2
  <2>2. i \in T /\ Move(h[i - 1], h[i], n, t, B, S)
    BY <2>1
  <2>3. n \in Queues
    OBVIOUS
  <2>4. Good(h[i]) /\ h[i - 1].uuid <= h[i].uuid
    BY <2>1, <2>2, <2>3, MoveGood
  <2>5. h[i - 1].uuid \in Nat /\ h[i].uuid \in Nat
    BY <2>1, <2>4 DEF Good
  <2> QED  BY <2>1, <2>2, <2>4, <2>5
<1>3. ASSUME NEW k \in 0 .. N PROVE k \in R
  <2>1. k \in Nat /\ \A i \in 1 .. k : i \in 1 .. N
    OBVIOUS
  <2> HIDE DEF R, Q
  <2> QED  BY <1>1, <1>2, <2>1, Upward
<1>4. ASSUME NEW i \in 1 .. N PROVE Move(h[i - 1], h[i], n, t, B, S)
  <2>1. i - 1 \in 0 .. N
    OBVIOUS
  <2>2. i - 1 \in R
    BY <1>3, <2>1
  <2>3. i \in Q
    BY <1>2, <2>2
  <2> QED  BY <2>3
<1>5. Moved(h, N, t, B, S)
  BY <1>4 DEF Moved
<1>6. N \in T
  <2>1. N \in 0 .. N
    OBVIOUS
  <2> QED  BY <1>3, <2>1
<1> QED
  BY <1>5, <1>6 DEF Chain

\* The end of a run.
LEMMA ChainGood ==
  ASSUME NEW a, NEW b, NEW t, NEW B \in Nat, NEW S \in SUBSET Queues, Good(a),
         B <= a.uuid, Chain(a, b, t, B, S)
  PROVE  Good(b) /\ B <= b.uuid
<1>1. PICK K \in Nat : \E g : /\ g[0] = a /\ g[K] = b
                              /\ Moved(g, K, t, B, S) /\ GoodRun(g, K, B)
  BY ChainRun
<1>a. PICK g : /\ g[0] = a /\ g[K] = b
               /\ Moved(g, K, t, B, S) /\ GoodRun(g, K, B)
  BY <1>1
<1>2. K \in 0 .. K
  OBVIOUS
<1> QED
  BY <1>a, <1>2 DEF GoodRun

\* The same rules, messages, slices and leases are the same view.
LEMMA ViewIs ==
  ASSUME NEW u, NEW v, SameRules(u, v), v.msg = u.msg, v.gone = u.gone, v.uuid = u.uuid
  PROVE  View(v) = At(u, Slices(v), Lent(v))
<1>1. Targets(v) = Targets(u) /\ Limits(v) = Limits(u) /\ Counters(v) = Counters(u)
      /\ Lags(v) = Lags(u)
  BY RulesSame
<1> QED
  BY <1>1 DEF View, At

\* A new in-flight slice, a new pending slice: the rules stay.
LEMMA SliceRules ==
  ASSUME NEW w, Shape(w), NEW n \in Queues, NEW s
  PROVE  SameRules(w, WithInflight(w, n, s)) /\ SameRules(w, WithMessages(w, n, s))
<1>1. DOMAIN w = {"msg", "q", "uuid", "gone"} /\ DOMAIN w.q = Queues /\ DOMAIN w.q[n] = QFields
  BY DEF Shape, QShape
<1>2. SameRules(w, WithInflight(w, n, s))
  BY <1>1 DEF SameRules, WithInflight, QFields
<1>3. SameRules(w, WithMessages(w, n, s))
  BY <1>1 DEF SameRules, WithMessages, QFields
<1> QED
  BY <1>2, <1>3

\* Pass 1 of a receive moves messages one by one.
LEMMA SweepChain ==
  ASSUME NEW w, Sound(w), Good(View(w)), NEW n \in Queues, NEW t \in Int
  PROVE  /\ Chain(View(w), View(Sweep(w, n, t)), t, w.uuid, {n})
         /\ Sweep(w, n, t).uuid = w.uuid
<1> DEFINE s == w.q[n].inflight
           N == Len(s)
           v == Sweep(w, n, t)
<1>1. s \in Seq(Leases) /\ N \in Nat /\ DOMAIN s = 1 .. N /\ w.uuid \in Nat
  BY DEF Sound, Shape, QShape
<1>2. PICK f : SweepRun(w, n, t, f)
  BY <1>1, SweepPass
<1>3. /\ f[0] = [w |-> w, kept |-> <<>>]
      /\ \A i \in 1 .. N : f[i] = SweepOne(f[i - 1], s[i], n, t)
      /\ v = WithInflight(f[N].w, n, f[N].kept)
  BY <1>2 DEF SweepRun
<1>4. \A i \in 0 .. N : SweepAt(w, n, f[i], i)
  BY <1>2, SweepAlong
<1> HIDE DEF v
<1> DEFINE h == [i \in 0 .. N |-> SweepView(w, n, f[i], i)]
<1>5. h[0] = View(w)
  <2>1. f[0].w = w /\ f[0].kept = <<>>
    BY <1>3
  <2>2. SweepLent(w, n, f[0], 0) = Lent(w)[n]
    <3>1. 0 + 1 .. N = DOMAIN s /\ LeaseSet(<<>>) = {}
      BY <1>1 DEF LeaseSet
    <3>2. Lent(w)[n] = LeaseSet(s)
      BY DEF Lent
    <3>3. SweepLent(w, n, f[0], 0) = LeaseSet(<<>>) \cup {s[j] : j \in 0 + 1 .. N}
      BY <2>1 DEF SweepLent
    <3> HIDE DEF s, N
    <3> QED  BY <3>1, <3>2, <3>3 DEF LeaseSet
  <2>3. [Lent(w) EXCEPT ![n] = SweepLent(w, n, f[0], 0)] = Lent(w)
    BY <2>2 DEF Lent
  <2>4. 0 \in 0 .. N
    BY <1>1
  <2>5. SweepView(w, n, f[0], 0) = View(w)
    BY <2>1, <2>3 DEF SweepView, View
  <2> QED  BY <2>4, <2>5
<1>6. SweepAt(w, n, f[N], N) /\ h[N] = SweepView(w, n, f[N], N)
  <2>1. N \in 0 .. N
    BY <1>1
  <2> QED  BY <1>4, <2>1
<1>7. ASSUME NEW i \in 1 .. N, i - 1 \in 0 .. N, Good(h[i - 1])
      PROVE  i \in 0 .. N /\ Move(h[i - 1], h[i], n, t, w.uuid, {n})
  <2>1. i \in 0 .. N
    BY <1>1
  <2>2. h[i - 1] = SweepView(w, n, f[i - 1], i - 1) /\ h[i] = SweepView(w, n, f[i], i)
    BY <1>7, <2>1
  <2> HIDE DEF h
  <2>3. f[i] = SweepOne(f[i - 1], s[i], n, t) /\ SweepAt(w, n, f[i - 1], i - 1)
    BY <1>3, <1>4, <1>7
  <2>4. Good(SweepView(w, n, f[i - 1], i - 1))
    BY <1>7, <2>2
  <2>5. Move(SweepView(w, n, f[i - 1], i - 1), SweepView(w, n, f[i], i), n, t, w.uuid, {n})
    BY <2>3, <2>4, SweepMove
  <2> QED  BY <2>1, <2>2, <2>5
<1>8. View(w).uuid = w.uuid
  BY DEF View, At
<1>9. Chain(h[0], h[N], t, w.uuid, {n})
  <2>1. Good(h[0]) /\ w.uuid <= h[0].uuid /\ 0 \in 0 .. N
    BY <1>1, <1>5, <1>8
  <2>2. \A i \in 1 .. N : i - 1 \in 0 .. N /\ Good(h[i - 1])
                            => i \in 0 .. N /\ Move(h[i - 1], h[i], n, t, w.uuid, {n})
    BY <1>7
  <2>3. {n} \in SUBSET Queues /\ n \in {n}
    OBVIOUS
  <2> HIDE DEF h, N
  <2> QED  BY <1>1, <2>1, <2>2, <2>3, ChainVisits
<1> HIDE DEF h
<1> DEFINE u == f[N].w
           c == f[N].kept
<1>10. Shape(u) /\ c \in Seq(Leases) /\ u.uuid = w.uuid
  BY <1>6 DEF SweepAt, SweepInv, SweepFrame
<1>11. SweepView(w, n, f[N], N) = At(u, Slices(u), [Lent(u) EXCEPT ![n] = LeaseSet(c)])
  <2>1. N + 1 .. N = {}
    BY <1>1
  <2>2. SweepLent(w, n, f[N], N) = LeaseSet(c)
    BY <2>1 DEF SweepLent
  <2> QED  BY <2>2 DEF SweepView
<1>12. v = WithInflight(u, n, c)
  BY <1>3
<1> HIDE DEF u, c
<1>13. /\ v.msg = u.msg /\ v.uuid = u.uuid /\ v.gone = u.gone
       /\ \A k \in Queues : k # n => v.q[k] = u.q[k]
       /\ v.q[n].messages = u.q[n].messages /\ v.q[n].inflight = c
  BY <1>10, <1>12, SetInflight
<1>14. SameRules(u, v)
  BY <1>10, <1>12, SliceRules
<1>15. Slices(v) = Slices(u) /\ Lent(v) = [Lent(u) EXCEPT ![n] = LeaseSet(c)]
  BY <1>13 DEF Slices, Lent
<1>16. View(v) = At(u, Slices(u), [Lent(u) EXCEPT ![n] = LeaseSet(c)])
  <2>1. View(v) = At(u, Slices(v), Lent(v))
    BY <1>13, <1>14, ViewIs
  <2> QED  BY <1>15, <2>1
<1>17. h[N] = View(v)
  BY <1>6, <1>11, <1>16
<1> QED
  BY <1>5, <1>9, <1>10, <1>13, <1>17 DEF v

-----------------------------------------------------------------------------
(* The passes over a pending slice.                                        *)

\* World u in the middle of a pass over slice s of queue n: i messages were
\* visited, c has those that were kept.
JoinView(u, n, c, s, i) == At(u, [Slices(u) EXCEPT ![n] = Joined(c, s, i)], Lent(u))

\* View x is of world u, but for the pending slice r of queue n.
Shows(x, u, n, r) ==
  /\ x.p[n] = r /\ \A k \in Queues : k # n => x.p[k] = u.q[k].messages
  /\ \A k \in Queues : x.l[k] = LeaseSet(u.q[k].inflight)
  /\ x.msg = u.msg /\ x.gone = u.gone /\ x.uuid = u.uuid
  /\ \A k \in Queues : x.dlq[k] = u.q[k].dlq /\ x.max[k] = u.q[k].maxRC

\* What the view shows.
LEMMA JoinFields ==
  ASSUME NEW u, NEW n \in Queues, NEW c, NEW s, NEW i, NEW x, x = JoinView(u, n, c, s, i)
  PROVE  Shows(x, u, n, Joined(c, s, i))
<1>1. /\ x.p = [Slices(u) EXCEPT ![n] = Joined(c, s, i)] /\ x.l = Lent(u)
      /\ x.msg = u.msg /\ x.gone = u.gone /\ x.uuid = u.uuid
      /\ x.dlq = Targets(u) /\ x.max = Limits(u)
  BY AtFields DEF JoinView
<1>2. x.p[n] = Joined(c, s, i) /\ \A k \in Queues : k # n => x.p[k] = u.q[k].messages
  BY <1>1 DEF Slices
<1>3. \A k \in Queues : x.l[k] = LeaseSet(u.q[k].inflight)
  BY <1>1 DEF Lent
<1>4. \A k \in Queues : x.dlq[k] = u.q[k].dlq /\ x.max[k] = u.q[k].maxRC
  BY <1>1 DEF Targets, Limits
<1> QED
  BY <1>1, <1>2, <1>3, <1>4 DEF Shows

\* Before the pass.
LEMMA JoinStart ==
  ASSUME NEW w, Shape(w), NEW n \in Queues
  PROVE  JoinView(w, n, <<>>, w.q[n].messages, 0) = View(w)
<1> DEFINE s == w.q[n].messages
<1>1. s \in Seq(Nat) /\ <<>> \in Seq(Nat)
  BY DEF Shape, QShape
<1>2. Joined(<<>>, s, 0) = s
  BY <1>1, JoinEnds
<1>3. [Slices(w) EXCEPT ![n] = s] = Slices(w)
  BY DEF Slices
<1> QED
  BY <1>2, <1>3 DEF JoinView, View

\* After the pass.
LEMMA JoinEnd ==
  ASSUME NEW u, Shape(u), NEW n \in Queues, NEW e, NEW s, NEW i, NEW c \in Seq(Nat),
         Joined(e, s, i) = c, NEW v, v = WithMessages(u, n, c)
  PROVE  JoinView(u, n, e, s, i) = View(v) /\ v.uuid = u.uuid
<1>2. /\ v.msg = u.msg /\ v.uuid = u.uuid /\ v.gone = u.gone
      /\ \A k \in Queues : k # n => v.q[k] = u.q[k]
      /\ v.q[n].messages = c /\ v.q[n].inflight = u.q[n].inflight
  BY SetMessages
<1>3. SameRules(u, v)
  BY SliceRules
<1>4. Slices(v) = [Slices(u) EXCEPT ![n] = c] /\ Lent(v) = Lent(u)
  BY <1>2 DEF Slices, Lent
<1>5. View(v) = At(u, Slices(v), Lent(v))
  BY <1>2, <1>3, ViewIs
<1> QED
  BY <1>2, <1>4, <1>5 DEF JoinView

\* A message that is kept.
LEMMA KeepMove ==
  ASSUME NEW u, Shape(u), NEW n, NEW c \in Seq(Nat), NEW s \in Seq(Nat), NEW i \in 1 .. Len(s)
  PROVE  Stays(JoinView(u, n, c, s, i - 1), JoinView(u, n, Append(c, s[i]), s, i))
<1> DEFINE x == JoinView(u, n, c, s, i - 1)
<1>1. JoinView(u, n, Append(c, s[i]), s, i) = x
  BY JoinKeep DEF JoinView
<1>2. x.msg = u.msg
  BY AtFields DEF JoinView
<1> HIDE DEF x
<1>3. IsSeq(x.msg)
  BY <1>2 DEF Shape
<1>4. Stays(x, x)
  BY <1>3, SameSelf DEF Stays, Still, Steady, SamePending, SameLeases
<1> QED
  BY <1>1, <1>4 DEF x

\* A message that is routed.
LEMMA RouteMove ==
  ASSUME NEW u, Shape(u), Typed(u), NEW n \in Queues, u.q[n].dlq # n,
         NEW c \in Seq(Nat), NEW s \in Seq(Nat), NEW i \in 1 .. Len(s),
         s[i] \in 1 .. Len(u.msg), ShouldRoute(u, n, s[i]),
         NEW t, NEW v, v = Route(u, n, s[i], t)
  PROVE  Redirects(JoinView(u, n, c, s, i - 1), JoinView(v, n, c, s, i), n)
<1> DEFINE m == s[i]
           d == u.q[n].dlq
           p == JoinView(u, n, c, s, i - 1)
           q == JoinView(v, n, c, s, i)
<1>1. d # None /\ m \in Nat /\ m \in 1 .. Len(u.msg) /\ v = Route(u, n, m, t)
  BY DEF ShouldRoute
<1>2. Routes(p, n, m)
  BY RoutesWorld DEF JoinView
<1>3. Puts(Joined(c, s, i), Len(c) + 1, m, Joined(c, s, i - 1))
  BY JoinDrop
<1> HIDE DEF m, p, q
<1>4. RoutedTo(u, n, m, v)
  BY <1>1, RoutePlaces
<1>5. /\ Shape(v) /\ d \in Queues /\ SameRules(u, v)
      /\ SameHeap(u, v) /\ SameCounts(u, v)
      /\ v.gone = u.gone /\ v.uuid = u.uuid
      /\ \A k \in Queues : v.q[k].inflight = u.q[k].inflight
      /\ \A k \in Queues : k # d => v.q[k].messages = u.q[k].messages
      /\ v.q[d].messages = Append(u.q[d].messages, m)
  BY <1>4 DEF RoutedTo
<1>6. /\ p.p[n] = Joined(c, s, i - 1) /\ \A k \in Queues : k # n => p.p[k] = u.q[k].messages
      /\ \A k \in Queues : p.l[k] = LeaseSet(u.q[k].inflight)
      /\ p.gone = u.gone /\ \A k \in Queues : p.dlq[k] = u.q[k].dlq
  <2>1. Shows(p, u, n, Joined(c, s, i - 1))
    BY JoinFields DEF p
  <2> QED  BY <2>1 DEF Shows
<1>7. /\ q.p[n] = Joined(c, s, i) /\ \A k \in Queues : k # n => q.p[k] = v.q[k].messages
      /\ \A k \in Queues : q.l[k] = LeaseSet(v.q[k].inflight) /\ q.gone = v.gone
  <2>1. Shows(q, v, n, Joined(c, s, i))
    BY JoinFields DEF q
  <2> QED  BY <2>1 DEF Shows
<1>8. Still(p, q)
  BY <1>5, SteadyWorlds DEF p, q, JoinView
<1>9. p.dlq[n] = d /\ d # n
  BY <1>6
<1> HIDE DEF d
<1>10. SamePending(p, q, {n, d}) /\ SameLeases(p, q, {}) /\ q.gone = p.gone
  BY <1>5, <1>6, <1>7 DEF SamePending, SameLeases
<1>11. Tails(p, q, d, m)
  <2>1. q.p[d] = Append(p.p[d], m) /\ p.p[d] \in Seq(Nat)
    BY <1>5, <1>6, <1>7, <1>9 DEF Shape, QShape
  <2> QED  BY <1>1, <2>1, AppendPuts DEF Tails
<1>12. Puts(q.p[n], Len(c) + 1, m, p.p[n])
  BY <1>3, <1>6, <1>7
<1> QED
  BY <1>2, <1>8, <1>9, <1>10, <1>11, <1>12 DEF Redirects, p, q

\* A message that is retired.
LEMMA RetireMove ==
  ASSUME NEW u, Shape(u), NEW n \in Queues,
         NEW c \in Seq(Nat), NEW s \in Seq(Nat), NEW i \in 1 .. Len(s),
         NEW v, v = Retire(u, s[i])
  PROVE  Discards(JoinView(u, n, c, s, i - 1), JoinView(v, n, c, s, i), n)
<1> DEFINE m == s[i]
           p == JoinView(u, n, c, s, i - 1)
           q == JoinView(v, n, c, s, i)
<1>1. Puts(Joined(c, s, i), Len(c) + 1, m, Joined(c, s, i - 1)) /\ v = Retire(u, m)
  BY JoinDrop
<1> HIDE DEF m, p, q
<1>2. v.msg = u.msg /\ v.uuid = u.uuid /\ v.q = u.q /\ v.gone = u.gone \cup {m}
  BY <1>1, RetireEffect
<1>3. SameRules(u, v) /\ SameHeap(u, v) /\ SameCounts(u, v)
  BY <1>2, HeapSelf DEF SameRules, Shape
<1>4. Still(p, q)
  BY <1>2, <1>3, SteadyWorlds DEF p, q, JoinView
<1>5. /\ p.p[n] = Joined(c, s, i - 1) /\ \A k \in Queues : k # n => p.p[k] = u.q[k].messages
      /\ \A k \in Queues : p.l[k] = LeaseSet(u.q[k].inflight) /\ p.gone = u.gone
  <2>1. Shows(p, u, n, Joined(c, s, i - 1))
    BY JoinFields DEF p
  <2> QED  BY <2>1 DEF Shows
<1>6. /\ q.p[n] = Joined(c, s, i) /\ \A k \in Queues : k # n => q.p[k] = v.q[k].messages
      /\ \A k \in Queues : q.l[k] = LeaseSet(v.q[k].inflight) /\ q.gone = v.gone
  <2>1. Shows(q, v, n, Joined(c, s, i))
    BY JoinFields DEF q
  <2> QED  BY <2>1 DEF Shows
<1>7. SamePending(p, q, {n}) /\ SameLeases(p, q, {}) /\ q.gone = p.gone \cup {m}
  BY <1>2, <1>5, <1>6 DEF SamePending, SameLeases
<1>8. Puts(q.p[n], Len(c) + 1, m, p.p[n])
  BY <1>1, <1>5, <1>6
<1> QED
  BY <1>4, <1>7, <1>8 DEF Discards, p, q

\* A message that is handed out.
LEMMA LeaseMove ==
  ASSUME NEW u, Shape(u), Typed(u), NEW n \in Queues,
         NEW c \in Seq(Nat), NEW s \in Seq(Nat), NEW i \in 1 .. Len(s),
         s[i] \in 1 .. Len(u.msg), NEW vt \in Int, NEW t \in Int, NEW B \in Nat,
         NEW v, v = Lease(u, n, s[i], vt, t, B),
         NEW p, p = JoinView(u, n, c, s, i - 1), u.msg[s[i]].visibleAt <= t,
         Routes(p, n, s[i]) => \E y \in p.l[n] : y.m = s[i] /\ y.batch = B,
         IsFIFO(n) => Free(p, n, Len(c) + 1, t, B)
  PROVE  Hands(p, JoinView(v, n, c, s, i), n, t, B)
<1> DEFINE m == s[i]
           q == JoinView(v, n, c, s, i)
           j == Len(c) + 1
<1>1. Puts(Joined(c, s, i), j, m, Joined(c, s, i - 1)) /\ v = Lease(u, n, m, vt, t, B)
      /\ m \in 1 .. Len(u.msg) /\ u.msg[m].visibleAt <= t
      /\ (Routes(p, n, m) => \E y \in p.l[n] : y.m = m /\ y.batch = B)
  BY JoinDrop
<1> HIDE DEF m, q, j
<1>2. /\ Shape(v) /\ SameRules(u, v) /\ SameHeap(u, v)
      /\ \A k \in 1 .. Len(u.msg) :
           v.msg[k].rc = IF k = m THEN u.msg[k].rc + 1 ELSE u.msg[k].rc
      /\ v.gone = u.gone /\ v.uuid = u.uuid + 1
      /\ \A k \in Queues : v.q[k].messages = u.q[k].messages
      /\ \A k \in Queues : k # n => v.q[k].inflight = u.q[k].inflight
      /\ \E x \in Leases :
           /\ x.m = m /\ x.handle = u.uuid + 1 /\ x.batch = B
           /\ v.q[n].inflight = Append(u.q[n].inflight, x)
  <2>1. LeasedTo(u, n, m, B, v)
    BY <1>1, LeasePlaces
  <2> QED  BY <2>1 DEF LeasedTo
<1>3. PICK x \in Leases : /\ x.m = m /\ x.handle = u.uuid + 1 /\ x.batch = B
                          /\ v.q[n].inflight = Append(u.q[n].inflight, x)
  BY <1>2
<1>4. Steady(p, q)
  BY <1>2, SteadyWorlds DEF q, JoinView
<1>5. /\ p.p[n] = Joined(c, s, i - 1) /\ \A k \in Queues : k # n => p.p[k] = u.q[k].messages
      /\ \A k \in Queues : p.l[k] = LeaseSet(u.q[k].inflight)
      /\ p.gone = u.gone /\ p.uuid = u.uuid /\ p.msg = u.msg
  <2>1. Shows(p, u, n, Joined(c, s, i - 1))
    BY JoinFields
  <2> QED  BY <2>1 DEF Shows
<1>6. /\ q.p[n] = Joined(c, s, i) /\ \A k \in Queues : k # n => q.p[k] = v.q[k].messages
      /\ \A k \in Queues : q.l[k] = LeaseSet(v.q[k].inflight)
      /\ q.gone = v.gone /\ q.uuid = v.uuid /\ q.msg = v.msg
  <2>1. Shows(q, v, n, Joined(c, s, i))
    BY JoinFields DEF q
  <2> QED  BY <2>1 DEF Shows
<1>7. SamePending(p, q, {n}) /\ SameLeases(p, q, {n}) /\ q.gone = p.gone /\ q.uuid = p.uuid + 1
  BY <1>2, <1>5, <1>6 DEF SamePending, SameLeases
<1>8. q.l[n] = p.l[n] \cup {x}
  <2>1. u.q[n].inflight \in Seq(Leases)
    BY DEF Shape, QShape
  <2>2. LeaseSet(Append(u.q[n].inflight, x)) = LeaseSet(u.q[n].inflight) \cup {x}
    BY <2>1, AppendLeases
  <2>3. q.l[n] = LeaseSet(Append(u.q[n].inflight, x)) /\ p.l[n] = LeaseSet(u.q[n].inflight)
    BY <1>3, <1>5, <1>6
  <2> QED  BY <2>2, <2>3
<1>9. Puts(q.p[n], j, m, p.p[n])
  BY <1>1, <1>5, <1>6
<1>10. p.msg[m].visibleAt <= t
       /\ \A k \in 1 .. Len(p.msg) : q.msg[k].rc = IF k = m THEN p.msg[k].rc + 1 ELSE p.msg[k].rc
  BY <1>1, <1>2, <1>5, <1>6
<1>11. IsFIFO(n) => Free(p, n, j, t, B)
  BY DEF j
<1>12. x \in Leases /\ x.m = m /\ x.handle = p.uuid + 1 /\ x.batch = B
  BY <1>3, <1>5
<1>13. HandsOut(p, q, n, t, B, j, m, x)
  BY <1>1, <1>8, <1>9, <1>10, <1>11, <1>12 DEF HandsOut
<1> QED
  BY <1>4, <1>7, <1>13 DEF Hands, q

\* The message a pass visits next.
LEMMA VisitMessage ==
  ASSUME NEW u, NEW n \in Queues, NEW c \in Seq(Nat), NEW s \in Seq(Nat),
         NEW i \in 1 .. Len(s), Good(JoinView(u, n, c, s, i - 1))
  PROVE  Typed(u) /\ s[i] \in 1 .. Len(u.msg) /\ s[i] \in Nat
<1> DEFINE x == JoinView(u, n, c, s, i - 1)
           r == Joined(c, s, i - 1)
<1>1. Good(x) /\ x.p[n] = r /\ x.msg = u.msg
  <2>1. Shows(x, u, n, r)
    BY JoinFields
  <2> QED  BY <2>1 DEF Shows
<1>2. Puts(Joined(c, s, i), Len(c) + 1, s[i], r)
  BY JoinDrop
<1> HIDE DEF x, r
<1>3. Elems(r) = Elems(Joined(c, s, i)) \cup {s[i]}
  BY <1>2, PutsElems
<1>4. Elems(x.p[n]) \subseteq 1 .. Len(x.msg) /\ \A m \in 1 .. Len(x.msg) : IsMessage(x.msg[m])
  BY <1>1 DEF Good
<1> QED
  BY <1>1, <1>3, <1>4 DEF Typed

\* The drain redirects messages one by one.
LEMMA DrainChain ==
  ASSUME NEW w, Sound(w), Good(View(w)), NEW S \in SUBSET Queues, NEW n \in S, NEW t,
         NEW B \in Nat, B <= w.uuid
  PROVE  /\ Chain(View(w), View(Drain(w, n, t)), t, B, S)
         /\ Drain(w, n, t).uuid = w.uuid
<1> DEFINE s == w.q[n].messages
           N == Len(s)
           v == Drain(w, n, t)
<1>1. s \in Seq(Nat) /\ N \in Nat /\ w.uuid \in Nat /\ Shape(w) /\ n \in Queues
  BY DEF Sound, Shape, QShape
<1>2. PICK f : DrainRun(w, n, t, f)
  BY <1>1, DrainPass
<1>3. /\ f[0] = [w |-> w, kept |-> <<>>]
      /\ \A i \in 1 .. N : f[i] = DrainOne(f[i - 1], s[i], n, t)
      /\ v = WithMessages(f[N].w, n, f[N].kept)
  BY <1>2 DEF DrainRun
<1>4. \A i \in 0 .. N : DrainInv(w, n, f[i], i)
  BY <1>2, DrainAlong
<1> HIDE DEF v
<1> DEFINE h == [i \in 0 .. N |-> JoinView(f[i].w, n, f[i].kept, s, i)]
<1>5. h[0] = View(w)
  <2>1. f[0].w = w /\ f[0].kept = <<>> /\ 0 \in 0 .. N
    BY <1>1, <1>3
  <2>2. h[0] = JoinView(w, n, <<>>, s, 0)
    BY <2>1
  <2> QED  BY <1>1, <2>2, JoinStart
<1>6. DrainInv(w, n, f[N], N) /\ h[N] = JoinView(f[N].w, n, f[N].kept, s, N)
  <2>1. N \in 0 .. N
    BY <1>1
  <2> QED  BY <1>4, <2>1
<1>7. ASSUME NEW i \in 1 .. N, i - 1 \in 0 .. N, Good(h[i - 1])
      PROVE  i \in 0 .. N /\ Move(h[i - 1], h[i], n, t, B, S)
  <2> DEFINE a == f[i - 1]
             u == a.w
             c == a.kept
             m == s[i]
  <2>1. i \in 0 .. N
    BY <1>1
  <2>2. h[i - 1] = JoinView(u, n, c, s, i - 1) /\ h[i] = JoinView(f[i].w, n, f[i].kept, s, i)
    BY <1>7, <2>1
  <2> HIDE DEF h
  <2>3. f[i] = DrainOne(a, m, n, t) /\ DrainInv(w, n, a, i - 1)
    BY <1>3, <1>4, <1>7
  <2>4. /\ DOMAIN a = {"w", "kept"} /\ Shape(u) /\ c \in Seq(Nat) /\ u.q[n].dlq # n
    BY <2>3 DEF DrainInv, Frame, Sound
  <2>5. Good(JoinView(u, n, c, s, i - 1))
    BY <1>7, <2>2
  <2> HIDE DEF a, u, c
  <2>6. Typed(u) /\ m \in 1 .. Len(u.msg)
    BY <1>1, <2>4, <2>5, VisitMessage
  <2>7. CASE ShouldRoute(u, n, m)
    <3>1. f[i].w = Route(u, n, m, t) /\ f[i].kept = c
      BY <2>3, <2>4, <2>7 DEF DrainOne, u, c
    <3>2. Redirects(JoinView(u, n, c, s, i - 1), JoinView(f[i].w, n, c, s, i), n)
      BY <1>1, <2>4, <2>6, <2>7, <3>1, RouteMove
    <3> QED  BY <2>1, <2>2, <3>1, <3>2 DEF Move
  <2>8. CASE ~ShouldRoute(u, n, m)
    <3>1. f[i].w = u /\ f[i].kept = Append(c, m)
      BY <2>3, <2>4, <2>8 DEF DrainOne, u, c
    <3>2. Stays(JoinView(u, n, c, s, i - 1), JoinView(u, n, Append(c, m), s, i))
      BY <1>1, <2>4, KeepMove
    <3> QED  BY <2>1, <2>2, <3>1, <3>2 DEF Move
  <2> QED  BY <2>7, <2>8
<1>8. View(w).uuid = w.uuid
  BY DEF View, At
<1>9. Chain(h[0], h[N], t, B, S)
  <2>1. Good(h[0]) /\ B <= h[0].uuid /\ 0 \in 0 .. N
    BY <1>1, <1>5, <1>8
  <2>2. \A i \in 1 .. N : i - 1 \in 0 .. N /\ Good(h[i - 1])
                            => i \in 0 .. N /\ Move(h[i - 1], h[i], n, t, B, S)
    BY <1>7
  <2> HIDE DEF h, N
  <2> QED  BY <1>1, <2>1, <2>2, ChainVisits
<1> HIDE DEF h
<1> DEFINE u == f[N].w
           c == f[N].kept
<1>10. Shape(u) /\ c \in Seq(Nat) /\ u.uuid = w.uuid
  BY <1>6 DEF DrainInv, Frame
<1>11. v = WithMessages(u, n, c) /\ h[N] = JoinView(u, n, c, s, N)
  BY <1>3, <1>6
<1> HIDE DEF u, c
<1>12. JoinView(u, n, c, s, N) = View(v) /\ v.uuid = u.uuid
  <2>1. Joined(c, s, N) = c
    BY <1>1, <1>10, JoinEnds
  <2> QED  BY <1>1, <1>10, <1>11, <2>1, JoinEnd
<1> QED
  BY <1>5, <1>9, <1>10, <1>11, <1>12 DEF v

\* The drains of a restart redirect messages one by one.
LEMMA DrainsChain ==
  ASSUME NEW w, Sound(w), Good(View(w)), NEW s \in SetToSeqs(Queues), NEW t
  PROVE  /\ Chain(View(w), View(Drains(w, s, t)), t, w.uuid, Queues)
         /\ Drains(w, s, t).uuid = w.uuid
<1>0. PICK h : DrainsRun(w, s, t, h)
  BY DrainsPass
<1> DEFINE N == Len(s)
           B == w.uuid
<1>1. /\ h[0] = w
      /\ \A i \in 1 .. N : h[i] = Drain(h[i - 1], s[i], t)
      /\ Drains(w, s, t) = h[N]
  BY <1>0 DEF DrainsRun
<1>2. N \in Nat /\ \A i \in 1 .. N : s[i] \in Queues
  BY QueueOrder
<1>a. B \in Nat /\ View(w).uuid = B /\ Queues \in SUBSET Queues
  BY DEF Sound, Shape, View, At
<1> HIDE DEF N
<1> DEFINE P(u) == /\ Sound(u) /\ u.uuid = B
                   /\ Chain(View(w), View(u), t, B, Queues)
           T == {i \in 0 .. N : P(h[i])}
<1>3. 0 \in T
  <2>1. Chain(View(w), View(w), t, B, Queues)
    BY ChainSelf
  <2> QED  BY <1>1, <1>2, <2>1
<1>4. ASSUME NEW i \in 1 .. N, i - 1 \in T PROVE i \in T
  <2> DEFINE a == h[i - 1]
             b == Drain(a, s[i], t)
  <2>1. P(a) /\ h[i] = b /\ s[i] \in Queues
    BY <1>1, <1>2, <1>4
  <2> HIDE DEF a
  <2>2. Good(View(a))
    BY <1>a, <2>1, ChainGood
  <2>3. Sound(b)
    BY <2>1, DrainKeeps
  <2>4. Chain(View(a), View(b), t, B, Queues) /\ b.uuid = a.uuid
    <3>1. B <= a.uuid
      BY <1>a, <2>1
    <3> QED  BY <1>a, <2>1, <2>2, <3>1, DrainChain
  <2> HIDE DEF b
  <2>5. Chain(View(w), View(b), t, B, Queues)
    BY <2>1, <2>4, ChainJoin
  <2>6. P(b)
    BY <2>1, <2>3, <2>4, <2>5
  <2> QED  BY <2>1, <2>6
<1>5. N \in T
  <2> HIDE DEF T
  <2> QED  BY <1>2, <1>3, <1>4, Upward
<1> QED
  BY <1>1, <1>5

=============================================================================
