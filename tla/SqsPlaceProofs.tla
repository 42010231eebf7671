--------------------------- MODULE SqsPlaceProofs ---------------------------
(***************************************************************************)
(* Where the messages of the queues are, for every value of the constants: *)
(* a group has one consumer at a time, sequence numbers ascend in a FIFO   *)
(* queue, a message is in one place, a lease is respected, a poison        *)
(* message is not delivered for ever, a message changes queue only along a *)
(* policy, a group is delivered in order, and the queues implement what    *)
(* SqsLease promises.                                                      *)
(*                                                                         *)
(* A view is what these properties see of a world: per queue the pending   *)
(* slice, the leases, the policy, the counter and the delay.  A visit of a *)
(* pass is a move of one message in the view (Move), a pass a run of such  *)
(* moves (Chain), and every step of the queues is a run or one of a few    *)
(* simpler changes (Step).  An invariant is proved once per kind of move,  *)
(* a property of steps by following one message along a run, and the       *)
(* refinement by adding up the moves of a run to one service of a queue.   *)
(***************************************************************************)
EXTENDS SqsQueueProofs

-----------------------------------------------------------------------------
(* The slow pick as a run of moves.                                        *)

\* The groups of the leases are blocked; a message that was kept has a blocked
\* group, is delayed, or the batch is full.
Guarded(u, n, c, picked, blocked, max, t) ==
  /\ \A x \in LeaseSet(u.q[n].inflight) : u.msg[x.m].group \in blocked \cup {None}
  /\ \A j \in 1 .. Len(c) : \/ u.msg[c[j]].group \in blocked \cup {None}
                            \/ max <= Len(picked)
                            \/ t < u.msg[c[j]].visibleAt

\* What else holds in the middle of the slow pick.
SlowAt(w, n, max, t, a) ==
  /\ a.picked \in Seq(Nat) /\ Len(a.picked) <= max /\ a.w.uuid = w.uuid + Len(a.picked)
  /\ IsFIFO(n) => Guarded(a.w, n, a.kept, a.picked, a.blocked, max, t)

\* One visit of the slow pick is one move.
LEMMA SlowMove ==
  ASSUME NEW w, Sound(w), NEW n \in Queues, NEW max \in Nat, NEW vt \in Int,
         NEW t \in Int, NEW a, NEW i \in 1 .. Len(w.q[n].messages),
         PickAt(w, n, a, i - 1), SlowAt(w, n, max, t, a),
         Good(JoinView(a.w, n, a.kept, w.q[n].messages, i - 1)),
         NEW b, b = PickOne(a, w.q[n].messages[i], n, max, vt, t, w.uuid)
  PROVE  /\ SlowAt(w, n, max, t, b)
         /\ Move(JoinView(a.w, n, a.kept, w.q[n].messages, i - 1),
                 JoinView(b.w, n, b.kept, w.q[n].messages, i), n, t, w.uuid, {n})
<1> DEFINE s == w.q[n].messages
           m == s[i]
           u == a.w
           c == a.kept
           y == a.picked
           g == a.blocked
           B == w.uuid
           F == {"w", "kept", "picked", "blocked"}
           p == JoinView(u, n, c, s, i - 1)
           q == JoinView(b.w, n, b.kept, s, i)
<1>1. s \in Seq(Nat) /\ B \in Nat /\ i \in 1 .. Len(s)
  BY DEF Sound, Shape, QShape
<1>2. /\ DOMAIN a = F /\ Shape(u) /\ c \in Seq(Nat) /\ u.q[n].dlq # n
      /\ y \in Seq(Nat) /\ Len(y) <= max /\ u.uuid = B + Len(y)
      /\ (IsFIFO(n) => Guarded(u, n, c, y, g, max, t))
      /\ b = PickOne(a, m, n, max, vt, t, B)
  BY DEF PickAt, PickInv, PickWorld, SlowAt, Sound
<1>3. Good(p) /\ p.msg = u.msg /\ p.l[n] = LeaseSet(u.q[n].inflight)
      /\ p.p[n] = Joined(c, s, i - 1)
  <2>1. Shows(p, u, n, Joined(c, s, i - 1))
    BY JoinFields
  <2> QED  BY <2>1 DEF Shows
<1> HIDE DEF s, u, c, y, g, B, p
<1>4. Typed(u) /\ m \in 1 .. Len(u.msg) /\ m \in Nat
  BY <1>1, <1>2, <1>3, VisitMessage DEF p
<1>5. \A x \in LeaseSet(u.q[n].inflight) : x.m \in 1 .. Len(u.msg)
  BY <1>3 DEF Good, LeaseOk
<1>6. \A j \in 1 .. Len(c) : c[j] \in 1 .. Len(u.msg) /\ p.p[n][j] = c[j]
  <2>0. i - 1 \in 0 .. Len(s)
    BY <1>1
  <2>1. /\ Len(Joined(c, s, i - 1)) = Len(c) + Len(s) - (i - 1)
        /\ \A j \in 1 .. Len(c) : Joined(c, s, i - 1)[j] = c[j]
    BY <1>1, <1>2, <2>0, JoinType
  <2>2. Elems(p.p[n]) \subseteq 1 .. Len(u.msg)
    BY <1>3 DEF Good
  <2>3. \A j \in 1 .. Len(c) : j \in 1 .. Len(p.p[n]) /\ p.p[n][j] = c[j]
    <3>1. Len(s) \in Nat /\ Len(c) \in Nat /\ i \in 1 .. Len(s)
      <4>1. s \in Seq(Nat) /\ c \in Seq(Nat)
        BY <1>1, <1>2
      <4>2. Len(s) \in Nat /\ Len(c) \in Nat
        BY <4>1
      <4> QED  BY <1>1, <4>2
    <3>2. p.p[n] = Joined(c, s, i - 1)
      BY <1>3
    <3> SUFFICES ASSUME NEW j \in 1 .. Len(c)
                 PROVE  j \in 1 .. Len(p.p[n]) /\ p.p[n][j] = c[j]
      OBVIOUS
    <3>3. p.p[n][j] = c[j] /\ Len(p.p[n]) = Len(c) + Len(s) - (i - 1)
      BY <2>1, <3>2
    <3> QED  BY <3>1, <3>3
  <2> QED  BY <2>2, <2>3 DEF Elems
<1> SUFFICES SlowAt(w, n, max, t, b) /\ Move(p, q, n, t, B, {n})
  BY DEF p, q, u, c, s, B
<1> HIDE DEF m
<1>7. ASSUME NEW v, IsFIFO(n), SameHeap(u, v), v.q[n].inflight = u.q[n].inflight
      PROVE  Guarded(v, n, c, y, g, max, t)
  <2>1. \A k \in 1 .. Len(u.msg) : /\ v.msg[k].group = u.msg[k].group
                                   /\ v.msg[k].visibleAt = u.msg[k].visibleAt
    BY <1>7 DEF SameHeap, SameMessage
  <2>2. Guarded(u, n, c, y, g, max, t)
    BY <1>2, <1>7
  <2>3. \A x \in LeaseSet(v.q[n].inflight) : v.msg[x.m].group \in g \cup {None}
    BY <1>5, <1>7, <2>1, <2>2 DEF Guarded
  <2>4. ASSUME NEW j \in 1 .. Len(c)
        PROVE  \/ v.msg[c[j]].group \in g \cup {None}
               \/ max <= Len(y)
               \/ t < v.msg[c[j]].visibleAt
    BY <1>6, <2>1, <2>2 DEF Guarded
  <2> QED  BY <2>3, <2>4 DEF Guarded
<1>8. CASE Expired(u, m, t)
  <2> DEFINE v == Retire(u, m)
  <2>1. b.w = v /\ b.kept = c /\ b.picked = y /\ b.blocked = g
    BY <1>2, <1>8 DEF PickOne, Retire, u, c, y, g
  <2>2. v.msg = u.msg /\ v.uuid = u.uuid /\ v.q = u.q
    BY <1>2, RetireEffect
  <2>3. Discards(p, q, n)
    BY <1>1, <1>2, <2>1, RetireMove DEF p, q, m
  <2> HIDE DEF v
  <2>4. SameHeap(u, v)
    BY <1>2, <2>2, HeapSelf DEF Shape
  <2>5. SlowAt(w, n, max, t, b)
    BY <1>2, <1>7, <2>1, <2>2, <2>4 DEF SlowAt, B
  <2> QED  BY <2>3, <2>5 DEF Move
<1>9. CASE ~Expired(u, m, t) /\ ShouldRoute(u, n, m)
  <2> DEFINE v == Route(u, n, m, t)
  <2>1. b.w = v /\ b.kept = c /\ b.picked = y /\ b.blocked = g
    BY <1>2, <1>9 DEF PickOne, u, c, y, g
  <2>2. RoutedTo(u, n, m, v)
    BY <1>2, <1>4, <1>9, RoutePlaces DEF ShouldRoute
  <2>3. Redirects(p, q, n)
    BY <1>1, <1>2, <1>4, <1>9, <2>1, RouteMove DEF p, q, m
  <2> HIDE DEF v
  <2>4. SameHeap(u, v) /\ v.uuid = u.uuid /\ v.q[n].inflight = u.q[n].inflight
    BY <2>2 DEF RoutedTo
  <2>5. SlowAt(w, n, max, t, b)
    BY <1>2, <1>7, <2>1, <2>4 DEF SlowAt, B
  <2> QED  BY <2>3, <2>5 DEF Move
<1>10. CASE /\ ~Expired(u, m, t) /\ ~ShouldRoute(u, n, m)
            /\ ~Blocked(u, n, m, g)
            /\ Len(y) < max /\ t >= u.msg[m].visibleAt
  <2> DEFINE v == Lease(u, n, m, vt, t, B)
             e == u.msg[m].group
             r == g \cup ({e} \ {None})
  <2>1. b.w = v /\ b.kept = c /\ b.picked = Append(y, m) /\ b.blocked = r
    BY <1>2, <1>10 DEF PickOne, u, c, y, g
  <2>2. LeasedTo(u, n, m, B, v)
    BY <1>1, <1>2, <1>4, LeasePlaces
  <2>3. ~Routes(p, n, m)
    BY <1>10, RoutesWorld DEF p, JoinView
  <2>4. u.msg[m].visibleAt <= t
    <3>1. u.msg[m].visibleAt \in Int
      BY <1>4 DEF Typed, IsMessage
    <3> QED  BY <1>10, <3>1
  <2>5. ASSUME IsFIFO(n) PROVE Free(p, n, Len(c) + 1, t, B)
    <3>1. Guarded(u, n, c, y, g, max, t) /\ e \notin g
      BY <1>2, <1>10, <2>5 DEF Blocked
    <3>2. p.p[n][Len(c) + 1] = m
      <4>1. Puts(Joined(c, s, i), Len(c) + 1, m, Joined(c, s, i - 1))
        BY <1>1, <1>2, JoinDrop DEF m
      <4> QED  BY <1>3, <4>1 DEF Puts
    <3>3. \A x \in p.l[n] : ~(p.msg[x.m].group = p.msg[m].group /\ p.msg[m].group # None)
      BY <1>3, <3>1 DEF Guarded
    <3>4. ASSUME NEW j \in 1 .. (Len(c) + 1) - 1, p.msg[p.p[n][j]].group = p.msg[m].group,
                 p.msg[m].group # None
          PROVE  t < p.msg[p.p[n][j]].visibleAt
      <4>1. j \in 1 .. Len(c) /\ Len(y) \in Nat
        BY <1>2
      <4>2. p.p[n][j] = c[j]
        BY <1>6, <4>1
      <4>3. u.msg[c[j]].group = e /\ e # None
        BY <1>3, <3>4, <4>2
      <4>4. ~(max <= Len(y))
        BY <1>10, <4>1
      <4>5. t < u.msg[c[j]].visibleAt
        BY <3>1, <4>1, <4>3, <4>4 DEF Guarded
      <4> QED  BY <1>3, <4>2, <4>5
    <3> QED  BY <3>2, <3>3, <3>4 DEF Free
  <2>6. Hands(p, q, n, t, B)
    <3>1. Hands(p, JoinView(v, n, c, s, i), n, t, B)
      BY <1>1, <1>2, <1>4, <2>3, <2>4, <2>5, LeaseMove DEF p, m
    <3> QED  BY <2>1, <3>1
  <2> HIDE DEF v, e
  <2>7. Len(Append(y, m)) <= max /\ v.uuid = B + Len(Append(y, m))
    <3>1. v.uuid = u.uuid + 1 /\ u.uuid = B + Len(y) /\ Len(y) \in Nat /\ Len(y) < max
      BY <1>2, <1>10, <2>2 DEF LeasedTo
    <3>2. Len(Append(y, m)) = Len(y) + 1
      BY <1>2, <1>4
    <3> QED  BY <1>1, <3>1, <3>2
  <2>8. Append(y, m) \in Seq(Nat) /\ Len(Append(y, m)) = Len(y) + 1 /\ Len(y) \in Nat
    BY <1>2, <1>4
  <2>9. /\ SameHeap(u, v)
        /\ \E x \in Leases : x.m = m /\ v.q[n].inflight = Append(u.q[n].inflight, x)
    BY <2>2 DEF LeasedTo
  <2>10. ASSUME IsFIFO(n) PROVE Guarded(v, n, c, Append(y, m), r, max, t)
    <3>1. \A k \in 1 .. Len(u.msg) : /\ v.msg[k].group = u.msg[k].group
                                     /\ v.msg[k].visibleAt = u.msg[k].visibleAt
      BY <2>9 DEF SameHeap, SameMessage
    <3>2. Guarded(u, n, c, y, g, max, t)
      BY <1>2, <2>10
    <3>3. PICK x \in Leases : x.m = m /\ v.q[n].inflight = Append(u.q[n].inflight, x)
      BY <2>9
    <3>4. LeaseSet(v.q[n].inflight) = LeaseSet(u.q[n].inflight) \cup {x}
      <4>1. u.q[n].inflight \in Seq(Leases)
        BY <1>2 DEF Shape, QShape
      <4>2. LeaseSet(Append(u.q[n].inflight, x)) = LeaseSet(u.q[n].inflight) \cup {x}
        BY <4>1, AppendLeases
      <4> QED  BY <3>3, <4>2
    <3>5. ASSUME NEW z \in LeaseSet(v.q[n].inflight) PROVE v.msg[z.m].group \in r \cup {None}
      <4>1. CASE z = x
        BY <1>4, <3>1, <3>3, <4>1 DEF e
      <4>2. CASE z \in LeaseSet(u.q[n].inflight)
        BY <1>5, <3>1, <3>2, <4>2 DEF Guarded
      <4> QED  BY <3>4, <4>1, <4>2
    <3>6. ASSUME NEW j \in 1 .. Len(c)
          PROVE  \/ v.msg[c[j]].group \in r \cup {None}
                 \/ max <= Len(Append(y, m))
                 \/ t < v.msg[c[j]].visibleAt
      <4>1. \/ u.msg[c[j]].group \in g \cup {None}
            \/ max <= Len(y)
            \/ t < u.msg[c[j]].visibleAt
        BY <3>2 DEF Guarded
      <4>2. v.msg[c[j]].group = u.msg[c[j]].group /\ v.msg[c[j]].visibleAt = u.msg[c[j]].visibleAt
        BY <1>6, <3>1
      <4>3. max <= Len(y) => max <= Len(Append(y, m))
        BY <2>8
      <4> QED  BY <4>1, <4>2, <4>3
    <3> QED  BY <3>5, <3>6 DEF Guarded
  <2>11. SlowAt(w, n, max, t, b)
    BY <2>1, <2>7, <2>8, <2>10 DEF SlowAt, B
  <2> QED  BY <2>6, <2>11 DEF Move
<1>11. CASE /\ ~Expired(u, m, t) /\ ~ShouldRoute(u, n, m)
            /\ ~(/\ ~Blocked(u, n, m, g)
                 /\ Len(y) < max /\ t >= u.msg[m].visibleAt)
  <2> DEFINE e == Append(c, m)
  <2>1. b.w = u /\ b.kept = e /\ b.picked = y /\ b.blocked = g
    BY <1>2, <1>11 DEF PickOne, u, c, y, g
  <2>2. Stays(p, q)
    BY <1>1, <1>2, <2>1, KeepMove DEF p, q, m
  <2>3. /\ Len(e) = Len(c) + 1 /\ e[Len(c) + 1] = m /\ \A j \in 1 .. Len(c) : e[j] = c[j]
        /\ Len(c) \in Nat
    BY <1>2, <1>4
  <2> HIDE DEF e
  <2>4. ASSUME IsFIFO(n) PROVE Guarded(u, n, e, y, g, max, t)
    <3>1. Guarded(u, n, c, y, g, max, t)
      BY <1>2, <2>4
    <3>2. ASSUME NEW j \in 1 .. Len(e)
          PROVE  \/ u.msg[e[j]].group \in g \cup {None}
                 \/ max <= Len(y)
                 \/ t < u.msg[e[j]].visibleAt
      <4>1. CASE j \in 1 .. Len(c)
        BY <2>3, <3>1, <4>1 DEF Guarded
      <4>2. CASE j = Len(c) + 1
        <5>1. u.msg[m].visibleAt \in Int /\ Len(y) \in Nat
          BY <1>2, <1>4 DEF Typed, IsMessage
        <5>2. u.msg[m].group \in g \/ ~(Len(y) < max) \/ ~(t >= u.msg[m].visibleAt)
          BY <1>11, <2>4 DEF Blocked
        <5> QED  BY <2>3, <4>2, <5>1, <5>2
      <4>3. j \in 1 .. Len(c) \/ j = Len(c) + 1
        BY <2>3
      <4> QED  BY <4>1, <4>2, <4>3
    <3> QED  BY <3>1, <3>2 DEF Guarded
  <2>5. SlowAt(w, n, max, t, b)
    BY <1>2, <2>1, <2>4 DEF SlowAt, B
  <2> QED  BY <2>2, <2>5 DEF Move
<1> QED
  BY <1>8, <1>9, <1>10, <1>11

\* The groups of the leases of queue n are blocked.
LeasesBlocked(w, n, blocked) ==
  IsFIFO(n) => \A x \in LeaseSet(w.q[n].inflight) : w.msg[x.m].group \in blocked \cup {None}

\* Pass 2 of a receive moves messages one by one.
LEMMA SlowChain ==
  ASSUME NEW w, Sound(w), Good(View(w)), NEW n \in Queues, NEW max \in Nat, NEW vt \in Int,
         NEW t \in Int, NEW blocked, LeasesBlocked(w, n, blocked),
         NEW v, v = SlowPick(w, n, max, vt, t, blocked).w
  PROVE  Chain(View(w), View(v), t, w.uuid, {n}) /\ v.uuid <= w.uuid + max
<1> DEFINE s == w.q[n].messages
           N == Len(s)
           B == w.uuid
<1>1. s \in Seq(Nat) /\ N \in Nat /\ B \in Nat /\ Shape(w)
  BY DEF Sound, Shape, QShape
<1>2. PICK f : SlowRun(w, n, max, vt, t, blocked, f)
  BY <1>1, SlowPass
<1>3. /\ f[0] = [w |-> w, kept |-> <<>>, picked |-> <<>>, blocked |-> blocked]
      /\ \A i \in 1 .. N : f[i] = PickOne(f[i - 1], s[i], n, max, vt, t, B)
      /\ v = WithMessages(f[N].w, n, f[N].kept)
  BY <1>2 DEF SlowRun
<1>4. \A i \in 0 .. N : PickAt(w, n, f[i], i)
  BY <1>2, SlowAlong
<1> DEFINE h == [i \in 0 .. N |-> JoinView(f[i].w, n, f[i].kept, s, i)]
           T == {i \in 0 .. N : SlowAt(w, n, max, t, f[i])}
<1>5. h[0] = View(w) /\ 0 \in T
  <2>1. f[0].w = w /\ f[0].kept = <<>> /\ f[0].picked = <<>> /\ f[0].blocked = blocked
    BY <1>3
  <2>2. h[0] = JoinView(w, n, <<>>, s, 0) /\ 0 \in 0 .. N
    BY <1>1, <2>1
  <2>3. IsFIFO(n) => Guarded(w, n, <<>>, <<>>, blocked, max, t)
    <3>1. 1 .. Len(<<>>) = {}
      OBVIOUS
    <3> QED  BY <3>1 DEF Guarded, LeasesBlocked
  <2>4. SlowAt(w, n, max, t, f[0])
    <3>1. <<>> \in Seq(Nat) /\ Len(<<>>) = 0
      OBVIOUS
    <3> QED  BY <1>1, <2>1, <2>3, <3>1 DEF SlowAt
  <2>5. JoinView(w, n, <<>>, s, 0) = View(w)
    BY <1>1, JoinStart
  <2> QED  BY <2>2, <2>4, <2>5
<1>6. PickAt(w, n, f[N], N) /\ h[N] = JoinView(f[N].w, n, f[N].kept, s, N)
  <2>1. N \in 0 .. N
    BY <1>1
  <2> QED  BY <1>4, <2>1
<1>7. ASSUME NEW i \in 1 .. N, i - 1 \in T, Good(h[i - 1])
      PROVE  i \in T /\ Move(h[i - 1], h[i], n, t, B, {n})
  <2>1. i \in 0 .. N /\ i - 1 \in 0 .. N
    BY <1>1
  <2>2. /\ h[i - 1] = JoinView(f[i - 1].w, n, f[i - 1].kept, s, i - 1)
        /\ h[i] = JoinView(f[i].w, n, f[i].kept, s, i)
    BY <2>1
  <2>3. /\ f[i] = PickOne(f[i - 1], s[i], n, max, vt, t, B)
        /\ PickAt(w, n, f[i - 1], i - 1) /\ SlowAt(w, n, max, t, f[i - 1])
    BY <1>3, <1>4, <1>7, <2>1
  <2> HIDE DEF h
  <2>4. Good(JoinView(f[i - 1].w, n, f[i - 1].kept, s, i - 1))
    BY <1>7, <2>2
  <2>5. /\ SlowAt(w, n, max, t, f[i])
        /\ Move(JoinView(f[i - 1].w, n, f[i - 1].kept, s, i - 1),
                JoinView(f[i].w, n, f[i].kept, s, i), n, t, B, {n})
    BY <2>3, <2>4, SlowMove
  <2> QED  BY <2>1, <2>2, <2>5
<1>8. View(w).uuid = B
  BY DEF View, At
<1>9. Chain(h[0], h[N], t, B, {n}) /\ N \in T
  <2>1. Good(h[0]) /\ B <= h[0].uuid /\ 0 \in T
    BY <1>1, <1>5, <1>8
  <2>2. \A i \in 1 .. N : i - 1 \in T /\ Good(h[i - 1])
                            => i \in T /\ Move(h[i - 1], h[i], n, t, B, {n})
    BY <1>7
  <2>3. {n} \in SUBSET Queues /\ n \in {n}
    OBVIOUS
  <2> HIDE DEF h, N, T
  <2> QED  BY <1>1, <2>1, <2>2, <2>3, ChainVisits
<1>a. f[N].w.uuid <= B + max
  <2> DEFINE y == f[N].picked
             z == f[N].w.uuid
  <2>1. y \in Seq(Nat) /\ Len(y) <= max /\ z = B + Len(y)
    BY <1>9 DEF SlowAt
  <2> HIDE DEF y, z, B
  <2>2. Len(y) \in Nat /\ z <= B + max
    BY <1>1, <2>1
  <2> QED  BY <2>2 DEF z, B
<1> HIDE DEF h, T
<1> DEFINE u == f[N].w
           c == f[N].kept
<1>10. Shape(u) /\ c \in Seq(Nat)
  BY <1>6 DEF PickAt, PickInv, PickWorld
<1>11. v = WithMessages(u, n, c) /\ h[N] = JoinView(u, n, c, s, N) /\ u.uuid <= B + max
  BY <1>3, <1>6, <1>a
<1> HIDE DEF u, c
<1>12. JoinView(u, n, c, s, N) = View(v) /\ v.uuid = u.uuid
  <2>1. Joined(c, s, N) = c
    BY <1>1, <1>10, JoinEnds
  <2> QED  BY <1>1, <1>10, <1>11, <2>1, JoinEnd
<1> QED
  BY <1>5, <1>9, <1>11, <1>12

-----------------------------------------------------------------------------
(* The fast pick as a run of moves.                                        *)

\* The slice without its first k messages.
LEMMA JoinTail ==
  ASSUME NEW s \in Seq(Nat), NEW k \in 0 .. Len(s)
  PROVE  Joined(<<>>, s, k) = SubSeq(s, k + 1, Len(s))
<1>1. PICK N \in Nat : N = Len(s) /\ DOMAIN s = 1 .. N
  OBVIOUS
<1> DEFINE r == SubSeq(s, k + 1, N)
           a == Joined(<<>>, s, k)
           K == N - k
<1>2. /\ k + 1 \in Int /\ N \in Int /\ k \in 0 .. N /\ K \in Nat /\ k \in Nat
      /\ \A j \in k + 1 .. N : s[j] \in Nat
  BY <1>1
<1>3. r \in Seq(Nat)
  BY <1>2, SubSeqProperties
<1>4. Len(r) = IF k + 1 <= N THEN N - (k + 1) + 1 ELSE 0
  BY <1>2, SubSeqProperties
<1>5. \A j \in 1 .. N - (k + 1) + 1 : r[j] = s[(k + 1) + j - 1]
  BY <1>2, SubSeqProperties
<1>6. <<>> \in Seq(Nat) /\ Len(<<>>) = 0
  OBVIOUS
<1>7. /\ a \in Seq(Nat) /\ Len(a) = 0 + N - k
      /\ \A j \in k + 1 .. N : a[j + 0 - k] = s[j]
  <2>1. PICK e \in Seq(Nat) : e = <<>> /\ Len(e) = 0
    BY <1>6
  <2>2. /\ Joined(e, s, k) \in Seq(Nat) /\ Len(Joined(e, s, k)) = Len(e) + Len(s) - k
        /\ \A j \in k + 1 .. Len(s) : Joined(e, s, k)[j + Len(e) - k] = s[j]
    BY JoinType
  <2>3. a = Joined(e, s, k)
    BY <2>1
  <2> HIDE DEF a
  <2> QED  BY <1>1, <2>1, <2>2, <2>3
<1> HIDE DEF r, a
<1>8. Len(r) = K /\ Len(a) = K
  BY <1>2, <1>4, <1>7
<1>9. ASSUME NEW j \in 1 .. K PROVE r[j] = a[j]
  <2>1. /\ j \in 1 .. N - (k + 1) + 1 /\ (k + 1) + j - 1 = j + k
        /\ j + k \in k + 1 .. N /\ (j + k) + 0 - k = j
    BY <1>2
  <2>2. r[j] = s[j + k]
    BY <1>5, <2>1
  <2>3. a[(j + k) + 0 - k] = s[j + k]
    BY <1>7, <2>1
  <2> QED  BY <2>1, <2>2, <2>3
<1> HIDE DEF K
<1>10. r = [j \in 1 .. K |-> r[j]] /\ a = [j \in 1 .. K |-> a[j]]
  BY <1>3, <1>7, <1>8
<1>11. r = a
  BY <1>9, <1>10
<1> QED
  BY <1>1, <1>11 DEF r, a

\* What holds in the middle of the fast pick: only leases of this batch and
\* only their receive counts are new.
FastAt(w, n, u) ==
  /\ Shape(u) /\ SameRules(w, u) /\ SameHeap(w, u)
  /\ \A x \in LeaseSet(u.q[n].inflight) : x \in LeaseSet(w.q[n].inflight) \/ x.batch = w.uuid
  /\ \A m \in 1 .. Len(w.msg) :
       \/ u.msg[m].rc = w.msg[m].rc
       \/ \E y \in LeaseSet(u.q[n].inflight) : y.m = m /\ y.batch = w.uuid

\* One lease of the fast pick is one move.
LEMMA FastMove ==
  ASSUME NEW w, Sound(w), Good(View(w)), NEW n \in Queues, NEW vt \in Int, NEW t \in Int,
         NEW blocked, LeasesBlocked(w, n, blocked), NEW u,
         NEW i \in 1 .. Len(w.q[n].messages), FastAt(w, n, u),
         Clear(w, n, w.q[n].messages[i], t, blocked),
         Good(JoinView(u, n, <<>>, w.q[n].messages, i - 1)),
         NEW v, v = Lease(u, n, w.q[n].messages[i], vt, t, w.uuid)
  PROVE  /\ FastAt(w, n, v)
         /\ Hands(JoinView(u, n, <<>>, w.q[n].messages, i - 1),
                  JoinView(v, n, <<>>, w.q[n].messages, i), n, t, w.uuid)
<1> DEFINE s == w.q[n].messages
           m == s[i]
           B == w.uuid
           p == JoinView(u, n, <<>>, s, i - 1)
           L == LeaseSet(u.q[n].inflight)
<1>1. s \in Seq(Nat) /\ B \in Nat /\ i \in 1 .. Len(s) /\ IsSeq(w.msg) /\ Shape(w)
  BY DEF Sound, Shape, QShape
<1>2. <<>> \in Seq(Nat) /\ Len(<<>>) = 0
  OBVIOUS
<1>3. Good(p) /\ p.msg = u.msg /\ p.l[n] = L /\ p.p[n] = Joined(<<>>, s, i - 1)
      /\ p.max[n] = u.q[n].maxRC /\ p.dlq[n] = u.q[n].dlq
  <2>1. Shows(p, u, n, Joined(<<>>, s, i - 1))
    BY JoinFields
  <2> QED  BY <2>1 DEF Shows
<1>4. v = Lease(u, n, m, vt, t, B) /\ Clear(w, n, m, t, blocked)
  OBVIOUS
<1>5. /\ Shape(u) /\ SameRules(w, u) /\ SameHeap(w, u)
      /\ \A x \in L : x \in LeaseSet(w.q[n].inflight) \/ x.batch = B
      /\ \A k \in 1 .. Len(w.msg) :
           u.msg[k].rc = w.msg[k].rc \/ \E y \in L : y.m = k /\ y.batch = B
  BY DEF FastAt
<1> HIDE DEF s, B, p, L
<1>6. Typed(u) /\ m \in 1 .. Len(u.msg) /\ m \in Nat
  BY <1>1, <1>2, <1>3, VisitMessage DEF p
<1>7. p.p[n][Len(<<>>) + 1] = m
  <2>1. Puts(Joined(<<>>, s, i), Len(<<>>) + 1, m, Joined(<<>>, s, i - 1))
    BY <1>1, <1>2, JoinDrop
  <2> QED  BY <1>3, <2>1 DEF Puts
<1> HIDE DEF m
<1>8. /\ Len(u.msg) = Len(w.msg) /\ IsSeq(u.msg)
      /\ \A k \in 1 .. Len(w.msg) : /\ u.msg[k].group = w.msg[k].group
                                    /\ u.msg[k].visibleAt = w.msg[k].visibleAt
  BY <1>5 DEF SameHeap, SameMessage
<1>9. u.msg[m].visibleAt <= t
  <2>1. u.msg[m].visibleAt \in Int
    BY <1>6 DEF Typed, IsMessage
  <2>2. ~(t < w.msg[m].visibleAt)
    BY <1>4 DEF Clear
  <2> QED  BY <1>6, <1>8, <2>1, <2>2
<1>10. Routes(p, n, m) => \E y \in p.l[n] : y.m = m /\ y.batch = B
  <2>1. ~ShouldRoute(w, n, m)
    BY <1>4 DEF Clear
  <2>2. u.msg[m].rc = w.msg[m].rc \/ \E y \in L : y.m = m /\ y.batch = B
    BY <1>5, <1>6, <1>8
  <2>3. p.max[n] = w.q[n].maxRC /\ p.dlq[n] = w.q[n].dlq
    BY <1>3, <1>5 DEF SameRules
  <2> QED  BY <1>3, <2>1, <2>2, <2>3 DEF Routes, ShouldRoute
<1>11. ASSUME IsFIFO(n) PROVE Free(p, n, Len(<<>>) + 1, t, B)
  <2>1. w.msg[m].group \notin blocked
    BY <1>4, <1>11 DEF Clear, Blocked
  <2>2. ASSUME NEW x \in p.l[n], p.msg[x.m].group = p.msg[m].group, p.msg[m].group # None
        PROVE  x.batch = B
    <3>1. CASE x \in LeaseSet(w.q[n].inflight)
      <4>1. x.m \in 1 .. Len(u.msg)
        BY <1>3 DEF Good, LeaseOk
      <4>2. w.msg[x.m].group \in blocked \cup {None}
        BY <1>11, <3>1 DEF LeasesBlocked
      <4>3. w.msg[x.m].group = p.msg[x.m].group /\ w.msg[m].group = p.msg[m].group
        BY <1>3, <1>6, <1>8, <4>1
      <4> QED  BY <2>1, <2>2, <4>2, <4>3
    <3> QED  BY <1>3, <1>5, <3>1
  <2>3. 1 .. (Len(<<>>) + 1) - 1 = {}
    BY <1>2
  <2> QED  BY <1>7, <2>2, <2>3 DEF Free
<1>12. Hands(p, JoinView(v, n, <<>>, s, i), n, t, B)
  BY <1>1, <1>2, <1>4, <1>5, <1>6, <1>9, <1>10, <1>11, LeaseMove DEF p, m
<1>13. FastAt(w, n, v)
  <2>1. LeasedTo(u, n, m, B, v)
    BY <1>1, <1>4, <1>5, <1>6, LeasePlaces
  <2>2. /\ Shape(v) /\ SameRules(u, v) /\ SameHeap(u, v)
        /\ \A k \in 1 .. Len(u.msg) :
             v.msg[k].rc = IF k = m THEN u.msg[k].rc + 1 ELSE u.msg[k].rc
        /\ \E x \in Leases : /\ x.m = m /\ x.batch = B
                             /\ v.q[n].inflight = Append(u.q[n].inflight, x)
    BY <2>1 DEF LeasedTo
  <2>3. PICK x \in Leases : /\ x.m = m /\ x.batch = B
                            /\ v.q[n].inflight = Append(u.q[n].inflight, x)
    BY <2>2
  <2>4. LeaseSet(v.q[n].inflight) = L \cup {x}
    <3>1. u.q[n].inflight \in Seq(Leases)
      BY <1>5 DEF Shape, QShape
    <3>2. LeaseSet(Append(u.q[n].inflight, x)) = LeaseSet(u.q[n].inflight) \cup {x}
      BY <3>1, AppendLeases
    <3> QED  BY <2>3, <3>2 DEF L
  <2>5. SameRules(w, v) /\ SameHeap(w, v)
    <3>1. SameRules(w, v)
      BY <1>5, <2>2, RulesTrans
    <3>2. IsSeq(v.msg) /\ Len(v.msg) = Len(w.msg)
      BY <1>8, <2>2 DEF SameHeap
    <3>3. ASSUME NEW k \in 1 .. Len(w.msg) PROVE SameMessage(w.msg[k], v.msg[k])
      <4>1. SameMessage(w.msg[k], u.msg[k])
        BY <1>5 DEF SameHeap
      <4>2. SameMessage(u.msg[k], v.msg[k])
        BY <1>8, <2>2 DEF SameHeap
      <4> QED  BY <4>1, <4>2 DEF SameMessage
    <3> QED  BY <3>1, <3>2, <3>3 DEF SameHeap
  <2>6. \A z \in LeaseSet(v.q[n].inflight) : z \in LeaseSet(w.q[n].inflight) \/ z.batch = B
    BY <1>5, <2>3, <2>4
  <2>7. ASSUME NEW k \in 1 .. Len(w.msg)
        PROVE  \/ v.msg[k].rc = w.msg[k].rc
               \/ \E y \in LeaseSet(v.q[n].inflight) : y.m = k /\ y.batch = B
    <3>1. CASE k = m
      BY <2>3, <2>4, <3>1
    <3>2. CASE k # m
      <4>1. v.msg[k].rc = u.msg[k].rc
        BY <1>8, <2>2, <3>2
      <4> QED  BY <1>5, <2>4, <4>1
    <3> QED  BY <3>1, <3>2
  <2> QED  BY <2>2, <2>5, <2>6, <2>7 DEF FastAt, B
<1> QED
  BY <1>12, <1>13 DEF p, s, B

\* The leases of the fast pick are moves.
LEMMA FastLeasesChain ==
  ASSUME NEW w, Sound(w), Good(View(w)), NEW n \in Queues, NEW vt \in Int,
         NEW t \in Int, NEW blocked, LeasesBlocked(w, n, blocked),
         NEW k \in 1 .. Len(w.q[n].messages),
         \A i \in 1 .. k : Clear(w, n, w.q[n].messages[i], t, blocked),
         NEW v, v = WithMessages(FastLeased(w, n, k, vt, t), n,
                                 SubSeq(w.q[n].messages, k + 1, Len(w.q[n].messages)))
  PROVE  Chain(View(w), View(v), t, w.uuid, {n}) /\ v.uuid = w.uuid + k
<1> DEFINE s == w.q[n].messages
           N == Len(s)
           B == w.uuid
<1>1. s \in Seq(Nat) /\ N \in Nat /\ B \in Nat /\ Shape(w) /\ k \in Nat /\ k <= N /\ k \in 0 .. N
  BY DEF Sound, Shape, QShape
<1>2. PICK f : FastRun(w, n, k, vt, t, f) /\ FastLeased(w, n, k, vt, t) = f[k]
  <2>1. w.q[n].messages \in Seq(Nat) /\ k \in Nat /\ k <= Len(w.q[n].messages)
    BY <1>1
  <2> HIDE DEF s
  <2> QED  BY <2>1, FastPass
<1>3. f[0] = w /\ \A i \in 1 .. k : f[i] = Lease(f[i - 1], n, s[i], vt, t, B)
  BY <1>2 DEF FastRun
<1> DEFINE h == [i \in 0 .. k |-> JoinView(f[i], n, <<>>, s, i)]
           T == {i \in 0 .. k : FastAt(w, n, f[i]) /\ f[i].uuid = B + i}
<1>4. h[0] = View(w) /\ 0 \in T
  <2>1. h[0] = JoinView(w, n, <<>>, s, 0) /\ 0 \in 0 .. k
    BY <1>1, <1>3
  <2>2. JoinView(w, n, <<>>, s, 0) = View(w)
    BY <1>1, JoinStart
  <2>3. FastAt(w, n, w)
    <3>1. SameHeap(w, w)
      BY <1>1, HeapSelf DEF Shape
    <3> QED  BY <1>1, <3>1 DEF FastAt, SameRules
  <2> QED  BY <1>1, <1>3, <2>1, <2>2, <2>3
<1>5. h[k] = JoinView(f[k], n, <<>>, s, k)
  BY <1>1
<1>6. ASSUME NEW i \in 1 .. k, i - 1 \in T, Good(h[i - 1])
      PROVE  i \in T /\ Move(h[i - 1], h[i], n, t, B, {n})
  <2>1. i \in 0 .. k /\ i - 1 \in 0 .. k /\ i \in 1 .. Len(w.q[n].messages)
    <3>1. k \in Nat /\ N \in Nat /\ k <= N /\ N = Len(w.q[n].messages)
      BY <1>1
    <3> HIDE DEF N, T, h
    <3> QED  BY <3>1
  <2>2. /\ h[i - 1] = JoinView(f[i - 1], n, <<>>, s, i - 1)
        /\ h[i] = JoinView(f[i], n, <<>>, s, i)
    BY <2>1
  <2>3. /\ f[i] = Lease(f[i - 1], n, s[i], vt, t, B) /\ FastAt(w, n, f[i - 1])
        /\ f[i - 1].uuid = B + (i - 1) /\ Clear(w, n, s[i], t, blocked)
    BY <1>3, <1>6, <2>1
  <2> HIDE DEF h
  <2>4. Good(JoinView(f[i - 1], n, <<>>, s, i - 1))
    BY <1>6, <2>2
  <2>5. /\ FastAt(w, n, f[i])
        /\ Hands(JoinView(f[i - 1], n, <<>>, s, i - 1), JoinView(f[i], n, <<>>, s, i), n, t, B)
    BY <2>1, <2>3, <2>4, FastMove
  <2>6. f[i].uuid = B + i
    <3>1. DOMAIN f[i - 1] = {"msg", "q", "uuid", "gone"}
      BY <2>3 DEF FastAt, Shape
    <3>2. f[i].uuid = f[i - 1].uuid + 1
      BY <2>3, <3>1 DEF Lease
    <3>3. f[i - 1].uuid = B + (i - 1)
      BY <2>3
    <3>4. B \in Nat /\ i \in Int
      BY <1>1
    <3> HIDE DEF B, N, T, s
    <3> QED  BY <3>2, <3>3, <3>4
  <2> QED  BY <2>1, <2>2, <2>5, <2>6 DEF Move
<1>7. View(w).uuid = B
  BY DEF View, At
<1>8. Chain(h[0], h[k], t, B, {n}) /\ k \in T
  <2>1. Good(h[0]) /\ B <= h[0].uuid /\ 0 \in T
    BY <1>1, <1>4, <1>7
  <2>2. \A i \in 1 .. k : i - 1 \in T /\ Good(h[i - 1])
                            => i \in T /\ Move(h[i - 1], h[i], n, t, B, {n})
    BY <1>6
  <2>3. {n} \in SUBSET Queues /\ n \in {n}
    OBVIOUS
  <2> HIDE DEF h, N, T
  <2> QED  BY <1>1, <2>1, <2>2, <2>3, ChainVisits
<1> DEFINE u == f[k]
           r == SubSeq(s, k + 1, N)
<1>9. Shape(u) /\ u.uuid = B + k
  BY <1>8 DEF FastAt
<1>10. r \in Seq(Nat) /\ Joined(<<>>, s, k) = r
  <2>1. Joined(<<>>, s, k) = SubSeq(s, k + 1, Len(s))
    BY <1>1, JoinTail
  <2>2. r \in Seq(Nat)
    BY <1>1, TailRange
  <2> QED  BY <2>1, <2>2
<1>11. v = WithMessages(u, n, r)
  BY <1>2
<1> HIDE DEF h, T, u, r, s
<1>12. JoinView(u, n, <<>>, s, k) = View(v) /\ v.uuid = u.uuid
  BY <1>9, <1>10, <1>11, JoinEnd
<1> QED
  BY <1>4, <1>5, <1>8, <1>9, <1>12 DEF u

\* What the fast pick does to the places; when it fails, no handle is issued
\* and the leases are blocked as before.
FastMoved(w, n, max, t, blocked, r) ==
  /\ Chain(View(w), View(r.w), t, w.uuid, {n})
  /\ r.ok = TRUE \/ r.ok = FALSE
  /\ r.ok = FALSE => r.w.uuid = w.uuid /\ LeasesBlocked(r.w, n, blocked)
  /\ r.ok = TRUE => r.w.uuid <= w.uuid + max

\* The fast pick is a run of moves.
LEMMA FastChain ==
  ASSUME NEW w, Sound(w), Good(View(w)), NEW n \in Queues, NEW max \in Nat, NEW vt \in Int,
         NEW t \in Int, NEW blocked, LeasesBlocked(w, n, blocked),
         NEW r, r = FastPick(w, n, max, vt, t, blocked)
  PROVE  FastMoved(w, n, max, t, blocked, r)
<1> DEFINE s == w.q[n].messages
           N == Len(s)
           B == w.uuid
<1>1. s \in Seq(Nat) /\ N \in Nat /\ B \in Nat /\ Shape(w) /\ DOMAIN s = 1 .. N
  BY DEF Sound, Shape, QShape
<1>2. FastOutcome(w, n, max, vt, t, blocked, r)
  BY <1>1, FastCases
<1>3. \/ \E k \in 1 .. N :
           /\ r.ok = TRUE /\ k <= max /\ \A i \in 1 .. k : Clear(w, n, s[i], t, blocked)
           /\ r.w = WithMessages(FastLeased(w, n, k, vt, t), n, SubSeq(s, k + 1, N))
      \/ /\ r.ok = FALSE
         /\ \E i \in 1 .. N : ShouldRoute(w, n, s[i]) /\ r.w = Route(w, n, s[i], t)
      \/ r.ok = FALSE /\ r.w = w
  BY <1>2, Zenon DEF FastOutcome
<1>4. ASSUME NEW k \in 1 .. N, r.ok = TRUE, k <= max,
             \A i \in 1 .. k : Clear(w, n, s[i], t, blocked),
             r.w = WithMessages(FastLeased(w, n, k, vt, t), n, SubSeq(s, k + 1, N))
      PROVE  FastMoved(w, n, max, t, blocked, r)
  <2>1. Chain(View(w), View(r.w), t, B, {n}) /\ r.w.uuid = B + k
    BY <1>4, FastLeasesChain
  <2>2. r.w.uuid <= B + max
    BY <1>1, <1>4, <2>1
  <2> QED  BY <1>4, <2>1, <2>2 DEF FastMoved
<1>5. ASSUME r.ok = FALSE, NEW i \in 1 .. N, ShouldRoute(w, n, s[i]), r.w = Route(w, n, s[i], t)
      PROVE  FastMoved(w, n, max, t, blocked, r)
  <2> DEFINE m == s[i]
             v == r.w
             a == View(w)
             b == View(v)
             d == w.q[n].dlq
  <2>1. v = Route(w, n, m, t) /\ ShouldRoute(w, n, m)
    BY <1>5
  <2>2. a = At(w, Slices(w), Lent(w)) /\ b = At(v, Slices(v), Lent(v))
    BY DEF View
  <2>3. /\ a.p = Slices(w) /\ a.l = Lent(w) /\ a.msg = w.msg /\ a.gone = w.gone
        /\ a.dlq = Targets(w)
    BY <2>2, AtFields
  <2>4. b.p = Slices(v) /\ b.l = Lent(v) /\ b.gone = v.gone
    BY <2>2, AtFields
  <2>5. Typed(w) /\ m \in 1 .. Len(w.msg) /\ m \in Elems(a.p[n]) /\ m \in Nat
    <3>1. a.p[n] = s
      BY <2>3 DEF Slices
    <3>2. m \in Elems(a.p[n])
      BY <1>1, <3>1 DEF Elems
    <3>3. m \in Nat
      <4>1. s \in Seq(Nat) /\ i \in 1 .. Len(s)
        BY <1>1, <1>5
      <4> HIDE DEF s
      <4> QED  BY <4>1
    <3> HIDE DEF a, m
    <3>4. Good(a)
      BY DEF a
    <3>5. \A j \in 1 .. Len(a.msg) : IsMessage(a.msg[j])
      BY <3>4 DEF Good
    <3>6. m \in 1 .. Len(a.msg)
      BY <3>2, <3>4 DEF Good
    <3> QED  BY <2>3, <3>2, <3>3, <3>5, <3>6 DEF Typed
  <2> HIDE DEF a, b, m, v
  <2>6. w.q[n].dlq # None
    BY <2>1 DEF ShouldRoute
  <2>7. RoutedTo(w, n, m, v)
    BY <1>1, <2>1, <2>5, <2>6, RoutePlaces
  <2>8. /\ Shape(v) /\ d \in Queues /\ SameRules(w, v)
        /\ SameHeap(w, v) /\ SameCounts(w, v)
        /\ v.gone = w.gone /\ v.uuid = w.uuid
        /\ \A k \in Queues : v.q[k].inflight = w.q[k].inflight
        /\ \A k \in Queues : k # d => v.q[k].messages = w.q[k].messages
        /\ v.q[d].messages = Append(w.q[d].messages, m)
    BY <2>7 DEF RoutedTo
  <2>9. Still(a, b)
    BY <2>2, <2>8, SteadyWorlds
  <2>10. Routes(a, n, m)
    BY <2>1, <2>2, RoutesWorld
  <2>11. a.dlq[n] = d
    BY <2>3 DEF Targets
  <2>12. SamePending(a, b, {a.dlq[n]}) /\ SameLeases(a, b, {})
    <3>1. ASSUME NEW k \in Queues
          PROVE  b.l[k] = a.l[k] /\ (k # d => b.p[k] = a.p[k])
      <4>1. /\ a.p[k] = w.q[k].messages /\ a.l[k] = LeaseSet(w.q[k].inflight)
            /\ b.p[k] = v.q[k].messages /\ b.l[k] = LeaseSet(v.q[k].inflight)
        BY <2>3, <2>4 DEF Slices, Lent
      <4> QED  BY <2>8, <4>1
    <3> HIDE DEF d
    <3> QED  BY <2>11, <3>1 DEF SamePending, SameLeases
  <2>13. Tails(a, b, a.dlq[n], m)
    <3>1. w.q[d].messages \in Seq(Nat)
      BY <1>1, <2>8 DEF Shape, QShape
    <3>2. a.p[d] = w.q[d].messages /\ b.p[d] = v.q[d].messages
      BY <2>3, <2>4, <2>8 DEF Slices
    <3>3. Puts(w.q[d].messages, Len(w.q[d].messages) + 1, m, Append(w.q[d].messages, m))
      BY <2>5, <3>1, AppendPuts
    <3> QED  BY <2>8, <2>11, <3>2, <3>3 DEF Tails
  <2>14. b.gone = a.gone
    BY <2>3, <2>4, <2>8
  <2>15. Copies(a, b, n)
    BY <2>5, <2>9, <2>10, <2>12, <2>13, <2>14 DEF Copies
  <2>16. Chain(a, b, t, B, {n})
    <3>1. Move(a, b, n, t, B, {n})
      BY <2>15 DEF Move
    <3> QED  BY <3>1, ChainOne
  <2>17. LeasesBlocked(v, n, blocked)
    <3> SUFFICES ASSUME IsFIFO(n), NEW x \in LeaseSet(v.q[n].inflight)
                 PROVE  v.msg[x.m].group \in blocked \cup {None}
      BY DEF LeasesBlocked
    <3>1. x \in LeaseSet(w.q[n].inflight)
      BY <2>8
    <3>2. x.m \in 1 .. Len(w.msg)
      <4>1. x \in a.l[n]
        BY <2>3, <3>1 DEF Lent
      <4>2. Good(a)
        BY DEF a
      <4> QED  BY <2>3, <4>1, <4>2 DEF Good, LeaseOk
    <3>3. v.msg[x.m].group = w.msg[x.m].group
      BY <2>8, <3>2 DEF SameHeap, SameMessage
    <3> QED  BY <3>1, <3>3 DEF LeasesBlocked
  <2> QED  BY <1>5, <2>8, <2>16, <2>17 DEF FastMoved, a, b, v
<1>6. ASSUME r.ok = FALSE, r.w = w
      PROVE  FastMoved(w, n, max, t, blocked, r)
  <2>1. Chain(View(w), View(w), t, B, {n})
    BY ChainSelf
  <2> QED  BY <1>6, <2>1 DEF FastMoved
<1> QED
  BY <1>3, <1>4, <1>5, <1>6, Zenon

-----------------------------------------------------------------------------
(* A receive and a sweep as runs of moves.                                 *)

\* The fields of a queue that its places come from, unchanged.
SameSlices(q, r) ==
  /\ r.messages = q.messages /\ r.inflight = q.inflight
  /\ r.dlq = q.dlq /\ r.maxRC = q.maxRC /\ r.seqCtr = q.seqCtr
  /\ r.delay = q.delay

\* A queue that differs in other fields only.
LEMMA RebuiltStays ==
  ASSUME NEW w, Shape(w), NEW n \in Queues, NEW r, SameSlices(w.q[n], r)
  PROVE  Stays(View(w), View(WithQueue(w, n, r, w.gone)))
<1> DEFINE v == WithQueue(w, n, r, w.gone)
<1>1. DOMAIN w = {"msg", "q", "uuid", "gone"} /\ DOMAIN w.q = Queues
  BY DEF Shape
<1>2. /\ v.msg = w.msg /\ v.uuid = w.uuid /\ v.gone = w.gone /\ v.q[n] = r
      /\ \A k \in Queues : k # n => v.q[k] = w.q[k]
  BY <1>1 DEF WithQueue
<1> HIDE DEF v
<1>3. /\ SameRules(w, v)
      /\ \A k \in Queues : /\ v.q[k].messages = w.q[k].messages
                           /\ v.q[k].inflight = w.q[k].inflight
  BY <1>2 DEF SameRules, SameSlices
<1>4. Stays(View(w), View(v))
  BY <1>2, <1>3, PlacesSame
<1> QED
  BY <1>4 DEF v

\* One field of a queue that is no part of its places.
LEMMA FieldStays ==
  ASSUME NEW w, Shape(w), NEW n \in Queues, NEW x
  PROVE  /\ Stays(View(w), View([w EXCEPT !.q[n].dedup = x]))
         /\ Stays(View(w), View([w EXCEPT !.q[n].attempts = x]))
         /\ Stays(View(w), View([w EXCEPT !.q[n].delayed = x]))
         /\ Stays(View(w), View([w EXCEPT !.q[n].active = x]))
         /\ Stays(View(w), View(w))
<1>1. /\ DOMAIN w = {"msg", "q", "uuid", "gone"} /\ DOMAIN w.q = Queues
      /\ DOMAIN w.q[n] = QFields
  BY DEF Shape, QShape
<1>2. Stays(View(w), View([w EXCEPT !.q[n].dedup = x]))
  <2> DEFINE r == [w.q[n] EXCEPT !.dedup = x]
  <2>1. SameSlices(w.q[n], r)
    BY <1>1 DEF SameSlices, QFields
  <2>2. [w EXCEPT !.q[n].dedup = x] = WithQueue(w, n, r, w.gone)
    BY <1>1 DEF WithQueue
  <2> HIDE DEF r
  <2> QED  BY <2>1, <2>2, RebuiltStays
<1>3. Stays(View(w), View([w EXCEPT !.q[n].attempts = x]))
  <2> DEFINE r == [w.q[n] EXCEPT !.attempts = x]
  <2>1. SameSlices(w.q[n], r)
    BY <1>1 DEF SameSlices, QFields
  <2>2. [w EXCEPT !.q[n].attempts = x] = WithQueue(w, n, r, w.gone)
    BY <1>1 DEF WithQueue
  <2> HIDE DEF r
  <2> QED  BY <2>1, <2>2, RebuiltStays
<1>4. Stays(View(w), View([w EXCEPT !.q[n].delayed = x]))
  <2> DEFINE r == [w.q[n] EXCEPT !.delayed = x]
  <2>1. SameSlices(w.q[n], r)
    BY <1>1 DEF SameSlices, QFields
  <2>2. [w EXCEPT !.q[n].delayed = x] = WithQueue(w, n, r, w.gone)
    BY <1>1 DEF WithQueue
  <2> HIDE DEF r
  <2> QED  BY <2>1, <2>2, RebuiltStays
<1>5. Stays(View(w), View([w EXCEPT !.q[n].active = x]))
  <2> DEFINE r == [w.q[n] EXCEPT !.active = x]
  <2>1. SameSlices(w.q[n], r)
    BY <1>1 DEF SameSlices, QFields
  <2>2. [w EXCEPT !.q[n].active = x] = WithQueue(w, n, r, w.gone)
    BY <1>1 DEF WithQueue
  <2> HIDE DEF r
  <2> QED  BY <2>1, <2>2, RebuiltStays
<1>6. Stays(View(w), View(w))
  BY PlacesSame DEF SameRules
<1> QED
  BY <1>2, <1>3, <1>4, <1>5, <1>6, Zenon

\* Pruning and the recount.
LEMMA PrunesStay ==
  ASSUME NEW w, Shape(w), NEW n \in Queues, NEW t
  PROVE  /\ Stays(View(w), View(PruneDedup(w, n, t)))
         /\ Stays(View(w), View(PruneAttempts(w, n, t)))
         /\ Stays(View(w), View(RecountDelayed(w, n, t)))
<1> DEFINE d == {e \in w.q[n].dedup : t < e.exp}
           p == {e \in w.q[n].attempts : t < e.exp}
           c == Cardinality({i \in DOMAIN w.q[n].messages :
                               t < w.msg[w.q[n].messages[i]].visibleAt})
<1>1. \/ PruneDedup(w, n, t) = w
      \/ PruneDedup(w, n, t) = [w EXCEPT !.q[n].dedup = d]
  BY Zenon DEF PruneDedup
<1>2. \/ PruneAttempts(w, n, t) = w
      \/ PruneAttempts(w, n, t) = [w EXCEPT !.q[n].attempts = p]
  BY Zenon DEF PruneAttempts
<1>3. \/ RecountDelayed(w, n, t) = w
      \/ RecountDelayed(w, n, t) = [w EXCEPT !.q[n].delayed = c]
  BY DEF RecountDelayed
<1> HIDE DEF d, p, c
<1>4. /\ Stays(View(w), View([w EXCEPT !.q[n].dedup = d]))
      /\ Stays(View(w), View([w EXCEPT !.q[n].attempts = p]))
      /\ Stays(View(w), View([w EXCEPT !.q[n].delayed = c])) /\ Stays(View(w), View(w))
  BY FieldStays, Zenon
<1> QED
  BY <1>1, <1>2, <1>3, <1>4, Zenon

\* World v comes from w by moves of queue n, at most max of which lease.
Advanced(w, v, n, t, max) ==
  /\ Sound(v) /\ Good(View(v)) /\ Chain(View(w), View(v), t, w.uuid, {n})
  /\ w.uuid \in Nat /\ v.uuid \in Nat /\ w.uuid <= v.uuid /\ v.uuid <= w.uuid + max

\* It does when nothing moves.
LEMMA StaysAdvance ==
  ASSUME NEW w, Sound(w), Good(View(w)), NEW v, Sound(v), NEW n \in Queues, NEW t,
         NEW max \in Nat, Stays(View(w), View(v))
  PROVE  Advanced(w, v, n, t, max)
<1>1. View(w).uuid = w.uuid /\ View(v).uuid = v.uuid
  BY DEF View, At
<1>2. View(v).uuid = View(w).uuid
  BY DEF Stays, Still
<1>3. w.uuid \in Nat
  BY DEF Sound, Shape
<1>4. Chain(View(w), View(v), t, w.uuid, {n})
  BY ChainStays
<1>5. Good(View(v))
  BY <1>1, <1>3, <1>4, ChainGood
<1> QED
  BY <1>1, <1>2, <1>3, <1>4, <1>5 DEF Advanced

\* Two passes, the first of which issues no handle.
LEMMA AdvanceJoin ==
  ASSUME NEW w, NEW u, NEW v, NEW n \in Queues, NEW t, NEW max \in Nat,
         Advanced(w, u, n, t, 0), Advanced(u, v, n, t, max)
  PROVE  Advanced(w, v, n, t, max)
<1>1. u.uuid = w.uuid /\ Chain(View(w), View(u), t, w.uuid, {n})
  BY DEF Advanced
<1>2. /\ Chain(View(u), View(v), t, w.uuid, {n}) /\ Sound(v) /\ Good(View(v))
      /\ w.uuid \in Nat /\ v.uuid \in Nat /\ w.uuid <= v.uuid /\ v.uuid <= w.uuid + max
  BY <1>1 DEF Advanced
<1>3. Chain(View(w), View(v), t, w.uuid, {n})
  BY <1>1, <1>2, ChainJoin
<1> QED
  BY <1>2, <1>3 DEF Advanced

\* Two passes, the second of which issues no handle: nothing moves in it.
LEMMA AdvanceStays ==
  ASSUME NEW w, NEW u, NEW v, NEW n \in Queues, NEW t, NEW max \in Nat,
         Advanced(w, u, n, t, max), Sound(v), Stays(View(u), View(v))
  PROVE  Advanced(w, v, n, t, max)
<1>1. /\ Chain(View(w), View(u), t, w.uuid, {n}) /\ Sound(u) /\ Good(View(u))
      /\ w.uuid \in Nat /\ u.uuid \in Nat /\ w.uuid <= u.uuid /\ u.uuid <= w.uuid + max
  BY DEF Advanced
<1>2. Advanced(u, v, n, t, 0)
  BY <1>1, StaysAdvance
<1>3. v.uuid = u.uuid /\ Good(View(v))
  BY <1>2 DEF Advanced
<1>4. Chain(View(u), View(v), t, w.uuid, {n})
  BY ChainStays
<1>5. Chain(View(w), View(v), t, w.uuid, {n})
  BY <1>1, <1>4, ChainJoin
<1> QED
  BY <1>1, <1>3, <1>5 DEF Advanced

\* The groups of the leases are the blocked ones.
LEMMA BlockedLeases ==
  ASSUME NEW w, NEW n \in Queues, w.q[n].inflight \in Seq(Leases)
  PROVE  LeasesBlocked(w, n, BlockedGroups(w, n))
<1> SUFFICES ASSUME IsFIFO(n), NEW x \in LeaseSet(w.q[n].inflight)
             PROVE  w.msg[x.m].group \in BlockedGroups(w, n) \cup {None}
  BY DEF LeasesBlocked
<1>1. x \in ToSet(w.q[n].inflight)
  BY DEF LeaseSet, ToSet
<1> QED
  BY <1>1 DEF BlockedGroups

\* prepareAndPickMessages is a run of moves.
LEMMA PrepareChain ==
  ASSUME NEW w, Sound(w), Good(View(w)), NEW n \in Queues, NEW max \in Nat, NEW vt \in Int,
         NEW t \in Int
  PROVE  Advanced(w, PrepareAndPick(w, n, max, vt, t).w, n, t, max)
<1> DEFINE swept == Sweep(w, n, t)
           blocked == BlockedGroups(swept, n)
           fast == FastPick(swept, n, max, vt, t, blocked)
           slow == SlowPick(fast.w, n, max, vt, t, blocked)
           res == IF fast.ok THEN fast ELSE slow
<1>1. PrepareAndPick(w, n, max, vt, t).w = RecountDelayed(res.w, n, t)
  BY DEF PrepareAndPick
<1>2. Advanced(w, swept, n, t, 0)
  <2>1. Sound(swept) /\ Chain(View(w), View(swept), t, w.uuid, {n}) /\ swept.uuid = w.uuid
    BY SweepKeeps, SweepChain
  <2>2. w.uuid \in Nat /\ View(w).uuid = w.uuid
    BY DEF Sound, Shape, View, At
  <2> HIDE DEF swept
  <2>3. Good(View(swept))
    BY <2>1, <2>2, ChainGood
  <2> QED  BY <2>1, <2>2, <2>3 DEF Advanced
<1>3. LeasesBlocked(swept, n, blocked) /\ Sound(swept) /\ Good(View(swept))
  <2>1. Sound(swept) /\ Good(View(swept))
    BY <1>2 DEF Advanced
  <2> HIDE DEF swept
  <2>2. swept.q[n].inflight \in Seq(Leases)
    BY <2>1 DEF Sound, Shape, QShape
  <2> QED  BY <2>1, <2>2, BlockedLeases
<1>4. swept.uuid \in Nat
  <2> HIDE DEF swept
  <2> QED  BY <1>3 DEF Sound, Shape
<1> HIDE DEF swept, blocked
<1>5. Sound(fast.w) /\ FastMoved(swept, n, max, t, blocked, fast)
  BY <1>3, FastKeeps, FastChain
<1> DEFINE y == fast.w
<1> HIDE DEF fast
<1>6. /\ Sound(y) /\ Chain(View(swept), View(y), t, swept.uuid, {n})
      /\ fast.ok = TRUE \/ fast.ok = FALSE
      /\ fast.ok = FALSE => y.uuid = swept.uuid /\ LeasesBlocked(y, n, blocked)
      /\ fast.ok = TRUE => y.uuid <= swept.uuid + max
  BY <1>5 DEF FastMoved
<1> HIDE DEF y
<1>7. Good(View(y)) /\ swept.uuid <= View(y).uuid
  <2>1. View(swept).uuid = swept.uuid
    BY DEF View, At
  <2> QED  BY <1>3, <1>4, <1>6, <2>1, ChainGood
<1>8. View(y).uuid = y.uuid
  BY DEF View, At
<1>9. Advanced(swept, res.w, n, t, max)
  <2>1. CASE fast.ok = TRUE
    <3>1. res.w = y
      BY <2>1 DEF y
    <3> HIDE DEF res
    <3>2. y.uuid \in Nat
      BY <1>6 DEF Sound, Shape
    <3> QED  BY <1>4, <1>6, <1>7, <1>8, <2>1, <3>1, <3>2 DEF Advanced
  <2>2. CASE fast.ok = FALSE
    <3> DEFINE v == SlowPick(y, n, max, vt, t, blocked).w
    <3>1. res.w = v
      BY <2>2 DEF y
    <3>2. Advanced(swept, y, n, t, 0)
      BY <1>4, <1>6, <1>7, <1>8, <2>2 DEF Advanced
    <3>3. Chain(View(y), View(v), t, y.uuid, {n}) /\ v.uuid <= y.uuid + max
      BY <1>6, <1>7, <2>2, SlowChain
    <3>4. Sound(v)
      BY <1>6, SlowKeeps
    <3> HIDE DEF v, res
    <3>5. y.uuid \in Nat /\ View(v).uuid = v.uuid
      BY <1>6 DEF Sound, Shape, View, At
    <3>6. Good(View(v)) /\ y.uuid <= v.uuid
      BY <1>7, <1>8, <3>3, <3>5, ChainGood
    <3>7. v.uuid \in Nat
      BY <3>4 DEF Sound, Shape
    <3>8. Advanced(y, v, n, t, max)
      BY <3>3, <3>4, <3>5, <3>6, <3>7 DEF Advanced
    <3> QED  BY <3>1, <3>2, <3>8, AdvanceJoin
  <2> QED  BY <1>6, <2>1, <2>2
<1> DEFINE z == res.w
<1> HIDE DEF res
<1>10. Advanced(w, z, n, t, max) /\ Sound(z)
  <2>1. Advanced(w, z, n, t, max)
    BY <1>2, <1>9, AdvanceJoin
  <2> QED  BY <2>1 DEF Advanced
<1> HIDE DEF z
<1>11. Sound(RecountDelayed(z, n, t)) /\ Stays(View(z), View(RecountDelayed(z, n, t)))
  BY <1>10, RecountKeeps, PrunesStay DEF Sound
<1>12. Advanced(w, RecountDelayed(z, n, t), n, t, max)
  BY <1>10, <1>11, AdvanceStays
<1> QED
  BY <1>1, <1>12 DEF z

\* receiveOnce is a run of moves.
LEMMA ReceiveChain ==
  ASSUME NEW w, Sound(w), Good(View(w)), NEW n \in Queues, NEW max \in Nat, NEW vt \in Int,
         NEW att, NEW t \in Int
  PROVE  Advanced(w, ReceiveOnce(w, n, max, vt, att, t), n, t, max)
<1> DEFINE y == PruneDedup(w, n, t)
           z == PruneAttempts(y, n, t)
           got == PrepareAndPick(z, n, max, vt, t)
           g == got.w
           entry == [id |-> att, msgs |-> got.picked, exp |-> t + AttemptTTL]
           x == g.q[n].attempts \cup {entry}
<1>1. \/ ReceiveOnce(w, n, max, vt, att, t) = z
      \/ ReceiveOnce(w, n, max, vt, att, t) = g
      \/ ReceiveOnce(w, n, max, vt, att, t) = [g EXCEPT !.q[n].attempts = x]
  BY Zenon DEF ReceiveOnce
<1>2. Sound(y) /\ Stays(View(w), View(y))
  BY PrunesKeep, PrunesStay DEF Sound
<1> HIDE DEF y
<1>3. Advanced(w, y, n, t, 0) /\ Shape(y)
  BY <1>2, StaysAdvance DEF Sound
<1>4. Sound(z) /\ Stays(View(y), View(z))
  BY <1>2, <1>3, PrunesKeep, PrunesStay
<1> HIDE DEF z
<1>5. Advanced(w, z, n, t, 0) /\ Good(View(z))
  <2>1. Advanced(w, z, n, t, 0)
    BY <1>3, <1>4, AdvanceStays
  <2> QED  BY <2>1 DEF Advanced
<1>6. Advanced(z, g, n, t, max)
  BY <1>4, <1>5, PrepareChain
<1> HIDE DEF g, x
<1>7. Advanced(w, g, n, t, max) /\ Sound(g)
  <2>1. Advanced(w, g, n, t, max)
    BY <1>5, <1>6, AdvanceJoin
  <2> QED  BY <2>1 DEF Advanced
<1>8. Sound([g EXCEPT !.q[n].attempts = x]) /\ Stays(View(g), View([g EXCEPT !.q[n].attempts = x]))
  <2>1. Shape(g)
    BY <1>7 DEF Sound
  <2> QED  BY <1>7, <2>1, FieldKeeps, FieldStays, Zenon
<1>9. Advanced(w, [g EXCEPT !.q[n].attempts = x], n, t, max)
  BY <1>7, <1>8, AdvanceStays
<1>10. Advanced(w, z, n, t, max)
  BY <1>5 DEF Advanced
<1> QED
  BY <1>1, <1>7, <1>9, <1>10, Zenon

\* The janitor's sweep of a queue is a run of moves that issues no handle.
LEMMA PruneChain ==
  ASSUME NEW w, Sound(w), Good(View(w)), NEW n \in Queues, NEW t \in Int
  PROVE  Advanced(w, PrepareAndPick(PruneDedup(w, n, t), n, 0, 0, t).w, n, t, 0)
<1> DEFINE y == PruneDedup(w, n, t)
<1>1. Sound(y) /\ Stays(View(w), View(y))
  BY PrunesKeep, PrunesStay DEF Sound
<1> HIDE DEF y
<1>2. Advanced(w, y, n, t, 0) /\ Good(View(y))
  <2>1. Advanced(w, y, n, t, 0)
    BY <1>1, StaysAdvance
  <2> QED  BY <2>1 DEF Advanced
<1>3. Advanced(y, PrepareAndPick(y, n, 0, 0, t).w, n, t, 0)
  BY <1>1, <1>2, PrepareChain
<1>4. Advanced(w, PrepareAndPick(y, n, 0, 0, t).w, n, t, 0)
  BY <1>2, <1>3, AdvanceJoin
<1> QED
  BY <1>4 DEF y

-----------------------------------------------------------------------------
(* Deletes and changes of visibility on the places.                        *)

\* From w to v, the lease of handle h ended.
DroppedTo(w, n, h, v) ==
  /\ SameRules(w, v) /\ v.msg = w.msg /\ v.gone = w.gone /\ v.uuid = w.uuid
  /\ \A k \in Queues : v.q[k].messages = w.q[k].messages
  /\ \A k \in Queues : k # n => v.q[k].inflight = w.q[k].inflight
  /\ \E x \in LeaseSet(w.q[n].inflight) :
       /\ x.handle = h /\ x.m = LeasedMsg(w, n, h)
       /\ LeaseSet(v.q[n].inflight) = LeaseSet(w.q[n].inflight) \ {x}

\* The swap-delete takes out one lease.
LEMMA DropPlaces ==
  ASSUME NEW w, Sound(w), NEW n \in Queues, NEW h \in Handles(w.q[n].inflight),
         NEW v, v = DropLease(w, n, h)
  PROVE  DroppedTo(w, n, h, v)
<1> DEFINE s == w.q[n].inflight
           N == Len(s)
           i == IndexOfHandle(w, n, h)
           r == SwapDelete(s, i)
<1>1. /\ DOMAIN w = {"msg", "q", "uuid", "gone"} /\ DOMAIN w.q = Queues
      /\ DOMAIN w.q[n] = QFields
  BY DEF Sound, Shape, QShape
<1>2. s \in Seq(Leases) /\ N \in Nat /\ DOMAIN s = 1 .. N /\ Distinct(s)
  BY DEF Sound, Shape, QShape, Indexed
<1>3. i \in 1 .. N /\ s[i].handle = h /\ LeasedMsg(w, n, h) = s[i].m
  BY <1>2, LeaseAt
<1>4. v = [w EXCEPT !.q[n].byHandle = @ \ {h}, !.q[n].inflight = r]
  BY DEF DropLease
<1> HIDE DEF r
<1>5. /\ v.msg = w.msg /\ v.gone = w.gone /\ v.uuid = w.uuid
      /\ \A k \in Queues : k # n => v.q[k] = w.q[k]
      /\ v.q[n].messages = w.q[n].messages /\ v.q[n].inflight = r
      /\ v.q[n].dlq = w.q[n].dlq /\ v.q[n].maxRC = w.q[n].maxRC
      /\ v.q[n].seqCtr = w.q[n].seqCtr /\ v.q[n].delay = w.q[n].delay
  BY <1>1, <1>4 DEF QFields
<1>6. SameRules(w, v)
  BY <1>5 DEF SameRules
<1>7. /\ DOMAIN r = 1 .. N - 1
      /\ \A j \in 1 .. N - 1 : r[j] = IF j = i THEN s[N] ELSE s[j]
  <2> HIDE DEF s, i
  <2> QED  BY <1>2, <1>3, SwapDeleted DEF N, r
<1> HIDE DEF s, i, N
<1>8. /\ N \in 1 .. N /\ \A j \in 1 .. N - 1 : j \in 1 .. N /\ j # N
      /\ \A j \in 1 .. N : j \in 1 .. N - 1 \/ j = N
      /\ (i = N \/ i \in 1 .. N - 1)
  BY <1>2, <1>3
<1>9. \A j \in 1 .. N : s[j] = s[i] => j = i
  BY <1>2, <1>3 DEF Distinct
<1>10. ASSUME NEW j \in 1 .. N - 1 PROVE r[j] \in LeaseSet(s) \ {s[i]}
  <2>1. CASE j = i
    BY <1>2, <1>7, <1>8, <1>9, <2>1 DEF LeaseSet
  <2>2. CASE j # i
    BY <1>2, <1>7, <1>8, <1>9, <2>2 DEF LeaseSet
  <2> QED  BY <2>1, <2>2
<1>11. ASSUME NEW j \in 1 .. N, j # i PROVE s[j] \in LeaseSet(r)
  <2>1. CASE j = N
    <3>1. i \in 1 .. N - 1 /\ r[i] = s[N]
      BY <1>7, <1>8, <1>11, <2>1
    <3> QED  BY <1>7, <2>1, <3>1 DEF LeaseSet
  <2>2. CASE j # N
    <3>1. j \in 1 .. N - 1 /\ r[j] = s[j]
      BY <1>7, <1>8, <1>11, <2>2
    <3> QED  BY <1>7, <3>1 DEF LeaseSet
  <2> QED  BY <2>1, <2>2
<1>12. LeaseSet(r) = LeaseSet(s) \ {s[i]}
  <2>1. LeaseSet(r) \subseteq LeaseSet(s) \ {s[i]}
    BY <1>7, <1>10 DEF LeaseSet
  <2>2. ASSUME NEW x \in LeaseSet(s), x # s[i] PROVE x \in LeaseSet(r)
    <3>1. PICK j \in 1 .. N : x = s[j]
      BY <1>2 DEF LeaseSet
    <3> QED  BY <1>11, <2>2, <3>1
  <2> QED  BY <2>1, <2>2
<1>13. s[i] \in LeaseSet(s)
  BY <1>2, <1>3 DEF LeaseSet
<1>14. \A k \in Queues : /\ v.q[k].messages = w.q[k].messages
                         /\ k # n => v.q[k].inflight = w.q[k].inflight
  BY <1>5
<1> QED
  BY <1>3, <1>5, <1>6, <1>12, <1>13, <1>14 DEF DroppedTo, s

\* What a view of a world shows.
Seen(a, w) ==
  /\ \A k \in Queues : /\ a.p[k] = w.q[k].messages
                       /\ a.l[k] = LeaseSet(w.q[k].inflight)
                       /\ a.dlq[k] = w.q[k].dlq /\ a.max[k] = w.q[k].maxRC
                       /\ a.ctr[k] = w.q[k].seqCtr /\ a.lag[k] = w.q[k].delay
  /\ a.msg = w.msg /\ a.gone = w.gone /\ a.uuid = w.uuid

\* The view of a world shows it.
LEMMA ViewFields ==
  ASSUME NEW w
  PROVE  Seen(View(w), w)
<1> DEFINE a == View(w)
<1>1. a = At(w, Slices(w), Lent(w))
  BY DEF View
<1>2. /\ a.p = Slices(w) /\ a.l = Lent(w) /\ a.msg = w.msg /\ a.gone = w.gone /\ a.uuid = w.uuid
      /\ a.dlq = Targets(w) /\ a.max = Limits(w) /\ a.ctr = Counters(w) /\ a.lag = Lags(w)
  BY <1>1, AtFields
<1> HIDE DEF a
<1>3. Seen(a, w)
  BY <1>2 DEF Seen, Slices, Lent, Targets, Limits, Counters, Lags
<1> QED
  BY <1>3 DEF a

\* A delete ends a lease and retires its message.
LEMMA DeleteMove ==
  ASSUME NEW w, Sound(w), NEW n \in Queues, NEW h \in Handles(w.q[n].inflight),
         NEW v, v = [DropLease(w, n, h) EXCEPT !.gone = w.gone \cup {LeasedMsg(w, n, h)}]
  PROVE  Drops(View(w), View(v), n, w.uuid)
<1> DEFINE u == DropLease(w, n, h)
           a == View(w)
           b == View(v)
<1>1. DOMAIN u = {"msg", "q", "uuid", "gone"}
  BY DEF DropLease, Sound, Shape
<1>2. DroppedTo(w, n, h, u)
  BY DropPlaces
<1> HIDE DEF u
<1>3. v.msg = u.msg /\ v.q = u.q /\ v.uuid = u.uuid /\ v.gone = w.gone \cup {LeasedMsg(w, n, h)}
  BY <1>1 DEF u
<1>4. PICK x \in LeaseSet(w.q[n].inflight) :
        /\ x.handle = h /\ x.m = LeasedMsg(w, n, h)
        /\ LeaseSet(u.q[n].inflight) = LeaseSet(w.q[n].inflight) \ {x}
  BY <1>2 DEF DroppedTo
<1>5. /\ SameRules(w, v) /\ v.msg = w.msg /\ v.uuid = w.uuid
      /\ \A k \in Queues : v.q[k].messages = w.q[k].messages
      /\ \A k \in Queues : k # n => v.q[k].inflight = w.q[k].inflight
      /\ LeaseSet(v.q[n].inflight) = LeaseSet(w.q[n].inflight) \ {x}
  BY <1>2, <1>3, <1>4 DEF DroppedTo, SameRules
<1>6. IsSeq(w.msg) /\ h <= w.uuid
  BY DEF Sound, Shape, Indexed
<1>7. SameHeap(w, v) /\ SameCounts(w, v)
  BY <1>5, <1>6, HeapSelf
<1>8. Still(a, b)
  BY <1>5, <1>7, SteadyWorlds DEF View
<1>a. Seen(a, w) /\ Seen(b, v)
  BY ViewFields
<1> HIDE DEF a, b
<1>9. /\ \A k \in Queues : a.p[k] = w.q[k].messages /\ a.l[k] = LeaseSet(w.q[k].inflight)
      /\ a.gone = w.gone
  BY <1>a DEF Seen
<1>10. /\ \A k \in Queues : b.p[k] = v.q[k].messages /\ b.l[k] = LeaseSet(v.q[k].inflight)
       /\ b.gone = v.gone
  BY <1>a DEF Seen
<1>11. Ends(a, b, n, x, w.uuid)
  BY <1>4, <1>5, <1>6, <1>9, <1>10 DEF Ends, SameLeases
<1>12. SamePending(a, b, {}) /\ b.gone = a.gone \cup {x.m}
  BY <1>3, <1>4, <1>5, <1>9, <1>10 DEF SamePending
<1>13. Drops(a, b, n, w.uuid)
  BY <1>8, <1>11, <1>12 DEF Drops
<1> QED
  BY <1>13 DEF a, b

\* From a to c, message m becomes visible at time t.
Reshows(a, c, m, t) ==
  /\ c.dlq = a.dlq /\ c.max = a.max /\ c.ctr = a.ctr /\ c.lag = a.lag
  /\ SamePending(a, c, {}) /\ SameLeases(a, c, {}) /\ c.gone = a.gone /\ c.uuid = a.uuid
  /\ IsSeq(c.msg) /\ Len(c.msg) = Len(a.msg)
  /\ \A k \in 1 .. Len(a.msg) :
       /\ DOMAIN c.msg[k] = DOMAIN a.msg[k]
       /\ c.msg[k].home = a.msg[k].home /\ c.msg[k].group = a.msg[k].group
       /\ c.msg[k].seq = a.msg[k].seq /\ c.msg[k].sent = a.msg[k].sent
       /\ c.msg[k].rc = a.msg[k].rc
       /\ c.msg[k].visibleAt = IF k = m THEN t ELSE a.msg[k].visibleAt

\* The types stay.
LEMMA ReshowsGood ==
  ASSUME NEW a, Good(a), NEW c, NEW m, NEW t \in Int, Reshows(a, c, m, t)
  PROVE  Good(c)
<1>1. /\ c.uuid = a.uuid /\ IsSeq(c.msg) /\ Len(c.msg) = Len(a.msg)
      /\ \A k \in Queues : c.p[k] = a.p[k] /\ c.l[k] = a.l[k]
      /\ c.dlq = a.dlq /\ c.max = a.max /\ c.ctr = a.ctr /\ c.lag = a.lag
  BY DEF Reshows, SamePending, SameLeases
<1>2. \A k \in 1 .. Len(c.msg) : IsMessage(c.msg[k])
  <2> SUFFICES ASSUME NEW k \in 1 .. Len(c.msg) PROVE IsMessage(c.msg[k])
    OBVIOUS
  <2>1. IsMessage(a.msg[k])
    BY <1>1 DEF Good
  <2>2. /\ DOMAIN c.msg[k] = DOMAIN a.msg[k]
        /\ c.msg[k].home = a.msg[k].home
        /\ c.msg[k].seq = a.msg[k].seq /\ c.msg[k].sent = a.msg[k].sent
        /\ c.msg[k].rc = a.msg[k].rc
        /\ c.msg[k].visibleAt = IF k = m THEN t ELSE a.msg[k].visibleAt
    BY <1>1 DEF Reshows
  <2> QED  BY <2>1, <2>2 DEF IsMessage
<1>3. \A k \in Queues : \A x \in c.l[k] : LeaseOk(c, x)
  BY <1>1 DEF Good, LeaseOk
<1>4. \A k \in Queues : PolicyOk(c, k)
  BY <1>1 DEF Good, PolicyOk
<1> QED
  BY <1>1, <1>2, <1>3, <1>4 DEF Good

\* A written message is shown.
LEMMA WriteShows ==
  ASSUME NEW w, Sound(w), Good(View(w)), NEW m \in 1 .. Len(w.msg), NEW t,
         NEW u, u = Written(w, m, [w.msg[m] EXCEPT !.visibleAt = t])
  PROVE  Reshows(View(w), View(u), m, t)
<1> DEFINE a == View(w)
           c == View(u)
           e == [w.msg[m] EXCEPT !.visibleAt = t]
<1>1. DOMAIN w = {"msg", "q", "uuid", "gone"} /\ IsSeq(w.msg)
  BY DEF Sound, Shape
<1>2. /\ DOMAIN w.msg[m] = MFields /\ DOMAIN w.msg = 1 .. Len(w.msg) /\ Seen(a, w) /\ Good(a)
  <2>1. Seen(a, w) /\ Good(a)
    BY ViewFields
  <2> HIDE DEF a
  <2>2. IsMessage(w.msg[m])
    BY <2>1 DEF Seen, Good
  <2>3. DOMAIN w.msg = 1 .. Len(w.msg)
    <3>1. PICK S : w.msg \in Seq(S)
      BY <1>1 DEF IsSeq
    <3> QED  BY <3>1
  <2> QED  BY <2>1, <2>2, <2>3 DEF IsMessage
<1>3. /\ DOMAIN e = MFields /\ e.visibleAt = t /\ e.home = w.msg[m].home
      /\ e.group = w.msg[m].group /\ e.seq = w.msg[m].seq /\ e.sent = w.msg[m].sent
      /\ e.rc = w.msg[m].rc
  BY <1>2 DEF MFields
<1>4. u = Written(w, m, e)
  OBVIOUS
<1> HIDE DEF e
<1>5. u.msg = [w.msg EXCEPT ![m] = e] /\ u.q = w.q /\ u.uuid = w.uuid /\ u.gone = w.gone
  BY <1>1, <1>4 DEF Written
<1>6. IsSeq(u.msg) /\ Len(u.msg) = Len(w.msg)
  <2> DEFINE s == [w.msg EXCEPT ![m] = e]
  <2>1. IsSeq(s) /\ Len(s) = Len(w.msg)
    BY <1>1, HeapUpdate, Zenon
  <2>2. u.msg = s
    BY <1>5
  <2> QED  BY <2>1, <2>2, Zenon
<1>7. \A k \in 1 .. Len(w.msg) : u.msg[k] = IF k = m THEN e ELSE w.msg[k]
  BY <1>2, <1>5
<1>8. Seen(c, u)
  BY ViewFields
<1>9. c.dlq = a.dlq /\ c.max = a.max /\ c.ctr = a.ctr /\ c.lag = a.lag
  <2>1. SameRules(w, u)
    BY <1>5 DEF SameRules
  <2>2. Targets(u) = Targets(w) /\ Limits(u) = Limits(w)
        /\ Counters(u) = Counters(w) /\ Lags(u) = Lags(w)
    BY <2>1, RulesSame
  <2>3. /\ a.dlq = Targets(w) /\ a.max = Limits(w) /\ a.ctr = Counters(w) /\ a.lag = Lags(w)
        /\ c.dlq = Targets(u) /\ c.max = Limits(u) /\ c.ctr = Counters(u) /\ c.lag = Lags(u)
    BY DEF View, At
  <2> QED  BY <2>2, <2>3
<1> HIDE DEF a, c
<1>10. /\ SamePending(a, c, {}) /\ SameLeases(a, c, {}) /\ c.gone = a.gone /\ c.uuid = a.uuid
       /\ a.msg = w.msg /\ c.msg = u.msg
  <2>1. ASSUME NEW k \in Queues PROVE c.p[k] = a.p[k] /\ c.l[k] = a.l[k]
    <3>1. a.p[k] = w.q[k].messages /\ a.l[k] = LeaseSet(w.q[k].inflight)
      BY <1>2 DEF Seen
    <3>2. c.p[k] = u.q[k].messages /\ c.l[k] = LeaseSet(u.q[k].inflight)
      BY <1>8 DEF Seen
    <3> QED  BY <1>5, <3>1, <3>2
  <2>2. /\ a.msg = w.msg /\ a.gone = w.gone /\ a.uuid = w.uuid
        /\ c.msg = u.msg /\ c.gone = u.gone /\ c.uuid = u.uuid
    BY <1>2, <1>8 DEF Seen
  <2> QED  BY <1>5, <2>1, <2>2 DEF SamePending, SameLeases
<1>11. ASSUME NEW k \in 1 .. Len(w.msg)
       PROVE /\ DOMAIN u.msg[k] = DOMAIN w.msg[k]
             /\ u.msg[k].home = w.msg[k].home /\ u.msg[k].group = w.msg[k].group
             /\ u.msg[k].seq = w.msg[k].seq /\ u.msg[k].sent = w.msg[k].sent
             /\ u.msg[k].rc = w.msg[k].rc
             /\ u.msg[k].visibleAt = IF k = m THEN t ELSE w.msg[k].visibleAt
  <2>1. CASE k = m
    BY <1>2, <1>3, <1>7, <2>1
  <2>2. CASE k # m
    BY <1>7, <2>2
  <2> QED  BY <2>1, <2>2
<1>12. Reshows(a, c, m, t)
  BY <1>6, <1>9, <1>10, <1>11 DEF Reshows
<1> QED
  BY <1>12 DEF a, c

\* A message given up: it is visible at once, pending again or dead-lettered.
Returns(a, b, t) ==
  \E n \in Queues, s \in Int : \E c, m :
    Reshows(a, c, m, t) /\ (Backs(c, b, n, s, a.uuid) \/ Deads(c, b, n, a.uuid))

\* changeVisibility with a timeout of 0.
LEMMA ReturnMove ==
  ASSUME NEW w, Sound(w), Good(View(w)), NEW n \in Queues, NEW h \in Handles(w.q[n].inflight),
         NEW t \in Int, NEW v, v = ReturnNow(w, n, h, t)
  PROVE  Returns(View(w), View(v), t)
<1> DEFINE m == LeasedMsg(w, n, h)
           e == [w.msg[m] EXCEPT !.visibleAt = t]
           u == Written(w, m, e)
           y == RouteOrRequeue(u, n, m, t)
           a == View(w)
           c == View(u)
           b == View(v)
           B == w.uuid
<1>1. PICK i \in DOMAIN w.q[n].inflight :
        w.q[n].inflight[i].m = m /\ m \in Nat /\ IsActive(w.q[n])
  BY LeaseAt
<1>2. Seen(a, w) /\ Good(a) /\ Seen(c, u) /\ Seen(b, v)
  BY ViewFields
<1>3. m \in 1 .. Len(w.msg)
  <2> HIDE DEF a, m
  <2>1. w.q[n].inflight[i] \in a.l[n]
    BY <1>1, <1>2 DEF Seen, LeaseSet
  <2>2. LeaseOk(a, w.q[n].inflight[i])
    BY <1>2, <2>1 DEF Good
  <2> QED  BY <1>1, <1>2, <2>2 DEF LeaseOk, Seen
<1>4. v = DropLease(y, n, h)
  BY DEF ReturnNow, Written
<1>5. Reshows(a, c, m, t)
  <2> HIDE DEF m
  <2> QED  BY <1>3, WriteShows
<1>6. Sound(u) /\ u.q = w.q /\ u.gone = w.gone
  <2> HIDE DEF m, e
  <2> QED  BY WriteKeeps
<1>7. Good(c)
  <2> HIDE DEF a, c, m
  <2> QED  BY <1>2, <1>5, ReshowsGood
<1>a. a.uuid = B /\ c.uuid = B /\ c.msg = u.msg /\ Len(u.msg) = Len(w.msg)
  <2> HIDE DEF a, c, m, u
  <2> QED  BY <1>2, <1>5 DEF Seen, Reshows
<1>b. u.uuid = B
  <2> HIDE DEF a, c, m, u
  <2> QED  BY <1>2, <1>a DEF Seen
<1>8. Sound(y) /\ y.q[n].inflight = u.q[n].inflight
  <2> HIDE DEF m, u
  <2> QED  BY <1>1, <1>6, RouteOrRequeueKeeps
<1>9. LeasedMsg(y, n, h) = m /\ h \in Handles(y.q[n].inflight)
  <2>1. y.q[n].inflight = w.q[n].inflight
    BY <1>6, <1>8
  <2> HIDE DEF y
  <2> QED  BY <2>1 DEF LeasedMsg, IndexOfHandle
<1>10. DroppedTo(y, n, h, v)
  <2> HIDE DEF y
  <2> QED  BY <1>4, <1>8, <1>9, DropPlaces
<1> HIDE DEF m, a, b, c, e, u
<1>11. Typed(u) /\ m \in 1 .. Len(u.msg) /\ Shape(u)
  BY <1>3, <1>6, <1>7, <1>a DEF Good, Typed, Sound
<1>12. ShouldRoute(u, n, m) <=> Routes(c, n, m)
  BY <1>2 DEF Seen, ShouldRoute, Routes
<1>13. CASE ShouldRoute(u, n, m)
  <2> DEFINE d == u.q[n].dlq
  <2>1. y = Route(u, n, m, t) /\ d # None
    BY <1>13 DEF ShouldRoute, RouteOrRequeue
  <2> HIDE DEF y
  <2>2. RoutedTo(u, n, m, y)
    BY <1>11, <2>1, RoutePlaces
  <2>3. /\ d \in Queues /\ SameRules(u, y)
        /\ SameHeap(u, y) /\ SameCounts(u, y)
        /\ y.gone = u.gone /\ y.uuid = u.uuid
        /\ \A k \in Queues : y.q[k].inflight = u.q[k].inflight
        /\ \A k \in Queues : k # d => y.q[k].messages = u.q[k].messages
        /\ y.q[d].messages = Append(u.q[d].messages, m)
    BY <2>2 DEF RoutedTo
  <2>4. PICK x \in LeaseSet(y.q[n].inflight) :
          /\ x.handle = h /\ x.m = m
          /\ LeaseSet(v.q[n].inflight) = LeaseSet(y.q[n].inflight) \ {x}
    BY <1>9, <1>10 DEF DroppedTo
  <2>5. /\ SameRules(y, v) /\ v.msg = y.msg /\ v.gone = y.gone /\ v.uuid = y.uuid
        /\ \A k \in Queues : v.q[k].messages = y.q[k].messages
        /\ \A k \in Queues : k # n => v.q[k].inflight = y.q[k].inflight
    BY <1>10 DEF DroppedTo
  <2>6. SameRules(u, v) /\ SameHeap(u, v) /\ SameCounts(u, v) /\ v.uuid = u.uuid
    <3>1. SameRules(u, v)
      BY <2>3, <2>5, RulesTrans
    <3> QED  BY <2>3, <2>5, <3>1 DEF SameHeap, SameCounts
  <2>7. Still(c, b)
    BY <2>6, SteadyWorlds DEF c, b, View
  <2>8. Ends(c, b, n, x, B)
    <3>1. c.l[n] = LeaseSet(y.q[n].inflight) /\ b.l[n] = LeaseSet(v.q[n].inflight)
      BY <1>2, <1>8 DEF Seen
    <3>2. \A k \in Queues : k # n => b.l[k] = c.l[k]
      <4> SUFFICES ASSUME NEW k \in Queues, k # n PROVE b.l[k] = c.l[k]
        OBVIOUS
      <4>1. c.l[k] = LeaseSet(u.q[k].inflight) /\ b.l[k] = LeaseSet(v.q[k].inflight)
        BY <1>2 DEF Seen
      <4>2. v.q[k].inflight = y.q[k].inflight /\ y.q[k].inflight = u.q[k].inflight
        BY <2>3, <2>5
      <4> QED  BY <4>1, <4>2
    <3>3. x.handle <= B
      BY <1>7, <1>a, <2>4, <3>1 DEF Good, LeaseOk
    <3> QED  BY <2>4, <3>1, <3>2, <3>3 DEF Ends, SameLeases
  <2>9. c.dlq[n] = d
    BY <1>2 DEF Seen
  <2>10. SamePending(c, b, {d}) /\ b.gone = c.gone
    <3>1. \A k \in Queues : k # d => b.p[k] = c.p[k]
      <4> SUFFICES ASSUME NEW k \in Queues, k # d PROVE b.p[k] = c.p[k]
        OBVIOUS
      <4>1. b.p[k] = v.q[k].messages /\ c.p[k] = u.q[k].messages
        BY <1>2 DEF Seen
      <4> QED  BY <2>3, <2>5, <4>1
    <3>2. b.gone = c.gone
      BY <1>2, <2>3, <2>5 DEF Seen
    <3> HIDE DEF d
    <3> QED  BY <3>1, <3>2 DEF SamePending
  <2>11. Tails(c, b, d, m)
    <3>1. u.q[d].messages \in Seq(Nat) /\ m \in Nat
      BY <1>1, <1>11, <2>3 DEF Shape, QShape
    <3>2. c.p[d] = u.q[d].messages /\ b.p[d] = v.q[d].messages
      BY <1>2, <2>3 DEF Seen
    <3>3. b.p[d] = Append(c.p[d], m)
      BY <2>3, <2>5, <3>2
    <3>4. Puts(c.p[d], Len(c.p[d]) + 1, m, Append(c.p[d], m))
      BY <3>1, <3>2, AppendPuts
    <3> QED  BY <3>3, <3>4 DEF Tails
  <2>12. Deads(c, b, n, B)
    <3>1. Routes(c, n, x.m)
      BY <1>12, <1>13, <2>4
    <3> HIDE DEF d
    <3> QED  BY <2>4, <2>7, <2>8, <2>9, <2>10, <2>11, <3>1 DEF Deads
  <2>13. 0 \in Int
    OBVIOUS
  <2>14. Deads(c, b, n, a.uuid)
    BY <1>a, <2>12
  <2>15. Returns(a, b, t)
    BY <1>5, <2>13, <2>14, Zenon DEF Returns
  <2> QED  BY <2>15 DEF a, b
<1>14. CASE ~ShouldRoute(u, n, m)
  <2> DEFINE z == u.q[n].messages
  <2>1. y = Requeue(u, n, m)
    BY <1>14 DEF RouteOrRequeue
  <2> HIDE DEF y
  <2>2. RequeuedTo(u, n, m, y)
    BY <1>1, <1>11, <2>1, RequeuePlaces
  <2>3. /\ SameRules(u, y) /\ y.msg = u.msg
        /\ y.gone = u.gone /\ y.uuid = u.uuid
        /\ \A k \in Queues : y.q[k].inflight = u.q[k].inflight
        /\ \A k \in Queues : k # n => y.q[k].messages = u.q[k].messages
        /\ \E j : /\ Puts(z, j, m, y.q[n].messages)
                  /\ IsFIFO(n) => j = SearchSeq(u, z, u.msg[m].seq) + 1
    BY <2>2 DEF RequeuedTo
  <2>4. PICK j : /\ Puts(z, j, m, y.q[n].messages)
                 /\ IsFIFO(n) => j = SearchSeq(u, z, u.msg[m].seq) + 1
    BY <2>3
  <2>5. PICK x \in LeaseSet(y.q[n].inflight) :
          /\ x.handle = h /\ x.m = m
          /\ LeaseSet(v.q[n].inflight) = LeaseSet(y.q[n].inflight) \ {x}
    BY <1>9, <1>10 DEF DroppedTo
  <2>6. /\ SameRules(y, v) /\ v.msg = y.msg /\ v.gone = y.gone /\ v.uuid = y.uuid
        /\ \A k \in Queues : v.q[k].messages = y.q[k].messages
        /\ \A k \in Queues : k # n => v.q[k].inflight = y.q[k].inflight
    BY <1>10 DEF DroppedTo
  <2>7. SameRules(u, v) /\ SameHeap(u, v) /\ SameCounts(u, v) /\ v.uuid = u.uuid
    <3>1. SameRules(u, v)
      BY <2>3, <2>6 DEF SameRules
    <3>2. IsSeq(u.msg) /\ v.msg = u.msg /\ v.uuid = u.uuid
      BY <1>11, <2>3, <2>6 DEF Shape
    <3> QED  BY <3>1, <3>2, HeapSelf
  <2>8. Still(c, b)
    BY <2>7, SteadyWorlds DEF c, b, View
  <2>9. c.l[n] = LeaseSet(y.q[n].inflight) /\ b.l[n] = LeaseSet(v.q[n].inflight)
    BY <1>2, <1>8 DEF Seen
  <2>10. LeaseOk(c, x)
    BY <1>7, <2>5, <2>9 DEF Good
  <2>11. Ends(c, b, n, x, B)
    <3>1. \A k \in Queues : k # n => b.l[k] = c.l[k]
      BY <1>2, <2>3, <2>6 DEF Seen
    <3>2. x.handle <= B
      BY <1>a, <2>10 DEF LeaseOk
    <3> QED  BY <2>5, <2>9, <3>1, <3>2 DEF Ends, SameLeases
  <2>12. SamePending(c, b, {n}) /\ b.gone = c.gone
    BY <1>2, <2>3, <2>6 DEF SamePending, Seen
  <2>13. c.p[n] = z /\ b.p[n] = y.q[n].messages
    BY <1>2, <2>6 DEF Seen
  <2>14. x.visibleAt \in Int /\ x.visibleAt < x.visibleAt + 1
    BY <2>10 DEF LeaseOk, Leases
  <2>15. ASSUME IsFIFO(n), Sorted(c, c.p[n]) PROVE Fits(c, c.p[n], j, m)
    <3>1. z \in Seq(Nat) /\ j = SearchSeq(u, z, u.msg[m].seq) + 1 /\ Len(z) \in Nat
      BY <1>11, <2>4, <2>15 DEF Shape, QShape
    <3>2. /\ \A k \in 1 .. Len(z) : z[k] \in 1 .. Len(u.msg)
          /\ \A k \in 1 .. Len(u.msg) : u.msg[k].seq \in Int
      <4>1. Elems(c.p[n]) \subseteq 1 .. Len(c.msg)
        BY <1>7 DEF Good
      <4>2. Elems(z) \subseteq 1 .. Len(u.msg)
        BY <1>a, <2>13, <4>1
      <4>3. \A k \in 1 .. Len(z) : z[k] \in 1 .. Len(u.msg)
        BY <4>2 DEF Elems
      <4> QED  BY <1>11, <4>3 DEF Typed, IsMessage
    <3>3. /\ \A k \in 1 .. Len(z) : u.msg[z[k]].seq \in Int
          /\ u.msg[m].seq \in Int
          /\ \A k, l \in 1 .. Len(z) : k < l => u.msg[z[k]].seq <= u.msg[z[l]].seq
      BY <1>11, <1>a, <2>13, <2>15, <3>2 DEF Sorted
    <3> DEFINE r == SearchSeq(u, z, u.msg[m].seq)
    <3>4. /\ \A k \in 1 .. r : u.msg[z[k]].seq <= u.msg[m].seq
          /\ \A k \in r + 1 .. Len(z) : u.msg[m].seq < u.msg[z[k]].seq
      <4> HIDE DEF z
      <4> QED  BY <3>1, <3>3, SearchSorted
    <3>5. r \in 0 .. Len(z)
      <4> HIDE DEF z
      <4> QED  BY <3>1, SearchRange
    <3> HIDE DEF r
    <3>6. j = r + 1 /\ j - 1 = r
      BY <3>1, <3>5 DEF r
    <3> QED  BY <1>a, <2>13, <3>4, <3>6 DEF Fits
  <2>16. Backs(c, b, n, x.visibleAt + 1, B)
    BY <1>12, <1>14, <2>4, <2>5, <2>8, <2>11, <2>12, <2>13, <2>14, <2>15 DEF Backs
  <2>17. x.visibleAt + 1 \in Int
    BY <2>14
  <2>18. Backs(c, b, n, x.visibleAt + 1, a.uuid)
    BY <1>a, <2>16
  <2>19. Returns(a, b, t)
    BY <1>5, <2>17, <2>18, Zenon DEF Returns
  <2> QED  BY <2>19 DEF a, b
<1> QED
  BY <1>13, <1>14

\* The same fields, the same view.
LEMMA ViewSame ==
  ASSUME NEW w, NEW v, v.msg = w.msg, v.gone = w.gone, v.uuid = w.uuid,
         \A k \in Queues : SameSlices(w.q[k], v.q[k])
  PROVE  View(v) = View(w)
<1>1. Slices(v) = Slices(w) /\ Lent(v) = Lent(w)
  BY DEF Slices, Lent, SameSlices
<1>2. Targets(v) = Targets(w) /\ Limits(v) = Limits(w)
  BY DEF Targets, Limits, SameSlices
<1>3. Counters(v) = Counters(w) /\ Lags(v) = Lags(w)
  BY DEF Counters, Lags, SameSlices
<1> QED
  BY <1>1, <1>2, <1>3 DEF View, At

\* A lease runs for longer or shorter.
Prolongs(a, b) ==
  \E n \in Queues :
    /\ Still(a, b) /\ SamePending(a, b, {}) /\ SameLeases(a, b, {n}) /\ b.gone = a.gone
    /\ \E x, y : /\ x \in a.l[n] /\ y \in Leases
                 /\ y.m = x.m /\ y.handle = x.handle /\ y.batch = x.batch
                 /\ b.l[n] = (a.l[n] \ {x}) \cup {y}

\* changeVisibility with a positive timeout.
LEMMA ExtendMove ==
  ASSUME NEW w, Sound(w), NEW n \in Queues, NEW h \in Handles(w.q[n].inflight),
         NEW vt \in Int, NEW t \in Int, NEW v, v = Extend(w, n, h, vt, t)
  PROVE  Prolongs(View(w), View(v))
<1> DEFINE s == w.q[n].inflight
           i == IndexOfHandle(w, n, h)
           e == [s[i] EXCEPT !.visibleAt = t + vt]
           r == [s EXCEPT ![i] = e]
           a == View(w)
           b == View(v)
<1>1. /\ DOMAIN w = {"msg", "q", "uuid", "gone"} /\ DOMAIN w.q = Queues
      /\ DOMAIN w.q[n] = QFields /\ s \in Seq(Leases) /\ Distinct(s) /\ IsSeq(w.msg)
  BY DEF Sound, Shape, QShape, Indexed
<1>2. i \in DOMAIN s
  BY LeaseAt
<1>3. v = [w EXCEPT !.q[n].inflight = r]
  BY <1>1 DEF Extend, QFields
<1> HIDE DEF s, i
<1>4. e \in Leases /\ e.m = s[i].m /\ e.handle = s[i].handle /\ e.batch = s[i].batch
  <2>1. s[i] \in Leases
    BY <1>1, <1>2
  <2> QED  BY <2>1 DEF Leases
<1> HIDE DEF e
<1>5. DOMAIN r = DOMAIN s /\ \A j \in DOMAIN s : r[j] = IF j = i THEN e ELSE s[j]
  BY <1>1, <1>2
<1> HIDE DEF r
<1>6. /\ v.msg = w.msg /\ v.gone = w.gone /\ v.uuid = w.uuid
      /\ \A k \in Queues : k # n => v.q[k] = w.q[k]
      /\ v.q[n].messages = w.q[n].messages /\ v.q[n].inflight = r
      /\ v.q[n].dlq = w.q[n].dlq /\ v.q[n].maxRC = w.q[n].maxRC
      /\ v.q[n].seqCtr = w.q[n].seqCtr /\ v.q[n].delay = w.q[n].delay
  BY <1>1, <1>3 DEF QFields
<1>7. SameRules(w, v)
  BY <1>6 DEF SameRules
<1>8. SameHeap(w, v) /\ SameCounts(w, v)
  BY <1>1, <1>6, HeapSelf
<1>9. Still(a, b)
  BY <1>6, <1>7, <1>8, SteadyWorlds DEF View
<1>10. Seen(a, w) /\ Seen(b, v)
  BY ViewFields
<1> HIDE DEF a, b
<1>11. LeaseSet(r) = (LeaseSet(s) \ {s[i]}) \cup {e}
  <2>1. \A j \in DOMAIN s : s[j] = s[i] => j = i
    BY <1>1, <1>2 DEF Distinct
  <2> QED  BY <1>2, <1>5, <2>1 DEF LeaseSet
<1>12. s[i] \in LeaseSet(s)
  BY <1>2 DEF LeaseSet
<1>13. a.l[n] = LeaseSet(s) /\ b.l[n] = LeaseSet(r)
  BY <1>6, <1>10 DEF Seen, s
<1>14. SamePending(a, b, {}) /\ SameLeases(a, b, {n}) /\ b.gone = a.gone
  BY <1>6, <1>10 DEF Seen, SamePending, SameLeases
<1>15. \E x, y : /\ x \in a.l[n] /\ y \in Leases
                 /\ y.m = x.m /\ y.handle = x.handle /\ y.batch = x.batch
                 /\ b.l[n] = (a.l[n] \ {x}) \cup {y}
  BY <1>4, <1>11, <1>12, <1>13
<1>16. Prolongs(a, b)
  BY <1>9, <1>14, <1>15 DEF Prolongs
<1> QED
  BY <1>16 DEF a, b

\* A queue is emptied.
Empties(a, b) ==
  \E n \in Queues :
    /\ Still(a, b) /\ SamePending(a, b, {n}) /\ SameLeases(a, b, {n})
    /\ b.p[n] = <<>> /\ b.l[n] = {}
    /\ b.gone = a.gone \cup Elems(a.p[n]) \cup {x.m : x \in a.l[n]}

\* The policies and delays of the queues are set.
Retunes(a, b) ==
  /\ SamePending(a, b, {}) /\ SameLeases(a, b, {}) /\ b.msg = a.msg
  /\ b.gone = a.gone /\ b.uuid = a.uuid
  /\ \A k \in Queues :
       /\ b.ctr[k] = a.ctr[k] /\ (b.lag[k] = a.lag[k] \/ b.lag[k] \in Delays)
       /\ \/ b.dlq[k] = a.dlq[k] /\ b.max[k] = a.max[k]
          \/ b.dlq[k] = None
          \/ \E p \in Redrives : p[1] = k /\ p[2] = b.dlq[k] /\ p[3] = b.max[k]

\* Message e, the next one, goes to the tail of queue n.
Accepts(a, b, n, e) ==
  /\ SamePending(a, b, {n}) /\ SameLeases(a, b, {}) /\ b.gone = a.gone /\ b.uuid = a.uuid
  /\ Tails(a, b, n, Len(a.msg) + 1)
  /\ IsSeq(b.msg) /\ Len(b.msg) = Len(a.msg) + 1 /\ b.msg[Len(a.msg) + 1] = e
  /\ \A k \in 1 .. Len(a.msg) : b.msg[k] = a.msg[k]
  /\ \A k \in Queues : /\ b.dlq[k] = a.dlq[k] /\ b.max[k] = a.max[k] /\ b.lag[k] = a.lag[k]
                       /\ k # n => b.ctr[k] = a.ctr[k]
  /\ b.ctr[n] = e.seq
  /\ IsMessage(e) /\ e.home = n /\ e.rc = 0
  /\ IsFIFO(n) => /\ e.seq = a.ctr[n] + 1 /\ e.group # None
                  /\ a.lag[n] = 0 => e.visibleAt = 0

\* The tail of sendMessageLocked accepts a message.
LEMMA EnqueueMove ==
  ASSUME NEW w, Sound(w), Good(View(w)), NEW n \in Queues, NEW g, NEW d, NEW delay \in Nat,
         NEW t \in Int, IsFIFO(n) => g # None /\ delay = 0,
         NEW v, v = Enqueue(w, n, g, d, delay, t)
  PROVE  \E e : Accepts(View(w), View(v), n, e)
<1> DEFINE q == w.q[n]
           m == Len(w.msg) + 1
           seq == IF IsFIFO(n) THEN q.seqCtr + 1 ELSE 0
           vis == VisibleAt(q, delay, t)
           epoch == q.purges
           at == IF IsFIFO(n) THEN now ELSE 0
           boot == IF IsFIFO(n) THEN restarts ELSE 0
           e == [home |-> n, group |-> g, dedup |-> d, seq |-> seq,
                 sent |-> t, visibleAt |-> vis, rc |-> 0,
                 handle |-> 0, epoch |-> epoch, at |-> at, boot |-> boot]
           dd == IF IsFIFO(n)
                 THEN EvictOldest({x \in q.dedup : x.key # DedupKey(g, d)})
                        \cup {DedupEntry(g, d, t, m)}
                 ELSE q.dedup
           late == IF t < vis THEN 1 ELSE 0
           r == [q EXCEPT !.seqCtr = seq, !.dedup = dd, !.delayed = @ + late,
                          !.messages = Append(@, m), !.active = TRUE]
           a == View(w)
           b == View(v)
<1>1. /\ DOMAIN w = {"msg", "q", "uuid", "gone"} /\ DOMAIN w.q = Queues
      /\ DOMAIN q = QFields /\ IsSeq(w.msg) /\ q.messages \in Seq(Nat)
  BY DEF Sound, Shape, QShape
<1>2. v = Sent(w, n, e, r)
  BY Zenon DEF Enqueue, Sent
<1>3. Seen(a, w) /\ Seen(b, v) /\ Good(a)
  BY ViewFields
<1>4. q.seqCtr \in Nat /\ q.delay \in Nat
  <2>1. a.ctr[n] = q.seqCtr /\ a.lag[n] = q.delay
    BY <1>3 DEF Seen
  <2> HIDE DEF a
  <2> QED  BY <1>3, <2>1 DEF Good
<1>5. /\ seq \in Nat /\ (IsFIFO(n) => seq = q.seqCtr + 1)
  BY <1>4
<1>6. vis \in Int /\ (delay = 0 /\ q.delay = 0 => vis = 0)
  BY <1>4 DEF VisibleAt
<1> HIDE DEF seq, vis, epoch, at, boot, dd, late
<1>7. /\ IsMessage(e) /\ e.home = n /\ e.rc = 0 /\ e.seq = seq /\ e.group = g
      /\ e.visibleAt = vis
  BY <1>5, <1>6 DEF IsMessage, MFields
<1> HIDE DEF e
<1>8. /\ r.messages = Append(q.messages, m) /\ r.inflight = q.inflight
      /\ r.dlq = q.dlq /\ r.maxRC = q.maxRC /\ r.delay = q.delay /\ r.seqCtr = seq
  BY <1>1 DEF QFields
<1> HIDE DEF r
<1>9. /\ v.msg = Append(w.msg, e) /\ v.q[n] = r /\ v.uuid = w.uuid /\ v.gone = w.gone
      /\ \A k \in Queues : k # n => v.q[k] = w.q[k]
  BY <1>1, <1>2 DEF Sent
<1>10. /\ IsSeq(v.msg) /\ Len(v.msg) = m /\ v.msg[m] = e /\ m \in Nat
       /\ \A k \in 1 .. Len(w.msg) : v.msg[k] = w.msg[k]
  <2>1. PICK S : w.msg \in Seq(S)
    BY <1>1 DEF IsSeq
  <2>2. w.msg \in Seq(S \cup {e})
    BY <2>1
  <2>3. /\ v.msg \in Seq(S \cup {e}) /\ Len(v.msg) = m /\ v.msg[m] = e /\ m \in Nat
        /\ \A k \in 1 .. Len(w.msg) : v.msg[k] = w.msg[k]
    BY <1>9, <2>2
  <2>4. IsSeq(v.msg)
    BY <2>3 DEF IsSeq
  <2> QED  BY <2>3, <2>4
<1> HIDE DEF a, b, q, m
<1>11. /\ SamePending(a, b, {n}) /\ SameLeases(a, b, {}) /\ b.gone = a.gone /\ b.uuid = a.uuid
       /\ a.msg = w.msg /\ b.msg = v.msg
  BY <1>3, <1>8, <1>9 DEF Seen, SamePending, SameLeases, q
<1>12. Tails(a, b, n, Len(a.msg) + 1)
  <2>1. a.p[n] = q.messages /\ b.p[n] = Append(q.messages, m)
    BY <1>3, <1>8, <1>9 DEF Seen, q
  <2>2. Puts(q.messages, Len(q.messages) + 1, m, Append(q.messages, m))
    BY <1>1, <1>10, AppendPuts
  <2> QED  BY <1>11, <2>1, <2>2 DEF Tails, m
<1>13. /\ \A k \in Queues : /\ b.dlq[k] = a.dlq[k] /\ b.max[k] = a.max[k] /\ b.lag[k] = a.lag[k]
                            /\ k # n => b.ctr[k] = a.ctr[k]
       /\ b.ctr[n] = seq /\ a.ctr[n] = q.seqCtr /\ a.lag[n] = q.delay
  <2>1. ASSUME NEW k \in Queues
        PROVE  /\ a.dlq[k] = w.q[k].dlq /\ a.max[k] = w.q[k].maxRC
               /\ a.ctr[k] = w.q[k].seqCtr /\ a.lag[k] = w.q[k].delay
               /\ b.dlq[k] = v.q[k].dlq /\ b.max[k] = v.q[k].maxRC
               /\ b.ctr[k] = v.q[k].seqCtr /\ b.lag[k] = v.q[k].delay
    BY <1>3 DEF Seen
  <2>2. /\ v.q[n].dlq = w.q[n].dlq /\ v.q[n].maxRC = w.q[n].maxRC
        /\ v.q[n].seqCtr = seq /\ v.q[n].delay = w.q[n].delay
    BY <1>8, <1>9 DEF q
  <2>3. \A k \in Queues : k # n => v.q[k] = w.q[k]
    BY <1>9
  <2>4. w.q[n] = q
    BY DEF q
  <2> QED  BY <2>1, <2>2, <2>3, <2>4
<1>14. IsFIFO(n) => /\ e.seq = a.ctr[n] + 1 /\ e.group # None
                    /\ a.lag[n] = 0 => e.visibleAt = 0
  BY <1>5, <1>6, <1>7, <1>13
<1>15. Accepts(a, b, n, e)
  BY <1>7, <1>10, <1>11, <1>12, <1>13, <1>14 DEF Accepts, m
<1> QED
  BY <1>15 DEF a, b

\* A send is refused, a duplicate, or accepted.
LEMMA SendMove ==
  ASSUME NEW w, Sound(w), Good(View(w)), NEW n \in Queues, NEW g, NEW d, NEW delay \in Nat,
         NEW t \in Int, IsFIFO(n) => g # None /\ delay = 0,
         NEW v, v = SendLocked(w, n, g, d, delay, t)
  PROVE  View(v) = View(w) \/ \E e : Accepts(View(w), View(v), n, e)
<1> DEFINE q == w.q[n]
           recent == RecentSends(q, g, t)
           limited == n \in RateLimited /\ Len(recent) >= FifoTPS
           y == IF limited THEN recent ELSE Append(recent, t)
           z == [w EXCEPT !.q[n].sends[g] = y]
           counted == IF n \notin RateLimited THEN w ELSE z
           duplicate == LiveDedup(q, DedupKey(g, d), t) # {}
           x == [w.q[n].sends EXCEPT ![g] = y]
<1>1. \/ v = Enqueue(w, n, g, d, delay, t)
      \/ v = counted
      \/ v = Enqueue(counted, n, g, d, delay, t)
  BY Zenon DEF SendLocked
<1>2. /\ DOMAIN w = {"msg", "q", "uuid", "gone"} /\ DOMAIN w.q = Queues
      /\ DOMAIN q = QFields
  BY DEF Sound, Shape, QShape
<1> HIDE DEF y
<1>3. z = [w EXCEPT !.q[n].sends = x]
  OBVIOUS
<1> HIDE DEF x, z
<1>4. Sound(z)
  <2>1. Sound([w EXCEPT !.q[n].sends = x])
    BY FieldKeeps, Zenon
  <2> QED  BY <1>3, <2>1, Zenon
<1>5. View(z) = View(w)
  <2>1. /\ z.msg = w.msg /\ z.gone = w.gone /\ z.uuid = w.uuid
        /\ \A k \in Queues : SameSlices(w.q[k], z.q[k])
    BY <1>2, <1>3 DEF QFields, SameSlices
  <2> QED  BY <2>1, ViewSame
<1>6. Sound(counted) /\ View(counted) = View(w)
  BY <1>4, <1>5
<1> HIDE DEF counted
<1>7. CASE v = counted
  BY <1>6, <1>7
<1>8. CASE v = Enqueue(w, n, g, d, delay, t)
  BY <1>8, EnqueueMove
<1>9. CASE v = Enqueue(counted, n, g, d, delay, t)
  <2>1. Good(View(counted))
    BY <1>6
  <2>2. \E e : Accepts(View(counted), View(v), n, e)
    BY <1>6, <1>9, <2>1, EnqueueMove
  <2> QED  BY <1>6, <2>2
<1> QED
  BY <1>1, <1>7, <1>8, <1>9

-----------------------------------------------------------------------------
(* What one step does to the places.                                       *)

\* The places of the state.
Here == View(World)

\* The ways from places a to places b in second s: the moves of one queue,
\* which hand out messages with the clock of now only; the drains; a lease
\* that is given up or extended; a purge; new attributes; a new message.
Step(a, b, s) ==
  \/ \E n \in Queues, t \in Int :
       /\ Chain(a, b, t, a.uuid, {n})
       /\ b.uuid = a.uuid \/ (t = s /\ b.uuid <= MaxHandles)
  \/ \E t : Chain(a, b, t, a.uuid, Queues) /\ b.uuid = a.uuid
  \/ Returns(a, b, s) \/ Prolongs(a, b) \/ Empties(a, b) \/ Retunes(a, b)
  \/ Len(a.msg) < MaxMsgs /\ \E n \in Queues : \E e : Accepts(a, b, n, e)

\* The places an operation leaves are those of the next state.
LEMMA BecomeView ==
  ASSUME NEW v, Become(v)
  PROVE  Here' = View(v)
<1> DEFINE u == [msg |-> v.msg, q |-> v.q, uuid |-> v.uuid, gone |-> v.gone]
<1>1. World' = u
  BY DEF Become, World
<1>2. /\ u.msg = v.msg /\ u.q = v.q /\ u.uuid = v.uuid /\ u.gone = v.gone
  OBVIOUS
<1> HIDE DEF u
<1>3. View(u) = View(v)
  BY <1>2, ViewSame DEF SameSlices
<1> QED
  BY <1>1, <1>3 DEF Here

\* The fields of the places.
LEMMA HereFields == Seen(Here, World) /\ Here.uuid = uuid
<1>1. Seen(View(World), World)
  BY ViewFields
<1> QED
  BY <1>1, WorldFields DEF Here, Seen

\* A queue whose slices stay has the same places.
LEMMA TunedQueue ==
  ASSUME NEW n \in Queues, NEW r, NEW w, Shape(w), NEW v,
         v.msg = w.msg, v.gone = w.gone, v.uuid = w.uuid,
         v.q = [w.q EXCEPT ![n] = r],
         r.messages = w.q[n].messages, r.inflight = w.q[n].inflight,
         r.seqCtr = w.q[n].seqCtr, r.delay = w.q[n].delay \/ r.delay \in Delays,
         \/ r.dlq = w.q[n].dlq /\ r.maxRC = w.q[n].maxRC
         \/ r.dlq = None
         \/ \E p \in Redrives : p[1] = n /\ p[2] = r.dlq /\ p[3] = r.maxRC
  PROVE  Retunes(View(w), View(v))
<1> DEFINE a == View(w)
           b == View(v)
<1>1. Seen(a, w) /\ Seen(b, v)
  BY ViewFields
<1>2. v.q[n] = r /\ \A k \in Queues : k # n => v.q[k] = w.q[k]
  BY DEF Shape
<1> HIDE DEF a, b
<1>3. SamePending(a, b, {}) /\ SameLeases(a, b, {})
  BY <1>1, <1>2 DEF Seen, SamePending, SameLeases
<1>4. b.msg = a.msg /\ b.gone = a.gone /\ b.uuid = a.uuid
  BY <1>1 DEF Seen
<1>5. ASSUME NEW k \in Queues
      PROVE  /\ b.ctr[k] = a.ctr[k] /\ (b.lag[k] = a.lag[k] \/ b.lag[k] \in Delays)
             /\ \/ b.dlq[k] = a.dlq[k] /\ b.max[k] = a.max[k]
                \/ b.dlq[k] = None
                \/ \E p \in Redrives : p[1] = k /\ p[2] = b.dlq[k] /\ p[3] = b.max[k]
  <2>1. CASE k # n
    BY <1>1, <1>2, <2>1 DEF Seen
  <2>2. CASE k = n
    BY <1>1, <1>2, <2>2 DEF Seen
  <2> QED  BY <2>1, <2>2
<1>6. Retunes(a, b)
  BY <1>3, <1>4, <1>5 DEF Retunes
<1> QED
  BY <1>6 DEF a, b

\* A queue that is emptied.
LEMMA EmptiedQueue ==
  ASSUME NEW n \in Queues, NEW r, NEW w, Shape(w), NEW v,
         v.msg = w.msg, v.uuid = w.uuid, v.q = [w.q EXCEPT ![n] = r],
         r.messages = <<>>, r.inflight = <<>>, r.seqCtr = w.q[n].seqCtr,
         r.delay = w.q[n].delay, r.dlq = w.q[n].dlq, r.maxRC = w.q[n].maxRC,
         v.gone = w.gone \cup ToSet(w.q[n].messages)
                         \cup {inf.m : inf \in ToSet(w.q[n].inflight)}
  PROVE  Empties(View(w), View(v))
<1> DEFINE a == View(w)
           b == View(v)
<1>1. Seen(a, w) /\ Seen(b, v)
  BY ViewFields
<1>2. v.q[n] = r /\ \A k \in Queues : k # n => v.q[k] = w.q[k]
  BY DEF Shape
<1>3. SameRules(w, v)
  BY <1>2 DEF SameRules
<1>4. SameHeap(w, v) /\ SameCounts(w, v)
  BY HeapSelf DEF Shape
<1>5. Still(a, b)
  BY <1>3, <1>4, SteadyWorlds DEF View
<1> HIDE DEF a, b
<1>6. SamePending(a, b, {n}) /\ SameLeases(a, b, {n})
  BY <1>1, <1>2 DEF Seen, SamePending, SameLeases
<1>7. b.p[n] = <<>> /\ b.l[n] = {}
  BY <1>1, <1>2 DEF Seen, LeaseSet
<1>8. b.gone = a.gone \cup Elems(a.p[n]) \cup {x.m : x \in a.l[n]}
  <2>1. w.q[n].messages \in Seq(Nat)
    BY DEF Shape, QShape
  <2>2. ToSet(w.q[n].messages) = Elems(a.p[n])
    BY <1>1, <2>1 DEF Seen, ToSet, Elems
  <2>3. ToSet(w.q[n].inflight) = a.l[n]
    BY <1>1 DEF Seen, ToSet, LeaseSet
  <2> QED  BY <1>1, <2>2, <2>3 DEF Seen
<1>9. Empties(a, b)
  BY <1>5, <1>6, <1>7, <1>8 DEF Empties
<1> QED
  BY <1>9 DEF a, b

\* The places a snapshot restores are those it was taken of.
LEMMA RebornView ==
  ASSUME NEW w, Sound(w), NEW t
  PROVE  View([w EXCEPT !.q = [n \in Queues |-> Restored(w.q[n], t)]]) = View(w)
<1> DEFINE v == [w EXCEPT !.q = [n \in Queues |-> Restored(w.q[n], t)]]
<1>1. DOMAIN w = {"msg", "q", "uuid", "gone"} /\ \A k \in Queues : DOMAIN w.q[k] = QFields
  BY DEF Sound, Shape, QShape
<1>2. /\ v.msg = w.msg /\ v.uuid = w.uuid /\ v.gone = w.gone
      /\ \A k \in Queues : v.q[k] = Restored(w.q[k], t)
  BY <1>1
<1> HIDE DEF v
<1>3. ASSUME NEW k \in Queues PROVE SameSlices(w.q[k], v.q[k])
  <2> DEFINE q == w.q[k]
             r == Restored(q, t)
  <2>1. DOMAIN q = QFields
    BY <1>1
  <2> HIDE DEF q
  <2>2. SameSlices(q, r)
    BY <2>1 DEF Restored, QFields, SameSlices
  <2> QED  BY <1>2, <2>2 DEF q
<1>4. View(v) = View(w)
  BY <1>2, <1>3, ViewSame
<1> QED
  BY <1>4 DEF v

\* A queue that moves along a chain, or not at all, takes a step.
LEMMA AdvancedStep ==
  ASSUME NEW w, NEW v, NEW n \in Queues, NEW t \in Int, NEW max \in Nat, NEW s,
         Advanced(w, v, n, t, max), max = 0 \/ (t = s /\ w.uuid + max <= MaxHandles)
  PROVE  Step(View(w), View(v), s)
<1>1. Seen(View(w), w) /\ Seen(View(v), v)
  BY ViewFields
<1>2. View(w).uuid = w.uuid /\ View(v).uuid = v.uuid
  BY <1>1 DEF Seen
<1>3. v.uuid = w.uuid \/ (t = s /\ v.uuid <= MaxHandles)
  <2>1. w.uuid \in Nat /\ v.uuid \in Nat /\ w.uuid <= v.uuid /\ v.uuid <= w.uuid + max
    BY DEF Advanced
  <2>2. MaxHandles \in Nat
    BY NumbersAssumption
  <2> QED  BY <2>1, <2>2
<1>4. Chain(View(w), View(v), t, View(w).uuid, {n})
  BY <1>2 DEF Advanced
<1> QED
  BY <1>2, <1>3, <1>4 DEF Step

\* Nothing moves.
LEMMA IdleStep ==
  ASSUME NEW a, NEW s
  PROVE  Step(a, a, s)
<1>1. Chain(a, a, 0, a.uuid, Queues)
  BY ChainSelf
<1> QED
  BY <1>1 DEF Step

\* Every step of the queues is one of the ways the places may change.
LEMMA StepViews ==
  ASSUME QueueInv, Good(Here), [Next]_vars
  PROVE  Step(Here, Here', now)
<1> DEFINE w == World
           a == View(w)
<1>0. /\ Sound(w) /\ now \in Nat /\ (draining # None => draining[1] \in Queues)
      /\ w.msg = msg /\ w.q = queues /\ w.uuid = uuid /\ w.gone = gone
      /\ Good(View(w)) /\ Here = a /\ now \in Int /\ Shape(w)
  BY WorldFields DEF QueueInv, Here, Sound
<1>1. /\ DOMAIN queues = Queues
      /\ \A n \in Queues : DOMAIN queues[n] = QFields
  BY <1>0 DEF Sound, Shape, QShape
<1>2. \A t \in Clocks : t \in Int
  BY DEF Clocks
<1>3. \A n \in Queues : {inf.handle : inf \in ToSet(queues[n].inflight)}
                          = Handles(w.q[n].inflight)
  BY <1>0 DEF ToSet, Handles
<1>s. a.uuid = w.uuid /\ w.uuid \in Nat
  <2>1. Seen(a, w) /\ Good(a)
    BY <1>0, ViewFields
  <2> HIDE DEF a
  <2> QED  BY <2>1 DEF Seen, Good
<1>k. World' = [msg |-> msg', q |-> queues', uuid |-> uuid', gone |-> gone']
  BY DEF World
<1>4. CASE SendStandard
  <2>1. PICK n \in Sources \ FifoQueues, delay \in Delays, t \in Clocks :
          SendMessage(n, None, None, delay, t)
    BY <1>4 DEF SendStandard
  <2>2. n \in Queues /\ ~IsFIFO(n) /\ delay \in Nat /\ t \in Int
    BY <1>2, SetsAssumption, NumbersAssumption DEF IsFIFO
  <2> DEFINE v == SendLocked(w, n, None, None, delay, t)
  <2>3. Become(v) /\ Len(msg) < MaxMsgs
    BY <2>1 DEF SendMessage
  <2>4. Here' = View(v)
    <3> HIDE DEF v
    <3> QED  BY <2>3, BecomeView
  <2> HIDE DEF w
  <2>5. View(v) = View(w) \/ \E e : Accepts(View(w), View(v), n, e)
    BY <1>0, <2>2, SendMove
  <2>6. Len(View(w).msg) < MaxMsgs
    BY <1>0, <2>3, ViewFields DEF Seen
  <2> HIDE DEF v, a
  <2> QED  BY <1>0, <2>2, <2>4, <2>5, <2>6, IdleStep DEF Step, a
<1>5. CASE SendFIFO
  <2>1. PICK n \in Sources \cap FifoQueues, g \in Groups, d \in DedupIds, t \in Clocks :
          SendMessage(n, g, d, 0, t)
    BY <1>5 DEF SendFIFO
  <2>2. n \in Queues /\ g # None /\ 0 \in Nat /\ t \in Int
    BY <1>2, SetsAssumption
  <2> DEFINE v == SendLocked(w, n, g, d, 0, t)
  <2>3. Become(v) /\ Len(msg) < MaxMsgs
    BY <2>1 DEF SendMessage
  <2>4. Here' = View(v)
    <3> HIDE DEF v
    <3> QED  BY <2>3, BecomeView
  <2> HIDE DEF w
  <2>5. View(v) = View(w) \/ \E e : Accepts(View(w), View(v), n, e)
    BY <1>0, <2>2, SendMove
  <2>6. Len(View(w).msg) < MaxMsgs
    BY <1>0, <2>3, ViewFields DEF Seen
  <2> HIDE DEF v, a
  <2> QED  BY <1>0, <2>2, <2>4, <2>5, <2>6, IdleStep DEF Step, a
<1>6. CASE Receive
  <2>1. PICK n \in Queues, max \in BatchSizes, vt \in Timeouts,
             att \in AttemptIds \cup {None} : ReceiveMessage(n, max, vt, att)
    BY <1>6 DEF Receive
  <2>2. max \in Nat /\ vt \in Int
    BY NumbersAssumption
  <2> DEFINE v == ReceiveOnce(w, n, max, vt, att, now)
  <2>3. Become(v) /\ uuid + max <= MaxHandles
    BY <2>1 DEF ReceiveMessage
  <2>4. Here' = View(v)
    <3> HIDE DEF v
    <3> QED  BY <2>3, BecomeView
  <2> HIDE DEF w
  <2>5. Advanced(w, v, n, now, max)
    BY <1>0, <2>2, ReceiveChain
  <2> HIDE DEF v
  <2>6. Step(View(w), View(v), now)
    BY <1>0, <2>2, <2>3, <2>5, AdvancedStep
  <2> QED  BY <1>0, <2>4, <2>6
<1>7. CASE Delete
  <2>1. PICK n \in Queues : \E h \in queues[n].byHandle : DeleteMessage(n, h)
    BY <1>7 DEF Delete
  <2>2. PICK h \in queues[n].byHandle : DeleteMessage(n, h)
    BY <2>1
  <2>3. h \in Handles(w.q[n].inflight)
    BY <1>0 DEF Sound, Indexed
  <2> DEFINE g == w.gone \cup {LeasedMsg(w, n, h)}
             v == [DropLease(w, n, h) EXCEPT !.gone = g]
  <2>4. Become(v)
    <3>1. DropLease(w, n, h).gone = w.gone
      BY <1>0 DEF DropLease, World
    <3>2. [DropLease(w, n, h) EXCEPT !.gone = @ \cup {LeasedMsg(w, n, h)}] = v
      BY <3>1
    <3> QED  BY <2>2, <3>2 DEF DeleteMessage
  <2>5. Here' = View(v)
    <3> HIDE DEF v
    <3> QED  BY <2>4, BecomeView
  <2> HIDE DEF w
  <2>6. Drops(View(w), View(v), n, w.uuid)
    BY <1>0, <2>3, DeleteMove
  <2>a. v.uuid = w.uuid
    <3>1. Seen(View(w), w) /\ Seen(View(v), v) /\ Still(View(w), View(v))
      BY <2>6, ViewFields DEF Drops
    <3> HIDE DEF v
    <3> QED  BY <3>1 DEF Seen, Still
  <2> HIDE DEF v
  <2>7. Move(View(w), View(v), n, 0, w.uuid, {n})
    BY <2>6 DEF Move
  <2>8. Chain(View(w), View(v), 0, w.uuid, {n})
    BY <2>7, ChainOne
  <2>9. View(v).uuid = w.uuid
    <3>1. Seen(View(v), v)
      BY ViewFields
    <3> QED  BY <2>a, <3>1 DEF Seen
  <2> HIDE DEF a
  <2>10. Chain(a, View(v), 0, a.uuid, {n}) /\ View(v).uuid = a.uuid
    BY <1>s, <2>8, <2>9 DEF a
  <2>11. \E t \in Int : Chain(a, View(v), t, a.uuid, {n}) /\ View(v).uuid = a.uuid
    BY <2>10
  <2> QED  BY <1>0, <2>5, <2>11 DEF Step
<1>8. CASE ChangeVisibility
  <2>1. PICK n \in Queues, vt \in Timeouts \cup {0} :
          \E h \in {inf.handle : inf \in ToSet(queues[n].inflight)} :
            ChangeMessageVisibility(n, h, vt)
    BY <1>8 DEF ChangeVisibility
  <2>2. PICK h \in Handles(w.q[n].inflight) : ChangeMessageVisibility(n, h, vt)
    BY <2>1, <1>3
  <2>3. vt \in Int
    BY NumbersAssumption
  <2> DEFINE x == ReturnNow(w, n, h, now)
             y == Extend(w, n, h, vt, now)
             v == IF vt = 0 THEN x ELSE y
  <2>4. Become(v)
    BY <2>2 DEF ChangeMessageVisibility
  <2>5. Here' = View(v)
    <3> HIDE DEF v
    <3> QED  BY <2>4, BecomeView
  <2> HIDE DEF w
  <2>6. Returns(View(w), View(x), now)
    BY <1>0, ReturnMove
  <2>7. Prolongs(View(w), View(y))
    BY <1>0, <2>3, ExtendMove
  <2>8. v = x \/ v = y
    OBVIOUS
  <2> HIDE DEF v, x, y, a
  <2>9. Returns(a, View(v), now) \/ Prolongs(a, View(v))
    BY <2>6, <2>7, <2>8 DEF a
  <2> QED  BY <1>0, <2>5, <2>9 DEF Step
<1>9. CASE \E n \in Queues : PurgeQueue(n)
  <2>1. PICK n \in Queues : PurgeQueue(n)
    BY <1>9
  <2> DEFINE r == queues'[n]
             v == World'
  <2>2. /\ queues' = [queues EXCEPT ![n] = r]
        /\ r.messages = <<>> /\ r.inflight = <<>> /\ r.dlq = queues[n].dlq
        /\ r.maxRC = queues[n].maxRC /\ r.seqCtr = queues[n].seqCtr
        /\ r.delay = queues[n].delay
    BY <1>1, <2>1 DEF PurgeQueue, QFields
  <2>3. /\ msg' = msg /\ uuid' = uuid
        /\ gone' = gone \cup ToSet(queues[n].messages)
                        \cup {inf.m : inf \in ToSet(queues[n].inflight)}
    BY <2>1 DEF PurgeQueue
  <2> HIDE DEF r
  <2>4. /\ v.msg = w.msg /\ v.uuid = w.uuid /\ v.q = [w.q EXCEPT ![n] = r]
        /\ v.gone = w.gone \cup ToSet(w.q[n].messages)
                          \cup {inf.m : inf \in ToSet(w.q[n].inflight)}
    BY <1>0, <1>k, <2>2, <2>3
  <2>5. Empties(View(w), View(v))
    <3> HIDE DEF w, v
    <3> QED  BY <1>0, <2>2, <2>4, EmptiedQueue
  <2>6. Here' = View(v)
    BY DEF Here
  <2> HIDE DEF v, w, a
  <2>7. Empties(a, View(v))
    BY <2>5 DEF a
  <2> QED  BY <1>0, <2>6, <2>7 DEF Step
<1>10. CASE \E n \in Sources, delay \in Delays : SetDelay(n, delay)
  <2>1. PICK n \in Sources, delay \in Delays : SetDelay(n, delay)
    BY <1>10
  <2>2. n \in Queues
    BY SetsAssumption
  <2> DEFINE r == [queues[n] EXCEPT !.delay = delay]
             v == World'
  <2>3. /\ queues' = [queues EXCEPT ![n] = r]
        /\ msg' = msg /\ uuid' = uuid /\ gone' = gone
    BY <2>1 DEF SetDelay
  <2>4. /\ r.messages = queues[n].messages /\ r.inflight = queues[n].inflight
        /\ r.dlq = queues[n].dlq /\ r.maxRC = queues[n].maxRC
        /\ r.seqCtr = queues[n].seqCtr /\ r.delay \in Delays
    BY <1>1, <2>2 DEF QFields
  <2> HIDE DEF r
  <2>5. /\ v.msg = w.msg /\ v.uuid = w.uuid /\ v.gone = w.gone
        /\ v.q = [w.q EXCEPT ![n] = r]
    BY <1>0, <1>k, <2>3
  <2>6. Retunes(View(w), View(v))
    <3> HIDE DEF w, v
    <3> QED  BY <1>0, <2>2, <2>4, <2>5, TunedQueue
  <2>7. Here' = View(v)
    BY DEF Here
  <2> HIDE DEF v, w, a
  <2>8. Retunes(a, View(v))
    BY <2>6 DEF a
  <2> QED  BY <1>0, <2>7, <2>8 DEF Step
<1>11. CASE \E p \in Redrives : ApplyRedrivePolicy(p)
  <2>1. PICK p \in Redrives : ApplyRedrivePolicy(p)
    BY <1>11
  <2> DEFINE n == p[1]
             r == [queues[n] EXCEPT !.maxRC = p[3], !.dlq = p[2]]
             v == World'
  <2>2. n \in Queues
    BY PolicyAssumption
  <2>3. /\ queues' = [queues EXCEPT ![n] = r]
        /\ msg' = msg /\ uuid' = uuid /\ gone' = gone
    BY <1>1, <2>1, <2>2 DEF ApplyRedrivePolicy, QFields
  <2>4. /\ r.messages = queues[n].messages /\ r.inflight = queues[n].inflight
        /\ r.dlq = p[2] /\ r.maxRC = p[3]
        /\ r.seqCtr = queues[n].seqCtr /\ r.delay = queues[n].delay
    BY <1>1, <2>2 DEF QFields
  <2>a. \E x \in Redrives : x[1] = n /\ x[2] = r.dlq /\ x[3] = r.maxRC
    BY <2>4
  <2> HIDE DEF r, n
  <2>5. /\ v.msg = w.msg /\ v.uuid = w.uuid /\ v.gone = w.gone
        /\ v.q = [w.q EXCEPT ![n] = r]
    BY <1>0, <1>k, <2>3
  <2>6. Retunes(View(w), View(v))
    <3> HIDE DEF w, v
    <3> QED  BY <1>0, <2>2, <2>4, <2>a, <2>5, TunedQueue
  <2>7. Here' = View(v)
    BY DEF Here
  <2> HIDE DEF v, w, a
  <2>8. Retunes(a, View(v))
    BY <2>6 DEF a
  <2> QED  BY <1>0, <2>7, <2>8 DEF Step
<1>12. CASE DrainToDLQ
  <2> DEFINE n == draining[1]
             t == draining[2]
             v == Drain(w, n, t)
  <2>1. n \in Queues /\ Become(v)
    BY <1>0, <1>12 DEF DrainToDLQ
  <2>2. Here' = View(v)
    <3> HIDE DEF v
    <3> QED  BY <2>1, BecomeView
  <2> HIDE DEF w, n, t
  <2>3. Chain(View(w), View(v), t, w.uuid, Queues) /\ v.uuid = w.uuid
    BY <1>0, <1>s, <2>1, DrainChain
  <2> HIDE DEF v
  <2>4. View(v).uuid = w.uuid
    <3>1. Seen(View(v), v)
      BY ViewFields
    <3> QED  BY <2>3, <3>1 DEF Seen
  <2> HIDE DEF a
  <2>5. Chain(a, View(v), t, a.uuid, Queues) /\ View(v).uuid = a.uuid
    BY <1>s, <2>3, <2>4 DEF a
  <2> QED  BY <1>0, <2>2, <2>5 DEF Step
<1>13. CASE \E n \in Queues : RemoveRedrivePolicy(n)
  <2>1. PICK n \in Queues : RemoveRedrivePolicy(n)
    BY <1>13
  <2> DEFINE r == [queues[n] EXCEPT !.maxRC = 0, !.dlq = None]
             v == World'
  <2>3. /\ queues' = [queues EXCEPT ![n] = r]
        /\ msg' = msg /\ uuid' = uuid /\ gone' = gone
    BY <1>1, <2>1 DEF RemoveRedrivePolicy, QFields
  <2>4. /\ r.messages = queues[n].messages /\ r.inflight = queues[n].inflight
        /\ r.dlq = None
        /\ r.seqCtr = queues[n].seqCtr /\ r.delay = queues[n].delay
    BY <1>1 DEF QFields
  <2> HIDE DEF r
  <2>5. /\ v.msg = w.msg /\ v.uuid = w.uuid /\ v.gone = w.gone
        /\ v.q = [w.q EXCEPT ![n] = r]
    BY <1>0, <1>k, <2>3
  <2>6. Retunes(View(w), View(v))
    <3> HIDE DEF w, v
    <3> QED  BY <1>0, <2>4, <2>5, TunedQueue
  <2>7. Here' = View(v)
    BY DEF Here
  <2> HIDE DEF v, w, a
  <2>8. Retunes(a, View(v))
    BY <2>6 DEF a
  <2> QED  BY <1>0, <2>7, <2>8 DEF Step
<1>14. CASE \E n \in Queues, t \in Clocks : PruneState(n, t)
  <2>1. PICK n \in Queues, t \in Clocks : PruneState(n, t)
    BY <1>14
  <2> DEFINE u == PrepareAndPick(PruneDedup(w, n, t), n, 0, 0, t).w
             f == IF Idle(u.q[n]) THEN FALSE ELSE u.q[n].active
             v == [u EXCEPT !.q[n].active = IF Idle(u.q[n]) THEN FALSE ELSE @]
  <2>2. Become(v)
    BY <2>1 DEF PruneState
  <2>3. Here' = View(v)
    <3> HIDE DEF v
    <3> QED  BY <2>2, BecomeView
  <2> HIDE DEF w
  <2>4. t \in Int /\ Advanced(w, u, n, t, 0)
    BY <1>0, <1>2, PruneChain
  <2> HIDE DEF u
  <2>5. Sound(u) /\ Shape(u)
    BY <2>4 DEF Advanced, Sound
  <2>6. Sound(v)
    BY <2>5, UnflagKeeps
  <2>7. v = [u EXCEPT !.q[n].active = f]
    BY <2>5 DEF Shape, QShape, QFields
  <2> HIDE DEF v, f
  <2>8. Stays(View(u), View([u EXCEPT !.q[n].active = f]))
    BY <2>5, FieldStays
  <2>9. Stays(View(u), View(v))
    BY <2>7, <2>8
  <2>10. Advanced(w, v, n, t, 0)
    BY <2>4, <2>6, <2>9, AdvanceStays
  <2>11. Step(View(w), View(v), now)
    BY <2>4, <2>10, AdvancedStep
  <2> QED  BY <1>0, <2>3, <2>11
<1>15. CASE Restart
  <2> DEFINE u == [w EXCEPT !.q = [n \in Queues |-> Restored(w.q[n], now)]]
  <2>1. PICK s \in SetToSeqs(Queues) : Become(Drains(u, s, now))
    BY <1>0, <1>15 DEF Restart, Drains
  <2> DEFINE v == Drains(u, s, now)
  <2>2. Here' = View(v)
    <3>1. Become(v)
      BY <2>1
    <3> HIDE DEF v
    <3> QED  BY <3>1, BecomeView
  <2> HIDE DEF w
  <2>3. Sound(u) /\ View(u) = View(w)
    BY <1>0, RestoredKeeps, RebornView
  <2> HIDE DEF u
  <2>4. Good(View(u))
    BY <1>0, <2>3
  <2>5. Chain(View(u), View(v), now, u.uuid, Queues) /\ v.uuid = u.uuid
    BY <2>3, <2>4, DrainsChain
  <2> HIDE DEF v
  <2>6. u.uuid = a.uuid /\ View(v).uuid = u.uuid
    <3>1. Seen(View(u), u) /\ Seen(View(v), v)
      BY ViewFields
    <3> QED  BY <2>3, <2>5, <3>1 DEF Seen
  <2> HIDE DEF a
  <2>7. Chain(a, View(v), now, a.uuid, Queues) /\ View(v).uuid = a.uuid
    BY <2>3, <2>5, <2>6 DEF a
  <2> QED  BY <1>0, <2>2, <2>7 DEF Step
<1>16. CASE Tick \/ UNCHANGED vars
  <2>1. World' = World
    BY <1>16 DEF Tick, vars, World
  <2>2. Here' = Here
    BY <2>1 DEF Here
  <2> QED  BY <2>2, IdleStep
<1> QED
  BY <1>4, <1>5, <1>6, <1>7, <1>8, <1>9, <1>10, <1>11, <1>12, <1>13, <1>14,
     <1>15, <1>16 DEF Next

\* A view without messages.
Blank(v) ==
  /\ v.msg = <<>> /\ v.uuid = 0
  /\ \A k \in Queues : /\ v.p[k] = <<>> /\ v.l[k] = {} /\ v.ctr[k] = 0 /\ v.lag[k] = 0
                       /\ PolicyOk(v, k)

\* The queues start empty.
LEMMA InitBlank == Init => Blank(Here)
<1> SUFFICES ASSUME Init PROVE Blank(Here)
  OBVIOUS
<1> DEFINE v == Here
<1>1. Seen(v, World) /\ v.uuid = uuid
  BY HereFields
<1>2. /\ World.msg = <<>> /\ uuid = 0 /\ World.q = [n \in Queues |-> NewQueue(n)]
  BY WorldFields DEF Init
<1> HIDE DEF v
<1>3. v.msg = <<>> /\ v.uuid = 0
  BY <1>1, <1>2 DEF Seen
<1>4. ASSUME NEW n \in Queues
      PROVE  /\ v.p[n] = <<>> /\ v.l[n] = {} /\ v.ctr[n] = 0 /\ v.lag[n] = 0
             /\ PolicyOk(v, n)
  <2> DEFINE pol == {p \in Created : p[1] = n}
             p == CHOOSE x \in pol : TRUE
             d == IF pol = {} THEN None ELSE p[2]
             c == IF pol = {} THEN 0 ELSE p[3]
             a == -PurgeCooldown
             s == [g \in Groups |-> <<>>]
             r == NewQueue(n)
  <2>1. r = [messages |-> <<>>, inflight |-> <<>>, byHandle |-> {}, dedup |-> {},
             seqCtr |-> 0, delayed |-> 0, active |-> FALSE, attempts |-> {},
             sends |-> s, delay |-> 0, purges |-> 0,
             purgedAt |-> a, maxRC |-> c, dlq |-> d]
    BY DEF NewQueue
  <2>2. d = None \/ \E x \in Created \cup Redrives : x[1] = n /\ x[2] = d /\ x[3] = c
    <3>1. CASE pol = {}
      BY <3>1
    <3>2. CASE pol # {}
      <4>1. p \in pol
        BY <3>2
      <4>2. p \in Created /\ p[1] = n
        BY <4>1
      <4> HIDE DEF p
      <4> QED  BY <3>2, <4>2
    <3> QED  BY <3>1, <3>2
  <2> HIDE DEF r, d, c, a, s
  <2>3. /\ r.messages = <<>> /\ r.inflight = <<>> /\ r.dlq = d /\ r.maxRC = c
        /\ r.seqCtr = 0 /\ r.delay = 0
    BY <2>1
  <2>4. World.q[n] = r
    BY <1>2 DEF r
  <2>5. v.dlq[n] = d /\ v.max[n] = c
    BY <1>1, <2>3, <2>4 DEF Seen
  <2>6. PolicyOk(v, n)
    BY <2>2, <2>5 DEF PolicyOk
  <2>7. LeaseSet(<<>>) = {}
    BY DEF LeaseSet
  <2> QED  BY <1>1, <2>3, <2>4, <2>6, <2>7 DEF Seen
<1>5. Blank(v)
  BY <1>3, <1>4 DEF Blank
<1> QED
  BY <1>5 DEF v

\* An empty view has its types.
LEMMA BlankGood ==
  ASSUME NEW v, Blank(v)
  PROVE  Good(v)
<1>1. /\ <<>> \in Seq(Nat) /\ Elems(<<>>) = {} /\ IsSeq(<<>>) /\ Len(<<>>) = 0
  BY DEF Elems, IsSeq
<1>2. v.uuid \in Nat /\ IsSeq(v.msg) /\ \A m \in 1 .. Len(v.msg) : IsMessage(v.msg[m])
  BY <1>1 DEF Blank
<1>3. \A k \in Queues : v.p[k] \in Seq(Nat) /\ Elems(v.p[k]) \subseteq 1 .. Len(v.msg)
  BY <1>1 DEF Blank
<1>4. \A k \in Queues : v.l[k] = {} /\ PolicyOk(v, k) /\ v.ctr[k] \in Nat /\ v.lag[k] \in Nat
  BY DEF Blank
<1> QED
  BY <1>2, <1>3, <1>4 DEF Good

\* A lease given up keeps the types.
LEMMA ReturnsGood ==
  ASSUME NEW a, Good(a), NEW b, NEW t \in Int, Returns(a, b, t)
  PROVE  Good(b)
<1>1. PICK n \in Queues, s \in Int : \E c, m :
        Reshows(a, c, m, t) /\ (Backs(c, b, n, s, a.uuid) \/ Deads(c, b, n, a.uuid))
  BY DEF Returns
<1>2. PICK c, m : Reshows(a, c, m, t) /\ (Backs(c, b, n, s, a.uuid) \/ Deads(c, b, n, a.uuid))
  BY <1>1
<1>3. Good(c)
  BY <1>2, ReshowsGood
<1>4. Move(c, b, n, s, a.uuid, {n})
  BY <1>2 DEF Move
<1>5. a.uuid \in Nat /\ a.uuid <= c.uuid
  BY <1>2 DEF Reshows, Good
<1> QED
  BY <1>3, <1>4, <1>5, MoveGood

\* So do the steps that no message takes part in.
LEMMA OthersGood ==
  ASSUME NEW a, Good(a), NEW b, Prolongs(a, b) \/ Empties(a, b) \/ Retunes(a, b)
  PROVE  Good(b)
<1> USE DEF Good
<1>1. CASE Retunes(a, b)
  <2>1. /\ b.msg = a.msg /\ b.uuid = a.uuid /\ \A k \in Queues : b.p[k] = a.p[k] /\ b.l[k] = a.l[k]
    BY <1>1 DEF Retunes, SamePending, SameLeases
  <2>2. \A k \in Queues : PolicyOk(b, k)
    BY <1>1 DEF Retunes, PolicyOk
  <2>3. \A k \in Queues : b.ctr[k] \in Nat /\ b.lag[k] \in Nat
    BY <1>1, NumbersAssumption DEF Retunes
  <2>4. \A k \in Queues : \A x \in b.l[k] : LeaseOk(b, x)
    BY <2>1 DEF LeaseOk
  <2> QED  BY <2>1, <2>2, <2>3, <2>4
<1>2. CASE Prolongs(a, b) \/ Empties(a, b)
  <2>1. Still(a, b)
    BY <1>2 DEF Prolongs, Empties
  <2>2. /\ IsSeq(b.msg) /\ Len(b.msg) = Len(a.msg) /\ b.uuid = a.uuid
        /\ \A m \in 1 .. Len(a.msg) : SameMessage(a.msg[m], b.msg[m]) /\ b.msg[m].rc = a.msg[m].rc
    BY <2>1 DEF Still, Steady
  <2>3. \A m \in 1 .. Len(b.msg) : IsMessage(b.msg[m])
    BY <2>2 DEF IsMessage, SameMessage
  <2>4. \A k \in Queues : PolicyOk(b, k) /\ b.ctr[k] \in Nat /\ b.lag[k] \in Nat
    BY <2>1 DEF Still, Steady, PolicyOk
  <2>5. \A k \in Queues : b.p[k] = a.p[k] \/ b.p[k] = <<>>
    BY <1>2 DEF Prolongs, Empties, SamePending
  <2>6. \A k \in Queues : b.p[k] \in Seq(Nat) /\ Elems(b.p[k]) \subseteq 1 .. Len(b.msg)
    <3>1. <<>> \in Seq(Nat) /\ Elems(<<>>) = {}
      BY DEF Elems
    <3> QED  BY <2>2, <2>5, <3>1
  <2>7. ASSUME NEW k \in Queues
        PROVE  /\ \A x \in b.l[k] : LeaseOk(b, x)
               /\ \A x, y \in b.l[k] : x.handle = y.handle => x = y
    <3>1. \A x \in a.l[k] : LeaseOk(b, x)
      BY <2>2 DEF LeaseOk
    <3>2. CASE b.l[k] = a.l[k] \/ b.l[k] = {}
      BY <3>1, <3>2
    <3>3. CASE \E x, y : /\ x \in a.l[k] /\ y \in Leases
                         /\ y.m = x.m /\ y.handle = x.handle /\ y.batch = x.batch
                         /\ b.l[k] = (a.l[k] \ {x}) \cup {y}
      <4>1. PICK x, y : /\ x \in a.l[k] /\ y \in Leases
                        /\ y.m = x.m /\ y.handle = x.handle /\ y.batch = x.batch
                        /\ b.l[k] = (a.l[k] \ {x}) \cup {y}
        BY <3>3
      <4>2. LeaseOk(b, y)
        BY <3>1, <4>1 DEF LeaseOk
      <4>3. \A z \in a.l[k] \ {x} : z.handle # y.handle
        BY <4>1
      <4> QED  BY <3>1, <4>1, <4>2, <4>3
    <3>4. CASE Empties(a, b)
      <4>1. b.l[k] = a.l[k] \/ b.l[k] = {}
        BY <3>4 DEF Empties, SameLeases
      <4> QED  BY <3>2, <4>1
    <3>5. CASE Prolongs(a, b)
      <4>1. \/ b.l[k] = a.l[k]
            \/ \E x, y : /\ x \in a.l[k] /\ y \in Leases
                         /\ y.m = x.m /\ y.handle = x.handle /\ y.batch = x.batch
                         /\ b.l[k] = (a.l[k] \ {x}) \cup {y}
        BY <3>5 DEF Prolongs, SameLeases
      <4> QED  BY <3>2, <3>3, <4>1
    <3> QED  BY <1>2, <3>4, <3>5
  <2> QED  BY <2>2, <2>3, <2>4, <2>6, <2>7
<1> QED
  BY <1>1, <1>2

\* So does a new message.
LEMMA AcceptsGood ==
  ASSUME NEW a, Good(a), NEW b, NEW n \in Queues, NEW e, Accepts(a, b, n, e)
  PROVE  Good(b)
<1> USE DEF Good
<1>1. /\ b.uuid = a.uuid /\ IsSeq(b.msg) /\ Len(b.msg) = Len(a.msg) + 1
      /\ b.msg[Len(a.msg) + 1] = e
      /\ \A k \in 1 .. Len(a.msg) : b.msg[k] = a.msg[k]
      /\ IsMessage(e) /\ Tails(a, b, n, Len(a.msg) + 1)
      /\ \A k \in Queues : (k # n => b.p[k] = a.p[k]) /\ b.l[k] = a.l[k]
  BY DEF Accepts, SamePending, SameLeases
<1>2. Len(a.msg) \in Nat
  BY DEF IsSeq
<1>3. \A m \in 1 .. Len(b.msg) : IsMessage(b.msg[m])
  <2> SUFFICES ASSUME NEW m \in 1 .. Len(b.msg) PROVE IsMessage(b.msg[m])
    OBVIOUS
  <2>1. m = Len(a.msg) + 1 \/ m \in 1 .. Len(a.msg)
    BY <1>1, <1>2
  <2> QED  BY <1>1, <2>1
<1>4. \A k \in Queues : PolicyOk(b, k) /\ b.lag[k] \in Nat
  <2> SUFFICES ASSUME NEW k \in Queues PROVE PolicyOk(b, k) /\ b.lag[k] \in Nat
    OBVIOUS
  <2>1. b.dlq[k] = a.dlq[k] /\ b.max[k] = a.max[k] /\ b.lag[k] = a.lag[k]
    BY DEF Accepts
  <2>2. PolicyOk(a, k) /\ a.lag[k] \in Nat
    OBVIOUS
  <2> HIDE DEF Good
  <2> QED  BY <2>1, <2>2 DEF PolicyOk
<1>5. \A k \in Queues : b.ctr[k] \in Nat
  BY DEF Accepts, IsMessage
<1>6. \A k \in Queues : b.p[k] \in Seq(Nat) /\ Elems(b.p[k]) \subseteq 1 .. Len(b.msg)
  <2>1. Elems(b.p[n]) = Elems(a.p[n]) \cup {Len(a.msg) + 1} /\ b.p[n] \in Seq(Nat)
    BY <1>1, PutsElems DEF Tails
  <2>2. \A k \in Queues : a.p[k] \in Seq(Nat) /\ Elems(a.p[k]) \subseteq 1 .. Len(b.msg)
    <3>1. \A k \in Queues : a.p[k] \in Seq(Nat) /\ Elems(a.p[k]) \subseteq 1 .. Len(a.msg)
      BY DEF Good
    <3>2. 1 .. Len(a.msg) \subseteq 1 .. Len(b.msg)
      BY <1>1, <1>2
    <3> QED  BY <3>1, <3>2, Zenon
  <2>3. Len(a.msg) + 1 \in 1 .. Len(b.msg)
    BY <1>1, <1>2
  <2> QED  BY <1>1, <2>1, <2>2, <2>3
<1>7. \A k \in Queues : \A x \in b.l[k] : LeaseOk(b, x)
  BY <1>1, <1>2 DEF LeaseOk
<1> QED
  BY <1>1, <1>3, <1>4, <1>5, <1>6, <1>7

\* Every step keeps the types.
LEMMA StepGood ==
  ASSUME NEW a, Good(a), NEW b, NEW s \in Int, Step(a, b, s)
  PROVE  Good(b)
<1>1. a.uuid \in Nat
  BY DEF Good
<1>2. ASSUME NEW t, NEW N \in SUBSET Queues, Chain(a, b, t, a.uuid, N) PROVE Good(b)
  BY <1>1, <1>2, ChainGood
<1> QED
  BY <1>2, ReturnsGood, OthersGood, AcceptsGood DEF Step

\* The invariant of the queues and the types of the places.
ViewInv == QueueInv /\ Good(Here)

\* They hold at the start.
LEMMA InitView == Init => ViewInv
  BY InitInv, InitBlank, BlankGood DEF ViewInv
\* Every step keeps them, and is one of the ways the places may change.
LEMMA NextView == ViewInv /\ [Next]_vars => ViewInv' /\ Step(Here, Here', now)
<1> SUFFICES ASSUME ViewInv, [Next]_vars PROVE ViewInv' /\ Step(Here, Here', now)
  OBVIOUS
<1>1. QueueInv /\ Good(Here) /\ QueueInv' /\ now \in Int
  BY NextInv DEF ViewInv, QueueInv
<1>2. Step(Here, Here', now)
  BY <1>1, StepViews
<1>3. Good(Here')
  BY <1>1, <1>2, StepGood
<1> QED
  BY <1>1, <1>2, <1>3 DEF ViewInv

-----------------------------------------------------------------------------
(* What a move does to one queue.                                          *)

\* Queue k stays; a lease of it ends, with its message elsewhere or pending
\* again; a pending message leaves or is handed out; message m joins.
Rests(a, b, k) == b.p[k] = a.p[k] /\ b.l[k] = a.l[k]
Lapses(a, b, k, x, B) ==
  b.p[k] = a.p[k] /\ x \in a.l[k] /\ x.handle <= B /\ b.l[k] = a.l[k] \ {x}
Requeues(a, b, k, x, i, t, B) ==
  /\ x \in a.l[k] /\ x.handle <= B /\ x.visibleAt < t /\ ~Routes(a, k, x.m)
  /\ b.l[k] = a.l[k] \ {x} /\ Puts(a.p[k], i, x.m, b.p[k])
  /\ IsFIFO(k) /\ Sorted(a, a.p[k]) => Fits(a, a.p[k], i, x.m)
Leaves(a, b, k, i, m) == b.l[k] = a.l[k] /\ Puts(b.p[k], i, m, a.p[k])
Joins(a, b, k, m) == b.l[k] = a.l[k] /\ Tails(a, b, k, m)

\* Message m of queue n is dead-lettered to queue k.
Carries(a, b, n, k, m, B) ==
  /\ Joins(a, b, k, m) /\ k = a.dlq[n] /\ Routes(a, n, m)
  /\ m \in Elems(a.p[n]) \/ \E x \in a.l[n] : x.m = m /\ x.handle <= B

\* What a move of queue n does to queue k.
Touches(a, b, n, k, t, B) ==
  \/ Rests(a, b, k)
  \/ \E m : Carries(a, b, n, k, m, B)
  \/ /\ k = n
     /\ \/ \E x : Lapses(a, b, k, x, B)
        \/ \E x, i : Requeues(a, b, k, x, i, t, B)
        \/ \E i, m : Leaves(a, b, k, i, m)
        \/ \E i, m, x : HandsOut(a, b, k, t, B, i, m, x)

\* Every move of a queue touches the queues in one of these ways, and no
\* message is rewritten.
LEMMA MoveAt ==
  ASSUME NEW a, Good(a), NEW b, NEW n \in Queues, NEW t, NEW B, NEW N,
         Move(a, b, n, t, B, N), NEW k \in Queues
  PROVE  Touches(a, b, n, k, t, B) /\ Steady(a, b)
<1>0. Steady(a, b)
  BY DEF Move, Stays, Drops, Backs, Deads, Discards, Redirects, Copies, Hands, Still
<1>1. CASE Stays(a, b)
  BY <1>0, <1>1 DEF Stays, SamePending, SameLeases, Touches, Rests
<1>2. CASE Redirects(a, b, n)
  <2>1. PICK i, m : /\ Puts(b.p[n], i, m, a.p[n]) /\ Routes(a, n, m)
                    /\ Tails(a, b, a.dlq[n], m)
    BY <1>2 DEF Redirects
  <2>2. m \in Elems(a.p[n])
    BY <2>1, PutsElems
  <2>3. /\ b.l[k] = a.l[k] /\ (k # n /\ k # a.dlq[n] => b.p[k] = a.p[k])
    BY <1>2 DEF Redirects, SamePending, SameLeases
  <2>4. CASE k = a.dlq[n]
    BY <1>0, <2>1, <2>2, <2>3, <2>4 DEF Touches, Carries, Joins
  <2>5. CASE k = n
    BY <1>0, <2>1, <2>3, <2>5 DEF Touches, Leaves
  <2> QED  BY <1>0, <2>3, <2>4, <2>5 DEF Touches, Rests
<1>3. CASE Drops(a, b, n, B)
  <2>1. PICK x : Ends(a, b, n, x, B)
    BY <1>3 DEF Drops
  <2>2. b.p[k] = a.p[k]
    BY <1>3 DEF Drops, SamePending
  <2>3. CASE k = n
    BY <1>0, <2>1, <2>2, <2>3 DEF Touches, Lapses, Ends
  <2>4. CASE k # n
    BY <1>0, <2>1, <2>2, <2>4 DEF Touches, Rests, Ends, SameLeases
  <2> QED  BY <2>3, <2>4
<1>4. CASE Backs(a, b, n, t, B)
  <2>1. PICK x, i : /\ Ends(a, b, n, x, B) /\ x.visibleAt < t /\ ~Routes(a, n, x.m)
                    /\ Puts(a.p[n], i, x.m, b.p[n])
                    /\ IsFIFO(n) /\ Sorted(a, a.p[n]) => Fits(a, a.p[n], i, x.m)
    BY <1>4 DEF Backs
  <2>2. CASE k = n
    BY <1>0, <2>1, <2>2 DEF Touches, Requeues, Ends
  <2>3. CASE k # n
    BY <1>0, <1>4, <2>1, <2>3 DEF Touches, Rests, Ends, Backs, SamePending, SameLeases
  <2> QED  BY <2>2, <2>3
<1>5. CASE Deads(a, b, n, B)
  <2>1. PICK x : Ends(a, b, n, x, B) /\ Routes(a, n, x.m) /\ Tails(a, b, a.dlq[n], x.m)
    BY <1>5 DEF Deads
  <2>2. a.dlq[n] # n
    <3>1. a.dlq[n] # None /\ PolicyOk(a, n)
      BY <2>1 DEF Routes, Good
    <3> QED  BY <3>1, PolicyInForce
  <2>3. x \in a.l[n] /\ x.handle <= B
    BY <2>1 DEF Ends
  <2>4. CASE k = a.dlq[n]
    <3>1. Joins(a, b, k, x.m)
      BY <2>1, <2>2, <2>4 DEF Joins, Ends, SameLeases
    <3> QED  BY <1>0, <2>1, <2>3, <2>4, <3>1 DEF Touches, Carries
  <2>5. CASE k = n
    <3>1. b.p[k] = a.p[k]
      BY <1>5, <2>2, <2>5 DEF Deads, SamePending
    <3> QED  BY <1>0, <2>1, <2>5, <3>1 DEF Touches, Lapses, Ends
  <2>6. CASE k # n /\ k # a.dlq[n]
    BY <1>0, <1>5, <2>1, <2>6 DEF Touches, Rests, Ends, Deads, SamePending, SameLeases
  <2> QED  BY <2>4, <2>5, <2>6
<1>6. CASE Discards(a, b, n)
  <2>1. b.l[k] = a.l[k] /\ (k # n => b.p[k] = a.p[k])
    BY <1>6 DEF Discards, SamePending, SameLeases
  <2>2. PICK i, m : Puts(b.p[n], i, m, a.p[n])
    BY <1>6 DEF Discards
  <2> QED  BY <1>0, <2>1, <2>2 DEF Touches, Rests, Leaves
<1>7. CASE Copies(a, b, n)
  <2>1. b.l[k] = a.l[k] /\ (k # a.dlq[n] => b.p[k] = a.p[k])
    BY <1>7 DEF Copies, SamePending, SameLeases
  <2>2. PICK m \in Elems(a.p[n]) : Routes(a, n, m) /\ Tails(a, b, a.dlq[n], m)
    BY <1>7 DEF Copies
  <2> QED  BY <1>0, <2>1, <2>2 DEF Touches, Rests, Carries, Joins
<1>8. CASE Hands(a, b, n, t, B)
  <2>1. k # n => b.p[k] = a.p[k] /\ b.l[k] = a.l[k]
    BY <1>8 DEF Hands, SamePending, SameLeases
  <2>2. PICK i, m, x : HandsOut(a, b, n, t, B, i, m, x)
    BY <1>8 DEF Hands
  <2> QED  BY <1>0, <2>1, <2>2 DEF Touches, Rests
<1> QED
  BY <1>1, <1>2, <1>3, <1>4, <1>5, <1>6, <1>7, <1>8 DEF Move

\* Taking an element out of a sorted slice, and putting one in where it
\* belongs.
LEMMA PutsSorted ==
  ASSUME NEW v, NEW s, NEW i, NEW e, NEW r, Puts(s, i, e, r),
         \A m \in Elems(r) : v.msg[m].seq \in Nat
  PROVE  /\ Sorted(v, r) => Sorted(v, s)
         /\ Sorted(v, s) /\ Fits(v, s, i, e) => Sorted(v, r)
<1>1. /\ Len(s) \in Nat /\ Len(r) = Len(s) + 1 /\ i \in 1 .. Len(r) /\ r[i] = e
      /\ \A j \in 1 .. i - 1 : r[j] = s[j]
      /\ \A j \in i .. Len(s) : r[j + 1] = s[j]
  BY DEF Puts
<1> DEFINE P(j) == IF j < i THEN j ELSE j + 1
           c(m) == v.msg[m].seq
<1>2. ASSUME NEW j \in 1 .. Len(s)
      PROVE  P(j) \in 1 .. Len(r) /\ P(j) # i /\ r[P(j)] = s[j] /\ (j < i <=> P(j) < i)
  <2>1. CASE j < i
    BY <1>1, <2>1
  <2>2. CASE j >= i
    <3>1. j \in i .. Len(s) /\ j + 1 \in 1 .. Len(r) /\ j + 1 # i
      BY <1>1, <2>2
    <3> QED  BY <1>1, <2>2, <3>1
  <2> QED  BY <1>1, <2>1, <2>2
<1>3. \A j, k \in 1 .. Len(s) : P(j) < P(k) <=> j < k
  BY <1>1
<1>4. ASSUME NEW k \in 1 .. Len(r), k # i PROVE \E j \in 1 .. Len(s) : k = P(j)
  <2>1. CASE k < i
    <3>1. k \in 1 .. Len(s)
      BY <1>1, <2>1
    <3> QED  BY <2>1, <3>1
  <2>2. CASE k > i
    <3>1. k - 1 \in 1 .. Len(s) /\ ~(k - 1 < i) /\ (k - 1) + 1 = k
      BY <1>1, <2>2
    <3> QED  BY <3>1
  <2> QED  BY <1>1, <1>4, <2>1, <2>2
<1>5. \A j \in 1 .. Len(r) : c(r[j]) \in Nat
  BY DEF Elems
<1> HIDE DEF P, c
<1>6. ASSUME Sorted(v, r) PROVE Sorted(v, s)
  <2> SUFFICES ASSUME NEW j \in 1 .. Len(s), NEW k \in 1 .. Len(s), j < k
               PROVE  c(s[j]) <= c(s[k])
    BY DEF Sorted, c
  <2>1. P(j) < P(k)
    BY <1>3
  <2>2. c(r[P(j)]) <= c(r[P(k)])
    BY <1>2, <1>6, <2>1 DEF Sorted, c
  <2> QED  BY <1>2, <2>2
<1>7. ASSUME Sorted(v, s), Fits(v, s, i, e) PROVE Sorted(v, r)
  <2> SUFFICES ASSUME NEW j \in 1 .. Len(r), NEW k \in 1 .. Len(r), j < k
               PROVE  c(r[j]) <= c(r[k])
    BY DEF Sorted, c
  <2>1. CASE j = i
    <3>1. k # i
      BY <2>1
    <3>2. PICK y \in 1 .. Len(s) : k = P(y)
      BY <1>4, <3>1
    <3>3. y \in i .. Len(s)
      BY <1>1, <1>2, <2>1, <3>2
    <3>4. c(e) < c(s[y])
      BY <1>7, <3>3 DEF Fits, c
    <3> QED  BY <1>1, <1>2, <1>5, <2>1, <3>2, <3>4
  <2>2. CASE k = i
    <3>1. j # i
      BY <2>2
    <3>2. PICK y \in 1 .. Len(s) : j = P(y)
      BY <1>4, <3>1
    <3>3. y \in 1 .. i - 1
      BY <1>1, <1>2, <2>2, <3>2
    <3>4. c(s[y]) <= c(e)
      BY <1>7, <3>3 DEF Fits, c
    <3> QED  BY <1>1, <1>2, <2>2, <3>2, <3>4
  <2>3. CASE j # i /\ k # i
    <3>1. PICK x \in 1 .. Len(s) : j = P(x)
      BY <1>4, <2>3
    <3>2. PICK y \in 1 .. Len(s) : k = P(y)
      BY <1>4, <2>3
    <3>3. x < y
      BY <1>3, <3>1, <3>2
    <3>4. c(s[x]) <= c(s[y])
      BY <1>7, <3>3 DEF Sorted, c
    <3> QED  BY <1>2, <3>1, <3>2, <3>4
  <2> QED  BY <2>1, <2>2, <2>3
<1> QED
  BY <1>6, <1>7

-----------------------------------------------------------------------------
(* A queue that no policy names as a dead-letter queue.                    *)

\* No message of queue k is pending twice, leased twice, or pending and leased.
Lone(v, k) ==
  /\ Once(v.p[k])
  /\ \A x \in v.l[k] : x.m \notin Elems(v.p[k])
  /\ \A x, y \in v.l[k] : x.m = y.m => x = y

\* The messages of queue k were sent to it.
Native(v, k) ==
  /\ \A m \in Elems(v.p[k]) : v.msg[m].home = k
  /\ \A x \in v.l[k] : v.msg[x.m].home = k

\* The messages of a FIFO queue have a group, and the leases of a group are
\* those of one receive.
Grouped(v, k) ==
  IsFIFO(k) =>
    /\ \A m \in Elems(v.p[k]) : v.msg[m].group # None
    /\ \A x \in v.l[k] : v.msg[x.m].group # None
    /\ \A x, y \in v.l[k] : v.msg[x.m].group = v.msg[y.m].group => x.batch = y.batch

\* A FIFO queue numbers its messages in the order it accepts them, and its
\* counter is the last number.
Numbered(v) ==
  /\ \A i, j \in 1 .. Len(v.msg) :
       IsFIFO(v.msg[i].home) /\ v.msg[j].home = v.msg[i].home /\ i < j
         => v.msg[i].seq < v.msg[j].seq
  /\ \A i \in 1 .. Len(v.msg) :
       IsFIFO(v.msg[i].home) => v.msg[i].seq <= v.ctr[v.msg[i].home]

\* Messages only join dead-letter queues, of the kind of the queue they leave.
LEMMA CarriesTo ==
  ASSUME NEW a, Good(a), NEW b, NEW n \in Queues, NEW k, NEW m, NEW B,
         Carries(a, b, n, k, m, B)
  PROVE  k \in DeadLetters /\ k # n /\ (IsFIFO(k) <=> IsFIFO(n))
         /\ n \in {p[1] : p \in Created \cup Redrives}
<1>1. PolicyOk(a, n) /\ a.dlq[n] # None /\ k = a.dlq[n]
  BY DEF Good, Carries, Routes
<1> QED
  BY <1>1, PolicyInForce DEF DeadLetters, IsFIFO

\* What a message keeps while it is moved.
LEMMA SteadyKeeps ==
  ASSUME NEW a, NEW b, Steady(a, b)
  PROVE  /\ Len(b.msg) = Len(a.msg) /\ b.ctr = a.ctr /\ b.lag = a.lag
         /\ \A m \in 1 .. Len(a.msg) :
              /\ b.msg[m].home = a.msg[m].home /\ b.msg[m].group = a.msg[m].group
              /\ b.msg[m].seq = a.msg[m].seq /\ b.msg[m].visibleAt = a.msg[m].visibleAt
  BY DEF Steady, SameMessage

\* The messages of a slice and of the leases are messages.
LEMMA GoodParts ==
  ASSUME NEW a, Good(a), NEW k \in Queues
  PROVE  /\ a.p[k] \in Seq(Nat) /\ Elems(a.p[k]) \subseteq 1 .. Len(a.msg)
         /\ \A x \in a.l[k] : x.m \in 1 .. Len(a.msg) /\ x.handle <= a.uuid /\ x.batch < x.handle
         /\ \A x, y \in a.l[k] : x.handle = y.handle => x = y
         /\ \A m \in 1 .. Len(a.msg) : /\ a.msg[m].seq \in Nat /\ a.msg[m].rc \in Nat
                                       /\ a.msg[m].visibleAt \in Int /\ a.msg[m].home \in Queues
  BY DEF Good, LeaseOk, IsMessage

\* A message is at one place of a queue that is no dead-letter queue.
LEMMA LoneMove ==
  ASSUME NEW a, Good(a), NEW b, NEW n \in Queues, NEW k \in Queues, NEW t, NEW B,
         Touches(a, b, n, k, t, B), k \notin DeadLetters, Lone(a, k)
  PROVE  Lone(b, k)
<1> USE DEF Lone
<1>1. CASE Rests(a, b, k)
  BY <1>1 DEF Rests
<1>2. ASSUME NEW x, Lapses(a, b, k, x, B) PROVE Lone(b, k)
  BY <1>2 DEF Lapses
<1>3. ASSUME NEW x, NEW i, Requeues(a, b, k, x, i, t, B) PROVE Lone(b, k)
  <2>1. /\ x \in a.l[k] /\ b.l[k] = a.l[k] \ {x} /\ Puts(a.p[k], i, x.m, b.p[k])
    BY <1>3 DEF Requeues
  <2>2. Elems(b.p[k]) = Elems(a.p[k]) \cup {x.m}
    BY <2>1, PutsElems
  <2>3. Once(b.p[k]) <=> Once(a.p[k]) /\ x.m \notin Elems(a.p[k])
    BY <2>1, PutsOnce
  <2> QED  BY <2>1, <2>2, <2>3
<1>4. ASSUME NEW i, NEW m, Leaves(a, b, k, i, m) PROVE Lone(b, k)
  <2>1. b.l[k] = a.l[k] /\ Puts(b.p[k], i, m, a.p[k])
    BY <1>4 DEF Leaves
  <2>2. Elems(a.p[k]) = Elems(b.p[k]) \cup {m}
    BY <2>1, PutsElems
  <2>3. Once(a.p[k]) <=> Once(b.p[k]) /\ m \notin Elems(b.p[k])
    BY <2>1, PutsOnce
  <2> QED  BY <2>1, <2>2, <2>3
<1>5. ASSUME NEW i, NEW m, NEW x, HandsOut(a, b, k, t, B, i, m, x) PROVE Lone(b, k)
  <2>1. b.l[k] = a.l[k] \cup {x} /\ x.m = m /\ Puts(b.p[k], i, m, a.p[k])
    BY <1>5 DEF HandsOut
  <2>2. Elems(a.p[k]) = Elems(b.p[k]) \cup {m}
    BY <2>1, PutsElems
  <2>3. Once(a.p[k]) <=> Once(b.p[k]) /\ m \notin Elems(b.p[k])
    BY <2>1, PutsOnce
  <2> QED  BY <2>1, <2>2, <2>3
<1>6. \A m : ~Carries(a, b, n, k, m, B)
  BY CarriesTo
<1> QED
  BY <1>1, <1>2, <1>3, <1>4, <1>5, <1>6 DEF Touches

\* Its messages were sent to it.
LEMMA NativeMove ==
  ASSUME NEW a, Good(a), NEW b, NEW n \in Queues, NEW k \in Queues, NEW t, NEW B,
         Touches(a, b, n, k, t, B), Steady(a, b), k \notin DeadLetters, Native(a, k)
  PROVE  Native(b, k)
<1> USE DEF Native
<1>0. /\ \A m \in 1 .. Len(a.msg) : b.msg[m].home = a.msg[m].home
      /\ Elems(a.p[k]) \subseteq 1 .. Len(a.msg)
      /\ \A x \in a.l[k] : x.m \in 1 .. Len(a.msg)
  BY SteadyKeeps, GoodParts
<1>a. /\ \A m \in Elems(a.p[k]) : b.msg[m].home = k
      /\ \A x \in a.l[k] : b.msg[x.m].home = k
  BY <1>0
<1>1. CASE Rests(a, b, k)
  BY <1>a, <1>1 DEF Rests
<1>2. ASSUME NEW x, Lapses(a, b, k, x, B) PROVE Native(b, k)
  BY <1>a, <1>2 DEF Lapses
<1>3. ASSUME NEW x, NEW i, Requeues(a, b, k, x, i, t, B) PROVE Native(b, k)
  <2>1. /\ x \in a.l[k] /\ b.l[k] = a.l[k] \ {x} /\ Puts(a.p[k], i, x.m, b.p[k])
    BY <1>3 DEF Requeues
  <2>2. Elems(b.p[k]) = Elems(a.p[k]) \cup {x.m}
    BY <2>1, PutsElems
  <2> QED  BY <1>a, <2>1, <2>2
<1>4. ASSUME NEW i, NEW m, Leaves(a, b, k, i, m) PROVE Native(b, k)
  <2>1. b.l[k] = a.l[k] /\ Puts(b.p[k], i, m, a.p[k])
    BY <1>4 DEF Leaves
  <2>2. Elems(a.p[k]) = Elems(b.p[k]) \cup {m}
    BY <2>1, PutsElems
  <2> QED  BY <1>a, <2>1, <2>2
<1>5. ASSUME NEW i, NEW m, NEW x, HandsOut(a, b, k, t, B, i, m, x) PROVE Native(b, k)
  <2>1. b.l[k] = a.l[k] \cup {x} /\ x.m = m /\ Puts(b.p[k], i, m, a.p[k])
    BY <1>5 DEF HandsOut
  <2>2. Elems(a.p[k]) = Elems(b.p[k]) \cup {m}
    BY <2>1, PutsElems
  <2> QED  BY <1>a, <2>1, <2>2
<1>6. \A m : ~Carries(a, b, n, k, m, B)
  BY CarriesTo
<1> QED
  BY <1>1, <1>2, <1>3, <1>4, <1>5, <1>6 DEF Touches

\* The leases of a group stay those of one receive: what a receive hands out
\* of a group is of the batch that holds the group, if one does.
LEMMA GroupedMove ==
  ASSUME NEW a, Good(a), NEW b, NEW n \in Queues, NEW k \in Queues, NEW t, NEW B,
         Touches(a, b, n, k, t, B), Steady(a, b), Grouped(a, k), Grouped(a, n)
  PROVE  Grouped(b, k)
<1> SUFFICES ASSUME IsFIFO(k) PROVE Grouped(b, k)
  BY DEF Grouped
<1>0. /\ \A m \in 1 .. Len(a.msg) : b.msg[m].group = a.msg[m].group
      /\ Elems(a.p[k]) \subseteq 1 .. Len(a.msg)
      /\ \A x \in a.l[k] : x.m \in 1 .. Len(a.msg)
  BY SteadyKeeps, GoodParts
<1>a. /\ \A m \in Elems(a.p[k]) : b.msg[m].group # None
      /\ \A x \in a.l[k] : b.msg[x.m].group # None
      /\ \A x, y \in a.l[k] : b.msg[x.m].group = b.msg[y.m].group => x.batch = y.batch
  <2>1. /\ \A m \in Elems(a.p[k]) : a.msg[m].group # None
        /\ \A x \in a.l[k] : a.msg[x.m].group # None
        /\ \A x, y \in a.l[k] : a.msg[x.m].group = a.msg[y.m].group => x.batch = y.batch
    BY DEF Grouped
  <2>2. \A x \in a.l[k] : b.msg[x.m].group = a.msg[x.m].group
    BY <1>0
  <2> QED  BY <1>0, <2>1, <2>2
<1> USE DEF Grouped
<1>1. CASE Rests(a, b, k)
  BY <1>a, <1>1 DEF Rests
<1>2. ASSUME NEW x, Lapses(a, b, k, x, B) PROVE Grouped(b, k)
  BY <1>a, <1>2 DEF Lapses
<1>3. ASSUME NEW x, NEW i, Requeues(a, b, k, x, i, t, B) PROVE Grouped(b, k)
  <2>1. /\ x \in a.l[k] /\ b.l[k] = a.l[k] \ {x} /\ Puts(a.p[k], i, x.m, b.p[k])
    BY <1>3 DEF Requeues
  <2>2. Elems(b.p[k]) = Elems(a.p[k]) \cup {x.m}
    BY <2>1, PutsElems
  <2> QED  BY <1>a, <2>1, <2>2
<1>4. ASSUME NEW i, NEW m, Leaves(a, b, k, i, m) PROVE Grouped(b, k)
  <2>1. b.l[k] = a.l[k] /\ Puts(b.p[k], i, m, a.p[k])
    BY <1>4 DEF Leaves
  <2>2. Elems(a.p[k]) = Elems(b.p[k]) \cup {m}
    BY <2>1, PutsElems
  <2> QED  BY <1>a, <2>1, <2>2
<1>5. ASSUME NEW i, NEW m, NEW x, HandsOut(a, b, k, t, B, i, m, x) PROVE Grouped(b, k)
  <2>1. /\ b.l[k] = a.l[k] \cup {x} /\ x.m = m /\ x.batch = B
        /\ Puts(b.p[k], i, m, a.p[k]) /\ Free(a, k, i, t, B)
    BY <1>5 DEF HandsOut
  <2>2. Elems(a.p[k]) = Elems(b.p[k]) \cup {m} /\ a.p[k][i] = m
    BY <2>1, PutsElems
  <2>3. b.msg[m].group # None /\ a.msg[m].group = b.msg[m].group
    BY <1>0, <1>a, <2>2
  <2>4. \A y \in a.l[k] : b.msg[y.m].group = b.msg[m].group => y.batch = B
    BY <1>0, <2>1, <2>2, <2>3 DEF Free
  <2>5. /\ \A y \in b.l[k] : b.msg[y.m].group # None
        /\ \A y, z \in b.l[k] : b.msg[y.m].group = b.msg[z.m].group => y.batch = z.batch
    BY <1>a, <2>1, <2>3, <2>4
  <2> QED  BY <1>a, <2>2, <2>5
<1>6. ASSUME NEW m, Carries(a, b, n, k, m, B) PROVE Grouped(b, k)
  <2>1. IsFIFO(n)
    BY <1>6, CarriesTo
  <2>2. a.msg[m].group # None /\ m \in 1 .. Len(a.msg)
    <3>1. /\ Elems(a.p[n]) \subseteq 1 .. Len(a.msg)
          /\ \A x \in a.l[n] : x.m \in 1 .. Len(a.msg)
      BY GoodParts
    <3> QED  BY <1>6, <2>1, <3>1 DEF Carries
  <2>3. b.l[k] = a.l[k] /\ Elems(b.p[k]) = Elems(a.p[k]) \cup {m}
    BY <1>6, PutsElems DEF Carries, Joins, Tails
  <2> QED  BY <1>0, <1>a, <2>2, <2>3
<1> QED
  BY <1>1, <1>2, <1>3, <1>4, <1>5, <1>6 DEF Touches

\* A slice that is sorted stays sorted.
LEMMA SortedMove ==
  ASSUME NEW a, Good(a), NEW b, NEW n \in Queues, NEW k \in Queues, NEW t, NEW B,
         Touches(a, b, n, k, t, B), Steady(a, b), k \notin DeadLetters, IsFIFO(k),
         Sorted(a, a.p[k])
  PROVE  Sorted(b, b.p[k])
<1>0. /\ \A m \in 1 .. Len(a.msg) : b.msg[m].seq = a.msg[m].seq /\ a.msg[m].seq \in Nat
      /\ Elems(a.p[k]) \subseteq 1 .. Len(a.msg)
      /\ \A x \in a.l[k] : x.m \in 1 .. Len(a.msg)
  <2>1. \A m \in 1 .. Len(a.msg) : b.msg[m].seq = a.msg[m].seq
    BY SteadyKeeps
  <2>2. /\ Elems(a.p[k]) \subseteq 1 .. Len(a.msg)
        /\ \A x \in a.l[k] : x.m \in 1 .. Len(a.msg)
        /\ \A m \in 1 .. Len(a.msg) : a.msg[m].seq \in Nat
    BY GoodParts
  <2> QED  BY <2>1, <2>2
<1>a. ASSUME Elems(b.p[k]) \subseteq 1 .. Len(a.msg), Sorted(a, b.p[k])
      PROVE  Sorted(b, b.p[k])
  <2>1. \A i \in 1 .. Len(b.p[k]) : b.p[k][i] \in 1 .. Len(a.msg)
    BY <1>a DEF Elems
  <2> QED  BY <1>0, <1>a, <2>1 DEF Sorted
<1>1. CASE b.p[k] = a.p[k]
  BY <1>0, <1>1, <1>a
<1>3. ASSUME NEW x, NEW i, Requeues(a, b, k, x, i, t, B) PROVE Sorted(b, b.p[k])
  <2>1. /\ x \in a.l[k] /\ Puts(a.p[k], i, x.m, b.p[k]) /\ Fits(a, a.p[k], i, x.m)
    BY <1>3 DEF Requeues
  <2>2. Elems(b.p[k]) = Elems(a.p[k]) \cup {x.m}
    BY <2>1, PutsElems
  <2>3. Elems(b.p[k]) \subseteq 1 .. Len(a.msg)
    BY <1>0, <2>1, <2>2
  <2>4. \A m \in Elems(b.p[k]) : a.msg[m].seq \in Nat
    BY <1>0, <2>3
  <2>5. Sorted(a, b.p[k])
    BY <2>1, <2>4, PutsSorted
  <2> QED  BY <1>a, <2>3, <2>5
<1>4. ASSUME NEW i, NEW m, Puts(b.p[k], i, m, a.p[k]) PROVE Sorted(b, b.p[k])
  <2>2. Elems(a.p[k]) = Elems(b.p[k]) \cup {m}
    BY <1>4, PutsElems
  <2>3. Elems(b.p[k]) \subseteq 1 .. Len(a.msg)
    BY <1>0, <2>2
  <2>4. \A j \in Elems(a.p[k]) : a.msg[j].seq \in Nat
    BY <1>0
  <2>5. Sorted(a, b.p[k])
    BY <1>4, <2>4, PutsSorted
  <2> QED  BY <1>a, <2>3, <2>5
<1>6. \A m : ~Carries(a, b, n, k, m, B)
  BY CarriesTo
<1> QED
  BY <1>1, <1>3, <1>4, <1>6 DEF Touches, Rests, Lapses, Leaves, HandsOut

\* Numbers stay.
LEMMA NumberedMove ==
  ASSUME NEW a, NEW b, Steady(a, b), Numbered(a)
  PROVE  Numbered(b)
<1>1. /\ Len(b.msg) = Len(a.msg) /\ b.ctr = a.ctr
      /\ \A m \in 1 .. Len(a.msg) : b.msg[m].home = a.msg[m].home /\ b.msg[m].seq = a.msg[m].seq
  BY SteadyKeeps
<1> QED
  BY <1>1 DEF Numbered

\* What queue k satisfies, and what the queues satisfy together.
Tidy(v, k) ==
  /\ Grouped(v, k)
  /\ k \notin DeadLetters => /\ Lone(v, k) /\ Native(v, k)
                             /\ IsFIFO(k) => Sorted(v, v.p[k])
Placed(v) == Numbered(v) /\ \A k \in Queues : Tidy(v, k)

\* A move keeps it.
LEMMA MovePlaced ==
  ASSUME NEW a, Good(a), Placed(a), NEW b, NEW n \in Queues, NEW t, NEW B, NEW N,
         Move(a, b, n, t, B, N)
  PROVE  Placed(b)
<1>0. Steady(a, b)
  BY MoveAt
<1>1. Numbered(b)
  BY <1>0, NumberedMove DEF Placed
<1>2. ASSUME NEW k \in Queues PROVE Tidy(b, k)
  <2>1. Touches(a, b, n, k, t, B)
    BY MoveAt
  <2>2. Tidy(a, k) /\ Tidy(a, n)
    BY DEF Placed
  <2>3. Grouped(b, k)
    BY <1>0, <2>1, <2>2, GroupedMove DEF Tidy
  <2>4. ASSUME k \notin DeadLetters PROVE Lone(b, k) /\ Native(b, k)
    BY <1>0, <2>1, <2>2, <2>4, LoneMove, NativeMove DEF Tidy
  <2>5. ASSUME k \notin DeadLetters, IsFIFO(k) PROVE Sorted(b, b.p[k])
    BY <1>0, <2>1, <2>2, <2>5, SortedMove DEF Tidy
  <2> QED  BY <2>3, <2>4, <2>5 DEF Tidy
<1> QED
  BY <1>1, <1>2 DEF Placed

\* A run of moves in which every view is as it should be.
Runs(g, K, a, b, t, B, N) ==
  /\ g[0] = a /\ g[K] = b /\ Moved(g, K, t, B, N) /\ GoodRun(g, K, B)
  /\ \A i \in 0 .. K : Placed(g[i])

\* Every chain is such a run.
LEMMA PlacedRun ==
  ASSUME NEW a, NEW b, NEW t, NEW B \in Nat, NEW N \in SUBSET Queues, Good(a), Placed(a),
         B <= a.uuid, Chain(a, b, t, B, N)
  PROVE  \E K \in Nat : \E g : Runs(g, K, a, b, t, B, N)
<1>1. PICK K \in Nat : \E g : /\ g[0] = a /\ g[K] = b
                              /\ Moved(g, K, t, B, N) /\ GoodRun(g, K, B)
  BY ChainRun
<1>2. PICK g : g[0] = a /\ g[K] = b /\ Moved(g, K, t, B, N) /\ GoodRun(g, K, B)
  BY <1>1
<1>3. ASSUME NEW j \in 0 .. K PROVE Placed(g[j])
  <2> DEFINE T == {i \in 0 .. K : Placed(g[i])}
  <2>1. 0 \in T
    BY <1>2
  <2>2. ASSUME NEW i \in 1 .. j, i - 1 \in T PROVE i \in T
    <3>1. i \in 1 .. K /\ i \in 0 .. K /\ i - 1 \in 0 .. K
      BY <1>3
    <3>2. PICK n \in N : Move(g[i - 1], g[i], n, t, B, N)
      BY <1>2, <3>1 DEF Moved
    <3>3. Good(g[i - 1]) /\ Placed(g[i - 1]) /\ n \in Queues
      BY <1>2, <2>2, <3>1 DEF GoodRun
    <3>4. Placed(g[i])
      BY <3>2, <3>3, MovePlaced
    <3> QED  BY <3>1, <3>4
  <2>3. j \in T
    <3> HIDE DEF T
    <3> QED  BY <2>1, <2>2, Upward
  <2> QED  BY <2>3
<1> QED
  BY <1>2, <1>3 DEF Runs

\* The places and the marks of the messages are the same.
SameMarks(a, b) ==
  /\ Len(b.msg) = Len(a.msg)
  /\ \A m \in 1 .. Len(a.msg) : /\ b.msg[m].home = a.msg[m].home
                                /\ b.msg[m].group = a.msg[m].group
                                /\ b.msg[m].seq = a.msg[m].seq
  /\ \A k \in Queues : b.ctr[k] = a.ctr[k]

\* Numbers depend on the marks only.
LEMMA MarksNumbered ==
  ASSUME NEW a, Good(a), Numbered(a), NEW b, SameMarks(a, b)
  PROVE  Numbered(b)
<1>1. \A m \in 1 .. Len(a.msg) : a.msg[m].home \in Queues
  BY DEF Good, IsMessage
<1> QED
  BY <1>1 DEF SameMarks, Numbered

\* A queue stays tidy when nothing but the times of its leases changes, or
\* when it is emptied.
LEMMA MarksTidy ==
  ASSUME NEW a, Good(a), NEW k \in Queues, Tidy(a, k), NEW b, SameMarks(a, b),
         \/ b.p[k] = <<>> /\ b.l[k] = {}
         \/ /\ b.p[k] = a.p[k]
            /\ \A y \in b.l[k] : \E x \in a.l[k] :
                 x.m = y.m /\ x.batch = y.batch /\ x.handle = y.handle
            /\ \A x, y \in b.l[k] : x.handle = y.handle => x = y
  PROVE  Tidy(b, k)
<1>1. CASE b.p[k] = <<>> /\ b.l[k] = {}
  <2>1. Elems(<<>>) = {} /\ Once(<<>>) /\ Sorted(b, <<>>)
    BY DEF Elems, Once, Sorted
  <2> QED  BY <1>1, <2>1 DEF Tidy, Grouped, Lone, Native
<1>2. CASE /\ b.p[k] = a.p[k]
           /\ \A y \in b.l[k] : \E x \in a.l[k] :
                 x.m = y.m /\ x.batch = y.batch /\ x.handle = y.handle
           /\ \A x, y \in b.l[k] : x.handle = y.handle => x = y
  <2>0. /\ \A m \in 1 .. Len(a.msg) : /\ b.msg[m].home = a.msg[m].home
                                      /\ b.msg[m].group = a.msg[m].group
                                      /\ b.msg[m].seq = a.msg[m].seq
        /\ Elems(a.p[k]) \subseteq 1 .. Len(a.msg)
        /\ \A x \in a.l[k] : x.m \in 1 .. Len(a.msg)
    BY GoodParts DEF SameMarks
  <2>1. \A m \in Elems(a.p[k]) : /\ b.msg[m].home = a.msg[m].home
                                 /\ b.msg[m].group = a.msg[m].group
                                 /\ b.msg[m].seq = a.msg[m].seq
    BY <2>0
  <2>2. \A x \in a.l[k] : /\ b.msg[x.m].home = a.msg[x.m].home
                          /\ b.msg[x.m].group = a.msg[x.m].group
    BY <2>0
  <2>3. Grouped(b, k)
    <3> SUFFICES ASSUME IsFIFO(k) PROVE Grouped(b, k)
      BY DEF Grouped
    <3>1. /\ \A m \in Elems(a.p[k]) : a.msg[m].group # None
          /\ \A x \in a.l[k] : a.msg[x.m].group # None
          /\ \A x, y \in a.l[k] : a.msg[x.m].group = a.msg[y.m].group => x.batch = y.batch
      BY DEF Tidy, Grouped
    <3>2. \A m \in Elems(b.p[k]) : b.msg[m].group # None
      BY <1>2, <2>1, <3>1
    <3>3. \A y \in b.l[k] : b.msg[y.m].group # None
      BY <1>2, <2>2, <3>1
    <3>4. ASSUME NEW y \in b.l[k], NEW z \in b.l[k], b.msg[y.m].group = b.msg[z.m].group
          PROVE  y.batch = z.batch
      <4>1. PICK u \in a.l[k] : u.m = y.m /\ u.batch = y.batch
        BY <1>2
      <4>2. PICK v \in a.l[k] : v.m = z.m /\ v.batch = z.batch
        BY <1>2
      <4> QED  BY <2>2, <3>1, <3>4, <4>1, <4>2
    <3> QED  BY <3>2, <3>3, <3>4 DEF Grouped
  <2>4. ASSUME k \notin DeadLetters PROVE Lone(b, k)
    <3>1. /\ Once(a.p[k]) /\ \A x \in a.l[k] : x.m \notin Elems(a.p[k])
          /\ \A x, y \in a.l[k] : x.m = y.m => x = y
      BY <2>4 DEF Tidy, Lone
    <3>2. ASSUME NEW y \in b.l[k], NEW z \in b.l[k], y.m = z.m PROVE y = z
      <4>1. PICK u \in a.l[k] : u.m = y.m /\ u.handle = y.handle
        BY <1>2
      <4>2. PICK v \in a.l[k] : v.m = z.m /\ v.handle = z.handle
        BY <1>2
      <4>3. u = v
        BY <3>1, <3>2, <4>1, <4>2
      <4> QED  BY <1>2, <4>1, <4>2, <4>3
    <3>3. \A y \in b.l[k] : y.m \notin Elems(b.p[k])
      BY <1>2, <3>1
    <3> QED  BY <1>2, <3>1, <3>2, <3>3 DEF Lone
  <2>5. ASSUME k \notin DeadLetters PROVE Native(b, k)
    <3>1. /\ \A m \in Elems(a.p[k]) : a.msg[m].home = k
          /\ \A x \in a.l[k] : a.msg[x.m].home = k
      BY <2>5 DEF Tidy, Native
    <3>2. \A y \in b.l[k] : b.msg[y.m].home = k
      BY <1>2, <2>2, <3>1
    <3> QED  BY <1>2, <2>1, <3>1, <3>2 DEF Native
  <2>6. ASSUME k \notin DeadLetters, IsFIFO(k) PROVE Sorted(b, b.p[k])
    <3>1. \A i \in 1 .. Len(a.p[k]) : a.p[k][i] \in Elems(a.p[k])
      BY DEF Elems
    <3>2. \A i \in 1 .. Len(a.p[k]) : b.msg[a.p[k][i]].seq = a.msg[a.p[k][i]].seq
      BY <2>1, <3>1
    <3>3. Sorted(a, a.p[k])
      BY <2>6 DEF Tidy
    <3> QED  BY <1>2, <3>2, <3>3 DEF Sorted
  <2> QED  BY <2>3, <2>4, <2>5, <2>6 DEF Tidy
<1> QED
  BY <1>1, <1>2

\* The steps that move no message keep the queues tidy.
LEMMA OthersPlaced ==
  ASSUME NEW a, Good(a), Placed(a), NEW b, Prolongs(a, b) \/ Empties(a, b) \/ Retunes(a, b)
  PROVE  Placed(b)
<1>1. SameMarks(a, b)
  <2>1. CASE Retunes(a, b)
    BY <2>1 DEF Retunes, SameMarks
  <2>2. CASE Prolongs(a, b) \/ Empties(a, b)
    <3>1. Steady(a, b)
      BY <2>2 DEF Prolongs, Empties, Still
    <3> QED  BY <3>1, SteadyKeeps DEF SameMarks
  <2> QED  BY <2>1, <2>2
<1>2. Numbered(b)
  BY <1>1, MarksNumbered DEF Placed
<1>3. ASSUME NEW k \in Queues PROVE Tidy(b, k)
  <2>0. Tidy(a, k) /\ \A x, y \in a.l[k] : x.handle = y.handle => x = y
    BY GoodParts DEF Placed
  <2>1. CASE b.p[k] = a.p[k] /\ b.l[k] = a.l[k]
    BY <1>1, <2>0, <2>1, MarksTidy
  <2>2. CASE b.p[k] = <<>> /\ b.l[k] = {}
    BY <1>1, <2>0, <2>2, MarksTidy
  <2>3. ASSUME NEW x, NEW y, x \in a.l[k], y.m = x.m, y.handle = x.handle, y.batch = x.batch,
               b.l[k] = (a.l[k] \ {x}) \cup {y}, b.p[k] = a.p[k]
        PROVE  Tidy(b, k)
    <3>1. \A u \in b.l[k] : \E v \in a.l[k] :
            v.m = u.m /\ v.batch = u.batch /\ v.handle = u.handle
      BY <2>3
    <3>2. \A u, v \in b.l[k] : u.handle = v.handle => u = v
      BY <2>0, <2>3
    <3> QED  BY <1>1, <2>0, <2>3, <3>1, <3>2, MarksTidy
  <2>4. CASE Retunes(a, b)
    BY <2>1, <2>4 DEF Retunes, SamePending, SameLeases
  <2>5. CASE Empties(a, b)
    <3>1. (b.p[k] = a.p[k] /\ b.l[k] = a.l[k]) \/ (b.p[k] = <<>> /\ b.l[k] = {})
      BY <2>5 DEF Empties, SamePending, SameLeases
    <3> QED  BY <2>1, <2>2, <3>1
  <2>6. CASE Prolongs(a, b)
    <3>1. /\ b.p[k] = a.p[k]
          /\ \/ b.l[k] = a.l[k]
             \/ \E x, y : /\ x \in a.l[k] /\ y.m = x.m /\ y.handle = x.handle
                          /\ y.batch = x.batch /\ b.l[k] = (a.l[k] \ {x}) \cup {y}
      BY <2>6 DEF Prolongs, SamePending, SameLeases
    <3> QED  BY <2>1, <2>3, <3>1
  <2> QED  BY <2>4, <2>5, <2>6
<1> QED
  BY <1>2, <1>3 DEF Placed

\* So does a lease that is given up.
LEMMA ReshowsPlaced ==
  ASSUME NEW a, Good(a), Placed(a), NEW c, NEW m, NEW t, Reshows(a, c, m, t)
  PROVE  Placed(c)
<1>1. SameMarks(a, c)
  BY DEF Reshows, SameMarks
<1>2. Numbered(c)
  BY <1>1, MarksNumbered DEF Placed
<1>3. ASSUME NEW k \in Queues PROVE Tidy(c, k)
  <2>0. Tidy(a, k) /\ \A x, y \in a.l[k] : x.handle = y.handle => x = y
    BY GoodParts DEF Placed
  <2>1. c.p[k] = a.p[k] /\ c.l[k] = a.l[k]
    BY DEF Reshows, SamePending, SameLeases
  <2> QED  BY <1>1, <2>0, <2>1, MarksTidy
<1> QED
  BY <1>2, <1>3 DEF Placed

\* A sweep keeps the leases and the groups in order.
LEMMA ReturnsPlaced ==
  ASSUME NEW a, Good(a), Placed(a), NEW b, NEW t \in Int, Returns(a, b, t)
  PROVE  Placed(b)
<1>1. PICK n \in Queues, s \in Int : \E c, m :
        Reshows(a, c, m, t) /\ (Backs(c, b, n, s, a.uuid) \/ Deads(c, b, n, a.uuid))
  BY DEF Returns
<1>2. PICK c, m : Reshows(a, c, m, t) /\ (Backs(c, b, n, s, a.uuid) \/ Deads(c, b, n, a.uuid))
  BY <1>1
<1>3. Good(c) /\ Placed(c)
  BY <1>2, ReshowsGood, ReshowsPlaced
<1>4. Move(c, b, n, s, a.uuid, {n})
  BY <1>2 DEF Move
<1> QED
  BY <1>3, <1>4, MovePlaced

\* A new message has the next number of its queue.
LEMMA AcceptsPlaced ==
  ASSUME NEW a, Good(a), Placed(a), NEW b, NEW n \in Queues, NEW e, Accepts(a, b, n, e)
  PROVE  Placed(b)
<1> DEFINE H == Len(a.msg)
           m == H + 1
<1>1. /\ Len(b.msg) = m /\ b.msg[m] = e
      /\ \A k \in 1 .. H : b.msg[k] = a.msg[k]
      /\ IsMessage(e) /\ Puts(a.p[n], Len(a.p[n]) + 1, m, b.p[n])
      /\ \A k \in Queues : (k # n => b.p[k] = a.p[k] /\ b.ctr[k] = a.ctr[k]) /\ b.l[k] = a.l[k]
      /\ e.home = n /\ b.ctr[n] = e.seq
      /\ (IsFIFO(n) => e.seq = a.ctr[n] + 1 /\ e.group # None)
  BY DEF Accepts, SamePending, SameLeases, Tails
<1>2. H \in Nat /\ \A k \in Queues : a.ctr[k] \in Nat
  BY DEF Good, IsSeq
<1> HIDE DEF H
<1>p. /\ \A k \in Queues : Elems(a.p[k]) \subseteq 1 .. H
      /\ \A k \in Queues : \A x \in a.l[k] : x.m \in 1 .. H
      /\ \A k \in 1 .. H : a.msg[k].home \in Queues /\ a.msg[k].seq \in Nat
  BY GoodParts DEF H
<1>3. Elems(b.p[n]) = Elems(a.p[n]) \cup {m} /\ m \notin 1 .. H
  BY <1>1, <1>2, PutsElems
<1>4. /\ \A i \in 1 .. H : IsFIFO(a.msg[i].home) => a.msg[i].seq <= a.ctr[a.msg[i].home]
      /\ \A i, j \in 1 .. H :
           IsFIFO(a.msg[i].home) /\ a.msg[j].home = a.msg[i].home /\ i < j
             => a.msg[i].seq < a.msg[j].seq
  BY DEF Placed, Numbered, H
<1>5. ASSUME NEW i \in 1 .. H, IsFIFO(n), a.msg[i].home = n PROVE a.msg[i].seq < e.seq
  <2>1. a.msg[i].seq <= a.ctr[n] /\ a.msg[i].seq \in Nat /\ a.ctr[n] \in Nat
    BY <1>2, <1>p, <1>4, <1>5
  <2>2. e.seq = a.ctr[n] + 1
    BY <1>1, <1>5
  <2> QED  BY <2>1, <2>2
<1>6. Numbered(b)
  <2>1. ASSUME NEW i \in 1 .. m, NEW j \in 1 .. m, IsFIFO(b.msg[i].home),
               b.msg[j].home = b.msg[i].home, i < j
        PROVE  b.msg[i].seq < b.msg[j].seq
    <3>1. i \in 1 .. H /\ (j = m \/ j \in 1 .. H)
      BY <1>2, <2>1
    <3>2. CASE j = m
      BY <1>1, <1>5, <2>1, <3>1, <3>2
    <3>3. CASE j \in 1 .. H
      BY <1>1, <1>4, <2>1, <3>1, <3>3
    <3> QED  BY <3>1, <3>2, <3>3
  <2>2. ASSUME NEW i \in 1 .. m, IsFIFO(b.msg[i].home)
        PROVE  b.msg[i].seq <= b.ctr[b.msg[i].home]
    <3>1. CASE i = m
      BY <1>1, <3>1 DEF IsMessage
    <3>2. CASE i \in 1 .. H /\ a.msg[i].home # n
      BY <1>1, <1>4, <1>p, <2>2, <3>2
    <3>3. CASE i \in 1 .. H /\ a.msg[i].home = n
      <4>1. b.msg[i] = a.msg[i] /\ a.msg[i].seq < e.seq /\ e.seq \in Nat
        BY <1>1, <1>5, <2>2, <3>3 DEF IsMessage
      <4> QED  BY <1>1, <1>p, <3>3, <4>1
    <3> QED  BY <1>2, <3>1, <3>2, <3>3
  <2> QED  BY <1>1, <2>1, <2>2 DEF Numbered
<1>7. ASSUME NEW k \in Queues PROVE Tidy(b, k)
  <2>0. /\ Tidy(a, k) /\ b.l[k] = a.l[k]
        /\ \A x \in a.l[k] : b.msg[x.m] = a.msg[x.m]
        /\ \A j \in Elems(a.p[k]) : b.msg[j] = a.msg[j]
    BY <1>1, <1>p DEF Placed
  <2>1. CASE k # n
    <3>1. b.p[k] = a.p[k]
      BY <1>1, <2>1
    <3>2. Grouped(b, k)
      BY <2>0, <3>1 DEF Tidy, Grouped
    <3>3. ASSUME k \notin DeadLetters PROVE Lone(b, k) /\ Native(b, k)
      BY <2>0, <3>1, <3>3 DEF Tidy, Lone, Native
    <3>4. ASSUME k \notin DeadLetters, IsFIFO(k) PROVE Sorted(b, b.p[k])
      BY <2>0, <3>1, <3>4 DEF Tidy, Sorted, Elems
    <3> QED  BY <3>2, <3>3, <3>4 DEF Tidy
  <2>2. CASE k = n
    <3>1. Grouped(b, k)
      <4>1. \A j \in Elems(b.p[k]) : j = m \/ j \in Elems(a.p[k])
        BY <1>3, <2>2
      <4> QED  BY <1>1, <2>0, <2>2, <4>1 DEF Tidy, Grouped
    <3>2. ASSUME k \notin DeadLetters PROVE Lone(b, k)
      <4>1. Once(a.p[k]) /\ m \notin Elems(a.p[k])
        BY <1>p, <1>3, <2>0, <3>2 DEF Tidy, Lone
      <4>2. Once(b.p[k])
        BY <1>1, <2>2, <4>1, PutsOnce
      <4>3. \A x \in a.l[k] : x.m # m
        BY <1>p, <1>3
      <4> QED  BY <1>3, <2>0, <2>2, <3>2, <4>2, <4>3 DEF Tidy, Lone
    <3>3. ASSUME k \notin DeadLetters PROVE Native(b, k)
      <4>1. \A j \in Elems(b.p[k]) : j = m \/ j \in Elems(a.p[k])
        BY <1>3, <2>2
      <4> QED  BY <1>1, <2>0, <2>2, <3>3, <4>1 DEF Tidy, Native
    <3>4. ASSUME k \notin DeadLetters, IsFIFO(k) PROVE Sorted(b, b.p[k])
      <4>1. \A j \in Elems(a.p[k]) : a.msg[j].home = k /\ j \in 1 .. H
        BY <1>p, <2>0, <3>4 DEF Tidy, Native
      <4>2. \A j \in Elems(a.p[k]) : a.msg[j].seq \in Nat /\ a.msg[j].seq < e.seq
        BY <1>p, <1>5, <2>2, <3>4, <4>1
      <4>3. Sorted(b, a.p[k])
        BY <2>0, <3>4 DEF Tidy, Sorted, Elems
      <4>4. \A j \in Elems(b.p[k]) : b.msg[j].seq \in Nat
        BY <1>1, <1>3, <2>0, <2>2, <4>2 DEF IsMessage
      <4>5. Len(a.p[k]) \in Nat
        BY <1>1, <2>2 DEF Puts
      <4>6. Fits(b, a.p[k], Len(a.p[k]) + 1, m)
        <5>1. \A i \in 1 .. Len(a.p[k]) : a.p[k][i] \in Elems(a.p[k])
          BY DEF Elems
        <5>2. \A i \in 1 .. Len(a.p[k]) : b.msg[a.p[k][i]].seq <= b.msg[m].seq
          <6> SUFFICES ASSUME NEW i \in 1 .. Len(a.p[k])
                       PROVE  b.msg[a.p[k][i]].seq <= b.msg[m].seq
            OBVIOUS
          <6>1. b.msg[a.p[k][i]] = a.msg[a.p[k][i]] /\ b.msg[m] = e /\ e.seq \in Nat
            BY <1>1, <2>0, <5>1 DEF IsMessage
          <6>2. a.msg[a.p[k][i]].seq \in Nat /\ a.msg[a.p[k][i]].seq < e.seq
            BY <4>2, <5>1
          <6> QED  BY <6>1, <6>2
        <5> QED  BY <4>5, <5>2 DEF Fits
      <4>7. Puts(a.p[k], Len(a.p[k]) + 1, m, b.p[k])
        BY <1>1, <2>2
      <4> HIDE DEF m
      <4> QED  BY <4>3, <4>4, <4>6, <4>7, PutsSorted
    <3> QED  BY <3>1, <3>2, <3>3, <3>4 DEF Tidy
  <2> QED  BY <2>1, <2>2
<1> QED
  BY <1>6, <1>7 DEF Placed

\* Every step keeps the queues tidy.
LEMMA StepPlaced ==
  ASSUME NEW a, Good(a), Placed(a), NEW b, NEW s \in Int, Step(a, b, s)
  PROVE  Placed(b)
<1>1. a.uuid \in Nat
  BY DEF Good
<1>2. ASSUME NEW t, NEW N \in SUBSET Queues, Chain(a, b, t, a.uuid, N) PROVE Placed(b)
  <2>1. PICK K \in Nat : \E g : Runs(g, K, a, b, t, a.uuid, N)
    BY <1>1, <1>2, PlacedRun
  <2>2. PICK g : Runs(g, K, a, b, t, a.uuid, N)
    BY <2>1
  <2>3. K \in 0 .. K
    OBVIOUS
  <2> QED  BY <2>2, <2>3 DEF Runs
<1> QED
  BY <1>2, ReturnsPlaced, OthersPlaced, AcceptsPlaced DEF Step

\* Empty queues are tidy.
LEMMA BlankPlaced ==
  ASSUME NEW v, Blank(v)
  PROVE  Placed(v)
<1>1. Elems(<<>>) = {} /\ Once(<<>>) /\ Sorted(v, <<>>) /\ Len(<<>>) = 0
  BY DEF Elems, Once, Sorted
<1>2. Numbered(v)
  BY <1>1 DEF Blank, Numbered
<1>3. ASSUME NEW k \in Queues PROVE Tidy(v, k)
  <2>1. v.p[k] = <<>> /\ v.l[k] = {}
    BY DEF Blank
  <2> QED  BY <1>1, <2>1 DEF Tidy, Grouped, Lone, Native
<1> QED
  BY <1>2, <1>3 DEF Placed

-----------------------------------------------------------------------------
(* Groups and sequence numbers, for every constant.                        *)

\* The inductive invariant of the places.
PlaceInv == ViewInv /\ Placed(Here)

\* The queues start with it.
LEMMA InitPlace == Init => PlaceInv
  BY InitView, InitBlank, BlankPlaced DEF PlaceInv

\* A step from a tidy state is one of the ways the places may change.
Leads == Good(Here) /\ Placed(Here) /\ now \in Int /\ Step(Here, Here', now)

\* Every step keeps the invariant, and leads from such a state.
LEMMA NextPlace == PlaceInv /\ [Next]_vars => PlaceInv' /\ Leads
<1> SUFFICES ASSUME PlaceInv, [Next]_vars PROVE PlaceInv' /\ Leads
  OBVIOUS
<1>1. /\ Good(Here) /\ Placed(Here) /\ now \in Int /\ ViewInv' /\ Step(Here, Here', now)
  BY NextView DEF PlaceInv, ViewInv, QueueInv
<1>2. Placed(Here')
  BY <1>1, StepPlaced
<1> QED
  BY <1>1, <1>2 DEF PlaceInv, Leads

\* The places of queue n in the state.
LEMMA QueueHere ==
  ASSUME NEW n \in Queues
  PROVE  /\ Here.p[n] = queues[n].messages /\ Here.l[n] = ToSet(queues[n].inflight)
         /\ Here.dlq[n] = queues[n].dlq /\ Here.max[n] = queues[n].maxRC
         /\ Here.msg = msg /\ Here.uuid = uuid
<1>1. Seen(Here, World) /\ Here.uuid = uuid /\ World.q = queues /\ World.msg = msg
  BY HereFields, WorldFields
<1>2. LeaseSet(queues[n].inflight) = ToSet(queues[n].inflight)
  BY DEF LeaseSet, ToSet
<1> QED
  BY <1>1, <1>2 DEF Seen

\* The leases of a FIFO group are those of one receive.
LEMMA PlaceGroups == PlaceInv => GroupExclusive
<1> SUFFICES ASSUME PlaceInv, NEW n \in FifoQueues, NEW e \in ToSet(queues[n].inflight),
                    NEW f \in ToSet(queues[n].inflight), msg[e.m].group = msg[f.m].group
             PROVE  e.batch = f.batch
  BY DEF GroupExclusive
<1> DEFINE v == Here
<1>1. n \in Queues /\ IsFIFO(n)
  BY SetsAssumption DEF IsFIFO
<1>2. Grouped(v, n)
  BY <1>1 DEF PlaceInv, Placed, Tidy
<1>3. v.l[n] = ToSet(queues[n].inflight) /\ v.msg = msg
  BY <1>1, QueueHere
<1> HIDE DEF v
<1> QED
  BY <1>1, <1>2, <1>3 DEF Grouped

\* For every set of queues, groups, policies and batch sizes: while a message
\* of a FIFO group is in flight, nobody but the receive that took it holds a
\* message of the group.  The sweep, the two picks, requeueing, dead-letter
\* queues and policies that change at any time included.
THEOREM GroupSafe == Spec => []GroupExclusive
<1>1. Spec => []PlaceInv
  BY InitPlace, NextPlace, PTL DEF Spec
<1> QED
  BY <1>1, PlaceGroups, PTL

\* The pending slice of queue n is in ascending order.
Ascending(n) ==
  LET s == queues[n].messages
  IN \A i, j \in DOMAIN s : i < j => s[i] = s[j] \/ msg[s[i]].seq < msg[s[j]].seq

\* A queue that no policy names as a dead-letter queue is.
LEMMA PlaceAscending ==
  ASSUME PlaceInv, NEW n \in FifoQueues, n \notin DeadLetters
  PROVE  Ascending(n)
<1> DEFINE v == Here
           s == v.p[n]
<1>1. n \in Queues /\ IsFIFO(n)
  BY SetsAssumption DEF IsFIFO
<1>2. /\ Good(v) /\ Numbered(v) /\ Native(v, n) /\ Sorted(v, s)
  BY <1>1 DEF PlaceInv, ViewInv, Placed, Tidy
<1>3. s = queues[n].messages /\ v.msg = msg
  BY <1>1, QueueHere
<1> HIDE DEF v
<1>4. /\ s \in Seq(Nat) /\ Elems(s) \subseteq 1 .. Len(v.msg)
      /\ \A m \in 1 .. Len(v.msg) : v.msg[m].seq \in Nat
  BY <1>1, <1>2, GoodParts
<1>5. DOMAIN s = 1 .. Len(s) /\ \A i \in DOMAIN s : s[i] \in Elems(s)
  BY <1>4 DEF Elems
<1>6. ASSUME NEW i \in DOMAIN s, NEW j \in DOMAIN s, i < j, s[i] # s[j]
      PROVE  v.msg[s[i]].seq < v.msg[s[j]].seq
  <2>1. s[i] \in 1 .. Len(v.msg) /\ s[j] \in 1 .. Len(v.msg)
    BY <1>4, <1>5
  <2>2. v.msg[s[i]].home = n /\ v.msg[s[j]].home = n
    BY <1>2, <1>5 DEF Native
  <2>3. v.msg[s[i]].seq <= v.msg[s[j]].seq
    BY <1>2, <1>5, <1>6 DEF Sorted
  <2> DEFINE x == s[i]
             y == s[j]
  <2>4. x # y /\ x \in 1 .. Len(v.msg) /\ y \in 1 .. Len(v.msg)
        /\ v.msg[x].home = n /\ v.msg[y].home = n /\ v.msg[x].seq <= v.msg[y].seq
    BY <1>6, <2>1, <2>2, <2>3
  <2> HIDE DEF x, y
  <2>5. v.msg[x].seq \in Nat /\ v.msg[y].seq \in Nat
    BY <1>4, <2>4
  <2>6. x < y \/ y < x
    BY <2>4
  <2>7. /\ x < y => v.msg[x].seq < v.msg[y].seq
        /\ y < x => v.msg[y].seq < v.msg[x].seq
    BY <1>1, <1>2, <2>4 DEF Numbered
  <2>8. v.msg[x].seq < v.msg[y].seq
    BY <2>4, <2>5, <2>6, <2>7
  <2> QED  BY <2>8 DEF x, y
<1> QED
  BY <1>3, <1>6 DEF Ascending

\* For every set of queues, groups, policies and batch sizes: a FIFO queue
\* that is no dead-letter queue keeps q.messages in ascending order of distinct
\* sequence numbers, so that the binary search of requeueMessage finds the
\* place of a message.
THEOREM SeqSafe == Spec => []SeqAscending
<1>1. Spec => []PlaceInv
  BY InitPlace, NextPlace, PTL DEF Spec
<1>2. PlaceInv => SeqAscending
  BY PlaceAscending DEF SeqAscending, Ascending
<1> QED
  BY <1>1, <1>2, PTL

-----------------------------------------------------------------------------
(* One place for every message.                                            *)

\* The redrive policies are those given at CreateQueue, and no dead-letter
\* queue has one of its own.
Plain == Redrives = {} /\ \A p, r \in Created : p[2] # r[1]

\* No message is pending twice, leased twice, or pending and leased, in
\* whatever queues.
Unique(v) ==
  /\ \A k \in Queues : Once(v.p[k])
  /\ \A j, k \in Queues : \A m \in Elems(v.p[j]) : m \in Elems(v.p[k]) => j = k
  /\ \A j, k \in Queues : \A x \in v.l[j] : x.m \notin Elems(v.p[k])
  /\ \A j, k \in Queues : \A x \in v.l[j], y \in v.l[k] : x.m = y.m => j = k /\ x = y

\* No pending message waits to be dead-lettered.
Settled(v) == \A k \in Queues : \A m \in Elems(v.p[k]) : ~Routes(v, k, m)

\* Some leases end.
LEMMA UniqueEnds ==
  ASSUME NEW a, Unique(a), NEW b,
         \A k \in Queues : b.p[k] = a.p[k] \/ b.p[k] = <<>>,
         \A k \in Queues : b.l[k] \subseteq a.l[k]
  PROVE  Unique(b)
<1>1. Elems(<<>>) = {} /\ Once(<<>>)
  BY DEF Elems, Once
<1>2. \A k \in Queues : Once(b.p[k]) /\ Elems(b.p[k]) \subseteq Elems(a.p[k])
  BY <1>1 DEF Unique
<1>3. \A j, k \in Queues : \A m \in Elems(b.p[j]) : m \in Elems(b.p[k]) => j = k
  BY <1>2 DEF Unique
<1>4. \A j, k \in Queues : \A x \in b.l[j] : x.m \notin Elems(b.p[k])
  BY <1>2 DEF Unique
<1>5. \A j, k \in Queues : \A x \in b.l[j], y \in b.l[k] : x.m = y.m => j = k /\ x = y
  BY DEF Unique
<1> QED
  BY <1>2, <1>3, <1>4, <1>5 DEF Unique

\* The message of a lease that ends joins queue d.
LEMMA UniqueBack ==
  ASSUME NEW a, Unique(a), NEW b, NEW n \in Queues, NEW d \in Queues, NEW x, NEW i,
         x \in a.l[n], b.l[n] = a.l[n] \ {x}, SameLeases(a, b, {n}),
         Puts(a.p[d], i, x.m, b.p[d]), SamePending(a, b, {d})
  PROVE  Unique(b)
<1>1. Elems(b.p[d]) = Elems(a.p[d]) \cup {x.m}
  BY PutsElems
<1>2. Once(b.p[d]) <=> Once(a.p[d]) /\ x.m \notin Elems(a.p[d])
  BY PutsOnce
<1>3. \A k \in Queues : k # d => b.p[k] = a.p[k]
  BY DEF SamePending
<1>4. \A k \in Queues : \A y \in b.l[k] : y \in a.l[k] /\ (k = n => y # x)
  BY DEF SameLeases
<1>5. \A k \in Queues : Once(b.p[k])
  BY <1>2, <1>3 DEF Unique
<1>6. \A k \in Queues : x.m \notin Elems(a.p[k])
  BY DEF Unique
<1>7. \A k \in Queues : \A m \in Elems(b.p[k]) : m \in Elems(a.p[k]) \/ (m = x.m /\ k = d)
  BY <1>1, <1>3
<1>8. \A j, k \in Queues : \A m \in Elems(b.p[j]) : m \in Elems(b.p[k]) => j = k
  BY <1>6, <1>7 DEF Unique
<1>9. \A k \in Queues : \A y \in b.l[k] : y.m # x.m
  BY <1>4 DEF Unique
<1>10. \A j, k \in Queues : \A y \in b.l[j] : y.m \notin Elems(b.p[k])
  BY <1>4, <1>7, <1>9 DEF Unique
<1>11. \A j, k \in Queues : \A y \in b.l[j], z \in b.l[k] : y.m = z.m => j = k /\ y = z
  BY <1>4 DEF Unique
<1> QED
  BY <1>5, <1>8, <1>10, <1>11 DEF Unique

\* A pending message of queue n leaves, with a lease or without.
LEMMA UniqueOut ==
  ASSUME NEW a, Unique(a), NEW b, NEW n \in Queues, NEW m, NEW i,
         Puts(b.p[n], i, m, a.p[n]), SamePending(a, b, {n}), SameLeases(a, b, {n}),
         \A y \in b.l[n] : y \in a.l[n] \/ y.m = m,
         \A y, z \in b.l[n] : y.m = m /\ z.m = m => y = z
  PROVE  Unique(b) /\ \A k \in Queues : m \notin Elems(b.p[k])
<1>1. Elems(a.p[n]) = Elems(b.p[n]) \cup {m}
  BY PutsElems
<1>2. Once(a.p[n]) <=> Once(b.p[n]) /\ m \notin Elems(b.p[n])
  BY PutsOnce
<1>3. \A k \in Queues : k # n => b.p[k] = a.p[k] /\ b.l[k] = a.l[k]
  BY DEF SamePending, SameLeases
<1>4. \A k \in Queues : Once(b.p[k]) /\ Elems(b.p[k]) \subseteq Elems(a.p[k])
  BY <1>1, <1>2, <1>3 DEF Unique
<1>5. \A k \in Queues : m \notin Elems(b.p[k])
  BY <1>1, <1>2, <1>3 DEF Unique
<1>6. \A j, k \in Queues : \A u \in Elems(b.p[j]) : u \in Elems(b.p[k]) => j = k
  BY <1>4 DEF Unique
<1>7. \A k \in Queues : \A y \in b.l[k] : y \in a.l[k] \/ (k = n /\ y.m = m)
  BY <1>3
<1>8. \A j, k \in Queues : \A y \in b.l[j] : y.m \notin Elems(b.p[k])
  BY <1>4, <1>5, <1>7 DEF Unique
<1>9. \A k \in Queues : \A y \in a.l[k] : y.m # m
  BY <1>1 DEF Unique
<1>10. ASSUME NEW j \in Queues, NEW k \in Queues, NEW y \in b.l[j], NEW z \in b.l[k], y.m = z.m
       PROVE  j = k /\ y = z
  <2>1. CASE y.m = m
    BY <1>7, <1>9, <1>10, <2>1
  <2>2. CASE y.m # m
    BY <1>7, <1>10, <2>2 DEF Unique
  <2> QED  BY <2>1, <2>2
<1> QED
  BY <1>4, <1>5, <1>6, <1>8, <1>10 DEF Unique

\* Whether a message is dead-lettered depends on the policy and its count.
LEMMA RoutesSame ==
  ASSUME NEW a, NEW b, NEW k, NEW m, b.dlq[k] = a.dlq[k], b.max[k] = a.max[k],
         b.msg[m].rc = a.msg[m].rc
  PROVE  Routes(b, k, m) <=> Routes(a, k, m)
  BY DEF Routes

\* A dead-letter queue has no policy.
LEMMA PlainTarget ==
  ASSUME Plain, NEW a, Good(a), NEW n \in Queues, a.dlq[n] # None
  PROVE  a.dlq[n] \in Queues /\ a.dlq[a.dlq[n]] = None
<1>1. PolicyOk(a, n) /\ a.dlq[n] \in Queues
  <2>1. PolicyOk(a, n)
    BY DEF Good
  <2> QED  BY <2>1, PolicyInForce
<1>2. PolicyOk(a, a.dlq[n])
  BY <1>1 DEF Good
<1> QED
  BY <1>1, <1>2 DEF PolicyOk, Plain

\* Moves keep one place for every message.
LEMMA UniqueMove ==
  ASSUME Plain, NEW a, Good(a), Unique(a), Settled(a), NEW b, NEW n \in Queues, NEW t, NEW B,
         NEW N, Move(a, b, n, t, B, N)
  PROVE  Unique(b) /\ Settled(b)
<1>0. Steady(a, b)
  BY MoveAt
<1>p. b.dlq = a.dlq /\ b.max = a.max
  BY <1>0 DEF Steady
<1>g. \A k \in Queues : /\ Elems(a.p[k]) \subseteq 1 .. Len(a.msg)
                       /\ \A x \in a.l[k] : x.m \in 1 .. Len(a.msg)
  BY GoodParts
<1>s. ASSUME Still(a, b), NEW k \in Queues, NEW m \in 1 .. Len(a.msg)
      PROVE  Routes(b, k, m) <=> Routes(a, k, m)
  BY <1>p, <1>s, RoutesSame DEF Still
<1>1. CASE Stays(a, b) \/ Drops(a, b, n, B)
  <2>1. /\ Still(a, b) /\ \A k \in Queues : b.p[k] = a.p[k] /\ b.l[k] \subseteq a.l[k]
    BY <1>1 DEF Stays, Drops, Ends, SamePending, SameLeases
  <2>2. Unique(b)
    BY <2>1, UniqueEnds
  <2>3. Settled(b)
    BY <1>g, <1>s, <2>1 DEF Settled
  <2> QED  BY <2>2, <2>3
<1>2. CASE Backs(a, b, n, t, B)
  <2>1. PICK x, i : /\ Ends(a, b, n, x, B) /\ ~Routes(a, n, x.m)
                    /\ Puts(a.p[n], i, x.m, b.p[n])
    BY <1>2 DEF Backs
  <2>2. Still(a, b) /\ SamePending(a, b, {n}) /\ x \in a.l[n]
        /\ b.l[n] = a.l[n] \ {x} /\ SameLeases(a, b, {n})
    BY <1>2, <2>1 DEF Backs, Ends
  <2>3. Unique(b)
    BY <2>1, <2>2, UniqueBack
  <2>4. Elems(b.p[n]) = Elems(a.p[n]) \cup {x.m}
    BY <2>1, PutsElems
  <2>5. Settled(b)
    BY <1>g, <1>s, <2>1, <2>2, <2>4 DEF Settled, SamePending
  <2> QED  BY <2>3, <2>5
<1>3. CASE Deads(a, b, n, B)
  <2> DEFINE d == a.dlq[n]
  <2>1. PICK x : /\ Ends(a, b, n, x, B) /\ Routes(a, n, x.m)
                 /\ Puts(a.p[d], Len(a.p[d]) + 1, x.m, b.p[d])
    BY <1>3 DEF Deads, Tails
  <2>2. Still(a, b) /\ SamePending(a, b, {d}) /\ x \in a.l[n]
        /\ b.l[n] = a.l[n] \ {x} /\ SameLeases(a, b, {n})
    BY <1>3, <2>1 DEF Deads, Ends
  <2>3. d \in Queues /\ a.dlq[d] = None
    BY <2>1, PlainTarget DEF Routes
  <2> HIDE DEF d
  <2>4. Unique(b)
    BY <2>1, <2>2, <2>3, UniqueBack
  <2>5. \A m : ~Routes(b, d, m)
    BY <1>p, <2>3 DEF Routes
  <2>6. Settled(b)
    BY <1>g, <1>s, <2>2, <2>5 DEF Settled, SamePending
  <2> QED  BY <2>4, <2>6
<1>4. CASE Discards(a, b, n)
  <2>1. PICK i, m : Puts(b.p[n], i, m, a.p[n])
    BY <1>4 DEF Discards
  <2>2. Still(a, b) /\ SamePending(a, b, {n}) /\ SameLeases(a, b, {}) /\ b.l[n] = a.l[n]
    BY <1>4 DEF Discards, SameLeases
  <2>3. Elems(a.p[n]) = Elems(b.p[n]) \cup {m}
    BY <2>1, PutsElems
  <2>4. \A y \in b.l[n] : y.m # m
    BY <2>2, <2>3 DEF Unique
  <2>5. SameLeases(a, b, {n})
    BY <2>2 DEF SameLeases
  <2>6. Unique(b)
    BY <2>1, <2>2, <2>4, <2>5, UniqueOut
  <2>7. Settled(b)
    BY <1>g, <1>s, <2>2, <2>3 DEF Settled, SamePending
  <2> QED  BY <2>6, <2>7
<1>5. CASE Hands(a, b, n, t, B)
  <2>1. PICK i, m, x : HandsOut(a, b, n, t, B, i, m, x)
    BY <1>5 DEF Hands
  <2>2. /\ SamePending(a, b, {n}) /\ SameLeases(a, b, {n})
        /\ Puts(b.p[n], i, m, a.p[n]) /\ b.l[n] = a.l[n] \cup {x} /\ x.m = m
        /\ \A k \in 1 .. Len(a.msg) : k # m => b.msg[k].rc = a.msg[k].rc
    BY <1>5, <2>1 DEF Hands, HandsOut
  <2>3. Elems(a.p[n]) = Elems(b.p[n]) \cup {m}
    BY <2>2, PutsElems
  <2>4. \A y \in a.l[n] : y.m # m
    BY <2>3 DEF Unique
  <2>5. Unique(b) /\ \A k \in Queues : m \notin Elems(b.p[k])
    BY <2>2, <2>4, UniqueOut
  <2>6. ASSUME NEW k \in Queues, NEW u \in Elems(b.p[k]) PROVE ~Routes(b, k, u)
    <3>1. u \in Elems(a.p[k]) /\ u # m
      BY <2>2, <2>3, <2>5 DEF SamePending
    <3>2. b.msg[u].rc = a.msg[u].rc
      BY <1>g, <2>2, <3>1
    <3> QED  BY <1>p, <3>1, <3>2, RoutesSame DEF Settled
  <2> QED  BY <2>5, <2>6 DEF Settled
<1>6. ~Redirects(a, b, n) /\ ~Copies(a, b, n)
  <2>1. ASSUME NEW i, NEW m, Puts(b.p[n], i, m, a.p[n]), Routes(a, n, m) PROVE FALSE
    <3>1. m \in Elems(a.p[n])
      BY <2>1, PutsElems
    <3> QED  BY <2>1, <3>1 DEF Settled
  <2> QED  BY <2>1 DEF Redirects, Copies, Settled
<1> QED
  BY <1>1, <1>2, <1>3, <1>4, <1>5, <1>6 DEF Move

\* The moves of a run keep one place for every message.
LEMMA UniqueRun ==
  ASSUME Plain, NEW a, Unique(a), Settled(a), NEW b, NEW t, NEW B \in Nat,
         NEW N \in SUBSET Queues, NEW K \in Nat, NEW g, Runs(g, K, a, b, t, B, N),
         NEW j \in 0 .. K
  PROVE  Unique(g[j]) /\ Settled(g[j])
<1> DEFINE T == {i \in 0 .. K : Unique(g[i]) /\ Settled(g[i])}
<1>0. /\ g[0] = a /\ Moved(g, K, t, B, N) /\ \A i \in 0 .. K : Good(g[i])
  BY DEF Runs, GoodRun
<1>1. 0 \in T
  BY <1>0
<1>2. ASSUME NEW i \in 1 .. j, i - 1 \in T PROVE i \in T
  <2>1. i \in 1 .. K /\ i \in 0 .. K /\ i - 1 \in 0 .. K
    OBVIOUS
  <2>2. PICK n \in N : Move(g[i - 1], g[i], n, t, B, N)
    BY <1>0, <2>1 DEF Moved
  <2>3. Good(g[i - 1]) /\ Unique(g[i - 1]) /\ Settled(g[i - 1]) /\ n \in Queues
    BY <1>0, <1>2, <2>1
  <2>4. Unique(g[i]) /\ Settled(g[i])
    BY <2>2, <2>3, UniqueMove
  <2> QED  BY <2>1, <2>4
<1>3. j \in T
  <2> HIDE DEF T
  <2> QED  BY <1>1, <1>2, Upward
<1> QED
  BY <1>3

\* So do the steps that move no message.
LEMMA OthersUnique ==
  ASSUME Plain, NEW a, Good(a), Unique(a), Settled(a), NEW b,
         Prolongs(a, b) \/ Empties(a, b) \/ Retunes(a, b)
  PROVE  Unique(b) /\ Settled(b)
<1>g. \A k \in Queues : Elems(a.p[k]) \subseteq 1 .. Len(a.msg)
  BY GoodParts
<1>1. CASE Retunes(a, b)
  <2>1. /\ \A k \in Queues : b.p[k] = a.p[k] /\ b.l[k] = a.l[k]
        /\ b.msg = a.msg
        /\ \A k \in Queues : b.dlq[k] = None \/ (b.dlq[k] = a.dlq[k] /\ b.max[k] = a.max[k])
    BY <1>1 DEF Retunes, SamePending, SameLeases, Plain
  <2>2. Unique(b)
    BY <2>1, UniqueEnds
  <2>3. Settled(b)
    BY <2>1 DEF Settled, Routes
  <2> QED  BY <2>2, <2>3
<1>2. CASE Empties(a, b)
  <2>1. /\ Still(a, b)
        /\ \A k \in Queues : /\ b.p[k] = a.p[k] \/ b.p[k] = <<>>
                             /\ b.l[k] \subseteq a.l[k]
    BY <1>2 DEF Empties, SamePending, SameLeases
  <2>2. Unique(b)
    BY <2>1, UniqueEnds
  <2>3. ASSUME NEW k \in Queues, NEW m \in Elems(b.p[k]) PROVE ~Routes(b, k, m)
    <3>1. Elems(<<>>) = {}
      BY DEF Elems
    <3>2. m \in Elems(a.p[k])
      BY <2>1, <3>1
    <3>3. b.dlq = a.dlq /\ b.max = a.max /\ b.msg[m].rc = a.msg[m].rc
      BY <1>g, <2>1, <3>2 DEF Still, Steady
    <3> QED  BY <3>2, <3>3, RoutesSame DEF Settled
  <2> QED  BY <2>2, <2>3 DEF Settled
<1>3. CASE Prolongs(a, b)
  <2>1. PICK n \in Queues :
          /\ Still(a, b) /\ SamePending(a, b, {}) /\ SameLeases(a, b, {n})
          /\ \E x, y : /\ x \in a.l[n] /\ y.m = x.m
                       /\ b.l[n] = (a.l[n] \ {x}) \cup {y}
    BY <1>3 DEF Prolongs
  <2>2. PICK x, y : x \in a.l[n] /\ y.m = x.m /\ b.l[n] = (a.l[n] \ {x}) \cup {y}
    BY <2>1
  <2>3. /\ \A k \in Queues : b.p[k] = a.p[k]
        /\ \A k \in Queues : \A z \in b.l[k] :
             (z \in a.l[k] /\ z.m # x.m) \/ (k = n /\ z = y)
    <3>1. \A k \in Queues : k # n => b.l[k] = a.l[k]
      BY <2>1 DEF SameLeases
    <3>2. \A k \in Queues : \A z \in a.l[k] : z.m = x.m => k = n /\ z = x
      BY <2>2 DEF Unique
    <3> QED  BY <2>1, <2>2, <3>1, <3>2 DEF SamePending
  <2>4. \A k \in Queues : y.m \notin Elems(a.p[k])
    BY <2>2 DEF Unique
  <2>5. /\ \A k \in Queues : Once(b.p[k])
        /\ \A j, k \in Queues : \A m \in Elems(b.p[j]) : m \in Elems(b.p[k]) => j = k
    BY <2>3 DEF Unique
  <2>6. \A j, k \in Queues : \A z \in b.l[j] : z.m \notin Elems(b.p[k])
    BY <2>3, <2>4 DEF Unique
  <2>7. \A j, k \in Queues : \A u \in b.l[j], z \in b.l[k] : u.m = z.m => j = k /\ u = z
    BY <2>2, <2>3 DEF Unique
  <2>8. Unique(b)
    BY <2>5, <2>6, <2>7 DEF Unique
  <2>9. ASSUME NEW k \in Queues, NEW m \in Elems(b.p[k]) PROVE ~Routes(b, k, m)
    <3>1. m \in Elems(a.p[k])
      BY <2>3
    <3>2. b.dlq = a.dlq /\ b.max = a.max /\ b.msg[m].rc = a.msg[m].rc
      BY <1>g, <2>1, <3>1 DEF Still, Steady
    <3> QED  BY <3>1, <3>2, RoutesSame DEF Settled
  <2> QED  BY <2>8, <2>9 DEF Settled
<1> QED
  BY <1>1, <1>2, <1>3

\* A lease that is given up.
LEMMA ReturnsUnique ==
  ASSUME Plain, NEW a, Good(a), Unique(a), Settled(a), NEW b, NEW t \in Int, Returns(a, b, t)
  PROVE  Unique(b) /\ Settled(b)
<1>1. PICK n \in Queues, s \in Int : \E c, m :
        Reshows(a, c, m, t) /\ (Backs(c, b, n, s, a.uuid) \/ Deads(c, b, n, a.uuid))
  BY DEF Returns
<1>2. PICK c, m : Reshows(a, c, m, t) /\ (Backs(c, b, n, s, a.uuid) \/ Deads(c, b, n, a.uuid))
  BY <1>1
<1>3. Good(c)
  BY <1>2, ReshowsGood
<1>4. \A k \in Queues : c.p[k] = a.p[k] /\ c.l[k] = a.l[k]
  BY <1>2 DEF Reshows, SamePending, SameLeases
<1>5. Unique(c)
  BY <1>4, UniqueEnds
<1>6. ASSUME NEW k \in Queues, NEW u \in Elems(c.p[k]) PROVE ~Routes(c, k, u)
  <2>1. u \in Elems(a.p[k]) /\ u \in 1 .. Len(a.msg)
    BY <1>4, GoodParts
  <2>2. c.dlq = a.dlq /\ c.max = a.max /\ c.msg[u].rc = a.msg[u].rc
    BY <1>2, <2>1 DEF Reshows
  <2> QED  BY <2>1, <2>2, RoutesSame DEF Settled
<1>7. Move(c, b, n, s, a.uuid, {n}) /\ Settled(c)
  BY <1>2, <1>6 DEF Move, Settled
<1> QED
  BY <1>3, <1>5, <1>7, UniqueMove

\* A new message.
LEMMA AcceptsUnique ==
  ASSUME NEW a, Good(a), Unique(a), Settled(a), NEW b, NEW n \in Queues, NEW e,
         Accepts(a, b, n, e)
  PROVE  Unique(b) /\ Settled(b)
<1> DEFINE H == Len(a.msg)
           m == H + 1
<1>1. /\ b.msg[m] = e /\ \A k \in 1 .. H : b.msg[k] = a.msg[k]
      /\ Puts(a.p[n], Len(a.p[n]) + 1, m, b.p[n]) /\ e.rc = 0
      /\ \A k \in Queues : /\ k # n => b.p[k] = a.p[k]
                           /\ b.l[k] = a.l[k] /\ b.dlq[k] = a.dlq[k] /\ b.max[k] = a.max[k]
  BY DEF Accepts, SamePending, SameLeases, Tails
<1>2. H \in Nat
  BY DEF Good, IsSeq
<1> HIDE DEF H
<1>3. /\ \A k \in Queues : Elems(a.p[k]) \subseteq 1 .. H
      /\ \A k \in Queues : \A x \in a.l[k] : x.m \in 1 .. H
  BY GoodParts DEF H
<1>4. Elems(b.p[n]) = Elems(a.p[n]) \cup {m} /\ m \notin 1 .. H
  BY <1>1, <1>2, PutsElems
<1>5. Once(b.p[n]) <=> Once(a.p[n]) /\ m \notin Elems(a.p[n])
  BY <1>1, PutsOnce
<1> HIDE DEF m
<1>6. \A k \in Queues : \A u \in Elems(b.p[k]) : u \in Elems(a.p[k]) \/ (u = m /\ k = n)
  BY <1>1, <1>4
<1>7. \A k \in Queues : m \notin Elems(a.p[k]) /\ \A x \in a.l[k] : x.m # m
  BY <1>3, <1>4
<1>8. \A k \in Queues : Once(b.p[k])
  BY <1>1, <1>5, <1>7 DEF Unique
<1>9. \A j, k \in Queues : \A u \in Elems(b.p[j]) : u \in Elems(b.p[k]) => j = k
  BY <1>6, <1>7 DEF Unique
<1>10. \A j, k \in Queues : \A x \in b.l[j] : x.m \notin Elems(b.p[k])
  BY <1>1, <1>6, <1>7 DEF Unique
<1>11. \A j, k \in Queues : \A x \in b.l[j], y \in b.l[k] : x.m = y.m => j = k /\ x = y
  BY <1>1 DEF Unique
<1>12. ASSUME NEW k \in Queues, NEW u \in Elems(b.p[k]) PROVE ~Routes(b, k, u)
  <2>1. CASE u \in Elems(a.p[k])
    <3>1. b.msg[u].rc = a.msg[u].rc
      BY <1>1, <1>3, <2>1
    <3> QED  BY <1>1, <2>1, <3>1, RoutesSame DEF Settled
  <2>2. CASE u = m
    <3>1. PolicyOk(a, k)
      BY DEF Good
    <3>2. a.dlq[k] # None => a.max[k] \in Nat \ {0}
      BY <3>1, PolicyInForce
    <3>3. b.msg[u].rc = 0 /\ b.dlq[k] = a.dlq[k] /\ b.max[k] = a.max[k]
      BY <1>1, <2>2
    <3> QED  BY <3>2, <3>3 DEF Routes
  <2> QED  BY <1>6, <2>1, <2>2
<1> QED
  BY <1>8, <1>9, <1>10, <1>11, <1>12 DEF Unique, Settled

\* Every step keeps one place for every message.
LEMMA StepUnique ==
  ASSUME Plain, NEW a, Good(a), Placed(a), Unique(a), Settled(a), NEW b, NEW s \in Int,
         Step(a, b, s)
  PROVE  Unique(b) /\ Settled(b)
<1>1. a.uuid \in Nat
  BY DEF Good
<1>2. ASSUME NEW t, NEW N \in SUBSET Queues, Chain(a, b, t, a.uuid, N)
      PROVE  Unique(b) /\ Settled(b)
  <2>1. PICK K \in Nat : \E g : Runs(g, K, a, b, t, a.uuid, N)
    BY <1>1, <1>2, PlacedRun
  <2>2. PICK g : Runs(g, K, a, b, t, a.uuid, N)
    BY <2>1
  <2>3. K \in 0 .. K
    OBVIOUS
  <2>4. Unique(g[K]) /\ Settled(g[K])
    BY <1>1, <2>2, <2>3, UniqueRun
  <2> QED  BY <2>2, <2>4 DEF Runs
<1> QED
  BY <1>2, ReturnsUnique, OthersUnique, AcceptsUnique DEF Step

\* Empty queues.
LEMMA BlankUnique ==
  ASSUME NEW v, Blank(v)
  PROVE  Unique(v) /\ Settled(v)
<1>1. Elems(<<>>) = {} /\ Once(<<>>)
  BY DEF Elems, Once
<1>2. \A k \in Queues : v.p[k] = <<>> /\ v.l[k] = {}
  BY DEF Blank
<1> QED
  BY <1>1, <1>2 DEF Unique, Settled

\* The inductive invariant of the queues with plain policies.
SoleInv == PlaceInv /\ Unique(Here) /\ Settled(Here)

\* The queues start with it.
LEMMA InitSole == Init => SoleInv
  BY InitPlace, InitBlank, BlankUnique DEF SoleInv

\* Every step keeps it when the policies are plain.
LEMMA NextSole == Plain => (SoleInv /\ [Next]_vars => SoleInv')
<1> SUFFICES ASSUME Plain, SoleInv, [Next]_vars PROVE SoleInv'
  OBVIOUS
<1>1. PlaceInv' /\ Leads /\ Unique(Here) /\ Settled(Here)
  BY NextPlace DEF SoleInv
<1>2. Unique(Here') /\ Settled(Here')
  BY <1>1, StepUnique DEF Leads
<1> QED
  BY <1>1, <1>2 DEF SoleInv

\* A message is at one position of one slice.
LEMMA SolePlaces ==
  ASSUME SoleInv, NEW m, NEW x \in Places(m), NEW y \in Places(m)
  PROVE  x = y
<1> DEFINE v == Here
<1>1. Unique(v) /\ Good(v)
  BY DEF SoleInv, PlaceInv, ViewInv
<1>2. ASSUME NEW n \in Queues
      PROVE  /\ v.p[n] = queues[n].messages /\ v.l[n] = ToSet(queues[n].inflight)
             /\ queues[n].messages \in Seq(Nat) /\ Distinct(queues[n].inflight)
  <2>1. v.p[n] = queues[n].messages /\ v.l[n] = ToSet(queues[n].inflight)
    BY QueueHere
  <2>2. Distinct(queues[n].inflight)
    BY WorldFields DEF SoleInv, PlaceInv, ViewInv, QueueInv, Sound, Indexed
  <2> HIDE DEF v
  <2> QED  BY <1>1, <2>1, <2>2, GoodParts
<1> HIDE DEF v
<1> DEFINE P(n, i) == i \in DOMAIN queues[n].messages /\ queues[n].messages[i] = m
           I(n, i) == i \in DOMAIN queues[n].inflight /\ queues[n].inflight[i].m = m
<1>3. ASSUME NEW z \in Places(m)
      PROVE  \E n \in Queues : \E i : \/ z = <<n, "pending", i>> /\ P(n, i)
                                      \/ z = <<n, "inflight", i>> /\ I(n, i)
  BY <1>3 DEF Places
<1>4. ASSUME NEW n \in Queues, NEW i, P(n, i) PROVE m \in Elems(v.p[n])
  <2>1. DOMAIN queues[n].messages = 1 .. Len(queues[n].messages)
    BY <1>2
  <2> QED  BY <1>2, <1>4, <2>1 DEF Elems
<1>5. ASSUME NEW n \in Queues, NEW i, I(n, i)
      PROVE  queues[n].inflight[i] \in v.l[n] /\ queues[n].inflight[i].m = m
  BY <1>2, <1>5 DEF ToSet
<1>6. ASSUME NEW n \in Queues, NEW i, NEW k \in Queues, NEW j, P(n, i), P(k, j)
      PROVE  n = k /\ i = j
  <2>1. n = k
    BY <1>1, <1>4, <1>6 DEF Unique
  <2>2. DOMAIN queues[n].messages = 1 .. Len(queues[n].messages) /\ Once(queues[n].messages)
    BY <1>1, <1>2 DEF Unique
  <2> QED  BY <1>6, <2>1, <2>2 DEF Once
<1>7. ASSUME NEW n \in Queues, NEW i, NEW k \in Queues, NEW j, I(n, i), I(k, j)
      PROVE  n = k /\ i = j
  <2> DEFINE e == queues[n].inflight[i]
             f == queues[k].inflight[j]
  <2>1. e \in v.l[n] /\ f \in v.l[k] /\ e.m = f.m
    BY <1>5, <1>7
  <2>2. n = k /\ e = f
    BY <1>1, <2>1 DEF Unique
  <2>3. i \in DOMAIN queues[n].inflight /\ j \in DOMAIN queues[n].inflight
        /\ queues[n].inflight[i].handle = queues[n].inflight[j].handle
    BY <1>7, <2>2
  <2> QED  BY <1>2, <2>2, <2>3 DEF Distinct
<1>8. ASSUME NEW n \in Queues, NEW i, NEW k \in Queues, NEW j, P(n, i), I(k, j) PROVE FALSE
  <2>1. m \in Elems(v.p[n])
    BY <1>4, <1>8
  <2>2. \E f \in v.l[k] : f.m = m
    BY <1>5, <1>8
  <2> QED  BY <1>1, <2>1, <2>2 DEF Unique
<1> HIDE DEF P, I
<1>9. PICK n \in Queues : \E i : \/ x = <<n, "pending", i>> /\ P(n, i)
                                 \/ x = <<n, "inflight", i>> /\ I(n, i)
  BY <1>3
<1>10. PICK i : \/ x = <<n, "pending", i>> /\ P(n, i)
                \/ x = <<n, "inflight", i>> /\ I(n, i)
  BY <1>9
<1>11. PICK k \in Queues : \E j : \/ y = <<k, "pending", j>> /\ P(k, j)
                                  \/ y = <<k, "inflight", j>> /\ I(k, j)
  BY <1>3
<1>12. PICK j : \/ y = <<k, "pending", j>> /\ P(k, j)
                \/ y = <<k, "inflight", j>> /\ I(k, j)
  BY <1>11
<1> QED
  BY <1>6, <1>7, <1>8, <1>10, <1>12

\* The invariant implies the property.
LEMMA SoleOne == SoleInv => OnePlace
<1> SUFFICES ASSUME SoleInv, NEW m \in DOMAIN msg PROVE Cardinality(Places(m)) <= 1
  BY DEF OnePlace
<1>1. \A x, y \in Places(m) : x = y
  BY SolePlaces
<1>2. CASE Places(m) = {}
  BY <1>2, FS_EmptySet
<1>3. ASSUME NEW x \in Places(m) PROVE Cardinality(Places(m)) <= 1
  <2>1. Places(m) = {x}
    BY <1>1, <1>3
  <2> QED  BY <2>1, FS_Singleton
<1> QED
  BY <1>2, <1>3

\* For every set of queues and of messages: with the redrive policies given at
\* CreateQueue, and dead-letter queues that have none, no message is at two
\* places: requeueing, leasing and dead-letter routing move it and never copy it.
THEOREM OnePlaceSafe == Plain => (Spec => []OnePlace)
<1> SUFFICES ASSUME Plain PROVE Spec => []OnePlace
  OBVIOUS
<1>1. SoleInv /\ [Next]_vars => SoleInv'
  BY NextSole
<1>2. Spec => []SoleInv
  BY InitSole, <1>1, PTL DEF Spec
<1> QED
  BY <1>2, SoleOne, PTL

-----------------------------------------------------------------------------
(* What a receive hands out.                                               *)

\* Leases come from a receive of the queue that took them.
LEMMA MoveFresh ==
  ASSUME NEW a, NEW b, NEW n, NEW t, NEW B, NEW N, Move(a, b, n, t, B, N),
         NEW k \in Queues, NEW x \in b.l[k]
  PROVE  x \in a.l[k] \/ (N = {k} /\ x.batch = B /\ x.handle = a.uuid + 1)
<1>1. CASE Stays(a, b) \/ Redirects(a, b, n) \/ Discards(a, b, n) \/ Copies(a, b, n)
  BY <1>1 DEF Stays, Redirects, Discards, Copies, SameLeases
<1>2. CASE Drops(a, b, n, B) \/ Backs(a, b, n, t, B) \/ Deads(a, b, n, B)
  <2>1. PICK y : Ends(a, b, n, y, B)
    BY <1>2 DEF Drops, Backs, Deads
  <2> QED  BY <2>1 DEF Ends, SameLeases
<1>3. CASE N = {n} /\ Hands(a, b, n, t, B)
  <2>1. PICK i, m, y : HandsOut(a, b, n, t, B, i, m, y)
    BY <1>3 DEF Hands
  <2>2. /\ SameLeases(a, b, {n}) /\ b.l[n] = a.l[n] \cup {y}
        /\ y.handle = a.uuid + 1 /\ y.batch = B
    BY <1>3, <2>1 DEF Hands, HandsOut
  <2> QED  BY <1>3, <2>2 DEF SameLeases
<1> QED
  BY <1>1, <1>2, <1>3 DEF Move

\* Lease x of queue k is one of a, or one that the run of batch B has given.
OldOrNew(a, x, k, B, N) == x \in a.l[k] \/ (N = {k} /\ x.batch = B /\ x.handle > B)

\* So are the leases of a run.
LEMMA RunFresh ==
  ASSUME NEW a, NEW b, NEW t, NEW B \in Nat, NEW N \in SUBSET Queues, NEW K \in Nat, NEW g,
         Runs(g, K, a, b, t, B, N), NEW j \in 0 .. K, NEW k \in Queues, NEW x \in g[j].l[k]
  PROVE  OldOrNew(a, x, k, B, N)
<1> DEFINE F(y) == y \in a.l[k] \/ (N = {k} /\ y.batch = B /\ y.handle > B)
           T == {i \in 0 .. K : \A y \in g[i].l[k] : F(y)}
<1>0. /\ g[0] = a /\ Moved(g, K, t, B, N)
      /\ \A i \in 0 .. K : Good(g[i]) /\ B <= g[i].uuid /\ g[i].uuid \in Nat
  BY DEF Runs, GoodRun, Good
<1>1. 0 \in T
  BY <1>0
<1>2. ASSUME NEW i \in 1 .. j, i - 1 \in T PROVE i \in T
  <2>1. i \in 1 .. K /\ i \in 0 .. K /\ i - 1 \in 0 .. K
    OBVIOUS
  <2>2. PICK n \in N : Move(g[i - 1], g[i], n, t, B, N)
    BY <1>0, <2>1 DEF Moved
  <2>3. ASSUME NEW y \in g[i].l[k] PROVE F(y)
    <3>1. y \in g[i - 1].l[k] \/ (N = {k} /\ y.batch = B /\ y.handle = g[i - 1].uuid + 1)
      BY <2>2, <2>3, MoveFresh
    <3>2. g[i - 1].uuid \in Nat /\ B <= g[i - 1].uuid
      BY <1>0, <2>1
    <3>3. y \in g[i - 1].l[k] => F(y)
      BY <1>2
    <3>4. y.handle = g[i - 1].uuid + 1 => y.handle > B
      BY <3>2
    <3> QED  BY <3>1, <3>3, <3>4
  <2> QED  BY <2>1, <2>3
<1>3. j \in T
  <2> HIDE DEF T
  <2> QED  BY <1>1, <1>2, Upward
<1> QED
  BY <1>3 DEF OldOrNew

\* Only the moves of a receive issue handles.
LEMMA StepFresh ==
  ASSUME NEW a, Good(a), Placed(a), NEW b, Good(b), NEW s, Step(a, b, s),
         NEW n \in Queues, NEW f \in b.l[n], f.handle > a.uuid
  PROVE  /\ f.batch = a.uuid
         /\ \E K \in Nat : \E g : Runs(g, K, a, b, s, a.uuid, {n})
<1>1. a.uuid \in Nat /\ b.uuid \in Nat /\ f.handle <= b.uuid /\ f.handle \in Nat
  BY DEF Good, LeaseOk
<1>2. b.uuid # a.uuid
  BY <1>1
<1>3. PICK k \in Queues : Chain(a, b, s, a.uuid, {k})
  <2>1. ~Returns(a, b, s)
    <3> SUFFICES ASSUME Returns(a, b, s) PROVE FALSE
      OBVIOUS
    <3>1. PICK c, m, j, z : /\ Reshows(a, c, m, s)
                            /\ Backs(c, b, j, z, a.uuid) \/ Deads(c, b, j, a.uuid)
      BY DEF Returns
    <3>2. c.uuid = a.uuid
      BY <3>1 DEF Reshows
    <3>3. b.uuid = c.uuid
      BY <3>1 DEF Backs, Deads, Still
    <3> QED  BY <1>2, <3>2, <3>3
  <2>2. ~Prolongs(a, b) /\ ~Empties(a, b)
    BY <1>2 DEF Prolongs, Empties, Still
  <2>3. ~Retunes(a, b) /\ \A k \in Queues : \A e : ~Accepts(a, b, k, e)
    BY <1>2 DEF Retunes, Accepts
  <2>4. \E k \in Queues, t \in Int : Chain(a, b, t, a.uuid, {k}) /\ t = s
    BY <1>2, <2>1, <2>2, <2>3 DEF Step
  <2> QED  BY <2>4
<1>4. PICK K \in Nat : \E g : Runs(g, K, a, b, s, a.uuid, {k})
  BY <1>1, <1>3, PlacedRun
<1>5. PICK g : Runs(g, K, a, b, s, a.uuid, {k})
  BY <1>4
<1>6. f \in g[K].l[n] /\ K \in 0 .. K /\ {k} \in SUBSET Queues
  BY <1>5 DEF Runs
<1>7. f \in a.l[n] \/ ({k} = {n} /\ f.batch = a.uuid)
  <2> DEFINE N == {k}
             B == a.uuid
  <2>1. /\ B \in Nat /\ N \in SUBSET Queues /\ Runs(g, K, a, b, s, B, N)
        /\ K \in 0 .. K /\ f \in g[K].l[n]
    BY <1>1, <1>5, <1>6
  <2> HIDE DEF N, B
  <2>2. f \in a.l[n] \/ (N = {n} /\ f.batch = B)
    <3>1. OldOrNew(a, f, n, B, N)
      BY <2>1, RunFresh
    <3> QED  BY <3>1 DEF OldOrNew
  <2> QED  BY <2>2 DEF N, B
<1>8. f \notin a.l[n]
  BY <1>1 DEF Good, LeaseOk
<1> QED
  BY <1>5, <1>7, <1>8

\* What lease e of queue k has become when queue n receives in second t: it
\* is there; it has run out; or its message is no longer one of queue n.
Kept(v, n, t, k, e) ==
  \/ e \in v.l[k]
  \/ k = n /\ e.visibleAt < t
  \/ e.m \notin Elems(v.p[n]) /\ \A x \in v.l[n] : x.m # e.m

\* A dead-letter queue is another queue.
LEMMA CarriesAway ==
  ASSUME NEW a, Good(a), NEW b, NEW n \in Queues, NEW m, NEW B, Carries(a, b, n, n, m, B)
  PROVE  FALSE
<1>1. a.dlq[n] = n /\ a.dlq[n] # None /\ PolicyOk(a, n)
  BY DEF Carries, Routes, Good
<1> QED
  BY <1>1, PolicyInForce

\* A move keeps that.
LEMMA KeptMove ==
  ASSUME NEW a, Good(a), Unique(a), NEW b, NEW n \in Queues, NEW t, NEW B, NEW N,
         Move(a, b, n, t, B, N), NEW k \in Queues, NEW e, Kept(a, n, t, k, e)
  PROVE  Kept(b, n, t, k, e)
<1>1. Touches(a, b, n, n, t, B) /\ Touches(a, b, n, k, t, B)
  BY MoveAt
<1>2. CASE k = n /\ e.visibleAt < t
  BY <1>2 DEF Kept
<1>3. CASE e \in a.l[k] /\ k # n
  <2>1. b.l[k] = a.l[k]
    BY <1>1, <1>3 DEF Touches, Rests, Carries, Joins
  <2> QED  BY <1>3, <2>1 DEF Kept
<1>4. CASE e \in a.l[n] /\ k = n
  <2>1. CASE Rests(a, b, n)
    BY <1>4, <2>1 DEF Rests, Kept
  <2>2. ASSUME NEW x, Lapses(a, b, n, x, B) PROVE Kept(b, n, t, k, e)
    <3>1. b.p[n] = a.p[n] /\ x \in a.l[n] /\ b.l[n] = a.l[n] \ {x}
      BY <2>2 DEF Lapses
    <3>2. CASE e = x
      <4>1. e.m \notin Elems(a.p[n]) /\ \A y \in a.l[n] : y.m = e.m => y = e
        BY <1>4 DEF Unique
      <4> QED  BY <3>1, <3>2, <4>1 DEF Kept
    <3>3. CASE e # x
      BY <1>4, <3>1, <3>3 DEF Kept
    <3> QED  BY <3>2, <3>3
  <2>3. ASSUME NEW x, NEW i, Requeues(a, b, n, x, i, t, B) PROVE Kept(b, n, t, k, e)
    BY <1>4, <2>3 DEF Requeues, Kept
  <2>4. ASSUME NEW i, NEW m, Leaves(a, b, n, i, m) PROVE Kept(b, n, t, k, e)
    BY <1>4, <2>4 DEF Leaves, Kept
  <2>5. ASSUME NEW i, NEW m, NEW x, HandsOut(a, b, n, t, B, i, m, x)
        PROVE  Kept(b, n, t, k, e)
    BY <1>4, <2>5 DEF HandsOut, Kept
  <2> QED  BY <1>1, <2>1, <2>2, <2>3, <2>4, <2>5, CarriesAway DEF Touches
<1>5. CASE e.m \notin Elems(a.p[n]) /\ \A x \in a.l[n] : x.m # e.m
  <2>1. CASE Rests(a, b, n)
    BY <1>5, <2>1 DEF Rests, Kept
  <2>2. ASSUME NEW x, Lapses(a, b, n, x, B) PROVE Kept(b, n, t, k, e)
    BY <1>5, <2>2 DEF Lapses, Kept
  <2>3. ASSUME NEW x, NEW i, Requeues(a, b, n, x, i, t, B) PROVE Kept(b, n, t, k, e)
    <3>1. x \in a.l[n] /\ b.l[n] = a.l[n] \ {x} /\ Puts(a.p[n], i, x.m, b.p[n])
      BY <2>3 DEF Requeues
    <3>2. Elems(b.p[n]) = Elems(a.p[n]) \cup {x.m}
      BY <3>1, PutsElems
    <3> QED  BY <1>5, <3>1, <3>2 DEF Kept
  <2>4. ASSUME NEW i, NEW m, Leaves(a, b, n, i, m) PROVE Kept(b, n, t, k, e)
    <3>1. Elems(a.p[n]) = Elems(b.p[n]) \cup {m} /\ b.l[n] = a.l[n]
      BY <2>4, PutsElems DEF Leaves
    <3> QED  BY <1>5, <3>1 DEF Kept
  <2>5. ASSUME NEW i, NEW m, NEW x, HandsOut(a, b, n, t, B, i, m, x)
        PROVE  Kept(b, n, t, k, e)
    <3>1. Puts(b.p[n], i, m, a.p[n]) /\ b.l[n] = a.l[n] \cup {x} /\ x.m = m
      BY <2>5 DEF HandsOut
    <3>2. Elems(a.p[n]) = Elems(b.p[n]) \cup {m}
      BY <3>1, PutsElems
    <3> QED  BY <1>5, <3>1, <3>2 DEF Kept
  <2> QED  BY <1>1, <2>1, <2>2, <2>3, <2>4, <2>5, CarriesAway DEF Touches
<1> QED
  BY <1>2, <1>3, <1>4, <1>5 DEF Kept

\* So does a receive.
LEMMA KeptRun ==
  ASSUME Plain, NEW a, Unique(a), Settled(a), NEW b, NEW t, NEW B \in Nat, NEW n \in Queues,
         NEW K \in Nat, NEW g, Runs(g, K, a, b, t, B, {n}),
         NEW k \in Queues, NEW e \in a.l[k]
  PROVE  Kept(b, n, t, k, e) /\ Unique(b)
<1> DEFINE T == {i \in 0 .. K : Kept(g[i], n, t, k, e)}
<1>0. /\ g[0] = a /\ g[K] = b /\ Moved(g, K, t, B, {n}) /\ \A i \in 0 .. K : Good(g[i])
      /\ {n} \in SUBSET Queues
  BY DEF Runs, GoodRun
<1>u. \A i \in 0 .. K : Unique(g[i])
  BY <1>0, UniqueRun
<1>1. 0 \in T
  BY <1>0 DEF Kept
<1>2. ASSUME NEW i \in 1 .. K, i - 1 \in T PROVE i \in T
  <2>1. i \in 1 .. K /\ i \in 0 .. K /\ i - 1 \in 0 .. K
    OBVIOUS
  <2>2. Move(g[i - 1], g[i], n, t, B, {n})
    BY <1>0, <2>1 DEF Moved
  <2>3. Good(g[i - 1]) /\ Unique(g[i - 1]) /\ Kept(g[i - 1], n, t, k, e)
    BY <1>0, <1>u, <1>2, <2>1
  <2>4. Kept(g[i], n, t, k, e)
    BY <2>2, <2>3, KeptMove
  <2> QED  BY <2>1, <2>4
<1>3. K \in T
  <2> HIDE DEF T
  <2> QED  BY <1>1, <1>2, Upward
<1> QED
  BY <1>0, <1>u, <1>3

\* A receive takes no message from the consumer that holds it.
LEMMA StepRespects ==
  ASSUME Plain, NEW a, Good(a), Placed(a), Unique(a), Settled(a), NEW b, Good(b), NEW s,
         Step(a, b, s), NEW n \in Queues, NEW f \in b.l[n], f.handle > a.uuid,
         NEW k \in Queues, NEW e \in a.l[k], e.m = f.m
  PROVE  k = n /\ e.visibleAt < s
<1>1. PICK K \in Nat : \E g : Runs(g, K, a, b, s, a.uuid, {n})
  BY StepFresh
<1>2. PICK g : Runs(g, K, a, b, s, a.uuid, {n})
  BY <1>1
<1>3. a.uuid \in Nat /\ e.handle <= a.uuid /\ e.handle \in Nat /\ f.handle \in Nat
  BY DEF Good, LeaseOk
<1>4. Kept(b, n, s, k, e) /\ Unique(b)
  BY <1>2, <1>3, KeptRun
<1>5. e # f
  BY <1>3
<1>6. e \notin b.l[k]
  BY <1>4, <1>5 DEF Unique
<1> QED
  BY <1>4, <1>6 DEF Kept

\* The places of queue n in the next state.
LEMMA QueueThere ==
  ASSUME NEW n \in Queues
  PROVE  /\ Here'.p[n] = queues[n].messages' /\ Here'.l[n] = ToSet(queues[n].inflight')
         /\ Here'.msg = msg'
<1>1. Seen(View(World'), World') /\ Here' = View(World')
  BY ViewFields DEF Here
<1>2. World'.q = queues' /\ World'.msg = msg'
  BY DEF World
<1>3. LeaseSet(queues[n].inflight') = ToSet(queues[n].inflight')
  BY DEF LeaseSet, ToSet
<1> QED
  BY <1>1, <1>2, <1>3 DEF Seen

\* The leases of n that a step hands out.
LEMMA FreshHere ==
  ASSUME NEW n \in Queues, NEW f \in Fresh(n)
  PROVE  f \in Here'.l[n] /\ f.handle > Here.uuid
  BY QueueHere, QueueThere DEF Fresh

\* For every set of queues and of messages, with plain policies: a message is
\* handed out again only by the queue whose lease of it ran out; a receive
\* takes no message from the consumer that holds it.
THEOREM HolderSafe == Plain => (Spec => LeaseRespected)
<1> SUFFICES ASSUME Plain PROVE Spec => LeaseRespected
  OBVIOUS
<1>1. SoleInv /\ [Next]_vars => SoleInv'
  BY NextSole
<1>2. ASSUME SoleInv, [Next]_vars
      PROVE  [\A n \in Queues : \A f \in Fresh(n) : \A k \in Queues :
                \A e \in ToSet(queues[k].inflight) :
                  e.m = f.m => k = n /\ e.visibleAt < now]_vars
  <2>1. /\ Good(Here) /\ Placed(Here) /\ Unique(Here) /\ Settled(Here)
        /\ Step(Here, Here', now) /\ Good(Here')
    BY <1>2, NextPlace DEF SoleInv, PlaceInv, ViewInv, Leads
  <2>2. ASSUME NEW n \in Queues, NEW f \in Fresh(n), NEW k \in Queues,
               NEW e \in ToSet(queues[k].inflight), e.m = f.m
        PROVE  k = n /\ e.visibleAt < now
    <3>1. f \in Here'.l[n] /\ f.handle > Here.uuid /\ e \in Here.l[k]
      BY <2>2, FreshHere, QueueHere
    <3> QED  BY <2>1, <2>2, <3>1, StepRespects
  <2> QED  BY <2>2
<1>3. Spec => []SoleInv
  BY InitSole, <1>1, PTL DEF Spec
<1> QED
  BY <1>2, <1>3, PTL DEF Spec, LeaseRespected

\* A move hands out a message, or neither counts a receive nor adds a lease.
LEMMA MoveKinds ==
  ASSUME NEW a, NEW b, NEW n, NEW t, NEW B, NEW N, Move(a, b, n, t, B, N)
  PROVE  \/ Still(a, b) /\ \A k \in Queues : b.l[k] \subseteq a.l[k]
         \/ N = {n} /\ Hands(a, b, n, t, B)
<1>1. CASE Stays(a, b) \/ Redirects(a, b, n) \/ Discards(a, b, n) \/ Copies(a, b, n)
  BY <1>1 DEF Stays, Redirects, Discards, Copies, SameLeases
<1>2. CASE Drops(a, b, n, B) \/ Backs(a, b, n, t, B) \/ Deads(a, b, n, B)
  <2>1. PICK y : Ends(a, b, n, y, B)
    BY <1>2 DEF Drops, Backs, Deads
  <2>2. Still(a, b)
    BY <1>2 DEF Drops, Backs, Deads
  <2> QED  BY <2>1, <2>2 DEF Ends, SameLeases
<1> QED
  BY <1>1, <1>2 DEF Move

\* No dead-letter queue has a redrive policy, whatever policies are set.
NoChain == \A p, r \in Created \cup Redrives : p[2] # r[1]

\* A queue with a policy is at no other end of one.
LEMMA SourceLone ==
  ASSUME NoChain, NEW a, Good(a), Placed(a), NEW n \in Queues, a.dlq[n] # None
  PROVE  n \notin DeadLetters /\ Lone(a, n) /\ a.max[n] \in Nat /\ a.max[n] > 0
<1>1. PICK p \in Created \cup Redrives : p[1] = n /\ p[2] = a.dlq[n] /\ p[3] = a.max[n]
  BY DEF Good, PolicyOk
<1>2. n \notin DeadLetters
  BY <1>1 DEF NoChain, DeadLetters
<1>3. a.max[n] \in Nat \ {0}
  BY <1>1, PolicyAssumption
<1> QED
  BY <1>2, <1>3 DEF Placed, Tidy

\* The leases a receive of n has issued are within the receive limit.
Bounded(v, n, B) == \A x \in v.l[n] : x.handle > B => v.msg[x.m].rc <= v.max[n]

\* A move keeps them within it.
LEMMA BoundedMove ==
  ASSUME NoChain, NEW a, Good(a), Placed(a), NEW b, NEW n \in Queues, a.dlq[n] # None,
         NEW t, NEW B, Move(a, b, n, t, B, {n}), Bounded(a, n, B)
  PROVE  Bounded(b, n, B)
<1>0. Lone(a, n) /\ a.max[n] \in Nat /\ a.max[n] > 0
  BY SourceLone
<1>1. b.max = a.max
  BY MoveAt DEF Steady
<1>2. \A x \in a.l[n] : x.m \in 1 .. Len(a.msg)
  BY GoodParts
<1>3. CASE Still(a, b) /\ \A k \in Queues : b.l[k] \subseteq a.l[k]
  BY <1>1, <1>2, <1>3 DEF Bounded, Still
<1>4. CASE Hands(a, b, n, t, B)
  <2>1. PICK i, m, x : HandsOut(a, b, n, t, B, i, m, x)
    BY <1>4 DEF Hands
  <2>2. /\ Puts(b.p[n], i, m, a.p[n]) /\ b.l[n] = a.l[n] \cup {x} /\ x.m = m
        /\ \A k \in 1 .. Len(a.msg) :
             b.msg[k].rc = IF k = m THEN a.msg[k].rc + 1 ELSE a.msg[k].rc
        /\ Routes(a, n, m) => \E y \in a.l[n] : y.m = m
    BY <2>1 DEF HandsOut
  <2>3. m \in Elems(a.p[n])
    BY <2>2, PutsElems
  <2>4. m \in 1 .. Len(a.msg) /\ a.msg[m].rc \in Nat
    BY <2>3, GoodParts
  <2>5. \A y \in a.l[n] : y.m # m
    BY <1>0, <2>3 DEF Lone
  <2>6. a.msg[m].rc < a.max[n]
    BY <1>0, <2>2, <2>4, <2>5 DEF Routes
  <2>7. b.msg[m].rc <= a.max[n]
    BY <1>0, <2>2, <2>4, <2>6
  <2>8. \A y \in a.l[n] : b.msg[y.m].rc = a.msg[y.m].rc
    BY <1>2, <2>2, <2>5
  <2> QED  BY <1>1, <2>2, <2>7, <2>8 DEF Bounded
<1> QED
  BY <1>3, <1>4, MoveKinds

\* So does a receive.
LEMMA BoundedRun ==
  ASSUME NoChain, NEW a, NEW b, NEW t, NEW n \in Queues, a.dlq[n] # None,
         NEW K \in Nat, NEW g, Runs(g, K, a, b, t, a.uuid, {n})
  PROVE  Bounded(b, n, a.uuid) /\ b.max = a.max
<1> DEFINE B == a.uuid
           T == {i \in 0 .. K : Bounded(g[i], n, B) /\ g[i].dlq = a.dlq /\ g[i].max = a.max}
<1>0. /\ g[0] = a /\ g[K] = b /\ Moved(g, K, t, B, {n})
      /\ \A i \in 0 .. K : Good(g[i]) /\ Placed(g[i])
  BY DEF Runs, GoodRun
<1>1. 0 \in T
  <2>1. \A x \in a.l[n] : ~(x.handle > a.uuid)
    BY <1>0 DEF Good, LeaseOk
  <2> QED  BY <1>0, <2>1 DEF Bounded
<1> HIDE DEF B
<1>2. ASSUME NEW i \in 1 .. K, i - 1 \in T PROVE i \in T
  <2>1. i \in 1 .. K /\ i \in 0 .. K /\ i - 1 \in 0 .. K
    OBVIOUS
  <2>2. Move(g[i - 1], g[i], n, t, B, {n})
    BY <1>0, <2>1 DEF Moved
  <2>3. /\ Good(g[i - 1]) /\ Placed(g[i - 1]) /\ Bounded(g[i - 1], n, B)
        /\ g[i - 1].dlq = a.dlq /\ g[i - 1].max = a.max
    BY <1>0, <1>2, <2>1
  <2>4. Bounded(g[i], n, B)
    BY <2>2, <2>3, BoundedMove
  <2>5. Steady(g[i - 1], g[i])
    BY <2>2, <2>3, MoveAt
  <2> QED  BY <2>1, <2>3, <2>4, <2>5 DEF Steady
<1>3. K \in T
  <2> HIDE DEF T
  <2> QED  BY <1>1, <1>2, Upward
<1> QED
  BY <1>0, <1>3 DEF B

\* For every set of queues and of messages, whatever policies are set at
\* whatever time, when no dead-letter queue has a policy of its own: a queue
\* with a redrive policy hands out no message more than maxReceiveCount times.
THEOREM PoisonSafe == NoChain => (Spec => PoisonBounded)
<1> SUFFICES ASSUME NoChain PROVE Spec => PoisonBounded
  OBVIOUS
<1>1. ASSUME PlaceInv, [Next]_vars
      PROVE  [\A n \in Queues : \A f \in Fresh(n) :
                queues[n].dlq # None => msg'[f.m].rc <= queues[n].maxRC]_vars
  <2>1. /\ Good(Here) /\ Placed(Here) /\ Step(Here, Here', now) /\ Good(Here')
    BY <1>1, NextPlace DEF PlaceInv, ViewInv, Leads
  <2>2. ASSUME NEW n \in Queues, NEW f \in Fresh(n), queues[n].dlq # None
        PROVE  msg'[f.m].rc <= queues[n].maxRC
    <3> DEFINE a == Here
               b == Here'
               s == now
    <3>1. /\ f \in b.l[n] /\ f.handle > a.uuid /\ a.dlq[n] # None
          /\ a.max[n] = queues[n].maxRC /\ b.msg = msg'
      BY <2>2, FreshHere, QueueHere, QueueThere
    <3>2. Good(a) /\ Placed(a) /\ Good(b) /\ Step(a, b, s)
      BY <2>1
    <3> HIDE DEF a, b, s
    <3>3. PICK K \in Nat : \E g : Runs(g, K, a, b, s, a.uuid, {n})
      BY <3>1, <3>2, StepFresh
    <3>4. PICK g : Runs(g, K, a, b, s, a.uuid, {n})
      BY <3>3
    <3>5. Bounded(b, n, a.uuid) /\ b.max = a.max
      BY <3>1, <3>4, BoundedRun
    <3>6. b.msg[f.m].rc <= a.max[n]
      BY <3>1, <3>5 DEF Bounded
    <3> QED  BY <3>1, <3>6
  <2> QED  BY <2>2
<1> QED
  BY InitPlace, NextPlace, <1>1, PTL DEF Spec, PoisonBounded

-----------------------------------------------------------------------------
(* Where a pending message comes from.                                     *)

\* Message m of queue d was there, or was leased there, or some policy routes
\* it to d.
Origin(a, d, m) ==
  \/ m \in Elems(a.p[d]) \/ \E e \in a.l[d] : e.m = m
  \/ \E n \in Queues : a.dlq[n] = d /\ Routes(a, n, m)

\* Along a run from a: the policies are those of a; a message has the count
\* it had, or a lease of this receive; and every pending message has an origin.
Traced(a, v, B, N) ==
  /\ v.dlq = a.dlq /\ v.max = a.max /\ Len(v.msg) = Len(a.msg)
  /\ \A m \in 1 .. Len(a.msg) :
       v.msg[m].rc = a.msg[m].rc \/ \E n : N = {n} /\ \E y \in v.l[n] : y.m = m /\ y.handle > B
  /\ \A d \in Queues : \A m \in Elems(v.p[d]) : Origin(a, d, m)

\* Leases of this receive stay.
LEMMA FreshStays ==
  ASSUME NEW a, Good(a), NEW b, NEW k \in Queues, NEW t, NEW B, NEW N, Move(a, b, k, t, B, N),
         NEW n \in Queues, NEW y \in a.l[n], y.handle > B, B \in Nat
  PROVE  y \in b.l[n]
<1>1. Touches(a, b, k, n, t, B)
  BY MoveAt
<1>2. y.handle \in Nat
  BY DEF Good, LeaseOk
<1>3. ~(y.handle <= B)
  BY <1>2
<1> QED
  BY <1>1, <1>3 DEF Touches, Rests, Carries, Joins, Lapses, Requeues, Leaves, HandsOut

\* The policy that routes a message did so before the receive.
LEMMA RoutesBefore ==
  ASSUME NoChain, NEW a, NEW v, Good(v), Placed(v), NEW b, NEW B \in Nat,
         NEW N \in SUBSET Queues, Traced(a, v, B, N),
         NEW n \in N, NEW k \in Queues, NEW m, Carries(v, b, n, k, m, B)
  PROVE  Origin(a, k, m)
<1>1. /\ k = v.dlq[n] /\ Routes(v, n, m) /\ n \in Queues
      /\ m \in Elems(v.p[n]) \/ \E x \in v.l[n] : x.m = m /\ x.handle <= B
  BY DEF Carries
<1>2. Lone(v, n)
  BY <1>1, SourceLone DEF Routes
<1>3. m \in 1 .. Len(v.msg)
  BY <1>1, GoodParts
<1>4. ASSUME NEW y \in v.l[n], y.m = m, y.handle > B PROVE FALSE
  <2>1. m \notin Elems(v.p[n])
    BY <1>2, <1>4 DEF Lone
  <2>2. PICK x \in v.l[n] : x.m = m /\ x.handle <= B
    BY <1>1, <2>1
  <2>3. x = y
    BY <1>2, <1>4, <2>2 DEF Lone
  <2>4. y.handle \in Nat
    BY <1>1 DEF Good, LeaseOk
  <2> QED  BY <1>4, <2>2, <2>3, <2>4
<1>5. v.msg[m].rc = a.msg[m].rc
  BY <1>3, <1>4 DEF Traced
<1>6. v.dlq = a.dlq /\ v.max = a.max
  BY DEF Traced
<1>7. Routes(a, n, m) /\ a.dlq[n] = k
  BY <1>1, <1>5, <1>6 DEF Routes
<1> QED
  BY <1>1, <1>7 DEF Origin

\* A move keeps the origins.
LEMMA TracedMove ==
  ASSUME NoChain, NEW a, NEW v, Good(v), Placed(v), NEW b, NEW t, NEW B \in Nat,
         NEW N \in SUBSET Queues, NEW n \in N, Move(v, b, n, t, B, N), Traced(a, v, B, N),
         B <= v.uuid, \A k \in Queues : \A x \in v.l[k] : x.handle <= B => x \in a.l[k]
  PROVE  Traced(a, b, B, N)
<1>0. n \in Queues
  OBVIOUS
<1>1. b.dlq = a.dlq /\ b.max = a.max /\ Len(b.msg) = Len(a.msg) /\ Len(v.msg) = Len(a.msg)
  BY <1>0, MoveAt DEF Traced, Steady
<1>2. ASSUME NEW m \in 1 .. Len(a.msg), b.msg[m].rc # a.msg[m].rc
      PROVE  \E k : N = {k} /\ \E y \in b.l[k] : y.m = m /\ y.handle > B
  <2>1. CASE v.msg[m].rc # a.msg[m].rc
    <3>1. PICK k : N = {k} /\ \E y \in v.l[k] : y.m = m /\ y.handle > B
      BY <2>1 DEF Traced
    <3>2. PICK y \in v.l[k] : y.m = m /\ y.handle > B
      BY <3>1
    <3>3. k \in Queues
      BY <3>1
    <3>4. y \in b.l[k]
      BY <1>0, <3>2, <3>3, FreshStays
    <3> QED  BY <3>1, <3>2, <3>4
  <2>2. CASE v.msg[m].rc = a.msg[m].rc
    <3>1. ~Still(v, b)
      BY <1>1, <1>2, <2>2 DEF Still
    <3>2. N = {n} /\ Hands(v, b, n, t, B)
      BY <3>1, MoveKinds
    <3>3. PICK i, k, x : HandsOut(v, b, n, t, B, i, k, x)
      BY <3>2 DEF Hands
    <3>4. /\ x \in b.l[n] /\ x.m = k /\ x.handle = v.uuid + 1
          /\ m # k => b.msg[m].rc = v.msg[m].rc
      BY <1>1, <3>3 DEF HandsOut
    <3>5. v.uuid \in Nat
      BY DEF Good
    <3>6. x.m = m /\ x.handle > B
      BY <1>2, <2>2, <3>4, <3>5
    <3> QED  BY <3>2, <3>4, <3>6
  <2> QED  BY <2>1, <2>2
<1>3. ASSUME NEW d \in Queues, NEW m \in Elems(b.p[d]) PROVE Origin(a, d, m)
  <2>1. Touches(v, b, n, d, t, B)
    BY <1>0, MoveAt
  <2>2. m \in Elems(v.p[d]) => Origin(a, d, m)
    BY DEF Traced
  <2>3. CASE Rests(v, b, d)
    BY <1>3, <2>2, <2>3 DEF Rests
  <2>4. ASSUME NEW k, Carries(v, b, n, d, k, B) PROVE Origin(a, d, m)
    <3>1. Elems(b.p[d]) = Elems(v.p[d]) \cup {k}
      BY <2>4, PutsElems DEF Carries, Joins, Tails
    <3>2. Origin(a, d, k)
      BY <2>4, RoutesBefore
    <3> QED  BY <1>3, <2>2, <3>1, <3>2
  <2>5. ASSUME NEW x, Lapses(v, b, d, x, B) PROVE Origin(a, d, m)
    BY <1>3, <2>2, <2>5 DEF Lapses
  <2>6. ASSUME NEW x, NEW i, Requeues(v, b, d, x, i, t, B) PROVE Origin(a, d, m)
    <3>1. x \in v.l[d] /\ x.handle <= B /\ Puts(v.p[d], i, x.m, b.p[d])
      BY <2>6 DEF Requeues
    <3>2. Elems(b.p[d]) = Elems(v.p[d]) \cup {x.m}
      BY <3>1, PutsElems
    <3>3. Origin(a, d, x.m)
      BY <3>1 DEF Origin
    <3> QED  BY <1>3, <2>2, <3>2, <3>3
  <2>7. ASSUME NEW i, NEW k, Leaves(v, b, d, i, k) PROVE Origin(a, d, m)
    <3>1. Elems(v.p[d]) = Elems(b.p[d]) \cup {k}
      BY <2>7, PutsElems DEF Leaves
    <3> QED  BY <1>3, <2>2, <3>1
  <2>8. ASSUME NEW i, NEW k, NEW x, HandsOut(v, b, d, t, B, i, k, x) PROVE Origin(a, d, m)
    <3>1. Elems(v.p[d]) = Elems(b.p[d]) \cup {k}
      BY <2>8, PutsElems DEF HandsOut
    <3> QED  BY <1>3, <2>2, <3>1
  <2> QED  BY <2>1, <2>3, <2>4, <2>5, <2>6, <2>7, <2>8 DEF Touches
<1> QED
  BY <1>1, <1>2, <1>3 DEF Traced

\* A lease of a run that was not issued in it was there at its start.
LEMMA RunOld ==
  ASSUME NEW a, NEW b, NEW t, NEW B \in Nat, NEW N \in SUBSET Queues, NEW K \in Nat, NEW g,
         Runs(g, K, a, b, t, B, N), NEW j \in 0 .. K, NEW k \in Queues, NEW x \in g[j].l[k]
  PROVE  x \in a.l[k] \/ x.handle > B
<1>1. OldOrNew(a, x, k, B, N)
  BY RunFresh
<1> QED
  BY <1>1 DEF OldOrNew

\* So does a run.
LEMMA TracedRun ==
  ASSUME NoChain, NEW a, NEW b, NEW t, NEW B \in Nat, B = a.uuid, NEW N \in SUBSET Queues,
         NEW K \in Nat, NEW g, Runs(g, K, a, b, t, B, N)
  PROVE  Traced(a, b, B, N)
<1> DEFINE T == {i \in 0 .. K : Traced(a, g[i], B, N)}
<1>0. /\ g[0] = a /\ g[K] = b /\ Moved(g, K, t, B, N)
      /\ \A i \in 0 .. K : Good(g[i]) /\ Placed(g[i]) /\ B <= g[i].uuid
  BY DEF Runs, GoodRun
<1>1. 0 \in T
  BY <1>0 DEF Traced, Origin
<1>2. ASSUME NEW i \in 1 .. K, i - 1 \in T PROVE i \in T
  <2>1. i \in 1 .. K /\ i \in 0 .. K /\ i - 1 \in 0 .. K
    OBVIOUS
  <2> DEFINE v == g[i - 1]
  <2>2. PICK n \in N : Move(v, g[i], n, t, B, N)
    BY <1>0, <2>1 DEF Moved
  <2>3. Good(v) /\ Placed(v) /\ B <= v.uuid /\ Traced(a, v, B, N)
    BY <1>0, <1>2, <2>1
  <2>4. ASSUME NEW k \in Queues, NEW x \in v.l[k], x.handle <= B PROVE x \in a.l[k]
    <3> DEFINE j == i - 1
    <3>0. j \in 0 .. K /\ x \in g[j].l[k]
      BY <2>1, <2>4
    <3> HIDE DEF j, v, T
    <3>1. x \in a.l[k] \/ x.handle > B
      BY <3>0, RunOld
    <3>2. x.handle \in Nat
      BY <2>3 DEF Good, LeaseOk
    <3> QED  BY <2>4, <3>1, <3>2
  <2> HIDE DEF v
  <2>5. Traced(a, g[i], B, N)
    BY <2>2, <2>3, <2>4, TracedMove
  <2> QED  BY <2>1, <2>5
<1>3. K \in T
  <2> HIDE DEF T
  <2> QED  BY <1>1, <1>2, Upward
<1> QED
  BY <1>0, <1>3

\* Every step keeps them too.
LEMMA StepTraced ==
  ASSUME NoChain, NEW a, Good(a), Placed(a), NEW b, NEW s, Step(a, b, s),
         NEW d \in Queues, NEW m \in Elems(b.p[d])
  PROVE  Origin(a, d, m) \/ m = Len(a.msg) + 1
<1>0. a.uuid \in Nat
  BY DEF Good
<1>1. ASSUME NEW t, NEW N \in SUBSET Queues, Chain(a, b, t, a.uuid, N) PROVE Origin(a, d, m)
  <2> DEFINE B == a.uuid
  <2>0. B \in Nat /\ B = a.uuid /\ B <= a.uuid /\ Chain(a, b, t, B, N)
    BY <1>0, <1>1
  <2> HIDE DEF B
  <2>1. PICK K \in Nat : \E g : Runs(g, K, a, b, t, B, N)
    BY <2>0, PlacedRun
  <2>2. PICK g : Runs(g, K, a, b, t, B, N)
    BY <2>1
  <2>3. Traced(a, b, B, N)
    BY <2>0, <2>2, TracedRun
  <2> QED  BY <2>3 DEF Traced
<1>2. CASE Returns(a, b, s)
  <2>1. PICK n \in Queues, r \in Int : \E c, j :
          Reshows(a, c, j, s) /\ (Backs(c, b, n, r, a.uuid) \/ Deads(c, b, n, a.uuid))
    BY <1>2 DEF Returns
  <2>2. PICK c, j : Reshows(a, c, j, s) /\ (Backs(c, b, n, r, a.uuid) \/ Deads(c, b, n, a.uuid))
    BY <2>1
  <2>3. /\ \A k \in Queues : c.p[k] = a.p[k] /\ c.l[k] = a.l[k]
        /\ c.dlq = a.dlq /\ c.max = a.max
        /\ \A k \in 1 .. Len(a.msg) : c.msg[k].rc = a.msg[k].rc
    BY <2>2 DEF Reshows, SamePending, SameLeases
  <2>4. m \in Elems(a.p[d]) => Origin(a, d, m)
    BY DEF Origin
  <2>5. CASE Backs(c, b, n, r, a.uuid)
    <3>1. PICK x, i : x \in c.l[n] /\ Puts(c.p[n], i, x.m, b.p[n])
      BY <2>5 DEF Backs, Ends
    <3>2. Elems(b.p[n]) = Elems(a.p[n]) \cup {x.m} /\ x \in a.l[n]
      BY <2>3, <3>1, PutsElems
    <3>3. d # n => b.p[d] = a.p[d]
      BY <2>3, <2>5 DEF Backs, SamePending
    <3>4. Origin(a, n, x.m)
      BY <3>2 DEF Origin
    <3> QED  BY <2>4, <3>2, <3>3, <3>4
  <2>6. CASE Deads(c, b, n, a.uuid)
    <3>1. PICK x : /\ x \in c.l[n] /\ Routes(c, n, x.m)
                   /\ Puts(c.p[c.dlq[n]], Len(c.p[c.dlq[n]]) + 1, x.m, b.p[c.dlq[n]])
      BY <2>6 DEF Deads, Ends, Tails
    <3>2. d = a.dlq[n] => Elems(b.p[d]) = Elems(a.p[d]) \cup {x.m}
      BY <2>3, <3>1, PutsElems
    <3>3. d # a.dlq[n] => b.p[d] = a.p[d]
      BY <2>3, <2>6 DEF Deads, SamePending
    <3>4. x.m \in 1 .. Len(a.msg)
      BY <2>3, <3>1, GoodParts
    <3>5. Routes(a, n, x.m)
      BY <2>3, <3>1, <3>4, RoutesSame
    <3>6. d = a.dlq[n] => Origin(a, d, x.m)
      BY <3>5 DEF Origin
    <3> QED  BY <2>4, <3>2, <3>3, <3>6
  <2> QED  BY <2>2, <2>5, <2>6
<1>3. CASE Prolongs(a, b) \/ Empties(a, b) \/ Retunes(a, b)
  <2>1. Elems(<<>>) = {}
    BY DEF Elems
  <2>2. b.p[d] = a.p[d] \/ b.p[d] = <<>>
    BY <1>3 DEF Prolongs, Empties, Retunes, SamePending
  <2> QED  BY <2>1, <2>2 DEF Origin
<1>4. ASSUME NEW n \in Queues, NEW e, Accepts(a, b, n, e)
      PROVE  Origin(a, d, m) \/ m = Len(a.msg) + 1
  <2>1. Elems(b.p[n]) = Elems(a.p[n]) \cup {Len(a.msg) + 1}
    BY <1>4, PutsElems DEF Accepts, Tails
  <2>2. d # n => b.p[d] = a.p[d]
    BY <1>4 DEF Accepts, SamePending
  <2> QED  BY <2>1, <2>2 DEF Origin
<1>5. \A n \in Queues : {n} \in SUBSET Queues
  OBVIOUS
<1> QED
  BY <1>1, <1>2, <1>3, <1>4, <1>5 DEF Step

\* For every set of queues and of messages, whatever policies are set at
\* whatever time, when no dead-letter queue has a policy of its own: a message
\* is pending in a queue only if it was sent there or the policy in force
\* routes it there, after maxReceiveCount receives.
THEOREM RoutedSafe == NoChain => (Spec => RoutedByPolicy)
<1> SUFFICES ASSUME NoChain PROVE Spec => RoutedByPolicy
  OBVIOUS
<1>1. ASSUME PlaceInv, [Next]_vars
      PROVE  [\A d \in Queues : \A m \in ToSet(queues[d].messages') :
                \/ m \in ToSet(queues[d].messages) \/ m \notin DOMAIN msg
                \/ \E e \in ToSet(queues[d].inflight) : e.m = m
                \/ \E n \in Queues : /\ queues[n].dlq = d /\ queues[n].maxRC > 0
                                      /\ msg[m].rc >= queues[n].maxRC]_vars
  <2>1. /\ Good(Here) /\ Placed(Here) /\ Step(Here, Here', now) /\ Good(Here')
    BY <1>1, NextPlace DEF PlaceInv, ViewInv, Leads
  <2>2. ASSUME NEW d \in Queues, NEW m \in ToSet(queues[d].messages')
        PROVE  \/ m \in ToSet(queues[d].messages) \/ m \notin DOMAIN msg
               \/ \E e \in ToSet(queues[d].inflight) : e.m = m
               \/ \E n \in Queues : /\ queues[n].dlq = d /\ queues[n].maxRC > 0
                                     /\ msg[m].rc >= queues[n].maxRC
    <3> DEFINE a == Here
               b == Here'
               s == now
    <3>1. /\ a.p[d] = queues[d].messages /\ a.l[d] = ToSet(queues[d].inflight)
          /\ a.msg = msg /\ b.p[d] = queues[d].messages'
          /\ \A n \in Queues : a.dlq[n] = queues[n].dlq /\ a.max[n] = queues[n].maxRC
      BY QueueHere, QueueThere
    <3>2. Good(a) /\ Placed(a) /\ Good(b) /\ Step(a, b, s)
      BY <2>1
    <3> HIDE DEF a, b, s
    <3>3. a.p[d] \in Seq(Nat) /\ b.p[d] \in Seq(Nat) /\ DOMAIN a.msg = 1 .. Len(a.msg)
      BY <3>2 DEF Good, IsSeq
    <3>4. \A r \in Seq(Nat) : Elems(r) = ToSet(r)
      BY DEF Elems, ToSet
    <3>5. m \in Elems(b.p[d]) /\ Elems(a.p[d]) = ToSet(queues[d].messages)
      BY <2>2, <3>1, <3>3, <3>4
    <3>6. Origin(a, d, m) \/ m = Len(a.msg) + 1
      BY <3>2, <3>5, StepTraced
    <3>7. CASE m = Len(a.msg) + 1
      <4>1. Len(a.msg) \in Nat
        BY <3>2 DEF Good, IsSeq
      <4> QED  BY <3>1, <3>3, <3>7, <4>1
    <3>8. CASE Origin(a, d, m)
      BY <3>1, <3>5, <3>8 DEF Origin, Routes
    <3> QED  BY <3>6, <3>7, <3>8
  <2> QED  BY <2>2
<1> QED
  BY InitPlace, NextPlace, <1>1, PTL DEF Spec, RoutedByPolicy

-----------------------------------------------------------------------------
(* The order of a FIFO group.                                              *)

\* No step sets the clock back.
LEMMA NextNow ==
  ASSUME now \in Nat, [Next]_vars
  PROVE  now' \in Nat /\ now <= now'
<1>1. now' = now \/ now' = now + 1
  <2>1. CASE SendStandard \/ SendFIFO \/ Receive
    BY <2>1, Zenon DEF SendStandard, SendFIFO, Receive, SendMessage, ReceiveMessage
  <2>2. CASE Delete \/ ChangeVisibility
    BY <2>2, Zenon DEF Delete, ChangeVisibility, DeleteMessage, ChangeMessageVisibility
  <2>3. CASE \E n \in Queues : PurgeQueue(n) \/ RemoveRedrivePolicy(n)
    BY <2>3, Zenon DEF PurgeQueue, RemoveRedrivePolicy
  <2>4. CASE \/ \E n \in Sources, delay \in Delays : SetDelay(n, delay)
             \/ \E p \in Redrives : ApplyRedrivePolicy(p)
    BY <2>4, Zenon DEF SetDelay, ApplyRedrivePolicy
  <2>5. CASE DrainToDLQ \/ \E n \in Queues, t \in Clocks : PruneState(n, t)
    BY <2>5, Zenon DEF DrainToDLQ, PruneState
  <2>6. CASE Restart
    BY <2>6, Zenon DEF Restart
  <2>7. CASE Tick
    BY <2>7 DEF Tick
  <2>8. CASE UNCHANGED vars
    BY <2>8 DEF vars
  <2> QED
    BY <2>1, <2>2, <2>3, <2>4, <2>5, <2>6, <2>7, <2>8 DEF Next
<1> QED
  BY <1>1

\* No queue delays its messages, and those sent to FIFO queues are visible.
Prompt(v, s) ==
  /\ \A k \in Queues : v.lag[k] = 0
  /\ \A m \in 1 .. Len(v.msg) : IsFIFO(v.msg[m].home) => v.msg[m].visibleAt <= s

\* Moves rewrite no message.
LEMMA PromptSteady ==
  ASSUME NEW a, NEW b, NEW s, Steady(a, b), Prompt(a, s)
  PROVE  Prompt(b, s)
  BY DEF Steady, SameMessage, Prompt

\* The moves of a run.
LEMMA PromptRun ==
  ASSUME NEW a, NEW b, NEW s, NEW t, NEW B, NEW N \in SUBSET Queues, NEW K \in Nat, NEW g,
         Runs(g, K, a, b, t, B, N), Prompt(a, s), NEW j \in 0 .. K
  PROVE  Prompt(g[j], s)
<1> DEFINE T == {i \in 0 .. K : Prompt(g[i], s)}
<1>0. g[0] = a /\ Moved(g, K, t, B, N) /\ \A i \in 0 .. K : Good(g[i])
  BY DEF Runs, GoodRun
<1>1. 0 \in T
  BY <1>0
<1>2. ASSUME NEW i \in 1 .. j, i - 1 \in T PROVE i \in T
  <2>1. i \in 1 .. K /\ i \in 0 .. K /\ i - 1 \in 0 .. K
    OBVIOUS
  <2>2. PICK n \in N : Move(g[i - 1], g[i], n, t, B, N)
    BY <1>0, <2>1 DEF Moved
  <2>3. Good(g[i - 1]) /\ Prompt(g[i - 1], s) /\ n \in Queues
    BY <1>0, <1>2, <2>1
  <2>4. Steady(g[i - 1], g[i])
    BY <2>2, <2>3, MoveAt
  <2>5. Prompt(g[i], s)
    BY <2>3, <2>4, PromptSteady
  <2> QED  BY <2>1, <2>5
<1>3. j \in T
  <2> HIDE DEF T
  <2> QED  BY <1>1, <1>2, Upward
<1> QED
  BY <1>3

\* Every step keeps the messages of FIFO queues visible.
LEMMA StepPrompt ==
  ASSUME Delays \subseteq {0}, NEW a, Good(a), Placed(a), NEW b, NEW s \in Nat,
         Step(a, b, s), Prompt(a, s)
  PROVE  Prompt(b, s)
<1>0. a.uuid \in Nat
  BY DEF Good
<1>1. ASSUME NEW t, NEW N \in SUBSET Queues, Chain(a, b, t, a.uuid, N) PROVE Prompt(b, s)
  <2> DEFINE B == a.uuid
  <2>0. B \in Nat /\ B <= a.uuid /\ Chain(a, b, t, B, N)
    BY <1>0, <1>1
  <2> HIDE DEF B
  <2>1. PICK K \in Nat : \E g : Runs(g, K, a, b, t, B, N)
    BY <2>0, PlacedRun
  <2>2. PICK g : Runs(g, K, a, b, t, B, N)
    BY <2>1
  <2>3. K \in 0 .. K /\ g[K] = b
    BY <2>2 DEF Runs
  <2>4. Prompt(g[K], s)
    BY <2>2, <2>3, PromptRun
  <2> QED  BY <2>3, <2>4
<1>2. CASE Returns(a, b, s)
  <2>1. PICK n \in Queues, r \in Int : \E c, j :
          Reshows(a, c, j, s) /\ (Backs(c, b, n, r, a.uuid) \/ Deads(c, b, n, a.uuid))
    BY <1>2 DEF Returns
  <2>2. PICK c, j : Reshows(a, c, j, s) /\ (Backs(c, b, n, r, a.uuid) \/ Deads(c, b, n, a.uuid))
    BY <2>1
  <2>3. Prompt(c, s)
    BY <2>2 DEF Reshows, Prompt
  <2>4. Steady(c, b)
    BY <2>2 DEF Backs, Deads, Still
  <2> QED  BY <2>3, <2>4, PromptSteady
<1>3. CASE Prolongs(a, b) \/ Empties(a, b)
  <2>1. Steady(a, b)
    BY <1>3 DEF Prolongs, Empties, Still
  <2> QED  BY <2>1, PromptSteady
<1>4. CASE Retunes(a, b)
  BY <1>4 DEF Retunes, Prompt
<1>5. ASSUME NEW n \in Queues, NEW e, Accepts(a, b, n, e) PROVE Prompt(b, s)
  <2>1. /\ \A k \in Queues : b.lag[k] = a.lag[k]
        /\ Len(b.msg) = Len(a.msg) + 1 /\ b.msg[Len(a.msg) + 1] = e
        /\ \A k \in 1 .. Len(a.msg) : b.msg[k] = a.msg[k]
        /\ e.home = n /\ (IsFIFO(n) => e.visibleAt = 0)
    BY <1>5 DEF Accepts, Prompt
  <2>2. Len(a.msg) \in Nat
    BY DEF Good, IsSeq
  <2>3. \A m \in 1 .. Len(b.msg) : m \in 1 .. Len(a.msg) \/ m = Len(a.msg) + 1
    BY <2>1, <2>2
  <2>4. ASSUME NEW m \in 1 .. Len(b.msg), IsFIFO(b.msg[m].home)
        PROVE  b.msg[m].visibleAt <= s
    BY <2>1, <2>3, <2>4 DEF Prompt
  <2> QED  BY <2>1, <2>4 DEF Prompt
<1>6. \A n \in Queues : {n} \in SUBSET Queues
  OBVIOUS
<1> QED
  BY <1>1, <1>2, <1>3, <1>4, <1>5, <1>6 DEF Step

\* No pending message of queue n comes before a message of its group that
\* this receive has handed out.
Ordered(v, n, B) ==
  \A x \in v.l[n] : x.handle > B =>
    \A m \in Elems(v.p[n]) :
      v.msg[m].group = v.msg[x.m].group => v.msg[x.m].seq <= v.msg[m].seq

\* Ordered of less.
LEMMA OrderedLess ==
  ASSUME NEW a, Good(a), NEW b, Steady(a, b), NEW n \in Queues, NEW B, Ordered(a, n, B),
         Elems(b.p[n]) \subseteq Elems(a.p[n]), b.l[n] \subseteq a.l[n]
  PROVE  Ordered(b, n, B)
<1>1. /\ \A x \in a.l[n] : x.m \in 1 .. Len(a.msg)
      /\ Elems(a.p[n]) \subseteq 1 .. Len(a.msg)
  BY GoodParts
<1>2. \A m \in 1 .. Len(a.msg) : b.msg[m].group = a.msg[m].group /\ b.msg[m].seq = a.msg[m].seq
  BY DEF Steady, SameMessage
<1> QED
  BY <1>1, <1>2 DEF Ordered

\* A move keeps the order.
LEMMA OrderedMove ==
  ASSUME NEW a, Good(a), Placed(a), NEW b, Good(b), NEW n \in FifoQueues \ DeadLetters,
         NEW t, NEW B \in Nat, Move(a, b, n, t, B, {n}), Prompt(a, t), t \in Int,
         \A x \in a.l[n] : x.handle > B => x.batch = B, Ordered(a, n, B)
  PROVE  Ordered(b, n, B)
<1>0. n \in Queues /\ IsFIFO(n)
  BY SetsAssumption DEF IsFIFO
<1>1. Grouped(a, n) /\ Native(a, n) /\ Sorted(a, a.p[n])
  BY <1>0 DEF Placed, Tidy
<1>2. Touches(a, b, n, n, t, B) /\ Steady(a, b)
  BY <1>0, MoveAt
<1>3. /\ \A x \in a.l[n] : x.m \in 1 .. Len(a.msg)
      /\ Elems(a.p[n]) \subseteq 1 .. Len(a.msg)
      /\ \A m \in 1 .. Len(a.msg) : b.msg[m].group = a.msg[m].group /\ b.msg[m].seq = a.msg[m].seq
      /\ a.p[n] \in Seq(Nat) /\ b.p[n] \in Seq(Nat)
  BY <1>0, <1>2, GoodParts DEF Steady, SameMessage
<1>4. CASE Rests(a, b, n)
  BY <1>0, <1>2, <1>4, OrderedLess DEF Rests
<1>5. ASSUME NEW x, Lapses(a, b, n, x, B) PROVE Ordered(b, n, B)
  BY <1>0, <1>2, <1>5, OrderedLess DEF Lapses
<1>6. ASSUME NEW i, NEW m, Leaves(a, b, n, i, m) PROVE Ordered(b, n, B)
  <2>1. Elems(a.p[n]) = Elems(b.p[n]) \cup {m} /\ b.l[n] = a.l[n]
    BY <1>6, PutsElems DEF Leaves
  <2> QED  BY <1>0, <1>2, <2>1, OrderedLess
<1>7. ASSUME NEW y, NEW i, Requeues(a, b, n, y, i, t, B) PROVE Ordered(b, n, B)
  <2>1. y \in a.l[n] /\ y.handle <= B /\ b.l[n] = a.l[n] \ {y} /\ Puts(a.p[n], i, y.m, b.p[n])
    BY <1>7 DEF Requeues
  <2>2. Elems(b.p[n]) = Elems(a.p[n]) \cup {y.m}
    BY <2>1, PutsElems
  <2>3. y.batch # B
    <3>1. y.batch < y.handle /\ y.handle \in Nat /\ y.batch \in Int
      BY <1>0, <2>1 DEF Good, LeaseOk, Leases
    <3> QED  BY <2>1, <3>1
  <2>4. ASSUME NEW x \in a.l[n], x.handle > B PROVE a.msg[x.m].group # a.msg[y.m].group
    BY <1>0, <1>1, <2>1, <2>3, <2>4 DEF Grouped
  <2>5. ASSUME NEW x \in b.l[n], x.handle > B, NEW m \in Elems(b.p[n]),
               b.msg[m].group = b.msg[x.m].group
        PROVE  b.msg[x.m].seq <= b.msg[m].seq
    <3>1. x \in a.l[n] /\ x.m \in 1 .. Len(a.msg) /\ y.m \in 1 .. Len(a.msg)
      BY <1>3, <2>1
    <3>2. m \in 1 .. Len(a.msg)
      BY <1>3, <2>2, <3>1
    <3>3. a.msg[m].group = a.msg[x.m].group
      BY <1>3, <2>5, <3>1, <3>2
    <3>4. m \in Elems(a.p[n])
      BY <2>2, <2>4, <2>5, <3>1, <3>3
    <3>5. a.msg[x.m].seq <= a.msg[m].seq
      BY <2>5, <3>1, <3>3, <3>4 DEF Ordered
    <3> QED  BY <1>3, <3>1, <3>2, <3>5
  <2> QED  BY <2>5 DEF Ordered
<1>8. ASSUME NEW i, NEW m, NEW y, HandsOut(a, b, n, t, B, i, m, y) PROVE Ordered(b, n, B)
  <2>1. /\ Puts(b.p[n], i, m, a.p[n]) /\ y.m = m /\ b.l[n] = a.l[n] \cup {y}
        /\ Free(a, n, i, t, B)
    BY <1>0, <1>8 DEF HandsOut
  <2>2. Elems(a.p[n]) = Elems(b.p[n]) \cup {m}
    BY <2>1, PutsElems
  <2>3. i \in 1 .. Len(a.p[n]) /\ a.p[n][i] = m /\ DOMAIN a.p[n] = 1 .. Len(a.p[n])
    BY <1>3, <2>1 DEF Puts
  <2>4. ASSUME NEW k \in Elems(b.p[n]), a.msg[k].group = a.msg[m].group
        PROVE  a.msg[m].seq <= a.msg[k].seq
    <3>1. k \in Elems(a.p[n]) /\ m \in Elems(a.p[n])
      BY <2>2
    <3>2. PICK j \in 1 .. Len(a.p[n]) : a.p[n][j] = k
      BY <3>1 DEF Elems
    <3>3. a.msg[m].group # None
      BY <1>0, <1>1, <3>1 DEF Grouped
    <3>4. a.msg[k].visibleAt <= t /\ a.msg[k].visibleAt \in Int
      <4>1. a.msg[k].home = n /\ k \in 1 .. Len(a.msg)
        BY <1>1, <1>3, <3>1 DEF Native
      <4> QED  BY <1>0, <4>1, GoodParts DEF Prompt
    <3>5. CASE j < i
      <4>1. j \in 1 .. i - 1
        BY <2>3, <3>5
      <4>2. t < a.msg[k].visibleAt
        BY <2>1, <2>3, <2>4, <3>2, <3>3, <4>1 DEF Free
      <4> QED  BY <3>4, <4>2
    <3>6. CASE i < j
      BY <1>1, <2>3, <3>2, <3>6 DEF Sorted
    <3>7. CASE i = j
      <4>1. a.msg[m].seq \in Nat
        BY <1>0, <1>3, <3>1, GoodParts
      <4> QED  BY <2>3, <3>2, <3>7, <4>1
    <3> QED  BY <2>3, <3>5, <3>6, <3>7
  <2>5. ASSUME NEW x \in b.l[n], x.handle > B, NEW k \in Elems(b.p[n]),
               b.msg[k].group = b.msg[x.m].group
        PROVE  b.msg[x.m].seq <= b.msg[k].seq
    <3>1. k \in Elems(a.p[n]) /\ m \in Elems(a.p[n])
      BY <2>2, <2>5
    <3>2. k \in 1 .. Len(a.msg) /\ m \in 1 .. Len(a.msg)
      BY <1>3, <3>1
    <3>3. CASE x = y
      BY <1>3, <2>1, <2>4, <2>5, <3>2, <3>3
    <3>4. CASE x \in a.l[n]
      <4>1. x.m \in 1 .. Len(a.msg)
        BY <1>3, <3>4
      <4>2. a.msg[k].group = a.msg[x.m].group
        BY <1>3, <2>5, <3>2, <4>1
      <4>3. a.msg[x.m].seq <= a.msg[k].seq
        BY <2>5, <3>1, <3>4, <4>2 DEF Ordered
      <4> QED  BY <1>3, <3>2, <4>1, <4>3
    <3> QED  BY <2>1, <2>5, <3>3, <3>4
  <2> QED  BY <2>5 DEF Ordered
<1> QED
  BY <1>0, <1>2, <1>4, <1>5, <1>6, <1>7, <1>8, CarriesAway DEF Touches

\* So does a receive with the clock of now.
LEMMA OrderedRun ==
  ASSUME NEW a, NEW b, NEW t \in Int, NEW B \in Nat, B = a.uuid,
         NEW n \in FifoQueues \ DeadLetters,
         NEW K \in Nat, NEW g, Runs(g, K, a, b, t, B, {n}), Prompt(a, t)
  PROVE  Ordered(b, n, B)
<1> DEFINE T == {i \in 0 .. K : Ordered(g[i], n, B)}
           N == {n}
<1>0. /\ g[0] = a /\ g[K] = b /\ Moved(g, K, t, B, {n})
      /\ \A i \in 0 .. K : Good(g[i]) /\ Placed(g[i])
  BY DEF Runs, GoodRun
<1>n. n \in Queues /\ N \in SUBSET Queues
  BY SetsAssumption
<1>a. \A x \in a.l[n] : ~(x.handle > B)
  BY <1>0, <1>n DEF Good, LeaseOk
<1>1. 0 \in T
  BY <1>0, <1>a DEF Ordered
<1>r. Runs(g, K, a, b, t, B, N)
  OBVIOUS
<1>2. ASSUME NEW i \in 1 .. K, i - 1 \in T PROVE i \in T
  <2> DEFINE j == i - 1
             v == g[j]
  <2>1. i \in 1 .. K /\ i \in 0 .. K /\ j \in 0 .. K
    OBVIOUS
  <2>2. Move(v, g[i], n, t, B, {n})
    BY <1>0, <2>1 DEF Moved
  <2>3. Good(v) /\ Placed(v) /\ Good(g[i]) /\ Ordered(v, n, B)
    BY <1>0, <1>2, <2>1
  <2> HIDE DEF j, N
  <2>4. Prompt(v, t)
    BY <1>n, <1>r, <2>1, PromptRun
  <2>5. ASSUME NEW x \in v.l[n], x.handle > B PROVE x.batch = B
    <3>0. x \in g[j].l[n]
      BY <2>5
    <3> HIDE DEF v
    <3>1. x \in a.l[n] \/ (N = {n} /\ x.batch = B /\ x.handle > B)
      <4>1. OldOrNew(a, x, n, B, N)
        BY <1>n, <1>r, <2>1, <3>0, RunFresh
      <4> QED  BY <4>1 DEF OldOrNew
    <3> QED  BY <1>a, <2>5, <3>1
  <2> HIDE DEF v
  <2>6. Ordered(g[i], n, B)
    BY <2>2, <2>3, <2>4, <2>5, OrderedMove
  <2> QED  BY <2>1, <2>6
<1>3. K \in T
  <2> HIDE DEF T
  <2> QED  BY <1>1, <1>2, Upward
<1> QED
  BY <1>0, <1>3

\* FIFO queues are no dead-letter queues, and nothing is delayed.
InLine == FifoQueues \cap DeadLetters = {} /\ Delays \subseteq {0}

\* The inductive invariant of queues without delays.
PromptInv == PlaceInv /\ now \in Nat /\ Prompt(Here, now)

\* The queues start with it.
LEMMA InitPrompt == Init => PromptInv
<1> SUFFICES ASSUME Init PROVE PromptInv
  OBVIOUS
<1>1. PlaceInv /\ now \in Nat
  BY InitPlace DEF PlaceInv, ViewInv, QueueInv
<1>2. Blank(Here)
  BY InitBlank
<1>3. Prompt(Here, now)
  BY <1>2 DEF Blank, Prompt
<1> QED
  BY <1>1, <1>3 DEF PromptInv

\* Every step keeps it.
LEMMA NextPrompt == InLine => (PromptInv /\ [Next]_vars => PromptInv')
<1> SUFFICES ASSUME InLine, PromptInv, [Next]_vars PROVE PromptInv'
  OBVIOUS
<1>1. PlaceInv' /\ Leads /\ now \in Nat /\ Prompt(Here, now) /\ Delays \subseteq {0}
  BY NextPlace DEF PromptInv, InLine
<1>2. now' \in Nat /\ now <= now'
  BY <1>1, NextNow
<1>3. Prompt(Here', now)
  BY <1>1, StepPrompt DEF Leads
<1>4. Prompt(Here', now')
  <2> DEFINE v == Here'
             r == now'
  <2>1. Good(v) /\ r \in Nat /\ now <= r /\ Prompt(v, now)
    BY <1>1, <1>2, <1>3 DEF PlaceInv, ViewInv
  <2> HIDE DEF v, r
  <2>2. \A m \in 1 .. Len(v.msg) : v.msg[m].visibleAt \in Int
    BY <2>1 DEF Good, IsMessage
  <2>3. Prompt(v, r)
    BY <1>1, <2>1, <2>2 DEF Prompt
  <2> QED  BY <2>3 DEF v, r
<1> QED
  BY <1>1, <1>2, <1>4 DEF PromptInv

\* What a step hands out of a FIFO queue comes before the messages of its
\* group that stay, and no lease of the group is older than the step.
LEMMA StepInOrder ==
  ASSUME NEW a, Good(a), Placed(a), NEW b, Good(b), Placed(b), NEW s \in Int, Step(a, b, s),
         Prompt(a, s), NEW n \in FifoQueues \ DeadLetters, NEW f \in b.l[n], f.handle > a.uuid
  PROVE  /\ \A k \in Elems(b.p[n]) :
              ~(b.msg[k].group = b.msg[f.m].group /\ b.msg[k].seq < b.msg[f.m].seq)
         /\ \A e \in b.l[n] : b.msg[e.m].group = b.msg[f.m].group => e.handle > a.uuid
<1> DEFINE B == a.uuid
<1>0. n \in Queues /\ IsFIFO(n) /\ B \in Nat /\ B = a.uuid
  BY SetsAssumption DEF IsFIFO, Good
<1>1. f.batch = B /\ \E K \in Nat : \E g : Runs(g, K, a, b, s, B, {n})
  BY <1>0, StepFresh
<1>2. PICK K \in Nat : \E g : Runs(g, K, a, b, s, B, {n})
  BY <1>1
<1>3. PICK g : Runs(g, K, a, b, s, B, {n})
  BY <1>2
<1> HIDE DEF B
<1>4. Ordered(b, n, B)
  BY <1>0, <1>3, OrderedRun
<1>5. ASSUME NEW k \in Elems(b.p[n]), b.msg[k].group = b.msg[f.m].group
      PROVE  ~(b.msg[k].seq < b.msg[f.m].seq)
  <2>1. b.msg[f.m].seq <= b.msg[k].seq
    BY <1>0, <1>4, <1>5 DEF Ordered
  <2>2. f.m \in 1 .. Len(b.msg) /\ k \in 1 .. Len(b.msg)
    BY <1>0, <1>5, GoodParts
  <2>3. b.msg[f.m].seq \in Nat /\ b.msg[k].seq \in Nat
    BY <2>2 DEF Good, IsMessage
  <2> QED  BY <2>1, <2>3
<1>6. ASSUME NEW e \in b.l[n], b.msg[e.m].group = b.msg[f.m].group
      PROVE  e.handle > B
  <2>1. Grouped(b, n)
    BY <1>0 DEF Placed, Tidy
  <2>2. e.batch = B
    BY <1>0, <1>1, <1>6, <2>1 DEF Grouped
  <2>3. e.batch < e.handle /\ e.handle \in Nat
    BY <1>0, <1>6 DEF Good, LeaseOk
  <2> QED  BY <1>0, <2>2, <2>3
<1> QED
  BY <1>0, <1>5, <1>6

\* For every set of queues, groups and messages, with FIFO queues that are no
\* dead-letter queues and without delays: a message of a FIFO group is handed
\* out only when every earlier message of the group has left the queue or goes
\* out in the same receive.
THEOREM OrderSafe == InLine => (Spec => DeliverInOrder)
<1> SUFFICES ASSUME InLine PROVE Spec => DeliverInOrder
  OBVIOUS
<1>1. PromptInv /\ [Next]_vars => PromptInv'
  BY NextPrompt
<1>2. ASSUME PromptInv, [Next]_vars
      PROVE  [\A n \in FifoQueues : \A f \in Fresh(n) :
                LET earlier(k) == /\ msg'[k].group = msg'[f.m].group
                                  /\ msg'[k].seq < msg'[f.m].seq
                IN /\ \A k \in ToSet(queues[n].messages') : ~earlier(k)
                   /\ \A e \in ToSet(queues[n].inflight') :
                        earlier(e.m) => e \in Fresh(n)]_vars
  <2>1. /\ Good(Here) /\ Placed(Here) /\ Step(Here, Here', now) /\ now \in Int
        /\ Good(Here') /\ Placed(Here') /\ Prompt(Here, now)
    BY <1>2, NextPlace DEF PromptInv, PlaceInv, ViewInv, Leads
  <2>2. ASSUME NEW n \in FifoQueues, NEW f \in Fresh(n)
        PROVE  /\ \A k \in ToSet(queues[n].messages') :
                    ~(/\ msg'[k].group = msg'[f.m].group
                      /\ msg'[k].seq < msg'[f.m].seq)
               /\ \A e \in ToSet(queues[n].inflight') :
                    (/\ msg'[e.m].group = msg'[f.m].group
                     /\ msg'[e.m].seq < msg'[f.m].seq) => e \in Fresh(n)
    <3> DEFINE a == Here
               b == Here'
               s == now
    <3>0. n \in FifoQueues \ DeadLetters /\ n \in Queues
      BY SetsAssumption DEF InLine
    <3>1. /\ f \in b.l[n] /\ f.handle > a.uuid /\ a.uuid = uuid
          /\ b.p[n] = queues[n].messages' /\ b.l[n] = ToSet(queues[n].inflight') /\ b.msg = msg'
      BY <2>2, <3>0, FreshHere, QueueHere, QueueThere
    <3>2. /\ Good(a) /\ Placed(a) /\ Good(b) /\ Placed(b) /\ Step(a, b, s) /\ s \in Int
          /\ Prompt(a, s)
      BY <2>1
    <3> HIDE DEF a, b, s
    <3>3. /\ \A k \in Elems(b.p[n]) :
               ~(b.msg[k].group = b.msg[f.m].group /\ b.msg[k].seq < b.msg[f.m].seq)
          /\ \A e \in b.l[n] : b.msg[e.m].group = b.msg[f.m].group => e.handle > a.uuid
      BY <3>0, <3>1, <3>2, StepInOrder
    <3>4. Elems(b.p[n]) = ToSet(queues[n].messages')
      <4>1. b.p[n] \in Seq(Nat)
        BY <3>0, <3>2, GoodParts
      <4> QED  BY <3>1, <4>1 DEF Elems, ToSet
    <3>5. \A e \in ToSet(queues[n].inflight') : e.handle > uuid => e \in Fresh(n)
      BY DEF Fresh
    <3> QED  BY <3>1, <3>3, <3>4, <3>5
  <2> QED  BY <2>2
<1>3. Spec => []PromptInv
  BY InitPrompt, <1>1, PTL DEF Spec
<1> QED
  BY <1>2, <1>3, PTL DEF Spec, DeliverInOrder

-----------------------------------------------------------------------------
(* The refinement of SqsLease: a run of one queue is one service of it.    *)

\* Between places a and v: the messages queue n acted on, those it moved to
\* its dead-letter queue, those it handed out, and all that still have a place.
Pooled(a, v, n) == Elems(a.p[n]) \cup {x.m : x \in a.l[n] \ v.l[n]}
Routed(a, v, n) ==
  IF a.dlq[n] = None THEN {} ELSE Elems(v.p[a.dlq[n]]) \ Elems(a.p[a.dlq[n]])
HandedOut(a, v, n) == {x.m : x \in v.l[n] \ a.l[n]}
Housed(a, v, n) == Elems(v.p[n]) \cup Routed(a, v, n) \cup HandedOut(a, v, n)

\* Only queue n was served: what it acted on has a place or is gone, and its
\* new leases have the handles issued since.
Served(a, v, n) ==
  /\ v.dlq = a.dlq /\ v.uuid \in Nat /\ a.uuid <= v.uuid
  /\ SameLeases(a, v, {n}) /\ SamePending(a, v, {n, a.dlq[n]})
  /\ a.dlq[n] # None => Elems(a.p[a.dlq[n]]) \subseteq Elems(v.p[a.dlq[n]])
  /\ Housed(a, v, n) \subseteq Pooled(a, v, n)
  /\ v.gone = a.gone \cup (Pooled(a, v, n) \ Housed(a, v, n))
  /\ {x.handle : x \in v.l[n] \ a.l[n]} = a.uuid + 1 .. v.uuid

\* A queue is served when nothing happens.
LEMMA ServedSelf ==
  ASSUME NEW a, Good(a), NEW n \in Queues
  PROVE  Served(a, a, n)
<1>1. a.uuid \in Nat
  BY DEF Good
<1>2. a.l[n] \ a.l[n] = {}
  OBVIOUS
<1>3. Pooled(a, a, n) = Elems(a.p[n]) /\ Housed(a, a, n) = Elems(a.p[n])
  BY <1>2 DEF Pooled, Housed, Routed, HandedOut
<1>4. {x.handle : x \in a.l[n] \ a.l[n]} = a.uuid + 1 .. a.uuid
  <2>1. {x.handle : x \in a.l[n] \ a.l[n]} = {}
    BY <1>2
  <2>2. a.uuid + 1 .. a.uuid = {}
    BY <1>1
  <2> QED  BY <2>1, <2>2
<1> QED
  BY <1>1, <1>3, <1>4 DEF Served, SameLeases, SamePending

\* A lease of the past ends.
LEMMA EndedLease ==
  ASSUME NEW a, Good(a), Unique(a), NEW v, Good(v), Unique(v), NEW n \in Queues,
         Served(a, v, n), NEW u, NEW x, Ends(v, u, n, x, a.uuid)
  PROVE  /\ x \in a.l[n] /\ x.m \notin Pooled(a, v, n)
         /\ Pooled(a, u, n) = Pooled(a, v, n) \cup {x.m}
         /\ HandedOut(a, u, n) = HandedOut(a, v, n) /\ x.m \notin HandedOut(a, v, n)
         /\ u.l[n] \ a.l[n] = v.l[n] \ a.l[n] /\ SameLeases(a, u, {n})
<1>1. x \in v.l[n] /\ x.handle <= a.uuid /\ u.l[n] = v.l[n] \ {x}
  BY DEF Ends
<1>2. x \in a.l[n]
  <2> SUFFICES ASSUME x \notin a.l[n] PROVE FALSE
    OBVIOUS
  <2>1. x.handle \in a.uuid + 1 .. v.uuid
    BY <1>1 DEF Served
  <2>2. a.uuid \in Nat
    BY DEF Good
  <2> QED  BY <1>1, <2>1, <2>2
<1>3. a.l[n] \ u.l[n] = (a.l[n] \ v.l[n]) \cup {x} /\ u.l[n] \ a.l[n] = v.l[n] \ a.l[n]
  BY <1>1, <1>2
<1>4. Pooled(a, u, n) = Pooled(a, v, n) \cup {x.m}
  BY <1>3 DEF Pooled
<1>5. x.m \notin Pooled(a, v, n)
  <2>1. x.m \notin Elems(a.p[n])
    BY <1>2 DEF Unique
  <2>2. ASSUME NEW y \in a.l[n] \ v.l[n] PROVE y.m # x.m
    BY <1>1, <1>2, <2>2 DEF Unique
  <2> QED  BY <2>1, <2>2 DEF Pooled
<1>6. x.m \notin HandedOut(a, v, n)
  <2>1. ASSUME NEW y \in v.l[n] \ a.l[n] PROVE y.m # x.m
    BY <1>1, <1>2, <2>1 DEF Unique
  <2> QED  BY <2>1 DEF HandedOut
<1>7. HandedOut(a, u, n) = HandedOut(a, v, n)
  BY <1>3 DEF HandedOut
<1>8. SameLeases(a, u, {n})
  BY DEF Served, Ends, SameLeases
<1> QED
  BY <1>2, <1>3, <1>4, <1>5, <1>6, <1>7, <1>8

\* A lease that ends in a drop.
LEMMA ServedDrops ==
  ASSUME NEW a, Good(a), Unique(a), NEW v, Good(v), Unique(v), NEW n \in Queues,
         Served(a, v, n), NEW u, Drops(v, u, n, a.uuid)
  PROVE  Served(a, u, n)
<1>1. PICK x : Ends(v, u, n, x, a.uuid) /\ u.gone = v.gone \cup {x.m}
  BY DEF Drops
<1>2. /\ x \in a.l[n] /\ x.m \notin Pooled(a, v, n)
      /\ Pooled(a, u, n) = Pooled(a, v, n) \cup {x.m}
      /\ HandedOut(a, u, n) = HandedOut(a, v, n) /\ x.m \notin HandedOut(a, v, n)
      /\ u.l[n] \ a.l[n] = v.l[n] \ a.l[n] /\ SameLeases(a, u, {n})
  BY <1>1, EndedLease
<1>3. /\ u.dlq = v.dlq /\ u.uuid = v.uuid /\ \A k \in Queues : u.p[k] = v.p[k]
  BY DEF Drops, Still, Steady, SamePending
<1>4. a.dlq[n] # None => a.dlq[n] \in Queues
  BY PolicyInForce DEF Good
<1>5. Routed(a, u, n) = Routed(a, v, n)
  BY <1>3, <1>4 DEF Routed
<1>6. Housed(a, u, n) = Housed(a, v, n)
  BY <1>2, <1>3, <1>5 DEF Housed
<1>7. /\ Housed(a, v, n) \subseteq Pooled(a, v, n)
      /\ v.gone = a.gone \cup (Pooled(a, v, n) \ Housed(a, v, n))
  BY DEF Served
<1>8. /\ Housed(a, u, n) \subseteq Pooled(a, u, n)
      /\ u.gone = a.gone \cup (Pooled(a, u, n) \ Housed(a, u, n))
  BY <1>1, <1>2, <1>6, <1>7
<1>9. /\ u.dlq = a.dlq /\ u.uuid \in Nat /\ a.uuid <= u.uuid
      /\ SamePending(a, u, {n, a.dlq[n]})
      /\ a.dlq[n] # None => Elems(a.p[a.dlq[n]]) \subseteq Elems(u.p[a.dlq[n]])
      /\ {y.handle : y \in u.l[n] \ a.l[n]} = a.uuid + 1 .. u.uuid
  BY <1>2, <1>3, <1>4 DEF Served, SamePending
<1> QED
  BY <1>2, <1>8, <1>9 DEF Served

\* What a move that keeps the clockwork leaves of a service.
LEMMA ServedFrame ==
  ASSUME NEW a, NEW v, NEW n, Served(a, v, n), NEW u,
         u.dlq = v.dlq, u.uuid = v.uuid, SamePending(v, u, {n, a.dlq[n]}),
         a.dlq[n] # None => Elems(v.p[a.dlq[n]]) \subseteq Elems(u.p[a.dlq[n]]),
         u.l[n] \ a.l[n] = v.l[n] \ a.l[n], SameLeases(a, u, {n}),
         Housed(a, u, n) \subseteq Pooled(a, u, n),
         u.gone = a.gone \cup (Pooled(a, u, n) \ Housed(a, u, n))
  PROVE  Served(a, u, n)
<1>1. SamePending(a, u, {n, a.dlq[n]})
  BY DEF Served, SamePending
<1>2. a.dlq[n] # None => Elems(a.p[a.dlq[n]]) \subseteq Elems(u.p[a.dlq[n]])
  BY DEF Served
<1>3. {y.handle : y \in u.l[n] \ a.l[n]} = a.uuid + 1 .. u.uuid
  BY DEF Served
<1>4. u.dlq = a.dlq /\ u.uuid \in Nat /\ a.uuid <= u.uuid
  BY DEF Served
<1> QED
  BY <1>1, <1>2, <1>3, <1>4 DEF Served

\* A lease that ends in a return.
LEMMA ServedBacks ==
  ASSUME NEW a, Good(a), Unique(a), NEW v, Good(v), Unique(v), NEW n \in Queues,
         Served(a, v, n), NEW u, NEW t, Backs(v, u, n, t, a.uuid)
  PROVE  Served(a, u, n)
<1>1. PICK x, i : Ends(v, u, n, x, a.uuid) /\ Puts(v.p[n], i, x.m, u.p[n])
  BY DEF Backs
<1>2. /\ x \in a.l[n] /\ x.m \notin Pooled(a, v, n)
      /\ Pooled(a, u, n) = Pooled(a, v, n) \cup {x.m}
      /\ HandedOut(a, u, n) = HandedOut(a, v, n) /\ x.m \notin HandedOut(a, v, n)
      /\ u.l[n] \ a.l[n] = v.l[n] \ a.l[n] /\ SameLeases(a, u, {n})
  BY <1>1, EndedLease
<1>3. u.dlq = v.dlq /\ u.uuid = v.uuid /\ SamePending(v, u, {n}) /\ u.gone = v.gone
  BY DEF Backs, Still, Steady
<1>4. a.dlq[n] # None => a.dlq[n] \in Queues /\ a.dlq[n] # n
  BY PolicyInForce DEF Good
<1>5. Routed(a, u, n) = Routed(a, v, n)
  BY <1>3, <1>4 DEF Routed, SamePending
<1>6. Elems(u.p[n]) = Elems(v.p[n]) \cup {x.m}
  BY <1>1, PutsElems
<1>7. Housed(a, u, n) = Housed(a, v, n) \cup {x.m}
  BY <1>2, <1>5, <1>6 DEF Housed
<1>8. /\ Housed(a, v, n) \subseteq Pooled(a, v, n)
      /\ v.gone = a.gone \cup (Pooled(a, v, n) \ Housed(a, v, n))
  BY DEF Served
<1>9. /\ Housed(a, u, n) \subseteq Pooled(a, u, n)
      /\ u.gone = a.gone \cup (Pooled(a, u, n) \ Housed(a, u, n))
  BY <1>2, <1>3, <1>7, <1>8
<1>10. SamePending(v, u, {n, a.dlq[n]})
  BY <1>3 DEF SamePending
<1>11. a.dlq[n] # None => Elems(v.p[a.dlq[n]]) \subseteq Elems(u.p[a.dlq[n]])
  BY <1>3, <1>4 DEF SamePending
<1> QED
  BY <1>2, <1>3, <1>9, <1>10, <1>11, ServedFrame

\* A lease that ends in the dead-letter queue.
LEMMA ServedDeads ==
  ASSUME NEW a, Good(a), Unique(a), NEW v, Good(v), Unique(v), NEW n \in Queues,
         Served(a, v, n), NEW u, Deads(v, u, n, a.uuid)
  PROVE  Served(a, u, n)
<1> DEFINE d == a.dlq[n]
<1>0. v.dlq[n] = d
  BY DEF Served
<1>1. PICK x : Ends(v, u, n, x, a.uuid) /\ Routes(v, n, x.m) /\ Tails(v, u, d, x.m)
  BY <1>0 DEF Deads
<1>2. /\ x \in a.l[n] /\ x.m \notin Pooled(a, v, n)
      /\ Pooled(a, u, n) = Pooled(a, v, n) \cup {x.m}
      /\ HandedOut(a, u, n) = HandedOut(a, v, n) /\ x.m \notin HandedOut(a, v, n)
      /\ u.l[n] \ a.l[n] = v.l[n] \ a.l[n] /\ SameLeases(a, u, {n})
  BY <1>1, EndedLease
<1>3. u.dlq = v.dlq /\ u.uuid = v.uuid /\ SamePending(v, u, {d}) /\ u.gone = v.gone
  BY <1>0 DEF Deads, Still, Steady
<1>4. d # None /\ d \in Queues /\ d # n
  <2>1. d # None
    BY <1>0, <1>1 DEF Routes
  <2> QED  BY <2>1, PolicyInForce DEF Good
<1>5. Elems(u.p[d]) = Elems(v.p[d]) \cup {x.m}
  BY <1>1, PutsElems DEF Tails
<1>6. x.m \notin Elems(a.p[d])
  BY <1>2, <1>4 DEF Unique
<1>7. Routed(a, u, n) = Routed(a, v, n) \cup {x.m}
  BY <1>4, <1>5, <1>6 DEF Routed
<1>8. Elems(u.p[n]) = Elems(v.p[n])
  BY <1>3, <1>4 DEF SamePending
<1>9. Housed(a, u, n) = Housed(a, v, n) \cup {x.m}
  BY <1>2, <1>7, <1>8 DEF Housed
<1>10. /\ Housed(a, v, n) \subseteq Pooled(a, v, n)
       /\ v.gone = a.gone \cup (Pooled(a, v, n) \ Housed(a, v, n))
  BY DEF Served
<1>11. /\ Housed(a, u, n) \subseteq Pooled(a, u, n)
       /\ u.gone = a.gone \cup (Pooled(a, u, n) \ Housed(a, u, n))
  BY <1>2, <1>3, <1>9, <1>10
<1>12. SamePending(v, u, {n, d})
  BY <1>3 DEF SamePending
<1> QED
  BY <1>2, <1>3, <1>5, <1>11, <1>12, ServedFrame

\* Message m leaves the slice of queue n and is nowhere else.
TookOut(a, v, u, n, m) ==
  /\ Elems(v.p[n]) = Elems(u.p[n]) \cup {m} /\ m \notin Elems(u.p[n])
  /\ Routed(a, u, n) = Routed(a, v, n) /\ m \notin Routed(a, v, n)
  /\ m \notin HandedOut(a, v, n)
  /\ a.dlq[n] # None => Elems(v.p[a.dlq[n]]) = Elems(u.p[a.dlq[n]])

\* So it is when a slice is that of another with m put into it.
LEMMA TakenOut ==
  ASSUME NEW a, Good(a), NEW v, Unique(v), NEW n \in Queues, NEW u, NEW i, NEW m,
         Puts(u.p[n], i, m, v.p[n]), SamePending(v, u, {n})
  PROVE  TookOut(a, v, u, n, m)
<1>1. Elems(v.p[n]) = Elems(u.p[n]) \cup {m}
  BY PutsElems
<1>2. m \notin Elems(u.p[n])
  <2>1. Once(v.p[n])
    BY DEF Unique
  <2> QED  BY <2>1, PutsOnce
<1>3. a.dlq[n] # None => a.dlq[n] \in Queues /\ a.dlq[n] # n
  BY PolicyInForce DEF Good
<1>4. a.dlq[n] # None => u.p[a.dlq[n]] = v.p[a.dlq[n]]
  BY <1>3 DEF SamePending
<1>5. Routed(a, u, n) = Routed(a, v, n)
  BY <1>4 DEF Routed
<1>6. m \notin Routed(a, v, n)
  BY <1>1, <1>3 DEF Routed, Unique
<1>7. m \notin HandedOut(a, v, n)
  BY <1>1 DEF HandedOut, Unique
<1> QED
  BY <1>1, <1>2, <1>4, <1>5, <1>6, <1>7 DEF TookOut

\* A pending message that is dropped.
LEMMA ServedDiscards ==
  ASSUME NEW a, Good(a), NEW v, Unique(v), NEW n \in Queues,
         Served(a, v, n), NEW u, Discards(v, u, n)
  PROVE  Served(a, u, n)
<1>1. PICK i, m : Puts(u.p[n], i, m, v.p[n]) /\ u.gone = v.gone \cup {m}
  BY DEF Discards
<1>2. /\ u.dlq = v.dlq /\ u.uuid = v.uuid /\ SamePending(v, u, {n})
      /\ \A k \in Queues : u.l[k] = v.l[k]
  BY DEF Discards, Still, Steady, SameLeases
<1>3. /\ Elems(v.p[n]) = Elems(u.p[n]) \cup {m} /\ m \notin Elems(u.p[n])
      /\ Routed(a, u, n) = Routed(a, v, n) /\ m \notin Routed(a, v, n)
      /\ m \notin HandedOut(a, v, n)
      /\ a.dlq[n] # None => Elems(v.p[a.dlq[n]]) = Elems(u.p[a.dlq[n]])
  <2>1. TookOut(a, v, u, n, m)
    BY <1>1, <1>2, TakenOut
  <2> QED  BY <2>1 DEF TookOut
<1>4. Pooled(a, u, n) = Pooled(a, v, n) /\ HandedOut(a, u, n) = HandedOut(a, v, n)
  BY <1>2 DEF Pooled, HandedOut
<1>5. Housed(a, v, n) = Housed(a, u, n) \cup {m} /\ m \notin Housed(a, u, n)
  BY <1>3, <1>4 DEF Housed
<1>6. /\ Housed(a, v, n) \subseteq Pooled(a, v, n)
      /\ v.gone = a.gone \cup (Pooled(a, v, n) \ Housed(a, v, n))
  BY DEF Served
<1>7. /\ Housed(a, u, n) \subseteq Pooled(a, u, n)
      /\ u.gone = a.gone \cup (Pooled(a, u, n) \ Housed(a, u, n))
  BY <1>1, <1>4, <1>5, <1>6
<1>8. SamePending(v, u, {n, a.dlq[n]}) /\ SameLeases(a, u, {n})
  BY <1>2 DEF SamePending, SameLeases, Served
<1> QED
  BY <1>2, <1>3, <1>7, <1>8, ServedFrame

\* A message that is handed out.
LEMMA ServedHands ==
  ASSUME NEW a, Good(a), NEW v, Unique(v), NEW n \in Queues,
         Served(a, v, n), NEW u, NEW t, NEW B, Hands(v, u, n, t, B)
  PROVE  Served(a, u, n)
<1>1. PICK i, m, x : HandsOut(v, u, n, t, B, i, m, x)
  BY DEF Hands
<1>2. /\ Puts(u.p[n], i, m, v.p[n]) /\ x.m = m /\ x.handle = v.uuid + 1
      /\ u.l[n] = v.l[n] \cup {x}
  BY <1>1 DEF HandsOut
<1>3. /\ u.dlq = v.dlq /\ u.uuid = v.uuid + 1 /\ SamePending(v, u, {n})
      /\ SameLeases(v, u, {n}) /\ u.gone = v.gone
  BY DEF Hands, Steady
<1>4. a.uuid \in Nat /\ v.uuid \in Nat /\ a.uuid <= v.uuid
  BY DEF Served, Good
<1>5. x \notin a.l[n]
  <2> SUFFICES ASSUME x \in a.l[n] PROVE FALSE
    OBVIOUS
  <2>1. x.handle \in 1 .. a.uuid
    BY DEF Good, LeaseOk
  <2> QED  BY <1>2, <1>4, <2>1
<1>6. a.l[n] \ u.l[n] = a.l[n] \ v.l[n] /\ u.l[n] \ a.l[n] = (v.l[n] \ a.l[n]) \cup {x}
  BY <1>2, <1>5
<1>7. /\ Elems(v.p[n]) = Elems(u.p[n]) \cup {m} /\ m \notin Elems(u.p[n])
      /\ Routed(a, u, n) = Routed(a, v, n) /\ m \notin Routed(a, v, n)
      /\ m \notin HandedOut(a, v, n)
      /\ a.dlq[n] # None => Elems(v.p[a.dlq[n]]) = Elems(u.p[a.dlq[n]])
  <2>1. TookOut(a, v, u, n, m)
    BY <1>2, <1>3, TakenOut
  <2> QED  BY <2>1 DEF TookOut
<1>8. Pooled(a, u, n) = Pooled(a, v, n) /\ HandedOut(a, u, n) = HandedOut(a, v, n) \cup {m}
  BY <1>2, <1>6 DEF Pooled, HandedOut
<1>9. Housed(a, u, n) = Housed(a, v, n)
  BY <1>7, <1>8 DEF Housed
<1>10. {y.handle : y \in u.l[n] \ a.l[n]} = a.uuid + 1 .. u.uuid
  <2>1. {y.handle : y \in v.l[n] \ a.l[n]} = a.uuid + 1 .. v.uuid
    BY DEF Served
  <2>2. {y.handle : y \in u.l[n] \ a.l[n]} = {y.handle : y \in v.l[n] \ a.l[n]} \cup {v.uuid + 1}
    BY <1>2, <1>6
  <2>3. a.uuid + 1 .. u.uuid = (a.uuid + 1 .. v.uuid) \cup {v.uuid + 1}
    BY <1>3, <1>4
  <2> QED  BY <2>1, <2>2, <2>3
<1>11. /\ u.dlq = a.dlq /\ u.uuid \in Nat /\ a.uuid <= u.uuid
  BY <1>3, <1>4 DEF Served
<1>12. SameLeases(a, u, {n}) /\ SamePending(a, u, {n, a.dlq[n]})
  BY <1>3 DEF Served, SameLeases, SamePending
<1>13. a.dlq[n] # None => Elems(a.p[a.dlq[n]]) \subseteq Elems(u.p[a.dlq[n]])
  BY <1>7 DEF Served
<1>14. /\ Housed(a, u, n) \subseteq Pooled(a, u, n)
       /\ u.gone = a.gone \cup (Pooled(a, u, n) \ Housed(a, u, n))
  BY <1>3, <1>8, <1>9 DEF Served
<1> QED
  BY <1>10, <1>11, <1>12, <1>13, <1>14 DEF Served

\* Nothing moves.
LEMMA ServedStays ==
  ASSUME NEW a, Good(a), NEW v, NEW n \in Queues, Served(a, v, n), NEW u, Stays(v, u)
  PROVE  Served(a, u, n)
<1>1. /\ u.dlq = v.dlq /\ u.uuid = v.uuid /\ u.gone = v.gone
      /\ \A k \in Queues : u.p[k] = v.p[k] /\ u.l[k] = v.l[k]
  BY DEF Stays, Still, Steady, SamePending, SameLeases
<1>2. a.dlq[n] # None => a.dlq[n] \in Queues
  BY PolicyInForce DEF Good
<1>3. Routed(a, u, n) = Routed(a, v, n)
  BY <1>1, <1>2 DEF Routed
<1>4. Pooled(a, u, n) = Pooled(a, v, n) /\ HandedOut(a, u, n) = HandedOut(a, v, n)
  BY <1>1 DEF Pooled, HandedOut
<1>5. Housed(a, u, n) = Housed(a, v, n)
  BY <1>1, <1>3, <1>4 DEF Housed
<1>6. /\ Housed(a, u, n) \subseteq Pooled(a, u, n)
      /\ u.gone = a.gone \cup (Pooled(a, u, n) \ Housed(a, u, n))
  BY <1>1, <1>4, <1>5 DEF Served
<1>7. SamePending(v, u, {n, a.dlq[n]}) /\ SameLeases(a, u, {n})
  BY <1>1 DEF SamePending, SameLeases, Served
<1>8. a.dlq[n] # None => Elems(v.p[a.dlq[n]]) \subseteq Elems(u.p[a.dlq[n]])
  BY <1>1, <1>2
<1> QED
  BY <1>1, <1>6, <1>7, <1>8, ServedFrame

\* In settled places no pending message is on its way to a dead-letter queue.
LEMMA SettledMove ==
  ASSUME NEW v, Settled(v), NEW u, NEW k \in Queues, Redirects(v, u, k) \/ Copies(v, u, k)
  PROVE  FALSE
<1>1. CASE Redirects(v, u, k)
  <2>1. PICK i, m : Puts(u.p[k], i, m, v.p[k]) /\ Routes(v, k, m)
    BY <1>1 DEF Redirects
  <2>2. m \in Elems(v.p[k])
    BY <2>1, PutsElems
  <2> QED  BY <2>1, <2>2 DEF Settled
<1>2. CASE Copies(v, u, k)
  BY <1>2 DEF Copies, Settled
<1> QED
  BY <1>1, <1>2

\* Queue n was served and no message was accepted.
Serves(a, v, n) == Served(a, v, n) /\ Len(v.msg) = Len(a.msg)

\* A move serves its queue.
LEMMA ServedMove ==
  ASSUME NEW a, Good(a), Unique(a), NEW v, Good(v), Unique(v), Settled(v),
         NEW N \in SUBSET Queues, NEW n \in N, Serves(a, v, n),
         NEW u, NEW t, NEW k \in N, Move(v, u, k, t, a.uuid, N)
  PROVE  Serves(a, u, n)
<1>0. Served(a, v, n) /\ Len(v.msg) = Len(a.msg)
  BY DEF Serves
<1>1. n \in Queues /\ k \in Queues
  OBVIOUS
<1>2. ~Redirects(v, u, k) /\ ~Copies(v, u, k)
  BY <1>1, SettledMove
<1>3. CASE Stays(v, u)
  <2>1. Served(a, u, n)
    BY <1>0, <1>1, <1>3, ServedStays
  <2> QED  BY <1>0, <1>3, <2>1 DEF Stays, Still, Steady, Serves
<1>4. ASSUME N = {k}, Drops(v, u, k, a.uuid) PROVE Serves(a, u, n)
  BY <1>0, <1>1, <1>4, ServedDrops DEF Drops, Still, Steady, Serves
<1>5. ASSUME N = {k}, Backs(v, u, k, t, a.uuid) PROVE Serves(a, u, n)
  BY <1>0, <1>1, <1>5, ServedBacks DEF Backs, Still, Steady, Serves
<1>6. ASSUME N = {k}, Deads(v, u, k, a.uuid) PROVE Serves(a, u, n)
  BY <1>0, <1>1, <1>6, ServedDeads DEF Deads, Still, Steady, Serves
<1>7. ASSUME N = {k}, Discards(v, u, k) PROVE Serves(a, u, n)
  BY <1>0, <1>1, <1>7, ServedDiscards DEF Discards, Still, Steady, Serves
<1>8. ASSUME N = {k}, Hands(v, u, k, t, a.uuid) PROVE Serves(a, u, n)
  BY <1>0, <1>1, <1>8, ServedHands DEF Hands, Steady, Serves
<1> QED
  BY <1>2, <1>3, <1>4, <1>5, <1>6, <1>7, <1>8 DEF Move

\* A run serves a queue.
LEMMA ServedRun ==
  ASSUME Plain, NEW a, Good(a), Placed(a), Unique(a), Settled(a), NEW b, NEW t,
         NEW N \in SUBSET Queues, NEW n \in N, Chain(a, b, t, a.uuid, N)
  PROVE  Serves(a, b, n)
<1>1. a.uuid \in Nat /\ a.uuid <= a.uuid
  BY DEF Good
<1>2. \E K \in Nat : \E g : Runs(g, K, a, b, t, a.uuid, N)
  BY <1>1, PlacedRun
<1>3. PICK K \in Nat : \E g : Runs(g, K, a, b, t, a.uuid, N)
  BY <1>2
<1>4. PICK g : Runs(g, K, a, b, t, a.uuid, N)
  BY <1>3
<1> DEFINE T == {i \in 0 .. K : Serves(a, g[i], n)}
<1>5. /\ g[0] = a /\ g[K] = b /\ Moved(g, K, t, a.uuid, N)
      /\ \A i \in 0 .. K : Good(g[i])
  BY <1>4 DEF Runs, GoodRun
<1>6. \A i \in 0 .. K : Unique(g[i]) /\ Settled(g[i])
  <2> DEFINE B == a.uuid
  <2>1. B \in Nat /\ Runs(g, K, a, b, t, B, N)
    BY <1>1, <1>4
  <2> HIDE DEF B
  <2> QED  BY <2>1, UniqueRun
<1>7. 0 \in T
  BY <1>5, ServedSelf DEF Serves
<1>8. ASSUME NEW i \in 1 .. K, i - 1 \in T PROVE i \in T
  <2>1. i \in 1 .. K /\ i \in 0 .. K /\ i - 1 \in 0 .. K
    OBVIOUS
  <2>2. PICK k \in N : Move(g[i - 1], g[i], k, t, a.uuid, N)
    BY <1>5, <2>1 DEF Moved
  <2> DEFINE v == g[i - 1]
             u == g[i]
  <2>3. /\ Good(v) /\ Unique(v) /\ Settled(v) /\ Serves(a, v, n)
        /\ Move(v, u, k, t, a.uuid, N)
    BY <1>5, <1>6, <1>8, <2>1, <2>2
  <2> HIDE DEF v, u, T
  <2>4. Serves(a, u, n)
    BY <2>3, ServedMove
  <2> QED  BY <2>1, <2>4 DEF u, T
<1>9. K \in T
  <2> HIDE DEF T
  <2> QED  BY <1>7, <1>8, Upward
<1> QED
  BY <1>5, <1>9

\* A lease given up is a service.
LEMMA ServedReturns ==
  ASSUME NEW a, Good(a), Unique(a), NEW b, NEW t \in Int, Returns(a, b, t)
  PROVE  \E n \in Queues : Serves(a, b, n) /\ b.uuid = a.uuid
<1>1. PICK n \in Queues, s \in Int : \E c, m :
        Reshows(a, c, m, t) /\ (Backs(c, b, n, s, a.uuid) \/ Deads(c, b, n, a.uuid))
  BY DEF Returns
<1>2. PICK c, m : Reshows(a, c, m, t) /\ (Backs(c, b, n, s, a.uuid) \/ Deads(c, b, n, a.uuid))
  BY <1>1
<1>3. Good(c)
  BY <1>2, ReshowsGood
<1>4. /\ \A k \in Queues : c.p[k] = a.p[k] /\ c.l[k] = a.l[k]
      /\ c.uuid = a.uuid /\ c.gone = a.gone /\ c.dlq = a.dlq /\ Len(c.msg) = Len(a.msg)
  BY <1>2 DEF Reshows, SamePending, SameLeases
<1>5. Unique(c)
  BY <1>4, UniqueEnds
<1>6. Served(c, c, n)
  BY <1>3, ServedSelf
<1>7. Served(c, b, n)
  BY <1>2, <1>3, <1>4, <1>5, <1>6, ServedBacks, ServedDeads
<1>8. a.dlq[n] # None => a.dlq[n] \in Queues
  BY PolicyInForce DEF Good
<1>9. Pooled(a, b, n) = Pooled(c, b, n) /\ HandedOut(a, b, n) = HandedOut(c, b, n)
  BY <1>4 DEF Pooled, HandedOut
<1>10. Routed(a, b, n) = Routed(c, b, n)
  BY <1>4, <1>8 DEF Routed
<1>11. Housed(a, b, n) = Housed(c, b, n)
  BY <1>9, <1>10 DEF Housed
<1>12. /\ SameLeases(a, b, {n}) /\ SamePending(a, b, {n, a.dlq[n]})
       /\ a.dlq[n] # None => Elems(a.p[a.dlq[n]]) \subseteq Elems(b.p[a.dlq[n]])
  BY <1>4, <1>7, <1>8 DEF Served, SameLeases, SamePending
<1>13. {x.handle : x \in b.l[n] \ a.l[n]} = a.uuid + 1 .. b.uuid
  BY <1>4, <1>7 DEF Served
<1>14. /\ b.dlq = a.dlq /\ b.uuid \in Nat /\ a.uuid <= b.uuid
       /\ Housed(a, b, n) \subseteq Pooled(a, b, n)
       /\ b.gone = a.gone \cup (Pooled(a, b, n) \ Housed(a, b, n))
  BY <1>4, <1>7, <1>9, <1>11 DEF Served
<1>15. Len(b.msg) = Len(a.msg) /\ b.uuid = a.uuid
  BY <1>2, <1>4 DEF Backs, Deads, Still, Steady
<1>16. Served(a, b, n)
  BY <1>12, <1>13, <1>14 DEF Served
<1> QED
  BY <1>15, <1>16 DEF Serves

\* A purge is a service.
LEMMA ServedEmpties ==
  ASSUME NEW a, Good(a), NEW b, Empties(a, b)
  PROVE  \E n \in Queues : Serves(a, b, n) /\ b.uuid = a.uuid
<1>1. PICK n \in Queues :
        /\ Still(a, b) /\ SamePending(a, b, {n}) /\ SameLeases(a, b, {n})
        /\ b.p[n] = <<>> /\ b.l[n] = {}
        /\ b.gone = a.gone \cup Elems(a.p[n]) \cup {x.m : x \in a.l[n]}
  BY DEF Empties
<1>2. a.dlq[n] # None => a.dlq[n] \in Queues /\ a.dlq[n] # n
  BY PolicyInForce DEF Good
<1>3. a.uuid \in Nat /\ b.uuid = a.uuid /\ b.dlq = a.dlq /\ Len(b.msg) = Len(a.msg)
  BY <1>1 DEF Good, Still, Steady
<1>4. a.dlq[n] # None => b.p[a.dlq[n]] = a.p[a.dlq[n]]
  BY <1>1, <1>2 DEF SamePending
<1>5. Elems(b.p[n]) = {} /\ a.l[n] \ b.l[n] = a.l[n] /\ b.l[n] \ a.l[n] = {}
  <2>1. 1 .. Len(<<>>) = {}
    OBVIOUS
  <2> QED  BY <1>1, <2>1 DEF Elems
<1>6. Housed(a, b, n) = {}
  BY <1>4, <1>5 DEF Housed, Routed, HandedOut
<1>7. b.gone = a.gone \cup (Pooled(a, b, n) \ Housed(a, b, n))
  BY <1>1, <1>5, <1>6 DEF Pooled
<1>8. {x.handle : x \in b.l[n] \ a.l[n]} = a.uuid + 1 .. b.uuid
  <2>1. {x.handle : x \in b.l[n] \ a.l[n]} = {}
    BY <1>5
  <2>2. a.uuid + 1 .. b.uuid = {}
    BY <1>3
  <2> QED  BY <2>1, <2>2
<1>9. SamePending(a, b, {n, a.dlq[n]})
  BY <1>1 DEF SamePending
<1>10. Served(a, b, n)
  BY <1>1, <1>3, <1>4, <1>6, <1>7, <1>8, <1>9 DEF Served
<1> QED
  BY <1>3, <1>10 DEF Serves

\* Neither a pending message nor a lease changes, but for the time it ends.
Unmoved(a, b) ==
  /\ b.gone = a.gone /\ b.uuid = a.uuid /\ Len(b.msg) = Len(a.msg)
  /\ \A k \in Queues : /\ b.p[k] = a.p[k]
                       /\ \A x \in a.l[k] : \E y \in b.l[k] : y.m = x.m /\ y.handle = x.handle
                       /\ \A y \in b.l[k] : \E x \in a.l[k] : y.m = x.m /\ y.handle = x.handle

\* A lease that is extended moves nothing.
LEMMA UnmovedProlongs ==
  ASSUME NEW a, NEW b, Prolongs(a, b)
  PROVE  Unmoved(a, b)
<1>1. PICK n \in Queues :
        /\ Still(a, b) /\ SamePending(a, b, {}) /\ SameLeases(a, b, {n}) /\ b.gone = a.gone
        /\ \E x, y : /\ x \in a.l[n] /\ y \in Leases
                     /\ y.m = x.m /\ y.handle = x.handle /\ y.batch = x.batch
                     /\ b.l[n] = (a.l[n] \ {x}) \cup {y}
  BY DEF Prolongs
<1>2. PICK x, y : /\ x \in a.l[n] /\ y.m = x.m /\ y.handle = x.handle
                  /\ b.l[n] = (a.l[n] \ {x}) \cup {y}
  BY <1>1
<1>3. b.uuid = a.uuid /\ Len(b.msg) = Len(a.msg)
  BY <1>1 DEF Still, Steady
<1>4. ASSUME NEW k \in Queues
      PROVE  /\ b.p[k] = a.p[k]
             /\ \A z \in a.l[k] : \E w \in b.l[k] : w.m = z.m /\ w.handle = z.handle
             /\ \A w \in b.l[k] : \E z \in a.l[k] : w.m = z.m /\ w.handle = z.handle
  <2>1. b.p[k] = a.p[k]
    BY <1>1 DEF SamePending
  <2>2. CASE k # n
    <3>1. b.l[k] = a.l[k]
      BY <1>1, <2>2 DEF SameLeases
    <3> QED  BY <2>1, <3>1
  <2>3. CASE k = n
    BY <1>2, <2>1, <2>3
  <2> QED  BY <2>2, <2>3
<1> QED
  BY <1>1, <1>3, <1>4 DEF Unmoved

\* An attribute that is set moves nothing.
LEMMA UnmovedRetunes ==
  ASSUME NEW a, NEW b, Retunes(a, b)
  PROVE  Unmoved(a, b)
<1>1. \A k \in Queues : b.p[k] = a.p[k] /\ b.l[k] = a.l[k]
  BY DEF Retunes, SamePending, SameLeases
<1> QED
  BY <1>1 DEF Retunes, Unmoved

\* What a step is to the lease specification: a service, nothing, a new message.
Kind(a, b) ==
  \/ \E n \in Queues : Serves(a, b, n) /\ (b.uuid = a.uuid \/ b.uuid <= MaxHandles)
  \/ Unmoved(a, b)
  \/ Len(a.msg) < MaxMsgs /\ \E n \in Queues : \E e : Accepts(a, b, n, e)

\* Every step is one of the three.
LEMMA StepKind ==
  ASSUME Plain, NEW a, Good(a), Placed(a), Unique(a), Settled(a), NEW b, NEW s \in Int,
         Step(a, b, s)
  PROVE  Kind(a, b)
<1>1. ASSUME NEW n \in Queues, NEW t, Chain(a, b, t, a.uuid, {n}) PROVE Serves(a, b, n)
  <2>1. {n} \in SUBSET Queues /\ n \in {n}
    OBVIOUS
  <2> QED  BY <1>1, <2>1, ServedRun
<1>2. ASSUME NEW n \in Queues, NEW t, Chain(a, b, t, a.uuid, Queues) PROVE Serves(a, b, n)
  <2>1. Queues \in SUBSET Queues
    OBVIOUS
  <2> QED  BY <1>2, <2>1, ServedRun
<1>3. ASSUME Queues = {}, NEW t, Chain(a, b, t, a.uuid, Queues) PROVE Unmoved(a, b)
  <2>1. PICK K \in Nat : \E g : g[0] = a /\ g[K] = b /\ Moved(g, K, t, a.uuid, Queues)
    BY <1>3 DEF Chain
  <2>2. PICK g : g[0] = a /\ g[K] = b /\ Moved(g, K, t, a.uuid, Queues)
    BY <2>1
  <2>3. K = 0
    <3>1. ASSUME K # 0 PROVE FALSE
      <4>1. 1 \in 1 .. K
        BY <3>1
      <4> QED  BY <1>3, <2>2, <4>1 DEF Moved
    <3> QED  BY <3>1
  <2> QED  BY <1>3, <2>2, <2>3 DEF Unmoved
<1>4. CASE \E n \in Queues, t \in Int :
             /\ Chain(a, b, t, a.uuid, {n})
             /\ b.uuid = a.uuid \/ (t = s /\ b.uuid <= MaxHandles)
  BY <1>1, <1>4 DEF Kind
<1>5. CASE \E t : Chain(a, b, t, a.uuid, Queues) /\ b.uuid = a.uuid
  <2>1. CASE Queues = {}
    BY <1>3, <1>5, <2>1 DEF Kind
  <2>2. CASE Queues # {}
    BY <1>2, <1>5, <2>2 DEF Kind
  <2> QED  BY <2>1, <2>2
<1>6. CASE Returns(a, b, s)
  BY <1>6, ServedReturns DEF Kind
<1>7. CASE Empties(a, b)
  BY <1>7, ServedEmpties DEF Kind
<1>8. CASE Prolongs(a, b) \/ Retunes(a, b)
  BY <1>8, UnmovedProlongs, UnmovedRetunes DEF Kind
<1>9. CASE Len(a.msg) < MaxMsgs /\ \E n \in Queues : \E e : Accepts(a, b, n, e)
  BY <1>9 DEF Kind
<1> QED
  BY <1>4, <1>5, <1>6, <1>7, <1>8, <1>9 DEF Step

\* Only accepted messages are gone.
Spent(v) == v.gone \subseteq 1 .. Len(v.msg)

\* Every step keeps that.
LEMMA KindSpent ==
  ASSUME NEW a, Good(a), Spent(a), NEW b, Kind(a, b)
  PROVE  Spent(b)
<1>1. ASSUME NEW n \in Queues, Serves(a, b, n) PROVE Spent(b)
  <2>1. b.gone \subseteq a.gone \cup Pooled(a, b, n) /\ Len(b.msg) = Len(a.msg)
    BY <1>1 DEF Serves, Served
  <2>2. Pooled(a, b, n) \subseteq 1 .. Len(a.msg)
    BY DEF Good, LeaseOk, Pooled
  <2> QED  BY <2>1, <2>2 DEF Spent
<1>2. CASE Unmoved(a, b)
  BY <1>2 DEF Unmoved, Spent
<1>3. ASSUME NEW n \in Queues, NEW e, Accepts(a, b, n, e) PROVE Spent(b)
  <2>1. b.gone = a.gone /\ Len(b.msg) = Len(a.msg) + 1 /\ Len(a.msg) \in Nat
    BY <1>3 DEF Accepts, Good, IsSeq
  <2> QED  BY <2>1 DEF Spent
<1> QED
  BY <1>1, <1>2, <1>3 DEF Kind

\* What the lease specification sees of places v.
ReadyAt(v) == UNION {{<<n, m>> : m \in Elems(v.p[n])} : n \in Queues}
LeasedAt(v) == UNION {{<<n, x.m, x.handle>> : x \in v.l[n]} : n \in Queues}

\* The leases of n that ended between a and b, and those it gave.
OverAt(a, b, n) == {<<n, x.m, x.handle>> : x \in a.l[n] \ b.l[n]}
LendAt(a, b, n) == {<<x.m, x.handle>> : x \in b.l[n] \ a.l[n]}

\* The members of the first.
LEMMA ReadyMember ==
  ASSUME NEW v, NEW k, NEW m
  PROVE  <<k, m>> \in ReadyAt(v) <=> k \in Queues /\ m \in Elems(v.p[k])
  BY DEF ReadyAt

\* And their shape.
LEMMA ReadyShape ==
  ASSUME NEW v, NEW r \in ReadyAt(v)
  PROVE  \E k \in Queues : \E m \in Elems(v.p[k]) : r = <<k, m>>
  BY DEF ReadyAt

\* The shape of the members of the second.
LEMMA LeasedShape ==
  ASSUME NEW v, NEW z \in LeasedAt(v)
  PROVE  \E k \in Queues : \E x \in v.l[k] : z = <<k, x.m, x.handle>>
  BY DEF LeasedAt

\* A lease is one.
LEMMA LeasedMember ==
  ASSUME NEW v, NEW k \in Queues, NEW x \in v.l[k]
  PROVE  <<k, x.m, x.handle>> \in LeasedAt(v)
  BY DEF LeasedAt

\* The messages a service acts on.
LEMMA PoolAt ==
  ASSUME NEW a, NEW b, NEW n \in Queues
  PROVE  /\ {r[2] : r \in {x \in ReadyAt(a) : x[1] = n}} \cup {z[2] : z \in OverAt(a, b, n)}
              = Pooled(a, b, n)
         /\ OverAt(a, b, n) \in SUBSET {z \in LeasedAt(a) : z[1] = n}
<1>1. {r[2] : r \in {x \in ReadyAt(a) : x[1] = n}} = Elems(a.p[n])
  <2>1. ASSUME NEW r \in ReadyAt(a), r[1] = n PROVE r[2] \in Elems(a.p[n])
    <3>1. PICK k \in Queues : \E m \in Elems(a.p[k]) : r = <<k, m>>
      BY ReadyShape
    <3>2. PICK m \in Elems(a.p[k]) : r = <<k, m>>
      BY <3>1
    <3> QED  BY <2>1, <3>2
  <2>2. ASSUME NEW m \in Elems(a.p[n])
        PROVE  \E r \in {x \in ReadyAt(a) : x[1] = n} : m = r[2]
    <3>1. <<n, m>> \in ReadyAt(a) /\ <<n, m>>[1] = n /\ <<n, m>>[2] = m
      BY ReadyMember
    <3> QED  BY <3>1
  <2> QED  BY <2>1, <2>2
<1>2. {z[2] : z \in OverAt(a, b, n)} = {x.m : x \in a.l[n] \ b.l[n]}
  <2>1. ASSUME NEW x \in a.l[n] \ b.l[n]
        PROVE  \E z \in OverAt(a, b, n) : x.m = z[2]
    <3>1. <<n, x.m, x.handle>> \in OverAt(a, b, n) /\ <<n, x.m, x.handle>>[2] = x.m
      BY DEF OverAt
    <3> QED  BY <3>1
  <2>2. ASSUME NEW z \in OverAt(a, b, n)
        PROVE  \E x \in a.l[n] \ b.l[n] : z[2] = x.m
    BY DEF OverAt
  <2> QED  BY <2>1, <2>2
<1>3. OverAt(a, b, n) \in SUBSET {z \in LeasedAt(a) : z[1] = n}
  <2>1. ASSUME NEW x \in a.l[n]
        PROVE  <<n, x.m, x.handle>> \in LeasedAt(a) /\ <<n, x.m, x.handle>>[1] = n
    BY LeasedMember
  <2> QED  BY <2>1 DEF OverAt
<1> QED
  BY <1>1, <1>2, <1>3 DEF Pooled

\* The messages and the handles of the new leases.
LEMMA LendFields ==
  ASSUME NEW a, Good(a), NEW b, Good(b), Unique(b), NEW n \in Queues, Served(a, b, n)
  PROVE  /\ {z[1] : z \in LendAt(a, b, n)} = HandedOut(a, b, n)
         /\ {z[2] : z \in LendAt(a, b, n)} = a.uuid + 1 .. b.uuid
         /\ \A z, w \in LendAt(a, b, n) : z[1] = w[1] <=> z[2] = w[2]
<1>1. {z[1] : z \in LendAt(a, b, n)} = HandedOut(a, b, n)
  <2>1. ASSUME NEW x \in b.l[n] \ a.l[n]
        PROVE  \E z \in LendAt(a, b, n) : x.m = z[1]
    <3>1. <<x.m, x.handle>> \in LendAt(a, b, n) /\ <<x.m, x.handle>>[1] = x.m
      BY DEF LendAt
    <3> QED  BY <3>1
  <2>2. ASSUME NEW z \in LendAt(a, b, n)
        PROVE  \E x \in b.l[n] \ a.l[n] : z[1] = x.m
    BY DEF LendAt
  <2> QED  BY <2>1, <2>2 DEF HandedOut
<1>2. {z[2] : z \in LendAt(a, b, n)} = {x.handle : x \in b.l[n] \ a.l[n]}
  <2>1. ASSUME NEW x \in b.l[n] \ a.l[n]
        PROVE  \E z \in LendAt(a, b, n) : x.handle = z[2]
    <3>1. <<x.m, x.handle>> \in LendAt(a, b, n) /\ <<x.m, x.handle>>[2] = x.handle
      BY DEF LendAt
    <3> QED  BY <3>1
  <2>2. ASSUME NEW z \in LendAt(a, b, n)
        PROVE  \E x \in b.l[n] \ a.l[n] : z[2] = x.handle
    BY DEF LendAt
  <2> QED  BY <2>1, <2>2
<1>3. {x.handle : x \in b.l[n] \ a.l[n]} = a.uuid + 1 .. b.uuid
  BY DEF Served
<1>4. ASSUME NEW z \in LendAt(a, b, n), NEW w \in LendAt(a, b, n)
      PROVE  z[1] = w[1] <=> z[2] = w[2]
  <2>1. PICK x \in b.l[n] : z = <<x.m, x.handle>>
    BY DEF LendAt
  <2>2. PICK y \in b.l[n] : w = <<y.m, y.handle>>
    BY DEF LendAt
  <2>3. x.m = y.m <=> x.handle = y.handle
    BY DEF Good, Unique
  <2> QED  BY <2>1, <2>2, <2>3
<1> QED
  BY <1>1, <1>2, <1>3, <1>4

\* A new lease takes a message that was acted on, under a fresh handle.
LEMMA LendFresh ==
  ASSUME NEW a, Good(a), NEW b, Good(b), NEW n \in Queues, Served(a, b, n),
         b.uuid = a.uuid \/ b.uuid <= MaxHandles
  PROVE  LendAt(a, b, n) \in SUBSET (Pooled(a, b, n) \X ((1 .. MaxHandles) \ (1 .. a.uuid)))
<1>1. a.uuid \in Nat /\ b.uuid \in Nat /\ MaxHandles \in Nat
  BY NumbersAssumption DEF Good
<1>2. ASSUME NEW x \in b.l[n] \ a.l[n]
      PROVE  x.m \in Pooled(a, b, n) /\ x.handle \in (1 .. MaxHandles) \ (1 .. a.uuid)
  <2>1. x.handle \in a.uuid + 1 .. b.uuid
    BY DEF Served
  <2>2. x.m \in Pooled(a, b, n)
    BY DEF Served, Housed, HandedOut
  <2> QED  BY <1>1, <2>1, <2>2
<1> QED
  BY <1>2 DEF LendAt

\* Where a service of n sends what it dead-letters, and what it drops.
AimAt(a, n) == IF a.dlq[n] = None THEN n ELSE a.dlq[n]
DropAt(a, b, n) == Pooled(a, b, n) \ Housed(a, b, n)

\* The places a message may have after a service are disjoint.
LEMMA ServedApart ==
  ASSUME NEW a, Good(a), NEW b, Unique(b), NEW n \in Queues, Served(a, b, n)
  PROVE  /\ DropAt(a, b, n) \cap Routed(a, b, n) = {}
         /\ HandedOut(a, b, n) \cap (DropAt(a, b, n) \cup Routed(a, b, n)) = {}
         /\ Pooled(a, b, n) \ (DropAt(a, b, n) \cup Routed(a, b, n) \cup HandedOut(a, b, n))
              = Elems(b.p[n])
         /\ DropAt(a, b, n) \in SUBSET Pooled(a, b, n)
         /\ Routed(a, b, n) \in SUBSET Pooled(a, b, n)
<1>1. a.dlq[n] # None => a.dlq[n] \in Queues /\ a.dlq[n] # n
  BY PolicyInForce DEF Good
<1>2. HandedOut(a, b, n) \cap Routed(a, b, n) = {}
  <2>1. ASSUME NEW x \in b.l[n], a.dlq[n] # None PROVE x.m \notin Elems(b.p[a.dlq[n]])
    BY <1>1, <2>1 DEF Unique
  <2> QED  BY <2>1 DEF HandedOut, Routed
<1>3. Elems(b.p[n]) \cap Routed(a, b, n) = {}
  BY <1>1 DEF Unique, Routed
<1>4. Elems(b.p[n]) \cap HandedOut(a, b, n) = {}
  BY DEF Unique, HandedOut
<1>5. Housed(a, b, n) \subseteq Pooled(a, b, n)
  BY DEF Served
<1> QED
  BY <1>2, <1>3, <1>4, <1>5 DEF DropAt, Housed

\* What is ready after a service.
LEMMA ServedReady ==
  ASSUME NEW a, Good(a), NEW b, NEW n \in Queues, Served(a, b, n)
  PROVE  ReadyAt(b) = {r \in ReadyAt(a) : r[1] # n}
                        \cup {<<n, m>> : m \in Elems(b.p[n])}
                        \cup {<<AimAt(a, n), m>> : m \in Routed(a, b, n)}
<1> DEFINE d == AimAt(a, n)
           R == {r \in ReadyAt(a) : r[1] # n} \cup {<<n, m>> : m \in Elems(b.p[n])}
                  \cup {<<d, m>> : m \in Routed(a, b, n)}
<1>1. a.dlq[n] # None => d = a.dlq[n] /\ d \in Queues /\ d # n
  BY PolicyInForce DEF Good, AimAt
<1>2. a.dlq[n] = None => d = n /\ Routed(a, b, n) = {}
  BY DEF AimAt, Routed
<1>3. /\ SamePending(a, b, {n, a.dlq[n]})
      /\ a.dlq[n] # None => Elems(a.p[d]) \subseteq Elems(b.p[d])
  BY <1>1 DEF Served
<1>4. a.dlq[n] # None => Elems(b.p[d]) = Elems(a.p[d]) \cup Routed(a, b, n)
  BY <1>1, <1>3 DEF Routed
<1>5. ASSUME NEW k \in Queues, NEW m \in Elems(b.p[k]) PROVE <<k, m>> \in R
  <2>1. CASE k = n
    BY <2>1
  <2>2. CASE k # n /\ m \in Elems(a.p[k])
    <3>1. <<k, m>> \in ReadyAt(a) /\ <<k, m>>[1] # n
      BY <2>2, ReadyMember
    <3> QED  BY <3>1
  <2>3. CASE k # n /\ m \notin Elems(a.p[k])
    <3>1. a.dlq[n] # None /\ k = d
      <4>1. k \in {n, a.dlq[n]}
        BY <1>3, <1>5, <2>3 DEF SamePending
      <4> QED  BY <1>1, <2>3, <4>1, SetsAssumption
    <3>2. m \in Routed(a, b, n)
      BY <1>4, <1>5, <2>3, <3>1
    <3> QED  BY <3>1, <3>2
  <2> QED  BY <2>1, <2>2, <2>3
<1>6. ASSUME NEW r \in R PROVE r \in ReadyAt(b)
  <2>1. CASE r \in ReadyAt(a) /\ r[1] # n
    <3>1. PICK k \in Queues : \E m \in Elems(a.p[k]) : r = <<k, m>>
      BY <2>1, ReadyShape
    <3>2. PICK m \in Elems(a.p[k]) : r = <<k, m>>
      BY <3>1
    <3>3. k # n
      BY <2>1, <3>2
    <3>4. m \in Elems(b.p[k])
      <4>1. CASE k = a.dlq[n]
        <5>1. a.dlq[n] # None
          BY <4>1, SetsAssumption
        <5> QED  BY <1>1, <1>3, <4>1, <5>1
      <4>2. CASE k # a.dlq[n]
        <5>1. b.p[k] = a.p[k]
          BY <1>3, <3>3, <4>2 DEF SamePending
        <5> QED  BY <5>1
      <4> QED  BY <4>1, <4>2
    <3> QED  BY <3>2, <3>4, ReadyMember
  <2>2. ASSUME NEW m \in Elems(b.p[n]), r = <<n, m>> PROVE r \in ReadyAt(b)
    BY <2>2, ReadyMember
  <2>3. ASSUME NEW m \in Routed(a, b, n), r = <<d, m>> PROVE r \in ReadyAt(b)
    <3>1. d \in Queues /\ m \in Elems(b.p[d])
      BY <1>1, <1>2, <1>4
    <3> QED  BY <2>3, <3>1, ReadyMember
  <2> QED  BY <1>6, <2>1, <2>2, <2>3
<1> HIDE DEF R
<1>7. ReadyAt(b) \subseteq R
  BY <1>5, ReadyShape
<1>8. ReadyAt(b) = R
  BY <1>6, <1>7
<1> QED
  BY <1>8 DEF R

\* What is leased after a service.
LEMMA ServedLeased ==
  ASSUME NEW a, Good(a), NEW b, NEW n \in Queues, Served(a, b, n)
  PROVE  LeasedAt(b) = (LeasedAt(a) \ OverAt(a, b, n))
                         \cup {<<n, z[1], z[2]>> : z \in LendAt(a, b, n)}
<1> DEFINE L == {<<n, z[1], z[2]>> : z \in LendAt(a, b, n)}
<1>1. SameLeases(a, b, {n})
  BY DEF Served
<1>2. ASSUME NEW k \in Queues, NEW x \in b.l[k]
      PROVE  <<k, x.m, x.handle>> \in (LeasedAt(a) \ OverAt(a, b, n)) \cup L
  <2>1. CASE x \in a.l[k]
    <3>1. <<k, x.m, x.handle>> \in LeasedAt(a)
      BY <2>1, LeasedMember
    <3>2. ASSUME NEW y \in a.l[n] \ b.l[n] PROVE <<k, x.m, x.handle>> # <<n, y.m, y.handle>>
      <4> SUFFICES ASSUME k = n, x.handle = y.handle PROVE FALSE
        OBVIOUS
      <4> QED  BY <1>2, <2>1, <3>2 DEF Good
    <3> QED  BY <3>1, <3>2 DEF OverAt
  <2>2. CASE x \notin a.l[k]
    <3>1. k = n
      BY <1>1, <2>2 DEF SameLeases
    <3>2. <<x.m, x.handle>> \in LendAt(a, b, n)
      BY <2>2, <3>1 DEF LendAt
    <3>3. <<x.m, x.handle>>[1] = x.m /\ <<x.m, x.handle>>[2] = x.handle
      OBVIOUS
    <3>4. <<n, x.m, x.handle>> \in L
      BY <3>2, <3>3
    <3> QED  BY <3>1, <3>4
  <2> QED  BY <2>1, <2>2
<1>3. ASSUME NEW r \in LeasedAt(a), r \notin OverAt(a, b, n) PROVE r \in LeasedAt(b)
  <2>1. PICK k \in Queues : \E x \in a.l[k] : r = <<k, x.m, x.handle>>
    BY LeasedShape
  <2>2. PICK x \in a.l[k] : r = <<k, x.m, x.handle>>
    BY <2>1
  <2>3. x \in b.l[k]
    <3>1. CASE k = n
      BY <1>3, <2>2, <3>1 DEF OverAt
    <3>2. CASE k # n
      BY <1>1, <3>2 DEF SameLeases
    <3> QED  BY <3>1, <3>2
  <2> QED  BY <2>2, <2>3, LeasedMember
<1>4. ASSUME NEW z \in LendAt(a, b, n) PROVE <<n, z[1], z[2]>> \in LeasedAt(b)
  <2>1. PICK x \in b.l[n] : z = <<x.m, x.handle>>
    BY DEF LendAt
  <2>2. <<n, z[1], z[2]>> = <<n, x.m, x.handle>>
    BY <2>1
  <2> QED  BY <2>2, LeasedMember
<1>5. LeasedAt(b) \subseteq (LeasedAt(a) \ OverAt(a, b, n)) \cup L
  <2> HIDE DEF L
  <2> QED  BY <1>2, LeasedShape
<1> QED
  BY <1>3, <1>4, <1>5

\* The refinement mapping, in terms of the places.
MapsTo(v) ==
  /\ ReadyPairs = ReadyAt(v) /\ LeasedTriples = LeasedAt(v)
  /\ gone = v.gone /\ uuid = v.uuid

\* It holds of the places of the state.
LEMMA MapHere == Good(Here) => MapsTo(Here)
<1> SUFFICES ASSUME Good(Here) PROVE MapsTo(Here)
  OBVIOUS
<1>1. Seen(Here, World) /\ Here.uuid = uuid /\ World.gone = gone
  BY HereFields, WorldFields
<1>2. gone = Here.gone /\ uuid = Here.uuid
  BY <1>1 DEF Seen
<1>3. ASSUME NEW n \in Queues
      PROVE  ToSet(queues[n].messages) = Elems(Here.p[n])
             /\ ToSet(queues[n].inflight) = Here.l[n]
  <2>1. /\ Here.p[n] = queues[n].messages /\ Here.l[n] = ToSet(queues[n].inflight)
        /\ Here.p[n] \in Seq(Nat)
    BY QueueHere DEF Good
  <2>2. DOMAIN queues[n].messages = 1 .. Len(queues[n].messages)
    BY <2>1
  <2> QED  BY <2>1, <2>2 DEF ToSet, Elems
<1>4. ReadyPairs = ReadyAt(Here)
  BY <1>3 DEF ReadyPairs, ReadyAt
<1>5. LeasedTriples = LeasedAt(Here)
  BY <1>3 DEF LeasedTriples, LeasedAt
<1> QED
  BY <1>2, <1>4, <1>5 DEF MapsTo

\* The refinement mapping of a step.
Maps(a, b) ==
  /\ ReadyPairs = ReadyAt(a) /\ LeasedTriples = LeasedAt(a) /\ gone = a.gone /\ uuid = a.uuid
  /\ ReadyPairs' = ReadyAt(b) /\ LeasedTriples' = LeasedAt(b)
  /\ gone' = b.gone /\ uuid' = b.uuid

\* A service is a Serve.
LEMMA ServeStep ==
  ASSUME NEW a, Good(a), Unique(a), NEW b, Good(b), Unique(b), NEW n \in Queues,
         Served(a, b, n), b.uuid = a.uuid \/ b.uuid <= MaxHandles, Maps(a, b)
  PROVE  Promise!LeaseNext
<1> DEFINE d == AimAt(a, n)
           over == OverAt(a, b, n)
           drop == DropAt(a, b, n)
           route == Routed(a, b, n)
           lend == LendAt(a, b, n)
<1>1. d \in Queues
  BY PolicyInForce DEF Good, AimAt
<1>2. Promise!Pool(n, over) = Pooled(a, b, n) /\ over \in SUBSET {z \in LeasedTriples : z[1] = n}
  BY PoolAt DEF Maps, Promise!Pool
<1>3. /\ drop \cap route = {}
      /\ drop \in SUBSET Pooled(a, b, n) /\ route \in SUBSET Pooled(a, b, n)
      /\ HandedOut(a, b, n) \cap (drop \cup route) = {}
      /\ Pooled(a, b, n) \ (drop \cup route \cup HandedOut(a, b, n)) = Elems(b.p[n])
  BY ServedApart
<1>4. /\ {z[1] : z \in lend} = HandedOut(a, b, n) /\ {z[2] : z \in lend} = a.uuid + 1 .. b.uuid
      /\ \A z, w \in lend : z[1] = w[1] <=> z[2] = w[2]
  BY LendFields
<1>5. lend \in SUBSET (Promise!Pool(n, over) \X Promise!FreshHandles)
  BY <1>2, LendFresh DEF Maps, Promise!FreshHandles
<1>6. ReadyAt(b) = {r \in ReadyAt(a) : r[1] # n} \cup {<<n, m>> : m \in Elems(b.p[n])}
                     \cup {<<d, m>> : m \in route}
  BY ServedReady
<1>7. LeasedAt(b) = (LeasedAt(a) \ over) \cup {<<n, z[1], z[2]>> : z \in lend}
  BY ServedLeased
<1>8. b.gone = a.gone \cup drop
  BY DEF Served, DropAt
<1>9. 1 .. b.uuid = (1 .. a.uuid) \cup {z[2] : z \in lend}
  <2>1. a.uuid \in Nat /\ b.uuid \in Nat /\ a.uuid <= b.uuid
    BY DEF Good, Served
  <2>2. 1 .. b.uuid = (1 .. a.uuid) \cup (a.uuid + 1 .. b.uuid)
    BY <2>1
  <2> QED  BY <1>4, <2>2
<1> HIDE DEF d, over, drop, route, lend
<1>10. Promise!Stay(n, over, drop, route, lend) = Elems(b.p[n])
  BY <1>2, <1>3, <1>4 DEF Promise!Stay
<1>11. Promise!Serve(n, d, over, drop, route, lend)
  <2>1. {z[1] : z \in lend} \cap (drop \cup route) = {}
    BY <1>3, <1>4
  <2>2. ReadyPairs' = {r \in ReadyPairs : r[1] # n}
                        \cup {<<n, m>> : m \in Promise!Stay(n, over, drop, route, lend)}
                        \cup {<<d, m>> : m \in route}
    BY <1>6, <1>10 DEF Maps
  <2>3. LeasedTriples' = (LeasedTriples \ over) \cup {<<n, z[1], z[2]>> : z \in lend}
    BY <1>7 DEF Maps
  <2>4. gone' = gone \cup drop /\ 1 .. uuid' = (1 .. uuid) \cup {z[2] : z \in lend}
    BY <1>8, <1>9 DEF Maps
  <2> QED  BY <1>3, <1>4, <2>1, <2>2, <2>3, <2>4 DEF Promise!Serve
<1>12. drop \in SUBSET Promise!Pool(n, over) /\ route \in SUBSET Promise!Pool(n, over)
  BY <1>2, <1>3
<1> QED
  BY <1>1, <1>2, <1>5, <1>11, <1>12 DEF Promise!LeaseNext

\* A new message is an Accept.
LEMMA AcceptStep ==
  ASSUME NEW a, Good(a), Spent(a), NEW b, NEW n \in Queues, NEW e, Accepts(a, b, n, e),
         Len(a.msg) < MaxMsgs, Maps(a, b)
  PROVE  Promise!LeaseNext
<1> DEFINE m == Len(a.msg) + 1
<1>1. Len(a.msg) \in Nat /\ MaxMsgs \in Nat
  BY NumbersAssumption DEF Good, IsSeq
<1>2. m \in 1 .. MaxMsgs /\ m \notin 1 .. Len(a.msg)
  BY <1>1
<1>3. /\ SamePending(a, b, {n}) /\ SameLeases(a, b, {}) /\ b.gone = a.gone /\ b.uuid = a.uuid
      /\ Elems(b.p[n]) = Elems(a.p[n]) \cup {m}
  BY PutsElems DEF Accepts, Tails
<1> HIDE DEF m
<1>4. ASSUME NEW r \in ReadyAt(a) PROVE r[2] # m
  <2>1. PICK k \in Queues : \E i \in Elems(a.p[k]) : r = <<k, i>>
    BY ReadyShape
  <2>2. PICK i \in Elems(a.p[k]) : r = <<k, i>>
    BY <2>1
  <2>3. i \in 1 .. Len(a.msg)
    BY DEF Good
  <2> QED  BY <1>2, <2>2, <2>3
<1>5. ASSUME NEW z \in LeasedAt(a) PROVE z[2] # m
  <2>1. PICK k \in Queues : \E x \in a.l[k] : z = <<k, x.m, x.handle>>
    BY LeasedShape
  <2>2. PICK x \in a.l[k] : z = <<k, x.m, x.handle>>
    BY <2>1
  <2>3. x.m \in 1 .. Len(a.msg)
    BY DEF Good, LeaseOk
  <2> QED  BY <1>2, <2>2, <2>3
<1>6. m \notin a.gone
  BY <1>2 DEF Spent
<1>7. LeasedAt(b) = LeasedAt(a)
  <2>1. \A k \in Queues : b.l[k] = a.l[k]
    BY <1>3 DEF SameLeases
  <2> QED  BY <2>1 DEF LeasedAt
<1>8. ReadyAt(b) = ReadyAt(a) \cup {<<n, m>>}
  <2>1. ASSUME NEW k \in Queues, NEW i
        PROVE  i \in Elems(b.p[k]) <=> i \in Elems(a.p[k]) \/ (k = n /\ i = m)
    BY <1>3 DEF SamePending
  <2>2. ASSUME NEW r \in ReadyAt(b) PROVE r \in ReadyAt(a) \cup {<<n, m>>}
    <3>1. PICK k \in Queues : \E i \in Elems(b.p[k]) : r = <<k, i>>
      BY ReadyShape
    <3>2. PICK i \in Elems(b.p[k]) : r = <<k, i>>
      BY <3>1
    <3> QED  BY <2>1, <3>2, ReadyMember
  <2>3. ASSUME NEW r \in ReadyAt(a) PROVE r \in ReadyAt(b)
    <3>1. PICK k \in Queues : \E i \in Elems(a.p[k]) : r = <<k, i>>
      BY ReadyShape
    <3>2. PICK i \in Elems(a.p[k]) : r = <<k, i>>
      BY <3>1
    <3> QED  BY <2>1, <3>2, ReadyMember
  <2>4. <<n, m>> \in ReadyAt(b)
    BY <2>1, ReadyMember
  <2> QED  BY <2>2, <2>3, <2>4
<1>9. m \notin Promise!ReadyMsgs \cup Promise!LeasedMsgs \cup gone
  BY <1>4, <1>5, <1>6 DEF Maps, Promise!ReadyMsgs, Promise!LeasedMsgs
<1>10. Promise!Accept(n, m)
  BY <1>3, <1>7, <1>8, <1>9 DEF Maps, Promise!Accept
<1> QED
  BY <1>2, <1>10 DEF Promise!LeaseNext

\* A step that moves nothing is a stutter.
LEMMA UnmovedStep ==
  ASSUME NEW a, NEW b, Unmoved(a, b), Maps(a, b)
  PROVE  UNCHANGED Promise!leaseVars
<1>1. ReadyAt(b) = ReadyAt(a)
  BY DEF Unmoved, ReadyAt
<1>2. ASSUME NEW z \in LeasedAt(a) PROVE z \in LeasedAt(b)
  <2>1. PICK k \in Queues : \E x \in a.l[k] : z = <<k, x.m, x.handle>>
    BY LeasedShape
  <2>2. PICK x \in a.l[k] : z = <<k, x.m, x.handle>>
    BY <2>1
  <2>3. PICK y \in b.l[k] : y.m = x.m /\ y.handle = x.handle
    BY DEF Unmoved
  <2>4. <<k, y.m, y.handle>> \in LeasedAt(b)
    BY LeasedMember
  <2> QED  BY <2>2, <2>3, <2>4
<1>3. ASSUME NEW z \in LeasedAt(b) PROVE z \in LeasedAt(a)
  <2>1. PICK k \in Queues : \E x \in b.l[k] : z = <<k, x.m, x.handle>>
    BY LeasedShape
  <2>2. PICK x \in b.l[k] : z = <<k, x.m, x.handle>>
    BY <2>1
  <2>3. PICK y \in a.l[k] : y.m = x.m /\ y.handle = x.handle
    BY DEF Unmoved
  <2>4. <<k, y.m, y.handle>> \in LeasedAt(a)
    BY LeasedMember
  <2> QED  BY <2>2, <2>3, <2>4
<1>4. LeasedAt(b) = LeasedAt(a)
  BY <1>2, <1>3
<1>5. b.gone = a.gone /\ b.uuid = a.uuid
  BY DEF Unmoved
<1> QED
  BY <1>1, <1>4, <1>5 DEF Maps, Promise!leaseVars

\* The inductive invariant of the refinement.
LeaseImpl == SoleInv /\ Spent(Here)

\* The queues start with it, where the lease specification starts.
LEMMA InitImpl == Init => LeaseImpl /\ Promise!LeaseInit
<1> SUFFICES ASSUME Init PROVE LeaseImpl /\ Promise!LeaseInit
  OBVIOUS
<1>1. SoleInv /\ Blank(Here)
  BY InitSole, InitBlank
<1>2. gone = {} /\ uuid = 0
  BY DEF Init
<1>3. Good(Here) /\ MapsTo(Here)
  BY <1>1, MapHere DEF SoleInv, PlaceInv, ViewInv
<1>4. ReadyAt(Here) = {} /\ LeasedAt(Here) = {}
  <2>1. Elems(<<>>) = {}
    BY DEF Elems
  <2> QED  BY <1>1, <2>1 DEF Blank, ReadyAt, LeasedAt
<1>5. Spent(Here)
  BY <1>2, <1>3 DEF Spent, MapsTo
<1>6. 1 .. uuid = {}
  BY <1>2
<1> QED
  BY <1>1, <1>2, <1>3, <1>4, <1>5, <1>6 DEF LeaseImpl, MapsTo, Promise!LeaseInit

\* A step from the invariant keeps it and is a step of the lease specification.
LEMMA NextImpl ==
  Plain => (LeaseImpl /\ [Next]_vars => LeaseImpl' /\ [Promise!LeaseNext]_(Promise!leaseVars))
<1> SUFFICES ASSUME Plain, LeaseImpl, [Next]_vars
             PROVE  LeaseImpl' /\ [Promise!LeaseNext]_(Promise!leaseVars)
  OBVIOUS
<1>1. SoleInv /\ SoleInv' /\ Leads
  BY NextSole, NextPlace DEF LeaseImpl, SoleInv
<1>2. /\ Good(Here) /\ Placed(Here) /\ Unique(Here) /\ Settled(Here) /\ Spent(Here)
      /\ Step(Here, Here', now) /\ now \in Int /\ Good(Here') /\ Unique(Here')
  BY <1>1 DEF LeaseImpl, SoleInv, PlaceInv, ViewInv, Leads
<1>3. Kind(Here, Here')
  BY <1>2, StepKind
<1>4. Spent(Here')
  BY <1>2, <1>3, KindSpent
<1>5. (Good(Here) => MapsTo(Here))'
  BY MapHere, PTL
<1>6. Maps(Here, Here')
  BY <1>2, <1>5, MapHere DEF MapsTo, Maps
<1>7. ASSUME NEW n \in Queues, Serves(Here, Here', n),
             Here'.uuid = Here.uuid \/ Here'.uuid <= MaxHandles
      PROVE  Promise!LeaseNext
  <2>1. Served(Here, Here', n)
    BY <1>7 DEF Serves
  <2> QED  BY <1>2, <1>6, <1>7, <2>1, ServeStep
<1>8. ASSUME NEW n \in Queues, NEW e, Accepts(Here, Here', n, e), Len(Here.msg) < MaxMsgs
      PROVE  Promise!LeaseNext
  BY <1>2, <1>6, <1>8, AcceptStep
<1>9. ASSUME Unmoved(Here, Here') PROVE UNCHANGED Promise!leaseVars
  BY <1>6, <1>9, UnmovedStep
<1>10. Promise!LeaseNext \/ UNCHANGED Promise!leaseVars
  BY <1>3, <1>7, <1>8, <1>9 DEF Kind
<1>11. LeaseImpl'
  BY <1>1, <1>4 DEF LeaseImpl
<1> QED
  BY <1>10, <1>11

\* For every set of queues and of messages, with plain policies: every
\* operation of the queues, with its passes over the slices, is one step of
\* what SqsLease promises. Messages move between ready, leased and retired as
\* it allows; a receive leases under fresh handles messages that were ready or
\* whose lease it ended, and what a queue does not keep goes to its
\* dead-letter queue or is retired.
THEOREM LeaseImplemented == Plain => (Spec => ImplementsLease)
<1> SUFFICES ASSUME Plain PROVE Spec => ImplementsLease
  OBVIOUS
<1>1. LeaseImpl /\ [Next]_vars => LeaseImpl'
  BY NextImpl
<1>2. LeaseImpl /\ [Next]_vars => [Promise!LeaseNext]_(Promise!leaseVars)
  BY NextImpl
<1>3. Init => LeaseImpl /\ Promise!LeaseInit
  BY InitImpl
<1>4. Spec => []LeaseImpl
  BY <1>1, <1>3, PTL DEF Spec
<1> QED
  BY <1>2, <1>3, <1>4, PTL DEF Spec, ImplementsLease, Promise!LeaseSpec

=============================================================================
