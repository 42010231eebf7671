------------------------- MODULE LambdaPollerProofs -------------------------
(***************************************************************************)
(* Proofs about LambdaPoller, for any messages, mappings, configurations,  *)
(* ring sizes and numbers of records: the poller drops no message, a batch *)
(* holds no message twice, and of a shard that is read from its beginning  *)
(* no more is missed than the shard lost.                                  *)
(***************************************************************************)
EXTENDS LambdaPoller, FiniteSetTheorems, SequenceTheorems, TLAPS

-----------------------------------------------------------------------------
(* Sequences of handles.                                                   *)

H == Msgs \X Handles

\* What a concatenation holds.
LEMMA ConcatSet ==
  ASSUME NEW S, NEW s \in Seq(S), NEW t \in Seq(S)
  PROVE  s \o t \in Seq(S) /\ ToSet(s \o t) = ToSet(s) \cup ToSet(t)
<1>1. s \o t \in Seq(S) /\ Len(s \o t) = Len(s) + Len(t)
  OBVIOUS
<1>2. ASSUME NEW x \in ToSet(s \o t) PROVE x \in ToSet(s) \cup ToSet(t)
  BY <1>2 DEF ToSet
<1>3. ASSUME NEW x \in ToSet(s) PROVE x \in ToSet(s \o t)
  BY <1>3 DEF ToSet
<1>4. ASSUME NEW x \in ToSet(t) PROVE x \in ToSet(s \o t)
  <2>1. PICK k \in 1 .. Len(t) : x = t[k]
    BY <1>4 DEF ToSet
  <2>2. (s \o t)[Len(s) + k] = x /\ Len(s) + k \in 1 .. Len(s \o t)
    BY <2>1
  <2> QED
    BY <1>1, <2>2 DEF ToSet
<1> QED
  BY <1>1, <1>2, <1>3, <1>4

\* What SetToSeqs of a finite set holds.
LEMMA OrderOf ==
  ASSUME NEW S, IsFiniteSet(S), NEW f \in SetToSeqs(S)
  PROVE  /\ f \in Seq(S) /\ ToSet(f) \subseteq S
         /\ \A i, j \in DOMAIN f : f[i] = f[j] => i = j
<1>1. Cardinality(S) \in Nat
  BY FS_CardinalityType
<1>2. f \in [1 .. Cardinality(S) -> S]
  BY DEF SetToSeqs
<1> QED
  BY <1>1, <1>2 DEF SetToSeqs, ToSet

\* No message twice in one sequence.
Once(s) == \A k, l \in DOMAIN s : s[k][1] = s[l][1] => k = l

\* For a work list of one batch the two readings agree.
LEMMA OncePart == ASSUME NEW s PROVE Distinct(<<s>>) <=> Once(s)
  BY DEF Distinct, Once

\* One handle for each message.
OneEach(in) == \A g, h \in in : g[1] = h[1] => g = h

\* accumulateSQSBatch: the handles that are renewed in place and the messages
\* that are appended make a batch without repetition.
LEMMA AccumulatedOnce ==
  ASSUME NEW b \in Seq(H), Once(b), NEW in \in SUBSET H, OneEach(in),
         IsFiniteSet(in), NEW new \in SetToSeqs(Unbuffered(b, in))
  PROVE  /\ Refreshed(b, in) \o new \in Seq(H)
         /\ Once(Refreshed(b, in) \o new)
<1> DEFINE r == Refreshed(b, in)
<1>1. r \in Seq(H) /\ Len(r) = Len(b) /\ \A k \in DOMAIN b : r[k][1] = b[k][1]
  <2>1. ASSUME NEW k \in DOMAIN b PROVE r[k] \in H /\ r[k][1] = b[k][1]
    <3>1. CASE \E h \in in : h[1] = b[k][1]
      BY <3>1 DEF Refreshed
    <3>2. CASE ~ \E h \in in : h[1] = b[k][1]
      BY <3>2 DEF Refreshed
    <3> QED  BY <3>1, <3>2
  <2>2. r \in [1 .. Len(b) -> H]
    BY <2>1 DEF Refreshed
  <2> QED
    BY <2>1, <2>2
<1>2. /\ new \in Seq(Unbuffered(b, in)) /\ ToSet(new) \subseteq Unbuffered(b, in)
      /\ \A i, j \in DOMAIN new : new[i] = new[j] => i = j
  <2>1. IsFiniteSet(Unbuffered(b, in))
    BY FS_Subset DEF Unbuffered
  <2> QED
    BY <2>1, OrderOf
<1>3. new \in Seq(H) /\ Once(new)
  BY <1>2 DEF Unbuffered, OneEach, Once
<1>4. ASSUME NEW k \in DOMAIN b, NEW l \in DOMAIN new PROVE b[k][1] # new[l][1]
  <2>1. new[l] \in Unbuffered(b, in)
    BY <1>2
  <2> QED
    BY <2>1 DEF Unbuffered, MsgsOf, ToSet
<1> HIDE DEF r
<1>5. r \o new \in Seq(H) /\ Len(r \o new) = Len(b) + Len(new)
  BY <1>1, <1>3, ConcatProperties
<1>6. Once(r \o new)
  <2> SUFFICES ASSUME NEW k \in 1 .. Len(b) + Len(new), NEW l \in 1 .. Len(b) + Len(new),
                      (r \o new)[k][1] = (r \o new)[l][1]
               PROVE  k = l
    BY <1>5 DEF Once
  <2>1. CASE k <= Len(b) /\ l <= Len(b)
    BY <1>1, <1>3, <2>1, SMTT(20) DEF Once
  <2>2. CASE k > Len(b) /\ l > Len(b)
    <3>1. new[k - Len(b)][1] = new[l - Len(b)][1]
      BY <1>1, <1>3, <2>2, SMTT(20)
    <3> QED  BY <1>1, <1>3, <2>2, <3>1 DEF Once
  <2>3. CASE k <= Len(b) /\ l > Len(b)
    BY <1>1, <1>3, <1>4, <2>3, SMTT(20)
  <2>4. CASE k > Len(b) /\ l <= Len(b)
    BY <1>1, <1>3, <1>4, <2>4
  <2> QED  BY <1>1, <2>1, <2>2, <2>3, <2>4
<1> QED
  BY <1>5, <1>6 DEF r

\* deliverSQSBatch: a batch that is done with leaves no repetition.
LEMMA PartsLeft ==
  ASSUME NEW S, NEW w \in Seq(Seq(S)), w # <<>>, Distinct(w)
  PROVE  Tail(w) \in Seq(Seq(S)) /\ Distinct(Tail(w))
<1>1. /\ Tail(w) \in Seq(Seq(S)) /\ Len(Tail(w)) = Len(w) - 1
      /\ \A i \in 1 .. Len(Tail(w)) : Tail(w)[i] = w[i + 1]
  BY HeadTailProperties
<1>2. Len(w) \in Nat
  BY LenProperties
<1>3. ASSUME NEW i \in DOMAIN Tail(w)
      PROVE  i \in Int /\ i + 1 \in DOMAIN w /\ Tail(w)[i] = w[i + 1]
  BY <1>1, <1>2
<1>4. Distinct(Tail(w))
  <2> SUFFICES ASSUME NEW i \in DOMAIN Tail(w), NEW j \in DOMAIN Tail(w),
                      NEW k \in DOMAIN Tail(w)[i], NEW l \in DOMAIN Tail(w)[j],
                      Tail(w)[i][k][1] = Tail(w)[j][l][1]
               PROVE  i = j /\ k = l
    BY DEF Distinct
  <2>1. i + 1 = j + 1 /\ k = l
    BY <1>3 DEF Distinct
  <2> QED  BY <1>3, <2>1
<1> QED
  BY <1>1, <1>4

\* The middle of a batch.
LEMMA Middle == ASSUME NEW m \in Nat PROVE m \div 2 \in Nat /\ m \div 2 <= m
  OBVIOUS

\* What comes after the middle.
LEMMA LengthLeft ==
  ASSUME NEW m \in Nat, NEW n \in Nat, n <= m
  PROVE  (IF n + 1 <= m THEN m - (n + 1) + 1 ELSE 0) = m - n
  OBVIOUS

\* The first and the second part of a sequence.
LEMMA HalfOf ==
  ASSUME NEW S, NEW b \in Seq(S), NEW n \in Nat, n = Len(b) \div 2, n <= Len(b)
  PROVE  /\ Half(b) \in Seq(Seq(S)) /\ Len(Half(b)) = 2
         /\ Half(b)[1] \in Seq(S) /\ Len(Half(b)[1]) = n
         /\ \A k \in 1 .. n : Half(b)[1][k] = b[k]
         /\ Half(b)[2] \in Seq(S) /\ Len(Half(b)[2]) = Len(b) - n
         /\ \A k \in 1 .. Len(b) - n : Half(b)[2][k] = b[k + n]
<1> DEFINE p == SubSeq(b, 1, n)
           q == SubSeq(b, n + 1, Len(b))
<1>1. Len(b) \in Nat /\ \A k \in 1 .. Len(b) : b[k] \in S
  BY LenProperties
<1>2. p \in Seq(S) /\ Len(p) = n /\ \A k \in 1 .. n : p[k] = b[k]
  <2>1. \A k \in 1 .. n : b[k] \in S
    BY <1>1
  <2>2. /\ p \in Seq(S) /\ Len(p) = IF 1 <= n THEN n - 1 + 1 ELSE 0
        /\ \A k \in 1 .. n - 1 + 1 : p[k] = b[1 + k - 1]
    BY <2>1, SubSeqProperties
  <2> HIDE DEF p
  <2> QED  BY <2>2
<1>3. q \in Seq(S) /\ Len(q) = Len(b) - n /\ \A k \in 1 .. Len(b) - n : q[k] = b[k + n]
  <2>1. \A k \in n + 1 .. Len(b) : b[k] \in S
    BY <1>1
  <2>2. /\ q \in Seq(S)
        /\ Len(q) = IF n + 1 <= Len(b) THEN Len(b) - (n + 1) + 1 ELSE 0
        /\ \A k \in 1 .. Len(b) - (n + 1) + 1 : q[k] = b[n + 1 + k - 1]
    BY <1>1, <2>1, SubSeqProperties
  <2> HIDE DEF q
  <2>3. Len(q) = Len(b) - n
    BY <1>1, <2>2, LengthLeft
  <2>4. ASSUME NEW k \in 1 .. Len(b) - n PROVE q[k] = b[k + n]
    <3>1. k \in 1 .. Len(b) - (n + 1) + 1 /\ n + 1 + k - 1 = k + n
      BY <1>1
    <3>2. q[k] = b[n + 1 + k - 1]
      BY <2>2, <3>1
    <3> QED  BY <3>1, <3>2
  <2> QED  BY <2>2, <2>3, <2>4
<1>4. Half(b) = <<p, q>>
  BY DEF Half
<1> HIDE DEF p, q
<1> QED
  BY <1>2, <1>3, <1>4

\* deliverSQSBatch: a batch that is halved leaves no repetition.
LEMMA HalvesDistinct ==
  ASSUME NEW S, NEW w \in Seq(Seq(S)), w # <<>>, Distinct(w)
  PROVE  /\ Half(Head(w)) \o Tail(w) \in Seq(Seq(S))
         /\ Distinct(Half(Head(w)) \o Tail(w))
<1> DEFINE b == w[1]
           n == Len(b) \div 2
           v == Half(b) \o Tail(w)
<1>1. b \in Seq(S) /\ Head(w) = b /\ Len(w) \in Nat \ {0}
  BY EmptySeq
<1>2. Len(b) \in Nat /\ DOMAIN b = 1 .. Len(b)
  BY <1>1, LenProperties
<1>3. n \in Nat /\ n <= Len(b)
  BY <1>2, Middle
<1> HIDE DEF n
<1>4. /\ Half(b) \in Seq(Seq(S)) /\ Len(Half(b)) = 2
      /\ Half(b)[1] \in Seq(S) /\ Len(Half(b)[1]) = n
      /\ \A k \in 1 .. n : Half(b)[1][k] = b[k]
      /\ Half(b)[2] \in Seq(S) /\ Len(Half(b)[2]) = Len(b) - n
      /\ \A k \in 1 .. Len(b) - n : Half(b)[2][k] = b[k + n]
  BY <1>1, <1>3, HalfOf, ZenonT(40) DEF n
<1>5. /\ Tail(w) \in Seq(Seq(S)) /\ Len(Tail(w)) = Len(w) - 1
      /\ \A i \in 1 .. Len(w) - 1 : Tail(w)[i] = w[i + 1]
  BY HeadTailProperties
<1>6. /\ v \in Seq(Seq(S)) /\ Len(v) = Len(w) + 1
      /\ v[1] = Half(b)[1] /\ v[2] = Half(b)[2]
      /\ \A i \in 3 .. Len(w) + 1 : v[i] = w[i - 1]
  <2>1. /\ v \in Seq(Seq(S)) /\ Len(v) = 2 + (Len(w) - 1)
        /\ \A i \in 1 .. 2 + (Len(w) - 1) :
             v[i] = IF i <= 2 THEN Half(b)[i] ELSE Tail(w)[i - 2]
    <3>1. /\ v \in Seq(Seq(S)) /\ Len(v) = Len(Half(b)) + Len(Tail(w))
          /\ \A i \in 1 .. Len(Half(b)) + Len(Tail(w)) :
               v[i] = IF i <= Len(Half(b)) THEN Half(b)[i] ELSE Tail(w)[i - Len(Half(b))]
      <4> DEFINE h == Half(b)
                 t == Tail(w)
      <4>1. h \in Seq(Seq(S)) /\ t \in Seq(Seq(S))
        BY <1>4, <1>5
      <4> HIDE DEF h, t
      <4>2. /\ h \o t \in Seq(Seq(S)) /\ Len(h \o t) = Len(h) + Len(t)
            /\ \A i \in 1 .. Len(h) + Len(t) :
                 (h \o t)[i] = IF i <= Len(h) THEN h[i] ELSE t[i - Len(h)]
        BY <4>1, ConcatProperties
      <4> QED  BY <4>2 DEF h, t
    <3> HIDE DEF v
    <3> QED  BY <1>4, <1>5, <3>1
  <2> HIDE DEF v, b
  <2>2. \A i \in 3 .. Len(w) + 1 : v[i] = w[i - 1]
    <3> TAKE i \in 3 .. Len(w) + 1
    <3>1. v[i] = Tail(w)[i - 2]
      BY <1>1, <2>1
    <3>2. i - 2 \in 1 .. Len(w) - 1 /\ (i - 2) + 1 = i - 1
      BY <1>1
    <3> QED  BY <1>5, <3>1, <3>2
  <2> QED  BY <1>1, <2>1, <2>2
<1> DEFINE part(i) == IF i < 3 THEN 1 ELSE i - 1
           place(i, k) == IF i = 2 THEN k + n ELSE k
<1> HIDE DEF v
<1>7. ASSUME NEW i \in DOMAIN v, NEW k \in DOMAIN v[i]
      PROVE  /\ i \in Nat \ {0}
             /\ part(i) \in DOMAIN w /\ place(i, k) \in DOMAIN w[part(i)]
             /\ v[i][k] = w[part(i)][place(i, k)]
             /\ i < 3 => k \in Nat \ {0}
             /\ i = 1 => k <= n
  <2>0. i \in 1 .. Len(w) + 1 /\ DOMAIN w = 1 .. Len(w)
    BY <1>6, LenProperties
  <2>1. CASE i = 1
    <3>0. k \in DOMAIN Half(b)[1]
      BY <1>6, <1>7, <2>1
    <3>1. k \in 1 .. n /\ v[i][k] = b[k]
      BY <1>4, <1>6, <2>1, <3>0, LenProperties
    <3>2. k \in DOMAIN b /\ k \in Nat \ {0} /\ k <= n
      BY <1>2, <1>3, <3>1
    <3> HIDE DEF b
    <3> QED  BY <1>1, <2>0, <2>1, <3>1, <3>2 DEF b
  <2>2. CASE i = 2
    <3>0. k \in DOMAIN Half(b)[2]
      BY <1>6, <1>7, <2>2
    <3>1. k \in 1 .. Len(b) - n /\ v[i][k] = b[k + n]
      BY <1>4, <1>6, <2>2, <3>0, LenProperties, SMTT(20)
    <3>2. k + n \in DOMAIN b /\ k \in Nat \ {0}
      BY <1>2, <1>3, <3>1
    <3> QED  BY <1>1, <2>0, <2>2, <3>1, <3>2
  <2>3. CASE i \in 3 .. Len(w) + 1
    <3>1. v[i] = w[i - 1] /\ i - 1 \in DOMAIN w
      BY <1>6, <2>0, <2>3
    <3> QED  BY <1>7, <1>1, <2>3, <3>1
  <2> QED  BY <1>1, <2>0, <2>1, <2>2, <2>3
<1>8. Distinct(v)
  <2> SUFFICES ASSUME NEW i \in DOMAIN v, NEW j \in DOMAIN v,
                      NEW k \in DOMAIN v[i], NEW l \in DOMAIN v[j],
                      v[i][k][1] = v[j][l][1]
               PROVE  i = j /\ k = l
    BY DEF Distinct
  <2>1. /\ part(i) \in DOMAIN w /\ place(i, k) \in DOMAIN w[part(i)]
        /\ v[i][k] = w[part(i)][place(i, k)]
    BY <1>7
  <2>2. /\ part(j) \in DOMAIN w /\ place(j, l) \in DOMAIN w[part(j)]
        /\ v[j][l] = w[part(j)][place(j, l)]
    BY <1>7
  <2>3. /\ i \in Nat \ {0} /\ (i < 3 => k \in Nat \ {0}) /\ (i = 1 => k <= n)
        /\ j \in Nat \ {0} /\ (j < 3 => l \in Nat \ {0}) /\ (j = 1 => l <= n)
    BY <1>7
  <2> HIDE DEF part, place
  <2>4. part(i) = part(j) /\ place(i, k) = place(j, l)
    BY <2>1, <2>2 DEF Distinct
  <2> USE DEF part, place
  <2> QED  BY <1>3, <2>3, <2>4
<1> QED
  BY <1>1, <1>6, <1>8 DEF v
-----------------------------------------------------------------------------
(* The invariant.                                                          *)

PCs == {"idle", "expired", "filtered", "invoke", "delete", "sweep"}

\* What a poll takes from its source.
Taken == IF source = "sqs" THEN H ELSE Records

Runs(T) == [pc : PCs, id : {0} \cup Mappings, in : SUBSET T,
            work : Seq(Seq(H)), del : Seq(H), conf : Configs \cup {Unset}]

BufferTypes == config \in Configs /\ buf \in [Mappings -> Seq(H)]

RunTypes ==
  /\ run \in Runs(Taken)
  /\ run.pc # "idle" => run.id \in Mappings
  /\ run.pc \in {"expired", "filtered"} => source = "sqs" /\ OneEach(run.in)

Types == TypeOK /\ BufferTypes /\ RunTypes

\* What is about to be deleted was accepted, matches no filter or is too old.
MayDelete == \A h \in ToSet(run.del) : h[1] \in accepted \cup filtered \cup old

\* The last record before offset i of a shard that holds d + 1 .. l.
Reach(i, d, l) == d + (IF i <= l - d THEN i ELSE l - d)

\* Why NothingSkipped holds, of the iterators of all mappings.  A Kinesis offset
\* is never more than the number of records before it that were handed over: a
\* trim leaves the offset as it is and moves it on in the shard.
Covered ==
  start = "TRIM_HORIZON" =>
    \A u \in Mappings : iter[u] # None =>
      /\ source = "kinesis" =>
           iter[u] <= Cardinality((1 .. Reach(iter[u], dropped, log)) \cap Handed)
      /\ source = "dynamodb" => \A k \in 1 .. iter[u] - 1 : k \in Handed \/ k <= dropped

IInv == Types /\ MayDelete /\ NoneDropped /\ BatchDistinct /\ Covered

\* The assumption as the proofs use it.
LEMMA Constants ==
  /\ IsFiniteSet(Msgs) /\ IsFiniteSet(H)
  /\ MaxRecords \in Nat /\ MaxMappings \in Nat \ {0} /\ RingSize \in Nat \ {0}
  /\ \A c \in Configs : c.size \in Nat \ {0}
<1>1. IsFiniteSet(Handles)
  BY PollerAssumption, FS_Interval DEF Handles
<1>2. IsFiniteSet(H)
  BY <1>1, PollerAssumption, FS_Product DEF H
<1> QED
  BY <1>2, PollerAssumption

\* A message and its handle.
LEMMA HandleOf == \A h \in H : h = <<h[1], h[2]>> /\ h[1] \in Msgs /\ h[2] \in Handles
  BY DEF H

\* The least of two numbers.
LEMMA LeastOfTwo ==
  ASSUME NEW a \in Int, NEW b \in Int
  PROVE  Min({a, b}) \in {a, b} /\ Min({a, b}) <= a /\ Min({a, b}) <= b
<1>1. \E x \in {a, b} : \A y \in {a, b} : x <= y
  <2>1. CASE a <= b
    BY <2>1
  <2>2. CASE b <= a
    BY <2>2
  <2> QED  BY <2>1, <2>2
<1> QED
  BY <1>1 DEF Min

\* There is one handle more than there are mappings.
LEMMA MoreHandles ==
  /\ IsFiniteSet(Handles) /\ IsFiniteSet(Mappings)
  /\ Cardinality(Mappings) < Cardinality(Handles)
<1>1. MaxMappings \in Nat
  BY Constants
<1>2. IsFiniteSet(Mappings) /\ Cardinality(Mappings) = MaxMappings
  BY <1>1, FS_Interval DEF Mappings
<1>3. IsFiniteSet(Handles) /\ Cardinality(Handles) = MaxMappings + 1
  BY <1>1, FS_Interval DEF Handles
<1> QED
  BY <1>1, <1>2, <1>3

\* The buffers of MaxMappings mappings hold at most MaxMappings handles of a
\* message, so there is one that none of them holds.
LEMMA FreshHandle ==
  ASSUME NEW m \in Msgs, buf \in [Mappings -> Seq(H)], BatchDistinct
  PROVE  /\ NewHandle(m) \in Handles
         /\ \A u \in Mappings : <<m, NewHandle(m)>> \notin ToSet(buf[u])
<1> DEFINE holds(u, n) == <<m, n>> \in ToSet(buf[u])
<1>1. \E n \in Handles : \A u \in Mappings : ~holds(u, n)
  <2> SUFFICES ASSUME \A n \in Handles : \E u \in Mappings : holds(u, n)
               PROVE  FALSE
    OBVIOUS
  <2> DEFINE f == [n \in Handles |-> CHOOSE u \in Mappings : holds(u, n)]
  <2>1. f \in [Handles -> Mappings] /\ \A n \in Handles : holds(f[n], n)
    OBVIOUS
  <2>2. /\ IsFiniteSet(Handles) /\ IsFiniteSet(Mappings)
        /\ Cardinality(Mappings) < Cardinality(Handles)
    BY MoreHandles
  <2> HIDE DEF f
  <2>3. PICK x, y \in Handles : x # y /\ f[x] = f[y]
    BY <2>1, <2>2, FS_PigeonHole
  <2>4. PICK u \in Mappings : holds(u, x) /\ holds(u, y)
    BY <2>1, <2>3
  <2>5. Once(buf[u])
    BY OncePart DEF BatchDistinct
  <2>6. PICK k \in DOMAIN buf[u] : buf[u][k] = <<m, x>>
    BY <2>4 DEF ToSet
  <2>7. PICK l \in DOMAIN buf[u] : buf[u][l] = <<m, y>>
    BY <2>4 DEF ToSet
  <2>8. k = l
    BY <2>5, <2>6, <2>7 DEF Once
  <2> QED
    BY <2>3, <2>6, <2>7, <2>8
<1> QED
  BY <1>1 DEF NewHandle

\* What is received has one handle for each message.
LEMMA ReceivedOnce ==
  ASSUME NEW ms \in SUBSET Msgs, buf \in [Mappings -> Seq(H)], BatchDistinct
  PROVE  /\ Received(ms) \subseteq H /\ OneEach(Received(ms)) /\ IsFiniteSet(Received(ms))
         /\ \A h \in Received(ms) : h[1] \in ms
<1>1. Received(ms) \subseteq H
  BY FreshHandle DEF Received, H
<1>2. OneEach(Received(ms)) /\ \A h \in Received(ms) : h[1] \in ms
  BY DEF Received, OneEach
<1> QED
  BY <1>1, <1>2, Constants, FS_Subset
-----------------------------------------------------------------------------
(* Every step keeps the types.                                             *)

\* The event source and the starting position stay as they are.
LEMMA Fixed == ASSUME [Next]_vars PROVE UNCHANGED <<source, start>>
  BY DEF Next, Poll, vars, mappingVars, SendMessage, LeaseEnds, Ages, PutRecord, Trim, Update,
     CreateMapping, DeleteMapping, WindowElapses, Receive, Deleting, DeleteNext,
     Filter, Accumulate, Deliver, Delivered, GetRecords, GetStreamRecords, Reading,
     GetRecordsFails, InvokeRecords, SweepStale, PollNothing

\* accumulateSQSBatch: the batch and the buffer that a step leaves.
LEMMA AccumulateStep ==
  ASSUME Types, BatchDistinct, Accumulate
  PROVE  \E all \in Seq(H), flush \in BOOLEAN :
           /\ Once(all) /\ run.id \in Mappings
           /\ run' = [run EXCEPT !.pc = IF flush THEN "invoke" ELSE "sweep", !.in = {},
                                 !.work = IF flush THEN <<all>> ELSE <<>>]
           /\ buf' = [buf EXCEPT ![run.id] = IF flush \/ ~Conf.windowed THEN <<>> ELSE all]
<1>1. run.id \in Mappings /\ run.in \subseteq H /\ OneEach(run.in) /\ IsFiniteSet(run.in)
  <2>1. run.pc = "filtered" /\ run.id \in Mappings /\ run.in \subseteq H /\ OneEach(run.in)
    BY DEF Accumulate, Types, RunTypes, Runs, Taken
  <2> QED  BY <2>1, Constants, FS_Subset
<1>2. Gathered \in Seq(H) /\ Once(Gathered)
  <2>1. CASE Conf.windowed
    BY <1>1, <2>1, OncePart DEF Gathered, BatchDistinct, Types, BufferTypes
  <2>2. CASE ~Conf.windowed
    BY <2>2 DEF Gathered, Once
  <2> QED  BY <2>1, <2>2
<1>3. PICK new \in SetToSeqs(Unbuffered(Gathered, run.in)) :
      LET all == Refreshed(Gathered, run.in) \o new
          flush == all # <<>> /\ (Conf.windowed => Len(all) >= Conf.size \/ run.id \in elapsed)
      IN  /\ run' = [run EXCEPT !.pc = IF flush THEN "invoke" ELSE "sweep", !.in = {},
                                !.work = IF flush THEN <<all>> ELSE <<>>]
          /\ buf' = [buf EXCEPT ![run.id] = IF flush \/ ~Conf.windowed THEN <<>> ELSE all]
  BY DEF Accumulate
<1> DEFINE all == Refreshed(Gathered, run.in) \o new
           flush == all # <<>> /\ (Conf.windowed => Len(all) >= Conf.size \/ run.id \in elapsed)
<1>4. all \in Seq(H) /\ Once(all)
  BY <1>1, <1>2, AccumulatedOnce
<1>5. flush \in BOOLEAN
  OBVIOUS
<1>6. /\ run' = [run EXCEPT !.pc = IF flush THEN "invoke" ELSE "sweep", !.in = {},
                            !.work = IF flush THEN <<all>> ELSE <<>>]
      /\ buf' = [buf EXCEPT ![run.id] = IF flush \/ ~Conf.windowed THEN <<>> ELSE all]
  BY <1>3
<1> HIDE DEF all, flush
<1> QED
  BY <1>1, <1>4, <1>5, <1>6

\* ReceiveMessagesLocal: what a receive leases and drops.
LEMMA ReceiveStep ==
  ASSUME Types, BatchDistinct, Receive, ~(config.size > MaxReceive)
  PROVE  \E ms \in SUBSET Msgs : \E drop \in Seq(H) :
           /\ ToSet(drop) \subseteq Received(ms \cap old)
           /\ msg' = [m \in Msgs |-> IF m \in ms
                        THEN [st |-> "leased", handle |-> NewHandle(m)] ELSE msg[m]]
           /\ run' = [Idle EXCEPT !.pc = "expired", !.id = mapping.id,
                                  !.in = Received(ms \ old), !.del = drop]
<1>1. PICK ms \in kSubset(Min({config.size, Cardinality(Visible)}), Visible) :
      \E drop \in SetToSeqs(Received(ms \cap old)) :
        /\ msg' = [m \in Msgs |-> IF m \in ms
                     THEN [st |-> "leased", handle |-> NewHandle(m)] ELSE msg[m]]
        /\ run' = [Idle EXCEPT !.pc = "expired", !.id = mapping.id,
                               !.in = Received(ms \ old), !.del = drop]
  BY DEF Receive
<1>2. ms \in SUBSET Msgs
  BY DEF kSubset, Visible
<1>3. Received(ms \cap old) \subseteq H /\ IsFiniteSet(Received(ms \cap old))
  BY <1>2, ReceivedOnce DEF Types, BufferTypes
<1>4. ASSUME NEW drop \in SetToSeqs(Received(ms \cap old))
      PROVE  drop \in Seq(H) /\ ToSet(drop) \subseteq Received(ms \cap old)
  <2>1. drop \in Seq(Received(ms \cap old)) /\ ToSet(drop) \subseteq Received(ms \cap old)
    BY <1>3, OrderOf
  <2> QED  BY <1>3, <2>1, SeqMonotonic
<1> QED
  BY <1>1, <1>2, <1>4

\* deliverSQSBatch: the work that is left and what may be deleted.
LEMMA DeliverStep ==
  ASSUME Types, BatchDistinct, Deliver
  PROVE  \E w \in Seq(Seq(H)), d \in Seq(H) :
           /\ run' = [run EXCEPT !.work = w, !.del = d]
           /\ Distinct(w)
           /\ \/ d = run.del
              \/ /\ ToSet(d) = ToSet(run.del) \cup ToSet(Head(run.work))
                 /\ accepted' = accepted \cup MsgsOf(Head(run.work))
<1>1. /\ run.work \in Seq(Seq(H)) /\ run.work # <<>> /\ run.del \in Seq(H)
      /\ Distinct(run.work) /\ run \in Runs(Taken)
  BY DEF Deliver, Types, RunTypes, Runs, BatchDistinct
<1>2. Head(run.work) \in Seq(H) /\ Tail(run.work) \in Seq(Seq(H)) /\ Distinct(Tail(run.work))
  BY <1>1, HeadTailProperties, PartsLeft
<1>3. CASE /\ accepted' = accepted \cup MsgsOf(Head(run.work))
           /\ run' = [run EXCEPT !.work = Tail(@), !.del = @ \o Head(run.work)]
  <2>1. /\ run.del \o Head(run.work) \in Seq(H)
        /\ ToSet(run.del \o Head(run.work)) = ToSet(run.del) \cup ToSet(Head(run.work))
    BY <1>1, <1>2, ConcatSet
  <2> QED  BY <1>2, <1>3, <2>1
<1>4. CASE run' = [run EXCEPT !.work = Half(Head(run.work)) \o Tail(@)]
  <2> DEFINE w == Half(Head(run.work)) \o Tail(run.work)
  <2>1. w \in Seq(Seq(H)) /\ Distinct(w)
    BY <1>1, HalvesDistinct
  <2>2. run' = [run EXCEPT !.work = w]
    BY <1>4
  <2> HIDE DEF w
  <2>3. run' = [run EXCEPT !.work = w, !.del = run.del]
    BY <1>1, <2>2 DEF Runs
  <2> QED  BY <1>1, <2>1, <2>3
<1>5. CASE run' = [run EXCEPT !.work = Tail(@)]
  <2>1. run' = [run EXCEPT !.work = Tail(run.work), !.del = run.del]
    BY <1>1, <1>5 DEF Runs
  <2> QED  BY <1>1, <1>2, <2>1
<1> QED
  BY <1>3, <1>4, <1>5 DEF Deliver

\* DeleteMessagesLocal: the handles that are left, and the message deleted.
LEMMA DeleteStep ==
  ASSUME Types, Deleting
  PROVE  \E d \in Seq(H) :
           /\ run' = [run EXCEPT !.del = d] /\ ToSet(d) \subseteq ToSet(run.del)
           /\ \/ msg' = msg
              \/ \E h \in ToSet(run.del) \cap H : msg' = [msg EXCEPT ![h[1]] = Without("deleted")]
<1>1. run.del \in Seq(H) /\ run.del # <<>>
  BY DEF Deleting, DeleteNext, Types, RunTypes, Runs
<1>2. /\ Head(run.del) \in H /\ Tail(run.del) \in Seq(H)
      /\ Head(run.del) \in ToSet(run.del) /\ ToSet(Tail(run.del)) \subseteq ToSet(run.del)
  <2>1. /\ Head(run.del) \in H /\ Tail(run.del) \in Seq(H)
        /\ Len(Tail(run.del)) = Len(run.del) - 1
        /\ \A i \in 1 .. Len(Tail(run.del)) : Tail(run.del)[i] = run.del[i + 1]
    BY <1>1, HeadTailProperties
  <2>2. Len(run.del) \in Nat \ {0} /\ DOMAIN run.del = 1 .. Len(run.del)
    BY <1>1, EmptySeq, LenProperties
  <2>3. Head(run.del) = run.del[1]
    BY <1>1
  <2>4. DOMAIN Tail(run.del) = 1 .. Len(run.del) - 1
    BY <2>1, LenProperties
  <2>5. \A i \in 1 .. Len(run.del) - 1 : i + 1 \in 1 .. Len(run.del)
    BY <2>2
  <2> QED  BY <2>1, <2>2, <2>3, <2>4, <2>5 DEF ToSet
<1>3. <<>> \in Seq(H) /\ ToSet(<<>>) = {}
  BY DEF ToSet
<1> QED
  BY <1>2, <1>3 DEF Deleting, DeleteNext

\* What GetRecords of Kinesis reads, and where it leaves the iterator.
LEMMA KinesisRead ==
  ASSUME Types, GetRecords
  PROVE  /\ \E next \in Nat, in \in SUBSET Records : Reading(in, next)
         /\ \E from, end \in Nat :
              /\ from <= end /\ end <= Held /\ Position \in Nat
              /\ from = Position \/ (from <= Position /\ from = Held /\ end = from)
              /\ Reading(dropped + from + 1 .. dropped + end, end)
<1>1. /\ log \in Nat /\ log <= MaxRecords /\ dropped \in Nat /\ dropped <= log
      /\ iter[mapping.id] \in {None} \cup Nat /\ config.size \in Nat \ {0}
  BY Constants DEF Types, TypeOK, BufferTypes
<1>2. Held \in Nat /\ dropped + Held = log
  BY <1>1 DEF Held
<1>3. Position \in Nat
  BY <1>1, <1>2 DEF Position, StartAt, GetRecords
<1> DEFINE from == Min({Position, Held})
           top == Min({from + config.size, Held})
<1>4. from \in Nat /\ from <= Held /\ (from = Position \/ (from <= Position /\ from = Held))
  <2>1. Position \in Int /\ Held \in Int
    BY <1>2, <1>3
  <2>2. /\ Min({Position, Held}) \in {Position, Held}
        /\ Min({Position, Held}) <= Position /\ Min({Position, Held}) <= Held
    BY <2>1, LeastOfTwo
  <2> QED  BY <1>2, <1>3, <2>2
<1> HIDE DEF from
<1>5. top \in Nat /\ top <= Held /\ (top = from <=> from = Held) /\ top >= from
  <2> DEFINE far == from + config.size
  <2>1. far \in Nat /\ far > from
    BY <1>1, <1>4
  <2> HIDE DEF far
  <2>2. Min({far, Held}) \in {far, Held} /\ Min({far, Held}) <= far /\ Min({far, Held}) <= Held
    BY <1>2, <2>1, LeastOfTwo
  <2> QED  BY <1>2, <1>4, <2>1, <2>2 DEF far
<1>6. PICK end \in Ends(from) : Reading(dropped + from + 1 .. dropped + end, end)
  BY DEF GetRecords, from
<1>7. end \in IF top = from THEN {from} ELSE from + 1 .. top
  BY <1>6 DEF Ends, top
<1> HIDE DEF top
<1>8. /\ end \in Nat /\ from <= end /\ end <= Held
      /\ from = Position \/ (from <= Position /\ from = Held /\ end = from)
  BY <1>2, <1>3, <1>4, <1>5, <1>7
<1>9. dropped + from + 1 .. dropped + end \in SUBSET Records
  BY <1>1, <1>2, <1>4, <1>8, Constants DEF Records
<1> QED
  BY <1>3, <1>4, <1>6, <1>8, <1>9

\* What GetRecords of DynamoDB reads, and where it leaves the iterator.
LEMMA StreamRead ==
  ASSUME Types, GetStreamRecords
  PROVE  /\ \E next \in Nat, in \in SUBSET Records : Reading(in, next)
         /\ \E from, next \in Nat, end \in Int :
              /\ Position \in Nat /\ from = (IF Position = 0 THEN 1 ELSE Position)
              /\ next <= from \/ next = end + 1
              /\ Reading(from .. end, next)
<1>1. /\ log \in Nat /\ log <= MaxRecords /\ dropped \in Nat /\ dropped <= log
      /\ iter[mapping.id] \in {None} \cup Nat /\ config.size \in Nat \ {0}
  BY Constants DEF Types, TypeOK, BufferTypes
<1>2. Position \in Nat
  BY <1>1 DEF Position, StartAt, GetStreamRecords
<1> DEFINE from == IF Position = 0 THEN 1 ELSE Position
           end == Min({from + config.size - 1, log})
           next == IF end < from THEN log ELSE end + 1
<1>3. from \in Nat \ {0}
  BY <1>2
<1>4. Reading(from .. end, next)
  BY DEF GetStreamRecords
<1> HIDE DEF from
<1>5. end \in Int /\ end <= log /\ (end < from => end = log)
  <2> DEFINE far == from + config.size - 1
  <2>1. far \in Int /\ far >= from
    BY <1>1, <1>3
  <2> HIDE DEF far
  <2>2. Min({far, log}) \in {far, log} /\ Min({far, log}) <= far /\ Min({far, log}) <= log
    <3>1. far \in Int /\ log \in Int
      BY <1>1, <2>1
    <3> QED  BY <3>1, LeastOfTwo
  <2> QED  BY <1>1, <1>3, <2>1, <2>2 DEF far
<1> HIDE DEF end
<1>6. next \in Nat /\ (next <= from \/ next = end + 1)
  BY <1>1, <1>3, <1>5
<1>7. from .. end \in SUBSET Records
  BY <1>1, <1>3, <1>5, Constants DEF Records
<1> HIDE DEF next
<1> QED
  BY <1>2, <1>3, <1>4, <1>5, <1>6, <1>7 DEF from

\* The queue, the shard and the mappings keep their types.
LEMMA TypeOKStep ==
  ASSUME Types, BatchDistinct, [Next]_vars
  PROVE  TypeOK'
<1> USE DEF TypeOK
<1>t. TypeOK /\ RunTypes
  BY DEF Types
<1>1. ASSUME NEW m \in Msgs, SendMessage(m) PROVE TypeOK'
  BY <1>1, <1>t DEF SendMessage, Without, streamVars
<1>2. ASSUME NEW m \in Msgs, LeaseEnds(m) PROVE TypeOK'
  BY <1>2, <1>t DEF LeaseEnds, Without, streamVars
<1>3. ASSUME NEW m \in Msgs, Ages(m) PROVE TypeOK'
  BY <1>3, <1>t DEF Ages, streamVars
<1>4. CASE PutRecord \/ Trim
  <2>1. log' \in 0 .. MaxRecords /\ dropped' \in 0 .. log'
    BY <1>4, <1>t, Constants DEF PutRecord, Trim, Held
  <2> QED  BY <1>4, <1>t, <2>1 DEF PutRecord, Trim, queueVars
<1>5. CASE Update
  BY <1>5, <1>t DEF Update, queueVars, streamVars
<1>6. CASE CreateMapping
  <2>1. mapping' \in [id : Mappings, state : {"Enabled", "Disabled", "Deleted"}]
    <3>1. mapping.id + 1 \in Mappings
      BY <1>6, <1>t, Constants DEF CreateMapping, Mappings
    <3> QED  BY <1>6, <3>1 DEF CreateMapping
  <2>2. run'.pc = run.pc
    BY <1>6, <1>t DEF CreateMapping, RunTypes, Runs
  <2> QED  BY <1>6, <1>t, <2>1, <2>2 DEF CreateMapping, queueVars, streamVars
<1>7. CASE DeleteMapping
  BY <1>7, <1>t DEF DeleteMapping, Forget
<1>8. ASSUME NEW u \in Mappings, WindowElapses(u) PROVE TypeOK'
  BY <1>8, <1>t DEF WindowElapses, streamVars
<1>9. CASE SweepStale
  <2>1. run'.pc = "idle"
    BY <1>9 DEF SweepStale, Idle
  <2> QED  BY <1>9, <1>t, <2>1 DEF SweepStale, Forget
<1>10. CASE PollNothing
  BY <1>10, <1>t DEF PollNothing, Forget
<1>11. CASE UNCHANGED vars
  BY <1>11, <1>t DEF vars, queueVars, streamVars
<1>12. CASE Receive
  <2>1. CASE config.size > MaxReceive
    <3>1. run'.pc = "sweep" /\ UNCHANGED msg
      BY <1>12, <2>1 DEF Receive, Idle
    <3> QED  BY <1>12, <1>t, <3>1 DEF Receive, streamVars
  <2>2. CASE ~(config.size > MaxReceive)
    <3>1. PICK ms \in SUBSET Msgs, drop \in Seq(H) :
          /\ msg' = [m \in Msgs |-> IF m \in ms
                       THEN [st |-> "leased", handle |-> NewHandle(m)] ELSE msg[m]]
          /\ run' = [Idle EXCEPT !.pc = "expired", !.id = mapping.id,
                                 !.in = Received(ms \ old), !.del = drop]
      BY <1>12, <2>2, ReceiveStep
    <3>2. run'.pc = "expired"
      BY <3>1 DEF Idle
    <3>3. \A m \in Msgs : NewHandle(m) \in Handles
      BY FreshHandle DEF Types, BufferTypes
    <3>4. msg' \in [Msgs -> [st : {"unsent", "visible", "leased", "deleted"},
                             handle : {0} \cup Handles]]
      BY <1>t, <3>1, <3>3
    <3> QED  BY <1>12, <1>t, <3>2, <3>4 DEF Receive, streamVars
  <2> QED  BY <2>1, <2>2
<1>13. CASE Deleting
  <2>1. PICK d \in Seq(H) :
        /\ run' = [run EXCEPT !.del = d]
        /\ \/ msg' = msg
           \/ \E h \in ToSet(run.del) \cap H : msg' = [msg EXCEPT ![h[1]] = Without("deleted")]
    BY <1>13, DeleteStep
  <2>2. run'.pc = run.pc
    BY <1>t, <2>1 DEF RunTypes, Runs
  <2>3. msg' \in [Msgs -> [st : {"unsent", "visible", "leased", "deleted"},
                           handle : {0} \cup Handles]]
    BY <1>t, <2>1, HandleOf DEF Without
  <2> QED  BY <1>13, <1>t, <2>2, <2>3 DEF Deleting, DeleteNext, streamVars
<1>14. CASE Filter
  <2>1. run'.pc = "filtered"
    BY <1>14, <1>t DEF Filter, RunTypes, Runs
  <2> QED  BY <1>14, <1>t, <2>1 DEF Filter, queueVars, streamVars
<1>15. CASE Accumulate
  <2>1. run'.pc \in {"invoke", "sweep"}
    BY <1>15, <1>t, AccumulateStep DEF RunTypes, Runs
  <2> QED  BY <1>15, <1>t, <2>1 DEF Accumulate, streamVars
<1>16. CASE Deliver
  <2>1. run'.pc = run.pc
    BY <1>16, <1>t, DeliverStep DEF RunTypes, Runs
  <2>2. Head(run.work) \in Seq(H)
    BY <1>16, <1>t, HeadTailProperties DEF Deliver, RunTypes, Runs
  <2>3. MsgsOf(Head(run.work)) \subseteq Msgs
    BY <2>2, HandleOf DEF MsgsOf, ToSet
  <2> QED  BY <1>16, <1>t, <2>1, <2>3 DEF Deliver, streamVars
<1>17. CASE Delivered
  <2>1. run'.pc = "delete"
    BY <1>17, <1>t DEF Delivered, RunTypes, Runs
  <2> QED  BY <1>17, <1>t, <2>1 DEF Delivered, queueVars, streamVars
<1>18. CASE GetRecords \/ GetStreamRecords
  <2>1. PICK next \in Nat, in \in SUBSET Records : Reading(in, next)
    BY <1>18, KinesisRead, StreamRead
  <2>2. iter' \in [Mappings -> {None} \cup Nat]
    BY <1>t, <2>1 DEF Reading
  <2>3. run'.pc \in {"sweep", "invoke"}
    BY <2>1 DEF Reading, Idle
  <2> QED  BY <1>t, <2>1, <2>2, <2>3 DEF Reading, queueVars
<1>19. CASE GetRecordsFails
  <2>1. run'.pc = "sweep"
    BY <1>19 DEF GetRecordsFails, Idle
  <2> QED  BY <1>19, <1>t, <2>1 DEF GetRecordsFails, queueVars
<1>20. CASE InvokeRecords
  <2>1. run.in \subseteq Records /\ run'.pc = "sweep"
    BY <1>20, <1>t DEF InvokeRecords, RunTypes, Runs, Taken
  <2> QED  BY <1>20, <1>t, <2>1 DEF InvokeRecords, streamVars
<1> QED
  BY <1>1, <1>2, <1>3, <1>4, <1>5, <1>6, <1>7, <1>8, <1>9, <1>10, <1>11, <1>12, <1>13,
     <1>14, <1>15, <1>16, <1>17, <1>18, <1>19, <1>20 DEF Next, Poll

\* A window's buffer holds handles, and a mapping has a configuration.
LEMMA BufferTypesStep ==
  ASSUME Types, BatchDistinct, [Next]_vars
  PROVE  BufferTypes'
<1>1. config' \in Configs
  BY DEF Types, BufferTypes, Next, Poll, vars, mappingVars, SendMessage, LeaseEnds, Ages,
     PutRecord, Trim, Update, CreateMapping, DeleteMapping, WindowElapses, Receive, Deleting,
     DeleteNext, Filter, Accumulate, Deliver, Delivered, GetRecords, GetStreamRecords, Reading,
     GetRecordsFails, InvokeRecords, SweepStale, PollNothing
<1>2. buf \in [Mappings -> Seq(H)]
  BY DEF Types, BufferTypes
<1>3. ASSUME NEW us, Forget(us) PROVE buf' \in [Mappings -> Seq(H)]
  BY <1>2, <1>3 DEF Forget
<1>4. CASE Accumulate
  <2>1. PICK all \in Seq(H), flush \in BOOLEAN :
           /\ run.id \in Mappings
           /\ buf' = [buf EXCEPT ![run.id] = IF flush \/ ~Conf.windowed THEN <<>> ELSE all]
    BY <1>4, AccumulateStep
  <2>2. buf' \in [Mappings -> Seq(H)]
    BY <1>2, <2>1
  <2> QED  BY <1>1, <2>2 DEF BufferTypes
<1>5. CASE UNCHANGED buf
  BY <1>1, <1>2, <1>5 DEF BufferTypes
<1> QED
  BY <1>1, <1>3, <1>4, <1>5 DEF BufferTypes, Next, Poll, vars, queueVars, SendMessage,
     LeaseEnds, Ages, PutRecord, Trim, Update, CreateMapping, DeleteMapping,
     WindowElapses, Receive, Deleting, DeleteNext, Filter, Deliver, Delivered, GetRecords, GetStreamRecords, Reading,
     GetRecordsFails, InvokeRecords, SweepStale, PollNothing

\* What a poll has in hand are handles of the queue or records of the shard.
LEMMA RunTypesStep ==
  ASSUME Types, BatchDistinct, [Next]_vars
  PROVE  RunTypes'
<1>t. RunTypes /\ run \in Runs(Taken) /\ mapping.id \in Mappings
  BY DEF Types, RunTypes, TypeOK
<1>s. source' = source /\ Taken' = Taken
  BY Fixed DEF Taken
<1>e. <<>> \in Seq(Seq(H)) /\ <<>> \in Seq(H)
  OBVIOUS
<1>1. CASE UNCHANGED run
  BY <1>1, <1>t, <1>s DEF RunTypes
<1>2. CASE SweepStale
  <2>1. run' = Idle
    BY <1>2 DEF SweepStale
  <2> QED  BY <1>s, <2>1 DEF RunTypes, Idle, Runs, PCs
<1>3. CASE run' = [Idle EXCEPT !.pc = "sweep", !.id = mapping.id]
  <2>1. run' = [pc |-> "sweep", id |-> mapping.id, in |-> {}, work |-> <<>>, del |-> <<>>,
               conf |-> Unset]
    BY <1>3 DEF Idle
  <2>2. run' \in Runs(Taken)
    BY <1>t, <1>e, <2>1 DEF Runs, PCs
  <2> QED  BY <1>t, <1>s, <2>1, <2>2 DEF RunTypes
<1>4. CASE Receive /\ ~(config.size > MaxReceive)
  <2>1. PICK ms \in SUBSET Msgs, drop \in Seq(H) :
          run' = [Idle EXCEPT !.pc = "expired", !.id = mapping.id,
                              !.in = Received(ms \ old), !.del = drop]
    BY <1>4, ReceiveStep
  <2>2. Received(ms \ old) \in SUBSET H /\ OneEach(Received(ms \ old))
    BY ReceivedOnce DEF Types, BufferTypes
  <2>3. source = "sqs" /\ Taken = H
    BY <1>4 DEF Receive, Taken
  <2>4. run' = [pc |-> "expired", id |-> mapping.id, in |-> Received(ms \ old),
                work |-> <<>>, del |-> drop, conf |-> Unset]
    BY <2>1 DEF Idle
  <2>5. run' \in Runs(H)
    BY <1>t, <1>e, <2>2, <2>4 DEF Runs, PCs
  <2> QED  BY <1>t, <1>s, <2>2, <2>3, <2>4, <2>5 DEF RunTypes
<1>5. CASE Deleting
  <2>1. PICK d \in Seq(H) : run' = [run EXCEPT !.del = d]
    BY <1>5, DeleteStep
  <2>2. run' \in Runs(Taken) /\ run'.pc = run.pc /\ run'.id = run.id /\ run'.in = run.in
    BY <1>t, <2>1 DEF Runs
  <2> QED  BY <1>t, <1>s, <2>2 DEF RunTypes
<1>6. CASE Filter
  <2> DEFINE S == {h \in run.in : h[1] \in Conf.unmatched}
             in == run.in \ S
  <2>1. PICK drop \in SetToSeqs(S) :
          run' = [run EXCEPT !.pc = "filtered", !.del = drop, !.in = in]
    BY <1>6 DEF Filter
  <2>2. /\ run.in \in SUBSET H /\ OneEach(run.in) /\ run.id \in Mappings
        /\ source = "sqs" /\ Taken = H
    BY <1>6, <1>t DEF Filter, RunTypes, Runs, Taken
  <2>3. drop \in Seq(H)
    <3>1. S \subseteq H /\ IsFiniteSet(S)
      BY <2>2, Constants, FS_Subset
    <3> HIDE DEF S
    <3>2. drop \in Seq(S)
      BY <3>1, OrderOf
    <3> QED  BY <3>1, <3>2, SeqMonotonic
  <2>5. in \in SUBSET H /\ OneEach(in)
    BY <2>2 DEF OneEach
  <2> HIDE DEF in
  <2>6. run' \in Runs(H) /\ run'.pc = "filtered" /\ run'.in = in /\ run'.id = run.id
    BY <1>t, <2>1, <2>2, <2>3, <2>5 DEF PCs, Runs
  <2> QED  BY <1>s, <2>2, <2>5, <2>6 DEF RunTypes
<1>7. CASE Accumulate
  <2>1. PICK all \in Seq(H), flush \in BOOLEAN :
          /\ run.id \in Mappings
          /\ run' = [run EXCEPT !.pc = IF flush THEN "invoke" ELSE "sweep", !.in = {},
                                !.work = IF flush THEN <<all>> ELSE <<>>]
    BY <1>7, AccumulateStep
  <2>2. <<all>> \in Seq(Seq(H)) /\ <<>> \in Seq(Seq(H))
    OBVIOUS
  <2>3. run' \in Runs(Taken) /\ run'.pc \in {"invoke", "sweep"} /\ run'.id = run.id
    BY <1>t, <2>1, <2>2 DEF Runs, PCs
  <2> QED  BY <1>s, <2>1, <2>3 DEF RunTypes
<1>8. CASE Deliver
  <2>1. PICK w \in Seq(Seq(H)), d \in Seq(H) : run' = [run EXCEPT !.work = w, !.del = d]
    BY <1>8, DeliverStep
  <2>2. run' \in Runs(Taken) /\ run'.pc = run.pc /\ run'.id = run.id /\ run'.in = run.in
    BY <1>t, <2>1 DEF Runs
  <2> QED  BY <1>t, <1>s, <2>2 DEF RunTypes
<1>9. CASE Delivered
  <2>1. run.id \in Mappings /\ run' = [run EXCEPT !.pc = "delete"]
    BY <1>9, <1>t DEF Delivered, RunTypes
  <2>2. run' \in Runs(Taken) /\ run'.pc = "delete" /\ run'.id = run.id
    BY <1>t, <2>1 DEF Runs, PCs
  <2> QED  BY <1>s, <2>1, <2>2 DEF RunTypes
<1>10. CASE GetRecords \/ GetStreamRecords
  <2>1. PICK next \in Nat, in \in SUBSET Records : Reading(in, next)
    BY <1>10, KinesisRead, StreamRead
  <2>2. Taken = Records
    BY <1>10 DEF GetRecords, GetStreamRecords, Taken
  <2>3. run' = [pc |-> IF in = {} THEN "sweep" ELSE "invoke", id |-> mapping.id,
                in |-> in, work |-> <<>>, del |-> <<>>, conf |-> Unset]
    BY <2>1 DEF Reading, Idle
  <2>4. run' \in Runs(Records) /\ run'.pc \in {"sweep", "invoke"} /\ run'.id = mapping.id
    BY <1>t, <1>e, <2>3 DEF Runs, PCs
  <2> QED  BY <1>t, <1>s, <2>2, <2>4 DEF RunTypes
<1>11. CASE InvokeRecords
  <2>1. run.id \in Mappings /\ run' = [run EXCEPT !.pc = "sweep", !.in = {}]
    BY <1>11, <1>t DEF InvokeRecords, RunTypes
  <2>2. run' \in Runs(Taken) /\ run'.pc = "sweep" /\ run'.id = run.id
    BY <1>t, <2>1 DEF Runs, PCs
  <2> QED  BY <1>s, <2>1, <2>2 DEF RunTypes
<1>12. CASE CreateMapping
  <2>1. config \in Configs
    BY DEF Types, BufferTypes
  <2>2. run' \in Runs(Taken) /\ run'.pc = run.pc /\ run'.id = run.id /\ run'.in = run.in
    BY <1>12, <1>t, <2>1 DEF CreateMapping, Runs
  <2> QED  BY <1>t, <1>s, <2>2 DEF RunTypes
<1> QED
  BY <1>1, <1>2, <1>3, <1>4, <1>5, <1>6, <1>7, <1>8, <1>9, <1>10, <1>11, <1>12
  DEF Next, Poll, vars, SendMessage, LeaseEnds, Ages, PutRecord, Trim, Update,
      DeleteMapping, WindowElapses, Receive, GetRecordsFails, PollNothing
-----------------------------------------------------------------------------
(* Every step keeps the safety properties.                                 *)

\* A message received anew while it is still buffered replaces its handle.
LEMMA BatchDistinctStep ==
  ASSUME Types, BatchDistinct, [Next]_vars
  PROVE  BatchDistinct'
<1>t. run \in Runs(Taken) /\ buf \in [Mappings -> Seq(H)]
  BY DEF Types, RunTypes, BufferTypes
<1>e. Distinct(<<>>) /\ Once(<<>>)
  BY DEF Distinct, Once
<1>1. CASE UNCHANGED <<buf, run>>
  BY <1>1 DEF BatchDistinct
<1>2. CASE run'.work = run.work /\ UNCHANGED buf
  BY <1>2 DEF BatchDistinct
<1>3. CASE run'.work = <<>> /\ UNCHANGED buf
  BY <1>3, <1>e DEF BatchDistinct
<1>4. ASSUME NEW us, Forget(us), run' = Idle \/ UNCHANGED run PROVE BatchDistinct'
  <2>1. ASSUME NEW u \in Mappings PROVE Distinct(<<buf'[u]>>)
    <3>1. buf'[u] = <<>> \/ buf'[u] = buf[u]
      BY <1>4 DEF Forget
    <3> QED  BY <1>e, <3>1, OncePart DEF BatchDistinct
  <2>2. Distinct(run'.work)
    BY <1>4, <1>e DEF Idle, BatchDistinct
  <2> QED  BY <2>1, <2>2 DEF BatchDistinct
<1>5. CASE Accumulate
  <2>1. PICK all \in Seq(H), flush \in BOOLEAN :
          /\ Once(all) /\ run.id \in Mappings
          /\ run' = [run EXCEPT !.pc = IF flush THEN "invoke" ELSE "sweep", !.in = {},
                                !.work = IF flush THEN <<all>> ELSE <<>>]
          /\ buf' = [buf EXCEPT ![run.id] = IF flush \/ ~Conf.windowed THEN <<>> ELSE all]
    BY <1>5, AccumulateStep
  <2>2. ASSUME NEW u \in Mappings PROVE Distinct(<<buf'[u]>>)
    <3>1. buf'[u] = <<>> \/ buf'[u] = all \/ buf'[u] = buf[u]
      BY <1>t, <2>1
    <3> QED  BY <1>e, <2>1, <3>1, OncePart DEF BatchDistinct
  <2>3. run'.work = <<all>> \/ run'.work = <<>>
    BY <1>t, <2>1 DEF Runs
  <2>4. Distinct(run'.work)
    BY <1>e, <2>1, <2>3, OncePart
  <2> QED  BY <2>2, <2>4 DEF BatchDistinct
<1>6. CASE Deliver
  <2>1. PICK w \in Seq(Seq(H)), d \in Seq(H) :
          run' = [run EXCEPT !.work = w, !.del = d] /\ Distinct(w)
    BY <1>6, DeliverStep
  <2>2. run'.work = w /\ UNCHANGED buf
    BY <1>6, <1>t, <2>1 DEF Deliver, Runs
  <2> QED  BY <2>1, <2>2 DEF BatchDistinct
<1>7. CASE Receive
  <2>1. run'.work = <<>> /\ UNCHANGED buf
    BY <1>7 DEF Receive, Idle
  <2> QED  BY <1>3, <2>1
<1>8. CASE GetRecords \/ GetStreamRecords \/ GetRecordsFails
  <2>1. run'.work = <<>> /\ UNCHANGED buf
    BY <1>8 DEF GetRecords, GetStreamRecords, Reading, GetRecordsFails, Idle, queueVars
  <2> QED  BY <1>3, <2>1
<1>9. CASE Deleting
  <2>1. run'.work = run.work /\ UNCHANGED buf
    BY <1>9, <1>t DEF Deleting, DeleteNext, Runs
  <2> QED  BY <1>2, <2>1
<1>10. CASE Filter \/ Delivered \/ InvokeRecords \/ CreateMapping
  <2>1. run'.work = run.work /\ UNCHANGED buf
    BY <1>10, <1>t DEF Filter, Delivered, InvokeRecords, CreateMapping, Runs, queueVars
  <2> QED  BY <1>2, <2>1
<1> QED
  BY <1>1, <1>4, <1>5, <1>6, <1>7, <1>8, <1>9, <1>10
  DEF Next, Poll, vars, queueVars, SendMessage, LeaseEnds, Ages, PutRecord, Trim, Update,
       CreateMapping, DeleteMapping, WindowElapses, SweepStale, PollNothing

\* What is accepted, filtered or too old stays so.
LEMMA Grows ==
  ASSUME [Next]_vars
  PROVE  accepted \subseteq accepted' /\ old \subseteq old' /\ filtered \subseteq filtered'
  BY DEF Next, Poll, vars, queueVars, SendMessage, LeaseEnds, Ages, PutRecord, Trim, Update,
      CreateMapping, DeleteMapping, WindowElapses, Receive, Deleting, DeleteNext,
     Filter, Accumulate, Deliver, Delivered, GetRecords, GetStreamRecords, Reading, GetRecordsFails, InvokeRecords,
     SweepStale, PollNothing

\* A handle is put aside for deletion only with a reason.
LEMMA MayDeleteStep ==
  ASSUME Types, BatchDistinct, MayDelete, [Next]_vars
  PROVE  MayDelete'
<1>t. run \in Runs(Taken)
  BY DEF Types, RunTypes
<1>g. accepted \subseteq accepted' /\ old \subseteq old' /\ filtered \subseteq filtered'
  BY Grows
<1>1. CASE ToSet(run'.del) \subseteq ToSet(run.del)
  BY <1>1, <1>g DEF MayDelete
<1>2. CASE Receive
  <2>1. CASE config.size > MaxReceive
    <3>1. run'.del = <<>>
      BY <1>2, <2>1 DEF Receive, Idle
    <3> QED  BY <3>1 DEF MayDelete, ToSet
  <2>2. CASE ~(config.size > MaxReceive)
    <3>1. PICK ms \in SUBSET Msgs, drop \in Seq(H) :
          /\ ToSet(drop) \subseteq Received(ms \cap old)
          /\ run' = [Idle EXCEPT !.pc = "expired", !.id = mapping.id,
                                 !.in = Received(ms \ old), !.del = drop]
      BY <1>2, <2>2, ReceiveStep
    <3>2. run'.del = drop
      BY <3>1 DEF Idle
    <3>3. \A h \in Received(ms \cap old) : h[1] \in old
      BY DEF Received
    <3> QED  BY <1>g, <3>1, <3>2, <3>3 DEF MayDelete
  <2> QED  BY <2>1, <2>2
<1>3. CASE Deleting
  <2>1. PICK d \in Seq(H) : run' = [run EXCEPT !.del = d] /\ ToSet(d) \subseteq ToSet(run.del)
    BY <1>3, DeleteStep
  <2>2. run'.del = d
    BY <1>t, <2>1 DEF Runs
  <2> QED  BY <1>1, <2>1, <2>2
<1>4. CASE Filter
  <2> DEFINE S == {h \in run.in : h[1] \in Conf.unmatched}
  <2>1. PICK drop \in SetToSeqs(S) :
          run' = [run EXCEPT !.pc = "filtered", !.del = drop, !.in = @ \ S]
    BY <1>4 DEF Filter
  <2>2. run'.del = drop
    BY <1>t, <2>1 DEF Runs
  <2>3. S \subseteq H /\ filtered' = filtered \cup {h[1] : h \in S}
    BY <1>4 DEF Filter, Types, RunTypes, Runs, Taken
  <2>4. IsFiniteSet(S)
    BY <2>3, Constants, FS_Subset
  <2> HIDE DEF S
  <2>5. ToSet(drop) \subseteq S
    BY <2>4, OrderOf
  <2> QED  BY <2>2, <2>3, <2>5 DEF MayDelete
<1>5. CASE Deliver
  <2>1. PICK w \in Seq(Seq(H)), d \in Seq(H) :
          /\ run' = [run EXCEPT !.work = w, !.del = d]
          /\ \/ d = run.del
             \/ /\ ToSet(d) = ToSet(run.del) \cup ToSet(Head(run.work))
                /\ accepted' = accepted \cup MsgsOf(Head(run.work))
    BY <1>5, DeliverStep
  <2>2. run'.del = d
    BY <1>t, <2>1 DEF Runs
  <2>3. \A h \in ToSet(Head(run.work)) : h[1] \in MsgsOf(Head(run.work))
    BY DEF MsgsOf
  <2> QED  BY <1>g, <2>1, <2>2, <2>3 DEF MayDelete
<1>6. CASE SweepStale \/ GetRecords \/ GetStreamRecords \/ GetRecordsFails
  <2>1. SweepStale => run'.del = <<>>
    BY DEF SweepStale, Idle
  <2>2. GetRecords \/ GetStreamRecords \/ GetRecordsFails => run'.del = <<>>
    BY DEF GetRecords, GetStreamRecords, Reading, GetRecordsFails, Idle
  <2> QED  BY <1>6, <2>1, <2>2 DEF MayDelete, ToSet
<1>7. CASE Accumulate \/ Delivered \/ InvokeRecords \/ CreateMapping
  <2>1. run'.del = run.del
    BY <1>7, <1>t DEF Accumulate, Delivered, InvokeRecords, CreateMapping, Runs
  <2> QED  BY <1>1, <2>1
<1>8. CASE UNCHANGED run
  BY <1>1, <1>8
<1> QED
  BY <1>2, <1>3, <1>4, <1>5, <1>6, <1>7, <1>8
  DEF Next, Poll, vars, SendMessage, LeaseEnds, Ages, PutRecord, Trim, Update,
      CreateMapping, DeleteMapping, WindowElapses, PollNothing

\* A message is deleted only with a reason.
LEMMA NoneDroppedStep ==
  ASSUME Types, BatchDistinct, MayDelete, NoneDropped, [Next]_vars
  PROVE  NoneDropped'
<1>t. msg \in [Msgs -> [st : {"unsent", "visible", "leased", "deleted"},
                        handle : {0} \cup Handles]]
  BY DEF Types, TypeOK
<1>g. accepted \subseteq accepted' /\ old \subseteq old' /\ filtered \subseteq filtered'
  BY Grows
<1>1. CASE \A m \in Msgs : msg'[m].st = "deleted" =>
             msg[m].st = "deleted" \/ m \in accepted \cup filtered \cup old
  BY <1>1, <1>g DEF NoneDropped
<1>2. ASSUME NEW m \in Msgs, SendMessage(m) \/ LeaseEnds(m) PROVE NoneDropped'
  BY <1>1, <1>2, <1>t DEF SendMessage, LeaseEnds, Without
<1>3. CASE Receive
  <2>1. CASE config.size > MaxReceive
    BY <1>1, <1>3, <2>1 DEF Receive
  <2>2. CASE ~(config.size > MaxReceive)
    <3>1. PICK ms \in SUBSET Msgs :
          msg' = [m \in Msgs |-> IF m \in ms
                    THEN [st |-> "leased", handle |-> NewHandle(m)] ELSE msg[m]]
      BY <1>3, <2>2, ReceiveStep
    <3> QED  BY <1>1, <3>1
  <2> QED  BY <2>1, <2>2
<1>4. CASE Deleting
  <2>1. \/ msg' = msg
        \/ \E h \in ToSet(run.del) \cap H : msg' = [msg EXCEPT ![h[1]] = Without("deleted")]
    BY <1>4, DeleteStep
  <2>2. CASE msg' = msg
    BY <1>1, <2>2
  <2>3. ASSUME NEW h \in ToSet(run.del) \cap H, msg' = [msg EXCEPT ![h[1]] = Without("deleted")]
        PROVE  NoneDropped'
    <3>1. h[1] \in accepted \cup filtered \cup old
      BY DEF MayDelete
    <3>2. \A m \in Msgs : m # h[1] => msg'[m] = msg[m]
      BY <1>t, <2>3
    <3> QED  BY <1>1, <3>1, <3>2
  <2> QED  BY <2>1, <2>2, <2>3
<1>5. CASE UNCHANGED msg
  BY <1>1, <1>5
<1> QED
  BY <1>2, <1>3, <1>4, <1>5
  DEF Next, Poll, vars, queueVars, Ages, PutRecord, Trim, Update, CreateMapping,
      DeleteMapping, WindowElapses, Filter, Accumulate, Deliver, Delivered, GetRecords, GetStreamRecords, Reading,
      GetRecordsFails, InvokeRecords, SweepStale, PollNothing

-----------------------------------------------------------------------------
(* What iterators leave behind.                                            *)

\* More records before an offset, and more of them handed over.
LEMMA MoreBehind ==
  ASSUME NEW a \in Nat, NEW b \in Nat, a <= b, NEW S, NEW T, S \subseteq T,
         NEW i \in Nat, i <= Cardinality((1 .. a) \cap S)
  PROVE  i <= Cardinality((1 .. b) \cap T)
<1>1. IsFiniteSet(1 .. b)
  BY FS_Interval
<1>2. IsFiniteSet((1 .. b) \cap T)
  BY <1>1, FS_Subset
<1>3. (1 .. a) \cap S \subseteq (1 .. b) \cap T
  OBVIOUS
<1>4. /\ Cardinality((1 .. a) \cap S) <= Cardinality((1 .. b) \cap T)
      /\ IsFiniteSet((1 .. a) \cap S)
  BY <1>2, <1>3, FS_Subset
<1>5. Cardinality((1 .. a) \cap S) \in Nat /\ Cardinality((1 .. b) \cap T) \in Nat
  BY <1>2, <1>4, FS_CardinalityType
<1> QED
  BY <1>4, <1>5

\* A read hands over the records it moves the offset over.
LEMMA ReadBehind ==
  ASSUME NEW a \in Nat, NEW n \in Nat, NEW S, NEW T, S \subseteq T,
         a + 1 .. a + n \subseteq T,
         NEW i \in Nat, i <= Cardinality((1 .. a) \cap S)
  PROVE  i + n <= Cardinality((1 .. a + n) \cap T)
<1> DEFINE A == (1 .. a) \cap S
           B == a + 1 .. a + n
           C == (1 .. a + n) \cap T
<1>1. IsFiniteSet(A) /\ IsFiniteSet(C)
  <2>1. IsFiniteSet(1 .. a) /\ IsFiniteSet(1 .. a + n)
    BY FS_Interval
  <2> QED  BY <2>1, FS_Subset
<1>2. IsFiniteSet(B) /\ Cardinality(B) = n
  BY FS_Interval
<1>3. A \cap B = {} /\ A \cup B \subseteq C
  OBVIOUS
<1> HIDE DEF A, B, C
<1>4. Cardinality(A \cup B) = Cardinality(A) + Cardinality(B) - Cardinality(A \cap B)
  BY <1>1, <1>2, FS_Union
<1>5. Cardinality(A \cap B) = 0
  BY <1>3, FS_EmptySet
<1>6. Cardinality(A \cup B) <= Cardinality(C) /\ IsFiniteSet(A \cup B)
  BY <1>1, <1>3, FS_Subset
<1>7. /\ Cardinality(A) \in Nat /\ Cardinality(C) \in Nat /\ Cardinality(A \cup B) \in Nat
  BY <1>1, <1>6, FS_CardinalityType
<1>8. i <= Cardinality(A)
  BY DEF A
<1> QED
  BY <1>2, <1>4, <1>5, <1>6, <1>7, <1>8 DEF C

\* What was handed over, or matched no filter, stays so.
LEMMA HandedGrows ==
  ASSUME Types, source # "sqs", [Next]_vars
  PROVE  Handed \subseteq Handed'
<1>t. run \in Runs(Taken)
  BY DEF Types, RunTypes
<1>1. tried \subseteq tried' /\ filtered \subseteq filtered'
  BY DEF Next, Poll, vars, queueVars, SendMessage, LeaseEnds, Ages, PutRecord, Trim, Update,
     CreateMapping, DeleteMapping, WindowElapses, Receive, Deleting, DeleteNext,
     Filter, Accumulate, Deliver, Delivered, GetRecords, GetStreamRecords, Reading,
     GetRecordsFails, InvokeRecords, SweepStale, PollNothing
<1>2. CASE run.pc # "invoke"
  BY <1>1, <1>2 DEF Handed
<1>3. CASE InvokeRecords
  BY <1>1, <1>3 DEF InvokeRecords, Handed
<1>4. CASE run'.pc = run.pc /\ run'.in = run.in
  BY <1>1, <1>4 DEF Handed
<1>5. CASE CreateMapping
  <2>1. run'.pc = run.pc /\ run'.in = run.in
    BY <1>5, <1>t DEF CreateMapping, Runs
  <2> QED  BY <1>4, <2>1
<1> QED
  BY <1>2, <1>3, <1>4, <1>5
  DEF Next, Poll, vars, SendMessage, LeaseEnds, Ages, PutRecord, Trim, Update, DeleteMapping,
      WindowElapses, Receive, Deleting, Filter, Accumulate, Deliver, Delivered, GetRecords,
      GetStreamRecords, GetRecordsFails, SweepStale, PollNothing

\* A shard only grows at its end and shrinks at its beginning.
LEMMA ShardStep ==
  ASSUME Types, [Next]_vars
  PROVE  log' \in Nat /\ dropped' \in Nat /\ log <= log' /\ dropped <= dropped' /\ dropped' <= log'
<1>1. log \in Nat /\ dropped \in Nat /\ dropped <= log
  BY Constants DEF Types, TypeOK
<1>2. CASE PutRecord
  BY <1>1, <1>2, Constants DEF PutRecord, Held
<1>3. CASE Trim
  BY <1>1, <1>3 DEF Trim, Held
<1>4. CASE UNCHANGED <<log, dropped>>
  BY <1>1, <1>4
<1> QED
  BY <1>2, <1>3, <1>4
  DEF Next, Poll, vars, streamVars, SendMessage, LeaseEnds, Ages, Update, CreateMapping,
      DeleteMapping, WindowElapses, Receive, Deleting, DeleteNext, Filter, Accumulate, Deliver,
      Delivered, GetRecords, GetStreamRecords, Reading, GetRecordsFails, InvokeRecords,
      SweepStale, PollNothing

\* An iterator stays, is lost, or is moved by a read.
LEMMA IterStep ==
  ASSUME Types, [Next]_vars, NEW u \in Mappings
  PROVE  \/ iter'[u] \in {None, iter[u]}
         \/ (GetRecords \/ GetStreamRecords) /\ u = mapping.id
<1>t. iter \in [Mappings -> {None} \cup Nat] /\ mapping.id \in Mappings
  BY DEF Types, TypeOK
<1>1. CASE GetRecords \/ GetStreamRecords
  <2>1. CASE u # mapping.id
    BY <1>t, <1>1, <2>1 DEF GetRecords, GetStreamRecords, Reading
  <2> QED  BY <1>1, <2>1
<1>2. CASE GetRecordsFails
  BY <1>t, <1>2 DEF GetRecordsFails
<1>3. ASSUME NEW us, Forget(us) PROVE iter'[u] \in {None, iter[u]}
  BY <1>3 DEF Forget
<1>4. CASE UNCHANGED iter
  BY <1>4
<1> QED
  BY <1>1, <1>2, <1>3, <1>4
  DEF Next, Poll, vars, streamVars, SendMessage, LeaseEnds, Ages, PutRecord, Trim, Update,
      CreateMapping, DeleteMapping, WindowElapses, Receive, Deleting, DeleteNext, Filter,
      Accumulate, Deliver, Delivered, InvokeRecords, SweepStale, PollNothing

\* A Kinesis iterator moves on by as many records as it hands over.
LEMMA KinesisCovered ==
  ASSUME Types, Covered, [Next]_vars, source = "kinesis", start = "TRIM_HORIZON",
         NEW u \in Mappings, iter'[u] # None
  PROVE  iter'[u] <= Cardinality((1 .. Reach(iter'[u], dropped', log')) \cap Handed')
<1>t. iter \in [Mappings -> {None} \cup Nat] /\ log \in Nat /\ dropped \in Nat /\ dropped <= log
  BY Constants DEF Types, TypeOK
<1>h. Handed \subseteq Handed'
  BY HandedGrows
<1>i. iter[u] # None =>
        iter[u] \in Nat /\ iter[u] <= Cardinality((1 .. Reach(iter[u], dropped, log)) \cap Handed)
  BY <1>t DEF Covered
<1>1. CASE iter'[u] = iter[u]
  <2> DEFINE a == Reach(iter[u], dropped, log)
             b == Reach(iter[u], dropped', log')
  <2>1. a \in Nat /\ b \in Nat /\ a <= b
    BY <1>t, <1>i, <1>1, ShardStep DEF Reach
  <2>2. iter[u] \in Nat /\ iter[u] <= Cardinality((1 .. a) \cap Handed)
    BY <1>1, <1>i
  <2> HIDE DEF a, b
  <2>3. iter[u] <= Cardinality((1 .. b) \cap Handed')
    BY <1>h, <2>1, <2>2, MoreBehind
  <2> QED  BY <1>1, <2>3 DEF b
<1>2. CASE GetRecords /\ u = mapping.id
  <2>1. PICK from, end \in Nat :
          /\ from <= end /\ end <= Held /\ Position \in Nat
          /\ from = Position \/ (from <= Position /\ from = Held /\ end = from)
          /\ Reading(dropped + from + 1 .. dropped + end, end)
    BY <1>2, KinesisRead
  <2> DEFINE in == dropped + from + 1 .. dropped + end
             a == dropped + from
  <2>2. /\ iter'[u] = end /\ UNCHANGED <<log, dropped>>
        /\ run'.in = in /\ run'.pc = IF in = {} THEN "sweep" ELSE "invoke"
    BY <1>t, <1>2, <2>1 DEF Reading, Idle
  <2>3. in \subseteq Handed'
    BY <2>2 DEF Handed
  <2>4. a \in Nat /\ end - from \in Nat
    BY <1>t, <2>1
  <2>5. from <= Cardinality((1 .. a) \cap Handed)
    <3>0. Cardinality((1 .. a) \cap Handed) \in Nat
      <4>1. IsFiniteSet(1 .. a)
        BY <2>4, FS_Interval
      <4>2. IsFiniteSet((1 .. a) \cap Handed)
        BY <4>1, FS_Subset
      <4> QED  BY <4>2, FS_CardinalityType
    <3>1. CASE iter[u] = None
      <4>1. from = 0
        BY <1>2, <2>1, <3>1 DEF Position, StartAt
      <4> QED  BY <3>0, <4>1
    <3>2. CASE iter[u] # None
      <4>1. Position = iter[u] /\ iter[u] \in Nat
        BY <1>2, <1>i, <3>2 DEF Position
      <4>2. from <= iter[u] /\ Reach(iter[u], dropped, log) = a
        BY <1>t, <2>1, <4>1 DEF Reach, Held
      <4> QED  BY <1>i, <3>0, <3>2, <4>1, <4>2
    <3> QED  BY <3>1, <3>2
  <2> HIDE DEF a
  <2>6. a + 1 .. a + (end - from) = in
    BY <1>t, <2>1 DEF a
  <2> HIDE DEF in
  <2>7. from + (end - from) <= Cardinality((1 .. a + (end - from)) \cap Handed')
    BY <1>h, <2>1, <2>3, <2>4, <2>5, <2>6, ReadBehind
  <2>8. from + (end - from) = end /\ a + (end - from) = Reach(end, dropped, log)
    BY <1>t, <2>1 DEF a, Reach, Held
  <2> QED  BY <2>2, <2>7, <2>8
<1>3. ~GetStreamRecords
  BY DEF GetStreamRecords
<1> QED
  BY <1>1, <1>2, <1>3, IterStep

\* A DynamoDB iterator moves only over records it hands over or that are gone.
LEMMA StreamCovered ==
  ASSUME Types, Covered, [Next]_vars, source = "dynamodb", start = "TRIM_HORIZON",
         NEW u \in Mappings, iter'[u] # None, NEW k \in 1 .. iter'[u] - 1
  PROVE  k \in Handed' \/ k <= dropped'
<1>t. iter \in [Mappings -> {None} \cup Nat] /\ log \in Nat /\ dropped \in Nat /\ dropped <= log
  BY Constants DEF Types, TypeOK
<1>h. Handed \subseteq Handed'
  BY HandedGrows
<1>d. dropped' \in Nat /\ dropped <= dropped'
  BY ShardStep
<1>i. iter[u] # None => iter[u] \in Nat /\ \A n \in 1 .. iter[u] - 1 : n \in Handed \/ n <= dropped
  BY <1>t DEF Covered
<1>1. CASE iter'[u] = iter[u]
  <2>1. k \in Handed \/ k <= dropped
    BY <1>1, <1>i
  <2>2. k \in Int
    BY <1>1, <1>i
  <2> QED  BY <1>t, <1>h, <1>d, <2>1, <2>2
<1>2. CASE GetStreamRecords /\ u = mapping.id
  <2>1. PICK from, next \in Nat, end \in Int :
          /\ Position \in Nat /\ from = (IF Position = 0 THEN 1 ELSE Position)
          /\ next <= from \/ next = end + 1
          /\ Reading(from .. end, next)
    BY <1>2, StreamRead
  <2>2. /\ iter'[u] = next
        /\ run'.in = from .. end /\ run'.pc = IF from .. end = {} THEN "sweep" ELSE "invoke"
    BY <1>t, <1>2, <2>1 DEF Reading, Idle
  <2>3. from .. end \subseteq Handed'
    BY <2>2 DEF Handed
  <2>4. k \in 1 .. next - 1 /\ k \in Nat
    BY <2>2
  <2>5. CASE k >= from
    BY <2>1, <2>3, <2>4, <2>5
  <2>6. CASE k < from
    <3>1. k \in 1 .. Position - 1
      BY <2>1, <2>4, <2>6
    <3>2. CASE iter[u] = None
      <4>1. Position = dropped + 1
        BY <1>2, <3>2 DEF Position, StartAt
      <4> QED  BY <1>t, <1>d, <3>1, <4>1
    <3>3. CASE iter[u] # None
      <4>1. Position = iter[u]
        BY <1>2, <3>3 DEF Position
      <4>2. k \in Handed \/ k <= dropped
        BY <1>i, <3>1, <3>3, <4>1
      <4> QED  BY <1>t, <1>h, <1>d, <2>4, <4>2
    <3> QED  BY <3>2, <3>3
  <2> QED  BY <2>1, <2>4, <2>5, <2>6
<1>3. ~GetRecords
  BY DEF GetRecords
<1> QED
  BY <1>1, <1>2, <1>3, IterStep

\* Every step keeps the iterators covered.
LEMMA CoveredStep ==
  ASSUME Types, Covered, [Next]_vars
  PROVE  Covered'
<1> SUFFICES ASSUME start' = "TRIM_HORIZON", NEW u \in Mappings, iter'[u] # None
             PROVE  /\ source' = "kinesis" =>
                         iter'[u] <= Cardinality((1 .. Reach(iter'[u], dropped', log')) \cap Handed')
                    /\ source' = "dynamodb" =>
                         \A k \in 1 .. iter'[u] - 1 : k \in Handed' \/ k <= dropped'
  BY DEF Covered, None
<1>1. source' = source /\ start = "TRIM_HORIZON"
  BY Fixed
<1>2. CASE source = "kinesis"
  BY <1>1, <1>2, KinesisCovered
<1>3. CASE source = "dynamodb"
  BY <1>1, <1>3, StreamCovered
<1> QED
  BY <1>1, <1>2, <1>3

\* No more is missed than the shard lost.
LEMMA MissedOnly == ASSUME IInv PROVE NothingSkipped
<1> DEFINE u == mapping.id
<1>t. /\ iter \in [Mappings -> {None} \cup Nat] /\ log \in Nat /\ dropped \in Nat /\ dropped <= log
      /\ u \in Mappings
  BY Constants DEF IInv, Types, TypeOK
<1> SUFFICES ASSUME start = "TRIM_HORIZON", iter[u] # None
             PROVE  /\ source = "kinesis" => Cardinality(Behind(u) \ Handed) <= dropped
                    /\ source = "dynamodb" => Behind(u) \ Handed \subseteq 1 .. dropped
  BY DEF NothingSkipped
<1>c. /\ iter[u] \in Nat
      /\ source = "kinesis" =>
           iter[u] <= Cardinality((1 .. Reach(iter[u], dropped, log)) \cap Handed)
      /\ source = "dynamodb" => \A k \in 1 .. iter[u] - 1 : k \in Handed \/ k <= dropped
  BY <1>t DEF IInv, Covered
<1> HIDE DEF u
<1>1. CASE source = "kinesis"
  <2> DEFINE a == Reach(iter[u], dropped, log)
  <2>1. Behind(u) = 1 .. a
    <3>1. Held \in Nat
      BY <1>t DEF Held
    <3>2. /\ Min({iter[u], Held}) \in {iter[u], Held} /\ Min({iter[u], Held}) <= iter[u]
          /\ Min({iter[u], Held}) <= Held
      <4>1. iter[u] \in Int /\ Held \in Int
        BY <1>c, <3>1
      <4> QED  BY <4>1, LeastOfTwo
    <3>3. dropped + Min({iter[u], Held}) = a
      BY <1>t, <1>c, <3>1, <3>2 DEF Reach, Held
    <3> HIDE DEF a
    <3> QED  BY <1>1, <3>3 DEF Behind
  <2>2. a \in Nat /\ a <= dropped + iter[u]
    BY <1>t, <1>c DEF Reach
  <2>3. iter[u] <= Cardinality((1 .. a) \cap Handed)
    BY <1>1, <1>c
  <2> HIDE DEF a
  <2>4. IsFiniteSet(1 .. a) /\ Cardinality(1 .. a) = a
    BY <2>2, FS_Interval
  <2>5. Cardinality((1 .. a) \ Handed) = Cardinality(1 .. a) - Cardinality((1 .. a) \cap Handed)
    BY <2>4, FS_Difference
  <2>6. Cardinality((1 .. a) \cap Handed) \in Nat
    BY <2>4, FS_Subset, FS_CardinalityType
  <2>7. Cardinality((1 .. a) \ Handed) <= dropped
    BY <1>t, <1>c, <2>2, <2>3, <2>4, <2>5, <2>6
  <2> QED  BY <1>1, <2>1, <2>7
<1>2. CASE source = "dynamodb"
  <2>1. Behind(u) = 1 .. iter[u] - 1
    BY <1>2 DEF Behind
  <2>2. ASSUME NEW k \in Behind(u), k \notin Handed PROVE k \in 1 .. dropped
    BY <1>t, <1>c, <1>2, <2>1, <2>2
  <2> QED  BY <1>2, <2>2
<1> QED
  BY <1>1, <1>2
-----------------------------------------------------------------------------
\* The initial states.
LEMMA InitOK == Init => IInv
<1> SUFFICES ASSUME Init PROVE IInv
  OBVIOUS
<1>1. TypeOK
  BY Constants DEF Init, TypeOK, Without, Idle, Mappings, None
<1>2. BufferTypes
  BY DEF Init, BufferTypes
<1>3. RunTypes
  <2>1. run = Idle
    BY DEF Init
  <2> QED  BY <2>1 DEF RunTypes, Runs, PCs, Idle
<1>4. MayDelete /\ NoneDropped
  BY DEF Init, MayDelete, NoneDropped, Idle, ToSet, Without
<1>5. BatchDistinct
  BY DEF Init, BatchDistinct, Distinct, Idle
<1>6. Covered
  BY DEF Init, Covered
<1> QED
  BY <1>1, <1>2, <1>3, <1>4, <1>5, <1>6 DEF IInv, Types

\* The poller (event_source_poller.go) deletes no message that was neither
\* accepted by the function, filtered out nor too old; a batch it gathers or
\* halves holds no message twice; and of a shard read from its beginning it
\* misses no more records than the shard lost, of DynamoDB only those it lost.
THEOREM PollerSafe == Spec => [](NoneDropped /\ BatchDistinct /\ NothingSkipped)
<1>1. IInv /\ [Next]_vars => IInv'
  BY TypeOKStep, BufferTypesStep, RunTypesStep, BatchDistinctStep, MayDeleteStep,
     NoneDroppedStep, CoveredStep DEF IInv, Types
<1>2. IInv => NoneDropped /\ BatchDistinct /\ NothingSkipped
  BY MissedOnly DEF IInv
<1> QED
  BY InitOK, <1>1, <1>2, PTL DEF Spec
=============================================================================
