------------------------- MODULE FrostWorkerProofs -------------------------
(***************************************************************************)
(* What FrostWorker guarantees for every set of batches and producers and  *)
(* every size of the queue and of a push.                                  *)
(***************************************************************************)
EXTENDS FrostWorker, SequenceTheorems, WellFoundedInduction, TLAPS

(* The settings as the steps use them.                                     *)
LEMMA Settings ==
  /\ Capacity \in Nat /\ Capacity >= 1
  /\ Coalesce \in Nat /\ Coalesce >= 1
  /\ AlertDepth \in Nat /\ AlertDepth >= 1
<1>1. \A n \in Int : AtLeastOne(n) \in Nat /\ AtLeastOne(n) >= 1
  BY DEF AtLeastOne
<1>2. QueueMax \in Int /\ CoalesceMax \in Int /\ AlertPercent \in Nat
  BY WorkerAssumption
<1>3. (AtLeastOne(QueueMax) * AlertPercent) \in Int
  BY <1>1, <1>2
<1>4. ((AtLeastOne(QueueMax) * AlertPercent) \div 100) \in Int
  BY <1>3
<1>5. QED
  BY <1>1, <1>2, <1>4 DEF Capacity, Coalesce, AlertDepth

(* A set of numbers has a least one: what induction rests on below.        *)
LEMMA Least ==
  ASSUME NEW T, T \subseteq Nat, T # {}
  PROVE  \E n \in T : \A k \in T : n <= k
<1> DEFINE R == OpToRel(<, Nat)
<1>1. IsWellFoundedOn(R, Nat)
  BY NatLessThanWellFounded
<1>2. \A a \in Nat, b \in Nat : a < b => <<a, b>> \in R
  BY DEF OpToRel
<1> HIDE DEF R
<1>3. PICK n \in T : \A k \in T : ~ (<<k, n>> \in R)
  BY <1>1, WFMin
<1>4. \A k \in T : ~(k < n)
  BY <1>2, <1>3
<1>5. \A k \in T : n <= k
  BY <1>4
<1>6. QED
  BY <1>5

-----------------------------------------------------------------------------
(* The readings in a list of batches: what ReadingsIn() adds up.           *)
IsTotal(f, s) ==
  f = [i \in 0 .. Len(s) |-> IF i = 0 THEN 0 ELSE f[i - 1] + SizeOf[s[i]]]

IsTotalUpTo(f, s, n) ==
  f = [i \in 0 .. n |-> IF i = 0 THEN 0 ELSE f[i - 1] + SizeOf[s[i]]]

LEMMA TotalExists ==
  ASSUME NEW s \in Seq(Batches)
  PROVE  \E f : IsTotal(f, s)
<1> DEFINE T == {n \in 0 .. Len(s) : ~ \E f : IsTotalUpTo(f, s, n)}
<1>1. Len(s) \in Nat /\ T \subseteq Nat
  BY LenProperties
<1>2. CASE T = {}
  BY <1>1, <1>2 DEF IsTotal, IsTotalUpTo
<1>3. CASE T # {}
  <2> HIDE DEF T
  <2>1. PICK n \in T : \A k \in T : n <= k
    BY <1>1, <1>3, Least
  <2> USE DEF T
  <2>2. n # 0
    <3>1. IsTotalUpTo([i \in 0 .. 0 |-> 0], s, 0)
      BY DEF IsTotalUpTo
    <3>2. QED
      BY <3>1
  <2>3. n - 1 \in 0 .. Len(s) /\ n - 1 \notin T
    BY <1>1, <2>1, <2>2
  <2>4. PICK f : IsTotalUpTo(f, s, n - 1)
    BY <2>3
  <2> DEFINE g == [i \in 0 .. n |-> IF i < n THEN f[i] ELSE f[n - 1] + SizeOf[s[n]]]
  <2>5. \A i \in 0 .. n : g[i] = IF i = 0 THEN 0 ELSE g[i - 1] + SizeOf[s[i]]
    BY <1>1, <2>1, <2>2, <2>4 DEF IsTotalUpTo
  <2>6. IsTotalUpTo(g, s, n)
    BY <2>5 DEF IsTotalUpTo
  <2>7. QED
    BY <2>1, <2>6
<1>4. QED
  BY <1>2, <1>3

LEMMA ReadingsInIsTotal ==
  ASSUME NEW s \in Seq(Batches)
  PROVE  \E f : IsTotal(f, s) /\ ReadingsIn(s) = f[Len(s)]
<1> DEFINE total == CHOOSE f : IsTotal(f, s)
<1>1. IsTotal(total, s)
  BY TotalExists
<1>2. ReadingsIn(s) = total[Len(s)]
  BY DEF ReadingsIn, IsTotal
<1>3. QED
  BY <1>1, <1>2

LEMMA ReadingsInNone == ReadingsIn(<<>>) = 0
<1>1. PICK f : IsTotal(f, <<>>) /\ ReadingsIn(<<>>) = f[Len(<<>>)]
  BY ReadingsInIsTotal, EmptySeq
<1>2. QED
  BY <1>1, EmptySeq DEF IsTotal

LEMMA ReadingsInAppend ==
  ASSUME NEW s \in Seq(Batches), NEW b \in Batches
  PROVE  ReadingsIn(Append(s, b)) = ReadingsIn(s) + SizeOf[b]
<1> DEFINE t == Append(s, b)
<1>1. /\ t \in Seq(Batches) /\ Len(t) = Len(s) + 1 /\ Len(s) \in Nat
      /\ \A i \in 1 .. Len(s) : t[i] = s[i]
      /\ t[Len(s) + 1] = b
  BY AppendProperties, LenProperties
<1> HIDE DEF t
<1>2. PICK f : IsTotal(f, s) /\ ReadingsIn(s) = f[Len(s)]
  BY ReadingsInIsTotal
<1>3. PICK g : IsTotal(g, t) /\ ReadingsIn(t) = g[Len(t)]
  BY <1>1, ReadingsInIsTotal
<1> DEFINE T == {n \in 0 .. Len(s) : g[n] # f[n]}
<1>4. \A n \in 0 .. Len(s) : f[n] = IF n = 0 THEN 0 ELSE f[n - 1] + SizeOf[s[n]]
  BY <1>2 DEF IsTotal
<1>5. \A n \in 0 .. Len(s) + 1 : g[n] = IF n = 0 THEN 0 ELSE g[n - 1] + SizeOf[t[n]]
  BY <1>1, <1>3 DEF IsTotal
<1>6. T = {}
  <2>1. SUFFICES ASSUME T # {} PROVE FALSE
    OBVIOUS
  <2>a. T \subseteq Nat
    BY <1>1
  <2> HIDE DEF T
  <2>2. PICK n \in T : \A k \in T : n <= k
    BY <2>a, <2>1, Least
  <2> USE DEF T
  <2>3. n # 0
    BY <1>1, <1>4, <1>5, <2>2
  <2>4. g[n - 1] = f[n - 1]
    BY <1>1, <2>2, <2>3
  <2>5. n \in 1 .. Len(s) /\ t[n] = s[n]
    BY <1>1, <2>2, <2>3
  <2>6. QED
    BY <1>1, <1>4, <1>5, <2>2, <2>4, <2>5
<1>7. g[Len(s)] = f[Len(s)]
  BY <1>1, <1>6
<1>8. g[Len(s) + 1] = g[Len(s)] + SizeOf[b]
  BY <1>1, <1>5
<1>9. QED
  BY <1>1, <1>2, <1>3, <1>7, <1>8 DEF t

-----------------------------------------------------------------------------
(* A queue without its sentinel.                                           *)
LEMMA RemoveAtProperties ==
  ASSUME NEW S, NEW q \in Seq(S), NEW i \in 1 .. Len(q)
  PROVE  /\ RemoveAt(q, i) \in Seq(S)
         /\ Len(RemoveAt(q, i)) = Len(q) - 1
         /\ \A j \in 1 .. Len(q) - 1 :
              RemoveAt(q, i)[j] = IF j < i THEN q[j] ELSE q[j + 1]
<1> DEFINE left == SubSeq(q, 1, i - 1)  right == SubSeq(q, i + 1, Len(q))
<1>1. Len(q) \in Nat /\ \A j \in 1 .. Len(q) : q[j] \in S
  BY LenProperties, ElementOfSeq
<1>2. /\ left \in Seq(S) /\ Len(left) = i - 1
      /\ \A j \in 1 .. i - 1 : left[j] = q[j]
  <2>1. \A j \in 1 .. i - 1 : q[j] \in S
    BY <1>1
  <2>2. QED
    BY <1>1, <2>1, SubSeqProperties
<1>3. /\ right \in Seq(S) /\ Len(right) = Len(q) - i
      /\ \A j \in 1 .. Len(q) - i : right[j] = q[i + j]
  <2>1. \A j \in i + 1 .. Len(q) : q[j] \in S
    BY <1>1
  <2>2. QED
    BY <1>1, <2>1, SubSeqProperties
<1>4. RemoveAt(q, i) = left \o right
  BY DEF RemoveAt
<1> HIDE DEF left, right
<1>5. /\ left \o right \in Seq(S) /\ Len(left \o right) = Len(left) + Len(right)
      /\ \A j \in 1 .. Len(left) + Len(right) :
           (left \o right)[j] = IF j <= Len(left) THEN left[j] ELSE right[j - Len(left)]
  BY <1>2, <1>3, ConcatProperties
<1>6. ASSUME NEW j \in 1 .. Len(q) - 1
      PROVE  (left \o right)[j] = IF j < i THEN q[j] ELSE q[j + 1]
  <2>1. (left \o right)[j] = IF j <= i - 1 THEN left[j] ELSE right[j - (i - 1)]
    BY <1>1, <1>2, <1>3, <1>5
  <2>2. CASE j < i
    BY <1>1, <1>2, <2>1, <2>2
  <2>3. CASE j >= i
    <3>1. j - (i - 1) \in 1 .. Len(q) - i /\ i + (j - (i - 1)) = j + 1
      BY <1>1, <2>3
    <3>2. right[j - (i - 1)] = q[j + 1]
      BY <1>3, <3>1
    <3>3. QED
      BY <1>1, <2>1, <2>3, <3>2
  <2>4. j < i \/ j >= i
    BY <1>1
  <2>5. QED
    BY <2>2, <2>3, <2>4
<1>7. Len(left \o right) = Len(q) - 1
  BY <1>1, <1>2, <1>3, <1>5
<1>8. QED
  BY <1>4, <1>5, <1>6, <1>7

(* The place of the only sentinel of a queue.                              *)
LEMMA WithSentinel ==
  ASSUME NEW q \in Seq(Item), NEW i \in Sentinels(q),
         \A j \in Sentinels(q) : j = i
  PROVE  /\ i \in 1 .. Len(q) /\ q[i] = Shutdown
         /\ BatchesIn(q) = RemoveAt(q, i)
<1>1. i = CHOOSE j \in Sentinels(q) : TRUE
  OBVIOUS
<1>2. QED
  BY <1>1, LenProperties DEF BatchesIn, Sentinels

LEMMA WithoutSentinel ==
  ASSUME NEW q \in Seq(Item), Sentinels(q) = {}
  PROVE  BatchesIn(q) = q /\ q \in Seq(Batches)
<1>1. \A i \in 1 .. Len(q) : q[i] \in Batches
  BY ElementOfSeq, LenProperties DEF Sentinels, Item
<1>2. QED
  BY <1>1 DEF BatchesIn

LEMMA BatchesInType ==
  ASSUME NEW q \in Seq(Item), \A i, j \in Sentinels(q) : i = j
  PROVE  BatchesIn(q) \in Seq(Batches)
<1>1. CASE Sentinels(q) = {}
  BY <1>1, WithoutSentinel
<1>2. ASSUME NEW i \in Sentinels(q)
      PROVE  BatchesIn(q) \in Seq(Batches)
  <2> DEFINE r == BatchesIn(q)
  <2>1. i \in 1 .. Len(q) /\ r = RemoveAt(q, i)
    BY WithSentinel
  <2>2. /\ r \in Seq(Item) /\ Len(r) = Len(q) - 1
        /\ \A j \in 1 .. Len(q) - 1 : r[j] = IF j < i THEN q[j] ELSE q[j + 1]
    <3>1. /\ RemoveAt(q, i) \in Seq(Item) /\ Len(RemoveAt(q, i)) = Len(q) - 1
          /\ \A j \in 1 .. Len(q) - 1 :
               RemoveAt(q, i)[j] = IF j < i THEN q[j] ELSE q[j + 1]
      BY <2>1, RemoveAtProperties
    <3>2. QED
      BY <2>1, <3>1, Zenon
  <2>3. \A j \in 1 .. Len(q) : j # i => q[j] \in Batches
    BY ElementOfSeq, LenProperties DEF Sentinels, Item
  <2> HIDE DEF r
  <2>4. \A j \in 1 .. Len(r) : r[j] \in Batches
    BY <2>1, <2>2, <2>3, LenProperties
  <2>5. QED
    BY <2>2, <2>4 DEF r
<1>3. QED
  BY <1>1, <1>2

(* Lists of batches may be grouped either way.                             *)
LEMMA Regroup ==
  \A s, t, u \in Seq(Batches) : (s \o t) \o u = s \o (t \o u)
BY ConcatAssociative

(* What the steps do to it.                                                *)
LEMMA AppendBatch ==
  ASSUME NEW q \in Seq(Item), \A i, j \in Sentinels(q) : i = j, NEW b \in Batches
  PROVE  /\ Sentinels(Append(q, b)) = Sentinels(q)
         /\ BatchesIn(Append(q, b)) = Append(BatchesIn(q), b)
<1> DEFINE t == Append(q, b)
<1>1. /\ t \in Seq(Item) /\ Len(t) = Len(q) + 1 /\ Len(q) \in Nat
      /\ \A i \in 1 .. Len(q) : t[i] = q[i]
      /\ t[Len(q) + 1] = b /\ b \in Item
  BY AppendProperties, LenProperties DEF Item
<1>2. DOMAIN t = 1 .. Len(q) + 1 /\ DOMAIN q = 1 .. Len(q) /\ b # Shutdown
  BY <1>1, LenProperties, WorkerAssumption
<1> HIDE DEF t
<1>3. Sentinels(t) = Sentinels(q)
  BY <1>1, <1>2 DEF Sentinels
<1>4. CASE Sentinels(q) = {}
  BY <1>1, <1>3, <1>4, WithoutSentinel DEF t
<1>5. ASSUME NEW i \in Sentinels(q)
      PROVE  BatchesIn(t) = Append(BatchesIn(q), b)
  <2> DEFINE r == BatchesIn(q)  u == BatchesIn(t)
  <2>1. i \in 1 .. Len(q) /\ r = RemoveAt(q, i) /\ u = RemoveAt(t, i)
    BY <1>1, <1>3, WithSentinel
  <2>2. /\ r \in Seq(Item) /\ Len(r) = Len(q) - 1
        /\ \A j \in 1 .. Len(q) - 1 : r[j] = IF j < i THEN q[j] ELSE q[j + 1]
    <3>1. /\ RemoveAt(q, i) \in Seq(Item) /\ Len(RemoveAt(q, i)) = Len(q) - 1
          /\ \A j \in 1 .. Len(q) - 1 :
               RemoveAt(q, i)[j] = IF j < i THEN q[j] ELSE q[j + 1]
      BY <2>1, RemoveAtProperties
    <3>2. QED
      BY <2>1, <3>1, Zenon
  <2>3. /\ u \in Seq(Item) /\ Len(u) = Len(q)
        /\ \A j \in 1 .. Len(q) : u[j] = IF j < i THEN t[j] ELSE t[j + 1]
    <3> HIDE DEF r, u
    <3>1. i \in 1 .. Len(t) /\ Len(t) - 1 = Len(q)
      BY <1>1, <2>1
    <3>2. /\ RemoveAt(t, i) \in Seq(Item) /\ Len(RemoveAt(t, i)) = Len(t) - 1
          /\ \A j \in 1 .. Len(t) - 1 :
               RemoveAt(t, i)[j] = IF j < i THEN t[j] ELSE t[j + 1]
      BY <1>1, <3>1, RemoveAtProperties
    <3>3. QED
      BY <2>1, <3>1, <3>2
  <2> HIDE DEF r, u
  <2> DEFINE w == Append(r, b)
  <2>4. /\ w \in Seq(Item) /\ Len(w) = Len(q)
        /\ \A j \in 1 .. Len(q) - 1 : w[j] = r[j]
        /\ w[Len(q)] = b
    BY <1>1, <2>2, AppendProperties
  <2> HIDE DEF w
  <2>5. ASSUME NEW j \in 1 .. Len(u)
        PROVE  u[j] = w[j]
    <3>1. u[j] = IF j < i THEN t[j] ELSE t[j + 1]
      BY <2>3
    <3>2. CASE j < i
      <4>1. j \in 1 .. Len(q) - 1 /\ j \in 1 .. Len(q)
        BY <1>1, <2>1, <2>3, <3>2
      <4>2. w[j] = r[j] /\ r[j] = q[j] /\ t[j] = q[j]
        BY <1>1, <2>2, <2>4, <3>2, <4>1
      <4>3. QED
        BY <3>1, <3>2, <4>2
    <3>3. CASE ~(j < i) /\ j # Len(q)
      <4>1. j \in 1 .. Len(q) - 1 /\ j + 1 \in 1 .. Len(q)
        BY <1>1, <2>3, <3>3
      <4>2. w[j] = r[j] /\ r[j] = q[j + 1] /\ t[j + 1] = q[j + 1]
        BY <1>1, <2>2, <2>4, <3>3, <4>1
      <4>3. QED
        BY <3>1, <3>3, <4>2
    <3>4. CASE j = Len(q)
      <4>1. ~(j < i)
        BY <1>1, <2>1, <3>4
      <4>2. QED
        BY <1>1, <2>4, <3>1, <3>4, <4>1
    <3>5. QED
      BY <3>2, <3>3, <3>4
  <2>6. u = w
    BY <2>3, <2>4, <2>5, SeqEqual
  <2>7. QED
    BY <2>6 DEF r, u, w
<1>6. QED
  BY <1>3, <1>4, <1>5 DEF t

LEMMA AppendSentinel ==
  ASSUME NEW q \in Seq(Item), Sentinels(q) = {}
  PROVE  /\ Sentinels(Append(q, Shutdown)) = {Len(q) + 1}
         /\ BatchesIn(Append(q, Shutdown)) = BatchesIn(q)
<1> DEFINE t == Append(q, Shutdown)
<1>1. /\ t \in Seq(Item) /\ Len(t) = Len(q) + 1 /\ Len(q) \in Nat
      /\ \A i \in 1 .. Len(q) : t[i] = q[i]
      /\ t[Len(q) + 1] = Shutdown
  BY AppendProperties, LenProperties DEF Item
<1>2. DOMAIN t = 1 .. Len(q) + 1 /\ DOMAIN q = 1 .. Len(q)
  BY <1>1, LenProperties
<1> HIDE DEF t
<1>3. Sentinels(t) = {Len(q) + 1}
  BY <1>1, <1>2 DEF Sentinels
<1>4. BatchesIn(t) = RemoveAt(t, Len(q) + 1)
  BY <1>1, <1>3, WithSentinel
<1>5. /\ RemoveAt(t, Len(q) + 1) \in Seq(Item)
      /\ Len(RemoveAt(t, Len(q) + 1)) = Len(q)
      /\ \A j \in 1 .. Len(q) : RemoveAt(t, Len(q) + 1)[j] = t[j]
  <2>1. Len(q) + 1 \in 1 .. Len(t) /\ Len(t) - 1 = Len(q)
        /\ \A j \in 1 .. Len(q) : j < Len(q) + 1
    BY <1>1
  <2>2. QED
    BY <1>1, <2>1, RemoveAtProperties
<1>6. RemoveAt(t, Len(q) + 1) = q
  BY <1>1, <1>5, SeqEqual
<1>7. QED
  BY <1>3, <1>4, <1>6, WithoutSentinel DEF t

LEMMA TakeHead ==
  ASSUME NEW q \in Seq(Item), q # <<>>
  PROVE  /\ Head(q) = q[1] /\ Head(q) \in Item
         /\ Tail(q) \in Seq(Item) /\ Len(Tail(q)) = Len(q) - 1 /\ Len(q) >= 1
         /\ \A i \in 1 .. Len(q) - 1 : Tail(q)[i] = q[i + 1]
         /\ Sentinels(Tail(q)) = {i \in 1 .. Len(q) - 1 : i + 1 \in Sentinels(q)}
<1>1. /\ Head(q) \in Item /\ Tail(q) \in Seq(Item) /\ Len(Tail(q)) = Len(q) - 1
      /\ \A i \in 1 .. Len(Tail(q)) : Tail(q)[i] = q[i + 1]
  BY HeadTailProperties
<1>2. Len(q) \in Nat /\ Len(q) >= 1 /\ Head(q) = q[1]
  BY LenProperties, EmptySeq
<1>3. DOMAIN Tail(q) = 1 .. Len(q) - 1 /\ DOMAIN q = 1 .. Len(q)
  BY <1>1, LenProperties
<1>4. Sentinels(Tail(q)) = {i \in 1 .. Len(q) - 1 : i + 1 \in Sentinels(q)}
  BY <1>1, <1>2, <1>3 DEF Sentinels
<1>5. QED
  BY <1>1, <1>2, <1>4

LEMMA PrependBatch ==
  ASSUME NEW b \in Item, NEW s \in Seq(Item)
  PROVE  /\ <<b>> \o s \in Seq(Item) /\ Len(<<b>> \o s) = Len(s) + 1
         /\ \A i \in 1 .. Len(s) + 1 :
              (<<b>> \o s)[i] = IF i <= 1 THEN b ELSE s[i - 1]
<1> DEFINE h == <<b>>
<1>1. h \in Seq(Item) /\ Len(h) = 1 /\ h[1] = b
  OBVIOUS
<1> HIDE DEF h
<1>2. /\ h \o s \in Seq(Item) /\ Len(h \o s) = Len(h) + Len(s) /\ Len(s) \in Nat
      /\ \A i \in 1 .. Len(h) + Len(s) :
           (h \o s)[i] = IF i <= Len(h) THEN h[i] ELSE s[i - Len(h)]
  BY <1>1, ConcatProperties, LenProperties
<1>3. /\ Len(h \o s) = Len(s) + 1
      /\ \A i \in 1 .. Len(s) + 1 : (h \o s)[i] = IF i <= 1 THEN h[i] ELSE s[i - 1]
  BY <1>1, <1>2
<1>4. \A i \in 1 .. Len(s) + 1 : i <= 1 => i = 1
  BY <1>2
<1>5. QED
  BY <1>1, <1>2, <1>3, <1>4 DEF h

LEMMA TakeBatch ==
  ASSUME NEW q \in Seq(Item), q # <<>>, Head(q) # Shutdown,
         \A i, j \in Sentinels(q) : i = j
  PROVE  /\ Head(q) \in Batches
         /\ BatchesIn(q) = <<Head(q)>> \o BatchesIn(Tail(q))
<1> DEFINE t == Tail(q)  b == Head(q)
<1>1. /\ b = q[1] /\ b \in Batches /\ t \in Seq(Item)
      /\ Len(t) = Len(q) - 1 /\ Len(q) \in Nat /\ Len(q) >= 1
      /\ \A i \in 1 .. Len(q) - 1 : t[i] = q[i + 1]
      /\ Sentinels(t) = {i \in 1 .. Len(q) - 1 : i + 1 \in Sentinels(q)}
  BY TakeHead, LenProperties DEF Item
<1>2. \A i \in Sentinels(q) : i \in 2 .. Len(q)
  BY <1>1, LenProperties DEF Sentinels
<1>3. b \in Item
  BY <1>1 DEF Item
<1>4. q = <<b>> \o t
  <2> HIDE DEF t, b
  <2>1. /\ <<b>> \o t \in Seq(Item) /\ Len(<<b>> \o t) = Len(q)
        /\ \A i \in 1 .. Len(q) : (<<b>> \o t)[i] = IF i <= 1 THEN b ELSE t[i - 1]
    BY <1>1, <1>3, PrependBatch
  <2>2. ASSUME NEW i \in 1 .. Len(q)
        PROVE  (<<b>> \o t)[i] = q[i]
    <3>1. CASE i = 1
      BY <1>1, <2>1, <3>1
    <3>2. CASE i > 1
      <4>1. i - 1 \in 1 .. Len(q) - 1 /\ (i - 1) + 1 = i
        BY <1>1, <3>2
      <4>2. QED
        BY <1>1, <2>1, <3>2, <4>1
    <3>3. QED
      BY <1>1, <3>1, <3>2
  <2>3. QED
    BY <2>1, <2>2, SeqEqual
<1>5. CASE Sentinels(q) = {}
  <2>1. Sentinels(t) = {}
    BY <1>1, <1>5
  <2>2. QED
    BY <1>1, <1>4, <1>5, <2>1, WithoutSentinel
<1>6. ASSUME NEW i \in Sentinels(q)
      PROVE  BatchesIn(q) = <<b>> \o BatchesIn(t)
  <2> HIDE DEF t, b
  <2>1. i - 1 \in Sentinels(t) /\ \A j \in Sentinels(t) : j = i - 1
    BY <1>1, <1>2
  <2> DEFINE r == BatchesIn(q)  u == BatchesIn(t)
  <2>2. i \in 2 .. Len(q) /\ r = RemoveAt(q, i) /\ u = RemoveAt(t, i - 1)
    BY <1>1, <1>2, <2>1, WithSentinel
  <2>3. /\ r \in Seq(Item) /\ Len(r) = Len(q) - 1
        /\ \A j \in 1 .. Len(q) - 1 : r[j] = IF j < i THEN q[j] ELSE q[j + 1]
    <3>1. i \in 1 .. Len(q)
      BY <1>1, <2>2
    <3>2. /\ RemoveAt(q, i) \in Seq(Item) /\ Len(RemoveAt(q, i)) = Len(q) - 1
          /\ \A j \in 1 .. Len(q) - 1 :
               RemoveAt(q, i)[j] = IF j < i THEN q[j] ELSE q[j + 1]
      BY <3>1, RemoveAtProperties
    <3> HIDE DEF r, u
    <3>3. QED
      BY <2>2, <3>2
  <2>4. /\ u \in Seq(Item) /\ Len(u) = Len(q) - 2
        /\ \A j \in 1 .. Len(q) - 2 : u[j] = IF j < i - 1 THEN t[j] ELSE t[j + 1]
    <3> HIDE DEF r, u
    <3>1. i - 1 \in 1 .. Len(t) /\ Len(t) - 1 = Len(q) - 2
      BY <1>1, <2>2
    <3>2. /\ RemoveAt(t, i - 1) \in Seq(Item)
          /\ Len(RemoveAt(t, i - 1)) = Len(t) - 1
          /\ \A j \in 1 .. Len(t) - 1 :
               RemoveAt(t, i - 1)[j] = IF j < i - 1 THEN t[j] ELSE t[j + 1]
      BY <1>1, <3>1, RemoveAtProperties
    <3>3. QED
      BY <2>2, <3>1, <3>2
  <2> HIDE DEF r, u
  <2>5. /\ <<b>> \o u \in Seq(Item) /\ Len(<<b>> \o u) = Len(q) - 1
        /\ \A j \in 1 .. Len(q) - 1 : (<<b>> \o u)[j] = IF j <= 1 THEN b ELSE u[j - 1]
    BY <1>1, <1>3, <2>2, <2>4, PrependBatch
  <2>6. ASSUME NEW j \in 1 .. Len(r)
        PROVE  r[j] = (<<b>> \o u)[j]
    <3>1. CASE j = 1
      BY <1>1, <2>2, <2>3, <2>5, <3>1
    <3>2. CASE j > 1
      <4>1. j \in 1 .. Len(q) - 1 /\ j - 1 \in 1 .. Len(q) - 2 /\ (j - 1) + 1 = j
        BY <1>1, <2>3, <3>2
      <4>2. u[j - 1] = IF j < i THEN t[j - 1] ELSE t[j]
        BY <2>2, <2>4, <4>1
      <4>3. t[j - 1] = q[j] /\ t[j] = q[j + 1]
        BY <1>1, <4>1
      <4>4. QED
        BY <2>3, <2>5, <3>2, <4>1, <4>2, <4>3
    <3>3. j = 1 \/ j > 1
      BY <1>1, <2>3
    <3>4. QED
      BY <3>1, <3>2, <3>3
  <2>7. r = <<b>> \o u
    BY <2>3, <2>5, <2>6, SeqEqual
  <2>8. QED
    BY <2>7 DEF r, u
<1>7. QED
  BY <1>1, <1>5, <1>6

LEMMA TakeSentinel ==
  ASSUME NEW q \in Seq(Item), q # <<>>, Head(q) = Shutdown,
         \A i, j \in Sentinels(q) : i = j
  PROVE  /\ 1 \in Sentinels(q) /\ Sentinels(Tail(q)) = {}
         /\ BatchesIn(q) = BatchesIn(Tail(q))
<1>1. /\ q[1] = Shutdown /\ Tail(q) \in Seq(Item) /\ Len(Tail(q)) = Len(q) - 1
      /\ Len(q) \in Nat /\ Len(q) >= 1
      /\ \A i \in 1 .. Len(q) - 1 : Tail(q)[i] = q[i + 1]
      /\ Sentinels(Tail(q)) = {i \in 1 .. Len(q) - 1 : i + 1 \in Sentinels(q)}
  BY TakeHead, LenProperties
<1>2. 1 \in Sentinels(q)
  BY <1>1, LenProperties DEF Sentinels
<1>3. Sentinels(Tail(q)) = {}
  BY <1>1, <1>2
<1>4. BatchesIn(q) = RemoveAt(q, 1)
  BY <1>2, WithSentinel
<1>5. /\ RemoveAt(q, 1) \in Seq(Item) /\ Len(RemoveAt(q, 1)) = Len(q) - 1
      /\ \A j \in 1 .. Len(q) - 1 : RemoveAt(q, 1)[j] = q[j + 1]
  <2>1. 1 \in 1 .. Len(q) /\ \A j \in 1 .. Len(q) - 1 : ~(j < 1)
    BY <1>1
  <2>2. QED
    BY <2>1, RemoveAtProperties
<1>6. RemoveAt(q, 1) = Tail(q)
  BY <1>1, <1>5, SeqEqual
<1>7. QED
  BY <1>1, <1>2, <1>3, <1>4, <1>6, WithoutSentinel

LEMMA AppendOfConcat ==
  \A s, t \in Seq(Batches) : \A e \in Batches :
    Append(s \o t, e) = s \o Append(t, e)
<1> TAKE s, t \in Seq(Batches)
<1> TAKE e \in Batches
<1>1. s \o t \in Seq(Batches) /\ <<e>> \in Seq(Batches)
  BY ConcatProperties
<1>2. Append(s \o t, e) = (s \o t) \o <<e>> /\ Append(t, e) = t \o <<e>>
  BY <1>1, AppendIsConcat
<1>3. (s \o t) \o <<e>> = s \o (t \o <<e>>)
  BY <1>1, ConcatAssociative
<1>4. QED
  BY <1>2, <1>3

-----------------------------------------------------------------------------
(* The invariant.  A call of enqueue() has a batch in hand.                *)
PutsBatches ==
  \A p \in Producers : producer[p].stage # "idle" => producer[p].batch \in Batches

(* What the worker holds at each of its stages.                            *)
HandsEmpty ==
  /\ worker = "off" <=> ~started
  /\ worker \in {"off", "getting", "checking", "done"} => taken = <<>> /\ size = 0
  /\ worker \in {"coalescing", "pushing"} => taken # <<>>
  /\ stopping => worker \in {"pushing", "done"}
  /\ worker = "off" => ~alerting

(* stop() puts one sentinel, and only it makes the worker stop.            *)
SentinelOnce ==
  /\ \A i, j \in Sentinels(queue) : i = j
  /\ Sentinels(queue) # {} \/ stopping \/ worker = "done"
       => closing \in {"joining", "exited"}
  /\ Sentinels(queue) # {} => ~stopping /\ worker # "done"

(* Before the sentinel lie the batches accepted before it was put.         *)
SentinelSeals ==
  /\ \A i \in Sentinels(queue) : sealed = Len(handled) + Len(taken) + i - 1
  /\ stopping \/ worker = "done" => sealed <= Len(handled) + Len(taken)

TypeInv == TypeOK /\ PutsBatches /\ HandsEmpty /\ SentinelOnce

Inv == /\ TypeInv /\ SentinelSeals
       /\ NothingLostOrReordered /\ CoalesceBounded /\ AlertEndsWithBacklog

-----------------------------------------------------------------------------
LEMMA InitInv == Init => Inv
<1> SUFFICES ASSUME Init PROVE Inv
  OBVIOUS
<1> USE DEF Init
<1>1. queue = <<>> /\ taken = <<>> /\ handled = <<>> /\ accepted = <<>>
      /\ size = 0 /\ sealed = 0 /\ worker = "off" /\ ~started /\ ~alerting
      /\ closing = "running" /\ ~stopping
  OBVIOUS
<1>2. TypeOK
  <2>1. \A S : <<>> \in Seq(S) /\ Len(<<>>) = 0
    OBVIOUS
  <2>2. producer \in [Producers -> [stage : {"idle", "putting", "inline"}, batch : Item]]
    BY DEF Item
  <2>3. ended \in [Batches -> Fates]
    BY DEF Fates
  <2>4. /\ queue \in Seq(Item) /\ Len(queue) <= Capacity
        /\ taken \in Seq(Batches) /\ accepted \in Seq(Batches)
        /\ handled \in Seq(Batches)
    BY <1>1, <2>1, Settings
  <2>5. started \in BOOLEAN /\ stopping \in BOOLEAN /\ alerting \in BOOLEAN
    OBVIOUS
  <2> HIDE DEF Init
  <2>6. QED
    BY <1>1, <2>2, <2>3, <2>4, <2>5 DEF TypeOK
<1>3. PutsBatches
  BY DEF PutsBatches
<1>4. HandsEmpty
  BY <1>1 DEF HandsEmpty
<1>5. Sentinels(queue) = {}
  BY <1>1, EmptySeq DEF Sentinels
<1>6. SentinelOnce /\ SentinelSeals
  BY <1>1, <1>5 DEF SentinelOnce, SentinelSeals
<1>7. NothingLostOrReordered
  BY <1>1, <1>5, ConcatEmptySeq, EmptySeq DEF NothingLostOrReordered, BatchesIn
<1>8. CoalesceBounded
  BY <1>1, ReadingsInNone DEF CoalesceBounded
<1>9. AlertEndsWithBacklog
  BY <1>1 DEF AlertEndsWithBacklog
<1>10. QED
  BY <1>2, <1>3, <1>4, <1>6, <1>7, <1>8, <1>9 DEF Inv, TypeInv

(* The steps that touch neither the queue nor the batches under way.       *)
LEMMA StartKeepsInv ==
  ASSUME Inv, Start
  PROVE  Inv'
<1> USE DEF Start
<1>1. TypeOK'
  BY DEF Inv, TypeInv, TypeOK
<1>2. PutsBatches' /\ HandsEmpty' /\ SentinelOnce' /\ SentinelSeals'
  BY DEF Inv, TypeInv, PutsBatches, HandsEmpty, SentinelOnce, SentinelSeals
<1>3. NothingLostOrReordered' /\ CoalesceBounded' /\ AlertEndsWithBacklog'
  BY DEF Inv, TypeInv, HandsEmpty, NothingLostOrReordered, CoalesceBounded,
         AlertEndsWithBacklog
<1>4. QED
  BY <1>1, <1>2, <1>3 DEF Inv, TypeInv

LEMMA OfferKeepsInv ==
  ASSUME Inv, NEW p \in Producers, NEW b \in Batches, Offer(p, b)
  PROVE  Inv'
<1> USE DEF Offer
<1>1. producer' \in [Producers -> [stage : {"idle", "putting", "inline"}, batch : Item]]
  BY DEF Inv, TypeInv, TypeOK, Item
<1>2. ended' \in [Batches -> Fates]
  BY DEF Inv, TypeInv, TypeOK, Fates
<1>3. TypeOK'
  BY <1>1, <1>2 DEF Inv, TypeInv, TypeOK
<1>4. PutsBatches'
  BY DEF Inv, TypeInv, TypeOK, PutsBatches
<1>5. HandsEmpty' /\ SentinelOnce' /\ SentinelSeals'
  BY DEF Inv, TypeInv, HandsEmpty, SentinelOnce, SentinelSeals
<1>6. NothingLostOrReordered' /\ CoalesceBounded' /\ AlertEndsWithBacklog'
  BY DEF Inv, NothingLostOrReordered, CoalesceBounded, AlertEndsWithBacklog
<1>7. QED
  BY <1>3, <1>4, <1>5, <1>6 DEF Inv, TypeInv

LEMMA FallBackKeepsInv ==
  ASSUME Inv, NEW p \in Producers, PutTimesOut(p) \/ PushInline(p)
  PROVE  Inv'
<1>0. /\ UNCHANGED <<started, queue, worker, taken, size, stopping, alerting,
                     closing, accepted, handled, sealed>>
      /\ producer[p].stage # "idle"
      /\ \E s \in {"idle", "inline"} : producer' = [producer EXCEPT ![p].stage = s]
      /\ ended' \in [Batches -> Fates]
  <2>1. CASE PutTimesOut(p)
    BY <2>1 DEF PutTimesOut, FallBack, Stage, Inv, TypeInv, TypeOK
  <2>2. CASE PushInline(p)
    BY <2>2 DEF PushInline, Stage, Inv, TypeInv, TypeOK, Fates
  <2>3. QED
    BY <2>1, <2>2
<1> USE <1>0
<1>1. producer' \in [Producers -> [stage : {"idle", "putting", "inline"}, batch : Item]]
  BY DEF Inv, TypeInv, TypeOK
<1>3. TypeOK'
  BY <1>1 DEF Inv, TypeInv, TypeOK
<1>4. PutsBatches'
  BY DEF Inv, TypeInv, TypeOK, PutsBatches
<1>5. HandsEmpty' /\ SentinelOnce' /\ SentinelSeals'
  BY DEF Inv, TypeInv, HandsEmpty, SentinelOnce, SentinelSeals
<1>6. NothingLostOrReordered' /\ CoalesceBounded' /\ AlertEndsWithBacklog'
  BY DEF Inv, NothingLostOrReordered, CoalesceBounded, AlertEndsWithBacklog
<1>7. QED
  BY <1>3, <1>4, <1>5, <1>6 DEF Inv, TypeInv

LEMMA CoalesceEndsKeepsInv ==
  ASSUME Inv, CoalesceEnds
  PROVE  Inv'
<1> USE DEF CoalesceEnds
<1>1. TypeOK' /\ PutsBatches'
  BY DEF Inv, TypeInv, TypeOK, PutsBatches
<1>2. HandsEmpty' /\ SentinelOnce' /\ SentinelSeals'
  BY DEF Inv, TypeInv, HandsEmpty, SentinelOnce, SentinelSeals
<1>3. NothingLostOrReordered' /\ CoalesceBounded' /\ AlertEndsWithBacklog'
  BY DEF Inv, NothingLostOrReordered, CoalesceBounded, AlertEndsWithBacklog
<1>4. QED
  BY <1>1, <1>2, <1>3 DEF Inv, TypeInv

LEMMA CheckBacklogKeepsInv ==
  ASSUME Inv, CheckBacklog
  PROVE  Inv'
<1> USE DEF CheckBacklog
<1>1. TypeOK' /\ PutsBatches'
  BY DEF Inv, TypeInv, TypeOK, PutsBatches, Alerts
<1>2. HandsEmpty' /\ SentinelOnce' /\ SentinelSeals'
  BY DEF Inv, TypeInv, HandsEmpty, SentinelOnce, SentinelSeals
<1>3. NothingLostOrReordered' /\ CoalesceBounded'
  BY DEF Inv, NothingLostOrReordered, CoalesceBounded
<1>4. AlertEndsWithBacklog'
  <2>1. queue = <<>> => Len(queue) = 0
    BY EmptySeq
  <2>2. queue = <<>> => ~Alerts
    BY <2>1, Settings DEF Alerts
  <2>3. alerting' = Alerts /\ queue' = queue
    OBVIOUS
  <2> HIDE DEF CheckBacklog
  <2>4. QED
    BY <2>2, <2>3 DEF AlertEndsWithBacklog
<1>5. QED
  BY <1>1, <1>2, <1>3, <1>4 DEF Inv, TypeInv

LEMMA ClosingKeepsInv ==
  ASSUME Inv, CancelTasks \/ SentinelTimesOut \/ Exit
  PROVE  Inv'
<1>0. /\ UNCHANGED <<started, queue, producer, worker, taken, size, stopping,
                     alerting, accepted, handled, ended, sealed>>
      /\ closing' \in {"signalling", "joining", "exited"}
      /\ closing \in {"joining", "exited"} => closing' \in {"joining", "exited"}
  BY DEF CancelTasks, SentinelTimesOut, Exit
<1> USE <1>0
<1>1. TypeOK' /\ PutsBatches'
  BY DEF Inv, TypeInv, TypeOK, PutsBatches
<1>2. HandsEmpty' /\ SentinelOnce' /\ SentinelSeals'
  BY DEF Inv, TypeInv, HandsEmpty, SentinelOnce, SentinelSeals
<1>3. NothingLostOrReordered' /\ CoalesceBounded' /\ AlertEndsWithBacklog'
  BY DEF Inv, NothingLostOrReordered, CoalesceBounded, AlertEndsWithBacklog
<1>4. QED
  BY <1>1, <1>2, <1>3 DEF Inv, TypeInv

-----------------------------------------------------------------------------
(* The steps that move batches.                                            *)
LEMMA PutKeepsInv ==
  ASSUME Inv, NEW p \in Producers, Put(p)
  PROVE  Inv'
<1> DEFINE b == producer[p].batch
<1>1. /\ producer[p].stage = "putting" /\ b \in Batches /\ b \in Item
      /\ queue' = Append(queue, b) /\ accepted' = Append(accepted, b)
      /\ ended' = [ended EXCEPT ![b] = "accepted"]
      /\ producer' = [producer EXCEPT ![p].stage = "idle"]
      /\ ~(Len(queue) >= Capacity)
      /\ UNCHANGED <<started, worker, taken, size, stopping, alerting, closing,
                     handled, sealed>>
  BY DEF Inv, TypeInv, PutsBatches, Put, Stage, Full, Item
<1> HIDE DEF b
<1>2. /\ queue \in Seq(Item) /\ \A i, j \in Sentinels(queue) : i = j
      /\ taken \in Seq(Batches) /\ handled \in Seq(Batches) /\ accepted \in Seq(Batches)
  BY DEF Inv, TypeInv, TypeOK, SentinelOnce
<1>3. /\ queue' \in Seq(Item) /\ Len(queue') = Len(queue) + 1 /\ Len(queue) \in Nat
      /\ accepted' \in Seq(Batches)
  BY <1>1, <1>2, AppendProperties, LenProperties
<1>4. /\ Sentinels(queue') = Sentinels(queue)
      /\ BatchesIn(queue') = Append(BatchesIn(queue), b)
      /\ BatchesIn(queue) \in Seq(Batches)
  BY <1>1, <1>2, AppendBatch, BatchesInType
<1>5. TypeOK'
  <2>1. Len(queue') <= Capacity
    BY <1>1, <1>3, Settings
  <2>2. producer' \in [Producers -> [stage : {"idle", "putting", "inline"}, batch : Item]]
    BY <1>1 DEF Inv, TypeInv, TypeOK
  <2>3. ended' \in [Batches -> Fates]
    BY <1>1 DEF Inv, TypeInv, TypeOK, Fates
  <2>4. QED
    BY <1>1, <1>3, <2>1, <2>2, <2>3 DEF Inv, TypeInv, TypeOK
<1>6. PutsBatches'
  BY <1>1 DEF Inv, TypeInv, TypeOK, PutsBatches
<1>7. HandsEmpty' /\ SentinelOnce' /\ SentinelSeals'
  BY <1>1, <1>4 DEF Inv, TypeInv, HandsEmpty, SentinelOnce, SentinelSeals
<1>8. NothingLostOrReordered'
  <2> DEFINE before == handled \o taken
  <2>1. before \in Seq(Batches) /\ accepted = before \o BatchesIn(queue)
    BY <1>2, ConcatProperties DEF Inv, NothingLostOrReordered
  <2> HIDE DEF before
  <2>2. Append(before \o BatchesIn(queue), b) = before \o Append(BatchesIn(queue), b)
    <3>1. b \in Batches /\ before \in Seq(Batches) /\ BatchesIn(queue) \in Seq(Batches)
      BY <1>1, <1>4, <2>1
    <3>2. QED
      BY <3>1, AppendOfConcat, Zenon
  <2>3. accepted' = before \o BatchesIn(queue')
    BY <1>1, <1>4, <2>1, <2>2
  <2>4. QED
    BY <1>1, <2>3 DEF NothingLostOrReordered, before
<1>9. CoalesceBounded'
  BY <1>1 DEF Inv, CoalesceBounded
<1>10. AlertEndsWithBacklog'
  BY <1>1, <1>3, EmptySeq DEF AlertEndsWithBacklog
<1>11. QED
  BY <1>5, <1>6, <1>7, <1>8, <1>9, <1>10 DEF Inv, TypeInv

LEMMA PutSentinelKeepsInv ==
  ASSUME Inv, PutSentinel
  PROVE  Inv'
<1>1. /\ closing = "signalling" /\ closing' = "joining"
      /\ queue' = Append(queue, Shutdown) /\ sealed' = Len(accepted)
      /\ ~(Len(queue) >= Capacity)
      /\ UNCHANGED <<started, producer, worker, taken, size, stopping, alerting,
                     accepted, handled, ended>>
  BY DEF PutSentinel, Full
<1>2. /\ queue \in Seq(Item) /\ taken \in Seq(Batches) /\ handled \in Seq(Batches)
      /\ accepted \in Seq(Batches) /\ Shutdown \in Item
  BY DEF Inv, TypeInv, TypeOK, Item
<1>3. Sentinels(queue) = {} /\ ~stopping /\ worker # "done"
  BY <1>1 DEF Inv, TypeInv, SentinelOnce
<1>4. /\ queue' \in Seq(Item) /\ Len(queue') = Len(queue) + 1 /\ Len(queue) \in Nat
      /\ Len(accepted) \in Nat /\ Len(taken) \in Nat /\ Len(handled) \in Nat
  BY <1>1, <1>2, AppendProperties, LenProperties
<1>5. /\ Sentinels(queue') = {Len(queue) + 1}
      /\ BatchesIn(queue') = BatchesIn(queue)
      /\ BatchesIn(queue) = queue /\ queue \in Seq(Batches)
  BY <1>1, <1>2, <1>3, AppendSentinel, WithoutSentinel
<1>6. Len(accepted) = Len(handled) + Len(taken) + Len(queue)
  BY <1>2, <1>5, ConcatProperties DEF Inv, NothingLostOrReordered
<1>7. TypeOK'
  <2>1. Len(queue') <= Capacity
    BY <1>1, <1>4, Settings
  <2>2. QED
    BY <1>1, <1>4, <2>1 DEF Inv, TypeInv, TypeOK
<1>8. PutsBatches' /\ HandsEmpty'
  BY <1>1 DEF Inv, TypeInv, PutsBatches, HandsEmpty
<1>9. SentinelOnce' /\ SentinelSeals'
  BY <1>1, <1>3, <1>4, <1>5, <1>6 DEF SentinelOnce, SentinelSeals
<1>10. NothingLostOrReordered' /\ CoalesceBounded'
  BY <1>1, <1>5 DEF Inv, NothingLostOrReordered, CoalesceBounded
<1>11. AlertEndsWithBacklog'
  BY <1>1, <1>4, EmptySeq DEF AlertEndsWithBacklog
<1>12. QED
  BY <1>7, <1>8, <1>9, <1>10, <1>11 DEF Inv, TypeInv

LEMMA GetKeepsInv ==
  ASSUME Inv, Get
  PROVE  Inv'
<1>1. /\ queue \in Seq(Item) /\ queue # <<>> /\ taken = <<>> /\ size = 0
      /\ handled \in Seq(Batches) /\ accepted \in Seq(Batches)
      /\ \A i, j \in Sentinels(queue) : i = j
      /\ worker = "getting" /\ ~stopping /\ started
      /\ queue' = Tail(queue)
      /\ UNCHANGED <<started, producer, stopping, alerting, closing, accepted,
                     handled, ended, sealed>>
  BY DEF Inv, TypeInv, TypeOK, HandsEmpty, SentinelOnce, Get
<1>2. /\ Head(queue) \in Item /\ queue' \in Seq(Item)
      /\ Len(queue') = Len(queue) - 1 /\ Len(queue) \in Nat /\ Len(queue') <= Capacity
      /\ Sentinels(queue') = {i \in 1 .. Len(queue) - 1 : i + 1 \in Sentinels(queue)}
  <2>1. Len(queue) <= Capacity /\ Len(queue) \in Nat /\ Capacity \in Nat
    BY <1>1, LenProperties, Settings DEF Inv, TypeInv, TypeOK
  <2>2. QED
    BY <1>1, <2>1, TakeHead
<1>3. PutsBatches'
  BY <1>1 DEF Inv, TypeInv, PutsBatches
<1>4. accepted = handled \o <<>> \o BatchesIn(queue)
  BY <1>1 DEF Inv, NothingLostOrReordered
<1>5. CASE Head(queue) = Shutdown
  <2>1. worker' = "done" /\ taken' = <<>> /\ size' = 0
    BY <1>1, <1>5 DEF Get
  <2>2. /\ 1 \in Sentinels(queue) /\ Sentinels(queue') = {}
        /\ BatchesIn(queue) = BatchesIn(queue')
    BY <1>1, <1>5, TakeSentinel
  <2>3. TypeOK'
    BY <1>1, <1>2, <2>1 DEF Inv, TypeInv, TypeOK
  <2>4. HandsEmpty' /\ SentinelOnce'
    BY <1>1, <2>1, <2>2 DEF Inv, TypeInv, HandsEmpty, SentinelOnce
  <2>5. SentinelSeals'
    <3>1. sealed = Len(handled) + Len(taken) + 1 - 1
      BY <2>2 DEF Inv, SentinelSeals
    <3>2. Len(handled) \in Nat /\ Len(taken) = 0
      BY <1>1, LenProperties, EmptySeq
    <3>3. sealed' <= Len(handled') + Len(taken')
      BY <1>1, <2>1, <3>1, <3>2
    <3>4. QED
      BY <2>2, <3>3 DEF SentinelSeals
  <2>6. NothingLostOrReordered' /\ CoalesceBounded' /\ AlertEndsWithBacklog'
    BY <1>1, <1>4, <2>1, <2>2, ReadingsInNone
    DEF NothingLostOrReordered, CoalesceBounded, AlertEndsWithBacklog
  <2>7. QED
    BY <1>3, <2>3, <2>4, <2>5, <2>6 DEF Inv, TypeInv
<1>6. CASE Head(queue) # Shutdown
  <2> DEFINE b == Head(queue)
  <2>1. worker' = "coalescing" /\ taken' = <<b>> /\ size' = SizeOf[b]
    BY <1>1, <1>6 DEF Get
  <2>2. b \in Batches /\ BatchesIn(queue) = <<b>> \o BatchesIn(queue')
    BY <1>1, <1>6, TakeBatch
  <2>3. BatchesIn(queue') \in Seq(Batches)
    <3>1. \A i, j \in Sentinels(queue') : i = j
      BY <1>1, <1>2
    <3>2. QED
      BY <1>2, <3>1, BatchesInType
  <2> HIDE DEF b
  <2>4. /\ <<b>> \in Seq(Batches) /\ Len(<<b>>) = 1 /\ <<b>>[1] = b
        /\ <<b>> # <<>> /\ Append(<<>>, b) = <<b>>
        /\ SizeOf[b] \in Nat
    BY <2>2, WorkerAssumption
  <2>5. TypeOK'
    BY <1>1, <1>2, <2>1, <2>4 DEF Inv, TypeInv, TypeOK
  <2>6. HandsEmpty' /\ SentinelOnce'
    BY <1>1, <1>2, <2>1, <2>4 DEF Inv, TypeInv, HandsEmpty, SentinelOnce
  <2>7. SentinelSeals'
    <3>1. ASSUME NEW i \in Sentinels(queue')
          PROVE  sealed = Len(handled) + 1 + i - 1
      <4>1. i + 1 \in Sentinels(queue) /\ i \in Nat
        BY <1>2
      <4>2. sealed = Len(handled) + Len(taken) + (i + 1) - 1
        BY <4>1 DEF Inv, SentinelSeals
      <4>3. Len(handled) \in Nat /\ Len(taken) = 0
        BY <1>1, LenProperties, EmptySeq
      <4>4. QED
        BY <4>1, <4>2, <4>3
    <3>2. QED
      BY <1>1, <2>1, <2>4, <3>1 DEF SentinelSeals
  <2>8. NothingLostOrReordered'
    <3>1. handled \o <<>> = handled
      BY <1>1, ConcatEmptySeq
    <3>2. handled \o (<<b>> \o BatchesIn(queue')) = (handled \o <<b>>) \o BatchesIn(queue')
      BY <1>1, <2>3, <2>4, Regroup, Zenon
    <3>3. QED
      BY <1>1, <1>4, <2>1, <2>2, <3>1, <3>2 DEF NothingLostOrReordered
  <2>9. CoalesceBounded'
    <3>1. ReadingsIn(Append(<<>>, b)) = ReadingsIn(<<>>) + SizeOf[b]
      BY <2>2, ReadingsInAppend, EmptySeq
    <3>2. ReadingsIn(<<b>>) = SizeOf[b]
      BY <2>4, <3>1, ReadingsInNone
    <3>3. <<b>>[Len(<<b>>)] = b
      BY <2>4
    <3>4. SizeOf[b] - SizeOf[b] < Coalesce
      BY <2>4, Settings
    <3>5. QED
      BY <2>1, <3>2, <3>3, <3>4 DEF CoalesceBounded
  <2>10. AlertEndsWithBacklog'
    BY <2>1 DEF AlertEndsWithBacklog
  <2>11. QED
    BY <1>3, <2>5, <2>6, <2>7, <2>8, <2>9, <2>10 DEF Inv, TypeInv
<1>7. QED
  BY <1>5, <1>6

LEMMA CoalesceNextKeepsInv ==
  ASSUME Inv, CoalesceNext
  PROVE  Inv'
<1>1. /\ queue \in Seq(Item) /\ queue # <<>> /\ taken # <<>> /\ size \in Nat
      /\ taken \in Seq(Batches) /\ Len(taken) \in Nat
      /\ handled \in Seq(Batches) /\ Len(handled) \in Nat /\ accepted \in Seq(Batches)
      /\ \A i, j \in Sentinels(queue) : i = j
      /\ worker = "coalescing" /\ ~stopping /\ started /\ size < Coalesce
      /\ queue' = Tail(queue)
      /\ UNCHANGED <<started, producer, alerting, closing, accepted, handled,
                     ended, sealed>>
  BY LenProperties DEF Inv, TypeInv, TypeOK, HandsEmpty, SentinelOnce, CoalesceNext, HasRoom
<1>2. /\ Head(queue) \in Item /\ queue' \in Seq(Item)
      /\ Len(queue') = Len(queue) - 1 /\ Len(queue) \in Nat /\ Len(queue') <= Capacity
      /\ Sentinels(queue') = {i \in 1 .. Len(queue) - 1 : i + 1 \in Sentinels(queue)}
  <2>1. Len(queue) <= Capacity /\ Len(queue) \in Nat /\ Capacity \in Nat
    BY <1>1, LenProperties, Settings DEF Inv, TypeInv, TypeOK
  <2>2. QED
    BY <1>1, <2>1, TakeHead
<1>3. PutsBatches'
  BY <1>1 DEF Inv, TypeInv, PutsBatches
<1>4. accepted = (handled \o taken) \o BatchesIn(queue)
  BY DEF Inv, NothingLostOrReordered
<1>5. CASE Head(queue) = Shutdown
  <2>1. worker' = "pushing" /\ stopping' = TRUE /\ taken' = taken /\ size' = size
    BY <1>1, <1>5 DEF CoalesceNext, StopAfterPush
  <2>2. /\ 1 \in Sentinels(queue) /\ Sentinels(queue') = {}
        /\ BatchesIn(queue) = BatchesIn(queue')
    BY <1>1, <1>5, TakeSentinel
  <2>3. TypeOK'
    BY <1>1, <1>2, <2>1 DEF Inv, TypeInv, TypeOK
  <2>4. HandsEmpty' /\ SentinelOnce'
    BY <1>1, <2>1, <2>2 DEF Inv, TypeInv, HandsEmpty, SentinelOnce
  <2>5. SentinelSeals'
    <3>1. sealed = Len(handled) + Len(taken) + 1 - 1
      BY <2>2 DEF Inv, SentinelSeals
    <3>2. sealed' <= Len(handled') + Len(taken')
      BY <1>1, <2>1, <3>1
    <3>3. QED
      BY <2>2, <3>2 DEF SentinelSeals
  <2>6. NothingLostOrReordered' /\ CoalesceBounded' /\ AlertEndsWithBacklog'
    BY <1>1, <1>4, <2>1, <2>2
    DEF Inv, NothingLostOrReordered, CoalesceBounded, AlertEndsWithBacklog
  <2>7. QED
    BY <1>3, <2>3, <2>4, <2>5, <2>6 DEF Inv, TypeInv
<1>6. CASE Head(queue) # Shutdown
  <2> DEFINE b == Head(queue)
  <2>1. /\ worker' = "coalescing" /\ stopping' = stopping
        /\ taken' = Append(taken, b) /\ size' = size + SizeOf[b]
    BY <1>1, <1>6 DEF CoalesceNext, Extend
  <2>2. b \in Batches /\ BatchesIn(queue) = <<b>> \o BatchesIn(queue')
    BY <1>1, <1>6, TakeBatch
  <2>3. BatchesIn(queue') \in Seq(Batches)
    <3>1. \A i, j \in Sentinels(queue') : i = j
      BY <1>1, <1>2
    <3>2. QED
      BY <1>2, <3>1, BatchesInType
  <2> HIDE DEF b
  <2>4. /\ taken' \in Seq(Batches) /\ Len(taken') = Len(taken) + 1
        /\ taken'[Len(taken')] = b /\ taken' # <<>>
        /\ taken' = taken \o <<b>>
        /\ SizeOf[b] \in Nat /\ <<b>> \in Seq(Batches)
    <3>1. /\ taken' \in Seq(Batches) /\ Len(taken') = Len(taken) + 1
          /\ taken'[Len(taken) + 1] = b /\ taken' # <<>>
      BY <1>1, <2>1, <2>2, AppendProperties
    <3>2. taken' = taken \o <<b>>
      BY <1>1, <2>1, <2>2, AppendIsConcat, Zenon
    <3>3. SizeOf[b] \in Nat /\ <<b>> \in Seq(Batches)
      BY <2>2, WorkerAssumption
    <3>4. QED
      BY <3>1, <3>2, <3>3
  <2>5. TypeOK'
    BY <1>1, <1>2, <2>1, <2>4 DEF Inv, TypeInv, TypeOK
  <2>6. HandsEmpty' /\ SentinelOnce'
    BY <1>1, <1>2, <2>1, <2>4 DEF Inv, TypeInv, HandsEmpty, SentinelOnce
  <2>7. SentinelSeals'
    <3>1. ASSUME NEW i \in Sentinels(queue')
          PROVE  sealed = Len(handled) + (Len(taken) + 1) + i - 1
      <4>1. i + 1 \in Sentinels(queue) /\ i \in Nat
        BY <1>2
      <4>2. sealed = Len(handled) + Len(taken) + (i + 1) - 1
        BY <4>1 DEF Inv, SentinelSeals
      <4>3. QED
        BY <1>1, <4>1, <4>2
    <3>2. QED
      BY <1>1, <2>1, <2>4, <3>1 DEF SentinelSeals
  <2>8. NothingLostOrReordered'
    <3> DEFINE before == handled \o taken
    <3>1. before \in Seq(Batches)
      BY <1>1, ConcatProperties
    <3>2. before \o <<b>> = handled \o (taken \o <<b>>)
      <4>1. (handled \o taken) \o <<b>> = handled \o (taken \o <<b>>)
        BY <1>1, <2>4, Regroup, Zenon
      <4>2. QED
        BY <4>1
    <3>3. (before \o <<b>>) \o BatchesIn(queue') = before \o (<<b>> \o BatchesIn(queue'))
      <4> HIDE DEF before
      <4>1. QED
        BY <2>3, <2>4, <3>1, Regroup, Zenon
    <3>4. QED
      BY <1>1, <1>4, <2>2, <2>4, <3>2, <3>3 DEF NothingLostOrReordered
  <2>9. CoalesceBounded'
    <3>1. size = ReadingsIn(taken)
      BY DEF Inv, CoalesceBounded
    <3>2. ReadingsIn(taken') = ReadingsIn(taken) + SizeOf[b]
      BY <1>1, <2>1, <2>2, ReadingsInAppend
    <3>3. size' - SizeOf[b] < Coalesce
      BY <1>1, <2>1, <2>4, Settings
    <3>4. QED
      BY <2>1, <2>4, <3>1, <3>2, <3>3 DEF CoalesceBounded
  <2>10. AlertEndsWithBacklog'
    BY <2>1 DEF AlertEndsWithBacklog
  <2>11. QED
    BY <1>3, <2>5, <2>6, <2>7, <2>8, <2>9, <2>10 DEF Inv, TypeInv
<1>7. QED
  BY <1>5, <1>6

LEMMA PushKeepsInv ==
  ASSUME Inv, Push
  PROVE  Inv'
<1>1. /\ taken \in Seq(Batches) /\ Len(taken) \in Nat
      /\ handled \in Seq(Batches) /\ Len(handled) \in Nat
      /\ worker = "pushing" /\ worker' = (IF stopping THEN "done" ELSE "checking")
      /\ handled' = handled \o taken /\ taken' = <<>> /\ size' = 0
      /\ UNCHANGED <<started, queue, producer, stopping, alerting, closing,
                     accepted, sealed>>
  BY LenProperties DEF Inv, TypeInv, TypeOK, Push
<1>2. /\ handled' \in Seq(Batches) /\ Len(handled') = Len(handled) + Len(taken)
      /\ Len(taken') = 0
  BY <1>1, ConcatProperties, EmptySeq
<1>3. TypeOK'
  <2>1. ended' \in [Batches -> Fates]
    BY DEF Inv, TypeInv, TypeOK, Push, Fates
  <2>2. taken' \in Seq(Batches)
    BY <1>1, EmptySeq
  <2>3. QED
    BY <1>1, <1>2, <2>1, <2>2 DEF Inv, TypeInv, TypeOK
<1>4. PutsBatches' /\ HandsEmpty' /\ SentinelOnce'
  BY <1>1 DEF Inv, TypeInv, PutsBatches, HandsEmpty, SentinelOnce
<1>5. SentinelSeals'
  <2>1. Len(handled') + Len(taken') = Len(handled) + Len(taken)
    BY <1>1, <1>2
  <2>2. QED
    BY <1>1, <2>1 DEF Inv, TypeInv, SentinelOnce, SentinelSeals
<1>6. NothingLostOrReordered'
  <2>1. handled' \o <<>> = handled'
    BY <1>2, ConcatEmptySeq
  <2>2. QED
    BY <1>1, <2>1 DEF Inv, NothingLostOrReordered
<1>7. CoalesceBounded' /\ AlertEndsWithBacklog'
  BY <1>1, ReadingsInNone DEF CoalesceBounded, AlertEndsWithBacklog
<1>8. QED
  BY <1>3, <1>4, <1>5, <1>6, <1>7 DEF Inv, TypeInv

-----------------------------------------------------------------------------
LEMMA NextKeepsInv == Inv /\ [Next]_vars => Inv'
<1> SUFFICES ASSUME Inv, [Next]_vars PROVE Inv'
  OBVIOUS
<1>1. CASE Start
  BY <1>1, StartKeepsInv
<1>2. ASSUME NEW p \in Producers, Produce(p) PROVE Inv'
  BY <1>2, OfferKeepsInv, PutKeepsInv, FallBackKeepsInv DEF Produce
<1>3. CASE Work
  BY <1>3, GetKeepsInv, CoalesceNextKeepsInv, CoalesceEndsKeepsInv, PushKeepsInv,
     CheckBacklogKeepsInv DEF Work
<1>4. CASE Close
  BY <1>4, ClosingKeepsInv, PutSentinelKeepsInv DEF Close
<1>5. CASE UNCHANGED vars
  <2>1. UNCHANGED <<started, queue, producer, worker, taken, size, stopping,
                    alerting, closing, accepted, handled, sealed, ended>>
    BY <1>5 DEF vars
  <2>2. TypeInv'
    BY <2>1 DEF Inv, TypeInv, TypeOK, PutsBatches, HandsEmpty, SentinelOnce
  <2>3. SentinelSeals' /\ NothingLostOrReordered' /\ CoalesceBounded' /\ AlertEndsWithBacklog'
    BY <2>1 DEF Inv, SentinelSeals, NothingLostOrReordered, CoalesceBounded,
                AlertEndsWithBacklog
  <2>4. QED
    BY <2>2, <2>3 DEF Inv
<1>6. QED
  BY <1>1, <1>2, <1>3, <1>4, <1>5 DEF Next

LEMMA InvAlways == Spec => []Inv
BY InitInv, NextKeepsInv, PTL DEF Spec

(* Every variable keeps its type, and the queue never holds more than the  *)
(* maxsize given to start(), the sentinel included.                        *)
THEOREM TypeCorrect == Spec => []TypeOK
<1>1. Inv => TypeOK
  BY DEF Inv, TypeInv
<1>2. QED
  BY <1>1, InvAlways, PTL

(* At every moment the batches enqueue() has accepted are, in the order of *)
(* acceptance, the ones already pushed, the ones in the push being made    *)
(* and the ones queued: none is lost, doubled or overtaken in the worker.  *)
THEOREM NoBatchIsLost == Spec => []NothingLostOrReordered
<1>1. Inv => NothingLostOrReordered
  BY DEF Inv
<1>2. QED
  BY <1>1, InvAlways, PTL

(* Coalescing stops at the cap: without the batch that reached it, a push  *)
(* stays below coalesce_max readings, whatever the sizes of the batches.   *)
THEOREM PushesAreBounded == Spec => []CoalesceBounded
<1>1. Inv => CoalesceBounded
  BY DEF Inv
<1>2. QED
  BY <1>1, InvAlways, PTL

(* The worker ends only on the sentinel, and what was accepted before the  *)
(* sentinel was put has been pushed by then.                               *)
THEOREM WorkerDrains == Spec => []DrainsBeforeEnding
<1>1. Inv => DrainsBeforeEnding
  <2>1. SUFFICES ASSUME Inv, worker = "done" PROVE Len(handled) >= sealed
    BY DEF DrainsBeforeEnding
  <2>2. Len(taken) = 0 /\ Len(handled) \in Nat /\ sealed \in Nat
    BY <2>1, EmptySeq, LenProperties DEF Inv, TypeInv, TypeOK, HandsEmpty
  <2>3. sealed <= Len(handled) + Len(taken)
    BY <2>1 DEF Inv, SentinelSeals
  <2>4. QED
    BY <2>2, <2>3
<1>2. QED
  BY <1>1, InvAlways, PTL

(* A worker that waits at an empty queue has taken its backlog alert back. *)
THEOREM AlertEnds == Spec => []AlertEndsWithBacklog
<1>1. Inv => AlertEndsWithBacklog
  BY DEF Inv
<1>2. QED
  BY <1>1, InvAlways, PTL
=============================================================================
