------------------------ MODULE QuotaAggregatorProofs ------------------------
(***************************************************************************)
(* Proofs about the quota aggregator: types, the age of what is answered,  *)
(* the request behind a temporary response, that denied requests are not   *)
(* charged, that none is aggregated twice, and that an answer keeps what   *)
(* was aggregated.                                                         *)
(*                                                                         *)
(* The first lemmas are about the queue and about the plain cache.  What   *)
(* happens to requests is then a matter of the sets of module              *)
(* QuotaAggregator: Accounted relates them, and is the inductive           *)
(* invariant behind DeniedConsumesNothing and AggregatedOnce.              *)
(***************************************************************************)
EXTENDS QuotaAggregator, DequeOutCacheProofs, SequenceTheorems, FiniteSetTheorems

USE QuotaAssumption, NoneIsNoItem

\* Capped clocks stay in their range, and count a unit at most.
LEMMA LaterProperties ==
  ASSUME NEW limit \in Nat, NEW t \in 0..limit
  PROVE  Later(t, 1, limit) \in 0..limit /\ Later(t, 1, limit) <= t + 1
BY DEF Later

-----------------------------------------------------------------------------
(* The queue.                                                              *)

\* Nothing is queued in an empty queue.
LEMMA QueuedNone == Queued(<<>>) = {}
BY EmptySeq DEF Queued

\* Appending a request queues it and nothing else.
LEMMA QueuedAppend ==
  ASSUME NEW S, NEW s \in Seq(SUBSET S), NEW q \in SUBSET S
  PROVE  Append(s, q) \in Seq(SUBSET S) /\ Queued(Append(s, q)) = Queued(s) \cup q
<1> DEFINE t == Append(s, q)
           n == Len(s)
<1>1. n \in Nat /\ DOMAIN s = 1..n
  BY LenProperties
<1>2. /\ t \in Seq(SUBSET S) /\ DOMAIN t = 1..(n + 1)
      /\ \A i \in 1..n : t[i] = s[i]
      /\ t[n + 1] = q
  BY <1>1, AppendProperties
<1> HIDE DEF t, n
<1>3. \A x : x \in UNION {t[i] : i \in DOMAIN t} <=> \E i \in 1..(n + 1) : x \in t[i]
  BY <1>2
<1>4. \A x : x \in UNION {s[i] : i \in DOMAIN s} <=> \E i \in 1..n : x \in s[i]
  BY <1>1
<1>5. \A x : (\E i \in 1..(n + 1) : x \in t[i]) <=> (\E i \in 1..n : x \in s[i]) \/ x \in q
  BY <1>1, <1>2
<1>6. Queued(t) = Queued(s) \cup q
  BY <1>3, <1>4, <1>5 DEF Queued
<1>7. QED
  BY <1>2, <1>6 DEF t

\* What two queues hold together.
LEMMA QueuedConcat ==
  ASSUME NEW S, NEW s \in Seq(SUBSET S), NEW t \in Seq(SUBSET S)
  PROVE  s \o t \in Seq(SUBSET S) /\ Queued(s \o t) = Queued(s) \cup Queued(t)
<1> DEFINE u == s \o t
           n == Len(s)
           m == Len(t)
<1>1. n \in Nat /\ DOMAIN s = 1..n /\ m \in Nat /\ DOMAIN t = 1..m
  BY LenProperties
<1>2. /\ u \in Seq(SUBSET S) /\ Len(u) = n + m
      /\ \A i \in 1..(n + m) : u[i] = IF i <= n THEN s[i] ELSE t[i - n]
  BY ConcatProperties
<1>3. DOMAIN u = 1..(n + m)
  BY <1>2, LenProperties
<1> HIDE DEF u, n, m
<1>4. \A x : x \in UNION {u[i] : i \in DOMAIN u} <=> \E i \in 1..(n + m) : x \in u[i]
  BY <1>3
<1>5. \A x : x \in UNION {s[i] : i \in DOMAIN s} <=> \E i \in 1..n : x \in s[i]
  BY <1>1
<1>6. \A x : x \in UNION {t[i] : i \in DOMAIN t} <=> \E i \in 1..m : x \in t[i]
  BY <1>1
<1>7. ASSUME NEW x
      PROVE (\E i \in 1..(n + m) : x \in u[i])
              <=> (\E i \in 1..n : x \in s[i]) \/ (\E i \in 1..m : x \in t[i])
  <2>1. ASSUME NEW i \in 1..(n + m), x \in u[i]
        PROVE  (\E j \in 1..n : x \in s[j]) \/ (\E j \in 1..m : x \in t[j])
    <3>1. CASE i <= n
      BY <1>1, <1>2, <2>1, <3>1
    <3>2. CASE ~(i <= n)
      <4>1. i - n \in 1..m /\ x \in t[i - n]
        BY <1>1, <1>2, <2>1, <3>2
      <4>2. QED
        BY <4>1
    <3>3. QED
      BY <3>1, <3>2
  <2>2. ASSUME NEW i \in 1..n, x \in s[i] PROVE \E j \in 1..(n + m) : x \in u[j]
    <3>1. i \in 1..(n + m) /\ u[i] = s[i]
      BY <1>1, <1>2
    <3>2. QED
      BY <2>2, <3>1
  <2>3. ASSUME NEW i \in 1..m, x \in t[i] PROVE \E j \in 1..(n + m) : x \in u[j]
    <3>1. n + i \in 1..(n + m) /\ u[n + i] = t[i]
      BY <1>1, <1>2
    <3>2. QED
      BY <2>3, <3>1
  <2>4. QED
    BY <2>1, <2>2, <2>3
<1>8. Queued(u) = Queued(s) \cup Queued(t)
  BY <1>4, <1>5, <1>6, <1>7 DEF Queued
<1>9. QED
  BY <1>2, <1>8 DEF u

\* t is what is left of the sequence s without its n-th element.
IsRest(t, s, n) ==
  /\ n \in 1..Len(s) /\ DOMAIN s = 1..Len(s) /\ Len(s) \in Nat
  /\ DOMAIN t = 1..(Len(s) - 1)
  /\ \A i \in 1..(n - 1) : t[i] = s[i]
  /\ \A i \in n..(Len(s) - 1) : t[i] = s[i + 1]

\* It is what RemoveAt gives.
LEMMA RemoveAtProperties ==
  ASSUME NEW S, NEW s \in Seq(SUBSET S), NEW n \in DOMAIN s
  PROVE  RemoveAt(s, n) \in Seq(SUBSET S) /\ IsRest(RemoveAt(s, n), s, n)
<1> DEFINE m == Len(s)
           a == SubSeq(s, 1, n - 1)
           b == SubSeq(s, n + 1, m)
           t == RemoveAt(s, n)
<1>1. m \in Nat /\ DOMAIN s = 1..m /\ n \in 1..m
  BY LenProperties
<1>2. /\ a \in Seq(SUBSET S) /\ Len(a) = n - 1
      /\ \A i \in 1..(n - 1) : a[i] = s[i]
  <2>1. \A i \in 1..(n - 1) : i \in 1..Len(s)
    BY <1>1
  <2>2. 1 \in Int /\ n - 1 \in Int
    BY <1>1
  <2>3. /\ a \in Seq(SUBSET S) /\ Len(a) = IF 1 <= n - 1 THEN (n - 1) - 1 + 1 ELSE 0
        /\ \A i \in 1..((n - 1) - 1 + 1) : a[i] = s[1 + i - 1]
    BY <2>1, <2>2, SubSeqProperties
  <2>4. QED
    BY <1>1, <2>3
<1>3. /\ b \in Seq(SUBSET S) /\ Len(b) = m - n
      /\ \A i \in 1..(m - n) : b[i] = s[n + i]
  <2>1. \A i \in (n + 1)..m : i \in 1..Len(s)
    BY <1>1
  <2>2. n + 1 \in Int /\ m \in Int
    BY <1>1
  <2>3. /\ b \in Seq(SUBSET S) /\ Len(b) = IF n + 1 <= m THEN m - (n + 1) + 1 ELSE 0
        /\ \A i \in 1..(m - (n + 1) + 1) : b[i] = s[(n + 1) + i - 1]
    BY <2>1, <2>2, SubSeqProperties
  <2>4. QED
    BY <1>1, <2>3
<1>4. t = a \o b
  BY DEF RemoveAt
<1> HIDE DEF a, b, t, m
<1>5. /\ t \in Seq(SUBSET S) /\ Len(t) = Len(a) + Len(b)
      /\ \A i \in 1..(Len(a) + Len(b)) : t[i] = IF i <= Len(a) THEN a[i] ELSE b[i - Len(a)]
  <2>1. a \in Seq(SUBSET S) /\ b \in Seq(SUBSET S)
    BY <1>2, <1>3
  <2>2. /\ a \o b \in Seq(SUBSET S) /\ Len(a \o b) = Len(a) + Len(b)
        /\ \A i \in 1..(Len(a) + Len(b)) :
             (a \o b)[i] = IF i <= Len(a) THEN a[i] ELSE b[i - Len(a)]
    BY <2>1, ConcatProperties, Zenon
  <2>3. QED
    BY <1>4, <2>2, Zenon
<1>6. Len(t) = m - 1 /\ DOMAIN t = 1..(m - 1)
  BY <1>1, <1>2, <1>3, <1>5, LenProperties
<1>7. ASSUME NEW i \in 1..(m - 1)
      PROVE  (i < n => t[i] = s[i]) /\ (~(i < n) => t[i] = s[i + 1])
  <2>1. CASE i < n
    <3>1. i \in 1..(n - 1) /\ t[i] = a[i]
      BY <1>1, <1>2, <1>3, <1>5, <2>1
    <3>2. QED
      BY <1>2, <2>1, <3>1
  <2>2. CASE ~(i < n)
    <3>1. i - (n - 1) \in 1..(m - n) /\ n + (i - (n - 1)) = i + 1
      BY <1>1, <2>2
    <3>2. t[i] = b[i - (n - 1)]
      BY <1>1, <1>2, <1>3, <1>5, <2>2
    <3>3. QED
      BY <1>3, <2>2, <3>1, <3>2
  <2>3. QED
    BY <2>1, <2>2
<1>8. \A i \in 1..(n - 1) : t[i] = s[i]
  BY <1>1, <1>7
<1>9. \A i \in n..(m - 1) : t[i] = s[i + 1]
  BY <1>1, <1>7
<1>10. QED
  BY <1>1, <1>5, <1>6, <1>8, <1>9 DEF m, t, IsRest

\* Taking a request out leaves the others, and nothing new.
LEMMA QueuedRemove ==
  ASSUME NEW S, NEW s \in Seq(SUBSET S), NEW n \in DOMAIN s
  PROVE  /\ RemoveAt(s, n) \in Seq(SUBSET S)
         /\ s[n] \in SUBSET S
         /\ Queued(RemoveAt(s, n)) \subseteq Queued(s)
         /\ s[n] \subseteq Queued(s)
         /\ Queued(s) \subseteq Queued(RemoveAt(s, n)) \cup s[n]
<1> DEFINE t == RemoveAt(s, n)
           m == Len(s)
<1>0. t \in Seq(SUBSET S) /\ IsRest(t, s, n)
  BY RemoveAtProperties, Zenon
<1>1. /\ t \in Seq(SUBSET S) /\ n \in 1..m /\ DOMAIN s = 1..m
      /\ m \in Nat /\ DOMAIN t = 1..(m - 1)
      /\ \A i \in 1..(n - 1) : t[i] = s[i]
      /\ \A i \in n..(m - 1) : t[i] = s[i + 1]
  BY <1>0, Zenon DEF IsRest
<1> HIDE DEF t, m
<1>2. s[n] \in SUBSET S
  BY ElementOfSeq, <1>1, LenProperties DEF m
<1>3. s[n] \subseteq Queued(s)
  BY DEF Queued
<1>4. Queued(t) \subseteq Queued(s)
  <2> SUFFICES ASSUME NEW i \in 1..(m - 1), NEW x \in t[i] PROVE x \in Queued(s)
    BY <1>1 DEF Queued
  <2>1. i \in 1..m /\ i + 1 \in 1..m
    BY <1>1
  <2>2. x \in s[i] \/ x \in s[i + 1]
    BY <1>1
  <2>3. QED
    BY <1>1, <2>1, <2>2 DEF Queued
<1>5. Queued(s) \subseteq Queued(t) \cup s[n]
  <2> SUFFICES ASSUME NEW i \in 1..m, NEW x \in s[i] PROVE x \in Queued(t) \/ x \in s[n]
    BY <1>1 DEF Queued
  <2>1. CASE i = n
    BY <2>1
  <2>2. CASE i < n
    <3>1. i \in 1..(m - 1)
      BY <1>1, <2>2
    <3>2. t[i] = s[i]
      BY <1>1, <2>2, <3>1
    <3>3. QED
      BY <1>1, <3>1, <3>2 DEF Queued
  <2>3. CASE i > n
    <3>1. i - 1 \in 1..(m - 1) /\ i - 1 \in n..(m - 1) /\ (i - 1) + 1 = i
      BY <1>1, <2>3
    <3>2. t[i - 1] = s[i]
      BY <1>1, <3>1
    <3>3. QED
      BY <1>1, <3>1, <3>2 DEF Queued
  <2>4. QED
    BY <1>1, <2>1, <2>2, <2>3
<1>6. QED
  BY <1>1, <1>2, <1>3, <1>4, <1>5 DEF t

\* What the items f holds under the keys of o have aggregated, in that order.
Taken(o, f) == [i \in DOMAIN o |-> f[o[i]].agg]

\* Nothing else is put into that sequence.
LEMMA QueuedInOrder ==
  ASSUME NEW S \in SUBSET Keys, NEW r, NEW o \in InOrder(S, r), NEW f, NEW R,
         \A k \in S : f[k].agg \in SUBSET R
  PROVE  /\ Taken(o, f) \in Seq(SUBSET R)
         /\ \A x \in Queued(Taken(o, f)) : \E k \in S : x \in f[k].agg
<1> DEFINE n == Cardinality(S)
           s == Taken(o, f)
<1>1. n \in Nat
  BY FS_Subset, FS_CardinalityType
<1>2. o \in [1..n -> S]
  BY DEF InOrder, SetToSeqs
<1> HIDE DEF n
<1>3. s \in [1..n -> SUBSET R]
  BY <1>2 DEF Taken
<1>4. s \in Seq(SUBSET R)
  BY <1>1, <1>3, SeqDef
<1>5. \A x \in Queued(s) : \E k \in S : x \in f[k].agg
  BY <1>2 DEF Queued, Taken
<1>6. QED
  BY <1>4, <1>5

\* Every request of the queue s carries requests of one signature.
OneSignature(s) == \A i \in DOMAIN s : \A x, y \in s[i] : SigOf[x] = SigOf[y]

\* It is so in an empty queue, and stays so when such a request is appended, when
\* two such queues are joined, and when a request is taken out.
LEMMA OneSignatureNone == OneSignature(<<>>)
BY EmptySeq DEF OneSignature

LEMMA OneSignatureAppend ==
  ASSUME NEW S, NEW s \in Seq(SUBSET S), NEW q \in SUBSET S, OneSignature(s),
         \A x, y \in q : SigOf[x] = SigOf[y]
  PROVE  OneSignature(Append(s, q))
<1> DEFINE t == Append(s, q)
           n == Len(s)
<1>1. n \in Nat /\ DOMAIN s = 1..n
  BY LenProperties
<1>2. /\ DOMAIN t = 1..(n + 1)
      /\ \A i \in 1..n : t[i] = s[i]
      /\ t[n + 1] = q
  BY <1>1, AppendProperties
<1> HIDE DEF t, n
<1>3. OneSignature(t)
  <2> SUFFICES ASSUME NEW i \in 1..(n + 1), NEW x \in t[i], NEW y \in t[i]
               PROVE  SigOf[x] = SigOf[y]
    BY <1>2 DEF OneSignature
  <2>1. CASE i = n + 1
    BY <1>2, <2>1
  <2>2. CASE i # n + 1
    <3>1. i \in 1..n
      BY <1>1, <2>2
    <3>2. QED
      BY <1>1, <1>2, <3>1 DEF OneSignature
  <2>3. QED
    BY <2>1, <2>2
<1>4. QED
  BY <1>3 DEF t

LEMMA OneSignatureConcat ==
  ASSUME NEW S, NEW s \in Seq(SUBSET S), NEW t \in Seq(SUBSET S),
         OneSignature(s), OneSignature(t)
  PROVE  OneSignature(s \o t)
<1> DEFINE u == s \o t
           n == Len(s)
           m == Len(t)
<1>1. n \in Nat /\ m \in Nat /\ DOMAIN s = 1..n /\ DOMAIN t = 1..m
  BY LenProperties
<1>2. /\ u \in Seq(SUBSET S) /\ Len(u) = n + m
      /\ \A i \in 1..(n + m) : u[i] = IF i <= n THEN s[i] ELSE t[i - n]
  BY ConcatProperties
<1>3. DOMAIN u = 1..(n + m)
  BY <1>2, LenProperties
<1> HIDE DEF u, n, m
<1>4. OneSignature(u)
  <2> SUFFICES ASSUME NEW i \in 1..(n + m), NEW x \in u[i], NEW y \in u[i]
               PROVE  SigOf[x] = SigOf[y]
    BY <1>3 DEF OneSignature
  <2>1. CASE i <= n
    <3>1. i \in DOMAIN s /\ u[i] = s[i]
      BY <1>1, <1>2, <2>1
    <3>2. QED
      BY <3>1 DEF OneSignature
  <2>2. CASE ~(i <= n)
    <3>1. i - n \in DOMAIN t /\ u[i] = t[i - n]
      BY <1>1, <1>2, <2>2
    <3>2. QED
      BY <3>1 DEF OneSignature
  <2>3. QED
    BY <2>1, <2>2
<1>5. QED
  BY <1>4 DEF u

LEMMA OneSignatureRemove ==
  ASSUME NEW S, NEW s \in Seq(SUBSET S), NEW n \in DOMAIN s, OneSignature(s)
  PROVE  OneSignature(RemoveAt(s, n)) /\ \A x, y \in s[n] : SigOf[x] = SigOf[y]
<1> DEFINE t == RemoveAt(s, n)
           m == Len(s)
<1>0. IsRest(t, s, n)
  BY RemoveAtProperties, Zenon
<1>1. /\ n \in 1..m /\ DOMAIN s = 1..m /\ m \in Nat /\ DOMAIN t = 1..(m - 1)
      /\ \A i \in 1..(n - 1) : t[i] = s[i]
      /\ \A i \in n..(m - 1) : t[i] = s[i + 1]
  BY <1>0, Zenon DEF IsRest
<1> HIDE DEF t, m
<1>2. OneSignature(t)
  <2> SUFFICES ASSUME NEW i \in 1..(m - 1) PROVE \A x, y \in t[i] : SigOf[x] = SigOf[y]
    BY <1>1 DEF OneSignature
  <2>1. i \in DOMAIN s /\ i + 1 \in DOMAIN s
    BY <1>1
  <2>2. t[i] = s[i] \/ t[i] = s[i + 1]
    BY <1>1
  <2>3. QED
    BY <2>1, <2>2 DEF OneSignature
<1>3. QED
  BY <1>2 DEF OneSignature, t

\* What is taken out of items that aggregate under their own keys.
LEMMA OneSignatureTaken ==
  ASSUME NEW S \in SUBSET Keys, NEW r, NEW o \in InOrder(S, r), NEW f,
         \A k \in S : \A x \in f[k].agg : SigOf[x] = k
  PROVE  OneSignature(Taken(o, f))
<1> DEFINE n == Cardinality(S)
<1>1. o \in [1..n -> S]
  BY DEF InOrder, SetToSeqs
<1>2. QED
  BY <1>1 DEF OneSignature, Taken

-----------------------------------------------------------------------------
(* The plain cache.                                                        *)

\* What leaves the dictionary of a plain cache is gone.
LEMMA PlainProperties ==
  ASSUME NEW c \in CacheType(Items), c.stored \subseteq Tracked(c)
  PROVE  /\ Plain(c) \in CacheType(Items)
         /\ Tracked(Plain(c)) = c.stored
         /\ Plain(c).stored = c.stored
         /\ Plain(c).left = c.left
         /\ \A k \in c.stored : Plain(c).item[k] = c.item[k]
<1> DEFINE items == [k \in Keys |-> IF k \in c.stored THEN c.item[k] ELSE NoItem]
           order == Among(c.born, c.stored)
<1>1. items \in [Keys -> Items \cup {NoItem}] /\ c.stored \subseteq Keys
  BY DEF CacheType
<1>2. order \in SUBSET (Keys \X Keys)
  BY DEF CacheType, Among
<1>3. Plain(c) = [c EXCEPT !.item = items, !.born = order]
  BY DEF Plain
<1>4. \A k \in Keys : items[k] = IF k \in c.stored THEN c.item[k] ELSE NoItem
  OBVIOUS
<1> HIDE DEF items, order
<1>5. /\ Plain(c) \in CacheType(Items) /\ Plain(c).item = items
      /\ Plain(c).stored = c.stored /\ Plain(c).left = c.left
  BY <1>1, <1>2, <1>3 DEF CacheType
<1>6. Tracked(Plain(c)) = c.stored
  BY <1>1, <1>4, <1>5 DEF Tracked
<1>7. QED
  BY <1>1, <1>4, <1>5, <1>6

\* Storing an item in a plain cache: it lives for a full ttl, the others that
\* are still there are what they were, and live no longer.
LEMMA StoreProperties ==
  ASSUME NEW c \in CacheType(Items), Tracked(c) = c.stored, NEW k \in Keys, NEW v \in Items
  PROVE  LET s == Store(c, k, v)
         IN  /\ s \in CacheType(Items)
             /\ Tracked(s) = s.stored
             /\ s.stored \subseteq Live(c) \cup {k}
             /\ s.item[k] = v
             /\ s.left[k] = Ttl
             /\ \A j \in s.stored \ {k} : s.item[j] = c.item[j]
             /\ Live(s) \subseteq Live(c) \cup {k}
             /\ \A j \in Live(s) \ {k} : s.left[j] = c.left[j]
<1> DEFINE p == Put(c, k, v)
           order == MoveLast(c.born, k, p.stored)
           q == [p EXCEPT !.born = order]
           s == Store(c, k, v)
<1>1. /\ p \in CacheType(Items)
      /\ p.item = [c.item EXCEPT ![k] = v]
      /\ p.left[k] = Ttl
      /\ p.stored \subseteq Live(c) \cup {k}
      /\ Live(p) \subseteq Live(c) \cup {k}
      /\ \A j \in Live(p) \ {k} : p.left[j] = c.left[j]
  BY PutProperties
<1>2. k \in p.stored
  BY DEF Put
<1>3. s = Plain(q)
  BY DEF Store
<1> HIDE DEF p, s
<1>4. order \in SUBSET (Keys \X Keys)
  BY <1>1 DEF CacheType, MoveLast, Among
<1> HIDE DEF order
<1>5. /\ q \in CacheType(Items) /\ q.item = p.item /\ q.stored = p.stored
      /\ q.left = p.left
  BY <1>1, <1>4 DEF CacheType
<1> HIDE DEF q
<1>6. c.item \in [Keys -> Items \cup {NoItem}]
  BY DEF CacheType
<1>7. /\ q.item[k] = v /\ \A j \in Keys \ {k} : q.item[j] = c.item[j]
  BY <1>1, <1>5, <1>6
<1>8. q.stored \subseteq Keys /\ Live(c) \subseteq c.stored
  BY <1>5 DEF CacheType, Live
<1>9. \A j \in q.stored : q.item[j] # NoItem
  <2>1. ASSUME NEW j \in q.stored, j # k PROVE q.item[j] # NoItem
    <3>1. j \in Tracked(c) /\ j \in Keys
      BY <1>1, <1>5, <1>8, <2>1
    <3>2. QED
      BY <1>7, <2>1, <3>1 DEF Tracked
  <2>2. QED
    BY <1>7, <2>1
<1>10. q.stored \subseteq Tracked(q)
  BY <1>8, <1>9 DEF Tracked
<1>11. /\ s \in CacheType(Items) /\ Tracked(s) = q.stored /\ s.stored = q.stored
       /\ s.left = q.left /\ \A j \in q.stored : s.item[j] = q.item[j]
  BY <1>3, <1>5, <1>10, PlainProperties
<1>12. Live(s) = Live(p)
  BY <1>5, <1>11 DEF Live
<1>13. \A j \in s.stored \ {k} : s.item[j] = c.item[j]
  BY <1>7, <1>8, <1>11
<1>14. s.item[k] = v
  BY <1>2, <1>5, <1>7, <1>11
<1>15. QED
  BY <1>1, <1>5, <1>11, <1>12, <1>13, <1>14 DEF s

\* What storing an item drops: what has expired, and one more entry if the cache is
\* full and the key is new.
LEMMA StoreDrops ==
  ASSUME NEW c \in CacheType(Items), Tracked(c) = c.stored, NEW k \in Keys, NEW v \in Items
  PROVE  LET s == Store(c, k, v)
         IN  /\ k \in Live(s)
             /\ \/ Live(c) \subseteq Live(s)
                \/ /\ k \notin Live(c) /\ ~(Cardinality(Live(c)) < MaxEntries)
                   /\ \E o \in Live(c) : Live(c) \ Live(s) = {o}
<1> DEFINE e == Expire(c)
           r == MakeRoom(e, k)
           s == Store(c, k, v)
<1>1. e.stored = Live(c) /\ e.left = c.left /\ Live(c) \subseteq Keys
  BY ExpireProperties
<1>2. c.left \in [Keys -> 0..Ttl] /\ Ttl > 0
  BY QuotaAssumption DEF CacheType
<1>3. s.stored = r.stored \cup {k} /\ s.left = [r.left EXCEPT ![k] = Ttl]
  BY DEF Store, Put, Plain
<1>4. \/ r = e
      \/ /\ k \notin e.stored /\ ~(Cardinality(e.stored) < MaxEntries)
         /\ r = Evict(e, Oldest(e))
  BY DEF MakeRoom
<1> DEFINE o == Oldest(e)
<1> HIDE DEF e, r, s, o
<1>5. \A j \in Live(c) : j \in Keys /\ c.left[j] > 0
  BY <1>1, <1>2 DEF Live
<1>6. CASE r = e
  <2>1. \A j \in Live(c) \cup {k} : j \in s.stored /\ s.left[j] > 0
    BY <1>1, <1>2, <1>3, <1>5, <1>6
  <2>2. Live(c) \cup {k} \subseteq Live(s)
    BY <2>1 DEF Live
  <2>3. QED
    BY <2>2 DEF s
<1>7. CASE r # e
  <2>1. /\ k \notin Live(c) /\ ~(Cardinality(Live(c)) < MaxEntries)
        /\ r = Evict(e, o)
    BY <1>1, <1>4, <1>7 DEF o
  <2>2. r.stored = Live(c) \ {o} /\ r.left = [c.left EXCEPT ![o] = 0]
    BY <1>1, <2>1 DEF Evict
  <2>3. \A j \in (Live(c) \ {o}) \cup {k} : j \in s.stored /\ s.left[j] > 0
    BY <1>1, <1>2, <1>3, <1>5, <2>2
  <2>4. (Live(c) \ {o}) \cup {k} \subseteq Live(s)
    BY <2>3 DEF Live
  <2>5. CASE o \in Live(c) /\ o \notin Live(s)
    <3>1. Live(c) \ Live(s) = {o}
      BY <2>4, <2>5
    <3>2. QED
      BY <2>1, <2>4, <2>5, <3>1 DEF s
  <2>6. CASE ~(o \in Live(c) /\ o \notin Live(s))
    <3>1. Live(c) \subseteq Live(s)
      BY <2>4, <2>6
    <3>2. QED
      BY <2>4, <3>1 DEF s
  <2>7. QED
    BY <2>5, <2>6
<1>8. QED
  BY <1>6, <1>7

\* An item that is changed in place.
LEMMA ReplaceProperties ==
  ASSUME NEW c \in CacheType(Items), Tracked(c) = c.stored, NEW k \in Live(c), NEW v \in Items
  PROVE  LET s == Change(c, k, v)
         IN  /\ s \in CacheType(Items)
             /\ Tracked(s) = s.stored /\ s.stored = c.stored
             /\ s.item[k] = v /\ s.left = c.left /\ Live(s) = Live(c)
             /\ \A j \in Keys \ {k} : s.item[j] = c.item[j]
<1> DEFINE s == Change(c, k, v)
<1>1. /\ s \in CacheType(Items) /\ s.item = [c.item EXCEPT ![k] = v]
      /\ s.stored = c.stored /\ s.left = c.left
  BY ChangeProperties
<1>2. k \in Keys /\ k \in c.stored /\ c.item \in [Keys -> Items \cup {NoItem}]
  BY DEF CacheType, Live
<1> HIDE DEF s
<1>3. s.item[k] = v /\ \A j \in Keys \ {k} : s.item[j] = c.item[j]
  BY <1>1, <1>2
<1>4. Tracked(s) = s.stored
  <2>1. \A j \in Keys : s.item[j] # NoItem <=> c.item[j] # NoItem
    BY <1>2, <1>3 DEF Tracked
  <2>2. QED
    BY <1>1, <2>1 DEF Tracked
<1>5. Live(s) = Live(c)
  BY <1>1 DEF Live
<1>6. QED
  BY <1>1, <1>3, <1>4, <1>5 DEF s

\* What flush() finds after it has expired the cache: the live entries.
LEMMA ExpiredProperties ==
  ASSUME NEW c \in CacheType(Items), Tracked(c) = c.stored
  PROVE  LET e == Plain(Expire(c))
         IN  /\ e \in CacheType(Items)
             /\ Tracked(e) = Live(c) /\ e.stored = Live(c) /\ e.left = c.left
             /\ \A k \in Live(c) : e.item[k] = c.item[k] /\ e.item[k] \in Items
<1> DEFINE x == Expire(c)
           e == Plain(x)
<1>1. /\ x \in CacheType(Items) /\ x.item = c.item /\ x.left = c.left
      /\ x.stored = Live(c) /\ Live(c) \subseteq Keys
  BY ExpireProperties
<1>2. x.stored \subseteq Tracked(x)
  BY <1>1 DEF Live, Tracked
<1> HIDE DEF x
<1>3. /\ e \in CacheType(Items) /\ Tracked(e) = x.stored /\ e.stored = x.stored
      /\ e.left = x.left /\ \A k \in x.stored : e.item[k] = x.item[k]
  BY <1>1, <1>2, PlainProperties
<1>4. \A k \in Live(c) : c.item[k] \in Items
  BY DEF Live, Tracked, CacheType
<1>5. QED
  BY <1>1, <1>3, <1>4 DEF x

\* A clear() leaves nothing.
LEMMA ClearedProperties ==
  ASSUME NEW c \in CacheType(Items)
  PROVE  LET e == Plain(ClearCache(c))
         IN  e \in CacheType(Items) /\ Tracked(e) = {} /\ e.stored = {}
<1> DEFINE x == ClearCache(c)
<1>1. x \in CacheType(Items) /\ x.stored = {}
  <2>1. x \in CacheType(Items)
    BY ClearCacheProperties
  <2>2. QED
    BY <2>1 DEF ClearCache
<1> HIDE DEF x
<1>2. QED
  BY <1>1, PlainProperties DEF x

\* An item that has got an answer keeps what was aggregated, and its request.
LEMMA AnsweredIs ==
  ASSUME NEW i \in Items, NEW a \in Answers \cup {Temp, Dummy}
  PROVE  LET v == [i EXCEPT !.answer = a, !.age = 0, !.inFlight = FALSE]
         IN  v \in Items /\ v.answer = a /\ v.agg = i.agg /\ v.request = i.request
<1> DEFINE v == [i EXCEPT !.answer = a, !.age = 0, !.inFlight = FALSE]
<1>0. v = [i EXCEPT !.answer = a, !.age = 0, !.inFlight = FALSE]
  OBVIOUS
<1> HIDE DEF v
<1>1. v = [answer |-> a, age |-> 0, inFlight |-> FALSE, agg |-> i.agg, request |-> i.request]
  BY <1>0 DEF Items
<1>2. i.agg \in SUBSET Reqs /\ i.request \in SUBSET Reqs
  BY DEF Items
<1>3. v \in Items /\ v.answer = a /\ v.agg = i.agg /\ v.request = i.request
  BY <1>1, <1>2 DEF Items
<1>4. QED
  BY <1>3 DEF v

\* The items: what each way to change one leaves of it.
LEMMA ItemProperties ==
  ASSUME NEW i \in Items, NEW q \in SUBSET Reqs, NEW r \in Reqs,
         NEW a \in Answers \cup {Temp, Dummy}, NEW f \in BOOLEAN
  PROVE  /\ NewItem(q, a, f) \in Items
         /\ Older(i) \in Items
         /\ Flying(i) \in Items
         /\ Aggregate(i, r) \in Items
<1>1. NewItem(q, a, f) \in Items
  BY DEF NewItem, Items
<1>2. Older(i) \in Items
  BY LaterProperties DEF Older, Items
<1>3. Flying(i) \in Items
  BY DEF Flying, Items
<1>4. Aggregate(i, r) \in Items
  BY DEF Aggregate, Items
<1>5. QED
  BY <1>1, <1>2, <1>3, <1>4

\* An item that is older answers as before.
LEMMA OlderIs ==
  ASSUME NEW i \in Items
  PROVE  /\ Older(i).answer = i.answer /\ Older(i).inFlight = i.inFlight
         /\ Older(i).agg = i.agg /\ Older(i).request = i.request
BY DEF Older, Items

\* An item in flight answers as before, with nothing aggregated.
LEMMA FlyingIs ==
  ASSUME NEW i \in Items
  PROVE  /\ Flying(i).answer = i.answer /\ Flying(i).inFlight
         /\ Flying(i).agg = {} /\ Flying(i).request = i.request
BY DEF Flying, Items

\* Aggregating a request changes what is aggregated, unless the answer is an error.
LEMMA AggregateIs ==
  ASSUME NEW i \in Items, NEW r \in Reqs
  PROVE  /\ Aggregate(i, r).answer = i.answer
         /\ Aggregate(i, r).inFlight = i.inFlight
         /\ Aggregate(i, r).request = i.request
         /\ i.answer \in Errors => Aggregate(i, r).agg = i.agg
         /\ i.answer \notin Errors => Aggregate(i, r).agg = i.agg \cup {r}
<1>1. CASE i.answer \in Errors
  BY <1>1 DEF Aggregate, IsPositive
<1>2. CASE i.answer \notin Errors
  <2>1. Aggregate(i, r) = [i EXCEPT !.agg = i.agg \cup {r}]
    BY <1>2 DEF Aggregate, IsPositive
  <2>2. /\ Aggregate(i, r).answer = i.answer
        /\ Aggregate(i, r).inFlight = i.inFlight
        /\ Aggregate(i, r).request = i.request
        /\ Aggregate(i, r).agg = i.agg \cup {r}
    BY <2>1 DEF Items
  <2>3. QED
    BY <1>2, <2>2
<1>3. QED
  BY <1>1, <1>2

\* A live entry has an item.
LEMMA LiveItem ==
  ASSUME cache \in CacheType(Items), Tracked(cache) = cache.stored
  PROVE  /\ Live(cache) \subseteq Tracked(cache)
         /\ \A k \in Tracked(cache) : k \in Keys /\ cache.item[k] \in Items
BY DEF Live, Tracked, CacheType

\* A unit of time: items are older, and closer to their expiry.
LEMMA TickProperties ==
  ASSUME cache \in CacheType(Items), Tracked(cache) = cache.stored, Tick
  PROVE  /\ cache' \in CacheType(Items)
         /\ Tracked(cache)' = Tracked(cache) /\ cache'.stored = cache.stored
         /\ \A k \in Tracked(cache) : cache'.item[k] = Older(cache.item[k])
         /\ \A k \in Keys : cache'.left[k] = IF cache.left[k] > 1 THEN cache.left[k] - 1 ELSE 0
<1> DEFINE e == Elapse(cache, 1)
           items == [k \in Keys |-> IF cache.item[k] = NoItem THEN NoItem
                                    ELSE Older(cache.item[k])]
<1>1. /\ e \in CacheType(Items) /\ e.stored = cache.stored
      /\ \A k \in Keys : e.left[k] = IF cache.left[k] > 1 THEN cache.left[k] - 1 ELSE 0
  BY ElapseProperties
<1>2. cache' = [e EXCEPT !.item = items]
  BY DEF Tick, ItemOf
<1>3. \A k \in Keys : cache.item[k] # NoItem => Older(cache.item[k]) \in Items
  <2>1. ASSUME NEW i \in Items PROVE Older(i) \in Items
    BY LaterProperties DEF Older, Items
  <2>2. QED
    BY <2>1 DEF CacheType
<1>4. items \in [Keys -> Items \cup {NoItem}]
  BY <1>3
<1>5. \A k \in Keys : items[k] = IF cache.item[k] = NoItem THEN NoItem
                                 ELSE Older(cache.item[k])
  OBVIOUS
<1> HIDE DEF e, items
<1>6. /\ cache' \in CacheType(Items) /\ cache'.item = items
      /\ cache'.stored = e.stored /\ cache'.left = e.left
  BY <1>1, <1>2, <1>4 DEF CacheType
<1>7. Tracked(cache)' = Tracked(cache)
  BY <1>3, <1>5, <1>6 DEF Tracked
<1>8. \A k \in Tracked(cache) : cache'.item[k] = Older(cache.item[k])
  BY <1>5, <1>6 DEF Tracked
<1>9. QED
  BY <1>1, <1>6, <1>7, <1>8

\* v is what has become of the item under k, or of a new one for q, with answer a.
HasAnswered(v, k, q, a) ==
  /\ v.answer = a
  /\ k \in Live(cache) => v.agg = cache.item[k].agg /\ v.request = cache.item[k].request
  /\ k \notin Live(cache) => v.agg = {} /\ v.request = q

\* An answer is stored in the item of its key if one is live, else in a new one;
\* without a cache nothing is stored.
LEMMA ResponseProperties ==
  ASSUME cache \in CacheType(Items), Tracked(cache) = cache.stored,
         NEW k \in Keys, NEW q \in SUBSET Reqs, NEW a \in Answers \cup {Dummy},
         AddResponse(k, q, a)
  PROVE  \/ ~Caching /\ cache' = cache
         \/ \E v \in Items : cache' = Store(cache, k, v) /\ HasAnswered(v, k, q, a)
<1>1. CASE ~Caching
  BY <1>1 DEF AddResponse
<1>2. CASE Caching /\ k \in Live(cache)
  <2> DEFINE i == cache.item[k]
             v == [i EXCEPT !.answer = a, !.age = 0, !.inFlight = FALSE]
  <2>1. i \in Items
    BY <1>2, LiveItem
  <2>2. cache' = Store(cache, k, v)
    BY <1>2 DEF AddResponse, ItemOf
  <2> HIDE DEF i
  <2>3. v \in Items /\ v.answer = a /\ v.agg = i.agg /\ v.request = i.request
    BY <2>1, AnsweredIs
  <2> HIDE DEF v
  <2>4. v.agg = cache.item[k].agg /\ v.request = cache.item[k].request
    BY <2>3 DEF i
  <2>5. HasAnswered(v, k, q, a)
    BY <1>2, <2>3, <2>4 DEF HasAnswered
  <2>6. QED
    BY <2>2, <2>3, <2>5
<1>3. CASE Caching /\ k \notin Live(cache)
  <2> DEFINE v == NewItem(q, a, FALSE)
  <2>1. cache' = Store(cache, k, v)
    BY <1>3 DEF AddResponse
  <2>2. v \in Items /\ v.answer = a /\ v.agg = {} /\ v.request = q
    BY DEF NewItem, Items
  <2> HIDE DEF v
  <2>3. HasAnswered(v, k, q, a)
    BY <1>3, <2>2 DEF HasAnswered
  <2>4. QED
    BY <2>1, <2>2, <2>3
<1>4. QED
  BY <1>1, <1>2, <1>3

\* An answer that has just been heard.
LEMMA HeardProperties ==
  ASSUME heard \in [Keys -> [Answers \cup {Temp, Dummy} -> 0..Ttl]],
         NEW k \in Keys, NEW a \in Answers \cup {Temp, Dummy},
         heard' = [heard EXCEPT ![k][a] = 0]
  PROVE  /\ heard' \in [Keys -> [Answers \cup {Temp, Dummy} -> 0..Ttl]]
         /\ heard'[k][a] = 0
         /\ \A j \in Keys, b \in Answers \cup {Temp, Dummy} : heard'[j][b] <= heard[j][b]
<1> DEFINE mine == [heard[k] EXCEPT ![a] = 0]
           As == Answers \cup {Temp, Dummy}
<1>1. mine \in [As -> 0..Ttl] /\ mine[a] = 0 /\ \A b \in As : mine[b] <= heard[k][b]
  <2>1. heard[k] \in [As -> 0..Ttl]
    BY DEF As
  <2>2. QED
    BY <2>1
<1>2. heard' = [heard EXCEPT ![k] = mine]
  OBVIOUS
<1> HIDE DEF mine, As
<1>3. heard \in [Keys -> [As -> 0..Ttl]]
  BY DEF As
<1>4. heard' \in [Keys -> [As -> 0..Ttl]] /\ heard'[k] = mine
  BY <1>1, <1>2, <1>3
<1>5. \A j \in Keys, b \in As : heard'[j][b] <= heard[j][b]
  <2> SUFFICES ASSUME NEW j \in Keys, NEW b \in As PROVE heard'[j][b] <= heard[j][b]
    OBVIOUS
  <2>1. CASE j = k
    BY <1>1, <1>4, <2>1
  <2>2. CASE j # k
    <3>1. heard'[j] = heard[j] /\ heard[j] \in [As -> 0..Ttl]
      BY <1>2, <1>3, <2>2
    <3>2. heard[j][b] \in 0..Ttl
      BY <3>1
    <3>3. QED
      BY <3>1, <3>2
  <2>3. QED
    BY <2>1, <2>2
<1>6. QED
  BY <1>1, <1>4, <1>5 DEF As

-----------------------------------------------------------------------------
(* The inductive invariant.                                                *)

\* The requests the cached items would hand out once more.
Requested == UNION {ItemOf(k).request : k \in Tracked(cache)}

\* Where requests are.  A request that waits anywhere has been made; what the
\* scheduler thread is sending has been handed out; a denied request waits
\* nowhere, not even as the request of an item; an aggregated one waits in no
\* second place, and is not the request of an item.
Accounted ==
  /\ Aggregated \cup Requested \cup Queued(out) \cup handed \cup calls \cup denied \subseteq seen
  /\ Queued(batch) \subseteq handed
  /\ denied \cap (handed \cup Aggregated \cup Queued(out) \cup calls \cup Requested) = {}
  /\ Aggregated \cap (Queued(out) \cup handed \cup Requested) = {}

\* An item holds, and has aggregated, requests of its own signature.
OwnKeys == \A k \in Tracked(cache) : \A r \in ItemOf(k).agg \cup ItemOf(k).request : SigOf[r] = k

\* So do the requests that are sent, and without a cache none is sent for others.
SentTogether ==
  /\ OneSignature(out) /\ OneSignature(batch)
  /\ ~Caching => batch = <<>>

QuotaInv ==
  TypeOK /\ ResponseFresh /\ TemporaryIsBacked /\ Accounted /\ OwnKeys /\ SentTogether

\* A step that changes one item, and may drop others: what is aggregated, and
\* what is requested, comes from that item or was there before.
LEMMA OneItemChanged ==
  ASSUME OwnKeys, NEW k \in Keys, NEW v,
         Tracked(cache)' \subseteq Tracked(cache) \cup {k},
         cache'.item[k] = v,
         \A j \in Tracked(cache)' \ {k} : cache'.item[j] = cache.item[j],
         \A r \in v.agg \cup v.request : SigOf[r] = k
  PROVE  /\ Aggregated' \subseteq {r \in Aggregated : SigOf[r] # k} \cup v.agg
         /\ Requested' \subseteq Requested \cup v.request
         /\ OwnKeys'
<1>1. \A j \in Tracked(cache)' \ {k} : j \in Tracked(cache) /\ cache'.item[j] = cache.item[j]
  OBVIOUS
<1>2. Aggregated' \subseteq {r \in Aggregated : SigOf[r] # k} \cup v.agg
  <2> SUFFICES ASSUME NEW r \in Aggregated'
               PROVE  r \in v.agg \/ (r \in Aggregated /\ SigOf[r] # k)
    OBVIOUS
  <2>1. PICK j \in Tracked(cache)' : r \in cache'.item[j].agg
    BY DEF Aggregated, ItemOf
  <2>2. CASE j = k
    BY <2>1, <2>2
  <2>3. CASE j # k
    <3>1. j \in Tracked(cache) /\ r \in cache.item[j].agg
      BY <1>1, <2>1, <2>3
    <3>2. r \in Aggregated /\ SigOf[r] = j
      BY <3>1 DEF Aggregated, ItemOf, OwnKeys
    <3>3. QED
      BY <2>3, <3>2
  <2>4. QED
    BY <2>2, <2>3
<1>3. Requested' \subseteq Requested \cup v.request
  <2> SUFFICES ASSUME NEW r \in Requested' PROVE r \in v.request \/ r \in Requested
    OBVIOUS
  <2>1. PICK j \in Tracked(cache)' : r \in cache'.item[j].request
    BY DEF Requested, ItemOf
  <2>2. QED
    BY <1>1, <2>1 DEF Requested, ItemOf
<1>4. OwnKeys'
  BY <1>1 DEF OwnKeys, ItemOf
<1>5. QED
  BY <1>2, <1>3, <1>4

\* A step that stores an item whose answer has just been given.
LEMMA Stored ==
  ASSUME TypeOK, ResponseFresh, TemporaryIsBacked, OwnKeys, NEW k \in Keys, NEW v \in Items,
         cache' = Store(cache, k, v),
         heard' = [heard EXCEPT ![k][v.answer] = 0],
         \A r \in v.agg \cup v.request : SigOf[r] = k,
         v.answer = Temp => v.inFlight /\ v.request \subseteq Pending',
         \A r \in Pending : r \in Pending' \/ SigOf[r] = k
  PROVE  /\ cache' \in CacheType(Items) /\ Tracked(cache)' = cache'.stored
         /\ heard' \in [Keys -> [Answers \cup {Temp, Dummy} -> 0..Ttl]]
         /\ ResponseFresh' /\ TemporaryIsBacked' /\ OwnKeys'
         /\ Aggregated' \subseteq {r \in Aggregated : SigOf[r] # k} \cup v.agg
         /\ Requested' \subseteq Requested \cup v.request
<1>1. /\ cache \in CacheType(Items) /\ Tracked(cache) = cache.stored
      /\ heard \in [Keys -> [Answers \cup {Temp, Dummy} -> 0..Ttl]]
  BY DEF TypeOK
<1>2. /\ cache' \in CacheType(Items)
      /\ Tracked(cache)' = cache'.stored
      /\ cache'.stored \subseteq Live(cache) \cup {k}
      /\ cache'.item[k] = v
      /\ cache'.left[k] = Ttl
      /\ \A j \in cache'.stored \ {k} : cache'.item[j] = cache.item[j]
      /\ Live(cache)' \subseteq Live(cache) \cup {k}
      /\ \A j \in Live(cache)' \ {k} : cache'.left[j] = cache.left[j]
  <2>1. Tracked(Store(cache, k, v)) = Tracked(cache)' /\ Live(Store(cache, k, v)) = Live(cache)'
    BY DEF Tracked, Live
  <2>2. QED
    BY <1>1, <2>1, StoreProperties
<1>3. v.answer \in Answers \cup {Temp, Dummy}
  BY DEF Items
<1>4. /\ heard' \in [Keys -> [Answers \cup {Temp, Dummy} -> 0..Ttl]]
      /\ heard'[k][v.answer] = 0
      /\ \A j \in Keys, b \in Answers \cup {Temp, Dummy} : heard'[j][b] <= heard[j][b]
  BY <1>1, <1>3, HeardProperties
<1>5. Live(cache) \subseteq Tracked(cache)
      /\ \A j \in Tracked(cache) : j \in Keys /\ cache.item[j] \in Items
  BY <1>1, LiveItem
<1>6. \A j \in Live(cache)' : j = k \/ (/\ j \in Live(cache) /\ cache'.item[j] = cache.item[j]
                                        /\ cache'.left[j] = cache.left[j])
  BY <1>2 DEF Live
<1>7. ResponseFresh'
  <2> SUFFICES ASSUME NEW j \in Live(cache)'
               PROVE  heard'[j][cache'.item[j].answer] + cache'.left[j] <= Ttl
    BY DEF ResponseFresh, ItemOf
  <2>1. CASE j = k
    BY <1>2, <1>4, <2>1
  <2>2. CASE j # k
    <3> DEFINE b == cache.item[j].answer
    <3>1. j \in Live(cache) /\ cache'.item[j] = cache.item[j] /\ cache'.left[j] = cache.left[j]
      BY <1>6, <2>2
    <3>2. j \in Keys /\ b \in Answers \cup {Temp, Dummy}
      BY <1>5, <3>1 DEF Items
    <3>3. heard[j][b] + cache.left[j] <= Ttl
      BY <3>1 DEF ResponseFresh, ItemOf
    <3>4. heard'[j][b] <= heard[j][b] /\ heard[j][b] \in Nat /\ heard'[j][b] \in Nat
      <4>1. heard[j] \in [Answers \cup {Temp, Dummy} -> 0..Ttl]
        BY <1>1, <3>2
      <4>2. heard'[j] \in [Answers \cup {Temp, Dummy} -> 0..Ttl]
        BY <1>4, <3>2
      <4>3. heard[j][b] \in 0..Ttl /\ heard'[j][b] \in 0..Ttl
        BY <3>2, <4>1, <4>2
      <4>4. QED
        BY <1>4, <3>2, <4>3
    <3>5. cache.left[j] \in Nat
      BY <1>1, <3>2 DEF CacheType
    <3>6. cache'.item[j].answer = b
      BY <3>1
    <3> HIDE DEF b
    <3>7. QED
      BY <3>1, <3>3, <3>4, <3>5, <3>6
  <2>3. QED
    BY <2>1, <2>2
<1>8. TemporaryIsBacked'
  <2> SUFFICES ASSUME NEW j \in Live(cache)', cache'.item[j].answer = Temp
               PROVE  /\ cache'.item[j].inFlight
                      /\ cache'.item[j].request \subseteq Pending'
    BY DEF TemporaryIsBacked, ItemOf
  <2>1. CASE j = k
    BY <1>2, <2>1
  <2>2. CASE j # k
    <3>1. j \in Live(cache) /\ cache'.item[j] = cache.item[j]
      BY <1>6, <2>2
    <3>2. cache.item[j].inFlight /\ cache.item[j].request \subseteq Pending
      BY <3>1 DEF TemporaryIsBacked, ItemOf
    <3>3. \A r \in cache.item[j].request : SigOf[r] # k
      BY <1>5, <2>2, <3>1 DEF OwnKeys, ItemOf
    <3>4. QED
      BY <3>1, <3>2, <3>3
  <2>3. QED
    BY <2>1, <2>2
<1>9. /\ Tracked(cache)' \subseteq Tracked(cache) \cup {k}
      /\ \A j \in Tracked(cache)' \ {k} : cache'.item[j] = cache.item[j]
  BY <1>2, <1>5
<1>10. /\ Aggregated' \subseteq {r \in Aggregated : SigOf[r] # k} \cup v.agg
       /\ Requested' \subseteq Requested \cup v.request
       /\ OwnKeys'
  BY <1>2, <1>9, OneItemChanged
<1>11. QED
  BY <1>2, <1>4, <1>7, <1>8, <1>10

\* A step that changes a live item in place, but neither its answer nor its request.
LEMMA Replaced ==
  ASSUME TypeOK, ResponseFresh, TemporaryIsBacked, OwnKeys, NEW k \in Live(cache), NEW v \in Items,
         cache' = Change(cache, k, v), heard' = heard,
         v.answer = cache.item[k].answer, v.request = cache.item[k].request,
         cache.item[k].inFlight => v.inFlight,
         \A r \in v.agg : SigOf[r] = k,
         Pending \subseteq Pending'
  PROVE  /\ cache' \in CacheType(Items) /\ Tracked(cache)' = cache'.stored
         /\ ResponseFresh' /\ TemporaryIsBacked' /\ OwnKeys'
         /\ Aggregated' \subseteq {r \in Aggregated : SigOf[r] # k} \cup v.agg
         /\ Requested' \subseteq Requested
<1>1. /\ cache \in CacheType(Items) /\ Tracked(cache) = cache.stored
  BY DEF TypeOK
<1>2. /\ cache' \in CacheType(Items)
      /\ Tracked(cache)' = cache'.stored /\ cache'.stored = cache.stored
      /\ cache'.item[k] = v /\ cache'.left = cache.left /\ Live(cache)' = Live(cache)
      /\ \A j \in Keys \ {k} : cache'.item[j] = cache.item[j]
  <2>1. Tracked(Change(cache, k, v)) = Tracked(cache)' /\ Live(Change(cache, k, v)) = Live(cache)'
    BY DEF Tracked, Live
  <2>2. QED
    BY <1>1, <2>1, ReplaceProperties
<1>3. Live(cache) \subseteq Tracked(cache) /\ \A j \in Tracked(cache) : j \in Keys
  BY <1>1, LiveItem
<1>4. \A j \in Live(cache) : j = k \/ cache'.item[j] = cache.item[j]
  BY <1>2, <1>3
<1>5. ResponseFresh'
  <2> SUFFICES ASSUME NEW j \in Live(cache)
               PROVE  heard[j][cache'.item[j].answer] + cache.left[j] <= Ttl
    BY <1>2 DEF ResponseFresh, ItemOf
  <2>1. cache'.item[j].answer = cache.item[j].answer
    BY <1>2, <1>4
  <2>2. QED
    BY <2>1 DEF ResponseFresh, ItemOf
<1>6. TemporaryIsBacked'
  <2> SUFFICES ASSUME NEW j \in Live(cache), cache'.item[j].answer = Temp
               PROVE  /\ cache'.item[j].inFlight
                      /\ cache'.item[j].request \subseteq Pending'
    BY <1>2 DEF TemporaryIsBacked, ItemOf
  <2>1. CASE j = k
    <3>1. cache.item[k].inFlight /\ cache.item[k].request \subseteq Pending
      BY <1>2, <2>1 DEF TemporaryIsBacked, ItemOf
    <3>2. QED
      BY <1>2, <2>1, <3>1
  <2>2. CASE j # k
    <3>1. cache'.item[j] = cache.item[j]
      BY <1>4, <2>2
    <3>2. cache.item[j].inFlight /\ cache.item[j].request \subseteq Pending
      BY <3>1 DEF TemporaryIsBacked, ItemOf
    <3>3. QED
      BY <3>1, <3>2
  <2>3. QED
    BY <2>1, <2>2
<1>7. k \in Tracked(cache) /\ k \in Keys
  BY <1>3
<1>8. /\ Tracked(cache)' \subseteq Tracked(cache) \cup {k}
      /\ \A j \in Tracked(cache)' \ {k} : cache'.item[j] = cache.item[j]
      /\ \A r \in v.agg \cup v.request : SigOf[r] = k
  BY <1>1, <1>2, <1>3, <1>7 DEF OwnKeys, ItemOf
<1>9. /\ Aggregated' \subseteq {r \in Aggregated : SigOf[r] # k} \cup v.agg
      /\ Requested' \subseteq Requested \cup v.request
      /\ OwnKeys'
  BY <1>2, <1>7, <1>8, OneItemChanged
<1>10. v.request \subseteq Requested
  BY <1>7 DEF Requested, ItemOf
<1>11. QED
  BY <1>2, <1>5, <1>6, <1>9, <1>10

\* The history variables and the queues have their types, and the sets of
\* Accounted are sets of requests.
LEMMA SetFacts ==
  ASSUME QuotaInv
  PROVE  /\ Aggregated \in SUBSET Reqs /\ Requested \in SUBSET Reqs
         /\ Queued(out) \in SUBSET Reqs /\ Queued(batch) \in SUBSET Reqs
         /\ \A r \in Aggregated : SigOf[r] \in Keys
<1>1. seen \subseteq Reqs /\ handed \subseteq seen
  BY DEF QuotaInv, TypeOK
<1>2. Aggregated \cup Requested \cup Queued(out) \subseteq seen /\ Queued(batch) \subseteq handed
  BY DEF QuotaInv, Accounted
<1>3. QED
  BY <1>1, <1>2

\* Initially nothing is anywhere.
LEMMA InitInv == Init => QuotaInv
<1> SUFFICES ASSUME Init PROVE QuotaInv
  OBVIOUS
<1>1. cache = EmptyCache /\ cache \in CacheType(Items)
  BY EmptyCacheType DEF Init
<1>2. Tracked(cache) = {} /\ cache.stored = {} /\ Live(cache) = {}
  BY <1>1 DEF EmptyCache, Tracked, Live
<1>3. Queued(out) = {} /\ Queued(batch) = {}
  BY QueuedNone DEF Init
<1>4. out \in Seq(SUBSET Reqs) /\ batch \in Seq(SUBSET Reqs)
  BY EmptySeq DEF Init
<1>5. heard \in [Keys -> [Answers \cup {Temp, Dummy} -> 0..Ttl]]
  BY DEF Init
<1>6. TypeOK
  BY <1>1, <1>2, <1>4, <1>5 DEF Init, TypeOK
<1>7. ResponseFresh /\ TemporaryIsBacked /\ OwnKeys
  BY <1>2 DEF ResponseFresh, TemporaryIsBacked, OwnKeys
<1>11. SentTogether
  BY OneSignatureNone DEF Init, SentTogether
<1>8. Aggregated = {} /\ Requested = {}
  BY <1>2 DEF Aggregated, Requested
<1>9. Accounted
  BY <1>3, <1>8 DEF Accounted, Init
<1>10. QED
  BY <1>6, <1>7, <1>9, <1>11 DEF QuotaInv

\* A step that changes no variable.
LEMMA StutterInv ==
  ASSUME QuotaInv, UNCHANGED vars
  PROVE  QuotaInv'
<1>1. /\ cache' = cache /\ out' = out /\ batch' = batch /\ calls' = calls
      /\ seen' = seen /\ denied' = denied /\ handed' = handed /\ heard' = heard
      /\ failed' = failed
  BY DEF vars
<1>2. TypeOK'
  BY <1>1 DEF QuotaInv, TypeOK, Tracked
<1>3. ResponseFresh' /\ TemporaryIsBacked' /\ OwnKeys'
  BY <1>1 DEF QuotaInv, ResponseFresh, TemporaryIsBacked, OwnKeys, ItemOf, Queued, Live, Tracked, Pending
<1>4. Accounted'
  BY <1>1 DEF QuotaInv, Accounted, Aggregated, Requested, ItemOf, Queued, Tracked
<1>5. SentTogether'
  BY <1>1 DEF QuotaInv, SentTogether, OneSignature
<1>6. QED
  BY <1>2, <1>3, <1>4, <1>5 DEF QuotaInv

\* Time moves the clocks of an answer and of its expiry together.
LEMMA TickInv ==
  ASSUME QuotaInv, Tick
  PROVE  QuotaInv'
<1> DEFINE As == Answers \cup {Temp, Dummy}
<1>0. /\ cache \in CacheType(Items) /\ Tracked(cache) = cache.stored
      /\ heard \in [Keys -> [As -> 0..Ttl]]
  BY DEF QuotaInv, TypeOK
<1>1. /\ cache' \in CacheType(Items)
      /\ Tracked(cache)' = Tracked(cache) /\ cache'.stored = cache.stored
      /\ \A k \in Tracked(cache) : cache'.item[k] = Older(cache.item[k])
      /\ \A k \in Keys : cache'.left[k] = IF cache.left[k] > 1 THEN cache.left[k] - 1 ELSE 0
  BY <1>0, TickProperties
<1>2. \A k \in Tracked(cache) :
        /\ k \in Keys
        /\ cache'.item[k].answer = cache.item[k].answer
        /\ cache'.item[k].inFlight = cache.item[k].inFlight
        /\ cache'.item[k].agg = cache.item[k].agg
        /\ cache'.item[k].request = cache.item[k].request
        /\ cache.item[k].answer \in As
  <2> SUFFICES ASSUME NEW k \in Tracked(cache)
               PROVE  /\ k \in Keys
                      /\ cache'.item[k].answer = cache.item[k].answer
                      /\ cache'.item[k].inFlight = cache.item[k].inFlight
                      /\ cache'.item[k].agg = cache.item[k].agg
                      /\ cache'.item[k].request = cache.item[k].request
                      /\ cache.item[k].answer \in As
    OBVIOUS
  <2>1. k \in Keys /\ cache.item[k] \in Items /\ cache'.item[k] = Older(cache.item[k])
    BY <1>0, <1>1, LiveItem
  <2>2. cache.item[k].answer \in As
    BY <2>1 DEF Items
  <2>3. QED
    BY <2>1, <2>2, OlderIs
<1>3. /\ heard' \in [Keys -> [As -> 0..Ttl]]
      /\ \A k \in Keys, a \in As : heard'[k][a] <= heard[k][a] + 1
  <2>1. \A k \in Keys : DOMAIN heard[k] = As
    BY <1>0
  <2>2. heard' = [k \in Keys |-> [a \in As |-> Later(heard[k][a], 1, Ttl)]]
    BY <2>1 DEF Tick
  <2>3. \A k \in Keys, a \in As : /\ Later(heard[k][a], 1, Ttl) \in 0..Ttl
                                  /\ Later(heard[k][a], 1, Ttl) <= heard[k][a] + 1
    <3> SUFFICES ASSUME NEW k \in Keys, NEW a \in As
                 PROVE  /\ Later(heard[k][a], 1, Ttl) \in 0..Ttl
                        /\ Later(heard[k][a], 1, Ttl) <= heard[k][a] + 1
      OBVIOUS
    <3>1. heard[k] \in [As -> 0..Ttl]
      BY <1>0
    <3>2. heard[k][a] \in 0..Ttl /\ Ttl \in Nat
      BY <3>1
    <3>3. QED
      BY <3>2, LaterProperties
  <2> HIDE DEF As
  <2>4. QED
    BY <2>2, <2>3
<1>4. UNCHANGED <<out, batch, calls, seen, denied, handed, failed>>
  BY DEF Tick
<1>5. TypeOK'
  BY <1>0, <1>1, <1>3, <1>4 DEF QuotaInv, TypeOK
<1>6. Live(cache)' \subseteq Live(cache) /\ Live(cache) \subseteq Tracked(cache)
  BY <1>0, <1>1 DEF Live, CacheType
<1>7. ResponseFresh'
  <2> SUFFICES ASSUME NEW k \in Live(cache)'
               PROVE  heard'[k][cache'.item[k].answer] + cache'.left[k] <= Ttl
    BY DEF ResponseFresh, ItemOf
  <2> DEFINE a == cache.item[k].answer
  <2>1. k \in Live(cache) /\ k \in Keys /\ a \in As /\ cache'.item[k].answer = a
    BY <1>2, <1>6
  <2>2. heard[k][a] + cache.left[k] <= Ttl
    BY <2>1 DEF QuotaInv, ResponseFresh, ItemOf
  <2> HIDE DEF a, As
  <2>3. heard'[k][a] <= heard[k][a] + 1 /\ heard[k][a] \in Nat /\ heard'[k][a] \in Nat
    <3>1. heard[k] \in [As -> 0..Ttl] /\ heard'[k] \in [As -> 0..Ttl]
      BY <1>0, <1>3, <2>1
    <3>2. QED
      BY <1>3, <2>1, <3>1
  <2>4. cache'.left[k] > 0
    BY DEF Live
  <2>5. cache.left[k] \in Nat /\ cache'.left[k] = cache.left[k] - 1
    BY <1>0, <1>1, <2>1, <2>4 DEF CacheType
  <2>6. QED
    BY <2>1, <2>2, <2>3, <2>5
<1>8. TemporaryIsBacked'
  <2>1. Pending' = Pending
    BY <1>4 DEF Queued, Pending
  <2> SUFFICES ASSUME NEW k \in Live(cache)', cache'.item[k].answer = Temp
               PROVE  cache'.item[k].inFlight
                      /\ cache'.item[k].request \subseteq Pending
    BY <2>1 DEF TemporaryIsBacked, ItemOf
  <2>2. k \in Live(cache) /\ k \in Tracked(cache)
    BY <1>6
  <2>3. cache.item[k].inFlight /\ cache.item[k].request \subseteq Pending
    BY <1>2, <2>2 DEF QuotaInv, TemporaryIsBacked, ItemOf
  <2>4. QED
    BY <1>2, <2>2, <2>3
<1>9. Aggregated' = Aggregated /\ Requested' = Requested
  BY <1>1, <1>2 DEF Aggregated, Requested, ItemOf
<1>10. OwnKeys'
  BY <1>1, <1>2 DEF QuotaInv, OwnKeys, ItemOf
<1>11. Accounted'
  BY <1>4, <1>9 DEF QuotaInv, Accounted, Queued
<1>12. SentTogether'
  BY <1>4 DEF QuotaInv, SentTogether, OneSignature
<1>13. QED
  BY <1>5, <1>7, <1>8, <1>10, <1>11, <1>12 DEF QuotaInv

\* A new request that nothing is cached for.
LEMMA AllocateMissedInv ==
  ASSUME QuotaInv, NEW r \in Reqs \ seen, AllocateMissed(r),
         seen' = seen \cup {r}, UNCHANGED <<batch, handed, failed>>
  PROVE  QuotaInv'
<1> DEFINE k == SigOf[r]
<1>0. k \in Keys
  OBVIOUS
<1>1. CASE Caching
  <2> DEFINE v == NewItem({r}, Temp, TRUE)
  <2>1. v \in Items /\ v.answer = Temp /\ v.agg = {} /\ v.request = {r} /\ v.inFlight
    BY DEF NewItem, Items
  <2>2. /\ cache' = Store(cache, k, v) /\ heard' = [heard EXCEPT ![k][Temp] = 0]
        /\ out' = Append(out, {r}) /\ calls' = calls /\ denied' = denied
    BY <1>1 DEF AllocateMissed
  <2> HIDE DEF v, k
  <2>3. out \in Seq(SUBSET Reqs)
    BY DEF QuotaInv, TypeOK
  <2>4. out' \in Seq(SUBSET Reqs) /\ Queued(out)' = Queued(out) \cup {r}
    <3>1. Append(out, {r}) \in Seq(SUBSET Reqs) /\ Queued(Append(out, {r})) = Queued(out) \cup {r}
      BY <2>3, QueuedAppend
    <3>2. Queued(out)' = Queued(Append(out, {r}))
      BY <2>2 DEF Queued
    <3>3. QED
      BY <2>2, <3>1, <3>2
  <2>5. /\ cache' \in CacheType(Items) /\ Tracked(cache)' = cache'.stored
        /\ heard' \in [Keys -> [Answers \cup {Temp, Dummy} -> 0..Ttl]]
        /\ ResponseFresh' /\ TemporaryIsBacked' /\ OwnKeys'
        /\ Aggregated' \subseteq {x \in Aggregated : SigOf[x] # k} \cup v.agg
        /\ Requested' \subseteq Requested \cup v.request
    <3>1. Pending' = Pending \cup {r}
      BY <2>4 DEF Pending, Queued
    <3>2. \A x \in v.agg \cup v.request : SigOf[x] = k
      BY <2>1 DEF k
    <3>3. v.answer = Temp => v.inFlight /\ v.request \subseteq Pending'
      BY <2>1, <3>1
    <3>4. \A x \in Pending : x \in Pending' \/ SigOf[x] = k
      BY <3>1
    <3>5. TypeOK /\ ResponseFresh /\ TemporaryIsBacked /\ OwnKeys
      BY DEF QuotaInv
    <3>6. heard' = [heard EXCEPT ![k][v.answer] = 0]
      BY <2>1, <2>2
    <3>7. QED
      BY <1>0, <2>1, <2>2, <3>2, <3>3, <3>4, <3>5, <3>6, Stored
  <2>6. TypeOK'
    BY <2>2, <2>4, <2>5 DEF QuotaInv, TypeOK
  <2>7. Queued(batch)' = Queued(batch)
    BY DEF Queued
  <2>8. Accounted'
    <3>1. Aggregated' \subseteq Aggregated /\ Requested' \subseteq Requested \cup {r}
      BY <2>1, <2>5
    <3>2. r \notin Aggregated /\ r \notin denied
      BY DEF QuotaInv, Accounted
    <3>3. /\ Queued(out)' = Queued(out) \cup {r} /\ Queued(batch)' = Queued(batch)
          /\ handed' = handed /\ calls' = calls /\ denied' = denied /\ seen' = seen \cup {r}
      BY <2>2, <2>4, <2>7
    <3>4. /\ Aggregated' \cup Requested' \cup Queued(out)' \cup handed' \cup calls' \cup denied'
               \subseteq seen'
          /\ Queued(batch)' \subseteq handed'
      BY <3>1, <3>3 DEF QuotaInv, Accounted
    <3>5. denied' \cap (handed' \cup Aggregated' \cup Queued(out)' \cup calls' \cup Requested')
            = {}
      BY <3>1, <3>2, <3>3 DEF QuotaInv, Accounted
    <3>6. Aggregated' \cap (Queued(out)' \cup handed' \cup Requested') = {}
      BY <3>1, <3>2, <3>3 DEF QuotaInv, Accounted
    <3>7. QED
      BY <3>4, <3>5, <3>6 DEF Accounted
  <2>10. SentTogether'
    <3>1. OneSignature(Append(out, {r}))
      BY <2>3, OneSignatureAppend DEF QuotaInv, SentTogether
    <3>2. QED
      BY <1>1, <2>2, <3>1 DEF QuotaInv, SentTogether, OneSignature
  <2>9. QED
    BY <2>5, <2>6, <2>8, <2>10 DEF QuotaInv
<1>2. CASE ~Caching
  <2>1. UNCHANGED <<cache, out, heard, denied, batch, handed, failed>> /\ calls' = calls \cup {r}
    BY <1>2 DEF AllocateMissed
  <2>2. TypeOK'
    BY <2>1 DEF QuotaInv, TypeOK, Tracked
  <2>3. ResponseFresh' /\ TemporaryIsBacked' /\ OwnKeys'
    BY <2>1 DEF QuotaInv, ResponseFresh, TemporaryIsBacked, OwnKeys, ItemOf, Queued, Live, Tracked, Pending
  <2>4. /\ Aggregated' = Aggregated /\ Requested' = Requested
        /\ Queued(out)' = Queued(out) /\ Queued(batch)' = Queued(batch)
    BY <2>1 DEF Aggregated, Requested, ItemOf, Queued, Tracked
  <2>5. Accounted'
    BY <2>1, <2>4 DEF QuotaInv, Accounted, TypeOK
  <2>6. SentTogether'
    BY <2>1 DEF QuotaInv, SentTogether, OneSignature
  <2>7. QED
    BY <2>2, <2>3, <2>5, <2>6 DEF QuotaInv
<1>3. QED
  BY <1>1, <1>2

\* A new request that a response is cached for: what it replaces in the item, and
\* what it makes wait in the queue.
LEMMA CachedProperties ==
  ASSUME QuotaInv, NEW r \in Reqs \ seen, AllocateCached(r)
  PROVE  \E v \in Items, X \in SUBSET Reqs :
           /\ SigOf[r] \in Live(cache)
           /\ cache' = Change(cache, SigOf[r], v)
           /\ v.answer = cache.item[SigOf[r]].answer
           /\ v.request = cache.item[SigOf[r]].request
           /\ cache.item[SigOf[r]].inFlight => v.inFlight
           /\ v.agg \subseteq cache.item[SigOf[r]].agg \cup {r}
           /\ v.answer \in Errors => r \notin v.agg
           /\ X \subseteq Aggregated \cup Requested /\ v.agg \cap X = {}
           /\ \A x \in X : SigOf[x] = SigOf[r] \/ x \notin Aggregated
           /\ out' \in Seq(SUBSET Reqs) /\ Queued(out)' = Queued(out) \cup X
           /\ OneSignature(out)'
<1> DEFINE k == SigOf[r]
           i == cache.item[k]
           refresh == ~i.inFlight /\ ShouldRefresh(i)
           before == IF refresh THEN Flying(i) ELSE i
           v == Aggregate(before, r)
           X == IF refresh THEN Extracted(i) ELSE {}
<1>1. /\ cache \in CacheType(Items) /\ Tracked(cache) = cache.stored
      /\ out \in Seq(SUBSET Reqs)
  BY DEF QuotaInv, TypeOK
<1>2. /\ k \in Live(cache) /\ k \in Keys /\ i \in Items /\ k \in Tracked(cache)
  BY <1>1, LiveItem DEF AllocateCached
<1>3. /\ cache' = Change(cache, k, v)
      /\ out' = IF refresh THEN Append(out, Extracted(i)) ELSE out
  BY DEF AllocateCached, ItemOf
<1>4. i.agg \subseteq Aggregated /\ i.request \subseteq Requested
      /\ \A x \in i.agg \cup i.request : SigOf[x] = k
  BY <1>2 DEF Aggregated, Requested, ItemOf, QuotaInv, OwnKeys
<1>5. /\ i.agg \in SUBSET Reqs /\ i.request \in SUBSET Reqs
  BY <1>2 DEF Items
<1>6. r \notin Aggregated /\ r \notin Requested
  BY DEF QuotaInv, Accounted
<1>7. Requested \cap Aggregated = {}
  BY DEF QuotaInv, Accounted
<1> HIDE DEF k, i
<1>8. CASE refresh
  <2>1. before = Flying(i) /\ X = Extracted(i)
    BY <1>8
  <2>2. /\ before \in Items /\ before.answer = i.answer /\ before.inFlight
        /\ before.agg = {} /\ before.request = i.request
    <3>1. Flying(i) \in Items
      BY <1>2 DEF Flying, Items
    <3>2. /\ Flying(i).answer = i.answer /\ Flying(i).inFlight
          /\ Flying(i).agg = {} /\ Flying(i).request = i.request
      BY <1>2, FlyingIs
    <3> HIDE DEF before
    <3>3. QED
      BY <2>1, <3>1, <3>2
  <2>3. out' = Append(out, X)
    BY <1>3, <1>8
  <2> HIDE DEF before
  <2>4. /\ v \in Items /\ v.answer = i.answer /\ v.inFlight /\ v.request = i.request
        /\ i.answer \in Errors => v.agg = {}
        /\ i.answer \notin Errors => v.agg = {r}
    <3>1. v \in Items
      BY <2>2 DEF Aggregate, Items
    <3>2. /\ v.answer = before.answer /\ v.inFlight = before.inFlight
          /\ v.request = before.request
          /\ before.answer \in Errors => v.agg = before.agg
          /\ before.answer \notin Errors => v.agg = before.agg \cup {r}
      BY <2>2, AggregateIs
    <3> HIDE DEF v
    <3>3. QED
      BY <2>2, <3>1, <3>2
  <2>5. X = i.agg \/ X = i.request
    BY <2>1 DEF Extracted
  <2> HIDE DEF v, X, refresh
  <2>6. /\ X \in SUBSET Reqs /\ X \subseteq Aggregated \cup Requested
        /\ \A x \in X : SigOf[x] = k \/ x \notin Aggregated
    BY <1>4, <1>5, <1>7, <2>5
  <2>7. out' \in Seq(SUBSET Reqs) /\ Queued(out)' = Queued(out) \cup X /\ OneSignature(out)'
    <3>1. Queued(out)' = Queued(out') /\ (OneSignature(out') => OneSignature(out)')
      BY DEF Queued, OneSignature
    <3>2. \A x, y \in X : SigOf[x] = SigOf[y]
      BY <1>4, <2>5
    <3>3. OneSignature(out)
      BY DEF QuotaInv, SentTogether
    <3>4. OneSignature(Append(out, X))
      BY <1>1, <2>6, <3>2, <3>3, OneSignatureAppend
    <3>5. QED
      BY <1>1, <2>3, <2>6, <3>1, <3>4, QueuedAppend
  <2>8. v.agg \cap X = {} /\ v.agg \subseteq i.agg \cup {r} /\ (v.answer \in Errors => r \notin v.agg)
    BY <1>6, <2>4, <2>6
  <2>9. i.inFlight => v.inFlight
    BY <2>4
  <2>10. QED
    BY <1>2, <1>3, <2>4, <2>6, <2>7, <2>8, <2>9 DEF k, i
<1>9. CASE ~refresh
  <2>1. before = i /\ X = {}
    BY <1>9
  <2>2. out' = out
    BY <1>3, <1>9
  <2> HIDE DEF before
  <2>3. /\ v \in Items /\ v.answer = i.answer /\ v.inFlight = i.inFlight
        /\ v.request = i.request
        /\ i.answer \in Errors => v.agg = i.agg
        /\ i.answer \notin Errors => v.agg = i.agg \cup {r}
    <3>1. v = Aggregate(i, r)
      BY <2>1
    <3> HIDE DEF v
    <3>2. v \in Items
      BY <1>2, <3>1 DEF Aggregate, Items
    <3>3. /\ v.answer = i.answer /\ v.inFlight = i.inFlight
          /\ v.request = i.request
          /\ i.answer \in Errors => v.agg = i.agg
          /\ i.answer \notin Errors => v.agg = i.agg \cup {r}
      BY <1>2, <3>1, AggregateIs
    <3>4. QED
      BY <3>2, <3>3
  <2> HIDE DEF v, X, refresh
  <2>4. /\ X \in SUBSET Reqs /\ X \subseteq Aggregated \cup Requested
        /\ \A x \in X : SigOf[x] = k \/ x \notin Aggregated
        /\ v.agg \cap X = {} /\ v.agg \subseteq i.agg \cup {r}
    BY <2>1, <2>3
  <2>5. v.answer \in Errors => r \notin v.agg
    BY <1>4, <1>6, <2>3
  <2>6. out' \in Seq(SUBSET Reqs) /\ Queued(out)' = Queued(out) \cup X /\ OneSignature(out)'
    BY <1>1, <2>1, <2>2 DEF Queued, OneSignature, QuotaInv, SentTogether
  <2>7. i.inFlight => v.inFlight
    BY <2>3
  <2>8. QED
    BY <1>2, <1>3, <2>3, <2>4, <2>5, <2>6, <2>7 DEF k, i
<1>10. QED
  BY <1>8, <1>9

\* A new request that a response is cached for.
LEMMA AllocateCachedInv ==
  ASSUME QuotaInv, NEW r \in Reqs \ seen, AllocateCached(r),
         seen' = seen \cup {r}, UNCHANGED <<batch, handed, failed>>
  PROVE  QuotaInv'
<1> DEFINE k == SigOf[r]
<1>1. PICK v \in Items, X \in SUBSET Reqs :
        /\ k \in Live(cache)
        /\ cache' = Change(cache, k, v)
        /\ v.answer = cache.item[k].answer
        /\ v.request = cache.item[k].request
        /\ cache.item[k].inFlight => v.inFlight
        /\ v.agg \subseteq cache.item[k].agg \cup {r}
        /\ v.answer \in Errors => r \notin v.agg
        /\ X \subseteq Aggregated \cup Requested /\ v.agg \cap X = {}
        /\ \A x \in X : SigOf[x] = k \/ x \notin Aggregated
        /\ out' \in Seq(SUBSET Reqs) /\ Queued(out)' = Queued(out) \cup X
        /\ OneSignature(out)'
  BY CachedProperties
<1>2. /\ heard' = heard /\ batch' = batch /\ handed' = handed
      /\ denied' = IF v.answer \in Errors THEN denied \cup {r} ELSE denied
      /\ calls' \subseteq calls \cup {r} /\ (v.answer \in Errors => calls' = calls)
  <2>1. /\ heard' = heard /\ batch' = batch /\ handed' = handed
        /\ denied' = IF v.answer \in Errors THEN denied \cup {r} ELSE denied
        /\ calls' = IF v.answer = Dummy THEN calls \cup {r} ELSE calls
    BY <1>1 DEF AllocateCached, ItemOf, IsPositive
  <2>2. QED
    BY <2>1
<1>3. /\ cache \in CacheType(Items) /\ Tracked(cache) = cache.stored
      /\ TypeOK /\ ResponseFresh /\ TemporaryIsBacked /\ OwnKeys
  BY DEF QuotaInv, TypeOK
<1>4. k \in Tracked(cache)
  BY <1>1, <1>3, LiveItem
<1>5. /\ cache.item[k].agg \subseteq Aggregated
      /\ \A x \in cache.item[k].agg : SigOf[x] = k
  BY <1>3, <1>4 DEF Aggregated, ItemOf, OwnKeys
<1>6. \A x \in v.agg : SigOf[x] = k
  BY <1>1, <1>5
<1>7. Pending \subseteq Pending'
  BY <1>1, <1>2 DEF Pending, Queued
<1>12. SentTogether'
  <2>1. OneSignature(batch)' /\ (~Caching => batch' = <<>>)
    BY <1>2 DEF QuotaInv, SentTogether, OneSignature
  <2>2. QED
    BY <1>1, <2>1 DEF SentTogether
<1> HIDE DEF k
<1>8. /\ cache' \in CacheType(Items) /\ Tracked(cache)' = cache'.stored
      /\ ResponseFresh' /\ TemporaryIsBacked' /\ OwnKeys'
      /\ Aggregated' \subseteq {x \in Aggregated : SigOf[x] # k} \cup v.agg
      /\ Requested' \subseteq Requested
  BY <1>1, <1>2, <1>3, <1>6, <1>7, Replaced
<1>9. TypeOK'
  <2>1. calls' \subseteq seen' /\ denied' \subseteq seen' /\ handed' \subseteq seen'
        /\ seen' \subseteq Reqs /\ failed' \subseteq handed'
    BY <1>2 DEF QuotaInv, TypeOK
  <2>2. QED
    BY <1>1, <1>2, <1>8, <2>1 DEF QuotaInv, TypeOK
<1>10. Accounted'
  <2>1. /\ Aggregated' \subseteq Aggregated \cup {r}
        /\ v.answer \in Errors => Aggregated' \subseteq Aggregated
        /\ Aggregated' \cap X = {}
    <3>1. Aggregated' \subseteq Aggregated \cup {r}
      BY <1>1, <1>5, <1>8
    <3>2. v.answer \in Errors => Aggregated' \subseteq Aggregated
      BY <1>1, <1>5, <1>8
    <3>3. Aggregated' \cap X = {}
      BY <1>1, <1>8
    <3>4. QED
      BY <3>1, <3>2, <3>3
  <2>2. r \notin Aggregated \cup Requested \cup Queued(out) \cup handed \cup calls \cup denied
    BY DEF QuotaInv, Accounted
  <2>3. Queued(batch)' = Queued(batch)
    BY <1>2 DEF Queued
  <2>4. /\ Aggregated' \cup Requested' \cup Queued(out)' \cup handed' \cup calls' \cup denied'
             \subseteq seen'
        /\ Queued(batch)' \subseteq handed'
    BY <1>1, <1>2, <1>8, <2>1, <2>3 DEF QuotaInv, Accounted
  <2>5. denied' \cap (handed' \cup Aggregated' \cup Queued(out)' \cup calls' \cup Requested') = {}
    <3>1. CASE v.answer \in Errors
      BY <1>1, <1>2, <1>8, <2>1, <2>2, <3>1 DEF QuotaInv, Accounted
    <3>2. CASE v.answer \notin Errors
      BY <1>1, <1>2, <1>8, <2>1, <2>2, <3>2 DEF QuotaInv, Accounted
    <3>3. QED
      BY <3>1, <3>2
  <2>6. Aggregated' \cap (Queued(out)' \cup handed' \cup Requested') = {}
    BY <1>1, <1>2, <1>8, <2>1, <2>2 DEF QuotaInv, Accounted
  <2>7. QED
    BY <2>4, <2>5, <2>6 DEF Accounted
<1>11. QED
  BY <1>8, <1>9, <1>10, <1>12 DEF QuotaInv

\* An answer is cached: nothing more is aggregated, and if an item is new, nothing
\* is aggregated under its signature.
LEMMA Answered ==
  ASSUME QuotaInv, NEW k \in Keys, NEW q \in SUBSET Reqs, NEW a \in Answers \cup {Dummy},
         AddResponse(k, q, a), \A x \in q : SigOf[x] = k,
         Caching \/ Pending \subseteq Pending',
         \A x \in Pending : x \in Pending' \/ SigOf[x] = k
  PROVE  /\ cache' \in CacheType(Items) /\ Tracked(cache)' = cache'.stored
         /\ heard' \in [Keys -> [Answers \cup {Temp, Dummy} -> 0..Ttl]]
         /\ ResponseFresh' /\ TemporaryIsBacked' /\ OwnKeys'
         /\ Aggregated' \subseteq Aggregated
         /\ \/ Requested' \subseteq Requested
            \/ Requested' \subseteq Requested \cup q /\ \A x \in Aggregated' : SigOf[x] # k
<1>1. /\ cache \in CacheType(Items) /\ Tracked(cache) = cache.stored
      /\ heard \in [Keys -> [Answers \cup {Temp, Dummy} -> 0..Ttl]]
      /\ TypeOK /\ ResponseFresh /\ TemporaryIsBacked /\ OwnKeys
  BY DEF QuotaInv, TypeOK
<1>2. heard' = [heard EXCEPT ![k][a] = 0]
  BY DEF AddResponse
<1>4. CASE ~Caching /\ cache' = cache
  <2>1. /\ heard' \in [Keys -> [Answers \cup {Temp, Dummy} -> 0..Ttl]]
        /\ \A j \in Keys, b \in Answers \cup {Temp, Dummy} : heard'[j][b] <= heard[j][b]
    BY <1>1, <1>2, HeardProperties
  <2>2. ResponseFresh'
    <3> SUFFICES ASSUME NEW j \in Live(cache)
                 PROVE  heard'[j][cache.item[j].answer] + cache.left[j] <= Ttl
      BY <1>4 DEF ResponseFresh, ItemOf, Live
    <3> DEFINE b == cache.item[j].answer
    <3>1. j \in Keys /\ b \in Answers \cup {Temp, Dummy}
      BY <1>1, LiveItem DEF Items
    <3>2. heard[j][b] + cache.left[j] <= Ttl
      BY <1>1 DEF ResponseFresh, ItemOf
    <3> HIDE DEF b
    <3>3. heard[j] \in [Answers \cup {Temp, Dummy} -> 0..Ttl]
          /\ heard'[j] \in [Answers \cup {Temp, Dummy} -> 0..Ttl]
      BY <1>1, <2>1, <3>1
    <3>4. heard'[j][b] <= heard[j][b] /\ heard[j][b] \in Nat /\ heard'[j][b] \in Nat
      BY <2>1, <3>1, <3>3
    <3>5. cache.left[j] \in Nat
      BY <1>1, <3>1 DEF CacheType
    <3>6. heard'[j][b] + cache.left[j] <= Ttl
      BY <3>2, <3>4, <3>5
    <3>7. QED
      BY <3>6 DEF b
  <2>3. TemporaryIsBacked' /\ OwnKeys'
    BY <1>1, <1>4 DEF TemporaryIsBacked, OwnKeys, ItemOf, Live, Tracked
  <2>4. Aggregated' = Aggregated /\ Requested' = Requested
    BY <1>4 DEF Aggregated, Requested, ItemOf, Tracked
  <2>5. Tracked(cache)' = cache'.stored
    BY <1>1, <1>4 DEF Tracked
  <2>6. QED
    BY <1>1, <1>4, <2>1, <2>2, <2>3, <2>4, <2>5
<1>5. CASE \E v \in Items : cache' = Store(cache, k, v) /\ HasAnswered(v, k, q, a)
  <2>0. PICK v \in Items : cache' = Store(cache, k, v) /\ HasAnswered(v, k, q, a)
    BY <1>5
  <2>1. /\ cache' = Store(cache, k, v)
        /\ v.answer = a
        /\ k \in Live(cache) => v.agg = cache.item[k].agg /\ v.request = cache.item[k].request
        /\ k \notin Live(cache) => v.agg = {} /\ v.request = q
    BY <2>0 DEF HasAnswered
  <2>2. k \in Live(cache) =>
          /\ cache.item[k].agg \subseteq Aggregated /\ cache.item[k].request \subseteq Requested
          /\ \A x \in cache.item[k].agg \cup cache.item[k].request : SigOf[x] = k
    BY <1>1, LiveItem DEF Aggregated, Requested, ItemOf, OwnKeys
  <2>3. v.answer # Temp
    BY <2>1
  <2>4. \A x \in v.agg \cup v.request : SigOf[x] = k
    BY <2>1, <2>2
  <2>5. /\ cache' \in CacheType(Items) /\ Tracked(cache)' = cache'.stored
        /\ heard' \in [Keys -> [Answers \cup {Temp, Dummy} -> 0..Ttl]]
        /\ ResponseFresh' /\ TemporaryIsBacked' /\ OwnKeys'
        /\ Aggregated' \subseteq {r \in Aggregated : SigOf[r] # k} \cup v.agg
        /\ Requested' \subseteq Requested \cup v.request
    BY <1>1, <1>2, <2>1, <2>3, <2>4, Stored
  <2>6. CASE k \in Live(cache)
    <3>1. v.agg \subseteq Aggregated /\ v.request \subseteq Requested
      BY <2>1, <2>2, <2>6
    <3>2. QED
      BY <2>5, <3>1
  <2>7. CASE k \notin Live(cache)
    <3>1. v.agg = {} /\ v.request = q
      BY <2>1, <2>7
    <3>2. QED
      BY <2>5, <3>1
  <2>8. QED
    BY <2>6, <2>7
<1>6. QED
  BY <1>1, <1>4, <1>5, ResponseProperties

\* An application thread has its answer, or its call has failed.
LEMMA CallEndsInv ==
  ASSUME QuotaInv, CallEnds
  PROVE  QuotaInv'
<1>1. PICK r \in calls :
        /\ \/ \E a \in Answers \cup {Dummy} : AddResponse(SigOf[r], {r}, a)
           \/ UNCHANGED <<cache, heard>>
        /\ calls' = calls \ {r}
        /\ UNCHANGED <<out, batch, seen, denied, handed, failed>>
  BY DEF CallEnds
<1>2. /\ calls' = calls \ {r} /\ out' = out /\ batch' = batch /\ seen' = seen
      /\ denied' = denied /\ handed' = handed /\ failed' = failed
  BY <1>1
<1>8. Pending' = Pending /\ SentTogether'
  BY <1>2 DEF Pending, Queued, QuotaInv, SentTogether, OneSignature
<1>3. Queued(out)' = Queued(out) /\ Queued(batch)' = Queued(batch)
  BY <1>2 DEF Queued
<1>4. r \in Reqs /\ {r} \in SUBSET Reqs /\ SigOf[r] \in Keys
  BY DEF QuotaInv, TypeOK
<1>5. CASE \E a \in Answers \cup {Dummy} : AddResponse(SigOf[r], {r}, a)
  <2>1. PICK a \in Answers \cup {Dummy} : AddResponse(SigOf[r], {r}, a)
    BY <1>5
  <2>2. /\ cache' \in CacheType(Items) /\ Tracked(cache)' = cache'.stored
        /\ heard' \in [Keys -> [Answers \cup {Temp, Dummy} -> 0..Ttl]]
        /\ ResponseFresh' /\ TemporaryIsBacked' /\ OwnKeys'
        /\ Aggregated' \subseteq Aggregated
        /\ \/ Requested' \subseteq Requested
           \/ Requested' \subseteq Requested \cup {r}
              /\ \A x \in Aggregated' : SigOf[x] # SigOf[r]
    BY <1>2, <1>4, <1>8, <2>1, Answered
  <2>3. TypeOK'
    BY <1>2, <2>2 DEF QuotaInv, TypeOK
  <2>4. /\ Aggregated' \cup Requested' \cup Queued(out)' \cup handed' \cup calls' \cup denied'
             \subseteq seen'
        /\ Queued(batch)' \subseteq handed'
    BY <1>2, <1>3, <2>2 DEF QuotaInv, Accounted
  <2>5. denied' \cap (handed' \cup Aggregated' \cup Queued(out)' \cup calls' \cup Requested') = {}
    BY <1>2, <1>3, <2>2 DEF QuotaInv, Accounted
  <2>6. Aggregated' \cap (Queued(out)' \cup handed' \cup Requested') = {}
    BY <1>2, <1>3, <2>2 DEF QuotaInv, Accounted
  <2>7. QED
    BY <1>8, <2>2, <2>3, <2>4, <2>5, <2>6 DEF QuotaInv, Accounted
<1>6. CASE UNCHANGED <<cache, heard>>
  <2>1. cache' = cache /\ heard' = heard
    BY <1>6
  <2>2. TypeOK'
    BY <1>2, <2>1 DEF QuotaInv, TypeOK, Tracked
  <2>3. ResponseFresh' /\ TemporaryIsBacked' /\ OwnKeys'
    BY <1>2, <2>1 DEF QuotaInv, ResponseFresh, TemporaryIsBacked, OwnKeys, ItemOf, Queued,
                      Live, Tracked, Pending
  <2>4. Aggregated' = Aggregated /\ Requested' = Requested
    BY <2>1 DEF Aggregated, Requested, ItemOf, Tracked
  <2>5. Accounted'
    BY <1>2, <1>3, <2>4 DEF QuotaInv, Accounted
  <2>6. QED
    BY <1>8, <2>2, <2>3, <2>5 DEF QuotaInv
<1>7. QED
  BY <1>1, <1>5, <1>6

\* The scheduler thread has the answer to what it sent.
LEMMA FlushAnsweredInv ==
  ASSUME QuotaInv, FlushAnswered
  PROVE  QuotaInv'
<1>0. PICK n \in DOMAIN batch :
        /\ \E a \in Answers, r \in batch[n] : AddResponse(SigOf[r], batch[n], a)
        /\ batch' = RemoveAt(batch, n)
  BY DEF FlushAnswered
<1> DEFINE q == batch[n]
<1>1. PICK a \in Answers, r \in q : AddResponse(SigOf[r], q, a)
  BY <1>0
<1>2. /\ batch' = RemoveAt(batch, n) /\ out' = out /\ calls' = calls /\ seen' = seen
      /\ denied' = denied /\ handed' = handed /\ failed' = failed /\ batch # <<>>
  BY <1>0, EmptySeq DEF FlushAnswered
<1>3. batch \in Seq(SUBSET Reqs)
  BY DEF QuotaInv, TypeOK
<1>4. /\ batch' \in Seq(SUBSET Reqs) /\ q \in SUBSET Reqs
      /\ Queued(batch)' \subseteq Queued(batch) /\ q \subseteq Queued(batch)
      /\ Queued(batch) \subseteq Queued(batch)' \cup q
  <2>1. Queued(batch)' = Queued(RemoveAt(batch, n))
    BY <1>2 DEF Queued
  <2>2. QED
    BY <1>2, <1>3, <2>1, QueuedRemove
<1>12. SentTogether' /\ Caching /\ \A x, y \in q : SigOf[x] = SigOf[y]
  <2>1. OneSignature(out) /\ OneSignature(batch) /\ (~Caching => batch = <<>>)
    BY DEF QuotaInv, SentTogether
  <2>2. Caching
    BY <1>2, <2>1
  <2>3. OneSignature(RemoveAt(batch, n)) /\ \A x, y \in batch[n] : SigOf[x] = SigOf[y]
    BY <1>2, <1>3, <2>1, OneSignatureRemove
  <2>4. OneSignature(out)' /\ OneSignature(batch)'
    BY <1>2, <2>1, <2>3 DEF OneSignature
  <2>5. QED
    BY <2>2, <2>3, <2>4 DEF SentTogether
<1> HIDE DEF q
<1>13. \A x \in Pending : x \in Pending' \/ SigOf[x] = SigOf[r]
  <2>1. \A x \in Pending : x \in Pending' \/ x \in q
    BY <1>2, <1>4 DEF Pending, Queued
  <2>2. QED
    BY <1>1, <1>12, <2>1
<1>5. /\ cache' \in CacheType(Items) /\ Tracked(cache)' = cache'.stored
      /\ heard' \in [Keys -> [Answers \cup {Temp, Dummy} -> 0..Ttl]]
      /\ ResponseFresh' /\ TemporaryIsBacked' /\ OwnKeys'
      /\ Aggregated' \subseteq Aggregated /\ Requested' \subseteq Requested \cup q
  <2>1. SigOf[r] \in Keys
    BY <1>4
  <2>2. /\ cache' \in CacheType(Items) /\ Tracked(cache)' = cache'.stored
        /\ heard' \in [Keys -> [Answers \cup {Temp, Dummy} -> 0..Ttl]]
        /\ ResponseFresh' /\ TemporaryIsBacked' /\ OwnKeys'
        /\ Aggregated' \subseteq Aggregated
        /\ \/ Requested' \subseteq Requested
           \/ Requested' \subseteq Requested \cup q /\ \A x \in Aggregated' : SigOf[x] # SigOf[r]
    <3>1. \A x \in q : SigOf[x] = SigOf[r]
      BY <1>1, <1>12
    <3>2. a \in Answers \cup {Dummy} /\ AddResponse(SigOf[r], q, a) /\ q \in SUBSET Reqs
      BY <1>1, <1>4
    <3>3. QED
      BY <1>12, <1>13, <2>1, <3>1, <3>2, Answered
  <2>3. QED
    BY <2>2
<1>6. TypeOK'
  BY <1>2, <1>4, <1>5 DEF QuotaInv, TypeOK
<1>7. q \subseteq handed /\ Queued(out)' = Queued(out)
  BY <1>2, <1>4 DEF QuotaInv, Accounted, Queued
<1>8. /\ Aggregated' \cup Requested' \cup Queued(out)' \cup handed' \cup calls' \cup denied'
           \subseteq seen'
      /\ Queued(batch)' \subseteq handed'
  BY <1>2, <1>4, <1>5, <1>7 DEF QuotaInv, Accounted
<1>9. denied' \cap (handed' \cup Aggregated' \cup Queued(out)' \cup calls' \cup Requested') = {}
  BY <1>2, <1>5, <1>7 DEF QuotaInv, Accounted
<1>10. Aggregated' \cap (Queued(out)' \cup handed' \cup Requested') = {}
  BY <1>2, <1>5, <1>7 DEF QuotaInv, Accounted
<1>11. QED
  BY <1>5, <1>6, <1>8, <1>9, <1>10, <1>12 DEF QuotaInv, Accounted

\* What the scheduler thread sent failed.
LEMMA FlushFailsInv ==
  ASSUME QuotaInv, FlushFails
  PROVE  QuotaInv'
<1>0. PICK n \in DOMAIN batch :
        batch' = RemoveAt(batch, n) /\ failed' = failed \cup batch[n]
  BY DEF FlushFails
<1>1. /\ batch # <<>> /\ batch' = RemoveAt(batch, n) /\ cache' = cache /\ out' = out
      /\ calls' = calls /\ seen' = seen /\ denied' = denied /\ handed' = handed
      /\ heard' = heard /\ failed' = failed \cup batch[n]
  BY <1>0, EmptySeq DEF FlushFails
<1>2. batch \in Seq(SUBSET Reqs)
  BY DEF QuotaInv, TypeOK
<1>3. /\ batch' \in Seq(SUBSET Reqs) /\ Queued(batch)' \subseteq Queued(batch)
      /\ batch[n] \subseteq Queued(batch)
      /\ Queued(batch) \subseteq Queued(batch)' \cup batch[n]
  <2>1. Queued(batch)' = Queued(RemoveAt(batch, n))
    BY <1>1 DEF Queued
  <2>2. QED
    BY <1>1, <1>2, <2>1, QueuedRemove
<1>4. TypeOK'
  <2>1. failed' \subseteq handed'
    BY <1>1, <1>3 DEF QuotaInv, TypeOK, Accounted
  <2>2. QED
    BY <1>1, <1>3, <2>1 DEF QuotaInv, TypeOK, Tracked
<1>9. Pending \subseteq Pending'
  BY <1>1, <1>3 DEF Pending, Queued
<1>5. ResponseFresh' /\ TemporaryIsBacked' /\ OwnKeys'
  <2>1. ResponseFresh' /\ OwnKeys'
    BY <1>1 DEF QuotaInv, ResponseFresh, OwnKeys, ItemOf, Live, Tracked
  <2>2. TemporaryIsBacked'
    BY <1>1, <1>9 DEF QuotaInv, TemporaryIsBacked, ItemOf, Live
  <2>3. QED
    BY <2>1, <2>2
<1>10. SentTogether'
  <2>1. OneSignature(out) /\ OneSignature(batch) /\ (~Caching => batch = <<>>)
    BY DEF QuotaInv, SentTogether
  <2>2. OneSignature(RemoveAt(batch, n)) /\ Caching
    BY <1>1, <1>2, <2>1, OneSignatureRemove
  <2>3. OneSignature(out)' /\ OneSignature(batch)'
    BY <1>1, <2>1, <2>2 DEF OneSignature
  <2>4. QED
    BY <2>2, <2>3 DEF SentTogether
<1>6. /\ Aggregated' = Aggregated /\ Requested' = Requested /\ Queued(out)' = Queued(out)
  BY <1>1 DEF Aggregated, Requested, ItemOf, Tracked, Queued
<1>7. Accounted'
  BY <1>1, <1>3, <1>6 DEF QuotaInv, Accounted
<1>8. QED
  BY <1>4, <1>5, <1>7, <1>10 DEF QuotaInv

\* The items whose aggregated requests a flush() takes out.
Ready ==
  {k \in Live(cache) : /\ ~ShouldExpire(cache.item[k]) /\ ~cache.item[k].inFlight
                       /\ cache.item[k].agg # {}}

\* flush(): live items stay, those taken out are in flight with nothing aggregated.
LEMMA FlushCache ==
  ASSUME cache \in CacheType(Items), Tracked(cache) = cache.stored, Flush
  PROVE  /\ cache' \in CacheType(Items)
         /\ Tracked(cache)' = Live(cache) /\ cache'.stored = Live(cache)
         /\ cache'.left = cache.left /\ Live(cache)' = Live(cache)
         /\ \A k \in Live(cache) : cache'.item[k] = IF k \in Ready THEN Flying(cache.item[k])
                                                    ELSE cache.item[k]
<1> DEFINE e == Plain(Expire(cache))
           ready == {k \in e.stored : ~ShouldExpire(e.item[k]) /\ ~e.item[k].inFlight
                                        /\ e.item[k].agg # {}}
           items == [k \in Keys |-> IF k \in ready THEN Flying(e.item[k]) ELSE e.item[k]]
<1>1. /\ e \in CacheType(Items)
      /\ Tracked(e) = Live(cache) /\ e.stored = Live(cache) /\ e.left = cache.left
      /\ \A k \in Live(cache) : e.item[k] = cache.item[k] /\ e.item[k] \in Items
  BY ExpiredProperties
<1>2. cache' = [e EXCEPT !.lru = e.born, !.item = items]
  BY DEF Flush
<1> HIDE DEF e
<1>3. ready = Ready
  BY <1>1 DEF Ready
<1> HIDE DEF ready
<1>4. \A i \in Items : Flying(i) \in Items
  BY DEF Flying, Items
<1>5. Live(cache) \subseteq Keys /\ Ready \subseteq Live(cache)
  BY DEF Live, CacheType, Ready
<1>6. e.item \in [Keys -> Items \cup {NoItem}] /\ e.born \in SUBSET (Keys \X Keys)
  BY <1>1 DEF CacheType
<1>7. items \in [Keys -> Items \cup {NoItem}]
  BY <1>1, <1>3, <1>4, <1>5, <1>6
<1>8. \A k \in Keys : items[k] = IF k \in ready THEN Flying(e.item[k]) ELSE e.item[k]
  OBVIOUS
<1> HIDE DEF items
<1>9. /\ cache' \in CacheType(Items) /\ cache'.item = items
      /\ cache'.stored = e.stored /\ cache'.left = e.left
  BY <1>1, <1>2, <1>6, <1>7 DEF CacheType
<1>10. \A k \in Live(cache) : cache'.item[k] = IF k \in Ready THEN Flying(cache.item[k])
                                               ELSE cache.item[k]
  BY <1>1, <1>3, <1>5, <1>8, <1>9
<1>11. Tracked(cache)' = Live(cache)
  <2>1. \A k \in Keys : items[k] # NoItem <=> e.item[k] # NoItem
    BY <1>1, <1>3, <1>4, <1>5, <1>8
  <2>2. Tracked(cache)' = Tracked(e)
    BY <1>9, <2>1 DEF Tracked
  <2>3. QED
    BY <1>1, <2>2
<1>12. Live(cache)' = Live(cache)
  BY <1>1, <1>9 DEF Live
<1>13. QED
  BY <1>1, <1>9, <1>10, <1>11, <1>12

\* flush(): it returns what was queued and what the items taken out had aggregated.
LEMMA FlushQueue ==
  ASSUME QuotaInv, Flush
  PROVE  /\ batch' \in Seq(SUBSET Reqs) /\ Queued(out) \cup Queued(batch) \subseteq Queued(batch)'
         /\ OneSignature(batch)'
         /\ \A x \in Queued(batch)' : \/ x \in Queued(out) \cup Queued(batch)
                                      \/ \E k \in Ready : x \in cache.item[k].agg
<1> DEFINE e == Plain(Expire(cache))
           ready == {k \in e.stored : ~ShouldExpire(e.item[k]) /\ ~e.item[k].inFlight
                                        /\ e.item[k].agg # {}}
<1>1. cache \in CacheType(Items) /\ Tracked(cache) = cache.stored /\ out \in Seq(SUBSET Reqs)
      /\ batch \in Seq(SUBSET Reqs)
  BY DEF QuotaInv, TypeOK
<1>2. /\ e.stored = Live(cache)
      /\ \A k \in Live(cache) : e.item[k] = cache.item[k] /\ e.item[k] \in Items
  BY <1>1, ExpiredProperties
<1>3. PICK order \in InOrder(ready, e.born) : batch' = batch \o out \o Taken(order, e.item)
  BY DEF Flush, Taken
<1> HIDE DEF e
<1>4. ready = Ready
  BY <1>2 DEF Ready
<1> HIDE DEF ready
<1>5. Ready \subseteq Live(cache) /\ Ready \subseteq Keys
  BY <1>1 DEF Ready, Live, CacheType
<1>6. \A k \in ready : e.item[k].agg \in SUBSET Reqs
  BY <1>2, <1>4, <1>5 DEF Items
<1> DEFINE s == Taken(order, e.item)
<1>7. s \in Seq(SUBSET Reqs) /\ \A x \in Queued(s) : \E k \in ready : x \in e.item[k].agg
  <2>1. ready \in SUBSET Keys
    BY <1>4, <1>5
  <2>2. QED
    BY <1>6, <2>1, QueuedInOrder
<1>8. batch' = batch \o out \o s
  BY <1>3
<1>13. OneSignature(s)
  <2>1. \A k \in ready : \A x \in e.item[k].agg : SigOf[x] = k
    <3>1. Live(cache) \subseteq Tracked(cache)
      BY <1>1, LiveItem
    <3>2. QED
      BY <1>2, <1>4, <1>5, <3>1 DEF QuotaInv, OwnKeys, ItemOf
  <2>2. ready \in SUBSET Keys
    BY <1>4, <1>5
  <2>3. QED
    BY <2>1, <2>2, OneSignatureTaken
<1> HIDE DEF s
<1>14. OneSignature(batch)'
  <2>1. batch \o out \in Seq(SUBSET Reqs) /\ OneSignature(batch \o out)
    BY <1>1, QueuedConcat, OneSignatureConcat DEF QuotaInv, SentTogether
  <2>3. OneSignature(batch \o out \o s)
    BY <1>7, <1>13, <2>1, OneSignatureConcat
  <2>2. QED
    BY <1>8, <2>3 DEF OneSignature
<1>9. /\ batch \o out \o s \in Seq(SUBSET Reqs)
      /\ Queued(batch \o out \o s) = Queued(batch) \cup Queued(out) \cup Queued(s)
  <2>1. /\ batch \o out \in Seq(SUBSET Reqs)
        /\ Queued(batch \o out) = Queued(batch) \cup Queued(out)
    BY <1>1, QueuedConcat
  <2> DEFINE u == batch \o out
  <2> HIDE DEF u
  <2>2. u \in Seq(SUBSET Reqs) /\ s \in Seq(SUBSET Reqs)
    BY <1>7, <2>1 DEF u
  <2>3. u \o s \in Seq(SUBSET Reqs) /\ Queued(u \o s) = Queued(u) \cup Queued(s)
    BY <2>2, QueuedConcat
  <2>4. QED
    BY <2>1, <2>3 DEF u
<1>10. Queued(batch)' = Queued(batch \o out \o s)
  BY <1>8 DEF Queued
<1>11. \A x \in Queued(s) : \E k \in Ready : x \in cache.item[k].agg
  BY <1>2, <1>4, <1>5, <1>7
<1>12. QED
  BY <1>8, <1>9, <1>10, <1>11, <1>14

LEMMA FlushInv ==
  ASSUME QuotaInv, Flush
  PROVE  QuotaInv'
<1>1. /\ cache \in CacheType(Items) /\ Tracked(cache) = cache.stored
  BY DEF QuotaInv, TypeOK
<1>2. /\ cache' \in CacheType(Items)
      /\ Tracked(cache)' = Live(cache) /\ cache'.stored = Live(cache)
      /\ cache'.left = cache.left /\ Live(cache)' = Live(cache)
      /\ \A k \in Live(cache) : cache'.item[k] = IF k \in Ready THEN Flying(cache.item[k])
                                                 ELSE cache.item[k]
  BY <1>1, FlushCache
<1>3. /\ batch' \in Seq(SUBSET Reqs) /\ Queued(out) \cup Queued(batch) \subseteq Queued(batch)'
      /\ OneSignature(batch)'
      /\ \A x \in Queued(batch)' : \/ x \in Queued(out) \cup Queued(batch)
                                   \/ \E k \in Ready : x \in cache.item[k].agg
  BY FlushQueue
<1>4. /\ out' = <<>> /\ calls' = calls /\ seen' = seen /\ denied' = denied /\ heard' = heard
      /\ handed' = handed \cup Queued(batch)' /\ failed' = failed
      /\ Caching
  BY DEF Flush, Queued
<1>5. /\ Live(cache) \subseteq Tracked(cache) /\ Ready \subseteq Live(cache)
      /\ \A k \in Live(cache) : cache.item[k] \in Items
  BY <1>1, LiveItem DEF Ready
<1>6. \A k \in Live(cache) :
        /\ cache'.item[k].answer = cache.item[k].answer
        /\ cache'.item[k].request = cache.item[k].request
        /\ cache.item[k].inFlight => cache'.item[k].inFlight
        /\ k \in Ready => cache'.item[k].agg = {}
        /\ k \notin Ready => cache'.item[k].agg = cache.item[k].agg
  <2> SUFFICES ASSUME NEW k \in Live(cache)
               PROVE  /\ cache'.item[k].answer = cache.item[k].answer
                      /\ cache'.item[k].request = cache.item[k].request
                      /\ cache.item[k].inFlight => cache'.item[k].inFlight
                      /\ k \in Ready => cache'.item[k].agg = {}
                      /\ k \notin Ready => cache'.item[k].agg = cache.item[k].agg
    OBVIOUS
  <2>1. CASE k \in Ready
    <3>1. cache'.item[k] = Flying(cache.item[k]) /\ cache.item[k] \in Items
      BY <1>2, <1>5, <2>1
    <3>2. QED
      BY <2>1, <3>1, FlyingIs
  <2>2. CASE k \notin Ready
    <3>1. cache'.item[k] = cache.item[k]
      BY <1>2, <2>2
    <3>2. QED
      BY <2>2, <3>1
  <2>3. QED
    BY <2>1, <2>2
<1>7. Queued(out)' = {}
  BY <1>4, QueuedNone DEF Queued
<1>8. Queued(batch)' \subseteq Queued(out) \cup Queued(batch) \cup Aggregated
  BY <1>3, <1>5 DEF Aggregated, ItemOf
<1>9. TypeOK'
  <2>1. out' \in Seq(SUBSET Reqs)
    BY <1>4, EmptySeq
  <2>2. handed' \subseteq seen'
    BY <1>4, <1>8 DEF QuotaInv, Accounted
  <2>4. failed' \subseteq handed'
    BY <1>4 DEF QuotaInv, TypeOK
  <2>3. QED
    BY <1>2, <1>3, <1>4, <2>1, <2>2, <2>4 DEF QuotaInv, TypeOK
<1>10. ResponseFresh'
  BY <1>2, <1>4, <1>6 DEF QuotaInv, ResponseFresh, ItemOf
<1>11. TemporaryIsBacked'
  <2> SUFFICES ASSUME NEW k \in Live(cache), cache'.item[k].answer = Temp
               PROVE  cache'.item[k].inFlight /\ cache'.item[k].request \subseteq Pending'
    BY <1>2 DEF TemporaryIsBacked, ItemOf
  <2>1. cache.item[k].inFlight /\ cache.item[k].request \subseteq Pending
    BY <1>6 DEF QuotaInv, TemporaryIsBacked, ItemOf
  <2>2. Pending \subseteq Pending'
    BY <1>3, <1>4 DEF Pending
  <2>3. QED
    BY <1>6, <2>1, <2>2
<1>12. \A x \in Aggregated' : \E k \in Live(cache) : k \notin Ready /\ x \in cache.item[k].agg
  <2> SUFFICES ASSUME NEW x \in Aggregated'
               PROVE  \E k \in Live(cache) : k \notin Ready /\ x \in cache.item[k].agg
    OBVIOUS
  <2>1. PICK k \in Live(cache) : x \in cache'.item[k].agg
    BY <1>2 DEF Aggregated, ItemOf
  <2>2. QED
    BY <1>6, <2>1
<1>13. OwnKeys'
  <2> SUFFICES ASSUME NEW k \in Live(cache),
                      NEW x \in cache'.item[k].agg \cup cache'.item[k].request
               PROVE  SigOf[x] = k
    BY <1>2 DEF OwnKeys, ItemOf
  <2>1. x \in cache.item[k].agg \cup cache.item[k].request
    BY <1>6
  <2>2. QED
    BY <1>5, <2>1 DEF QuotaInv, OwnKeys, ItemOf
<1>14. \A k \in Live(cache) : \A x \in cache.item[k].agg : SigOf[x] = k /\ x \in Aggregated
  BY <1>5 DEF QuotaInv, OwnKeys, Aggregated, ItemOf
<1>15. Aggregated' \subseteq Aggregated /\ Aggregated' \cap Queued(batch)' = {}
  <2>1. Aggregated' \subseteq Aggregated
    BY <1>12, <1>14
  <2>2. ASSUME NEW x \in Aggregated', x \in Queued(batch)' PROVE FALSE
    <3>1. PICK k \in Live(cache) : k \notin Ready /\ x \in cache.item[k].agg
      BY <1>12
    <3>2. x \notin Queued(out) \cup Queued(batch)
      BY <2>1 DEF QuotaInv, Accounted
    <3>3. PICK j \in Ready : x \in cache.item[j].agg
      BY <1>3, <2>2, <3>2
    <3>4. SigOf[x] = k /\ SigOf[x] = j
      BY <1>5, <1>14, <3>1, <3>3
    <3>5. QED
      BY <3>1, <3>3, <3>4
  <2>3. QED
    BY <2>1, <2>2
<1>16. Requested' \subseteq Requested
  BY <1>2, <1>5, <1>6 DEF Requested, ItemOf
<1>17. Accounted'
  <2>1. /\ Aggregated' \cup Requested' \cup Queued(out)' \cup handed' \cup calls' \cup denied'
             \subseteq seen'
        /\ Queued(batch)' \subseteq handed'
    BY <1>4, <1>7, <1>8, <1>15, <1>16 DEF QuotaInv, Accounted
  <2>2. denied' \cap (handed' \cup Aggregated' \cup Queued(out)' \cup calls' \cup Requested') = {}
    BY <1>4, <1>7, <1>8, <1>15, <1>16 DEF QuotaInv, Accounted
  <2>3. Aggregated' \cap (Queued(out)' \cup handed' \cup Requested') = {}
    BY <1>4, <1>7, <1>8, <1>15, <1>16 DEF QuotaInv, Accounted
  <2>4. QED
    BY <2>1, <2>2, <2>3 DEF Accounted
<1>18. SentTogether'
  <2>1. OneSignature(out)'
    BY <1>4, OneSignatureNone DEF OneSignature
  <2>2. QED
    BY <1>3, <1>4, <2>1 DEF SentTogether
<1>19. QED
  BY <1>9, <1>10, <1>11, <1>13, <1>17, <1>18 DEF QuotaInv

\* clear(): nothing is cached or queued any more.
LEMMA ClearInv ==
  ASSUME QuotaInv, Clear
  PROVE  QuotaInv'
<1>1. /\ cache' = Plain(ClearCache(cache)) /\ out' = <<>> /\ batch' = batch /\ calls' = calls
      /\ seen' = seen /\ denied' = denied /\ handed' = handed /\ heard' = heard
      /\ failed' = failed /\ Caching
  BY DEF Clear
<1>2. cache' \in CacheType(Items) /\ Tracked(cache)' = {} /\ cache'.stored = {}
  <2>1. cache \in CacheType(Items)
    BY DEF QuotaInv, TypeOK
  <2>2. Tracked(cache)' = Tracked(cache')
    BY DEF Tracked
  <2>3. QED
    BY <1>1, <2>1, <2>2, ClearedProperties
<1>3. Live(cache)' = {}
  BY <1>2 DEF Live
<1>4. Aggregated' = {} /\ Requested' = {}
  BY <1>2 DEF Aggregated, Requested
<1>5. Queued(out)' = {} /\ Queued(batch)' = Queued(batch)
  BY <1>1, QueuedNone DEF Queued
<1>6. TypeOK'
  <2>1. out' \in Seq(SUBSET Reqs)
    BY <1>1, EmptySeq
  <2>2. QED
    BY <1>1, <1>2, <2>1 DEF QuotaInv, TypeOK
<1>7. ResponseFresh' /\ TemporaryIsBacked' /\ OwnKeys'
  BY <1>2, <1>3 DEF ResponseFresh, TemporaryIsBacked, OwnKeys
<1>8. Accounted'
  BY <1>1, <1>4, <1>5 DEF QuotaInv, Accounted
<1>9. SentTogether'
  <2>1. OneSignature(out)' /\ OneSignature(batch)'
    BY <1>1, OneSignatureNone DEF OneSignature, QuotaInv, SentTogether
  <2>2. QED
    BY <1>1, <2>1 DEF SentTogether
<1>10. QED
  BY <1>6, <1>7, <1>8, <1>9 DEF QuotaInv

-----------------------------------------------------------------------------
(* The theorems.                                                           *)

\* Every reachable state of the aggregator satisfies the inductive invariant.
THEOREM Invariant == Spec => []QuotaInv
<1>1. Init => QuotaInv
  BY InitInv
<1>2. QuotaInv /\ [Next]_vars => QuotaInv'
  <2> SUFFICES ASSUME QuotaInv, [Next]_vars PROVE QuotaInv'
    OBVIOUS
  <2>1. CASE UNCHANGED vars
    BY <2>1, StutterInv
  <2>2. CASE Tick
    BY <2>2, TickInv
  <2>3. CASE AllocateQuota
    <3>1. PICK r \in Reqs \ seen :
            /\ seen' = seen \cup {r}
            /\ AllocateMissed(r) \/ AllocateCached(r)
            /\ UNCHANGED <<batch, handed, failed>>
      BY <2>3 DEF AllocateQuota
    <3>2. CASE AllocateMissed(r)
      BY <3>1, <3>2, AllocateMissedInv
    <3>3. CASE AllocateCached(r)
      BY <3>1, <3>3, AllocateCachedInv
    <3>4. QED
      BY <3>1, <3>2, <3>3
  <2>4. CASE CallEnds
    BY <2>4, CallEndsInv
  <2>5. CASE Flush
    BY <2>5, FlushInv
  <2>6. CASE FlushAnswered
    BY <2>6, FlushAnsweredInv
  <2>7. CASE FlushFails
    BY <2>7, FlushFailsInv
  <2>8. CASE Clear
    BY <2>8, ClearInv
  <2>9. QED
    BY <2>1, <2>2, <2>3, <2>4, <2>5, <2>6, <2>7, <2>8 DEF Next
<1>3. QED
  BY <1>1, <1>2, PTL DEF Spec

\* Type correctness, and that a plain cache tracks what it stores and nothing else.
THEOREM TypeCorrect == Spec => []TypeOK
<1>1. QuotaInv => TypeOK
  BY DEF QuotaInv
<1>2. QED
  BY <1>1, Invariant, PTL

\* Aggregator.allocate_quota answers with a response for at most the expiration
\* after it was given.
THEOREM ResponseFreshHolds == Spec => []ResponseFresh
<1>1. QuotaInv => ResponseFresh
  BY DEF QuotaInv
<1>2. QED
  BY <1>1, Invariant, PTL

\* While temp_response is served, the request it was made for waits in _out, or is
\* with the scheduler thread and unanswered, or went out in a call that failed:
\* every answer, and clear(), replaces or drops the temporary response.
THEOREM TemporaryIsBackedHolds == Spec => []TemporaryIsBacked
<1>1. QuotaInv => TemporaryIsBacked
  BY DEF QuotaInv
<1>2. QED
  BY <1>1, Invariant, PTL

\* A request denied by a cached error is never charged.
THEOREM DeniedConsumesNothingHolds == Spec => []DeniedConsumesNothing
<1>1. QuotaInv => DeniedConsumesNothing
  BY DEF QuotaInv, Accounted, DeniedConsumesNothing
<1>2. QED
  BY <1>1, Invariant, PTL

\* A request is aggregated under its own signature, and is then neither queued nor
\* handed out.
THEOREM AggregatedOnceHolds == Spec => []AggregatedOnce
<1>1. QuotaInv => AggregatedOnce
  <2> SUFFICES ASSUME QuotaInv PROVE AggregatedOnce
    OBVIOUS
  <2>1. Aggregated \cap (Queued(out) \cup handed) = {} /\ Aggregated \subseteq seen
    BY DEF QuotaInv, Accounted
  <2>2. \A k \in Tracked(cache) : \A r \in ItemOf(k).agg : SigOf[r] = k /\ r \in Aggregated
    BY DEF QuotaInv, OwnKeys, Aggregated
  <2>3. QED
    BY <2>1, <2>2 DEF AggregatedOnce
<1>2. QED
  BY <1>1, Invariant, PTL

\* What add_response() keeps of a live item, and which item it loses.
LEMMA ResponseKeeps ==
  ASSUME cache \in CacheType(Items), Tracked(cache) = cache.stored,
         NEW k \in Keys, NEW q \in SUBSET Reqs, NEW a \in Answers \cup {Dummy},
         AddResponse(k, q, a), NEW i \in Live(cache)
  PROVE  \/ i \in Live(cache)' /\ cache'.item[i].agg = cache.item[i].agg
         \/ /\ Cardinality(Live(cache)) >= MaxEntries
            /\ Live(cache) \ Live(cache)' = {i}
            /\ \E j \in Live(cache)' : j \notin Live(cache) /\ cache'.item[j].agg = {}
<1>1. CASE ~Caching /\ cache' = cache
  BY <1>1 DEF Live
<1>2. CASE \E v \in Items : cache' = Store(cache, k, v) /\ HasAnswered(v, k, q, a)
  <2>1. PICK v \in Items : cache' = Store(cache, k, v) /\ HasAnswered(v, k, q, a)
    BY <1>2
  <2>2. Live(cache') = Live(cache)'
    BY DEF Live
  <2>3. /\ cache'.item[k] = v
        /\ \A j \in cache'.stored \ {k} : cache'.item[j] = cache.item[j]
    BY <2>1, StoreProperties
  <2>4. /\ k \in Live(cache)'
        /\ \/ Live(cache) \subseteq Live(cache)'
           \/ /\ k \notin Live(cache) /\ ~(Cardinality(Live(cache)) < MaxEntries)
              /\ \E o \in Live(cache) : Live(cache) \ Live(cache)' = {o}
    BY <2>1, <2>2, StoreDrops
  <2>5. /\ k \in Live(cache) => v.agg = cache.item[k].agg
        /\ k \notin Live(cache) => v.agg = {}
    BY <2>1 DEF HasAnswered
  <2>6. Live(cache)' \subseteq cache'.stored
    BY DEF Live
  <2>7. CASE i \in Live(cache)'
    BY <2>3, <2>5, <2>6, <2>7
  <2>8. CASE i \notin Live(cache)'
    <3>1. k \notin Live(cache) /\ ~(Cardinality(Live(cache)) < MaxEntries)
      BY <2>4, <2>8
    <3>2. Live(cache) \ Live(cache)' = {i}
      BY <2>4, <2>8
    <3>3. Cardinality(Live(cache)) \in Nat /\ MaxEntries \in Nat
      <4>1. Live(cache) \subseteq Keys
        BY DEF Live, CacheType
      <4>2. QED
        BY <4>1, QuotaAssumption, FS_Subset, FS_CardinalityType
    <3>4. Cardinality(Live(cache)) >= MaxEntries
      BY <3>1, <3>3
    <3>5. cache'.item[k].agg = {}
      BY <2>3, <2>5, <3>1
    <3>6. QED
      BY <2>4, <3>1, <3>2, <3>4, <3>5
  <2>9. QED
    BY <2>7, <2>8
<1>3. QED
  BY <1>1, <1>2, ResponseProperties

\* An answer that arrives, however late, keeps what was aggregated under every live
\* item, except under the one a full cache evicts for a signature that is new to it.
THEOREM ResponseKeepsAggregatedHolds == Spec => ResponseKeepsAggregated
<1> DEFINE Keeps ==
             CallEnds \/ FlushAnswered =>
               \A k \in Live(cache) :
                 \/ k \in Live(cache)' /\ ItemOf(k)'.agg = ItemOf(k).agg
                 \/ /\ Cardinality(Live(cache)) >= MaxEntries
                    /\ Live(cache) \ Live(cache)' = {k}
                    /\ \E j \in Live(cache)' : j \notin Live(cache) /\ ItemOf(j)'.agg = {}
<1>1. QuotaInv /\ [Next]_vars => [Keeps]_vars
  <2> SUFFICES ASSUME QuotaInv, CallEnds \/ FlushAnswered, NEW i \in Live(cache)
               PROVE  \/ i \in Live(cache)' /\ ItemOf(i)'.agg = ItemOf(i).agg
                      \/ /\ Cardinality(Live(cache)) >= MaxEntries
                         /\ Live(cache) \ Live(cache)' = {i}
                         /\ \E j \in Live(cache)' : j \notin Live(cache) /\ ItemOf(j)'.agg = {}
    OBVIOUS
  <2>1. cache \in CacheType(Items) /\ Tracked(cache) = cache.stored
    BY DEF QuotaInv, TypeOK
  <2>2. CASE CallEnds
    <3>1. PICK r \in calls : \/ \E a \in Answers \cup {Dummy} : AddResponse(SigOf[r], {r}, a)
                             \/ UNCHANGED <<cache, heard>>
      BY <2>2 DEF CallEnds
    <3>2. r \in Reqs /\ SigOf[r] \in Keys /\ {r} \in SUBSET Reqs
      BY DEF QuotaInv, TypeOK
    <3>3. CASE \E a \in Answers \cup {Dummy} : AddResponse(SigOf[r], {r}, a)
      BY <2>1, <3>2, <3>3, ResponseKeeps DEF ItemOf
    <3>4. CASE UNCHANGED <<cache, heard>>
      BY <3>4 DEF ItemOf, Live
    <3>5. QED
      BY <3>1, <3>3, <3>4
  <2>3. CASE FlushAnswered
    <3>0. PICK n \in DOMAIN batch :
            \E a \in Answers, r \in batch[n] : AddResponse(SigOf[r], batch[n], a)
      BY <2>3 DEF FlushAnswered
    <3>1. PICK a \in Answers, r \in batch[n] : AddResponse(SigOf[r], batch[n], a)
      BY <3>0
    <3>2. batch[n] \in SUBSET Reqs
      BY QueuedRemove DEF QuotaInv, TypeOK
    <3>3. SigOf[r] \in Keys
      BY <3>2
    <3>4. QED
      BY <2>1, <3>1, <3>2, <3>3, ResponseKeeps DEF ItemOf
  <2>4. QED
    BY <2>2, <2>3
<1>2. QED
  BY <1>1, Invariant, PTL DEF Spec, ResponseKeepsAggregated
=============================================================================
