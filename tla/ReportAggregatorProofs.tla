----------------------- MODULE ReportAggregatorProofs -----------------------
(***************************************************************************)
(* Proofs about the report aggregator: types, that no operation is counted *)
(* twice, how long merging may hold an operation, and that the aggregator  *)
(* implements the ledger of module RequestLedger.                           *)
(*                                                                         *)
(* The argument looks at a cache only through what _tracking and the deque *)
(* hold.  The first lemmas say, action by action, how these two change.    *)
(***************************************************************************)
EXTENDS ReportAggregator, DequeOutCacheProofs

USE ReportAssumption DEF FlushInterval

\* Every slice is a set of flushed operations, and together they are all of them.
LEMMA SlicesProperties ==
  ASSUME NEW ops, NEW P \in Slices(ops)
  PROVE  P \in SUBSET SUBSET ops /\ UNION P = ops
<1>1. CASE ops = {}
  BY <1>1 DEF Slices
<1>2. CASE ops # {}
  BY <1>2 DEF Slices
<1>3. QED
  BY <1>1, <1>2

\* A request names fresh operations only.
LEMMA RequestsAreFresh ==
  ASSUME NEW req \in Requests
  PROVE  /\ OpsOf(req) \subseteq Ops \ (accepted \cup refused)
         /\ KeyBySignature(req) \subseteq OpsOf(req)
<1>1. PICK n \in 0..MaxRequestSize :
        req \in [1..n -> Ops \ (accepted \cup refused)]
  BY DEF Requests
<1>2. QED
  BY <1>1 DEF OpsOf, KeyBySignature

\* Ages stay in their range.
LEMMA AgedType ==
  ASSUME NEW d \in Nat, age \in [Ops -> 0..FlushInterval]
  PROVE  Aged(d) \in [Ops -> 0..FlushInterval]
BY DEF Aged

\* One iteration of report() changes what is cached under one signature.
LEMMA AddProperties ==
  ASSUME cache \in CacheType(Aggregates), NEW op \in Ops
  PROVE  /\ Added(op) \in CacheType(Aggregates)
         /\ Added(op).out = cache.out
         /\ Added(op).item = [cache.item EXCEPT ![SigOf[op]] =
              IF SigOf[op] \in Live(cache) THEN cache.item[SigOf[op]] \cup {op} ELSE {op}]
         /\ Added(op).stored \subseteq cache.stored \cup {SigOf[op]}
         /\ Live(Added(op)) \subseteq Live(cache) \cup {SigOf[op]}
         /\ \A j \in Live(Added(op)) :
              Added(op).left[j] = IF j = SigOf[op] /\ j \notin Live(cache)
                                THEN Ttl ELSE cache.left[j]
<1> DEFINE k == SigOf[op]
           t == Touch(cache, k)
<1>1. k \in Keys /\ {op} \in Aggregates
  BY DEF Aggregates
<1>2. CASE k \in Live(cache)
  <2>1. /\ t \in CacheType(Aggregates) /\ t.item = cache.item /\ t.out = cache.out
        /\ t.stored = cache.stored /\ t.left = cache.left
    BY <1>2, TouchProperties
  <2>2. Added(op) = [t EXCEPT !.item = [cache.item EXCEPT ![k] = cache.item[k] \cup {op}]]
    BY <1>2 DEF Added, Change
  <2>3. cache.item[k] \cup {op} \in Aggregates
    BY <1>1 DEF CacheType, Aggregates
  <2> HIDE DEF t, k
  <2>4. Added(op) \in CacheType(Aggregates)
    <3> DEFINE items == [cache.item EXCEPT ![k] = cache.item[k] \cup {op}]
    <3>1. items \in [Keys -> Aggregates \cup {NoItem}]
      BY <1>1, <2>3 DEF CacheType
    <3>2. Added(op) = [t EXCEPT !.item = items]
      BY <2>2
    <3> HIDE DEF items
    <3>3. QED
      BY <2>1, <3>1, <3>2 DEF CacheType
  <2>5. /\ Added(op).out = cache.out
        /\ Added(op).item = [cache.item EXCEPT ![k] = cache.item[k] \cup {op}]
        /\ Added(op).stored = cache.stored /\ Added(op).left = cache.left
    BY <1>1, <2>1, <2>2 DEF CacheType
  <2>6. QED
    BY <1>2, <2>4, <2>5 DEF Live, k
<1>3. CASE k \notin Live(cache)
  <2>1. Added(op) = Put(cache, k, {op})
    BY <1>3 DEF Added
  <2> HIDE DEF k
  <2>2. \A v \in Aggregates :
          /\ Put(cache, k, v) \in CacheType(Aggregates)
          /\ Put(cache, k, v).item = [cache.item EXCEPT ![k] = v]
          /\ Put(cache, k, v).out = cache.out
          /\ Put(cache, k, v).left[k] = Ttl
          /\ Put(cache, k, v).stored \subseteq Live(cache) \cup {k}
          /\ Live(Put(cache, k, v)) \subseteq Live(cache) \cup {k}
          /\ \A j \in Live(Put(cache, k, v)) \ {k} : Put(cache, k, v).left[j] = cache.left[j]
    BY <1>1, PutProperties
  <2>3. /\ Added(op) \in CacheType(Aggregates)
        /\ Added(op).item = [cache.item EXCEPT ![k] = {op}]
        /\ Added(op).out = cache.out
        /\ Added(op).left[k] = Ttl
        /\ Added(op).stored \subseteq cache.stored \cup {k}
        /\ Live(Added(op)) \subseteq Live(cache) \cup {k}
        /\ \A j \in Live(Added(op)) \ {k} : Added(op).left[j] = cache.left[j]
    BY <1>1, <2>1, <2>2 DEF Live
  <2>4. (IF k \in Live(cache) THEN cache.item[k] \cup {op} ELSE {op}) = {op}
    BY <1>3
  <2>5. \A j \in Live(Added(op)) :
          Added(op).left[j] = IF j = k /\ j \notin Live(cache) THEN Ttl ELSE cache.left[j]
    BY <1>3, <2>3
  <2>6. Added(op).item = [cache.item EXCEPT ![k] =
          IF k \in Live(cache) THEN cache.item[k] \cup {op} ELSE {op}]
    BY <2>3, <2>4
  <2> USE DEF k
  <2>7. QED
    BY <2>3, <2>5, <2>6
<1>4. QED
  BY <1>2, <1>3

\* What flush() takes out, and what it leaves: live entries, untouched unless
\* they expire between its two reads of the deque.
LEMMA FlushProperties ==
  ASSUME cache \in CacheType(Aggregates), NEW d \in Nat
  PROVE  LET first == OutDeque(cache)
             after == ClearDeque(OutDeque(Elapse(first, d)))
         IN  /\ first.out \subseteq Aggregates
             /\ first.out = cache.out \cup {cache.item[k] : k \in Tracked(cache) \ Live(cache)}
             /\ after \in CacheType(Aggregates)
             /\ after.out = {}
             /\ \A k \in Keys : \/ after.item[k] = {}
                                \/ k \in Live(cache) /\ after.item[k] = cache.item[k]
             /\ \A k \in after.stored : /\ k \in Live(cache)
                                        /\ after.item[k] = cache.item[k]
                                        /\ Ttl > 0 => after.left[k] = cache.left[k] - d
             /\ Live(after) \subseteq after.stored
<1> DEFINE first == OutDeque(cache)
           later == Elapse(first, d)
           second == OutDeque(later)
           after == ClearDeque(second)
<1>1. /\ first \in CacheType(Aggregates)
      /\ \A k \in Keys : first.item[k] = IF k \in Live(cache) THEN cache.item[k] ELSE NoItem
      /\ first.out = cache.out \cup {cache.item[k] : k \in Tracked(cache) \ Live(cache)}
      /\ first.left = cache.left
      /\ first.stored = Live(cache)
  BY OutDequeProperties
<1> HIDE DEF first
<1>2. /\ later \in CacheType(Aggregates)
      /\ later.item = first.item
      /\ later.stored = first.stored
      /\ \A k \in Keys : later.left[k] = IF first.left[k] > d THEN first.left[k] - d ELSE 0
  BY <1>1, ElapseProperties
<1> HIDE DEF later
<1>3. /\ second \in CacheType(Aggregates)
      /\ \A k \in Keys : second.item[k] = IF k \in Live(later) THEN later.item[k] ELSE NoItem
      /\ second.left = later.left
      /\ second.stored = Live(later)
  BY <1>2, OutDequeProperties
<1> HIDE DEF second
<1>4. /\ after \in CacheType(Aggregates)
      /\ after.out = {}
      /\ after.item = second.item
      /\ after.left = second.left
      /\ after.stored = second.stored
  BY <1>3, ClearDequeProperties
<1> HIDE DEF after
<1>5. Live(later) \subseteq Live(cache) /\ Live(cache) \subseteq Keys
  BY <1>1, <1>2 DEF Live, CacheType
<1>6. \A k \in Keys : \/ after.item[k] = {}
                      \/ k \in Live(cache) /\ after.item[k] = cache.item[k]
  BY <1>1, <1>2, <1>3, <1>4, <1>5
<1>7. ASSUME NEW k \in after.stored
      PROVE  /\ k \in Live(cache)
             /\ after.item[k] = cache.item[k]
             /\ Ttl > 0 => after.left[k] = cache.left[k] - d
  <2>1. k \in Live(later) /\ k \in Live(cache) /\ k \in Keys
    BY <1>4, <1>3, <1>5 DEF Live
  <2>2. after.item[k] = cache.item[k]
    BY <2>1, <1>1, <1>2, <1>3, <1>4
  <2>3. Ttl > 0 => later.left[k] > 0
    BY <2>1 DEF Live
  <2>4. after.left[k] = IF cache.left[k] > d THEN cache.left[k] - d ELSE 0
    BY <2>1, <1>1, <1>2, <1>3, <1>4
  <2>5. after.left[k] = later.left[k] /\ cache.left[k] \in Nat
    BY <2>1, <1>3, <1>4 DEF CacheType
  <2>6. QED
    BY <2>1, <2>2, <2>3, <2>4, <2>5
<1>8. first.out \subseteq Aggregates
  BY <1>1 DEF CacheType
<1>9. Live(after) \subseteq after.stored
  BY DEF Live
<1>10. QED
  BY <1>1, <1>4, <1>6, <1>7, <1>8, <1>9 DEF first, later, second, after

\* clear() leaves nothing behind, neither tracked nor in the deque.
LEMMA ClearProperties ==
  ASSUME cache \in CacheType(Aggregates)
  PROVE  LET after == ClearDeque(OutDeque(ClearCache(cache)))
         IN  /\ after \in CacheType(Aggregates)
             /\ after.out = {}
             /\ \A k \in Keys : after.item[k] = {}
             /\ after.stored = {}
BY ClearAllProperties

-----------------------------------------------------------------------------
(* Types.                                                                  *)

LEMMA InitTypeOK == Init => TypeOK
<1> SUFFICES ASSUME Init PROVE TypeOK
  OBVIOUS
<1>1. cache \in CacheType(Aggregates)
  BY EmptyCacheType DEF Init
<1>2. cache.stored = {}
  BY DEF Init, EmptyCache
<1>3. QED
  BY <1>1, <1>2 DEF Init, TypeOK

\* Caching or merging an operation keeps the cache well typed.
LEMMA AddKeepsType ==
  ASSUME TypeOK, NEW op \in todo
  PROVE  Added(op) \in CacheType(Aggregates) /\ Added(op).stored \subseteq Tracked(Added(op))
<1> USE DEF TypeOK
<1> DEFINE k == SigOf[op]
           new == IF k \in Live(cache) THEN cache.item[k] \cup {op} ELSE {op}
           after == Added(op)
<1>0. /\ cache \in CacheType(Aggregates)
      /\ cache.stored \subseteq Keys
      /\ \A j \in cache.stored : cache.item[j] # {}
  BY DEF CacheType, Tracked
<1>1. after \in CacheType(Aggregates)
  BY AddProperties
<1>2. k \in Keys /\ new # {}
  OBVIOUS
<1>3. /\ after.stored \subseteq cache.stored \cup {k}
      /\ after.item = [cache.item EXCEPT ![k] = new]
  BY AddProperties
<1> HIDE DEF k, new, after
<1>4. \A j \in after.stored : j \in Keys /\ after.item[j] # {}
  BY <1>0, <1>2, <1>3 DEF CacheType
<1>5. QED
  BY <1>1, <1>4 DEF Tracked, after

LEMMA NextTypeOK == TypeOK /\ [Next]_vars => TypeOK'
<1> SUFFICES ASSUME TypeOK, [Next]_vars PROVE TypeOK'
  OBVIOUS
<1> USE DEF TypeOK
<1>0. /\ cache \in CacheType(Aggregates)
      /\ \A k \in Keys : cache.item[k] \in Aggregates \cup {{}}
      /\ cache.stored \subseteq Keys
      /\ \A k \in cache.stored : cache.item[k] # {}
  BY DEF CacheType, Tracked
<1>1. CASE Tick
  <2>1. cache' \in CacheType(Aggregates)
    BY <1>1, ElapseProperties DEF Tick
  <2>2. age' \in [Ops -> 0..FlushInterval]
    BY <1>1, AgedType DEF Tick
  <2>3. cache'.stored \subseteq Tracked(cache')
    <3>1. cache'.item = cache.item /\ cache'.stored = cache.stored
      BY <1>1, ElapseProperties DEF Tick
    <3>2. QED
      BY <3>1 DEF Tracked
  <2>4. QED
    BY <1>1, <2>1, <2>2, <2>3 DEF Tick, Aggregates
<1>2. CASE ReportRefused
  <2>1. refused' \subseteq Ops
    BY <1>2, RequestsAreFresh DEF ReportRefused
  <2>2. QED
    BY <1>2, <2>1 DEF ReportRefused, Aggregates
<1>3. CASE ReportBegin
  <2>1. todo' \subseteq Ops /\ accepted' \subseteq Ops
    BY <1>3, RequestsAreFresh DEF ReportBegin
  <2>2. QED
    BY <1>3, <2>1 DEF ReportBegin, Aggregates
<1>4. CASE ReportStep
  <2>1. PICK op \in todo : cache' = Added(op) /\ todo' = todo \ {op}
    BY <1>4 DEF ReportStep
  <2>2. cache' \in CacheType(Aggregates) /\ cache'.stored \subseteq Tracked(cache')
    BY <2>1, AddKeepsType
  <2>3. QED
    BY <1>4, <2>1, <2>2 DEF ReportStep, Aggregates
<1>5. CASE ReportRaises
  <2>1. PICK op \in todo : cache' = cache \/ cache' = Added(op)
    BY <1>5 DEF ReportRaises
  <2>2. cache' \in CacheType(Aggregates) /\ cache'.stored \subseteq Tracked(cache')
    BY <2>1, AddKeepsType DEF Tracked
  <2>3. QED
    BY <1>5, <2>2 DEF ReportRaises, Aggregates
<1>6. CASE Flush
  <2>1. PICK d \in 0..FlushInterval :
          /\ cache' = ClearDeque(OutDeque(Elapse(OutDeque(cache), d)))
          /\ age' = Aged(d)
          /\ \E batches \in Slices(OutDeque(cache).out) :
               requests' = requests \cup batches
    BY <1>6 DEF Flush
  <2>2. OutDeque(cache).out \subseteq Aggregates /\ cache' \in CacheType(Aggregates)
    BY <2>1, FlushProperties
  <2>3. requests' \subseteq SUBSET Aggregates
    BY <2>1, <2>2, SlicesProperties
  <2>4. age' \in [Ops -> 0..FlushInterval]
    BY <2>1, AgedType
  <2>5. cache'.stored \subseteq Tracked(cache')
    <3>1. \A k \in cache'.stored : k \in Live(cache) /\ cache'.item[k] = cache.item[k]
      BY <2>1, FlushProperties
    <3>2. QED
      BY <3>1, <1>0 DEF Tracked, Live
  <2>6. QED
    BY <1>6, <2>2, <2>3, <2>4, <2>5 DEF Flush, Aggregates
<1>7. CASE Clear
  <2>1. cache' \in CacheType(Aggregates) /\ cache'.stored = {}
    BY <1>7, ClearProperties DEF Clear
  <2>2. \A k \in Live(cache) : cache.item[k] \in Aggregates
    BY DEF Live, Tracked, CacheType
  <2>3. finals' \subseteq Aggregates
    BY <1>7, <2>2 DEF Clear
  <2>4. QED
    BY <1>7, <2>1, <2>3 DEF Clear, Aggregates
<1>8. CASE UNCHANGED vars
  BY <1>8 DEF vars, Aggregates
<1>9. QED
  BY <1>1, <1>2, <1>3, <1>4, <1>5, <1>6, <1>7, <1>8 DEF Next

\* Every reachable state is well typed.
THEOREM TypeCorrect == Spec => []TypeOK
<1>1. QED
  BY InitTypeOK, NextTypeOK, PTL DEF Spec

-----------------------------------------------------------------------------
(* No operation is counted twice.                                          *)

\* Moving operations around, without copying any, keeps them counted once.
\* The four ways the actions move them: nothing but the clock moves; one
\* iteration of report() moves op from todo into an item; and flush() and
\* clear() move items of keys or of the deque out of the cache.
LEMMA StepCounted ==
  ASSUME TypeOK, CountedOnce, NEW op \in todo, NEW new,
         new = {op} \/ new = cache.item[SigOf[op]] \cup {op},
         cache'.item = [cache.item EXCEPT ![SigOf[op]] = new],
         cache'.out = cache.out,
         todo' \subseteq todo \ {op},
         UNCHANGED <<accepted, refused, requests, finals>>
  PROVE  CountedOnce' /\ Held' \subseteq Held /\ Delivered' = Delivered
<1> DEFINE k == SigOf[op]
<1>1. k \in Keys /\ cache.item \in [Keys -> Aggregates \cup {{}}]
  BY DEF TypeOK, CacheType
<1> HIDE DEF k
<1>2. /\ \A j \in Keys : j # k => cache'.item[j] = cache.item[j]
      /\ \A o \in cache'.item[k] : o = op \/ o \in cache.item[k]
  BY <1>1 DEF k
<1>3. op \notin InItems(Keys) \cup Waiting /\ op \in Held
  BY DEF CountedOnce, Held
<1>4. \A o \in InItems(Keys)' : o = op \/ o \in InItems(Keys)
  BY <1>1, <1>2 DEF InItems
<1>5. Waiting' = Waiting /\ Delivered' = Delivered
  BY DEF Waiting, Delivered
<1>6. Held' \subseteq Held
  BY <1>3, <1>4, <1>5 DEF Held
<1>7. todo' \cap (InItems(Keys)' \cup Waiting') = {}
  BY <1>4, <1>5 DEF CountedOnce
<1>8. InItems(Keys)' \cap Waiting' = {}
  BY <1>3, <1>4, <1>5 DEF CountedOnce
<1>9. \A i, j \in Keys : i # j => cache'.item[i] \cap cache'.item[j] = {}
  <2>1. \A j \in Keys : op \notin cache.item[j]
    BY <1>3 DEF InItems
  <2>2. QED
    BY <2>1, <1>2 DEF CountedOnce
<1>10. QED
  BY <1>5, <1>6, <1>7, <1>8, <1>9 DEF CountedOnce

\* When merging raises, the operation is merged or dropped, like those after it.
LEMMA RaisesCounted ==
  ASSUME TypeOK, CountedOnce, ReportRaises
  PROVE  CountedOnce' /\ Held' \subseteq Held /\ Delivered' = Delivered
<1>1. PICK op \in todo :
        SigOf[op] \in Live(cache) /\ (cache' = cache \/ cache' = Added(op))
  BY DEF ReportRaises
<1>2. todo' = {} /\ UNCHANGED <<accepted, refused, requests, finals>>
  BY DEF ReportRaises
<1>3. CASE cache' = cache
  <2>1. InItems(Keys)' = InItems(Keys) /\ Waiting' = Waiting /\ Delivered' = Delivered
    BY <1>2, <1>3 DEF InItems, Waiting, Delivered
  <2>2. Held' \subseteq Held
    BY <1>2, <2>1 DEF Held
  <2>3. QED
    BY <1>2, <1>3, <2>1, <2>2 DEF CountedOnce
<1>4. CASE cache' = Added(op)
  <2> DEFINE new == cache.item[SigOf[op]] \cup {op}
  <2>1. /\ cache'.out = cache.out
        /\ cache'.item = [cache.item EXCEPT ![SigOf[op]] = new]
    BY <1>1, <1>4, AddProperties DEF TypeOK
  <2>2. todo' \subseteq todo \ {op}
    BY <1>2
  <2> HIDE DEF new
  <2>3. new = {op} \/ new = cache.item[SigOf[op]] \cup {op}
    BY DEF new
  <2>4. QED
    BY <1>2, <2>1, <2>2, <2>3, StepCounted
<1>5. QED
  BY <1>1, <1>3, <1>4

\* `given' is what a call of flush() or clear() returns.
LEMMA HandOutCounted ==
  ASSUME TypeOK, CountedOnce, NEW given,
         given \subseteq cache.out \cup {cache.item[k] : k \in Keys},
         (UNION requests') \cup finals' = (UNION requests) \cup finals \cup given,
         cache'.out = {},
         \A k \in Keys : \/ cache'.item[k] = {}
                         \/ /\ cache'.item[k] = cache.item[k]
                            /\ \A a \in given : cache.item[k] \cap a = {},
         UNCHANGED <<todo, accepted, refused>>
  PROVE  /\ CountedOnce'
         /\ Held' \subseteq Held
         /\ Delivered' = Delivered \cup UNION given
         /\ (UNION given) \subseteq Held \ Held'
<1>0. \A k \in Keys : cache'.item[k] = {} \/ cache'.item[k] = cache.item[k]
  OBVIOUS
<1>1. (UNION given) \subseteq InItems(Keys) \cup Waiting
  <2> SUFFICES ASSUME NEW a \in given, NEW o \in a
               PROVE  o \in InItems(Keys) \cup Waiting
    OBVIOUS
  <2>1. a \in cache.out \/ \E k \in Keys : a = cache.item[k]
    OBVIOUS
  <2>2. QED
    BY <2>1 DEF InItems, Waiting
<1>2. Waiting' = {} /\ todo' = todo
  BY DEF Waiting
<1>3. InItems(Keys)' \subseteq InItems(Keys)
  <2> SUFFICES ASSUME NEW k \in Keys, NEW o \in cache'.item[k]
               PROVE  o \in InItems(Keys)
    BY DEF InItems
  <2>1. o \in cache.item[k]
    BY <1>0
  <2>2. QED
    BY <2>1 DEF InItems
<1>4. Held' \subseteq Held
  BY <1>2, <1>3 DEF Held
<1>5. Delivered' = Delivered \cup UNION given
  <2>1. \A o : o \in (UNION UNION requests) \cup (UNION finals)
                 <=> \E a \in (UNION requests) \cup finals : o \in a
    OBVIOUS
  <2>2. \A o : o \in (UNION UNION requests') \cup (UNION finals')
                 <=> \E a \in (UNION requests') \cup finals' : o \in a
    OBVIOUS
  <2>3. \A o : o \in UNION given <=> \E a \in given : o \in a
    OBVIOUS
  <2>4. (UNION UNION requests') \cup (UNION finals')
          = (UNION UNION requests) \cup (UNION finals) \cup UNION given
    BY <2>1, <2>2, <2>3
  <2>5. QED
    BY <2>4 DEF Delivered
<1>6. (UNION given) \cap InItems(Keys)' = {}
  BY DEF InItems
<1>7. (UNION given) \subseteq Held \ Held'
  BY <1>1, <1>2, <1>6 DEF Held, CountedOnce
<1>8. CountedOnce'
  <2>1. (Held \cup Delivered \subseteq accepted \cup refused)'
    BY <1>4, <1>5, <1>7 DEF CountedOnce
  <2>2. (Held \cap Delivered)' = {}
    BY <1>4, <1>5, <1>7 DEF CountedOnce
  <2>3. (todo \cap (InItems(Keys) \cup Waiting))' = {} /\ (InItems(Keys) \cap Waiting)' = {}
    BY <1>2, <1>3 DEF CountedOnce
  <2>4. \A i, j \in Keys : i # j => cache'.item[i] \cap cache'.item[j] = {}
    BY DEF CountedOnce
  <2>5. \A a, b \in given : a # b => a \cap b = {}
    <3> SUFFICES ASSUME NEW a \in given, NEW b \in given, NEW o \in a \cap b
                 PROVE  a = b
      OBVIOUS
    <3>1. CASE a \in cache.out /\ b \in cache.out
      BY <3>1 DEF CountedOnce
    <3>2. CASE a \notin cache.out /\ b \notin cache.out
      BY <3>2 DEF CountedOnce
    <3>3. CASE (a \in cache.out) # (b \in cache.out)
      <4>1. o \in Waiting /\ o \in InItems(Keys)
        BY <3>3 DEF Waiting, InItems
      <4>2. QED
        BY <4>1 DEF CountedOnce
    <3>4. QED
      BY <3>1, <3>2, <3>3
  <2>6. \A a \in (UNION requests) \cup finals : \A b \in given : a \cap b = {}
    <3> SUFFICES ASSUME NEW a \in (UNION requests) \cup finals, NEW b \in given,
                        NEW o \in a \cap b
                 PROVE  FALSE
      OBVIOUS
    <3>1. o \in Delivered
      BY DEF Delivered
    <3>2. o \in Held
      BY <1>7
    <3>3. QED
      BY <3>1, <3>2 DEF CountedOnce
  <2>7. \A a, b \in (UNION requests') \cup finals' : a # b => a \cap b = {}
    BY <2>5, <2>6 DEF CountedOnce
  <2>8. (refused \cap ((UNION UNION requests) \cup (UNION finals)))' = {}
    <3>1. refused \subseteq Delivered
      BY DEF Delivered
    <3>2. \A o \in UNION given : o \notin refused
      BY <1>7, <3>1 DEF CountedOnce
    <3>3. \A o \in (UNION UNION requests') \cup (UNION finals') :
            o \in (UNION UNION requests) \cup (UNION finals) \cup UNION given
      OBVIOUS
    <3>4. QED
      BY <3>2, <3>3 DEF CountedOnce
  <2>9. (\A a, b \in cache.out : a # b => a \cap b = {})'
    OBVIOUS
  <2>10. QED
    BY <2>1, <2>2, <2>3, <2>4, <2>7, <2>8, <2>9 DEF CountedOnce
<1>9. QED
  BY <1>4, <1>5, <1>7, <1>8

\* A flush gives out what the deque held and every item not live; what it
\* leaves in the cache is disjoint from that.
LEMMA FlushCounted ==
  ASSUME TypeOK, CountedOnce, Flush
  PROVE  /\ CountedOnce'
         /\ Held' \subseteq Held
         /\ Delivered' = Delivered \cup UNION OutDeque(cache).out
         /\ UNION OutDeque(cache).out = InItems(Keys \ Live(cache)) \cup Waiting
         /\ (UNION OutDeque(cache).out) \subseteq Held \ Held'
<1> DEFINE given == OutDeque(cache).out
<1>1. PICK d \in 0..FlushInterval :
        /\ cache' = ClearDeque(OutDeque(Elapse(OutDeque(cache), d)))
        /\ \E batches \in Slices(given) : requests' = requests \cup batches
  BY DEF Flush
<1>2. cache \in CacheType(Aggregates)
  BY DEF TypeOK
<1>3. /\ given = cache.out \cup {cache.item[k] : k \in Tracked(cache) \ Live(cache)}
      /\ cache'.out = {}
      /\ \A k \in Keys : \/ cache'.item[k] = {}
                         \/ k \in Live(cache) /\ cache'.item[k] = cache.item[k]
  BY <1>1, <1>2, FlushProperties
<1>4. PICK batches \in Slices(given) : requests' = requests \cup batches
  BY <1>1
<1> HIDE DEF given
<1>5. UNION batches = given
  BY SlicesProperties
<1>6. (UNION requests') \cup finals' = (UNION requests) \cup finals \cup given
  <2>1. finals' = finals
    BY DEF Flush
  <2>2. QED
    BY <1>4, <1>5, <2>1
<1>7. ASSUME NEW k \in Keys
      PROVE  \/ cache'.item[k] = {}
             \/ /\ cache'.item[k] = cache.item[k]
                /\ \A a \in given : cache.item[k] \cap a = {}
  <2>1. CASE k \in Live(cache)
    <3>1. cache'.item[k] = {} \/ cache'.item[k] = cache.item[k]
      BY <1>3
    <3>2. ASSUME NEW a \in given PROVE cache.item[k] \cap a = {}
      <4>1. CASE a \in cache.out
        BY <4>1 DEF CountedOnce, InItems, Waiting
      <4>2. CASE a \notin cache.out
        <5>1. PICK j \in Tracked(cache) \ Live(cache) : a = cache.item[j]
          BY <4>2, <1>3
        <5>2. QED
          BY <5>1, <2>1 DEF CountedOnce, Tracked
      <4>3. QED
        BY <4>1, <4>2
    <3>3. QED
      BY <3>1, <3>2
  <2>2. QED
    BY <2>1, <1>3
<1>8. given \subseteq cache.out \cup {cache.item[k] : k \in Keys}
  BY <1>3 DEF Tracked
<1>9. UNCHANGED <<todo, accepted, refused>>
  BY DEF Flush
<1>10. UNION given = InItems(Keys \ Live(cache)) \cup Waiting
  <2>1. ASSUME NEW o \in UNION given PROVE o \in InItems(Keys \ Live(cache)) \cup Waiting
    <3>1. PICK a \in given : o \in a
      OBVIOUS
    <3>2. a \in cache.out \/ \E j \in Keys \ Live(cache) : a = cache.item[j]
      BY <1>3 DEF Tracked
    <3>3. QED
      BY <3>1, <3>2 DEF InItems, Waiting
  <2>2. ASSUME NEW o \in InItems(Keys \ Live(cache)) PROVE o \in UNION given
    <3>1. PICK k \in Keys \ Live(cache) : o \in cache.item[k]
      BY DEF InItems
    <3>2. k \in Tracked(cache)
      BY <3>1 DEF Tracked
    <3>3. cache.item[k] \in given
      BY <3>1, <3>2, <1>3
    <3>4. QED
      BY <3>1, <3>3
  <2>3. ASSUME NEW o \in Waiting PROVE o \in UNION given
    BY <1>3, <2>3 DEF Waiting
  <2>4. QED
    BY <2>1, <2>2, <2>3
<1>11. QED
  <2>1. /\ CountedOnce'
        /\ Held' \subseteq Held
        /\ Delivered' = Delivered \cup UNION given
        /\ (UNION given) \subseteq Held \ Held'
    <3>1. cache'.out = {}
      BY <1>3
    <3>2. \A k \in Keys : \/ cache'.item[k] = {}
                          \/ /\ cache'.item[k] = cache.item[k]
                             /\ \A a \in given : cache.item[k] \cap a = {}
      BY <1>7
    <3>3. QED
      BY <1>6, <1>8, <1>9, <3>1, <3>2, HandOutCounted
  <2>2. QED
    BY <2>1, <1>10 DEF given

\* clear() gives out the live items and leaves nothing.
LEMMA ClearCounted ==
  ASSUME TypeOK, CountedOnce, Clear
  PROVE  /\ CountedOnce'
         /\ Held' \subseteq Held
         /\ Delivered' = Delivered \cup InItems(Live(cache))
         /\ InItems(Live(cache)) \subseteq Held \ Held'
<1> DEFINE given == {cache.item[k] : k \in Live(cache)}
<1>1. cache \in CacheType(Aggregates) /\ Live(cache) \subseteq Keys
  BY DEF TypeOK, CacheType, Live
<1>2. cache' = ClearDeque(OutDeque(ClearCache(cache)))
  BY DEF Clear
<1>3. cache'.out = {} /\ \A k \in Keys : cache'.item[k] = {}
  BY <1>1, <1>2, ClearProperties
<1>4. given \subseteq cache.out \cup {cache.item[k] : k \in Keys}
  BY <1>1
<1>5. finals' = finals \cup given /\ UNCHANGED <<todo, accepted, refused, requests>>
  BY DEF Clear
<1>6. UNION given = InItems(Live(cache))
  BY DEF InItems
<1> HIDE DEF given
<1>7. (UNION requests') \cup finals' = (UNION requests) \cup finals \cup given
  BY <1>5
<1>8. \A k \in Keys : \/ cache'.item[k] = {}
                      \/ /\ cache'.item[k] = cache.item[k]
                         /\ \A a \in given : cache.item[k] \cap a = {}
  BY <1>3
<1>9. UNCHANGED <<todo, accepted, refused>>
  BY <1>5
<1>10. /\ CountedOnce'
       /\ Held' \subseteq Held
       /\ Delivered' = Delivered \cup UNION given
       /\ (UNION given) \subseteq Held \ Held'
  BY <1>3, <1>4, <1>7, <1>8, <1>9, HandOutCounted
<1>11. QED
  BY <1>6, <1>10

\* Every step keeps the operations counted once.
LEMMA NextCounted == TypeOK /\ CountedOnce /\ [Next]_vars => CountedOnce'
<1> SUFFICES ASSUME TypeOK, CountedOnce, [Next]_vars PROVE CountedOnce'
  OBVIOUS
<1>1. CASE Tick
  <2>1. cache'.item = cache.item /\ cache'.out = cache.out
    BY <1>1, ElapseProperties DEF Tick, TypeOK
  <2>2. UNCHANGED <<InItems(Keys), Waiting, Delivered, Held>>
    BY <1>1, <2>1 DEF Tick, InItems, Waiting, Delivered, Held
  <2>3. QED
    BY <1>1, <2>1, <2>2 DEF Tick, CountedOnce
<1>2. CASE ReportRefused
  <2>1. PICK req \in Requests : refused' = refused \cup OpsOf(req)
    BY <1>2 DEF ReportRefused
  <2>2. OpsOf(req) \cap (accepted \cup refused) = {}
    BY <2>1, RequestsAreFresh
  <2>3. UNCHANGED <<InItems(Keys), Waiting, Held>>
    BY <1>2 DEF ReportRefused, InItems, Waiting, Held
  <2>4. Delivered' = Delivered \cup OpsOf(req)
    BY <1>2, <2>1 DEF ReportRefused, Delivered
  <2>5. Held \subseteq accepted \cup refused /\ Delivered \subseteq accepted \cup refused
    BY DEF CountedOnce
  <2>6. (Held \cup Delivered)' \subseteq (accepted \cup refused)'
    BY <1>2, <2>1, <2>3, <2>4, <2>5 DEF ReportRefused
  <2>7. (Held \cap Delivered)' = {}
    BY <2>2, <2>3, <2>4, <2>5 DEF CountedOnce
  <2>8. (refused \cap ((UNION UNION requests) \cup (UNION finals)))' = {}
    <3>1. UNCHANGED <<requests, finals>>
      BY <1>2 DEF ReportRefused
    <3>2. (UNION UNION requests) \cup (UNION finals) \subseteq accepted \cup refused
      BY <2>5 DEF Delivered
    <3>3. refused \cap ((UNION UNION requests) \cup (UNION finals)) = {}
      BY DEF CountedOnce
    <3> HIDE DEF Requests
    <3>4. QED
      BY <3>1, <3>2, <3>3, <2>1, <2>2
  <2>9. QED
    BY <1>2, <2>3, <2>6, <2>7, <2>8 DEF ReportRefused, CountedOnce
<1>3. CASE ReportBegin
  <2>1. PICK req \in Requests :
          todo' = KeyBySignature(req) /\ accepted' = accepted \cup OpsOf(req)
    BY <1>3 DEF ReportBegin
  <2>2. /\ todo' \cap (accepted \cup refused) = {}
        /\ todo' \subseteq accepted'
    BY <2>1, RequestsAreFresh
  <2>3. UNCHANGED <<InItems(Keys), Waiting, Delivered>>
    BY <1>3 DEF ReportBegin, InItems, Waiting, Delivered
  <2>4. Held' = InItems(Keys) \cup Waiting \cup todo' /\ todo = {}
    BY <1>3, <2>3 DEF Held, ReportBegin, Unlocked
  <2>5. Held \subseteq accepted \cup refused /\ Delivered \subseteq accepted \cup refused
    BY DEF CountedOnce
  <2>6. InItems(Keys) \subseteq Held /\ Waiting \subseteq Held
    BY DEF Held
  <2>7. (Held \cup Delivered)' \subseteq (accepted \cup refused)'
    BY <1>3, <2>1, <2>2, <2>3, <2>4, <2>5, <2>6 DEF ReportBegin
  <2>8. (Held \cap Delivered)' = {}
    BY <2>2, <2>3, <2>4, <2>5, <2>6 DEF CountedOnce
  <2>9. (todo \cap (InItems(Keys) \cup Waiting))' = {}
    BY <2>2, <2>3, <2>5, <2>6
  <2>10. QED
    BY <1>3, <2>3, <2>7, <2>8, <2>9 DEF ReportBegin, CountedOnce
<1>4. CASE ReportStep
  <2>1. PICK op \in todo : cache' = Added(op) /\ todo' = todo \ {op}
    BY <1>4 DEF ReportStep
  <2> DEFINE new == IF SigOf[op] \in Live(cache) THEN cache.item[SigOf[op]] \cup {op} ELSE {op}
  <2>2. /\ cache'.out = cache.out
        /\ cache'.item = [cache.item EXCEPT ![SigOf[op]] = new]
    BY <2>1, AddProperties DEF TypeOK
  <2>3. new = {op} \/ new = cache.item[SigOf[op]] \cup {op}
    OBVIOUS
  <2> HIDE DEF new
  <2>4. UNCHANGED <<accepted, refused, requests, finals>>
    BY <1>4 DEF ReportStep
  <2>5. QED
    BY <2>1, <2>2, <2>3, <2>4, StepCounted
<1>5. CASE ReportRaises
  BY <1>5, RaisesCounted
<1>6. CASE Flush
  BY <1>6, FlushCounted
<1>7. CASE Clear
  BY <1>7, ClearCounted
<1>8. CASE UNCHANGED vars
  BY <1>8 DEF vars, CountedOnce, Held, Delivered, InItems, Waiting
<1>9. QED
  BY <1>1, <1>2, <1>3, <1>4, <1>5, <1>6, <1>7, <1>8 DEF Next

LEMMA InitCounted == Init => CountedOnce
BY DEF Init, EmptyCache, CountedOnce, Held, Delivered, InItems, Waiting

\* No operation is ever counted twice: merging, flushing and clearing, in any
\* order, hand each operation out at most once and never keep a copy of it.
THEOREM CountedOnceHolds == Spec => []CountedOnce
<1>1. QED
  BY InitTypeOK, NextTypeOK, InitCounted, NextCounted, PTL DEF Spec

-----------------------------------------------------------------------------
(* Merging does not postpone a flush.  The invariant needs to know that an *)
(* operation not merged yet has age 0, so that it fits in any live entry.  *)

FreshIsYoung ==
  \A o \in (Ops \ (accepted \cup refused)) \cup todo : age[o] = 0

IntervalInv == HeldWithinInterval /\ FreshIsYoung

\* Letting d clock units pass keeps both parts, for entries that lose d units.
LEMMA AgedWithinInterval ==
  ASSUME TypeOK, CountedOnce, IntervalInv, NEW d \in Nat,
         age' = Aged(d),
         \A k \in Live(cache)' : /\ k \in Live(cache)
                                 /\ cache'.item[k] = cache.item[k]
                                 /\ Ttl > 0 => cache'.left[k] = cache.left[k] - d
                                 /\ Ttl > 0 => cache'.left[k] > 0,
         UNCHANGED <<todo, accepted, refused>>
  PROVE  IntervalInv'
<1>1. age \in [Ops -> 0..FlushInterval] /\ Live(cache) \subseteq Keys
  BY DEF TypeOK, CacheType, Live
<1>2. \A k \in Live(cache) : cache.left[k] \in 0..Ttl /\ cache.item[k] \subseteq Ops
  BY <1>1 DEF TypeOK, CacheType, Aggregates
<1>3. HeldWithinInterval'
  <2> SUFFICES ASSUME NEW k \in Live(cache)', NEW o \in cache'.item[k], Ttl > 0
               PROVE  age'[o] + cache'.left[k] <= Ttl
    BY DEF HeldWithinInterval
  <2>1. k \in Live(cache) /\ o \in cache.item[k] /\ k \in Keys /\ o \in Ops
    BY <1>1, <1>2
  <2>2. age[o] + cache.left[k] <= Ttl
    BY <2>1 DEF IntervalInv, HeldWithinInterval
  <2>3. cache'.left[k] = cache.left[k] - d /\ cache'.left[k] > 0
    OBVIOUS
  <2>4. o \in InItems(Keys)
    BY <2>1 DEF InItems
  <2>5. age'[o] = IF age[o] + d < Ttl THEN age[o] + d ELSE Ttl
    BY <2>1, <2>4 DEF Aged
  <2>6. cache.left[k] \in Nat /\ age[o] \in Nat
    BY <1>1, <1>2, <2>1
  <2>7. QED
    BY <2>2, <2>3, <2>5, <2>6
<1>4. FreshIsYoung'
  <2> SUFFICES ASSUME NEW o \in (Ops \ (accepted \cup refused)) \cup todo
               PROVE  age'[o] = 0
    BY DEF FreshIsYoung
  <2>1. o \in Ops
    BY DEF TypeOK
  <2>2. o \notin InItems(Keys)
    BY DEF CountedOnce, Held
  <2>3. QED
    BY <2>1, <2>2 DEF Aged
<1>5. QED
  BY <1>3, <1>4 DEF IntervalInv

\* Caching or merging an operation keeps both parts: a new entry lives for an
\* interval, and a live one keeps its expiry.
LEMMA AddWithinInterval ==
  ASSUME TypeOK, IntervalInv, NEW op \in todo, cache' = Added(op),
         UNCHANGED <<age, accepted, refused>>, todo' \subseteq todo
  PROVE  IntervalInv'
<1>0. /\ cache \in CacheType(Aggregates) /\ Live(cache) \subseteq Keys
      /\ age \in [Ops -> 0..FlushInterval]
      /\ todo \subseteq Ops
      /\ \A k \in Live(cache) : cache.left[k] \in 0..Ttl
  BY DEF TypeOK, CacheType, Live
<1> DEFINE k == SigOf[op]
           new == IF k \in Live(cache) THEN cache.item[k] \cup {op} ELSE {op}
<1>1. op \in Ops /\ k \in Keys /\ age[op] = 0
  BY <1>0 DEF IntervalInv, FreshIsYoung
<1>2. /\ cache'.item = [cache.item EXCEPT ![k] = new]
      /\ Live(cache)' \subseteq Live(cache) \cup {k}
      /\ \A j \in Live(cache)' :
           cache'.left[j] = IF j = k /\ j \notin Live(cache) THEN Ttl ELSE cache.left[j]
  <2>1. Live(cache)' = Live(Added(op))
    BY DEF Live
  <2>2. QED
    BY <1>0, <1>1, <2>1, AddProperties
<1>3. \A o \in new : o = op \/ (k \in Live(cache) /\ o \in cache.item[k])
  OBVIOUS
<1> HIDE DEF k, new
<1>4. HeldWithinInterval'
  <2> SUFFICES ASSUME NEW j \in Live(cache)', NEW o \in cache'.item[j], Ttl > 0
               PROVE  age'[o] + cache'.left[j] <= Ttl
    BY DEF HeldWithinInterval
  <2>1. j \in Keys /\ cache'.item[j] = IF j = k THEN new ELSE cache.item[j]
    BY <1>0, <1>1, <1>2 DEF CacheType
  <2>2. CASE j \in Live(cache) /\ o \in cache.item[j]
    <3>1. age[o] + cache.left[j] <= Ttl
      BY <2>2 DEF IntervalInv, HeldWithinInterval
    <3>2. QED
      BY <3>1, <2>2, <1>2
  <2>3. CASE ~(j \in Live(cache) /\ o \in cache.item[j])
    <3>1. j = k /\ o = op
      BY <2>1, <2>3, <1>2, <1>3
    <3>2. cache'.left[j] \in 0..Ttl
      BY <3>1, <1>2, <1>0
    <3>3. QED
      BY <3>1, <3>2, <1>1
  <2>4. QED
    BY <2>2, <2>3
<1>5. FreshIsYoung'
  BY DEF IntervalInv, FreshIsYoung
<1>6. QED
  BY <1>4, <1>5 DEF IntervalInv

\* Every step keeps live entries within the interval.
LEMMA NextIntervalInv ==
  TypeOK /\ CountedOnce /\ IntervalInv /\ [Next]_vars => IntervalInv'
<1> SUFFICES ASSUME TypeOK, CountedOnce, IntervalInv, [Next]_vars PROVE IntervalInv'
  OBVIOUS
<1>0. /\ cache \in CacheType(Aggregates) /\ Live(cache) \subseteq Keys
      /\ age \in [Ops -> 0..FlushInterval]
      /\ todo \subseteq Ops
      /\ \A k \in Live(cache) : cache.left[k] \in 0..Ttl
  BY DEF TypeOK, CacheType, Live
<1>1. CASE Tick
  <2>1. /\ cache'.item = cache.item /\ cache'.stored = cache.stored
        /\ \A k \in Keys : cache'.left[k] = IF cache.left[k] > 1 THEN cache.left[k] - 1 ELSE 0
    BY <1>0, <1>1, ElapseProperties DEF Tick
  <2>2. ASSUME NEW k \in Live(cache)'
        PROVE  /\ k \in Live(cache)
               /\ cache'.item[k] = cache.item[k]
               /\ Ttl > 0 => cache'.left[k] = cache.left[k] - 1
               /\ Ttl > 0 => cache'.left[k] > 0
    <3>1. k \in cache.stored /\ k \in Keys /\ (Ttl > 0 => cache'.left[k] > 0)
      BY <2>1, <1>0 DEF Live, CacheType
    <3>2. Ttl > 0 => cache.left[k] > 1 /\ cache'.left[k] = cache.left[k] - 1
      BY <2>1, <3>1
    <3>3. k \in Live(cache)
      <4>1. cache.left[k] \in Nat
        BY <3>1, <1>0 DEF CacheType
      <4>2. QED
        BY <3>1, <3>2, <4>1 DEF Live
    <3>4. QED
      BY <2>1, <3>1, <3>2, <3>3
  <2>3. age' = Aged(1) /\ UNCHANGED <<todo, accepted, refused>>
    BY <1>1 DEF Tick
  <2>4. QED
    BY <2>2, <2>3, AgedWithinInterval
<1>2. CASE ReportRefused
  <2>1. UNCHANGED <<HeldWithinInterval, age, todo, accepted>> /\ refused \subseteq refused'
    BY <1>2 DEF ReportRefused, HeldWithinInterval, Live
  <2>2. QED
    BY <2>1 DEF IntervalInv, FreshIsYoung
<1>3. CASE ReportBegin
  <2>1. PICK req \in Requests :
          todo' = KeyBySignature(req) /\ accepted' = accepted \cup OpsOf(req)
    BY <1>3 DEF ReportBegin
  <2>2. todo' \subseteq Ops \ (accepted \cup refused) /\ accepted \subseteq accepted'
    BY <2>1, RequestsAreFresh
  <2>3. UNCHANGED <<HeldWithinInterval, age, refused>>
    BY <1>3 DEF ReportBegin, HeldWithinInterval, Live
  <2>4. QED
    BY <2>2, <2>3 DEF IntervalInv, FreshIsYoung
<1>4. CASE ReportStep
  <2>1. PICK op \in todo : cache' = Added(op) /\ todo' = todo \ {op}
    BY <1>4 DEF ReportStep
  <2>2. UNCHANGED <<age, accepted, refused>> /\ todo' \subseteq todo
    BY <1>4, <2>1 DEF ReportStep
  <2>3. QED
    BY <2>1, <2>2, AddWithinInterval
<1>5. CASE ReportRaises
  <2>1. PICK op \in todo : cache' = cache \/ cache' = Added(op)
    BY <1>5 DEF ReportRaises
  <2>2. UNCHANGED <<age, accepted, refused>> /\ todo' \subseteq todo
    BY <1>5 DEF ReportRaises
  <2>3. CASE cache' = cache
    BY <2>2, <2>3 DEF IntervalInv, HeldWithinInterval, FreshIsYoung, Live
  <2>4. CASE cache' = Added(op)
    BY <2>2, <2>4, AddWithinInterval
  <2>5. QED
    BY <2>1, <2>3, <2>4
<1>6. CASE Flush
  <2>1. PICK d \in 0..FlushInterval :
          /\ cache' = ClearDeque(OutDeque(Elapse(OutDeque(cache), d)))
          /\ age' = Aged(d)
    BY <1>6 DEF Flush
  <2>2. /\ \A k \in cache'.stored : /\ k \in Live(cache)
                                    /\ cache'.item[k] = cache.item[k]
                                    /\ Ttl > 0 => cache'.left[k] = cache.left[k] - d
    BY <1>0, <2>1, FlushProperties
  <2>3. \A k \in Live(cache)' : k \in cache'.stored /\ (Ttl > 0 => cache'.left[k] > 0)
    BY DEF Live
  <2>4. UNCHANGED <<todo, accepted, refused>>
    BY <1>6 DEF Flush
  <2>5. d \in Nat
    OBVIOUS
  <2>6. QED
    BY <2>1, <2>2, <2>3, <2>4, <2>5, AgedWithinInterval
<1>7. CASE Clear
  <2>1. cache' \in CacheType(Aggregates) /\ cache'.stored = {}
    BY <1>0, <1>7, ClearProperties DEF Clear
  <2>2. Live(cache)' = {}
    BY <2>1 DEF Live
  <2>3. QED
    BY <1>7, <2>2 DEF Clear, IntervalInv, HeldWithinInterval, FreshIsYoung
<1>8. CASE UNCHANGED vars
  BY <1>8 DEF vars, IntervalInv, HeldWithinInterval, FreshIsYoung, Live
<1>9. QED
  BY <1>1, <1>2, <1>3, <1>4, <1>5, <1>6, <1>7, <1>8 DEF Next

LEMMA InitIntervalInv == Init => IntervalInv
BY DEF Init, EmptyCache, IntervalInv, HeldWithinInterval, FreshIsYoung, Live

\* However often its signature is reported, an operation is out of a live entry
\* within flush_interval of being merged into it.
THEOREM HeldWithinIntervalHolds == Spec => []HeldWithinInterval
<1>1. IntervalInv => HeldWithinInterval
  BY DEF IntervalInv
<1>2. QED
  BY <1>1, InitTypeOK, NextTypeOK, InitCounted, NextCounted, InitIntervalInv,
     NextIntervalInv, PTL DEF Spec

-----------------------------------------------------------------------------
(* What single steps may not do.                                           *)

\* Caching a new signature, even in a full cache, loses nothing a live entry
\* or the deque holds.
THEOREM ReportKeepsLiveEntriesHolds == Spec => ReportKeepsLiveEntries
<1>1. TypeOK /\ [Next]_vars =>
        [ReportStep \/ ReportRaises => InItems(Live(cache)) \cup Waiting \subseteq Held']_vars
  <2> SUFFICES ASSUME TypeOK, ReportStep \/ ReportRaises
               PROVE  InItems(Live(cache)) \cup Waiting \subseteq Held'
    OBVIOUS
  <2>6. CASE cache' = cache
    BY <2>6 DEF InItems, Waiting, Held, Live, CacheType, TypeOK
  <2> SUFFICES ASSUME NEW op \in todo, cache' = Added(op)
               PROVE  InItems(Live(cache)) \cup Waiting \subseteq Held'
    BY <2>6 DEF ReportStep, ReportRaises
  <2> DEFINE k == SigOf[op]
             new == IF k \in Live(cache) THEN cache.item[k] \cup {op} ELSE {op}
  <2>2. /\ cache'.out = cache.out
        /\ cache'.item = [cache.item EXCEPT ![k] = new]
        /\ k \in Live(cache) => cache.item[k] \subseteq new
        /\ Live(cache) \subseteq Keys
    BY AddProperties DEF TypeOK, Live, CacheType
  <2> HIDE DEF k, new
  <2>3. ASSUME NEW j \in Live(cache), NEW o \in cache.item[j] PROVE o \in Held'
    <3>1. j \in Keys /\ cache'.item[j] = IF j = k THEN new ELSE cache.item[j]
      BY <2>2 DEF TypeOK, CacheType
    <3>2. o \in cache'.item[j]
      BY <3>1, <2>2
    <3>3. QED
      BY <3>1, <3>2 DEF Held, InItems
  <2>4. Waiting \subseteq Held'
    BY <2>2 DEF Held, Waiting
  <2>5. QED
    BY <2>3, <2>4 DEF InItems
<1>2. QED
  BY <1>1, InitTypeOK, NextTypeOK, PTL DEF Spec, ReportKeepsLiveEntries

\* Whatever had expired or been evicted when a flush starts is in the requests
\* it returns.
THEOREM FlushHandsOutExpiredHolds == Spec => FlushHandsOutExpired
<1>1. TypeOK /\ CountedOnce /\ [Next]_vars =>
        [Flush => InItems(Keys \ Live(cache)) \cup Waiting \subseteq Delivered']_vars
  <2> SUFFICES ASSUME TypeOK, CountedOnce, Flush
               PROVE  InItems(Keys \ Live(cache)) \cup Waiting \subseteq Delivered'
    OBVIOUS
  <2>1. QED
    BY FlushCounted
<1>2. QED
  BY <1>1, InitTypeOK, NextTypeOK, InitCounted, NextCounted,
     PTL DEF Spec, FlushHandsOutExpired

-----------------------------------------------------------------------------
(* The aggregator implements the ledger.                                   *)

\* Every step is a step of the ledger, or changes nothing it can see.
LEMMA NextIsLedgerStep ==
  TypeOK /\ CountedOnce /\ [Next]_vars => [Ledger!Next]_(Ledger!ledger)
<1> SUFFICES ASSUME TypeOK, CountedOnce, [Next]_vars
             PROVE  Ledger!Next \/ UNCHANGED Ledger!ledger
  OBVIOUS
<1> USE DEF Ledger!Next, Ledger!ledger
<1>0. (accepted \cup refused)' \subseteq Ops
  BY NextTypeOK DEF TypeOK
<1>1. CASE Tick
  <2>1. cache'.item = cache.item /\ cache'.out = cache.out
    BY <1>1, ElapseProperties DEF Tick, TypeOK
  <2>2. QED
    BY <1>1, <2>1 DEF Tick, InItems, Waiting, Delivered, Held
<1>2. CASE ReportRefused
  <2>1. PICK req \in Requests : refused' = refused \cup OpsOf(req)
    BY <1>2 DEF ReportRefused
  <2>2. OpsOf(req) \cap (accepted \cup refused) = {}
    BY <2>1, RequestsAreFresh
  <2>3. Held' = Held /\ accepted' = accepted /\ Delivered' = Delivered \cup OpsOf(req)
    BY <1>2, <2>1 DEF ReportRefused, InItems, Waiting, Held, Delivered
  <2>4. Ledger!Refuse
    BY <2>1, <2>2, <2>3 DEF Ledger!Refuse
  <2>5. QED
    BY <1>0, <2>4
<1>3. CASE ReportBegin
  <2>1. PICK req \in Requests :
          todo' = KeyBySignature(req) /\ accepted' = accepted \cup OpsOf(req)
    BY <1>3 DEF ReportBegin
  <2>2. /\ todo' \cap (accepted \cup refused) = {}
        /\ todo' \subseteq accepted' /\ refused' = refused
    BY <1>3, <2>1, RequestsAreFresh DEF ReportBegin
  <2>3. Delivered' = Delivered
    BY <1>3 DEF ReportBegin, Delivered
  <2>4. Held' = Held \cup todo'
    BY <1>3 DEF ReportBegin, Unlocked, Held, InItems, Waiting
  <2>5. Ledger!Take
    BY <2>1, <2>2, <2>3, <2>4 DEF Ledger!Take
  <2>6. QED
    BY <1>0, <2>5
<1>4. CASE ReportStep
  <2>1. PICK op \in todo : cache' = Added(op) /\ todo' = todo \ {op}
    BY <1>4 DEF ReportStep
  <2> DEFINE new == IF SigOf[op] \in Live(cache) THEN cache.item[SigOf[op]] \cup {op} ELSE {op}
  <2>2. /\ cache'.out = cache.out
        /\ cache'.item = [cache.item EXCEPT ![SigOf[op]] = new]
    BY <2>1, AddProperties DEF TypeOK
  <2>3. new = {op} \/ new = cache.item[SigOf[op]] \cup {op}
    OBVIOUS
  <2> HIDE DEF new
  <2>4. UNCHANGED <<accepted, refused, requests, finals>>
    BY <1>4 DEF ReportStep
  <2>5. Held' \subseteq Held /\ Delivered' = Delivered
    BY <2>1, <2>2, <2>3, <2>4, StepCounted
  <2>6. Ledger!Resolve
    BY <2>4, <2>5 DEF Ledger!Resolve
  <2>7. QED
    BY <1>0, <2>6
<1>5. CASE ReportRaises
  <2>1. UNCHANGED <<accepted, refused>>
    BY <1>5 DEF ReportRaises
  <2>2. Ledger!Resolve
    BY <1>5, <2>1, RaisesCounted DEF Ledger!Resolve
  <2>3. QED
    BY <1>0, <2>2
<1>6. CASE Flush
  <2>1. UNCHANGED <<accepted, refused>>
    BY <1>6 DEF Flush
  <2>2. Ledger!Resolve
    BY <1>6, <2>1, FlushCounted DEF Ledger!Resolve
  <2>3. QED
    BY <1>0, <2>2
<1>7. CASE Clear
  <2>1. UNCHANGED <<accepted, refused>>
    BY <1>7 DEF Clear
  <2>2. Ledger!Resolve
    BY <1>7, <2>1, ClearCounted DEF Ledger!Resolve
  <2>3. QED
    BY <1>0, <2>2
<1>8. CASE UNCHANGED vars
  BY <1>8 DEF vars, Held, Delivered, InItems, Waiting
<1>9. QED
  BY <1>1, <1>2, <1>3, <1>4, <1>5, <1>6, <1>7, <1>8 DEF Next

\* The aggregator keeps the promise of the ledger: what it hands out was
\* reported, is handed out once, and is not held any more.
THEOREM ImplementsLedgerHolds == Spec => ImplementsLedger
<1>1. Init => Ledger!Init
  BY DEF Init, EmptyCache, Ledger!Init, Held, Delivered, InItems, Waiting
<1>2. QED
  BY <1>1, InitTypeOK, NextTypeOK, InitCounted, NextCounted, NextIsLedgerStep,
     PTL DEF Spec, ImplementsLedger, Ledger!Spec
=============================================================================
