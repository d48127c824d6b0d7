------------------------ MODULE CheckAggregatorProofs ------------------------
(***************************************************************************)
(* Proofs about the check aggregator: types, the age of what is answered,  *)
(* that no request is handed out twice and no denied one at all, that      *)
(* refreshes are spaced, and that the aggregator implements the ledger of  *)
(* module RequestLedger.                                                   *)
(*                                                                         *)
(* The first lemmas say how each action changes the items of the cache:    *)
(* time makes them older, an answer or a request changes one of them,      *)
(* flush() and clear() take some away.                                     *)
(***************************************************************************)
EXTENDS CheckAggregator, DequeOutCacheProofs

USE CheckAssumption, NoneIsNoItem

\* Capped clocks stay in their range and in their order.
LEMMA LaterProperties ==
  ASSUME NEW limit \in Nat, NEW t \in 0..limit, NEW d \in Nat
  PROVE  /\ Later(t, d, limit) \in 0..limit
         /\ Later(t, d, limit) <= t + d
         /\ \A u \in 0..limit : t <= u => Later(t, d, limit) <= Later(u, d, limit)
BY DEF Later

\* Time makes items older and closer to their expiry.
LEMMA PassProperties ==
  ASSUME NEW c \in CacheType(Items), NEW d \in Nat
  PROVE  /\ Pass(c, d) \in CacheType(Items)
         /\ Pass(c, d).out = c.out
         /\ Pass(c, d).stored = c.stored
         /\ Tracked(Pass(c, d)) = Tracked(c)
         /\ \A k \in Keys :
              /\ Pass(c, d).left[k] = IF c.left[k] > d THEN c.left[k] - d ELSE 0
              /\ Pass(c, d).item[k] =
                   IF c.item[k] = NoItem THEN NoItem
                   ELSE [c.item[k] EXCEPT !.age = Later(c.item[k].age, d, FlushInterval)]
<1> DEFINE e == Elapse(c, d)
           old(k) == [c.item[k] EXCEPT !.age = Later(c.item[k].age, d, FlushInterval)]
           items == [k \in Keys |-> IF c.item[k] = NoItem THEN NoItem ELSE old(k)]
<1>1. /\ e \in CacheType(Items) /\ e.item = c.item /\ e.out = c.out
      /\ e.stored = c.stored
      /\ \A k \in Keys : e.left[k] = IF c.left[k] > d THEN c.left[k] - d ELSE 0
  BY ElapseProperties
<1>2. Pass(c, d) = [e EXCEPT !.item = items]
  BY DEF Pass
<1>3. \A k \in Keys : c.item[k] # NoItem => old(k) \in Items
  <2> SUFFICES ASSUME NEW k \in Keys, c.item[k] # NoItem PROVE old(k) \in Items
    OBVIOUS
  <2>1. c.item[k] \in Items
    BY DEF CacheType
  <2>2. Later(c.item[k].age, d, FlushInterval) \in 0..FlushInterval
    BY <2>1, LaterProperties DEF Items
  <2>3. QED
    BY <2>1, <2>2 DEF Items
<1>4. items \in [Keys -> Items \cup {NoItem}]
  BY <1>3
<1>5. \A k \in Keys : items[k] # NoItem <=> c.item[k] # NoItem
  BY <1>3
<1> HIDE DEF e, old
<1>6. \A k \in Keys : items[k] = IF c.item[k] = NoItem THEN NoItem ELSE old(k)
  OBVIOUS
<1> HIDE DEF items
<1>7. /\ Pass(c, d) \in CacheType(Items) /\ Pass(c, d).item = items
      /\ Pass(c, d).out = e.out /\ Pass(c, d).stored = e.stored
      /\ Pass(c, d).left = e.left
  BY <1>1, <1>2, <1>4 DEF CacheType
<1>8. Tracked(Pass(c, d)) = Tracked(c)
  BY <1>5, <1>7 DEF Tracked
<1>9. QED
  BY <1>1, <1>6, <1>7, <1>8 DEF old

\* A request that is answered from the cache changes the item it is answered with.
LEMMA AnswerProperties ==
  ASSUME cache \in CacheType(Items), NEW k \in Live(cache), NEW v \in Items,
         cache' = Change(cache, k, v)
  PROVE  /\ cache' \in CacheType(Items)
         /\ cache'.item = [cache.item EXCEPT ![k] = v]
         /\ cache'.out = cache.out
         /\ cache'.stored = cache.stored
         /\ cache'.left = cache.left
         /\ Live(cache') = Live(cache)
BY ChangeProperties DEF Live

\* An answer of the service is stored in the item of its key, new or not, which
\* lives for a full ttl; what was merged into a live item is kept.
LEMMA ResponseProperties ==
  ASSUME cache \in CacheType(Items), cache.stored \subseteq Tracked(cache),
         NEW k \in Keys, NEW a \in Answers, AddResponse(k, a)
  PROVE  \/ cache' = cache
         \/ \E v \in Items :
              /\ v.answer = a /\ v.age = 0
              /\ v.agg = {} \/ (k \in Live(cache) /\ v.agg = cache.item[k].agg)
              /\ cache' \in CacheType(Items)
              /\ cache'.item = [cache.item EXCEPT ![k] = v]
              /\ cache'.out = cache.out
              /\ cache'.left[k] = Ttl
              /\ cache'.stored \subseteq Live(cache) \cup {k}
              /\ Live(cache') \subseteq Live(cache) \cup {k}
              /\ \A j \in Live(cache') \ {k} : cache'.left[j] = cache.left[j]
<1> DEFINE v == IF k \in Live(cache)
                THEN [ItemOf(k) EXCEPT !.answer = a, !.age = 0, !.flushing = FALSE]
                ELSE NewItem(a)
<1>1. CASE ~Caching
  BY <1>1 DEF AddResponse, WithResponse
<1>2. CASE Caching
  <2>1. cache' = Put(cache, k, v)
    BY <1>2 DEF AddResponse, WithResponse
  <2>2. k \in Live(cache) => ItemOf(k) \in Items
    BY DEF Live, Tracked, CacheType, ItemOf
  <2>3. CASE k \in Live(cache)
    <3> DEFINE i == ItemOf(k)
    <3>1. i \in Items /\ v = [i EXCEPT !.answer = a, !.age = 0, !.flushing = FALSE]
      BY <2>2, <2>3
    <3>2. i.agg = cache.item[k].agg
      BY DEF ItemOf
    <3> HIDE DEF i, v
    <3>3. v = [answer |-> a, age |-> 0, flushing |-> FALSE, agg |-> i.agg]
      BY <3>1 DEF Items
    <3>4. i.agg \in SUBSET Reqs
      BY <3>1 DEF Items
    <3>5. v \in Items /\ v.answer = a /\ v.age = 0 /\ v.agg = i.agg
      BY <3>3, <3>4 DEF Items
    <3>6. /\ cache' \in CacheType(Items)
          /\ cache'.item = [cache.item EXCEPT ![k] = v]
          /\ cache'.out = cache.out
          /\ cache'.left[k] = Ttl
          /\ cache'.stored \subseteq Live(cache) \cup {k}
          /\ Live(cache') \subseteq Live(cache) \cup {k}
          /\ \A j \in Live(cache') \ {k} : cache'.left[j] = cache.left[j]
      BY <2>1, <3>5, PutProperties
    <3>7. v.agg = {} \/ (k \in Live(cache) /\ v.agg = cache.item[k].agg)
      BY <2>3, <3>2, <3>5
    <3>8. QED
      BY <3>5, <3>6, <3>7
  <2>4. CASE k \notin Live(cache)
    <3>1. v = NewItem(a)
      BY <2>4
    <3> HIDE DEF v
    <3>2. v \in Items /\ v.answer = a /\ v.age = 0 /\ v.agg = {}
      BY <3>1 DEF Items, NewItem
    <3>3. QED
      BY <2>1, <3>2, PutProperties
  <2>5. QED
    BY <2>3, <2>4
<1>3. QED
  BY <1>1, <1>2

\* What flush() takes out, and what it leaves: live items, only older.
LEMMA FlushProperties ==
  ASSUME cache \in CacheType(Items), cache.stored \subseteq Tracked(cache), NEW d \in Nat
  PROVE  LET first == OutDeque(cache)
             after == ClearDeque(OutDeque(Pass(first, d)))
         IN  /\ first.out = cache.out \cup {cache.item[k] : k \in Tracked(cache) \ Live(cache)}
             /\ after \in CacheType(Items)
             /\ after.out = {}
             /\ \A k \in Tracked(after) :
                  /\ k \in Live(cache)
                  /\ after.item[k] = [cache.item[k] EXCEPT
                                        !.age = Later(cache.item[k].age, d, FlushInterval)]
             /\ after.stored \subseteq Tracked(after)
             /\ \A k \in Live(after) : Ttl > 0 => after.left[k] = cache.left[k] - d
<1> DEFINE first == OutDeque(cache)
           later == Pass(first, d)
           second == OutDeque(later)
           after == ClearDeque(second)
<1>1. /\ first \in CacheType(Items)
      /\ \A k \in Keys : first.item[k] = IF k \in Live(cache) THEN cache.item[k] ELSE NoItem
      /\ first.out = cache.out \cup {cache.item[k] : k \in Tracked(cache) \ Live(cache)}
      /\ first.left = cache.left
      /\ first.stored = Live(cache)
  BY OutDequeProperties
<1> HIDE DEF first
<1>2. /\ later \in CacheType(Items)
      /\ later.stored = first.stored
      /\ Tracked(later) = Tracked(first)
      /\ \A k \in Keys :
           /\ later.left[k] = IF first.left[k] > d THEN first.left[k] - d ELSE 0
           /\ later.item[k] = IF first.item[k] = NoItem THEN NoItem
                ELSE [first.item[k] EXCEPT !.age = Later(first.item[k].age, d, FlushInterval)]
  BY <1>1, PassProperties
<1> HIDE DEF later
<1>3. /\ second \in CacheType(Items)
      /\ \A k \in Keys : second.item[k] = IF k \in Live(later) THEN later.item[k] ELSE NoItem
      /\ second.left = later.left
      /\ second.stored = Live(later)
  BY <1>2, OutDequeProperties
<1> HIDE DEF second
<1>4. /\ after \in CacheType(Items)
      /\ after.out = {}
      /\ after.item = second.item
      /\ after.left = second.left
      /\ after.stored = second.stored
  BY <1>3, ClearDequeProperties
<1> HIDE DEF after
<1>5. /\ Live(later) \subseteq Live(cache) /\ Live(cache) \subseteq Keys
      /\ Live(cache) \subseteq Tracked(cache)
  BY <1>1, <1>2 DEF Live, CacheType
<1>6. \A k \in Keys : k \in Live(later) =>
        /\ k \in Live(cache) /\ first.item[k] = cache.item[k] /\ cache.item[k] # NoItem
        /\ later.item[k] = [cache.item[k] EXCEPT !.age = Later(cache.item[k].age, d, FlushInterval)]
        /\ later.item[k] # NoItem
  <2> SUFFICES ASSUME NEW k \in Keys, k \in Live(later)
               PROVE  /\ k \in Live(cache) /\ first.item[k] = cache.item[k]
                      /\ cache.item[k] # NoItem
                      /\ later.item[k] = [cache.item[k] EXCEPT
                           !.age = Later(cache.item[k].age, d, FlushInterval)]
                      /\ later.item[k] # NoItem
    OBVIOUS
  <2>1. k \in Live(cache) /\ first.item[k] = cache.item[k] /\ cache.item[k] # NoItem
    BY <1>1, <1>5 DEF Tracked
  <2>2. k \in Tracked(later)
    BY <2>1, <1>2 DEF Tracked
  <2>3. QED
    BY <2>1, <2>2, <1>2 DEF Tracked
<1>7. \A k \in Tracked(after) :
        /\ k \in Live(later) /\ k \in Keys
        /\ after.item[k] = later.item[k]
  BY <1>3, <1>4 DEF Tracked
<1>8. after.stored \subseteq Tracked(after)
  <2> SUFFICES ASSUME NEW k \in after.stored PROVE k \in Tracked(after)
    OBVIOUS
  <2>1. k \in Live(later) /\ k \in Keys
    BY <1>3, <1>4, <1>5
  <2>2. after.item[k] # NoItem
    BY <2>1, <1>3, <1>4, <1>6
  <2>3. QED
    BY <2>1, <2>2 DEF Tracked
<1>9. ASSUME NEW k \in Live(after), Ttl > 0 PROVE after.left[k] = cache.left[k] - d
  <2>1. k \in Live(later) /\ k \in Keys
    BY <1>3, <1>4, <1>5 DEF Live
  <2>2. later.left[k] > 0
    BY <2>1, <1>9 DEF Live
  <2>3. after.left[k] = IF cache.left[k] > d THEN cache.left[k] - d ELSE 0
    BY <2>1, <1>1, <1>2, <1>3, <1>4
  <2>4. after.left[k] > 0
    BY <2>2, <1>3, <1>4
  <2>5. QED
    BY <2>3, <2>4
<1>10. QED
  BY <1>1, <1>4, <1>6, <1>7, <1>8, <1>9 DEF first, later, second, after

\* The items that flush() extracts are requests that merge something.
LEMMA ExtractedProperties ==
  ASSUME NEW items \in SUBSET Items
  PROVE  /\ Extracted(items) \subseteq (SUBSET Reqs) \ {{}}
         /\ \A b \in Extracted(items) : \E i \in items : b = i.agg
BY DEF Extracted, Items

\* What a request changes in the item that answers it: at most, it is merged.
LEMMA UpdateProperties ==
  ASSUME NEW i \in Items, NEW r \in Reqs
  PROVE  LET u == UpdateRequest(i, r)
         IN  /\ u \in Items
             /\ u.answer = i.answer /\ u.age = i.age
             /\ u.agg = IF i.answer \in Errors THEN i.agg ELSE i.agg \cup {r}
<1>1. CASE i.answer \in Errors
  BY <1>1 DEF UpdateRequest
<1>2. CASE i.answer \notin Errors
  BY <1>2 DEF UpdateRequest, Items
<1>3. QED
  BY <1>1, <1>2

\* An item that is refreshed is as good as new.
LEMMA RefreshedItem ==
  ASSUME NEW u \in Items, NEW f \in BOOLEAN
  PROVE  LET v == [u EXCEPT !.age = 0, !.flushing = f]
         IN  v \in Items /\ v.answer = u.answer /\ v.agg = u.agg /\ v.age = 0
<1> DEFINE v == [u EXCEPT !.age = 0, !.flushing = f]
           w == [u EXCEPT !.age = 0]
<1>1. v = [w EXCEPT !.flushing = f]
  OBVIOUS
<1>2. w \in Items /\ w.answer = u.answer /\ w.agg = u.agg /\ w.age = 0
  BY DEF Items
<1> HIDE DEF v, w
<1>3. QED
  BY <1>1, <1>2 DEF Items, v

\* The two ways check() finds an answer in the cache.
LEMMA HitProperties ==
  ASSUME cache \in CacheType(Items), cache.stored \subseteq Tracked(cache),
         NEW r \in Reqs, CheckCached(r) \/ CheckRefreshes(r)
  PROVE  LET k == SigOf[r]
         IN  /\ k \in Live(cache) /\ k \in Tracked(cache) /\ r \notin Important
             /\ \E v \in Items :
                  /\ v.answer = cache.item[k].answer
                  /\ v.agg = IF v.answer \in Errors THEN cache.item[k].agg
                             ELSE cache.item[k].agg \cup {r}
                  /\ v.age = 0 \/ (v.age = cache.item[k].age /\ ~CheckRefreshes(r))
                  /\ cache' \in CacheType(Items)
                  /\ cache'.item = [cache.item EXCEPT ![k] = v]
                  /\ UNCHANGED <<cache.out, cache.stored, cache.left>>
                  /\ Live(cache') = Live(cache)
<1> DEFINE k == SigOf[r]
           i == cache.item[k]
           u == UpdateRequest(i, r)
<1>1. k \in Live(cache) /\ r \notin Important
  BY DEF CheckCached, CheckRefreshes
<1>2. k \in Tracked(cache) /\ i \in Items
  BY <1>1 DEF Live, Tracked, CacheType
<1>3. /\ u \in Items /\ u.answer = i.answer /\ u.age = i.age
      /\ u.agg = IF i.answer \in Errors THEN i.agg ELSE i.agg \cup {r}
  BY <1>2, UpdateProperties
<1>4. \E v \in Items :
        /\ v.answer = u.answer /\ v.agg = u.agg
        /\ v.age = 0 \/ (v.age = u.age /\ ~CheckRefreshes(r))
        /\ cache' = Change(cache, k, v)
  <2>1. CASE ~CheckRefreshes(r)
    BY <2>1, <1>3 DEF CheckCached, ItemOf
  <2>2. CASE CheckRefreshes(r)
    <3> DEFINE f == IF i.answer \in Errors THEN u.flushing ELSE TRUE
               v == [u EXCEPT !.age = 0, !.flushing = f]
    <3>1. cache' = Change(cache, k, v)
      BY <2>2 DEF CheckRefreshes, ItemOf
    <3>2. f \in BOOLEAN
      BY <1>3 DEF Items
    <3> HIDE DEF u, f
    <3>3. u \in Items
      BY <1>3
    <3> HIDE DEF v
    <3>4. v = [u EXCEPT !.age = 0, !.flushing = f]
      BY DEF v
    <3>5. v \in Items /\ v.answer = u.answer /\ v.agg = u.agg /\ v.age = 0
      BY <3>2, <3>3, <3>4, RefreshedItem
    <3>6. QED
      BY <3>1, <3>5
  <2>3. QED
    BY <2>1, <2>2
<1>5. PICK v \in Items :
        /\ v.answer = u.answer /\ v.agg = u.agg
        /\ v.age = 0 \/ (v.age = u.age /\ ~CheckRefreshes(r))
        /\ cache' = Change(cache, k, v)
  BY <1>4
<1>6. /\ cache' \in CacheType(Items)
      /\ cache'.item = [cache.item EXCEPT ![k] = v]
      /\ cache'.out = cache.out /\ cache'.stored = cache.stored
      /\ cache'.left = cache.left /\ Live(cache') = Live(cache)
  BY <1>1, <1>5, AnswerProperties
<1> HIDE DEF u, k, i
<1>7. /\ v.answer = i.answer
      /\ v.agg = IF v.answer \in Errors THEN i.agg ELSE i.agg \cup {r}
      /\ v.age = 0 \/ (v.age = i.age /\ ~CheckRefreshes(r))
  BY <1>3, <1>5
<1>8. QED
  BY <1>1, <1>2, <1>6, <1>7 DEF k, i

-----------------------------------------------------------------------------
(* Types.                                                                  *)

LEMMA InitTypeOK == Init => TypeOK
<1> SUFFICES ASSUME Init PROVE TypeOK
  OBVIOUS
<1>1. cache \in CacheType(Items)
  BY EmptyCacheType DEF Init
<1>2. cache.stored = {}
  BY DEF Init, EmptyCache
<1>3. QED
  BY <1>1, <1>2 DEF Init, TypeOK

\* The cache's part of the type invariant, whichever way it changes.
CacheOK == cache \in CacheType(Items) /\ cache.stored \subseteq Tracked(cache)

LEMMA HistoryType ==
  ASSUME heard \in [Keys -> [Answers -> 0..(Ttl + 1)]], quiet \in [Keys -> 0..FlushInterval],
         NEW d \in Nat, HistoryPasses(d)
  PROVE  /\ heard' \in [Keys -> [Answers -> 0..(Ttl + 1)]]
         /\ quiet' \in [Keys -> 0..FlushInterval]
<1>1. Ttl + 1 \in Nat
  OBVIOUS
<1>2. \A k \in Keys, a \in Answers : Later(heard[k][a], d, Ttl + 1) \in 0..(Ttl + 1)
  BY <1>1, LaterProperties
<1>3. \A k \in Keys : Later(quiet[k], d, FlushInterval) \in 0..FlushInterval
  BY LaterProperties
<1>4. QED
  BY <1>2, <1>3 DEF HistoryPasses

\* A response replaces at most the item of its key.
LEMMA ResponseOK ==
  ASSUME CacheOK, heard \in [Keys -> [Answers -> 0..(Ttl + 1)]],
         NEW k \in Keys, NEW a \in Answers, AddResponse(k, a)
  PROVE  CacheOK' /\ heard' \in [Keys -> [Answers -> 0..(Ttl + 1)]]
<1>1. heard' \in [Keys -> [Answers -> 0..(Ttl + 1)]]
  BY DEF AddResponse
<1>2. CASE cache' = cache
  BY <1>1, <1>2 DEF CacheOK, Tracked
<1>3. CASE cache' # cache
  <2>0. cache \in CacheType(Items) /\ cache.stored \subseteq Tracked(cache)
    BY DEF CacheOK
  <2>1. PICK v \in Items :
          /\ v.answer = a /\ v.age = 0
          /\ v.agg = {} \/ (k \in Live(cache) /\ v.agg = cache.item[k].agg)
          /\ cache' \in CacheType(Items)
          /\ cache'.item = [cache.item EXCEPT ![k] = v]
          /\ cache'.out = cache.out
          /\ cache'.left[k] = Ttl
          /\ cache'.stored \subseteq Live(cache) \cup {k}
          /\ Live(cache') \subseteq Live(cache) \cup {k}
          /\ \A j \in Live(cache') \ {k} : cache'.left[j] = cache.left[j]
    BY <1>3, <2>0, ResponseProperties
  <2>2. ASSUME NEW j \in cache'.stored PROVE j \in Keys /\ cache'.item[j] # NoItem
    <3>1. cache.item \in [Keys -> Items \cup {NoItem}]
      BY DEF CacheOK, CacheType
    <3>2. CASE j = k
      BY <2>1, <3>1, <3>2
    <3>3. CASE j # k
      <4>1. j \in Tracked(cache)
        BY <2>1, <2>2, <3>3 DEF CacheOK, Live
      <4>2. QED
        BY <2>1, <3>1, <3>3, <4>1 DEF Tracked
    <3>4. QED
      BY <3>2, <3>3
  <2>3. QED
    BY <1>1, <2>1, <2>2 DEF CacheOK, Tracked
<1>4. QED
  BY <1>2, <1>3

LEMMA NextTypeOK == TypeOK /\ [Next]_vars => TypeOK'
<1> SUFFICES ASSUME TypeOK, [Next]_vars PROVE TypeOK'
  OBVIOUS
<1> USE DEF TypeOK
<1>0. CacheOK
  BY DEF CacheOK
<1>1. CASE Tick
  <2>1. CacheOK'
    BY <1>1, PassProperties DEF Tick, CacheOK
  <2>2. QED
    BY <1>1, <2>1, HistoryType DEF Tick, CacheOK
<1>2. CASE Check
  <2>1. PICK r \in Reqs \ seen :
          /\ seen' = seen \cup {r}
          /\ CheckMissed(r) \/ CheckCached(r) \/ CheckRefreshes(r)
          /\ UNCHANGED <<batch, flushed, heard>>
    BY <1>2 DEF Check
  <2>2. CacheOK'
    <3>1. CASE CheckMissed(r)
      BY <1>0, <3>1 DEF CheckMissed, CacheOK, Tracked
    <3>2. CASE CheckCached(r) \/ CheckRefreshes(r)
      <4>1. PICK v \in Items :
              /\ cache' \in CacheType(Items)
              /\ cache'.item = [cache.item EXCEPT ![SigOf[r]] = v]
              /\ cache'.stored = cache.stored
        BY <3>2, HitProperties
      <4>2. ASSUME NEW j \in cache'.stored PROVE j \in Keys /\ cache'.item[j] # NoItem
        BY <4>1 DEF CacheType, Tracked
      <4>3. QED
        BY <4>1, <4>2 DEF CacheOK, Tracked
    <3>3. QED
      BY <2>1, <3>1, <3>2
  <2>3. /\ calls' \subseteq sent' /\ sent' \subseteq seen'
        /\ denied' \subseteq seen'
        /\ quiet' \in [Keys -> 0..FlushInterval]
    BY <2>1 DEF CheckMissed, CheckCached, CheckRefreshes, Send
  <2>4. QED
    BY <2>1, <2>2, <2>3 DEF CacheOK
<1>3. CASE CheckAnswered
  <2>1. PICK r \in calls, a \in Answers :
          /\ AddResponse(SigOf[r], a)
          /\ calls' = calls \ {r}
          /\ UNCHANGED <<batch, seen, sent, denied, flushed, quiet>>
    BY <1>3 DEF CheckAnswered
  <2>2. CacheOK' /\ heard' \in [Keys -> [Answers -> 0..(Ttl + 1)]]
    BY <1>0, <2>1, ResponseOK
  <2>3. QED
    BY <2>1, <2>2 DEF CacheOK
<1>4. CASE CheckFails
  BY <1>4 DEF CheckFails, Tracked
<1>5. CASE Flush
  <2>1. PICK d \in 0..Ttl :
          /\ cache' = ClearDeque(OutDeque(Pass(OutDeque(cache), d)))
          /\ HistoryPasses(d)
    BY <1>5 DEF Flush
  <2>2. CacheOK'
    BY <2>1, FlushProperties DEF CacheOK
  <2>3. HandedOut \subseteq (SUBSET Reqs) \ {{}}
    <3>1. OutDeque(cache) \in CacheType(Items)
      BY OutDequeProperties
    <3>2. OutDeque(cache).out \in SUBSET Items
      BY <3>1 DEF CacheType
    <3>3. QED
      BY <3>2, ExtractedProperties DEF HandedOut
  <2>4. /\ heard' \in [Keys -> [Answers -> 0..(Ttl + 1)]]
        /\ quiet' \in [Keys -> 0..FlushInterval]
    BY <2>1, HistoryType
  <2>5. QED
    BY <1>5, <2>2, <2>3, <2>4 DEF Flush, CacheOK
<1>6. CASE FlushAnswered
  <2>1. PICK b \in batch, a \in Answers :
          /\ \E r \in b : AddResponse(SigOf[r], a)
          /\ batch' = batch \ {b}
          /\ UNCHANGED <<calls, seen, sent, denied, flushed, quiet>>
    BY <1>6 DEF FlushAnswered
  <2>2. CacheOK' /\ heard' \in [Keys -> [Answers -> 0..(Ttl + 1)]]
    BY <1>0, <2>1, ResponseOK
  <2>3. QED
    BY <2>1, <2>2 DEF CacheOK
<1>7. CASE FlushFails
  BY <1>7 DEF FlushFails, Tracked
<1>8. CASE Clear
  <2>1. cache' \in CacheType(Items) /\ cache'.stored = {}
    BY <1>8, ClearAllProperties DEF Clear
  <2>2. QED
    BY <1>8, <2>1 DEF Clear
<1>9. CASE UNCHANGED vars
  BY <1>9 DEF vars, Tracked
<1>10. QED
  BY <1>1, <1>2, <1>3, <1>4, <1>5, <1>6, <1>7, <1>8, <1>9 DEF Next

\* Every reachable state is well typed.
THEOREM TypeCorrect == Spec => []TypeOK
<1>1. QED
  BY InitTypeOK, NextTypeOK, PTL DEF Spec

-----------------------------------------------------------------------------
(* How the items change, whatever the step.                                *)

\* Every request merged into an item was in it before, or is one of R that has
\* the item's signature.
GrowsBy(R) ==
  \A k \in Tracked(cache') : \A q \in cache'.item[k].agg :
    \/ k \in Tracked(cache) /\ q \in cache.item[k].agg
    \/ q \in R /\ k = SigOf[q]

\* An item that replaces that of one key, and merges no more than R.
LEMMA ReplacedGrows ==
  ASSUME cache \in CacheType(Items), NEW k \in Keys, NEW v \in Items, NEW R,
         cache'.item = [cache.item EXCEPT ![k] = v],
         \A q \in v.agg : \/ k \in Tracked(cache) /\ q \in cache.item[k].agg
                          \/ q \in R /\ k = SigOf[q]
  PROVE  GrowsBy(R)
<1> SUFFICES ASSUME NEW j \in Tracked(cache'), NEW q \in cache'.item[j].agg
             PROVE  \/ j \in Tracked(cache) /\ q \in cache.item[j].agg
                    \/ q \in R /\ j = SigOf[q]
  BY DEF GrowsBy
<1>1. j \in Keys /\ cache.item \in [Keys -> Items \cup {NoItem}]
  BY DEF Tracked, CacheType
<1>2. CASE j = k
  BY <1>1, <1>2
<1>3. CASE j # k
  <2>1. cache'.item[j] = cache.item[j]
    BY <1>1, <1>3
  <2>2. QED
    BY <1>1, <2>1 DEF Tracked
<1>4. QED
  BY <1>2, <1>3

\* A response keeps the requests merged into a live item, or drops them.
LEMMA ResponseGrows ==
  ASSUME TypeOK, NEW k \in Keys, NEW a \in Answers, AddResponse(k, a), NEW R
  PROVE  GrowsBy(R) /\ cache'.out = cache.out
<1> USE DEF TypeOK
<1>1. CASE cache' = cache
  BY <1>1 DEF GrowsBy, Tracked
<1>2. CASE cache' # cache
  <2>1. PICK v \in Items :
          /\ v.answer = a /\ v.age = 0
          /\ v.agg = {} \/ (k \in Live(cache) /\ v.agg = cache.item[k].agg)
          /\ cache' \in CacheType(Items)
          /\ cache'.item = [cache.item EXCEPT ![k] = v]
          /\ cache'.out = cache.out
          /\ cache'.left[k] = Ttl
          /\ cache'.stored \subseteq Live(cache) \cup {k}
          /\ Live(cache') \subseteq Live(cache) \cup {k}
          /\ \A j \in Live(cache') \ {k} : cache'.left[j] = cache.left[j]
    BY <1>2, ResponseProperties
  <2>2. k \in Live(cache) => k \in Tracked(cache)
    BY DEF Live
  <2>3. \A q \in v.agg : k \in Tracked(cache) /\ q \in cache.item[k].agg
    BY <2>1, <2>2
  <2>4. GrowsBy(R)
    BY <2>1, <2>3, ReplacedGrows
  <2>5. QED
    BY <2>1, <2>4
<1>3. QED
  BY <1>1, <1>2

\* flush() hands out what was merged into the items that are gone, and keeps the
\* others, which only get older.
LEMMA FlushSplits ==
  ASSUME TypeOK, cache.out = {}, Flush
  PROVE  /\ cache'.out = {}
         /\ \A b \in HandedOut : \E k \in Tracked(cache) \ Live(cache) : b = cache.item[k].agg
         /\ \E d \in 0..Ttl :
              /\ HistoryPasses(d)
              /\ \A k \in Tracked(cache') :
                   /\ k \in Live(cache) /\ k \in Tracked(cache)
                   /\ cache'.item[k].agg = cache.item[k].agg
                   /\ cache'.item[k].answer = cache.item[k].answer
                   /\ cache'.item[k].age = Later(cache.item[k].age, d, FlushInterval)
              /\ \A k \in Live(cache') :
                   /\ k \in Tracked(cache')
                   /\ Ttl > 0 => cache'.left[k] = cache.left[k] - d
<1> USE DEF TypeOK
<1> DEFINE first == OutDeque(cache)
<1>1. PICK d \in 0..Ttl :
        /\ cache' = ClearDeque(OutDeque(Pass(first, d)))
        /\ HistoryPasses(d)
  BY DEF Flush
<1>2. /\ first.out = {cache.item[k] : k \in Tracked(cache) \ Live(cache)}
      /\ cache'.out = {}
      /\ \A k \in Tracked(cache') :
           /\ k \in Live(cache)
           /\ cache'.item[k] = [cache.item[k] EXCEPT
                                  !.age = Later(cache.item[k].age, d, FlushInterval)]
      /\ cache'.stored \subseteq Tracked(cache')
      /\ \A k \in Live(cache') : Ttl > 0 => cache'.left[k] = cache.left[k] - d
  <2> DEFINE after == ClearDeque(OutDeque(Pass(first, d)))
  <2>0. d \in Nat /\ cache \in CacheType(Items) /\ cache.stored \subseteq Tracked(cache)
    OBVIOUS
  <2>1. /\ first.out = cache.out \cup {cache.item[k] : k \in Tracked(cache) \ Live(cache)}
        /\ after \in CacheType(Items)
        /\ after.out = {}
        /\ \A k \in Tracked(after) :
             /\ k \in Live(cache)
             /\ after.item[k] = [cache.item[k] EXCEPT
                                   !.age = Later(cache.item[k].age, d, FlushInterval)]
        /\ after.stored \subseteq Tracked(after)
        /\ \A k \in Live(after) : Ttl > 0 => after.left[k] = cache.left[k] - d
    BY <2>0, FlushProperties, Zenon
  <2>2. cache' = after
    BY <1>1
  <2> HIDE DEF after, first
  <2>3. QED
    BY <2>1, <2>2
<1>3. HandedOut = Extracted(first.out)
  BY DEF HandedOut
<1> HIDE DEF first
<1>4. \A k \in Tracked(cache) : cache.item[k] \in Items
  BY DEF Tracked, CacheType
<1>5. \A b \in HandedOut : \E k \in Tracked(cache) \ Live(cache) : b = cache.item[k].agg
  <2>1. first.out \in SUBSET Items
    BY <1>2, <1>4
  <2>2. \A b \in HandedOut : \E i \in first.out : b = i.agg
    BY <1>3, <2>1, ExtractedProperties
  <2>3. QED
    BY <1>2, <2>2
<1>6. ASSUME NEW k \in Tracked(cache')
      PROVE  /\ k \in Live(cache) /\ k \in Tracked(cache)
             /\ cache'.item[k].agg = cache.item[k].agg
             /\ cache'.item[k].answer = cache.item[k].answer
             /\ cache'.item[k].age = Later(cache.item[k].age, d, FlushInterval)
  <2> DEFINE i == cache.item[k]
             t == Later(i.age, d, FlushInterval)
  <2>1. k \in Live(cache) /\ k \in Tracked(cache)
    BY <1>2 DEF Live
  <2>2. i \in Items /\ cache'.item[k] = [i EXCEPT !.age = t]
    BY <1>2, <1>4, <2>1
  <2> HIDE DEF i, t
  <2>3. /\ cache'.item[k].agg = i.agg /\ cache'.item[k].answer = i.answer
        /\ cache'.item[k].age = t
    BY <2>2 DEF Items
  <2>4. QED
    BY <2>1, <2>3 DEF i, t
<1>7. \A k \in Live(cache') : k \in Tracked(cache')
  BY <1>2 DEF Live
<1>8. QED
  BY <1>1, <1>2, <1>5, <1>6, <1>7

\* Only a new request, neither important nor denied, is ever merged.
LEMMA StepGrows ==
  ASSUME TypeOK, cache.out = {}, [Next]_vars
  PROVE  cache'.out = {} /\ GrowsBy((seen' \ seen) \ (Important \cup denied'))
<1> DEFINE R == (seen' \ seen) \ (Important \cup denied')
<1> USE DEF TypeOK
<1>0. \A k \in Tracked(cache) : cache.item[k] \in Items
  BY DEF Tracked, CacheType
<1>1. CASE Tick
  <2>1. /\ cache'.out = {} /\ Tracked(cache') = Tracked(cache)
        /\ \A k \in Keys :
             cache'.item[k] =
               IF cache.item[k] = NoItem THEN NoItem
               ELSE [cache.item[k] EXCEPT !.age = Later(cache.item[k].age, 1, FlushInterval)]
    <3> DEFINE p == Pass(cache, 1)
    <3>0. 1 \in Nat /\ cache \in CacheType(Items)
      OBVIOUS
    <3>1. /\ p \in CacheType(Items)
          /\ p.out = cache.out
          /\ p.stored = cache.stored
          /\ Tracked(p) = Tracked(cache)
          /\ \A k \in Keys :
               /\ p.left[k] = IF cache.left[k] > 1 THEN cache.left[k] - 1 ELSE 0
               /\ p.item[k] =
                    IF cache.item[k] = NoItem THEN NoItem
                    ELSE [cache.item[k] EXCEPT !.age = Later(cache.item[k].age, 1, FlushInterval)]
      BY <3>0, PassProperties, Zenon
    <3>2. cache' = p
      BY <1>1 DEF Tick
    <3> HIDE DEF p
    <3>3. QED
      BY <3>1, <3>2
  <2>2. ASSUME NEW k \in Tracked(cache') PROVE cache'.item[k].agg = cache.item[k].agg
    <3> DEFINE i == cache.item[k]
               t == Later(i.age, 1, FlushInterval)
    <3>1. i \in Items /\ cache'.item[k] = [i EXCEPT !.age = t]
      BY <1>0, <2>1, <2>2 DEF Tracked
    <3> HIDE DEF i, t
    <3>2. cache'.item[k].agg = i.agg
      BY <3>1 DEF Items
    <3>3. QED
      BY <3>2 DEF i
  <2>3. QED
    BY <2>1, <2>2 DEF GrowsBy
<1>2. CASE Check
  <2>1. PICK r \in Reqs \ seen :
          /\ seen' = seen \cup {r}
          /\ CheckMissed(r) \/ CheckCached(r) \/ CheckRefreshes(r)
    BY <1>2 DEF Check
  <2>2. CASE CheckMissed(r)
    BY <2>2 DEF CheckMissed, GrowsBy, Tracked
  <2>3. CASE CheckCached(r) \/ CheckRefreshes(r)
    <3> DEFINE k == SigOf[r]
               i == cache.item[k]
    <3>1. PICK v \in Items :
            /\ k \in Tracked(cache) /\ r \notin Important
            /\ v.answer = i.answer
            /\ v.agg = IF v.answer \in Errors THEN i.agg ELSE i.agg \cup {r}
            /\ cache'.item = [cache.item EXCEPT ![k] = v]
            /\ cache'.out = cache.out
      BY <2>3, HitProperties
    <3>2. i.answer \notin Errors => r \notin denied'
      BY <2>1, <2>3 DEF CheckCached, CheckRefreshes, ItemOf
    <3>3. k \in Keys
      BY DEF Tracked
    <3>4. \A q \in v.agg : \/ k \in Tracked(cache) /\ q \in i.agg
                           \/ q \in R /\ k = SigOf[q]
      BY <2>1, <3>1, <3>2
    <3>5. GrowsBy(R)
      BY <3>1, <3>3, <3>4, ReplacedGrows
    <3>6. QED
      BY <3>1, <3>5
  <2>4. QED
    BY <2>1, <2>2, <2>3
<1>3. CASE CheckAnswered
  BY <1>3, ResponseGrows DEF CheckAnswered
<1>4. CASE Flush
  <2>1. /\ cache'.out = {}
        /\ \A k \in Tracked(cache') :
             k \in Tracked(cache) /\ cache'.item[k].agg = cache.item[k].agg
    BY <1>4, FlushSplits
  <2>2. QED
    BY <2>1 DEF GrowsBy
<1>5. CASE FlushAnswered
  <2>1. PICK b \in batch, a \in Answers : \E r \in b : AddResponse(SigOf[r], a)
    BY <1>5 DEF FlushAnswered
  <2>2. QED
    BY <2>1, ResponseGrows
<1>6. CASE Clear
  <2>1. cache'.out = {} /\ \A k \in Keys : cache'.item[k] = NoItem
    BY <1>6, ClearAllProperties DEF Clear
  <2>2. QED
    BY <2>1 DEF GrowsBy, Tracked
<1>7. CASE CheckFails \/ FlushFails \/ UNCHANGED vars
  BY <1>7 DEF CheckFails, FlushFails, vars, GrowsBy, Tracked
<1>8. QED
  BY <1>1, <1>2, <1>3, <1>4, <1>5, <1>6, <1>7 DEF Next

-----------------------------------------------------------------------------
(* Requests are handed out at most once, denied ones never.                *)

\* What AggregatedOnce needs to be inductive: nothing is left in the deque
\* between two actions, and what was handed out was asked for before.
CountInv == cache.out = {} /\ UNION flushed \subseteq seen /\ AggregatedOnce

LEMMA CountInit == Init => CountInv
BY DEF Init, CountInv, AggregatedOnce, Pending, Aggregated, EmptyCache, Tracked, ItemOf

\* Whatever the step, what is merged keeps its signature.
LEMMA SignaturesKept ==
  ASSUME TypeOK, CountInv, [Next]_vars
  PROVE  /\ cache'.out = {}
         /\ seen \subseteq seen'
         /\ \A k \in Tracked(cache') : \A r \in ItemOf(k)'.agg :
              SigOf[r] = k /\ r \in seen' /\ r \notin Important
         /\ Pending' \subseteq Pending \cup (seen' \ (seen \cup denied'))
<1>1. seen \subseteq seen'
  BY DEF Next, Tick, Check, CheckAnswered, CheckFails, Flush, FlushAnswered, FlushFails,
         Clear, vars
<1>2. cache'.out = {} /\ GrowsBy((seen' \ seen) \ (Important \cup denied'))
  BY StepGrows DEF CountInv
<1>3. ASSUME NEW k \in Tracked(cache'), NEW r \in cache'.item[k].agg
      PROVE  /\ SigOf[r] = k /\ r \in seen' /\ r \notin Important
             /\ r \in Pending \cup (seen' \ (seen \cup denied'))
  <2>1. CASE k \in Tracked(cache) /\ r \in cache.item[k].agg
    BY <1>1, <2>1 DEF CountInv, AggregatedOnce, ItemOf, Pending, Aggregated
  <2>2. CASE r \in (seen' \ seen) \ (Important \cup denied') /\ k = SigOf[r]
    BY <2>2
  <2>3. QED
    BY <1>2, <2>1, <2>2 DEF GrowsBy
<1>4. QED
  BY <1>1, <1>2, <1>3 DEF Pending, Aggregated, ItemOf

\* flush() hands out the requests of gone items: pending until now, no longer
\* pending, each item's in one CheckRequest.
LEMMA FlushHandsOut ==
  ASSUME TypeOK, CountInv, Flush
  PROVE  /\ UNION HandedOut \subseteq Pending
         /\ Pending' \subseteq Pending
         /\ Pending' \cap UNION HandedOut = {}
         /\ \A a, b \in HandedOut : a # b => a \cap b = {}
         /\ \A b \in HandedOut : \A q, r \in b : SigOf[q] = SigOf[r]
<1>1. \A b \in HandedOut : \E k \in Tracked(cache) \ Live(cache) : b = cache.item[k].agg
  BY FlushSplits DEF CountInv
<1>2. /\ cache'.out = {}
      /\ \A k \in Tracked(cache') :
           k \in Live(cache) /\ k \in Tracked(cache) /\ cache'.item[k].agg = cache.item[k].agg
  BY FlushSplits DEF CountInv
<1>3. \A k \in Tracked(cache) : \A r \in cache.item[k].agg : SigOf[r] = k /\ r \in Pending
  BY DEF CountInv, AggregatedOnce, ItemOf, Pending, Aggregated
<1>4. \A r \in Pending' : r \in Pending /\ SigOf[r] \in Live(cache)
  BY <1>2, <1>3 DEF Pending, Aggregated, ItemOf
<1>5. \A b \in HandedOut : \A r \in b : r \in Pending /\ SigOf[r] \notin Live(cache)
  BY <1>1, <1>3
<1>6. \A a, b \in HandedOut : a # b => a \cap b = {}
  BY <1>1, <1>3
<1>7. \A b \in HandedOut : \A q, r \in b : SigOf[q] = SigOf[r]
  BY <1>1, <1>3
<1>8. QED
  BY <1>4, <1>5, <1>6, <1>7

LEMMA CountNext == TypeOK /\ CountInv /\ [Next]_vars => CountInv'
<1> SUFFICES ASSUME TypeOK, CountInv, [Next]_vars PROVE CountInv'
  OBVIOUS
<1>1. /\ cache'.out = {}
      /\ seen \subseteq seen'
      /\ \A k \in Tracked(cache') : \A r \in ItemOf(k)'.agg :
           SigOf[r] = k /\ r \in seen' /\ r \notin Important
      /\ Pending' \subseteq Pending \cup (seen' \ (seen \cup denied'))
  BY SignaturesKept
<1>2. Pending \subseteq seen
  BY DEF CountInv, AggregatedOnce, Pending, Aggregated
<1>3. /\ UNION flushed' \subseteq seen'
      /\ Pending' \cap UNION flushed' = {}
      /\ \A a, b \in flushed' : a # b => a \cap b = {}
      /\ \A b \in flushed' : \A q, r \in b : SigOf[q] = SigOf[r]
  <2>1. CASE Flush
    <3>1. /\ UNION HandedOut \subseteq Pending
          /\ Pending' \subseteq Pending
          /\ Pending' \cap UNION HandedOut = {}
          /\ \A a, b \in HandedOut : a # b => a \cap b = {}
          /\ \A b \in HandedOut : \A q, r \in b : SigOf[q] = SigOf[r]
      BY <2>1, FlushHandsOut
    <3>2. flushed' = flushed \cup HandedOut
      BY <2>1 DEF Flush
    <3>3. Pending \cap UNION flushed = {}
      BY DEF CountInv, AggregatedOnce
    <3>4. UNION flushed' \subseteq seen'
      BY <1>1, <1>2, <3>1, <3>2 DEF CountInv
    <3>5. Pending' \cap UNION flushed' = {}
      BY <3>1, <3>2, <3>3
    <3>6. \A a \in flushed, b \in HandedOut : a \cap b = {}
      BY <3>1, <3>3
    <3>7. \A a, b \in flushed' : a # b => a \cap b = {}
      BY <3>1, <3>2, <3>6 DEF CountInv, AggregatedOnce
    <3>8. \A b \in flushed' : \A q, r \in b : SigOf[q] = SigOf[r]
      BY <3>1, <3>2 DEF CountInv, AggregatedOnce
    <3>9. QED
      BY <3>4, <3>5, <3>7, <3>8
  <2>2. CASE ~Flush
    <3>1. flushed' = flushed
      BY <2>2 DEF Next, Tick, Check, CheckAnswered, CheckFails, FlushAnswered, FlushFails,
                  Clear, vars
    <3>2. UNION flushed \subseteq seen /\ Pending \cap UNION flushed = {}
      BY DEF CountInv, AggregatedOnce
    <3>3. Pending' \cap UNION flushed = {}
      BY <1>1, <3>2
    <3>4. QED
      BY <1>1, <3>1, <3>2, <3>3 DEF CountInv, AggregatedOnce
  <2>3. QED
    BY <2>1, <2>2
<1>4. QED
  BY <1>1, <1>3 DEF CountInv, AggregatedOnce

\* A request is aggregated under its own signature only, and handed out at most
\* once, however evictions, expiry and refreshes interleave with flush().
THEOREM AggregatedOnceHolds == Spec => []AggregatedOnce
<1>1. CountInv => AggregatedOnce
  BY DEF CountInv
<1>2. QED
  BY <1>1, CountInit, CountNext, TypeCorrect, PTL DEF Spec

LEMMA DeniedNext ==
  TypeOK /\ CountInv /\ DeniedConsumesNothing /\ [Next]_vars => DeniedConsumesNothing'
<1> SUFFICES ASSUME TypeOK, CountInv, DeniedConsumesNothing, [Next]_vars
             PROVE  DeniedConsumesNothing'
  OBVIOUS
<1>1. /\ sent \subseteq seen /\ denied \subseteq seen /\ UNION flushed \subseteq seen
      /\ Pending \subseteq seen
  BY DEF TypeOK, CountInv, AggregatedOnce, Pending, Aggregated
<1>2. Pending' \subseteq Pending \cup (seen' \ (seen \cup denied'))
  BY SignaturesKept
<1>3. CASE Check
  <2>1. PICK r \in Reqs \ seen :
          /\ seen' = seen \cup {r}
          /\ CheckMissed(r) \/ CheckCached(r) \/ CheckRefreshes(r)
          /\ flushed' = flushed
    BY <1>3 DEF Check
  <2>2. \/ denied' = denied /\ sent' \subseteq sent \cup {r}
        \/ denied' = denied \cup {r} /\ sent' = sent
    BY <2>1 DEF CheckMissed, CheckCached, CheckRefreshes, Send
  <2>3. QED
    BY <1>1, <1>2, <2>1, <2>2 DEF DeniedConsumesNothing
<1>4. CASE Flush
  <2>1. UNION HandedOut \subseteq Pending /\ Pending' \subseteq Pending
    BY <1>4, FlushHandsOut
  <2>2. flushed' = flushed \cup HandedOut /\ UNCHANGED <<seen, sent, denied>>
    BY <1>4 DEF Flush
  <2>3. QED
    BY <2>1, <2>2 DEF DeniedConsumesNothing
<1>5. CASE ~Check /\ ~Flush
  <2>1. UNCHANGED <<seen, sent, denied, flushed>>
    BY <1>5 DEF Next, Tick, CheckAnswered, CheckFails, FlushAnswered, FlushFails, Clear, vars
  <2>2. QED
    BY <1>1, <1>2, <2>1 DEF DeniedConsumesNothing
<1>6. QED
  BY <1>3, <1>4, <1>5

\* A request answered with a cached error never reaches the service, by itself or
\* merged into another, even once the error has given way to a good response.
THEOREM DeniedConsumesNothingHolds == Spec => []DeniedConsumesNothing
<1>1. Init => DeniedConsumesNothing
  BY DEF Init, DeniedConsumesNothing
<1>2. QED
  BY <1>1, CountInit, CountNext, DeniedNext, TypeCorrect, PTL DEF Spec

-----------------------------------------------------------------------------
(* How old an answer from the cache may be.                                *)

\* Capped clocks of the history are at most d later.
LEMMA HeardPasses ==
  ASSUME TypeOK, NEW d \in Nat, HistoryPasses(d), NEW k \in Keys, NEW a \in Answers
  PROVE  heard[k][a] \in Nat /\ heard'[k][a] \in Nat /\ heard'[k][a] <= heard[k][a] + d
<1>1. heard[k][a] \in 0..(Ttl + 1)
  BY DEF TypeOK
<1>2. heard'[k][a] = Later(heard[k][a], d, Ttl + 1)
  BY DEF HistoryPasses
<1>3. Ttl + 1 \in Nat
  OBVIOUS
<1>4. Later(heard[k][a], d, Ttl + 1) <= heard[k][a] + d /\ heard'[k][a] \in 0..(Ttl + 1)
  BY <1>1, <1>2, <1>3, LaterProperties
<1>5. QED
  BY <1>1, <1>2, <1>4

LEMMA FreshNext == TypeOK /\ CountInv /\ ResponseFresh /\ [Next]_vars => ResponseFresh'
<1> SUFFICES ASSUME TypeOK, CountInv, ResponseFresh, [Next]_vars,
                    NEW k \in Live(cache'), Ttl > 0
             PROVE  heard'[k][cache'.item[k].answer] + cache'.left[k] <= Ttl
  BY DEF ResponseFresh, ItemOf
<1>0. /\ TypeOK' /\ k \in Keys
      /\ cache'.item[k] \in Items /\ cache'.item[k].answer \in Answers
      /\ cache'.left[k] \in Nat /\ cache'.left[k] > 0
  <2>1. TypeOK'
    BY NextTypeOK
  <2>2. k \in Tracked(cache') /\ cache' \in CacheType(Items)
    BY <2>1 DEF TypeOK, Live
  <2>3. cache'.item[k] \in Items
    BY <2>2 DEF Tracked, CacheType
  <2>4. QED
    BY <2>1, <2>2, <2>3 DEF Live, CacheType, Items
<1> DEFINE a == cache'.item[k].answer
<1>1. ASSUME k \in Live(cache), cache.item[k].answer = a, cache'.left[k] = cache.left[k],
             heard'[k][a] = heard[k][a]
      PROVE  heard'[k][a] + cache'.left[k] <= Ttl
  BY <1>1 DEF ResponseFresh, ItemOf
<1>2. ASSUME NEW d \in Nat, HistoryPasses(d), k \in Live(cache), cache.item[k].answer = a,
             cache'.left[k] = cache.left[k] - d
      PROVE  heard'[k][a] + cache'.left[k] <= Ttl
  <2>1. heard[k][a] + cache.left[k] <= Ttl
    BY <1>2 DEF ResponseFresh, ItemOf
  <2>2. heard[k][a] \in Nat /\ heard'[k][a] \in Nat /\ heard'[k][a] <= heard[k][a] + d
    BY <1>0, <1>2, HeardPasses
  <2>3. cache.left[k] \in Nat
    BY <1>0 DEF TypeOK, CacheType
  <2>4. QED
    BY <1>0, <1>2, <2>1, <2>2, <2>3
<1>3. ASSUME NEW j \in Keys, NEW b \in Answers, AddResponse(j, b)
      PROVE  heard'[k][a] + cache'.left[k] <= Ttl
  <2>1. heard' = [heard EXCEPT ![j][b] = 0]
    BY <1>3 DEF AddResponse
  <2>2. heard[k] \in [Answers -> 0..(Ttl + 1)]
    BY <1>0 DEF TypeOK
  <2>3. CASE cache' = cache
    <3>1. heard[k][a] + cache.left[k] <= Ttl
      BY <2>3 DEF ResponseFresh, ItemOf
    <3>2. heard'[k][a] = heard[k][a] \/ heard'[k][a] = 0
      BY <1>0, <2>1, <2>2 DEF TypeOK
    <3>3. heard[k][a] \in Nat
      BY <1>0, <2>2
    <3>4. QED
      BY <1>0, <2>3, <3>1, <3>2, <3>3
  <2>4. CASE cache' # cache
    <3>1. PICK v \in Items :
            /\ v.answer = b /\ v.age = 0
            /\ v.agg = {} \/ (j \in Live(cache) /\ v.agg = cache.item[j].agg)
            /\ cache' \in CacheType(Items)
            /\ cache'.item = [cache.item EXCEPT ![j] = v]
            /\ cache'.out = cache.out
            /\ cache'.left[j] = Ttl
            /\ cache'.stored \subseteq Live(cache) \cup {j}
            /\ Live(cache') \subseteq Live(cache) \cup {j}
            /\ \A h \in Live(cache') \ {j} : cache'.left[h] = cache.left[h]
      BY <1>3, <2>4, ResponseProperties DEF TypeOK
    <3>2. cache.item \in [Keys -> Items \cup {NoItem}]
      BY DEF TypeOK, CacheType
    <3>3. CASE k = j
      <4>1. a = b
        BY <3>1, <3>2, <3>3
      <4>2. heard'[k][a] = 0
        BY <1>0, <2>1, <3>3, <4>1 DEF TypeOK
      <4>3. QED
        BY <3>1, <3>3, <4>2
    <3>4. CASE k # j
      <4>1. cache.item[k] = cache'.item[k]
        BY <1>0, <3>1, <3>2, <3>4
      <4>2. k \in Live(cache) /\ cache'.left[k] = cache.left[k]
        BY <3>1, <3>4
      <4>3. heard'[k][a] = heard[k][a]
        BY <1>0, <2>1, <3>4 DEF TypeOK
      <4>4. QED
        BY <1>1, <4>1, <4>2, <4>3
    <3>5. QED
      BY <3>3, <3>4
  <2>5. QED
    BY <2>3, <2>4
<1>4. CASE Tick
  <2> DEFINE p == Pass(cache, 1)
  <2>1. 1 \in Nat /\ cache \in CacheType(Items)
    BY DEF TypeOK
  <2>2. /\ p \in CacheType(Items)
        /\ p.out = cache.out
        /\ p.stored = cache.stored
        /\ Tracked(p) = Tracked(cache)
        /\ \A j \in Keys :
             /\ p.left[j] = IF cache.left[j] > 1 THEN cache.left[j] - 1 ELSE 0
             /\ p.item[j] =
                  IF cache.item[j] = NoItem THEN NoItem
                  ELSE [cache.item[j] EXCEPT !.age = Later(cache.item[j].age, 1, FlushInterval)]
    BY <2>1, PassProperties, Zenon
  <2>3. cache' = p /\ HistoryPasses(1)
    BY <1>4 DEF Tick
  <2> HIDE DEF p
  <2>4. /\ cache'.left[k] = cache.left[k] - 1 /\ cache.left[k] > 1
        /\ k \in cache.stored /\ k \in Tracked(cache)
    <3>1. k \in cache.stored /\ k \in Tracked(cache)
      BY <1>0, <2>2, <2>3 DEF Live, TypeOK
    <3>2. cache.left[k] \in Nat
      BY <1>0, <2>1 DEF CacheType
    <3>3. cache'.left[k] = IF cache.left[k] > 1 THEN cache.left[k] - 1 ELSE 0
      BY <1>0, <2>2, <2>3
    <3>4. QED
      BY <1>0, <3>1, <3>2, <3>3
  <2>5. k \in Live(cache)
    BY <2>4 DEF Live, TypeOK, CacheType
  <2>6. cache.item[k].answer = a
    <3> DEFINE i == cache.item[k]
               t == Later(i.age, 1, FlushInterval)
    <3>1. i \in Items /\ cache'.item[k] = [i EXCEPT !.age = t]
      BY <1>0, <2>1, <2>2, <2>3, <2>4 DEF Tracked, CacheType
    <3> HIDE DEF i, t
    <3>2. cache'.item[k].answer = i.answer
      BY <3>1 DEF Items
    <3>3. QED
      BY <3>2 DEF i
  <2>7. QED
    BY <1>2, <2>1, <2>3, <2>4, <2>5, <2>6
<1>5. CASE Check
  <2>1. PICK r \in Reqs \ seen :
          /\ CheckMissed(r) \/ CheckCached(r) \/ CheckRefreshes(r)
          /\ heard' = heard
    BY <1>5 DEF Check
  <2>2. CASE CheckMissed(r)
    BY <1>1, <2>1, <2>2 DEF CheckMissed
  <2>3. CASE CheckCached(r) \/ CheckRefreshes(r)
    <3>1. PICK v \in Items :
            /\ v.answer = cache.item[SigOf[r]].answer
            /\ cache'.item = [cache.item EXCEPT ![SigOf[r]] = v]
            /\ cache'.left = cache.left
            /\ Live(cache') = Live(cache)
      BY <2>3, HitProperties DEF TypeOK
    <3>2. cache.item \in [Keys -> Items \cup {NoItem}]
      BY DEF TypeOK, CacheType
    <3>3. cache.item[k].answer = a
      BY <1>0, <3>1, <3>2
    <3>4. QED
      BY <1>1, <2>1, <3>1, <3>3
  <2>4. QED
    BY <2>1, <2>2, <2>3
<1>6. CASE CheckAnswered
  <2>1. PICK r \in calls, b \in Answers : AddResponse(SigOf[r], b)
    BY <1>6 DEF CheckAnswered
  <2>2. SigOf[r] \in Keys
    BY DEF TypeOK
  <2>3. QED
    BY <1>3, <2>1, <2>2
<1>7. CASE Flush
  <2>1. PICK d \in Nat :
          /\ HistoryPasses(d)
          /\ \A j \in Tracked(cache') :
               j \in Live(cache) /\ cache'.item[j].answer = cache.item[j].answer
          /\ \A j \in Live(cache') :
               /\ j \in Tracked(cache')
               /\ Ttl > 0 => cache'.left[j] = cache.left[j] - d
    BY <1>7, FlushSplits DEF CountInv
  <2>2. QED
    BY <1>2, <2>1
<1>8. CASE FlushAnswered
  <2>1. PICK b \in batch, c \in Answers : \E r \in b : AddResponse(SigOf[r], c) /\ r \in Reqs
    BY <1>8 DEF FlushAnswered, TypeOK
  <2>2. QED
    BY <1>3, <2>1
<1>9. CASE Clear
  <2>1. cache'.stored = {}
    BY <1>9, ClearAllProperties DEF Clear, TypeOK
  <2>2. QED
    BY <2>1 DEF Live
<1>10. CASE CheckFails \/ FlushFails \/ UNCHANGED vars
  BY <1>1, <1>10 DEF CheckFails, FlushFails, vars
<1>11. QED
  BY <1>4, <1>5, <1>6, <1>7, <1>8, <1>9, <1>10 DEF Next

\* A cached answer is never older than the expiration: whatever check() answers
\* with was said by the service, for that signature, within the last Ttl units.
THEOREM ResponseFreshHolds == Spec => []ResponseFresh
<1>1. Init => ResponseFresh
  BY DEF Init, ResponseFresh, Live, EmptyCache
<1>2. QED
  BY <1>1, FreshNext, CountInit, CountNext, TypeCorrect, PTL DEF Spec

-----------------------------------------------------------------------------
(* How often callers are told to refresh.                                  *)

\* No item is older than the time since its key was last refreshed.
AgeInv == \A k \in Tracked(cache) : cache.item[k].age <= quiet[k]

LEMMA AgeNext == TypeOK /\ CountInv /\ AgeInv /\ [Next]_vars => AgeInv'
<1> SUFFICES ASSUME TypeOK, CountInv, AgeInv, [Next]_vars, NEW k \in Tracked(cache')
             PROVE  cache'.item[k].age <= quiet'[k]
  BY DEF AgeInv
<1>0. /\ k \in Keys
      /\ \A j \in Tracked(cache) : cache.item[j].age \in 0..FlushInterval
      /\ quiet[k] \in 0..FlushInterval
      /\ quiet'[k] \in 0..FlushInterval
      /\ cache.item \in [Keys -> Items \cup {NoItem}]
  <2>1. quiet' \in [Keys -> 0..FlushInterval]
    BY NextTypeOK DEF TypeOK
  <2>2. QED
    BY <2>1 DEF TypeOK, Tracked, CacheType, Items
<1>1. ASSUME k \in Tracked(cache), cache'.item[k] = cache.item[k], quiet' = quiet
      PROVE  cache'.item[k].age <= quiet'[k]
  BY <1>1 DEF AgeInv
<1>2. ASSUME NEW d \in Nat, HistoryPasses(d), k \in Tracked(cache),
             cache'.item[k].age = Later(cache.item[k].age, d, FlushInterval)
      PROVE  cache'.item[k].age <= quiet'[k]
  <2>1. quiet'[k] = Later(quiet[k], d, FlushInterval)
    BY <1>0, <1>2 DEF HistoryPasses
  <2>2. cache.item[k].age <= quiet[k]
    BY <1>2 DEF AgeInv
  <2>3. Later(cache.item[k].age, d, FlushInterval) <= Later(quiet[k], d, FlushInterval)
    BY <1>0, <1>2, <2>2, LaterProperties
  <2>4. QED
    BY <1>2, <2>1, <2>3
<1>3. ASSUME NEW j \in Keys, NEW b \in Answers, AddResponse(j, b), quiet' = quiet
      PROVE  cache'.item[k].age <= quiet'[k]
  <2>1. CASE cache' = cache
    BY <1>1, <1>3, <2>1 DEF Tracked
  <2>2. CASE cache' # cache
    <3>1. PICK v \in Items :
            /\ v.answer = b /\ v.age = 0
            /\ v.agg = {} \/ (j \in Live(cache) /\ v.agg = cache.item[j].agg)
            /\ cache' \in CacheType(Items)
            /\ cache'.item = [cache.item EXCEPT ![j] = v]
            /\ cache'.out = cache.out
            /\ cache'.left[j] = Ttl
            /\ cache'.stored \subseteq Live(cache) \cup {j}
            /\ Live(cache') \subseteq Live(cache) \cup {j}
            /\ \A h \in Live(cache') \ {j} : cache'.left[h] = cache.left[h]
      BY <1>3, <2>2, ResponseProperties DEF TypeOK
    <3>2. CASE k = j
      <4>1. cache'.item[k].age = 0
        BY <1>0, <3>1, <3>2
      <4>2. QED
        BY <1>0, <4>1
    <3>3. CASE k # j
      <4>1. cache'.item[k] = cache.item[k]
        BY <1>0, <3>1, <3>3
      <4>2. k \in Tracked(cache)
        BY <1>0, <4>1 DEF Tracked
      <4>3. QED
        BY <1>1, <1>3, <4>1, <4>2
    <3>4. QED
      BY <3>2, <3>3
  <2>3. QED
    BY <2>1, <2>2
<1>4. CASE Tick
  <2> DEFINE p == Pass(cache, 1)
  <2>1. 1 \in Nat /\ cache \in CacheType(Items)
    BY DEF TypeOK
  <2>2. /\ p \in CacheType(Items)
        /\ p.out = cache.out
        /\ p.stored = cache.stored
        /\ Tracked(p) = Tracked(cache)
        /\ \A j \in Keys :
             /\ p.left[j] = IF cache.left[j] > 1 THEN cache.left[j] - 1 ELSE 0
             /\ p.item[j] =
                  IF cache.item[j] = NoItem THEN NoItem
                  ELSE [cache.item[j] EXCEPT !.age = Later(cache.item[j].age, 1, FlushInterval)]
    BY <2>1, PassProperties, Zenon
  <2>3. cache' = p /\ HistoryPasses(1)
    BY <1>4 DEF Tick
  <2> HIDE DEF p
  <2> DEFINE i == cache.item[k]
             t == Later(i.age, 1, FlushInterval)
  <2>4. k \in Tracked(cache)
    BY <2>2, <2>3
  <2>5. i \in Items /\ cache'.item[k] = [i EXCEPT !.age = t]
    BY <1>0, <2>1, <2>2, <2>3, <2>4 DEF Tracked, CacheType
  <2> HIDE DEF i, t
  <2>6. cache'.item[k].age = t
    BY <2>5 DEF Items
  <2>7. QED
    BY <1>2, <2>1, <2>3, <2>4, <2>6 DEF i, t
<1>5. CASE Check
  <2>1. PICK r \in Reqs \ seen : CheckMissed(r) \/ CheckCached(r) \/ CheckRefreshes(r)
    BY <1>5 DEF Check
  <2>2. CASE CheckMissed(r)
    BY <1>1, <2>2 DEF CheckMissed
  <2>3. CASE CheckCached(r) \/ CheckRefreshes(r)
    <3>1. PICK v \in Items :
            /\ SigOf[r] \in Tracked(cache)
            /\ v.age = 0 \/ (v.age = cache.item[SigOf[r]].age /\ ~CheckRefreshes(r))
            /\ cache'.item = [cache.item EXCEPT ![SigOf[r]] = v]
      BY <2>3, HitProperties DEF TypeOK
    <3>2. \/ quiet' = quiet
          \/ CheckRefreshes(r) /\ quiet' = [quiet EXCEPT ![SigOf[r]] = 0]
      BY <2>3 DEF CheckCached, CheckRefreshes
    <3>3. CASE k = SigOf[r]
      <4>1. cache'.item[k] = v
        BY <1>0, <3>1, <3>3
      <4>2. CASE v.age = 0
        BY <1>0, <4>1, <4>2
      <4>3. CASE v.age = cache.item[k].age /\ ~CheckRefreshes(r)
        <5>1. cache.item[k].age <= quiet[k] /\ quiet' = quiet
          BY <3>1, <3>2, <3>3, <4>3 DEF AgeInv
        <5>2. QED
          BY <4>1, <4>3, <5>1
      <4>4. QED
        BY <3>1, <3>3, <4>2, <4>3
    <3>4. CASE k # SigOf[r]
      <4>1. cache'.item[k] = cache.item[k] /\ quiet'[k] = quiet[k]
        BY <1>0, <3>1, <3>2, <3>4 DEF TypeOK
      <4>2. k \in Tracked(cache)
        BY <1>0, <4>1 DEF Tracked
      <4>3. QED
        BY <4>1, <4>2 DEF AgeInv
    <3>5. QED
      BY <3>3, <3>4
  <2>4. QED
    BY <2>1, <2>2, <2>3
<1>6. CASE CheckAnswered
  <2>1. PICK r \in calls, b \in Answers : AddResponse(SigOf[r], b) /\ quiet' = quiet
    BY <1>6 DEF CheckAnswered
  <2>2. SigOf[r] \in Keys
    BY DEF TypeOK
  <2>3. QED
    BY <1>3, <2>1, <2>2
<1>7. CASE Flush
  <2>1. PICK d \in Nat :
          /\ HistoryPasses(d)
          /\ \A j \in Tracked(cache') :
               /\ j \in Tracked(cache)
               /\ cache'.item[j].age = Later(cache.item[j].age, d, FlushInterval)
    BY <1>7, FlushSplits DEF CountInv
  <2>2. QED
    BY <1>2, <2>1
<1>8. CASE FlushAnswered
  <2>1. PICK b \in batch, c \in Answers :
          (\E r \in b : AddResponse(SigOf[r], c) /\ r \in Reqs) /\ quiet' = quiet
    BY <1>8 DEF FlushAnswered, TypeOK
  <2>2. QED
    BY <1>3, <2>1
<1>9. CASE Clear
  <2>1. \A j \in Keys : cache'.item[j] = NoItem
    BY <1>9, ClearAllProperties DEF Clear, TypeOK
  <2>2. QED
    BY <2>1 DEF Tracked
<1>10. CASE CheckFails \/ FlushFails \/ UNCHANGED vars
  BY <1>1, <1>10 DEF CheckFails, FlushFails, vars, Tracked
<1>11. QED
  BY <1>4, <1>5, <1>6, <1>7, <1>8, <1>9, <1>10 DEF Next

\* While a response is cached, two callers are told to refresh it at least
\* flush_interval apart, an error no sooner than any other response.
THEOREM RefreshesSpacedHolds == Spec => RefreshesSpaced
<1>1. Init => AgeInv
  BY DEF Init, AgeInv, EmptyCache, Tracked
<1>2. ASSUME TypeOK, AgeInv, NEW k \in Keys, NEW r \in Reqs \ seen, SigOf[r] = k,
             CheckRefreshes(r)
      PROVE  quiet[k] >= FlushInterval
  <2>1. k \in Live(cache) /\ ~(cache.item[k].age < FlushInterval)
    BY <1>2 DEF CheckRefreshes, IsCurrent, ItemOf
  <2>2. k \in Tracked(cache)
    BY <1>2, <2>1 DEF Live, TypeOK
  <2>3. /\ cache.item[k].age \in 0..FlushInterval /\ quiet[k] \in 0..FlushInterval
        /\ cache.item[k].age <= quiet[k]
    BY <1>2, <2>2 DEF TypeOK, AgeInv, Tracked, CacheType, Items
  <2>4. QED
    BY <2>1, <2>3
<1>3. TypeOK /\ AgeInv =>
        \A k \in Keys : (\E r \in Reqs \ seen : SigOf[r] = k /\ Check /\ CheckRefreshes(r))
          => quiet[k] >= FlushInterval
  BY <1>2
<1>4. QED
  BY <1>1, <1>3, AgeNext, CountInit, CountNext, TypeCorrect, PTL DEF Spec, RefreshesSpaced

-----------------------------------------------------------------------------
(* The aggregator implements the ledger.                                   *)

\* A hit keeps what is merged already.
LEMMA CheckKeepsPending ==
  ASSUME TypeOK, CountInv, Check
  PROVE  Pending \subseteq Pending' /\ UNCHANGED flushed /\ seen \subseteq seen'
<1>1. PICK r \in Reqs \ seen :
        /\ seen' = seen \cup {r}
        /\ CheckMissed(r) \/ CheckCached(r) \/ CheckRefreshes(r)
        /\ flushed' = flushed
  BY DEF Check
<1>2. CASE CheckMissed(r)
  BY <1>1, <1>2 DEF CheckMissed, Pending, Aggregated, ItemOf, Tracked
<1>3. CASE CheckCached(r) \/ CheckRefreshes(r)
  <2> DEFINE k == SigOf[r]
  <2>1. PICK v \in Items :
          /\ v.agg = IF v.answer \in Errors THEN cache.item[k].agg
                     ELSE cache.item[k].agg \cup {r}
          /\ cache'.item = [cache.item EXCEPT ![k] = v]
    BY <1>3, HitProperties DEF TypeOK
  <2>2. cache.item \in [Keys -> Items \cup {NoItem}] /\ k \in Keys
    BY DEF TypeOK, CacheType
  <2>3. ASSUME NEW j \in Tracked(cache), NEW q \in cache.item[j].agg
        PROVE  j \in Tracked(cache') /\ q \in cache'.item[j].agg
    <3>1. CASE j = k
      <4>1. cache'.item[j] = v
        BY <2>1, <2>2, <3>1
      <4>2. j \in Tracked(cache')
        BY <2>2, <3>1, <4>1 DEF Tracked
      <4>3. QED
        BY <2>1, <2>3, <3>1, <4>1, <4>2
    <3>2. CASE j # k
      BY <2>1, <2>2, <2>3, <3>2 DEF Tracked
    <3>3. QED
      BY <3>1, <3>2
  <2>4. Pending = Aggregated
    BY DEF CountInv, Pending
  <2>5. Aggregated \subseteq Pending'
    BY <2>3 DEF Aggregated, Pending, ItemOf
  <2>6. QED
    BY <1>1, <2>4, <2>5
<1>4. QED
  BY <1>1, <1>2, <1>3

LEMMA NextIsLedgerStep ==
  TypeOK /\ CountInv /\ [Next]_vars => [Ledger!Next]_(Ledger!ledger)
<1> SUFFICES ASSUME TypeOK, CountInv, [Next]_vars
             PROVE  Ledger!Next \/ UNCHANGED Ledger!ledger
  OBVIOUS
<1> USE DEF Ledger!Next, Ledger!ledger
<1>0. seen' \subseteq Reqs
  BY NextTypeOK DEF TypeOK
<1>1. Pending' \subseteq Pending \cup (seen' \ (seen \cup denied'))
  BY SignaturesKept
<1>2. CASE Check
  <2>1. Ledger!Take
    BY <1>1, <1>2, CheckKeepsPending DEF Ledger!Take
  <2>2. QED
    BY <1>0, <2>1
<1>3. CASE Flush
  <2>1. flushed' = flushed \cup HandedOut /\ seen' = seen
    BY <1>3 DEF Flush
  <2>2. /\ UNION HandedOut \subseteq Pending
        /\ Pending' \subseteq Pending
        /\ Pending' \cap UNION HandedOut = {}
    BY <1>3, FlushHandsOut
  <2>3. Ledger!Resolve
    BY <2>1, <2>2 DEF Ledger!Resolve
  <2>4. QED
    BY <1>0, <2>3
<1>4. CASE ~Check /\ ~Flush
  <2>1. UNCHANGED <<seen, flushed>>
    BY <1>4 DEF Next, Tick, CheckAnswered, CheckFails, FlushAnswered, FlushFails, Clear, vars
  <2>2. Ledger!Resolve
    BY <1>1, <2>1 DEF Ledger!Resolve
  <2>3. QED
    BY <1>0, <2>2
<1>5. QED
  BY <1>2, <1>3, <1>4

\* The aggregator keeps the promise of the ledger: what flush() hands out was
\* asked for, is handed out once, and is not held any more.
THEOREM ImplementsLedgerHolds == Spec => ImplementsLedger
<1>1. Init => Ledger!Init
  BY DEF Init, EmptyCache, Ledger!Init, Pending, Aggregated, Tracked
<1>2. QED
  BY <1>1, TypeCorrect, CountInit, CountNext, NextIsLedgerStep,
     PTL DEF Spec, ImplementsLedger, Ledger!Spec
=============================================================================
