------------------------ MODULE DequeOutCacheProofs ------------------------
(***************************************************************************)
(* What each operation of the cache of module DequeOutCache does to a      *)
(* well-typed cache, stated once for the proofs about the aggregators.     *)
(***************************************************************************)
EXTENDS DequeOutCache, TLAPS

\* A cache starts well typed.
LEMMA EmptyCacheType ==
  ASSUME NEW Items, Ttl \in Nat
  PROVE  EmptyCache \in CacheType(Items)
BY DEF EmptyCache, CacheType

\* Time changes nothing but `left', which stays within its range.
LEMMA ElapseProperties ==
  ASSUME NEW Items, NEW c \in CacheType(Items), NEW d \in Nat, Ttl \in Nat
  PROVE  /\ Elapse(c, d) \in CacheType(Items)
         /\ Elapse(c, d).item = c.item
         /\ Elapse(c, d).out = c.out
         /\ Elapse(c, d).stored = c.stored
         /\ \A k \in Keys : Elapse(c, d).left[k] =
                              IF c.left[k] > d THEN c.left[k] - d ELSE 0
BY DEF Elapse, CacheType

\* An entry that is live after some time was live before.
LEMMA LiveAfterElapse ==
  ASSUME NEW Items, NEW c \in CacheType(Items), NEW d \in Nat, Ttl \in Nat
  PROVE  Live(Elapse(c, d)) \subseteq Live(c)
BY DEF Elapse, CacheType, Live

\* Expiry forgets entries of the dictionary, never what _tracking holds.
LEMMA ExpireProperties ==
  ASSUME NEW Items, NEW c \in CacheType(Items), Ttl \in Nat
  PROVE  /\ Expire(c) \in CacheType(Items)
         /\ Expire(c).item = c.item
         /\ Expire(c).out = c.out
         /\ Expire(c).left = c.left
         /\ Expire(c).stored = Live(c)
         /\ Live(c) \subseteq Keys
BY DEF Expire, CacheType, Live, Among

\* Making room forgets at most one entry of the dictionary.
LEMMA MakeRoomProperties ==
  ASSUME NEW Items, NEW c \in CacheType(Items), NEW k \in Keys, Ttl \in Nat
  PROVE  /\ MakeRoom(c, k) \in CacheType(Items)
         /\ MakeRoom(c, k).item = c.item
         /\ MakeRoom(c, k).out = c.out
         /\ MakeRoom(c, k).stored \subseteq c.stored
         /\ \A j \in MakeRoom(c, k).stored : MakeRoom(c, k).left[j] = c.left[j]
<1>1. CASE k \in c.stored \/ Cardinality(c.stored) < MaxEntries
  BY <1>1 DEF MakeRoom
<1>2. CASE ~(k \in c.stored \/ Cardinality(c.stored) < MaxEntries)
  <2> DEFINE o == Oldest(c)
  <2>1. MakeRoom(c, k) = Evict(c, o)
    BY <1>2 DEF MakeRoom
  <2>2. Evict(c, o) =
          [item |-> c.item, stored |-> c.stored \ {o}, left |-> [c.left EXCEPT ![o] = 0],
           lru |-> Among(c.lru, c.stored \ {o}), born |-> c.born, out |-> c.out]
    BY DEF Evict
  <2> HIDE DEF o
  <2>3. /\ Evict(c, o).item = c.item /\ Evict(c, o).out = c.out
        /\ Evict(c, o).stored = c.stored \ {o}
        /\ Evict(c, o).left = [c.left EXCEPT ![o] = 0]
    BY <2>2
  <2>4. Evict(c, o) \in CacheType(Items)
    <3> DEFINE left == [c.left EXCEPT ![o] = 0]
               rest == Among(c.lru, c.stored \ {o})
    <3>1. c.left \in [Keys -> 0..Ttl] /\ 0 \in 0..Ttl
      BY DEF CacheType
    <3>2. left \in [Keys -> 0..Ttl]
      BY <3>1
    <3>3. rest \in SUBSET (Keys \X Keys)
      BY DEF CacheType, Among
    <3>4. Evict(c, o) = [item |-> c.item, stored |-> c.stored \ {o}, left |-> left,
                         lru |-> rest, born |-> c.born, out |-> c.out]
      BY <2>2
    <3> HIDE DEF left, rest
    <3>5. QED
      BY <3>2, <3>3, <3>4 DEF CacheType
  <2>5. \A j \in c.stored \ {o} : [c.left EXCEPT ![o] = 0][j] = c.left[j]
    BY DEF CacheType
  <2>6. QED
    BY <2>1, <2>3, <2>4, <2>5
<1>3. QED
  BY <1>1, <1>2

\* Storing a value replaces what was tracked under its key and nothing else;
\* no other key becomes live, or lives longer.
LEMMA PutProperties ==
  ASSUME NEW Items, NEW c \in CacheType(Items), NEW k \in Keys, NEW v \in Items,
         Ttl \in Nat
  PROVE  /\ Put(c, k, v) \in CacheType(Items)
         /\ Put(c, k, v).item = [c.item EXCEPT ![k] = v]
         /\ Put(c, k, v).out = c.out
         /\ Put(c, k, v).left[k] = Ttl
         /\ Put(c, k, v).stored \subseteq Live(c) \cup {k}
         /\ Live(Put(c, k, v)) \subseteq Live(c) \cup {k}
         /\ \A j \in Live(Put(c, k, v)) \ {k} : Put(c, k, v).left[j] = c.left[j]
<1> DEFINE e == Expire(c)
           r == MakeRoom(e, k)
<1>1. /\ e \in CacheType(Items) /\ e.item = c.item /\ e.out = c.out
      /\ e.left = c.left /\ e.stored = Live(c)
  BY ExpireProperties
<1>2. /\ r \in CacheType(Items) /\ r.item = e.item /\ r.out = e.out
      /\ r.stored \subseteq e.stored
      /\ \A j \in r.stored : r.left[j] = e.left[j]
  BY <1>1, MakeRoomProperties
<1>3. Put(c, k, v) =
        [item   |-> [r.item EXCEPT ![k] = v],
         stored |-> r.stored \cup {k},
         left   |-> [r.left EXCEPT ![k] = Ttl],
         lru    |-> MoveLast(r.lru, k, r.stored),
         born   |-> IF k \in Tracked(r) THEN r.born
                    ELSE MoveLast(r.born, k, Tracked(r)),
         out    |-> r.out]
  BY DEF Put
<1> HIDE DEF e, r
<1>4. Put(c, k, v) \in CacheType(Items)
  BY <1>2, <1>3 DEF CacheType, MoveLast, Among, Tracked
<1>5. /\ Put(c, k, v).item = [c.item EXCEPT ![k] = v]
      /\ Put(c, k, v).out = c.out
      /\ Put(c, k, v).left[k] = Ttl
  BY <1>1, <1>2, <1>3 DEF CacheType
<1>6. Put(c, k, v).stored \subseteq Live(c) \cup {k}
  BY <1>1, <1>2, <1>3
<1>7. \A j \in Live(Put(c, k, v)) \ {k} : Put(c, k, v).left[j] = c.left[j]
  BY <1>1, <1>2, <1>3 DEF CacheType, Live
<1>8. QED
  BY <1>4, <1>5, <1>6, <1>7 DEF Live

\* A lookup changes the order of use only.
LEMMA TouchProperties ==
  ASSUME NEW Items, NEW c \in CacheType(Items), NEW k \in Live(c)
  PROVE  /\ Touch(c, k) \in CacheType(Items)
         /\ Touch(c, k).item = c.item
         /\ Touch(c, k).out = c.out
         /\ Touch(c, k).stored = c.stored
         /\ Touch(c, k).left = c.left
BY DEF Touch, CacheType, Live, MoveLast, Among

\* Changing the object of a live entry changes no other entry, and no ttl.
LEMMA ChangeProperties ==
  ASSUME NEW Items, NEW c \in CacheType(Items), NEW k \in Live(c), NEW v \in Items
  PROVE  /\ Change(c, k, v) \in CacheType(Items)
         /\ Change(c, k, v).item = [c.item EXCEPT ![k] = v]
         /\ Change(c, k, v).out = c.out
         /\ Change(c, k, v).stored = c.stored
         /\ Change(c, k, v).left = c.left
<1> DEFINE t == Touch(c, k)
           items == [c.item EXCEPT ![k] = v]
<1>1. /\ t \in CacheType(Items) /\ t.item = c.item /\ t.out = c.out
      /\ t.stored = c.stored /\ t.left = c.left
  BY TouchProperties
<1>2. Change(c, k, v) = [t EXCEPT !.item = items]
  BY DEF Change
<1>3. items \in [Keys -> Items \cup {NoItem}]
  BY DEF CacheType
<1> HIDE DEF t, items
<1>4. QED
  BY <1>1, <1>2, <1>3 DEF CacheType, items

\* Reading the deque keeps the live entries and moves every other tracked item
\* to the deque.
LEMMA OutDequeProperties ==
  ASSUME NEW Items, NEW c \in CacheType(Items), Ttl \in Nat
  PROVE  /\ OutDeque(c) \in CacheType(Items)
         /\ \A k \in Keys : OutDeque(c).item[k] =
                              IF k \in Live(c) THEN c.item[k] ELSE NoItem
         /\ OutDeque(c).out = c.out \cup {c.item[k] : k \in Tracked(c) \ Live(c)}
         /\ OutDeque(c).left = c.left
         /\ OutDeque(c).stored = Live(c)
<1> DEFINE e == Expire(c)
           gone == Tracked(e) \ e.stored
<1>1. /\ e \in CacheType(Items) /\ e.item = c.item /\ e.out = c.out
      /\ e.left = c.left /\ e.stored = Live(c) /\ Live(c) \subseteq Keys
  BY ExpireProperties
<1>2. gone = Tracked(c) \ Live(c)
  BY <1>1 DEF Tracked
<1>3. OutDeque(c) =
        [item   |-> [k \in Keys |-> IF k \in gone THEN NoItem ELSE e.item[k]],
         stored |-> e.stored,
         left   |-> e.left,
         lru    |-> Among(e.born, e.stored),
         born   |-> Among(e.born, e.stored),
         out    |-> e.out \cup {e.item[k] : k \in gone}]
  BY DEF OutDeque
<1>4. gone \subseteq Keys /\ \A k \in gone : e.item[k] \in Items
  BY <1>1, <1>2 DEF Tracked, CacheType
<1> HIDE DEF e, gone
<1>5. OutDeque(c) \in CacheType(Items)
  BY <1>1, <1>3, <1>4 DEF CacheType, Among
<1>6. \A k \in Keys : OutDeque(c).item[k] =
                        IF k \in Live(c) THEN c.item[k] ELSE NoItem
  BY <1>1, <1>2, <1>3 DEF CacheType, Tracked
<1>7. /\ OutDeque(c).out = e.out \cup {e.item[k] : k \in gone}
      /\ OutDeque(c).left = e.left
      /\ OutDeque(c).stored = e.stored
  BY <1>1, <1>3 DEF CacheType
<1>8. QED
  BY <1>1, <1>2, <1>5, <1>6, <1>7

\* Emptying the deque.
LEMMA ClearDequeProperties ==
  ASSUME NEW Items, NEW c \in CacheType(Items)
  PROVE  /\ ClearDeque(c) \in CacheType(Items)
         /\ ClearDeque(c).out = {}
         /\ ClearDeque(c).item = c.item
         /\ ClearDeque(c).left = c.left
         /\ ClearDeque(c).stored = c.stored
BY DEF ClearDeque, CacheType

\* Emptying the dictionary: no key is live, everything tracked is still tracked.
LEMMA ClearCacheProperties ==
  ASSUME NEW Items, NEW c \in CacheType(Items), Ttl \in Nat
  PROVE  /\ ClearCache(c) \in CacheType(Items)
         /\ ClearCache(c).item = c.item
         /\ ClearCache(c).out = c.out
         /\ Live(ClearCache(c)) = {}
<1>1. /\ ClearCache(c) \in CacheType(Items)
      /\ ClearCache(c).item = c.item
      /\ ClearCache(c).out = c.out
      /\ ClearCache(c).stored = {}
  BY DEF ClearCache, CacheType
<1>2. QED
  BY <1>1 DEF Live

\* Clearing dictionary, tracking and deque, as the aggregators do, leaves nothing.
LEMMA ClearAllProperties ==
  ASSUME NEW Items, NEW c \in CacheType(Items), Ttl \in Nat
  PROVE  LET after == ClearDeque(OutDeque(ClearCache(c)))
         IN  /\ after \in CacheType(Items)
             /\ after.out = {}
             /\ \A k \in Keys : after.item[k] = NoItem
             /\ after.stored = {}
<1> DEFINE empty == ClearCache(c)
           read == OutDeque(empty)
           after == ClearDeque(read)
<1>1. empty \in CacheType(Items) /\ Live(empty) = {}
  BY ClearCacheProperties
<1> HIDE DEF empty
<1>2. /\ read \in CacheType(Items)
      /\ \A k \in Keys : read.item[k] = NoItem
      /\ read.stored = {}
  BY <1>1, OutDequeProperties
<1> HIDE DEF read
<1>3. /\ after \in CacheType(Items) /\ after.out = {}
      /\ after.item = read.item /\ after.stored = read.stored
  BY <1>2, ClearDequeProperties
<1> HIDE DEF after
<1>4. QED
  BY <1>2, <1>3 DEF empty, read, after
=============================================================================
