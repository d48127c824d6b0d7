--------------------------- MODULE DequeOutCache ---------------------------
(***************************************************************************)
(* The bounded, expiring cache of control/caches.py: DequeOutTTLCache, and *)
(* DequeOutLRUCache when Ttl = 0, over the cachetools classes they extend. *)
(*                                                                         *)
(* A cache is a record.  The dictionary of cachetools and _tracking hold   *)
(* the same object under every stored key (__setitem__ writes both, and    *)
(* out_deque deletes from _tracking only keys the dictionary has lost), so *)
(* one function, item, stands for both and `stored' is the domain of the   *)
(* dictionary.  Time is relative: `left' is what remains of an entry's ttl.*)
(*                                                                         *)
(*   item    what _tracking holds for a key, NoItem when it is not tracked *)
(*   stored  the keys the cachetools dictionary still holds                *)
(*   left    clock units until the entry of a stored key expires           *)
(*   lru     <<j, k>> : j was used before k (the order victims are taken)  *)
(*   born    <<j, k>> : j comes before k in _tracking (insertion order)    *)
(*   out     the items in _out_deque, their order abstracted               *)
(***************************************************************************)
EXTENDS Naturals, FiniteSets

CONSTANTS
  Keys,        \* signatures
  MaxEntries,  \* options.num_entries; 0 stands for any value that disables the cache
  Ttl,         \* ttl of an entry; 0 selects the LRU cache, which never expires
  NoItem       \* no object

CacheType(Items) ==
  [item   : [Keys -> Items \cup {NoItem}],
   stored : SUBSET Keys,
   left   : [Keys -> 0..Ttl],
   lru    : SUBSET (Keys \X Keys),
   born   : SUBSET (Keys \X Keys),
   out    : SUBSET Items]

EmptyCache ==
  [item |-> [k \in Keys |-> NoItem], stored |-> {},
   left |-> [k \in Keys |-> 0], lru |-> {}, born |-> {}, out |-> {}]

Tracked(c) == {k \in Keys : c.item[k] # NoItem}

\* Mutant of Live: entries do not expire.
LiveForever(c) == c.stored

\* The keys `get' answers for: stored, and not past their expiry.
Live(c) == {k \in c.stored : Ttl = 0 \/ c.left[k] > 0}

\* An order restricted to a set, and an order with k moved behind every key of S.
Among(order, S) == order \cap (S \X S)
MoveLast(order, k, S) == Among(order, S \ {k}) \cup ((S \ {k}) \X {k})

\* Time passes: d clock units go by.
Elapse(c, d) ==
  [c EXCEPT !.left = [k \in Keys |-> IF @[k] > d THEN @[k] - d ELSE 0]]

\* TTLCache.expire.  Only the dictionary forgets; _tracking does not.
Expire(c) ==
  [c EXCEPT !.stored = Live(c), !.lru = Among(@, Live(c))]

\* A lookup moves the entry behind all others in the order of use.
Touch(c, k) == [c EXCEPT !.lru = MoveLast(@, k, c.stored)]

\* popitem: the key not used for longest.
Oldest(c) == CHOOSE k \in c.stored : \A j \in c.stored \ {k} : <<k, j>> \in c.lru

\* Mutant of Evict: the evicted object is not tracked any more.
EvictUntracked(c, k) ==
  [item |-> [c.item EXCEPT ![k] = NoItem], stored |-> c.stored \ {k},
   left |-> [c.left EXCEPT ![k] = 0],
   lru |-> Among(c.lru, c.stored \ {k}), born |-> c.born, out |-> c.out]

\* The victim leaves the dictionary; _tracking keeps it.
Evict(c, k) ==
  [item |-> c.item, stored |-> c.stored \ {k}, left |-> [c.left EXCEPT ![k] = 0],
   lru |-> Among(c.lru, c.stored \ {k}), born |-> c.born, out |-> c.out]

MakeRoom(c, k) ==
  IF k \in c.stored \/ Cardinality(c.stored) < MaxEntries
  THEN c
  ELSE Evict(c, Oldest(c))

\* __setitem__: expire, evict when full, store with a full ttl, then track.
Put(c, k, v) ==
  LET r == MakeRoom(Expire(c), k) IN
  [item   |-> [r.item EXCEPT ![k] = v],
   stored |-> r.stored \cup {k},
   left   |-> [r.left EXCEPT ![k] = Ttl],
   lru    |-> MoveLast(r.lru, k, r.stored),
   born   |-> IF k \in Tracked(r) THEN r.born
              ELSE MoveLast(r.born, k, Tracked(r)),
   out    |-> r.out]

\* Mutant of Change: the changed object is stored again, with a full ttl.
ChangeAndStore(c, k, v) == Put(c, k, v)

\* The object a lookup of k returned is changed in place, through the reference.
Change(c, k, v) == [Touch(c, k) EXCEPT !.item = [c.item EXCEPT ![k] = v]]

\* Mutants of OutDeque: the ttl is not looked at; an item that is still stored
\* leaves _tracking too; what moves to the deque stays in _tracking.
OutDequeUnexpired(c) ==
  LET gone == Tracked(c) \ c.stored
  IN  [c EXCEPT !.item = [k \in Keys |-> IF k \in gone THEN NoItem ELSE c.item[k]],
                !.out = c.out \cup {c.item[k] : k \in gone}]
OutDequeAll(c) ==
  [Expire(c) EXCEPT !.item = [k \in Keys |-> NoItem],
                    !.out = c.out \cup {c.item[k] : k \in Tracked(c)}]
OutDequeKeepsTracking(c) ==
  [Expire(c) EXCEPT !.out = c.out \cup {c.item[k] : k \in Tracked(c) \ Live(c)}]

\* The out_deque property: what is tracked but no longer stored moves to the
\* deque.  It looks up every tracked key in turn, so the order of use becomes
\* the order of _tracking.
OutDeque(c) ==
  LET e    == Expire(c)
      gone == Tracked(e) \ e.stored
  IN  [item   |-> [k \in Keys |-> IF k \in gone THEN NoItem ELSE e.item[k]],
       stored |-> e.stored,
       left   |-> e.left,
       lru    |-> Among(e.born, e.stored),
       born   |-> Among(e.born, e.stored),
       out    |-> e.out \cup {e.item[k] : k \in gone}]

\* Mutant of ClearDeque: it only clears a copy.
ClearDequeCopy(c) == c

ClearDeque(c) == [c EXCEPT !.out = {}]

\* Mutant of ClearCache: the items are only read.
ClearCacheNot(c) == c

\* MutableMapping.clear pops every entry; neither _tracking nor the deque changes.
ClearCache(c) ==
  [item |-> c.item, stored |-> {}, left |-> [k \in Keys |-> 0],
   lru |-> {}, born |-> c.born, out |-> c.out]
=============================================================================
