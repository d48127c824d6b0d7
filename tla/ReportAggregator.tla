-------------------------- MODULE ReportAggregator --------------------------
(***************************************************************************)
(* report_request.Aggregator (control/report_request.py): operations with  *)
(* the same signature are merged in a DequeOut cache until they expire,    *)
(* and flush() hands the merged operations out in ReportRequests.          *)
(*                                                                         *)
(* An operation is an identifier.  A merged operation (an instance of      *)
(* operation.Aggregator) is the set of operations merged into it, so that  *)
(* "counted twice" and "lost" can be told.  Every method holds the lock of *)
(* the cache from its first access to its return: a method is one action,  *)
(* except that the loop of report() is one step per signature, the lock    *)
(* being held while `todo' is not empty.                                   *)
(***************************************************************************)
EXTENDS DequeOutCache

CONSTANTS
  Ops,                \* operations callers may report, each at most once
  SigOf,              \* _sign_operation: the key an operation is cached under
  Important,          \* operations whose importance is not LOW
  MaxOperationCount,  \* MAX_OPERATION_COUNT
  MaxRequestSize      \* bound: operations in one ReportRequest

ASSUME ReportAssumption ==
  /\ SigOf \in [Ops -> Keys]
  /\ Important \subseteq Ops
  /\ MaxEntries \in Nat
  /\ Ttl \in Nat
  /\ NoItem = {}
  /\ MaxOperationCount \in Nat \ {0}
  /\ MaxRequestSize \in Nat

VARIABLES
  cache,      \* self._cache
  todo,       \* ops_by_signature entries the running report() has yet to cache
  accepted,   \* history: operations of requests report() began to cache
  refused,    \* history: operations of requests answered None
  requests,   \* history: the ReportRequests flush() returned
  finals,     \* history: the Operations clear() returned
  age         \* history: clock units since a cached operation was merged in

vars == <<cache, todo, accepted, refused, requests, finals, age>>

\* ReportOptions has no expiration: create() makes flush_interval the ttl.
FlushInterval == Ttl

-----------------------------------------------------------------------------
Aggregates == (SUBSET Ops) \ {{}}      \* the values of operation.Aggregator

InItems(keys) == UNION {cache.item[k] : k \in keys}
Waiting == UNION cache.out
Held == InItems(Keys) \cup Waiting \cup todo
Delivered == refused \cup (UNION UNION requests) \cup (UNION finals)
Caching == MaxEntries > 0
Unlocked == todo = {}

Requests ==
  UNION {{r \in [1..n -> Ops \ (accepted \cup refused)] :
            \A i, j \in 1..n : r[i] = r[j] => i = j} : n \in 0..MaxRequestSize}

OpsOf(req) == {req[i] : i \in DOMAIN req}

\* _has_high_important_operation folds with `and': it is true when every
\* operation is important, and for a request without operations.
HasHighImportantOperation(req) == OpsOf(req) \subseteq Important

\* _key_by_signature builds a dict: the last operation of each signature stays.
KeyBySignature(req) ==
  {req[i] : i \in {j \in DOMAIN req :
     \A m \in DOMAIN req : m > j => SigOf[req[m]] # SigOf[req[j]]}}

\* The flushed operations in slices of MaxOperationCount: all full but one.
Slices(ops) ==
  IF ops = {} THEN {{}} ELSE
  {P \in SUBSET ((SUBSET ops) \ {{}}) :
     /\ UNION P = ops
     /\ \A A, B \in P : A = B \/ A \cap B = {}
     /\ \A A \in P : Cardinality(A) <= MaxOperationCount
     /\ Cardinality({A \in P : Cardinality(A) < MaxOperationCount}) <= 1}

Aged(d) == [o \in Ops |->
  IF o \notin InItems(Keys) THEN 0
  ELSE IF age[o] + d < FlushInterval THEN age[o] + d ELSE FlushInterval]

-----------------------------------------------------------------------------
Init ==
  /\ cache = EmptyCache
  /\ todo = {} /\ accepted = {} /\ refused = {}
  /\ requests = {} /\ finals = {}
  /\ age = [o \in Ops |-> 0]

\* The clock moves between, and during, the calls.
Tick ==
  /\ cache' = Elapse(cache, 1)
  /\ age' = Aged(1)
  /\ UNCHANGED <<todo, accepted, refused, requests, finals>>

\* report() returns None before it takes the lock: the caller sends the request.
ReportRefused ==
  \E req \in Requests :
    /\ ~Caching \/ HasHighImportantOperation(req)
    /\ refused' = refused \cup OpsOf(req)
    /\ UNCHANGED <<cache, todo, accepted, requests, finals, age>>

\* report() keys the operations by signature and takes the lock.
ReportBegin ==
  /\ Caching /\ Unlocked
  /\ \E req \in Requests :
       /\ ~HasHighImportantOperation(req)
       /\ todo' = KeyBySignature(req)
       /\ accepted' = accepted \cup OpsOf(req)
  /\ UNCHANGED <<cache, refused, requests, finals, age>>

\* One iteration of the loop: a hit merges op into the cached aggregator, in
\* place and without touching its expiry; a miss caches a new aggregator.
Added(op) ==
  LET k == SigOf[op] IN
  IF k \in Live(cache)
  THEN Change(cache, k, cache.item[k] \cup {op})
  ELSE Put(cache, k, {op})

ReportStep ==
  \E op \in todo :
    /\ cache' = Added(op)
    /\ todo' = todo \ {op}
    /\ UNCHANGED <<accepted, refused, requests, finals, age>>

\* Merging raises: two operations that have a start time, or metric values that
\* cannot be merged.  What was merged before the error stays in the cached
\* aggregator - all of the operation or none, as far as counting can tell - the
\* operations after it are not cached, and the caller gets the exception.
ReportRaises ==
  \E op \in todo :
    /\ SigOf[op] \in Live(cache)
    /\ cache' \in {cache, Added(op)}
    /\ todo' = {}
    /\ UNCHANGED <<accepted, refused, requests, finals, age>>

\* flush() reads the out_deque property twice: once to take the items, and, d
\* clock units later, once more to clear the deque.
Flush ==
  /\ Caching /\ Unlocked
  /\ \E d \in 0..FlushInterval :
       LET first  == OutDeque(cache)
           second == OutDeque(Elapse(first, d))
       IN  /\ cache' = ClearDeque(second)
           /\ age' = Aged(d)
           /\ \E batches \in Slices(first.out) : requests' = requests \cup batches
  /\ UNCHANGED <<todo, accepted, refused, finals>>

\* clear() returns what the dictionary still serves, then empties everything.
Clear ==
  /\ Caching /\ Unlocked
  /\ finals' = finals \cup {cache.item[k] : k \in Live(cache)}
  /\ cache' = ClearDeque(OutDeque(ClearCache(cache)))
  /\ UNCHANGED <<todo, accepted, refused, requests, age>>

Next ==
  \/ Tick \/ ReportRefused \/ ReportBegin \/ ReportStep \/ ReportRaises
  \/ Flush \/ Clear

Spec == Init /\ [][Next]_vars

\* Time passes, a running report() runs on, and the scheduler thread of the
\* client calls flush() every flush_interval.
FairSpec ==
  Spec /\ WF_vars(Tick) /\ WF_vars(ReportStep) /\ WF_vars(Flush)

-----------------------------------------------------------------------------
TypeOK ==
  /\ cache \in CacheType(Aggregates)
  /\ cache.stored \subseteq Tracked(cache)
  /\ todo \subseteq Ops
  /\ accepted \subseteq Ops
  /\ refused \subseteq Ops
  /\ requests \subseteq SUBSET Aggregates
  /\ finals \subseteq Aggregates
  /\ age \in [Ops -> 0..FlushInterval]

\* An operation is counted at most once, and only if it was reported: it is never
\* held in two places, and once handed out, by whatever way, it is not held any
\* more.  flush() and the deque, eviction, and an entry cached again under the
\* same signature could each leave a second copy behind.
CountedOnce ==
  /\ Held \cup Delivered \subseteq accepted \cup refused
  /\ Held \cap Delivered = {}
  /\ todo \cap (InItems(Keys) \cup Waiting) = {}
  /\ InItems(Keys) \cap Waiting = {}
  /\ \A j, k \in Keys : j # k => cache.item[j] \cap cache.item[k] = {}
  /\ \A a, b \in cache.out : a # b => a \cap b = {}
  /\ \A a, b \in (UNION requests) \cup finals : a # b => a \cap b = {}
  /\ refused \cap ((UNION UNION requests) \cup (UNION finals)) = {}

\* Merging does not postpone a flush: an operation merged into a live entry
\* is out of that entry at most flush_interval after it was merged, however often
\* its signature is reported.
HeldWithinInterval ==
  \A k \in Live(cache) : \A o \in cache.item[k] :
    FlushInterval > 0 => age[o] + cache.left[k] <= FlushInterval

\* A report never loses what a live entry holds or what waits in the deque, not
\* even when the cache is full and caching a new signature evicts an old one, or
\* when merging raises.
ReportKeepsLiveEntries ==
  [][ReportStep \/ ReportRaises => InItems(Live(cache)) \cup Waiting \subseteq Held']_vars

\* A flush hands out everything that had expired, or had been evicted, when it
\* started, in the same call.
FlushHandsOutExpired ==
  [][Flush => InItems(Keys \ Live(cache)) \cup Waiting \subseteq Delivered']_vars

\* The aggregator implements the ledger: no operation is delivered twice, none
\* is delivered that was not reported, none comes back.
Ledger == INSTANCE RequestLedger
  WITH Entries <- Ops, pending <- Held, delivered <- Delivered,
       seen <- accepted \cup refused
ImplementsLedger == Ledger!Spec

\* Whatever is held is handed out or dropped sooner or later: nothing stays in
\* the aggregator forever while the scheduler keeps calling flush().
HeldLeaves == \A o \in Ops : (o \in Held) ~> (o \notin Held)

-----------------------------------------------------------------------------
(* What comments of the repository say, and the code does not do.          *)

\* caches.py:224 "expired items are placed in a deque": a report leaves every
\* operation held before it in the cache or in the deque.
ExpiredItemsReachDeque ==
  [][ReportStep => Held \subseteq Held']_vars

\* report_request.py:460 flush() returns the requests "corresponding to the pending
\* cached operations": what a flush removes from the cache it also returns.
FlushReturnsPending ==
  [][Flush => Held \subseteq Held' \cup Delivered']_vars

\* client.py:258 stop() "will lead to the reports being flushed": what clear(),
\* which it calls to this end, removes from the cache it also returns.
ClearReturnsReports ==
  [][Clear => Held \subseteq Delivered']_vars
=============================================================================
