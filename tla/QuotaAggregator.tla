-------------------------- MODULE QuotaAggregator --------------------------
(***************************************************************************)
(* quota_request.Aggregator (control/quota_request.py) and the calls the   *)
(* client makes to it: application threads run Client.allocate_quota,      *)
(* scheduler threads - after a restart there may be two for a while - run  *)
(* Client._flush_schedule_quota_aggregator.                                *)
(*                                                                         *)
(* Every method holds the locks of the cache and of _out and is one        *)
(* action.  The cache is a plain cachetools.TTLCache: what it loses is     *)
(* gone.  An AllocateQuotaRequest, merged or not, is the set of the        *)
(* requests whose cost it carries; its quota mode is left out.             *)
(***************************************************************************)
EXTENDS DequeOutCache, Sequences, SequencesExt

CONSTANTS
  Reqs,           \* quota requests, each made at most once
  SigOf,          \* sign: the key a request is cached under
  Answers,        \* the AllocateQuotaResponses the service may give
  Errors,         \* those with allocate_errors
  Temp,           \* temp_response, which only has an operation_id
  Dummy,          \* AllocateQuotaResponse(), which is false in `if res:'
  FlushInterval   \* options.flush_interval; Ttl is options.expiration

\* QuotaOptions makes the expiration the longer of the two.
ASSUME QuotaAssumption ==
  /\ SigOf \in [Reqs -> Keys]
  /\ Errors \subseteq Answers /\ {Temp, Dummy} \cap Errors = {}
  /\ Temp \notin Answers \cup {Dummy}
  /\ IsFiniteSet(Keys)
  /\ MaxEntries \in Nat /\ Ttl \in Nat
  /\ FlushInterval \in 1..(Ttl - 1)

VARIABLES
  cache,    \* self._cache
  out,      \* self._out: the requests the next flush() returns
  batch,    \* flushed requests the scheduler threads have yet to send
  calls,    \* requests application threads are sending themselves
  seen,     \* history: the requests passed to allocate_quota()
  denied,   \* history: the requests answered with a cached error
  handed,   \* history: the requests that were part of what flush() returned
  failed,   \* history: those of them that were part of a call that failed
  heard     \* history: clock units, up to Ttl, since an answer was given for a key

vars == <<cache, out, batch, calls, seen, denied, handed, failed, heard>>

-----------------------------------------------------------------------------
Caching == MaxEntries > 0

\* CachedItem; `request' is the one it was constructed with.
Items == [answer : Answers \cup {Temp, Dummy}, age : 0..Ttl, inFlight : BOOLEAN,
          agg : SUBSET Reqs, request : SUBSET Reqs]

\* No cached item is mistaken for `no item'.
ASSUME NoneIsNoItem == NoItem \notin Items

NewItem(q, a, flying) ==
  [answer |-> a, age |-> 0, inFlight |-> flying, agg |-> {}, request |-> q]

ItemOf(k) == cache.item[k]
Aggregated == UNION {ItemOf(k).agg : k \in Tracked(cache)}
Queued(s) == UNION {s[i] : i \in DOMAIN s}

\* The sequence of the elements of S in a given order, the one member of this set.
InOrder(S, order) ==
  {s \in SetToSeqs(S) : \A j \in DOMAIN s : \A i \in 1..(j - 1) : <<s[i], s[j]>> \in order}

\* Mutant of Plain: the cache is created with use_deque=True.
PlainDequeOut(c) == c

\* A plain cache has no tracking: an item is where the dictionary has it, and
\* `born' is the order of the last store, in which values() visits the entries.
Plain(c) ==
  [c EXCEPT !.item = [k \in Keys |-> IF k \in c.stored THEN c.item[k] ELSE NoItem],
            !.born = Among(c.born, c.stored)]
Store(c, k, v) ==
  LET p == Put(c, k, v) IN Plain([p EXCEPT !.born = MoveLast(c.born, k, p.stored)])

Later(t, d, limit) == IF t + d < limit THEN t + d ELSE limit
Older(i) == [i EXCEPT !.age = Later(i.age, 1, Ttl)]

ShouldRefresh(i) == i.age >= FlushInterval
ShouldExpire(i) == i.age >= Ttl
IsPositive(i) == i.answer \notin Errors

\* Mutant of Aggregate: the response is not looked at.
AggregateAlways(i, r) == [i EXCEPT !.agg = i.agg \cup {r}]

Aggregate(i, r) == IF IsPositive(i) THEN [i EXCEPT !.agg = i.agg \cup {r}] ELSE i

\* extract_request: what was aggregated, else the original request once more.
Extracted(i) == IF i.agg = {} THEN i.request ELSE i.agg
\* Mutant of Flying: the aggregator is not reset.
FlyingKeepsAggregated(i) == [i EXCEPT !.inFlight = TRUE]

Flying(i) == [i EXCEPT !.inFlight = TRUE, !.agg = {}]

\* Mutant of AddResponse: a cached item is not looked for.
AddResponseAnew(k, q, a) ==
  /\ cache' = IF Caching THEN Store(cache, k, NewItem(q, a, FALSE)) ELSE cache
  /\ heard' = [heard EXCEPT ![k][a] = 0]

\* add_response for the request q.
AddResponse(k, q, a) ==
  /\ cache' = IF ~Caching THEN cache
              ELSE IF k \in Live(cache)
              THEN Store(cache, k, [ItemOf(k) EXCEPT !.answer = a, !.age = 0, !.inFlight = FALSE])
              ELSE Store(cache, k, NewItem(q, a, FALSE))
  /\ heard' = [heard EXCEPT ![k][a] = 0]

-----------------------------------------------------------------------------
Init ==
  /\ cache = EmptyCache
  /\ out = <<>> /\ batch = <<>> /\ calls = {}
  /\ seen = {} /\ denied = {} /\ handed = {} /\ failed = {}
  /\ heard = [k \in Keys |-> [a \in Answers \cup {Temp, Dummy} |-> Ttl]]

Tick ==
  /\ cache' = [Elapse(cache, 1) EXCEPT !.item = [k \in Keys |->
                 IF ItemOf(k) = NoItem THEN NoItem ELSE Older(ItemOf(k))]]
  /\ heard' = [k \in Keys |-> [a \in DOMAIN heard[k] |-> Later(heard[k][a], 1, Ttl)]]
  /\ UNCHANGED <<out, batch, calls, seen, denied, handed, failed>>

\* Mutant of AllocateMissed: the request is not queued.
AllocateMissedUnqueued(r) ==
  /\ SigOf[r] \notin Live(cache) /\ Caching
  /\ cache' = Store(cache, SigOf[r], NewItem({r}, Temp, TRUE))
  /\ heard' = [heard EXCEPT ![SigOf[r]][Temp] = 0]
  /\ UNCHANGED <<out, calls, denied>>

\* Nothing is cached: the request is queued for the next flush and answered
\* with a temporary positive response, under which others are aggregated.
\* Without a cache the application thread sends the request.
AllocateMissed(r) ==
  LET k == SigOf[r] IN
  /\ k \notin Live(cache)
  /\ IF Caching
     THEN /\ cache' = Store(cache, k, NewItem({r}, Temp, TRUE))
          /\ out' = Append(out, {r})
          /\ heard' = [heard EXCEPT ![k][Temp] = 0]
          /\ UNCHANGED calls
     ELSE calls' = calls \cup {r} /\ UNCHANGED <<cache, out, heard>>
  /\ UNCHANGED denied

\* A response is cached.  If it is due for a refresh, what was aggregated so
\* far is queued first; then this request is aggregated unless it is denied.
\* A false response is not used: the application thread sends its request.
AllocateCached(r) ==
  LET k == SigOf[r]
      i == ItemOf(k)
      refresh == ~i.inFlight /\ ShouldRefresh(i)
  IN  /\ Caching /\ k \in Live(cache)
      /\ cache' = Change(cache, k, Aggregate(IF refresh THEN Flying(i) ELSE i, r))
      /\ out' = IF refresh THEN Append(out, Extracted(i)) ELSE out
      /\ denied' = IF IsPositive(i) THEN denied ELSE denied \cup {r}
      /\ calls' = IF i.answer = Dummy THEN calls \cup {r} ELSE calls
      /\ UNCHANGED heard

AllocateQuota ==
  \E r \in Reqs \ seen :
    /\ seen' = seen \cup {r}
    /\ AllocateMissed(r) \/ AllocateCached(r)
    /\ UNCHANGED <<batch, handed, failed>>

\* The service answers an application thread; if the call fails, an empty
\* positive response is cached and returned.  After any other exception than
\* exceptions.Error nothing is cached.
CallEnds ==
  \E r \in calls :
    /\ \/ \E a \in Answers \cup {Dummy} : AddResponse(SigOf[r], {r}, a)
       \/ UNCHANGED <<cache, heard>>
    /\ calls' = calls \ {r}
    /\ UNCHANGED <<out, batch, seen, denied, handed, failed>>

\* flush(): unless they are in flight, items with something aggregated are
\* queued; everything queued is returned.
Flush ==
  LET e     == Plain(Expire(cache))
      ready == {k \in e.stored : ~ShouldExpire(e.item[k]) /\ ~e.item[k].inFlight
                                   /\ e.item[k].agg # {}}
  IN  /\ Caching
      /\ cache' = [e EXCEPT !.lru = e.born,
                            !.item = [k \in Keys |-> IF k \in ready THEN Flying(e.item[k])
                                                     ELSE e.item[k]]]
      /\ \E order \in InOrder(ready, e.born) :
           batch' = batch \o out \o [i \in DOMAIN order |-> e.item[order[i]].agg]
      /\ out' = <<>>
      /\ handed' = handed \cup Queued(batch')
      /\ UNCHANGED <<calls, seen, denied, failed, heard>>

\* The loop of _flush_schedule_quota_aggregator: one request after the other, but
\* another thread may be at a later one.
FlushAnswered ==
  /\ \E n \in DOMAIN batch :
       /\ \E a \in Answers, r \in batch[n] : AddResponse(SigOf[r], batch[n], a)
       /\ batch' = RemoveAt(batch, n)
  /\ UNCHANGED <<out, calls, seen, denied, handed, failed>>

\* A failure is logged.  Nothing tells the item: it stays in flight, although
\* nobody awaits its answer any more.
FlushFails ==
  /\ \E n \in DOMAIN batch :
       /\ batch' = RemoveAt(batch, n)
       /\ failed' = failed \cup batch[n]
  /\ UNCHANGED <<cache, out, calls, seen, denied, handed, heard>>

\* clear(): the cache and the queue; requests in flight stay in flight.
Clear ==
  /\ Caching
  /\ cache' = Plain(ClearCache(cache))
  /\ out' = <<>>
  /\ UNCHANGED <<batch, calls, seen, denied, handed, failed, heard>>

Next == Tick \/ AllocateQuota \/ CallEnds \/ Flush \/ FlushAnswered \/ FlushFails \/ Clear

Spec == Init /\ [][Next]_vars

-----------------------------------------------------------------------------
TypeOK ==
  /\ cache \in CacheType(Items)
  /\ Tracked(cache) = cache.stored
  /\ out \in Seq(SUBSET Reqs) /\ batch \in Seq(SUBSET Reqs)
  /\ calls \subseteq seen /\ denied \subseteq seen
  /\ failed \subseteq handed /\ handed \subseteq seen /\ seen \subseteq Reqs
  /\ heard \in [Keys -> [Answers \cup {Temp, Dummy} -> 0..Ttl]]

\* A response, the temporary one too, is served for at most the expiration
\* after it was given: neither refreshing nor aggregating, nor a flush that
\* fails, prolongs it, and no late answer to an older item does.
ResponseFresh ==
  \A k \in Live(cache) : heard[k][ItemOf(k).answer] + cache.left[k] <= Ttl

\* The requests of flush() that are still to be answered, and those that will not
\* be because the call that carried them has failed.
Pending == Queued(out) \cup Queued(batch) \cup failed

\* The temporary positive response is no free ride: as long as it is served, the
\* request it was made for waits to be flushed, or is with the scheduler thread,
\* or went out in a call that failed.  In the last case nobody awaits an answer:
\* the temporary response is served for the rest of the expiration (ResponseFresh)
\* and the item is neither refreshed nor flushed.  In no other case is the
\* temporary response left in the cache, not when an answer to the request, or to
\* another of its signature, has arrived, and not when clear() drops the queue.
TemporaryIsBacked ==
  \A k \in Live(cache) : ItemOf(k).answer = Temp =>
    ItemOf(k).inFlight /\ ItemOf(k).request \subseteq Pending

\* A request denied by a cached error is never charged, not even when the item
\* becomes positive again and is flushed.
DeniedConsumesNothing ==
  denied \cap (handed \cup Aggregated \cup Queued(out) \cup calls) = {}

\* A request is aggregated under one signature, its own, and waits in one place:
\* what is aggregated is not queued as well and has not been handed out, although
\* queued requests are sent again when there is nothing else to refresh with.
AggregatedOnce ==
  /\ Aggregated \cap (Queued(out) \cup handed) = {}
  /\ \A k \in Tracked(cache) : \A r \in ItemOf(k).agg : SigOf[r] = k /\ r \in seen

\* What a response that arrives does to what is aggregated under a live item: it
\* keeps it, whether it answers that item, late or not, or another.  The one
\* exception: the cache is full, the response is of a signature that has no item,
\* and the item evicted to make room is lost with what it had aggregated.
ResponseKeepsAggregated ==
  [][CallEnds \/ FlushAnswered =>
       \A k \in Live(cache) :
         \/ k \in Live(cache)' /\ ItemOf(k)'.agg = ItemOf(k).agg
         \/ /\ Cardinality(Live(cache)) >= MaxEntries
            /\ Live(cache) \ Live(cache)' = {k}
            /\ \E j \in Live(cache)' : j \notin Live(cache) /\ ItemOf(j)'.agg = {}]_vars

-----------------------------------------------------------------------------
(* What the source says of the aggregator, and the code does not do.       *)

\* quota_request.py:264 flush() returns "AllocateQuotaRequests that were pending":
\* what a flush removes from the cache it returns.
FlushReturnsPending ==
  [][Flush => Aggregated \subseteq Aggregated' \cup Queued(batch')]_vars
=============================================================================
