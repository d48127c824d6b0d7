-------------------------- MODULE CheckAggregator --------------------------
(***************************************************************************)
(* check_request.Aggregator (control/check_request.py) and the calls the   *)
(* client makes to it: application threads run Client.check, scheduler     *)
(* threads - after a restart there may be two for a while - run            *)
(* Client._flush_schedule_check_aggregator.                                *)
(*                                                                         *)
(* Every method of the aggregator holds the lock of the cache, and is one  *)
(* action; between two of them a thread waits for the service, and any     *)
(* other thread may run.  A cached item is a record of the fields of       *)
(* CachedItem, with what add() merged into its operation.Aggregator as a   *)
(* set of requests; quota_scale is always 0 and is left out.               *)
(***************************************************************************)
EXTENDS DequeOutCache

CONSTANTS
  Reqs,           \* check requests, each made at most once
  SigOf,          \* sign: the key a request is cached under
  Important,      \* requests whose operation's importance is not LOW
  Answers,        \* the CheckResponses the service may give
  Errors,         \* those with check_errors
  Blank,          \* those with no field set, which are false in `if res:'
  FlushInterval   \* options.flush_interval; Ttl is options.expiration

\* CheckOptions makes the expiration the longer of the two; without a positive
\* flush_interval create() makes the cache an LRU cache.
ASSUME CheckAssumption ==
  /\ SigOf \in [Reqs -> Keys]
  /\ Important \subseteq Reqs
  /\ Errors \subseteq Answers /\ Blank \subseteq Answers \ Errors
  /\ MaxEntries \in Nat /\ Ttl \in Nat /\ FlushInterval \in Nat
  /\ FlushInterval < Ttl \/ (FlushInterval = 0 /\ Ttl = 0)

VARIABLES
  cache,     \* self._cache
  calls,     \* requests application threads are sending to the service
  batch,     \* flushed CheckRequests the scheduler threads have yet to send
  seen,      \* history: the requests passed to check()
  sent,      \* history: the requests application threads sent themselves
  denied,    \* history: the requests answered with a cached error
  flushed,   \* history: the CheckRequests flush() returned
  heard,     \* history: clock units since the service gave an answer for a key
  quiet      \* history: clock units since a caller was told to refresh a key

vars == <<cache, calls, batch, seen, sent, denied, flushed, heard, quiet>>

-----------------------------------------------------------------------------
Caching == MaxEntries > 0

\* CachedItem.  A flushed CheckRequest is the set of requests merged into it.
Items == [answer : Answers, age : 0..FlushInterval, flushing : BOOLEAN, agg : SUBSET Reqs]

\* None, which stands for a missing item, is none.
ASSUME NoneIsNoItem == NoItem \notin Items

NewItem(a) == [answer |-> a, age |-> 0, flushing |-> FALSE, agg |-> {}]

ItemOf(k) == cache.item[k]
Aggregated == UNION {ItemOf(k).agg : k \in Tracked(cache)}
Pending == Aggregated \cup UNION {i.agg : i \in cache.out}

\* _is_current
IsCurrent(i) == i.age < FlushInterval

\* Mutant of UpdateRequest: denied requests are aggregated too.
UpdateRequestAlways(i, r) == [i EXCEPT !.agg = i.agg \cup {r}]

\* update_request, which only the branch without check_errors calls.
UpdateRequest(i, r) ==
  IF i.answer \in Errors THEN i ELSE [i EXCEPT !.agg = i.agg \cup {r}]

Later(t, d, limit) == IF t + d < limit THEN t + d ELSE limit

\* The clock moves on: entries get closer to expiry, items older.
Pass(c, d) ==
  [Elapse(c, d) EXCEPT !.item = [k \in Keys |->
     IF c.item[k] = NoItem THEN NoItem
     ELSE [c.item[k] EXCEPT !.age = Later(c.item[k].age, d, FlushInterval)]]]

HistoryPasses(d) ==
  /\ heard' = [k \in Keys |-> [a \in Answers |-> Later(heard[k][a], d, Ttl + 1)]]
  /\ quiet' = [k \in Keys |-> Later(quiet[k], d, FlushInterval)]

\* add_response: the item is found, changed and stored again with a full ttl; a
\* new one is stored when there is none that has not expired.
WithResponse(k, a) ==
  IF ~Caching THEN cache
  ELSE IF k \in Live(cache)
       THEN Put(cache, k, [ItemOf(k) EXCEPT !.answer = a, !.age = 0, !.flushing = FALSE])
       ELSE Put(cache, k, NewItem(a))

AddResponse(k, a) ==
  /\ cache' = WithResponse(k, a)
  /\ heard' = [heard EXCEPT ![k][a] = 0]

\* extract_request for every item: None unless something was merged into it.
Extracted(items) == {i.agg : i \in items} \ {{}}

-----------------------------------------------------------------------------
Init ==
  /\ cache = EmptyCache
  /\ calls = {} /\ batch = {}
  /\ seen = {} /\ sent = {} /\ denied = {} /\ flushed = {}
  /\ heard = [k \in Keys |-> [a \in Answers |-> Ttl + 1]]
  /\ quiet = [k \in Keys |-> FlushInterval]

Tick ==
  /\ cache' = Pass(cache, 1)
  /\ HistoryPasses(1)
  /\ UNCHANGED <<calls, batch, seen, sent, denied, flushed>>

Send(r) == calls' = calls \cup {r} /\ sent' = sent \cup {r}

\* check() finds nothing it may answer with: the thread sends the request.
CheckMissed(r) ==
  /\ ~Caching \/ r \in Important \/ SigOf[r] \notin Live(cache)
  /\ Send(r)
  /\ UNCHANGED <<cache, denied, quiet>>

\* A current response: an error denies the request, else it is aggregated.
\* Client.check sends it all the same when the response is false.
CheckCached(r) ==
  LET k == SigOf[r]
      i == ItemOf(k)
  IN  /\ Caching /\ r \notin Important
      /\ k \in Live(cache) /\ IsCurrent(i)
      /\ cache' = Change(cache, k, UpdateRequest(i, r))
      /\ denied' = IF i.answer \in Errors THEN denied \cup {r} ELSE denied
      /\ IF i.answer \in Blank THEN Send(r) ELSE UNCHANGED <<calls, sent>>
      /\ UNCHANGED quiet

\* Mutant of CheckRefreshes: an error's last_check_time is not set.
CheckRefreshesErrors(r) ==
  LET k == SigOf[r]
      i == ItemOf(k)
      u == UpdateRequest(i, r)
  IN  /\ Caching /\ r \notin Important
      /\ k \in Live(cache) /\ ~IsCurrent(i)
      /\ cache' = Change(cache, k,
           IF i.answer \in Errors THEN u ELSE [u EXCEPT !.age = 0, !.flushing = TRUE])
      /\ Send(r)
      /\ quiet' = [quiet EXCEPT ![k] = 0]
      /\ UNCHANGED denied

\* The response is due for a refresh: this thread is told to send its request,
\* later ones get the old response until flush_interval has passed again.
CheckRefreshes(r) ==
  LET k == SigOf[r]
      i == ItemOf(k)
      u == UpdateRequest(i, r)
  IN  /\ Caching /\ r \notin Important
      /\ k \in Live(cache) /\ ~IsCurrent(i)
      /\ cache' = Change(cache, k,
           [u EXCEPT !.age = 0, !.flushing = IF i.answer \in Errors THEN u.flushing ELSE TRUE])
      /\ Send(r)
      /\ quiet' = [quiet EXCEPT ![k] = 0]
      /\ UNCHANGED denied

Check ==
  \E r \in Reqs \ seen :
    /\ seen' = seen \cup {r}
    /\ CheckMissed(r) \/ CheckCached(r) \/ CheckRefreshes(r)
    /\ UNCHANGED <<batch, flushed, heard>>

\* The service answers a thread, however late and in whatever order ...
CheckAnswered ==
  \E r \in calls, a \in Answers :
    /\ AddResponse(SigOf[r], a)
    /\ calls' = calls \ {r}
    /\ UNCHANGED <<batch, seen, sent, denied, flushed, quiet>>

\* ... or the call fails: the error is logged and check() returns None.
CheckFails ==
  \E r \in calls :
    /\ calls' = calls \ {r}
    /\ UNCHANGED <<cache, batch, seen, sent, denied, flushed, heard, quiet>>

\* What flush() returns: it reads the out_deque property ...
HandedOut == Extracted(OutDeque(cache).out)

\* ... and reads it again, d clock units later, to empty it.
Flush ==
  /\ Caching
  /\ \E d \in 0..Ttl :
       /\ cache' = ClearDeque(OutDeque(Pass(OutDeque(cache), d)))
       /\ HistoryPasses(d)
  /\ batch' = batch \cup HandedOut
  /\ flushed' = flushed \cup HandedOut
  /\ UNCHANGED <<calls, seen, sent, denied>>

\* The loop of _flush_schedule_check_aggregator: one request after the other, but
\* two threads may each be in it.
FlushAnswered ==
  \E b \in batch, a \in Answers :
    /\ \E r \in b : AddResponse(SigOf[r], a)
    /\ batch' = batch \ {b}
    /\ UNCHANGED <<calls, seen, sent, denied, flushed, quiet>>

FlushFails ==
  \E b \in batch :
    /\ batch' = batch \ {b}
    /\ UNCHANGED <<cache, calls, seen, sent, denied, flushed, heard, quiet>>

\* clear(), which a scheduler thread calls once the client is stopped.
Clear ==
  /\ Caching
  /\ cache' = ClearDeque(OutDeque(ClearCache(cache)))
  /\ UNCHANGED <<calls, batch, seen, sent, denied, flushed, heard, quiet>>

Next ==
  \/ Tick \/ Check \/ CheckAnswered \/ CheckFails
  \/ Flush \/ FlushAnswered \/ FlushFails \/ Clear

Spec == Init /\ [][Next]_vars

-----------------------------------------------------------------------------
TypeOK ==
  /\ cache \in CacheType(Items)
  /\ cache.stored \subseteq Tracked(cache)
  /\ calls \subseteq sent /\ sent \subseteq seen /\ denied \subseteq seen
  /\ seen \subseteq Reqs
  /\ batch \subseteq flushed
  /\ flushed \subseteq (SUBSET Reqs) \ {{}}
  /\ heard \in [Keys -> [Answers -> 0..(Ttl + 1)]]
  /\ quiet \in [Keys -> 0..FlushInterval]

\* A cached response is never older than the expiration: what check() may
\* answer with is something the service said, for this signature, within the
\* last `expiration' - refreshes that fail, aggregation, and the order in which
\* late answers are added do not keep an old response alive.
ResponseFresh ==
  \A k \in Live(cache) :
    Ttl > 0 => heard[k][ItemOf(k).answer] + cache.left[k] <= Ttl

\* A request is aggregated under one signature, its own, is handed out at most
\* once, and not while it is still aggregated.
AggregatedOnce ==
  /\ \A k \in Tracked(cache) : \A r \in ItemOf(k).agg :
       SigOf[r] = k /\ r \in seen /\ r \notin Important
  /\ Pending \cap UNION flushed = {}
  /\ \A a, b \in flushed : a # b => a \cap b = {}
  /\ \A b \in flushed : \A q, r \in b : SigOf[q] = SigOf[r]

\* A request that was denied by a cached error consumes nothing: it reaches the
\* service neither by itself nor merged into another one, not even after the
\* error was replaced by a positive response in the same item.
DeniedConsumesNothing ==
  denied \cap (sent \cup Pending \cup UNION flushed) = {}

\* While a response is cached, callers are told to refresh it at least
\* flush_interval apart, whether it is an error or not, and however long the
\* refreshing calls take or fail.
RefreshesSpaced ==
  [][\A k \in Keys : (\E r \in Reqs \ seen : SigOf[r] = k /\ Check /\ CheckRefreshes(r))
       => quiet[k] >= FlushInterval]_vars

\* What is aggregated is handed out or lost, once: see module RequestLedger.
Ledger == INSTANCE RequestLedger
  WITH Entries <- Reqs, pending <- Pending, delivered <- UNION flushed
ImplementsLedger == Ledger!Spec

-----------------------------------------------------------------------------
(* What the documentation of the aggregator says, and the code does not do. *)

\* check_request.py:293 flushed requests "contain quota updates that have not
\* been sent": none of the requests merged into them was sent by its caller.
FlushedNotSentBefore == sent \cap UNION flushed = {}
=============================================================================
