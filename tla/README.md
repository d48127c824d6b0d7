# endpoints-management: a verification of its service control client

`endpoints_management` is the library that Google Cloud Endpoints puts in front of a
Python web application. For each request of the application it asks the Service
Control service whether the caller may proceed (*check*), takes quota (*allocate
quota*), and afterwards *reports* what happened. To keep the service out of the
critical path, the client caches answers and aggregates requests, and a scheduler
thread flushes what was aggregated. The TLA+ modules in this directory model the caches,
the aggregators and the client, where threads, time, bounded caches and failing calls
meet; the WSGI application that calls them, with its loading thread and its
authentication; and the sequential parts that decide what is counted, merged and
reported.

All paths below are relative to `src/endpoints_management/`.

## The system

| component | state | operations | interacts with |
|---|---|---|---|
| `control/caches.py` | a dictionary with expiry and a bound, `_tracking`, `_out_deque`, a lock | `create`, get, `__setitem__`, `out_deque`, `clear` | used by the three aggregators, always under its lock |
| `control/report_request.py` `Aggregator` | a DequeOut cache of merged operations | `report`, `flush`, `clear` | called by application threads and the scheduler thread |
| `control/check_request.py` `Aggregator`, `CachedItem` | a DequeOut cache of responses with the requests aggregated under them | `check`, `add_response`, `flush`, `clear` | as above; every answer of the service comes back through `add_response` |
| `control/quota_request.py` `Aggregator`, `CachedItem` | a plain TTL cache of responses, a queue `_out` | `allocate_quota`, `add_response`, `flush`, `clear` (never called) | as above |
| `control/client.py` `Client` | `_running`, `_stopped`, `_thread`, `_scheduler`, the idle timer | `start`, `stop`, `check`, `allocate_quota`, `report`, three self-rescheduling flushes | owns the aggregators, calls the service |
| `control/vendor/py3/sched.py` | a queue of events | `enter`, `run`, `empty` | runs the flushes |
| `control/operation.py`, `metric_value.py`, `distribution.py`, `money.py`, `timestamp.py` | none, or one operation that others are merged into | merging and adding of values | used by the aggregators under their locks |
| `control/wsgi.py` | the loaded configuration, the wrapped application | `ConfigFetchWrapper.__call__`, the loading thread, the middlewares | calls the client for each web request |
| `control/service.py`, `path_regex.py`, `label_descriptor.py`, `metric_descriptor.py`, `signing.py` | tables built once | lookups | used by the middlewares and the Info classes |
| `auth/*` | caches of decoded tokens, keys, discovered URIs | `authenticate`, `supply` | called by the authentication middleware |
| `config/service_config.py` | none | fetches the configuration over HTTP | called by the loaders |

What is hard, and what makes each part correct:

* *Caches.* An entry may be in the dictionary, only in `_tracking`, or in the deque.
  It moves when time passes, on eviction, when the deque is read and on `clear`. No
  object may be in two places, and none may vanish.
* *Aggregators.* Each method is atomic under the lock, but a thread waits for the
  service between two of them. Answers come late, in another order, or never;
  items expire, are evicted, refreshed or flushed meanwhile. A request must be
  charged once, a denied one never, and a cached answer must not outlive its
  expiration.
* *Client.* `start` and `stop` race with the scheduler thread; what is accepted
  while the client stops, and what ends the thread, decide whether anything is sent.
* *Values.* Carry, overflow and merging of incompatible values.
* *Configuration and authentication.* Unlocked sharing between a loading thread and
  requests; failures that are cached.

`PROJECT.json` lists the hazards one by one, each at its line. Some behaviours of the code
look odd and are not listed there, because no statement of the repository says
otherwise; the modules do as the code does:

* the importance of a report's operations is folded with `and`, so one LOW operation
  makes the request one that is cached (`report_request.py:541`), and of two operations
  of a request with one signature only the last is kept (554); the library's own
  requests have one operation;
* an item of the check cache that is refreshed in time keeps what it has aggregated, and
  is flushed only after nobody asked for it for an expiration (`check_request.py:391`);
* a client without a thread never flushes quota (`client.py:431`), and the quota cache
  survives a stop (385);
* a client that is started again before the old thread has run its next event keeps two
  chains of repeated flushes, and flushes twice as often (`client.py:240`): `RepeatsPerStart`
  bounds the chains by the number of starts;
* a discovery that answers without a `jwks_uri` is remembered as a failure and never tried
  again (`auth/suppliers.py:72`), as the docstring of `IssuerUriConfig` has it.

## Modules

| module | models |
|---|---|
| `DequeOutCache` | `caches.py`: `DequeOutTTLCache`, `DequeOutLRUCache` and the parts of `cachetools` 5.2 they rest on (external), as operators on a record |
| `RequestLedger` | abstract specification: what an aggregator promises about the entries it is given |
| `ReportAggregator` | `report_request.Aggregator`; implements `RequestLedger` |
| `CheckAggregator` | `check_request.Aggregator` with `Client.check` and the check flush loop; implements `RequestLedger` |
| `QuotaAggregator` | `quota_request.Aggregator` with `Client.allocate_quota` and the quota flush loop |
| `ClientLifecycle` | `client.Client`: start, stop, its threads and schedulers, the flushes that repeat themselves, idle shutdown; implements `RequestLedger` |
| `Gateway` | `wsgi.py`: the configuration wrapper with its loading thread, and the middlewares every request passes |
| `Authenticator` | `auth/`: the authenticator, the two key suppliers and their caches; `dogpile.cache` (external) as they use it |
| `Distribution` | `distribution.py` |
| `Money` | `money.py` |
| `OperationMerge` | `operation.Aggregator`, `metric_value.py`, comparing times |
| `ReportRules` | `extract_report_spec`, `ReportingRules`, the labels and metrics of an `Info`; uses the operators of `OperationMerge` |
| `Registry` | `service.MethodRegistry` |
| `DequeOutCacheProofs` | lemmas about the cache operators, used by the next three |
| `ReportAggregatorProofs`, `CheckAggregatorProofs`, `QuotaAggregatorProofs`, `ClientLifecycleProofs` | the theorems about the module each is named after |
| `RequestsProofs` | the theorems about `Gateway` and `Authenticator`, which share no state |
| `AlgorithmsProofs` | the theorems about `Money`, `Registry` and `ReportRules`, which share no state |
| `MergingProofs` | sums over finite sets, and the theorems about `OperationMerge` and `Distribution`, which share no state either |
| `MC...` | the constants of the instances TLC checks; `MCRequests`, `MCAlgorithms` and `MCReports` put parts that share no state side by side |

### How state and actions correspond to the code

*The cache.* The dictionary and `_tracking` hold the same object under a stored key,
so one function `item` stands for both and `stored` is the domain of the dictionary.
`left` is the remaining ttl, `lru` and `born` are the order of use and of
`_tracking`, `out` is the deque. Time is relative: `Elapse` shortens every `left`.
`Put` is `__setitem__` (expire, evict, store, track), `OutDeque` the property that
moves what is tracked and no longer stored, `Change` the update of an object in
place through the reference a lookup returned. `Ttl = 0` selects the LRU cache that
`create` makes for a zero interval; `MaxEntries = 0` is the disabled cache.

*Requests and operations* are identifiers; what was merged into an `operation.Aggregator`
or `QuotaOperationAggregator` is the set of the identifiers. "Lost", "sent twice" and
"denied, yet charged" are then statements about sets.

*Report.* `ReportRefused` is the `None` of a disabled cache or an important request.
`ReportBegin` keys the operations by signature and takes the lock, `ReportStep` is one
iteration of the loop; `ReportRaises` is one in which `agg.add` raises, before or after
it has merged the operation in part, and which ends the call. `Flush` reads `out_deque`
twice with a delay `d` in between, as the two evaluations of the property do, and cuts
the operations into slices of `MAX_OPERATION_COUNT`. `Clear` returns the live values
only.

*Check.* `Check` is `CheckMissed`, `CheckCached` or `CheckRefreshes`, for the three ways
`check()` and `_handle_cached_response` end; a thread told to send is in `calls` until
`CheckAnswered` or `CheckFails`. `Flush` hands out what the first reading of `out_deque`
gives (`HandedOut`); `FlushAnswered` and `FlushFails` are the loop of the scheduler thread
that got it. Two threads may flush, as `ClientLifecycle` shows, so `batch` is what all
of them have still to send, in any order. An answer in `Blank` has no field set and
is false in the client's `if res:`.

*Quota.* `AllocateMissed` stores the temporary response and queues the request,
`AllocateCached` is the rest of `allocate_quota`, with the refresh before the
aggregation. The plain cache is the same record without tracking (`Plain`): what it
loses is gone. `Flush` expires first, then visits the entries in the order of
`values()` (`InOrder`). `CallEnds` is an application thread that got a false response, or that has
no cache, and sends itself. `Clear` is there because the class has it; nothing calls it.

*Client.* The three aggregators are reduced to the reports that are held: what they do
with them is the business of their own modules, and what the client adds is when it
calls them. Each start that succeeds has a number, which names the thread it creates and
the scheduler that thread makes, so `scheduler = n` is `self._scheduler`; the queue of a
scheduler outlives that reference, as the object does. The lock is only ever held over
several steps by a thread in `stop()`: it clears the report aggregator (`StopBegins`), sends the
reports and sets `_stopped` (`StopSent`, or `StopRaises`), cleans up and resets `_running`
(`StopCleans`), and forgets the scheduler (`StopEnds`). In between it is in one of the phases
`InStop`, and `LockFree` is that no thread is. What the other threads do without the lock
falls between these steps. A flush is `Pop` (the scheduler's),
`FlushBegins`, one of `FlushSent` or, when the client has been stopped, `Cleanup`, and `Enter`, which
reads `self._scheduler` anew. `Repeats` counts the events of a kind that are queued or
under way. Without threads, `report()` runs the scheduler itself:
`StartDirectly`, then `RunScheduler` by the application thread. Any exception but the
library's own ends the call or the thread (`MayRaise`, `Dies`): one from sending reports
loses them (`Raise`), one from `_create_transport()`, which every flush calls outside of any
`try`, comes before anything is taken (`FlushBegins`, `InitializeRaises`). Whether reports are
cached and whether their flush is scheduled are two things: `"cache"` in `enabled` says the
first, `"report"` the second. With `flush_interval` zero and `num_entries` positive,
`caches.create` makes a cache and no flush is scheduled.

*Gateway.* `at` is where a serving thread is in `ConfigFetchWrapper.__call__` and the
middlewares, one action for each read or write of the shared fields and each call that
may refuse or raise. `config`, `threadingFailed` and `ready` are shared without a lock.
What a check or quota response says is a choice of the action. Wrapping the application
(`Wrapped`) may raise for what the constructors find in the configuration, and taking the
token out of a request (`Dispatch`) raises outside of the `try` that follows it.

*Authenticator.* A token is an element of `Tokens` with what is decoded from it. `Claims` is
the look into the claims cache, `Keys` the look into the key cache, both with dogpile's
rule: one thread regenerates, the others use the expired entry if there is one and wait
if not. `Asked` is the issuer's side of a retrieval, with its keys of that moment, and
`Fetched` the arrival of the answer, as much later as you like; the cache dates the keys by
the arrival. `late` records how late an answer was, and for how long after their expiration
keys and claims were used. `Fetched` and `NotFetched` end a retrieval, `Verify` a verification,
`CheckClaims` is what is checked at each call.

*Sequential parts.* `Distribution`, `Money` and `OperationMerge` have as state the object
the code updates and a history of what was put in; an action is one call. `OperationMerge`
takes the call `add()` apart: `Add` appends the log entries and the end time, then one
`MergeValue` merges one metric value, or raises and leaves the rest. A distribution is there
its count and its bucket options; `Mergeable` has the pairs of options for which
`distribution.merge` does not raise. In `Distribution` the
sorting of explicit bounds is the set of their increasing arrangements (there is one), and an
exponential bound is the scale times an entry of `Powers`. In `Registry` and
`ReportRules` an action is one round of one of the code's loops. `Registry` reads the HTTP
rules (`ExtractRule`), chooses the method of the preflights (`AddCorsOptions`) and registers
it for one URL after another (`RegisterOptions`), reads the usage rules and the system
parameters; `NextPhase` is the end of a loop, and `Lookup` is an operator. `ReportRules`
reads one destination after another: its resource (`EnterDestination`), its logs or metrics
(`ReadLog`, `ReadMetric`), its end (`LeaveDestination`); `NextStage` is the end of a loop
over destinations. Then `Report` merges what an operation is apart from its metrics, and
`MergeMetric` one metric of it. Each invariant compares the object with a definition over
the history (the samples, the exact sum, the operations, the rules), which the code
never has at once.

Variables named *history* in the modules are not in the code; they record what the
properties speak about (what was handed out, denied, heard from the service, and when).

## Runs

| run | what it shows |
|---|---|
| `reports` | 5 operations, 3 signatures, 2 entries: nothing is counted twice, merging does not postpone a flush (`HeldWithinInterval`), neither a full cache nor a merge that raises loses anything live, a flush hands out all that had expired, the aggregator implements the ledger. Beside it the sequential parts: distributions describe their samples (`DescribesSamples`) and, but for two flaws of `merge`, fit them (`FitsSamples`), money is summed exactly or overflows in the right direction, merged operations count what they were given once, the registry's lookup agrees with the rules, the report spec is complete, merged reports count their requests |
| `report_live` | 3 operations, 2 signatures, 1 entry, with fairness: nothing stays in the aggregator forever |
| `report_expired_overwritten` | violated: a report replaces an expired aggregator that was not flushed yet |
| `report_clear_drops_expired` | violated: `clear()` drops what expired since the last flush |
| `check_aggregator` | 4 requests, 2 signatures, 1 entry, several flushing threads: a response is never served after its expiration, refreshes are at least `flush_interval` apart, no request is aggregated or handed out twice, denied ones consume nothing, the ledger is implemented |
| `check_flushed_twice` | violated: a flushed request contains one its caller had sent already |
| `quota_aggregator` | 4 requests, 2 signatures, 1 entry: while a temporary response is served its request is queued, with the scheduler thread, or went out in a call that failed; responses expire, denied requests are not charged, none is aggregated twice, an answer drops nothing that was aggregated, but for an item it evicts from a full cache |
| `quota_flush_loses_pending` | violated: `flush()` drops the aggregated requests of an expired item |
| `client_lifecycle` | an application thread, a stopping one, two starts, every set of enabled flushes, reports cached with and without an interval: a report leaves the client once (`ImplementsLedger`), what is dropped was accepted after a `stop()` had begun, flushes do not multiply; unless a thread crashed, a stopped client comes to rest and what is held is flushed, if reports have an interval |
| `client_wedged` | violated: a `stop()` at the wrong moment ends a scheduler thread with `_running` still true |
| `requests` | 2 serving threads and the loading thread: 503 only before the configuration is loaded, the application only after what its method asks for, one report for each controlled request. 2 authenticating threads, 3 tokens, 2 issuers, 1 cached token: no token is accepted outside its validity, with another issuer's key, or after its key was withdrawn for longer than two expirations and what the lateness of others adds (`RevocationBound`) |
| `statements` | violated: of seven statements about the sequential parts none holds |

The violated properties quote a doc of the repository each; the findings in
`PROJECT.json` say where the code departs from it. That of `statements`,
`AnyStatementHolds`, is the disjunction of seven that the modules define: one state in which
it is false refutes them all, each by what the code did to another object.

| disjunct | stated in | what the code does |
|---|---|---|
| `MergedExtremes` | `distribution.py:152` | merging into a distribution without samples takes its default 0 for a sample |
| `MergedBuckets` | `distribution.py:162` | linear buckets count as equal when their offsets do, or their numbers and widths: the rest may differ |
| `SumValid` | `money.py:37` | nanos that add up to one billion are not carried |
| `EndsLatest` | `test/test_operation.py:59` | `add()` raises for an operation with a start time, after its log entries |
| `GaugesLatest` | `test/test_metric_value.py:149` | the value added last is kept, not that which ended last |
| `ConsistentMerges` | `operation.py:185` | merging with a delta of zero raises |
| `LogsLabelled` | `service.py:448` | a log with conflicting labels is used, without them |

Three more statements do not hold, each under a configuration that is kept here but is not
one of the runs (`tlc -config X.cfg M` shows the counterexample):

| configuration, module | property | stated in | what the code does |
|---|---|---|---|
| `ReportFlushLosesExpiring`, `MCReportAggregator` | `FlushReturnsPending` | `report_request.py:460` | what expires between the two readings of `out_deque` in `flush()` is cleared with the deque |
| `ClientRestartDrops`, `MCClientLifecycle` | `RunningKeepsReports` | `client.py:342` | the cleanup of a stopped thread clears a client that was started again meanwhile |
| `DiscoveryDisabled`, `MCRequests` | `UnsetIsDiscovered` | `wsgi.py:684` | an unset `jwks_uri` is compared with `None`, which it never is: nothing is discovered |

*Bounds.* Two or three requests that share a signature and one that does not are
enough to merge, to merge again after a flush, and to evict; a cache with fewer entries
than signatures evicts. A ttl of 2 and a flush interval of 1 tell "current", "due for a
refresh" and "expired" apart. Each request is made once, so every run is
finite without a bound on steps; clocks in history variables stop at the first value
that no property tells from a larger one. `MaxRequestSize` bounds the operations of one
`ReportRequest`. The requests that share a signature are interchangeable in
`quota_aggregator`, which checks safety only, and are declared symmetric there.

`MaxStarts = 2` starts of a client: two schedulers and two threads are the least in
which an old thread meets a new scheduler. One report is enough there, as reports differ
only in when they are accepted. `EndOfTime = 2` with expirations of 1 and 0 lets a key be
withdrawn, a cached key expire, and cached claims expire after it; `Capacity = 1` with
three tokens evicts; `Rotated` names the one key that may be withdrawn. The serving and
the authenticating threads are symmetric in `requests`, which checks safety only.
`Billion = 3` and `Int64Max = 5` stand for 10^9 and 2^63 - 1 in `Money`, so that all
amounts, those at the limits included, are summed with all others. The samples of
`Distribution` are multiples of every count up to `MaxCount`, so that means are whole
numbers and the invariant is about the formulas, not about rounding; the one place where
rounding matters, the logarithm that selects an exponential bucket, is a choice.
`Registry` reads up to three rules out of six that clash in selector, URL and method,
`ReportRules` up to two destinations, and `OperationMerge` merges three operations.
In `reports` and `requests` a behaviour is one of one part (`Parts`, `part`), as the parts
share no state. In `statements` the parts take turns, and the constants `Few...` are the few
inputs that are enough to refute each of the statements.

*Deadlock* is checked in every run but `reports` and `statements`: time can always pass, so `Tick` is
always enabled, and a gateway can always be asked. The application of a client may make
no further call (`Rest`), so that a client at rest is no deadlock; that no thread waits
in it forever is what `StopComesToRest` and `HeldIsFlushed` say. The sequential parts
in those two runs are computations that end; that the report aggregator is never stuck
is checked in `report_live`.

*Fairness.* `report_live` assumes weak fairness of `Tick` (time passes), of
`ReportStep` (a thread that holds the lock runs on) and of `Flush`. The last is the
driver's duty by the docstring of `flush()` ("The driver of this instance should call
this method every `flush_interval`"), and the scheduler thread does so by entering the
flush event again at the end of each flush. What ends this thread is in
`ClientLifecycle`. `client_lifecycle` assumes weak fairness of the steps of each thread,
which the operating system gives to a thread that can run (a call to the service ends,
with an answer or an error, by the transport's timeout; the lock is only held during
`stop()`, which ends), and strong fairness of popping a report flush: `sched` orders
events by their time, so one that is queued is popped once its time has come, however
often a check flush is entered and popped before. Nothing is assumed of the application:
it need not call `start()`, `stop()` or anything else again.

## Proofs

Each theorem below holds for all values of the constants under the assumptions of its
module. What a run checks of `Gateway`, `Authenticator` and the sequential parts side by side
with other parts is proved of `GatewaySpec`, `AuthSpec`, `MoneySpec`, `RegistrySpec`,
`RulesSpec`, `MergeSpec` and `DistSpec`, and of the `Spec` of `ReportAggregator`: the parts share
no variables, and a step of one of them is a step or a stutter of its own specification.
There is no theorem about `ReportsSpec` or the `MCSpec` of `MCRequests` themselves.

*Assumptions.* Bounds and ttls are natural numbers, and what is not an item, an answer
or a request is none of these (`NoneIsNoItem`, `Temp` is not an answer of the service).
The signatures of operations and requests are keys. Keys are finitely many in
`QuotaAggregator` (they are md5 digests), where the entries of a flush are put in order. The
threads of the application are finitely many in `ClientLifecycle`, and no number, as the
started threads are named by numbers. `Capacity >= 1` in `Authenticator`: `pylru` asserts
it. The scaled-down 10^9 of `Money` is positive and below the largest int64. The fields of a
configuration that are lists are lists, in `Registry` and `ReportRules`. `Registry` knows the
lower case of every method in a rule, and has a name for the preflights that no rule uses
(the code tries `.OPTIONS.1`, `.OPTIONS.2` and so on without an end); the entries of usage
rules are Booleans. In `ReportRules` the status of a request is an integer, no more
is reported than an int64 counts, and no known metric is given a kind of its own, as the
client passes no kinds to the aggregator.

In `OperationMerge` the metrics of an operation are a list, and numbers and times are not
negative; the value of a distribution is a number there too, as merging adds it up. In
`Distribution` the distributions and the samples are finitely many, and each sample is a
multiple of every number up to `MaxCount`, which bounds the samples of all distributions
together: this is what makes every mean a whole number, and says that the theorems are
about the formulas of `add_sample` and `merge` and not about the rounding of floats. The
arguments of the `create_*` functions are integers (`OptionsAssumption`), any integers:
those that raise make no distribution.

`DequeOutCacheProofs` proves how each operator of the cache affects the tracked and
stored keys, the items and their remaining time. The proofs of the aggregators cite these
lemmas and never look into the cache's dictionary order or deque.

**Report aggregator.**
* `TypeCorrect` - inductive as stated, because it says that stored keys are tracked.
* `CountedOnceHolds` - no operation is in two places or comes back. Inductive together
  with the type invariant because it is stated for all the places at once (`todo`, the
  items under different keys, the deque, what was handed out): a merge is harmless only
  as `todo` is disjoint from what is cached, a flush only as the items are disjoint from
  each other. Three lemmas carry the proof, for an iteration of `report()`, for `flush()`
  and for `clear()`.
* `HeldWithinIntervalHolds` - the age of a merged operation and the remaining ttl of its
  entry never exceed the interval together. The strengthening `IntervalInv` adds
  `FreshIsYoung`, that an operation not merged yet has age zero: without it an operation
  could enter a live entry already too old for it.
* `ReportKeepsLiveEntriesHolds`, `FlushHandsOutExpiredHolds` - action properties; the first
  also of a merge that raises.
* `ImplementsLedgerHolds` - each step is a `Take`, `Refuse` or `Resolve` of the ledger or
  leaves it unchanged, given the invariant of `CountedOnce`.

**Check aggregator.**
* `AggregatedOnceHolds`, `DeniedConsumesNothingHolds` - from `CountInv`, which adds
  that between two methods the deque is empty and that what was flushed was seen: a new
  request is then in no item and in no flush. That the flush hands out what is in no item
  any more needs the cache lemmas: reading `out_deque` takes out of `_tracking` what it moves.
* `ResponseFreshHolds` - an item in the dictionary answers with what the service said at
  most `Ttl` ago.
* `RefreshesSpacedHolds` - two requests of one signature sent as refreshes of one response
  are `flush_interval` apart. `AgeInv` relates the time an item keeps (`last_check_time`)
  to the history clock, for stored and merely tracked items alike, because the latter come
  back by `add_response`.
* `ImplementsLedgerHolds` - as for reports.

**Quota aggregator.**
* `Invariant` - `QuotaInv` is inductive: the properties below, plus `OwnKeys` (what is
  aggregated under a key has it as signature), `SentTogether` (a request that is sent merges
  requests of one signature) and `Accounted`: all of them have been seen, what is aggregated
  is not queued, handed out or the own request of an item, and what is denied is nowhere.
  `OwnKeys` is what lets a flush, which visits the
  entries one by one, take from one entry without touching another's.
* `ResponseFreshHolds`, `AggregatedOnceHolds`, `DeniedConsumesNothingHolds` - conjuncts of it
  or direct consequences.
* `TemporaryIsBackedHolds` - a live item with the temporary response is in flight, and its
  request is in `_out`, in the batch, or in `failed`, the history of the calls of a flush that
  failed. After such a failure nobody awaits an answer; the property says that there is no
  other way to a temporary response without one. An answer replaces the response of the item
  of its signature, whichever it is, which is why no answered request is among the three.
* `ResponseKeepsAggregatedHolds` - an action property of `add_response`, for every item that is
  live before it. The plain cache evicts at most one item, and only when it is full and
  the answer is of a signature without item: that item is lost with what it had aggregated,
  which the property states as the one exception.

**Client.**
* `RepeatsPerStartHolds` - a kind of flush is queued or under way at most once for each
  start. The invariant speaks of the threads, the schedulers and the application calls
  that are between popping an event and entering it again; an entering step is harmless
  only because the popped event is still counted as under way. The bounds need that the
  counted sets are finite, hence the assumption on the application's threads.
* `DroppedAreLateHolds` - what is dropped was accepted after a `stop()` had begun: `LateInv`
  says so of everything held from then on, and that no thread cleans up before.
* `ImplementsLedgerHolds` - a report leaves the client once, whichever thread sends it.

**Gateway.** `GatewayInv` is the type invariant and, for each serving thread, `Journey` (where
it can be, given what it has passed), `Permission`, `Knowledge` (what it may have read of the
shared fields, and that these never change back) and `Kept`. `UnavailableOnlyBeforeHolds`
needs `Knowledge`: a thread reads `config` and `threadingFailed` at different times.
`AppOnlyIfAllowedHolds` needs `Permission` at every position on the way to the
application, `ReportedOnceHolds` follows from `Journey`.

**Authenticator.** `AuthInv` says of every cached or held key and of all cached or held claims
when they were obtained and from whom. `OwnKeysOnlyHolds`, `AcceptedNowHolds` and
`RevocationBoundHolds` follow: the last adds up an expiration of the keys, one of the
claims, and the three latenesses in `late`, so the invariant must bound the age of the key
*at the time the claims were verified*, which no variable of the code holds. The theorem has
no hypothesis about the threads: keys and claims that are served after they expired,
while another thread replaces them, and answers that were long under way, are in the bound.
The code sets no limit to these latenesses, as its requests have no timeout
(`suppliers.py:115`); the bound says that nothing else adds to the two expirations.

**Money.** `SumExactHolds`: whatever the base and limit, a sum of valid amounts has the exact
value, with units and nanos of one sign, or overflows in the direction of its sign. That it is
valid is not proved, as it is not so: see `SumValid`. All arithmetic is
linear once the product of units and base is named.

**Registry.** `LookupAnswersHolds`: whatever the rules and their order, a built registry
answers as the configuration says. The property is about the end of four loops, so
`RegistryInv` says of each point between two rounds what they have in common with the rules
read *so far*: `TemplatesAgree` (for each method and path, the first template that matches
is that of the first rule read that declares them), `UrlsKept` and `OptionsMatch` (which URLs
have a template, and which of them one for OPTIONS), `MethodsMade` (every rule read has its
method, and the preflights' method belongs to no rule) and `Admission` (a method admits
callers without a key as the last usage rule read says). Templates are
only appended, so no later pass changes the first match of a declared request; that a
preflight for any declared path is answered follows from `OptionsMatch` and `UrlsKept` when
the loop of `RegisterOptions` has ended.

**Reports.** Two invariants, as reading the configuration and reporting never overlap.
* `SpecInvariant`, `SpecCompleteHolds` - `SpecInv` places every log and metric that has been
  read: used, with all its labels, or contradicting a label. Recorded labels are never
  removed or changed, so a contradiction stays one (`ConflictsStay`).
* `CountsInvariant`, `ReportedCountsHolds` - `CountsInv` says that the held operations count
  the reports so far, short of the metrics of the last one that are still pending. Merging
  one metric moves it from pending to counted; that no merge raises needs that all values of
  one name are of one type and that no value is zero. The last part of the property, that
  errors share no operation with other responses, needs status codes below 600: a code of
  600 counts as an error, and is the same unknown code as a redirect.

**Merged operations.** `TotalsKeptHolds`: of any operations, in any order and wherever a merge
raised, there is a value for each metric of which one was taken, a delta is the sum of the
values taken for its metric, with their earliest start and latest end, and the log entries are
all there. Of gauges and of the end time of the operation nothing is proved: `GaugesLatest` and
`EndsLatest` do not hold. The
reference folds over sequences of values and operations; `MergeInv` says the same of the
*places* (operation, value) that were taken so far, a finite set that one step extends by one
place, and speaks of a `Sum` over it. The lemmas on sums (`SumWithout`, `SumIsLinear`,
`SumIsSame`, `SumGrows`) are proved for all finite sets. The induction they need, over the
subsets of a finite set, is the existence of a smallest counterexample (`Subsets`, from the
library's `WFMin`), which takes a set of subsets and not an operator as its parameter. That
the reference is that sum is a lemma too, so the property proved is the one TLC checks.

**Distributions.** `DescribesSamplesHolds` (count, mean, deviation, every sample in one bucket,
extremes that enclose the samples) and `FitsSamplesHolds` (extremes that are samples, buckets
within their bounds): for any samples, bounds and number of merges. What the docstring of
`merge` claims is more, and not so: `MergedExtremes` and `MergedBuckets` are violated. The
second theorem says exactly how far it is so: the extremes of a distribution are wrong only
if one without samples was merged into (`zeroed`), its buckets only if other bounds were merged
(`mixed`), in it or in one it comes from. That `merge` lets other bounds pass at all is
`LinearNearlyEqual` (and, within a relative 0.00001, `Close`). The
mean and the deviation that are kept depend on all the samples, so no step could be checked
against the property directly. `DistInv` keeps the two moments instead:
`n * mean` is the sum of the samples, and `ssd + mean * (sum of the samples)` is the sum of
their squares; both sums grow by one term in `add_sample` and add up in `merge`.
`Moments`, `SampleMore` and `SamplesOfBoth` are about the sums, `DeviationOfBoth` is the identity
behind the formula of `merge`, and `DeviationIs` gets the deviation back from the moments. For
the buckets, `IndexFits` says that the index `add_sample` chooses lies between the bounds that
enclose the sample, for all three kinds of buckets and for either rounding of the logarithm;
an empty distribution that was merged into contributes its default 0 to the extremes
(`Seen`), and no more.

Only model-checked:

* liveness under fairness, which the prover has no support for: `HeldLeaves`,
  `StopComesToRest`, `HeldIsFlushed`;
* that the violated properties are violated: counterexamples are TLC's.

## Not modelled

* The quota mode of a refresh, on which nothing depends, and a zero `flush_interval` for
  quota: the client does not schedule its flush then.
* Arguments the aggregators reject with `ValueError` before they do anything (another
  service, no request): nothing changes. Errors from the middle of a `report()` are modelled.
* Due times of events in `ClientLifecycle`: events are popped in any order, which includes
  the order of the real intervals. `cancel` and `queue` of `sched`, which the client does
  not use.
* Fetching the service configuration (`config/service_config.py`): environment variables,
  one HTTP request and checks of its answer, without state. `Gateway` chooses its
  outcome. The other loaders in `service.py` read a file or the environment.
* `signing.py` and the hash of a signature: what is hashed is taken as the signature, so
  that equal signatures are equal contents. Path templates (`path_regex.py`): which paths a
  template matches is a constant of `Registry`. Both are text or byte processing.
* RFC 3339 conversion of times (`timestamp.py`). `Info.as_operation` leaves the times of
  an operation unset, because the `FromJsonString` it assigns from returns nothing, so
  that the merging of times is reached with times only through other callers.
* Decoding tokens and verifying signatures: which key signed a token is a constant of
  `Authenticator`; malformed tokens are rejected before any state is touched.
* Converting a response of the service to an HTTP status: functions of their arguments,
  of which `Gateway` models whether they refuse. Building a check or quota request from an
  `Info`. The costs of quota groups, extracted like audiences.
* Sizes and latencies as measured by the middleware: `Infos` has them, or not.

## Plan

1. `DequeOutCache`, `RequestLedger`, `ReportAggregator` and the proofs: done.
2. `CheckAggregator`, `QuotaAggregator`, `ClientLifecycle`, `Gateway`, `Authenticator`,
   the sequential parts: modelled and checked.
3. Proofs of all safety, action and refinement properties that the runs check, of every
   module: done.
4. Left: the three liveness properties, which are beyond the prover, and the parts under "Not
   modelled".
