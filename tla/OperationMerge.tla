--------------------------- MODULE OperationMerge ---------------------------
(***************************************************************************)
(* operation.Aggregator and metric_value.merge: one operation that stands  *)
(* for many.  It keeps the log entries of all, the latest end time, and of *)
(* each metric one value per signature (the labels of the value).          *)
(*                                                                         *)
(* A time is a positive number, 0 where it is absent.  A value is a        *)
(* number; that of a distribution is its count, which is never falsy (the  *)
(* rest of it is module Distribution), that of a string any positive one.  *)
(* `buckets' are the bucket options of a distribution, "none" otherwise.   *)
(* Each operation is added once: the value that the code keeps is the      *)
(* added operation's own object, and is changed in place.                  *)
(***************************************************************************)
EXTENDS Integers, FiniteSetsExt, Functions, SequencesExt

CONSTANTS
  Operations,   \* what add() is given
  Kind,         \* `kinds': the kind of a metric name, "DELTA" if not there
  Int64Limit,   \* the largest int64 value
  Buckets,      \* bucket options
  Mergeable,    \* the pairs of them, <<prior, latest>>, that distribution.merge takes
  MaxAdds       \* bound: operations given to an aggregator

\* _METRIC_VALUE_ONEOF_FIELDS: the types of a value.
OneOfFields ==
  {"bool_value", "distribution_value", "double_value", "int64_value", "string_value"}

\* Operations have lists of metric values; no time and no number is negative.
ASSUME MergeAssumption ==
  \A op \in Operations :
    /\ op.start_time \in Nat /\ op.end_time \in Nat
    /\ op.metrics \in Seq(ToSet(op.metrics))
    /\ \A j \in DOMAIN op.metrics :
         op.metrics[j].value \in
           [type : OneOfFields, val : Nat, buckets : Buckets,
            start_time : Nat, end_time : Nat]

VARIABLES
  agg,          \* the aggregator
  given         \* what it was given: [op, taken], how many values were taken of it

mergeVars == <<agg, given>>

-----------------------------------------------------------------------------
(* Metric values: [type, val, buckets, start_time, end_time]. *)

\* _detect_value: a falsy value is no value.
Detect(mv) ==
  IF mv.type # "distribution_value" /\ mv.val = 0 THEN "none" ELSE mv.type

\* _merge_delta_timestamps: the earlier start and the later end.
Earlier(prior, latest) ==
  IF prior # 0 /\ (latest = 0 \/ prior < latest) THEN prior ELSE latest
Later(prior, latest) ==
  IF prior # 0 /\ (latest = 0 \/ latest < prior) THEN prior ELSE latest

\* Mutant of Combine: the latest value replaces the prior one.
CombineLatest(prior, latest) == latest

\* _combine_delta_values: distributions are merged, numbers added.
Combine(prior, latest) == prior + latest

\* Nothing else can be merged, nor can distributions of other buckets.
Combines(prior, latest) ==
  \/ latest.type = "double_value"
  \/ latest.type = "distribution_value" /\ <<prior.buckets, latest.buckets>> \in Mergeable
  \/ latest.type = "int64_value" /\ prior.val + latest.val <= Int64Limit

\* merge() returns, it does not raise.  What a gauge's end times are compared
\* for is not used, but comparing a time with none raises.
Merges(kind, prior, latest) ==
  /\ Detect(prior) = Detect(latest) /\ Detect(prior) # "none"
  /\ IF kind = "DELTA" THEN Combines(prior, latest)
     ELSE (prior.end_time = 0) = (latest.end_time = 0)

\* What _merge_metric_values stores: `latest', which merge() has updated when
\* the metric is a delta; the value merge() chooses for a gauge is dropped.
Merged(kind, prior, latest) ==
  IF kind # "DELTA" THEN latest
  ELSE [latest EXCEPT !.val = Combine(prior.val, @),
                      !.start_time = Earlier(prior.start_time, @),
                      !.end_time = Later(prior.end_time, @)]

-----------------------------------------------------------------------------
(* Operations: [logs, start_time, end_time, metrics], the metrics a sequence *)
(* of [key, value], key a metric's name and the signature of the value.      *)

KindOf(name) == IF name \in DOMAIN Kind THEN Kind[name] ELSE "DELTA"

\* One round of _merge_metric_values; an error ends it where it occurs.
Take(a, m) ==
  IF a.raised THEN a
  ELSE IF m.key \notin DOMAIN a.values
    THEN [a EXCEPT !.values =
            [k \in DOMAIN @ \cup {m.key} |-> IF k = m.key THEN m.value ELSE @[k]]]
  ELSE LET prior == a.values[m.key]  kind == KindOf(m.key.name) IN
       IF Merges(kind, prior, m.value)
         THEN [a EXCEPT !.values[m.key] = Merged(kind, prior, m.value)]
         ELSE [a EXCEPT !.raised = TRUE]

\* __init__, before the values: the first operation's logs and end time.
Opened(op) == [logs |-> op.logs, end_time |-> op.end_time,
               values |-> [k \in {} |-> 0], raised |-> FALSE]

\* add(), before the values: the log entries, then the times.
\* _merge_timestamps reads a field startTime that no operation has: any start
\* time raises.
Extended(a, op) ==
  [a EXCEPT !.logs = @ \o op.logs,
            !.end_time = IF op.start_time # 0 THEN @ ELSE Later(op.end_time, @),
            !.raised = @ \/ op.start_time # 0]

\* The operation that was given last, and whether it has values left.
Latest == given[Len(given)]
Merging == ~agg.raised /\ Latest.taken < Len(Latest.op.metrics)

\* The caller's add(), once the call before it has ended.  An error left what was
\* merged before it, but an error of __init__ left no aggregator.
Add(op) ==
  /\ ~Merging /\ (Len(given) = 1 => ~agg.raised)
  /\ agg' = Extended([agg EXCEPT !.raised = FALSE], op)
  /\ given' = Append(given, [op |-> op, taken |-> 0])

\* A round of _merge_metric_values.
MergeValue ==
  /\ Merging
  /\ agg' = Take(agg, Latest.op.metrics[Latest.taken + 1])
  /\ given' = [given EXCEPT ![Len(given)].taken = IF agg'.raised THEN @ ELSE @ + 1]

MergeInit ==
  \E op \in Operations : agg = Opened(op) /\ given = <<[op |-> op, taken |-> 0]>>

MergeNext ==
  \/ \E op \in Operations : Len(given) < MaxAdds /\ Add(op)
  \/ MergeValue

MergeSpec == MergeInit /\ [][MergeNext]_mergeVars

-----------------------------------------------------------------------------
(* Reference: what the given operations say of a metric. *)

\* The values that were offered, by operation and place in it; those that were
\* taken, and those taken for a metric.
Offered == UNION {{i} \X DOMAIN given[i].op.metrics : i \in DOMAIN given}
Taken == UNION {{i} \X (1..given[i].taken) : i \in DOMAIN given}
Key(p) == given[p[1]].op.metrics[p[2]].key
Value(p) == given[p[1]].op.metrics[p[2]].value
ValuesOf(key) == {p \in Taken : Key(p) = key}
Total(key) == SumFunction([p \in ValuesOf(key) |-> Value(p).val])
Starts(key) == {Value(p).start_time : p \in ValuesOf(key)} \ {0}
Ends(key) == {Value(p).end_time : p \in ValuesOf(key)}

\* Whatever was given in whatever order, and wherever merges raised: the logs are
\* those of all operations, there is a value for each metric of which one was
\* taken and for no other, and that of a delta is the sum of all that were taken,
\* each once, from their earliest start to their latest end.  An add() that stops
\* in the middle never leaves a taken value that is lost, or is in twice.
TotalsKept ==
  /\ agg.logs = FlattenSeq([i \in DOMAIN given |-> given[i].op.logs])
  /\ DOMAIN agg.values = {Key(p) : p \in Taken}
  /\ \A key \in DOMAIN agg.values :
       KindOf(key.name) = "DELTA" =>
         LET held == agg.values[key] IN
         /\ held.val = Total(key)
         /\ held.start_time = IF Starts(key) = {} THEN 0 ELSE Min(Starts(key))
         /\ held.end_time = Max(Ends(key))

\* add() updates "the end time to that of the latest" (test_operation.py) of the
\* operations.  It raises for an operation with a start time instead, whose logs
\* it has merged already.
EndsLatest == agg.end_time = Max({given[i].op.end_time : i \in DOMAIN given})

\* Of a gauge the "metric value with latest end time" (test_metric_value.py) is
\* kept.  merge() chooses it, but the last one is stored.
GaugesLatest ==
  \A key \in DOMAIN agg.values :
    KindOf(key.name) # "DELTA" => agg.values[key].end_time = Max(Ends(key))

\* add() "makes the assumption the operation is consistent" (its docstring), and
\* then it merges: an operation is taken whole if it has no start time and of its
\* metrics all values are integers, within the limit, those of gauges with an end
\* time.  A value of zero prevents it.
Alike(i) == {p \in Offered : \E j \in DOMAIN given[i].op.metrics : Key(p) = Key(<<i, j>>)}
ConsistentMerges ==
  \A i \in DOMAIN given :
    /\ given[i].op.start_time = 0
    /\ \A p \in Alike(i) :
         /\ Value(p).type = "int64_value"
         /\ KindOf(Key(p).name) = "DELTA" \/ Value(p).end_time # 0
    /\ SumFunction([p \in Alike(i) |-> Value(p).val]) <= Int64Limit
    => given[i].taken = Len(given[i].op.metrics) \/ (i = Len(given) /\ Merging)
=============================================================================
