---------------------------- MODULE Distribution ----------------------------
(***************************************************************************)
(* distribution.py: histograms of samples with their running statistics.   *)
(* A distribution is made by create_exponential, create_linear or          *)
(* create_explicit, takes samples one at a time and may be merged into     *)
(* another, which is updated in place.                                     *)
(*                                                                         *)
(* Floats are exact here: the samples are multiples of every number up to  *)
(* MaxCount, so that each mean is a whole number and `\div' loses nothing. *)
(***************************************************************************)
EXTENDS Integers, Sequences, FiniteSets, FiniteSetsExt, Functions

CONSTANTS
  Dists,      \* the distributions
  Samples,    \* the values that are added
  Options,    \* the arguments create_* is called with
  MaxCount    \* bound: samples in all distributions together

ASSUME DistributionAssumption ==
  /\ IsFiniteSet(Dists) /\ IsFiniteSet(Samples)
  /\ Samples \subseteq Int /\ MaxCount \in Nat \ {0}
  /\ \A x \in Samples : \A n \in 1..MaxCount : x % n = 0

ASSUME OptionsAssumption ==
  \A o \in Options :
    \/ o \in [type : {"linear"}, n : Int, width : Int, offset : Int]
    \/ o \in [type : {"exponential"}, n : Int, factor : Int, scale : Int]
    \/ o \in [type : {"explicit"}, bounds : Seq(Int)]

VARIABLES
  dist,       \* the Distribution messages
  sampled,    \* history: how often each value was added to each of them
  mixed,      \* history: those that took the counts of other bucket bounds
  zeroed      \* history: those that were empty when they were merged into

distVars == <<dist, sampled, mixed, zeroed>>

-----------------------------------------------------------------------------
(* The bucket options, one of three kinds. *)

\* create_*: the arguments that do not raise ValueError.
Valid(o) ==
  \/ o.type = "linear" /\ o.n > 0 /\ o.width > 0
  \/ o.type = "exponential" /\ o.n > 0 /\ o.factor > 1 /\ o.scale > 0
  \/ o.type = "explicit" /\ IsInjective(o.bounds)

\* create_explicit sorts the bounds, which are distinct: their one increasing
\* arrangement.
Sorted(o) ==
  IF o.type # "explicit" THEN {o}
  ELSE {[o EXCEPT !.bounds = b] :
          b \in {c \in [DOMAIN o.bounds -> Range(o.bounds)] :
                  \A i, j \in DOMAIN c : i < j => c[i] < c[j]}}

Create(o) ==
  [options |-> o, count |-> 0, mean |-> 0, minimum |-> 0,
   maximum |-> 0, ssd |-> 0,
   bucket_counts |->
     [i \in 0..(IF o.type = "explicit" THEN Len(o.bounds) ELSE o.n + 1) |-> 0]]

\* _detect_bucket_option: an options message without any bound is falsy.
Detected(o) == IF o.type = "explicit" /\ o.bounds = <<>> THEN "none" ELSE o.type

Magnitude(x) == IF x < 0 THEN -x ELSE x

\* _is_close_enough, relative to the first argument.
Close(x, y) == Magnitude(x - y) * 100000 <= Magnitude(x)

\* `and' binds tighter than `or': equal offsets are enough, or equal numbers and
\* widths.
LinearNearlyEqual(a, b) ==
  \/ a.n = b.n /\ Close(a.width, b.width)
  \/ Close(a.offset, b.offset)

ExponentialNearlyEqual(a, b) ==
  a.n = b.n /\ Close(a.factor, b.factor) /\ Close(a.scale, b.scale)

ExplicitNearlyEqual(a, b) ==
  /\ Len(a.bounds) = Len(b.bounds)
  /\ \A i \in DOMAIN a.bounds : Close(a.bounds[i], b.bounds[i])

BucketsNearlyEqual(a, b) ==
  /\ Detected(a) = Detected(b)
  /\ \/ Detected(a) = "linear" /\ LinearNearlyEqual(a, b)
     \/ Detected(a) = "exponential" /\ ExponentialNearlyEqual(a, b)
     \/ Detected(a) = "explicit" /\ ExplicitNearlyEqual(a, b)

-----------------------------------------------------------------------------
(* Samples *)

LinearIndex(x, o) ==
  IF x < o.offset THEN 0
  ELSE IF x >= o.offset + o.n * o.width THEN o.n + 1
  ELSE 1 + ((x - o.offset) \div o.width)

\* The powers of the factor.
Powers(o) ==
  LET p[k \in 0..(o.n + 1)] == IF k = 0 THEN 1 ELSE o.factor * p[k - 1] IN p

\* The logarithm of an exact power of the factor may come out just below the
\* whole number: math.log(1000) / math.log(10) does.
ExponentialIndexes(x, o) ==
  IF x <= o.scale THEN {0}
  ELSE LET exact == Max({k \in 0..(o.n + 1) : o.scale * Powers(o)[k] <= x})
           logs == IF exact >= 2 /\ x = o.scale * Powers(o)[exact]
                     THEN {exact, exact - 1} ELSE {exact}
       IN {Min({1 + k, o.n + 1}) : k \in logs}

\* bisect.bisect: to the right of the bounds that equal the sample.
ExplicitIndex(x, o) == Cardinality({i \in DOMAIN o.bounds : o.bounds[i] <= x})

Indexes(x, o) ==
  CASE o.type = "linear" -> {LinearIndex(x, o)}
    [] o.type = "exponential" -> ExponentialIndexes(x, o)
    [] o.type = "explicit" -> {ExplicitIndex(x, o)}

\* Mutant of WithStatistics: the first sample is compared with the defaults.
WithStatisticsFromZero(d, x) ==
  LET mean == (d.count * d.mean + x) \div (d.count + 1)
  IN [d EXCEPT !.count = @ + 1, !.mean = mean,
               !.maximum = Max({x, @}), !.minimum = Min({x, @}),
               !.ssd = @ + (x - d.mean) * (x - mean)]

\* Mutant of WithStatistics: the deviation from the old mean, squared.
WithStatisticsOldMean(d, x) ==
  IF d.count = 0
    THEN [d EXCEPT !.count = 1, !.maximum = x, !.minimum = x, !.mean = x]
    ELSE [d EXCEPT !.count = @ + 1,
                   !.mean = (d.count * d.mean + x) \div (d.count + 1),
                   !.maximum = Max({x, @}), !.minimum = Min({x, @}),
                   !.ssd = @ + (x - d.mean) * (x - d.mean)]

\* _update_general_statistics.
WithStatistics(d, x) ==
  IF d.count = 0
    THEN [d EXCEPT !.count = 1, !.maximum = x, !.minimum = x, !.mean = x,
                   !.ssd = 0]
    ELSE LET mean == (d.count * d.mean + x) \div (d.count + 1)
         IN [d EXCEPT !.count = @ + 1, !.mean = mean,
                      !.maximum = Max({x, @}), !.minimum = Min({x, @}),
                      !.ssd = @ + (x - d.mean) * (x - mean)]

TotalCount == SumFunction([d \in Dists |-> dist[d].count])

\* add_sample: unknown bucket options raise and change nothing.
AddSample(d, x) ==
  /\ TotalCount < MaxCount
  /\ Detected(dist[d].options) # "none"
  /\ \E i \in Indexes(x, dist[d].options) :
       dist' = [dist EXCEPT ![d] =
                  [WithStatistics(dist[d], x) EXCEPT !.bucket_counts[i] = @ + 1]]
  /\ sampled' = [sampled EXCEPT ![d][x] = @ + 1]
  /\ UNCHANGED <<mixed, zeroed>>

-----------------------------------------------------------------------------
(* Merging *)

Squared(x) == x * x

Combined(p, l) ==
  LET count == l.count + p.count
      mean == (l.count * l.mean + p.count * p.mean) \div count
  IN [l EXCEPT !.count = count, !.mean = mean,
               !.maximum = Max({p.maximum, @}),
               !.minimum = Min({p.minimum, @}),
               !.ssd = @ + p.ssd + l.count * Squared(mean - l.mean)
                         + p.count * Squared(mean - p.mean),
               !.bucket_counts = [i \in DOMAIN @ |-> @[i] + p.bucket_counts[i]]]

\* merge: other options or another number of counts raise and change nothing;
\* an empty prior is skipped.
Merge(prior, latest) ==
  LET p == dist[prior]  l == dist[latest] IN
  /\ TotalCount + p.count <= MaxCount
  /\ BucketsNearlyEqual(p.options, l.options)
  /\ DOMAIN p.bucket_counts = DOMAIN l.bucket_counts
  /\ p.count > 0
  /\ dist' = [dist EXCEPT ![latest] = Combined(p, l)]
  /\ sampled' = [sampled EXCEPT ![latest] =
                   [x \in Samples |-> @[x] + sampled[prior][x]]]
  /\ mixed' = IF p.options # l.options \/ prior \in mixed
                THEN mixed \cup {latest} ELSE mixed
  /\ zeroed' = IF l.count = 0 \/ prior \in zeroed
                 THEN zeroed \cup {latest} ELSE zeroed

DistInit ==
  /\ dist \in [Dists -> {Create(o) : o \in UNION {Sorted(x) : x \in {y \in Options : Valid(y)}}}]
  /\ sampled = [d \in Dists |-> [x \in Samples |-> 0]]
  /\ mixed = {} /\ zeroed = {}

DistNext ==
  \/ \E d \in Dists, x \in Samples : AddSample(d, x)
  \/ \E p, l \in Dists : p # l /\ Merge(p, l)

DistSpec == DistInit /\ [][DistNext]_distVars

-----------------------------------------------------------------------------
(* Reference: what the samples themselves say. *)

Sampled(d) == {x \in Samples : sampled[d][x] > 0}
Times(d, S) == SumFunctionOnSet(sampled[d], S)
Counted(h, I) == SumFunctionOnSet(h.bucket_counts, I)

\* The bound below which the buckets 0..i lie.
UpperBound(o, i) ==
  CASE o.type = "linear" -> o.offset + i * o.width
    [] o.type = "exponential" -> o.scale * Powers(o)[i]
    [] o.type = "explicit" -> o.bounds[i + 1]

\* However the samples arrived, one by one or through merges of any
\* distributions, the count, mean and deviation are those of all of them, every
\* sample is in one bucket, and the extremes enclose them: add_sample's and
\* merge's updates, which never see the samples again.
DescribesSamples ==
  \A d \in Dists :
    LET h == dist[d]
    IN /\ h.count = Times(d, Samples)
       /\ h.count = Counted(h, DOMAIN h.bucket_counts)
       /\ h.count * h.mean = SumFunction([x \in Samples |-> sampled[d][x] * x])
       /\ h.ssd = SumFunction([x \in Samples |-> sampled[d][x] * Squared(x - h.mean)])
       /\ \A x \in Sampled(d) : h.minimum <= x /\ x <= h.maximum

HasExtremes(d) ==
  LET h == dist[d] IN
  h.count > 0 => h.minimum = Min(Sampled(d)) /\ h.maximum = Max(Sampled(d))

\* Up to each bound the buckets hold at least the samples below it, and at most
\* those not above.
HasBuckets(d) ==
  LET h == dist[d] IN
  \A i \in {j \in DOMAIN h.bucket_counts : j + 1 \in DOMAIN h.bucket_counts} :
    LET bound == UpperBound(h.options, i) IN
    /\ Times(d, {x \in Samples : x < bound}) <= Counted(h, 0..i)
    /\ Counted(h, 0..i) <= Times(d, {x \in Samples : x <= bound})

\* Where merge() got what its caller should give it, the extremes are samples and
\* the buckets hold what lies between their bounds: as long as no distribution
\* without samples was merged into, the extremes, and as long as the bounds were
\* the same, the buckets.  MergedExtremes and MergedBuckets are without these
\* conditions.
FitsSamples ==
  \A d \in Dists :
    (d \notin zeroed => HasExtremes(d)) /\ (d \notin mixed => HasBuckets(d))

\* merge "ensures that the statistics and histogram are updated to correctly
\* include the original values from both instances" (its docstring): the extremes
\* are the least and the greatest sample.  They are not where `latest' was empty.
MergedExtremes == \A d \in Dists : HasExtremes(d)

\* merge raises "if the bucket options of `prior` and `latest` do not match" (its
\* docstring), so that no bucket counts samples beyond its bounds.  Linear buckets
\* with the same offset match, whatever their width, and those with the same number
\* and width, whatever their offset.
MergedBuckets == \A d \in Dists : HasBuckets(d)
=============================================================================
