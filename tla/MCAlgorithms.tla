---------------------------- MODULE MCAlgorithms ----------------------------
(* The sequential parts: distributions, money, the method registry, the      *)
(* merging of operations, and the rules and contents of reports.  They share *)
(* no state: a behaviour is one of one part, and the others stay where they  *)
(* began.                                                                    *)
EXTENDS Distribution, Money, ReportRules, Registry

CONSTANTS Parts, d1, d2

\* Linear buckets that differ in their width, of which one reaches below zero.
MCSamples == {-12, 0, 24, 48}
MCOptions ==
  {[type |-> "linear", n |-> 2, width |-> w, offset |-> 0] : w \in {12, 24}}
  \cup {[type |-> "exponential", n |-> 3, factor |-> 2, scale |-> 12],
        [type |-> "explicit", bounds |-> <<24, 0>>],
        [type |-> "explicit", bounds |-> <<0, 0>>],
        [type |-> "explicit", bounds |-> <<>>]}

MCAmounts ==
  {m \in [units : (-Int64Max - 1)..Int64Max, nanos : (1 - Billion)..(Billion - 1)] :
     ValidMoney(m)}

Calls(sign) == [name |-> [mark |-> "none", what |-> "calls"], sign |-> sign]
Level == [name |-> [mark |-> "none", what |-> "level"], sign |-> "a"]
Item(key, type, val, start, end) ==
  [key |-> key, value |-> [type |-> type, val |-> val, buckets |-> "none",
                           start_time |-> start, end_time |-> end]]
Histogram(key, buckets) ==
  [key |-> key, value |-> [type |-> "distribution_value", val |-> 1,
                           buckets |-> buckets, start_time |-> 0, end_time |-> 0]]
MCMetrics ==
  {<<>>, <<Item(Level, "int64_value", 2, 0, 0)>>,
   <<Item(Calls("a"), "int64_value", 1, 0, 0), Item(Calls("a"), "int64_value", 1, 1, 3)>>}
  \cup {<<Item(Level, "int64_value", 1, 1, e)>> : e \in 1..2}
  \cup {<<Histogram(Calls("a"), b)>> : b \in {"sizes", "times"}}
  \cup {<<Item(Calls("a"), "int64_value", v, 2, 0), Item(Calls("b"), t, 1, 0, 2)>> :
          v \in 0..2, t \in {"int64_value", "string_value"}}
MCOperations ==
  [logs : {<<"log">>}, start_time : {0}, end_time : 0..2, metrics : MCMetrics]
  \cup [logs : {<<"log">>}, start_time : {1}, end_time : {1}, metrics : MCMetrics]
MCKind == Level.name :> "GAUGE"
MCBuckets == {"none", "sizes", "times"} \cup Distributions
MCMergeable == {<<b, b>> : b \in MCBuckets \ {"none"}}

MCRules ==
  {[selector |-> "list", method |-> "get", url |-> "shelves", body |-> "none"],
   [selector |-> "make", method |-> "post", url |-> "any", body |-> "shelf"],
   [selector |-> "svc.OPTIONS", method |-> "OPTIONS", url |-> "shelves", body |-> "none"],
   [selector |-> "preflight", method |-> "options", url |-> "any", body |-> "none"],
   [selector |-> "list", method |-> "get", url |-> "bad", body |-> "none"],
   [selector |-> "none", method |-> "get", url |-> "any", body |-> "none"]}
MCConfigs ==
  [http : UNION {[1..n -> MCRules] : n \in 0..3},
   auth : {<<>>, <<[selector |-> "list", audiences |-> "a"],
                   [selector |-> "list", audiences |-> "b"]>>},
   usage : {<<>>, <<[selector |-> "list", allow |-> TRUE],
                    [selector |-> "svc.OPTIONS", allow |-> FALSE],
                    [selector |-> "list", allow |-> FALSE]>>,
            <<[selector |-> "make", allow |-> TRUE]>>},
   params : {<<[selector |-> "list", names |-> {"api_key", "none"}],
               [selector |-> "lost", names |-> {"api_key"}]>>}]
MCMatches == [shelves |-> {"shelves"}, any |-> {"shelves", "books"}, bad |-> {}]
MCLower == [get |-> "get", post |-> "post", OPTIONS |-> "options",
            options |-> "options"]
MCReserved == <<"svc.OPTIONS", "svc.OPTIONS.1", "svc.OPTIONS.2">>

\* Two metrics of which one contradicts a label of the other, and resources,
\* logs and destinations that are unknown or contradict each other.
Label(key, type) == [key |-> key, type |-> type]
ConsumerRequests == [mark |-> "consumer", what |-> "request_count"]
Errors == [mark |-> "producer", what |-> "error_count"]
Sizes == [mark |-> "by_consumer", what |-> "request_sizes"]
MCDestinations ==
  {[resource |-> r, metrics |-> ms] : r \in {"api", "unknown"},
     ms \in {<<ConsumerRequests, Errors>>, <<Errors, Sizes>>, <<Sizes>>}}
MCServices ==
  [resources : {[api |-> <<Label("api_method", "STRING"), Label("zone", "INT64")>>]},
   logs : {[access |-> <<Label("api_method", "INT64"), Label("referer", "STRING")>>]},
   metrics : {(ConsumerRequests :> [kind |-> "DELTA", type |-> "INT64",
                             labels |-> <<Label("status_code", "INT64"),
                                          Label("credential_id", "STRING")>>])
              @@ (Errors :> [kind |-> "DELTA", type |-> "INT64",
                             labels |-> <<Label("status_code", "STRING")>>])
              @@ (Sizes :> [kind |-> k, type |-> "DISTRIBUTION", labels |-> <<>>]) :
                k \in {"DELTA", "GAUGE"}},
   logging : {<<>>, <<[resource |-> "api", logs |-> <<"access", "lost">>]>>},
   monitoring : UNION {[1..n -> MCDestinations] : n \in 0..2}]

MCInfo ==
  [identified |-> TRUE, operation_name |-> "list", api_key |-> "key",
   api_key_valid |-> TRUE, consumer_project_id |-> "project", auth_issuer |-> "",
   auth_audience |-> "", response_code |-> 200, referer |-> "", location |-> "",
   api_method |-> "list", api_version |-> "", consumer_project_number |-> 7,
   platform |-> "GCE", protocol |-> "HTTP", request_size |-> 0,
   response_size |-> -1, request_time |-> 1, backend_time |-> 0,
   overhead_time |-> 0]
MCInfos ==
  {[MCInfo EXCEPT !.response_code = c, !.api_key_valid = v] :
     c \in {200, 302, 404, 418, 500}, v \in BOOLEAN}
  \cup {[MCInfo EXCEPT !.identified = FALSE],
        [MCInfo EXCEPT !.request_size = -1],
        [MCInfo EXCEPT !.consumer_project_number = -1]}

VARIABLE part

all == <<part, distVars, moneyVars, mergeVars, registryVars, rulesVars>>

\* Where the other parts stay.
OneDist == [d \in Dists |-> Create(CHOOSE o \in Options : Valid(o) /\ o.type = "linear")]
OneAmount == CHOOSE m \in Amounts : TRUE
OneOperation == CHOOSE op \in Operations : op.metrics = <<>>
OneConfig == CHOOSE c \in Configs : c.http = <<>>
OneService == CHOOSE s \in Services : s.logging = <<>>

MCInit ==
  /\ part \in Parts
  /\ DistInit /\ (part # "distribution" => dist = OneDist)
  /\ MoneyInit /\ (part # "money" => total = OneAmount)
  /\ MergeInit /\ (part # "merge" => given[1].op = OneOperation)
  /\ RegistryInit /\ (part # "registry" => config = OneConfig)
  /\ RulesInit /\ (part # "rules" => service = OneService)

MCNext ==
  \/ /\ part = "distribution" /\ DistNext
     /\ UNCHANGED <<part, moneyVars, mergeVars, registryVars, rulesVars>>
  \/ /\ part = "money" /\ MoneyNext
     /\ UNCHANGED <<part, distVars, mergeVars, registryVars, rulesVars>>
  \/ /\ part = "merge" /\ MergeNext
     /\ UNCHANGED <<part, distVars, moneyVars, registryVars, rulesVars>>
  \/ /\ part = "registry" /\ RegistryNext
     /\ UNCHANGED <<part, distVars, moneyVars, mergeVars, rulesVars>>
  \/ /\ part = "rules" /\ RulesNext
     /\ UNCHANGED <<part, distVars, moneyVars, mergeVars, registryVars>>

-----------------------------------------------------------------------------
(* What the source says of the parts, and the code does not do.            *)

\* A few values for each part, and all parts in one behaviour.
FewOptions == {[type |-> "linear", n |-> 2, width |-> w, offset |-> 0] : w \in {12, 24}}
FewAmounts == {[units |-> 0, nanos |-> n] : n \in 1..2}
FewOperations ==
  {[logs |-> <<"log">>, start_time |-> times[1], end_time |-> times[2],
    metrics |-> <<Item(Level, "int64_value", 1, 0, times[3]),
                  Item(Calls("a"), "int64_value", 0, 0, 0)>>] :
     times \in {<<0, 1, 2>>, <<0, 1, 1>>, <<1, 2, 2>>}}
FewServices == {s \in MCServices : s.logging # <<>> /\ s.monitoring = <<>>}
FewConfigs == {c \in MCConfigs : c.http = <<>> /\ c.auth = <<>> /\ c.usage = <<>>}

StatementsInit ==
  part = "all" /\ DistInit /\ MoneyInit /\ MergeInit /\ RegistryInit /\ RulesInit
StatementsNext ==
  /\ \/ DistNext /\ UNCHANGED <<moneyVars, mergeVars, rulesVars>>
     \/ MoneyNext /\ UNCHANGED <<distVars, mergeVars, rulesVars>>
     \/ MergeNext /\ UNCHANGED <<distVars, moneyVars, rulesVars>>
     \/ RulesNext /\ UNCHANGED <<distVars, moneyVars, mergeVars>>
  /\ UNCHANGED <<part, registryVars>>
StatementsSpec == StatementsInit /\ [][StatementsNext]_all

\* Docstrings, comments and tests of the repository say each of the following: of
\* merged distributions, that the extremes are samples and that the buckets fit;
\* of a sum of money, that it is valid; of merged operations, that the latest end
\* time is kept, that of a gauge the latest value is, and that consistent ones
\* merge; of logs, that those used have their labels.  The modules define them,
\* with what is said and where.  The code does none of them: in one behaviour all
\* are false, so that not even one of them holds in general.
AnyStatementHolds ==
  \/ MergedExtremes \/ MergedBuckets
  \/ SumValid
  \/ EndsLatest \/ GaugesLatest \/ ConsistentMerges
  \/ LogsLabelled
=============================================================================
