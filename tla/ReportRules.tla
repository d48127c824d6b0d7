----------------------------- MODULE ReportRules -----------------------------
(***************************************************************************)
(* What is reported of a request: extract_report_spec reads the logs,      *)
(* metrics and labels from the service configuration, destination by       *)
(* destination; ReportingRules.from_known_inputs keeps those that can be   *)
(* filled in; each request's Info becomes an operation by these rules, and *)
(* operations with the same signature are merged (module OperationMerge,   *)
(* whose own behaviour this module does not use).                          *)
(*                                                                         *)
(* A metric's name is [mark, what]: on whose behalf, and which quantity.   *)
(* Labels are named without their domains.  Numbers are -1 or 0 where they *)
(* are absent, strings "".                                                 *)
(***************************************************************************)
EXTENDS OperationMerge

CONSTANTS
  Services,     \* [resources, logs, metrics, logging, monitoring]
  Infos,        \* what is known of requests
  MaxReports    \* bound: reports of requests

VARIABLES
  service,      \* the configuration
  stage,        \* "logging", "monitoring" (consumers', then producers') or "extracted"
  destination,  \* the index of the destination that is read
  named,        \* the index of the log or metric in it; 0 before its resource
  labels,       \* labels_dict: key to value type
  logs,         \* the logs to report to
  metrics,      \* metrics_dict's names
  held,         \* signature to the aggregator of its operations
  pending,      \* the metrics of the last report that are not merged yet
  reported      \* history: the Infos reported

rulesVars ==
  <<service, stage, destination, named, labels, logs, metrics, held, pending,
    reported>>

-----------------------------------------------------------------------------
(* KnownLabels and KnownMetrics. *)

\* The labels without a function that sets them.
UnsetLabels ==
  {"end_user", "end_user_country", "clone_id", "module_id", "replica_index",
   "version_id", "project", "region", "resource_id", "resource_type", "service",
   "zone", "uid", "android_cert_fingerprint", "android_package_name",
   "caller_ip", "ios_bundle_id", "scc_referer"}

CanonicalCodes ==
  [code \in {400, 401, 403, 404, 409, 412, 416, 429, 499, 500, 501, 503, 504} |->
     CASE code = 400 -> 3 [] code = 401 -> 16 [] code = 403 -> 7 [] code = 404 -> 5
       [] code = 409 -> 10 [] code = 412 -> 9 [] code = 416 -> 11 [] code = 429 -> 8
       [] code = 499 -> 1 [] code = 500 -> 13 [] code = 501 -> 12 [] code = 503 -> 14
       [] code = 504 -> 4]

\* Mutant of CanonicalCode: client errors without a code of their own are OK.
CanonicalCodeOK(code) ==
  CASE code \in DOMAIN CanonicalCodes -> CanonicalCodes[code]
    [] code \in (500..599) \ DOMAIN CanonicalCodes -> 13
    [] code \in (200..299) \cup ((400..499) \ DOMAIN CanonicalCodes) -> 0
    [] OTHER -> 2

\* _canonical_code.
CanonicalCode(code) ==
  CASE code \in DOMAIN CanonicalCodes -> CanonicalCodes[code]
    [] code \in (400..499) \ DOMAIN CanonicalCodes -> 9
    [] code \in (500..599) \ DOMAIN CanonicalCodes -> 13
    [] code \in 200..299 -> 0
    [] OTHER -> 2

\* set_error_type and set_response_code_class.
CodeClass(info) ==
  IF info.response_code > 0 THEN {(info.response_code \div 100) % 10} ELSE {}

Present(x) == IF x \in {"", "none"} THEN {} ELSE {x}

\* The set_* functions: the value of each label, or nothing.
Setters(info) ==
  [credential_id |-> IF info.api_key # "" THEN {<<info.api_key>>}
                     ELSE {<<x, info.auth_audience>> : x \in Present(info.auth_issuer)},
   error_type |-> CodeClass(info),
   protocol |-> {info.protocol},
   referer |-> Present(info.referer),
   response_code |-> {info.response_code},
   response_code_class |-> CodeClass(info),
   status_code |-> IF info.response_code > 0
                     THEN {CanonicalCode(info.response_code)} ELSE {},
   location |-> Present(info.location),
   api_method |-> Present(info.api_method),
   api_version |-> Present(info.api_version),
   platform |-> {info.platform},
   service_agent |-> {"service_agent"},
   user_agent |-> {"user_agent"},
   consumer_project |-> IF info.consumer_project_number > 0
                          THEN {info.consumer_project_number} ELSE {}]

SetLabels ==
  {"credential_id", "error_type", "protocol", "referer", "response_code",
   "response_code_class", "status_code", "location", "api_method",
   "api_version", "platform", "service_agent", "user_agent", "consumer_project"}

\* KnownLabels.is_supported: every known label is a STRING.
LabelSupported(desc) ==
  desc.key \in SetLabels \cup UnsetLabels /\ desc.type = "STRING"

Counts == {"request_count", "error_count"}
Distributions ==
  {"request_sizes", "response_sizes", "total_latencies", "backend_latencies",
   "request_overhead_latencies"}
KnownMetrics ==
  [mark : {"consumer", "producer", "by_consumer"}, what : Counts \cup Distributions]

\* What the code relies on.  Lists are lists; an Info's status is a number; no
\* more is reported than an int64 counts; no known metric's kind is overridden,
\* as the client passes no kinds; and distributions merge with their like.
IsList(x) == Len(x) \in Nat /\ DOMAIN x = 1..Len(x)

ASSUME RulesAssumption ==
  /\ MaxReports \in Nat /\ Int64Limit \in Nat /\ MaxReports <= Int64Limit
  /\ DOMAIN Kind \cap KnownMetrics = {}
  /\ \A what \in Distributions : <<what, what>> \in Mergeable
  /\ \A info \in Infos :
       info.response_code \in Int /\ info.identified \in BOOLEAN
  /\ \A s \in Services :
       /\ IsList(s.logging) /\ IsList(s.monitoring)
       /\ \A i \in DOMAIN s.logging : IsList(s.logging[i].logs)
       /\ \A i \in DOMAIN s.monitoring : IsList(s.monitoring[i].metrics)

\* KnownMetrics.is_supported.
MetricSupported(name, desc) ==
  /\ name \in KnownMetrics /\ desc.kind = "DELTA"
  /\ desc.type = IF name.what \in Counts THEN "INT64" ELSE "DISTRIBUTION"

\* The functions that set a metric add one value of 1, or one sample, if the
\* Info has what they measure; a time of zero is falsy.
Measured(what, info) ==
  CASE what = "request_count" -> TRUE
    [] what = "error_count" -> info.response_code >= 400
    [] what = "request_sizes" -> info.request_size >= 0
    [] what = "response_sizes" -> info.response_size >= 0
    [] what = "total_latencies" -> info.request_time > 0
    [] what = "backend_latencies" -> info.backend_time > 0
    [] what = "request_overhead_latencies" -> info.overhead_time > 0

\* _consumer_metric and _by_consumer_metric.
Concerns(mark, info) ==
  CASE mark = "consumer" -> info.api_key_valid
    [] mark = "by_consumer" -> info.consumer_project_number > 0
    [] mark = "producer" -> TRUE

-----------------------------------------------------------------------------
(* extract_report_spec *)

Conflicting(ls, descs) ==
  \E i \in DOMAIN descs : /\ descs[i].key \in DOMAIN ls
                          /\ ls[descs[i].key] # descs[i].type

\* _add_labels_from_descriptors: all the supported labels, or none.
WithLabels(ls, descs) ==
  LET added == {i \in DOMAIN descs : LabelSupported(descs[i])} IN
  IF Conflicting(ls, descs) THEN ls
  ELSE [k \in DOMAIN ls \cup {descs[i].key : i \in added} |->
          IF k \in DOMAIN ls THEN ls[k] ELSE "STRING"]

\* The destinations that are read, and the one that is being read.
Destinations == IF stage = "logging" THEN service.logging ELSE service.monitoring
Current == Destinations[destination]
Names == IF stage = "logging" THEN Current.logs ELSE Current.metrics
Reading == stage # "extracted" /\ destination \in DOMAIN Destinations

\* _add_labels_for_a_monitored_resource: a destination adds the labels of its
\* resource, unless they conflict; one with an unknown resource is skipped.
Known(d) == d.resource \in DOMAIN service.resources
EnterDestination ==
  /\ Reading /\ named = 0
  /\ IF Known(Current)
       THEN /\ labels' = WithLabels(labels, service.resources[Current.resource])
            /\ named' = 1
            /\ UNCHANGED destination
       ELSE destination' = destination + 1 /\ UNCHANGED <<labels, named>>
  /\ UNCHANGED <<service, stage, logs, metrics, held, reported, pending>>

\* _add_labels_for_a_log: a known log is used even if its labels conflict.
ReadLog ==
  /\ Reading /\ stage = "logging" /\ named \in DOMAIN Names
  /\ LET log == Names[named] IN
     IF log \in DOMAIN service.logs
       THEN labels' = WithLabels(labels, service.logs[log]) /\ logs' = logs \cup {log}
       ELSE UNCHANGED <<labels, logs>>
  /\ named' = named + 1
  /\ UNCHANGED <<service, stage, destination, metrics, held, reported, pending>>

\* Mutant of MetricUsable: the conflict only keeps the labels out.
MetricUsableAnyway(name) ==
  /\ name \in DOMAIN service.metrics
  /\ MetricSupported(name, service.metrics[name])

\* A metric is used if it is supported and its labels do not conflict.
MetricUsable(name) ==
  /\ name \in DOMAIN service.metrics
  /\ MetricSupported(name, service.metrics[name])
  /\ ~Conflicting(labels, service.metrics[name].labels)

\* A round over the metrics of a destination.
ReadMetric ==
  /\ Reading /\ stage = "monitoring" /\ named \in DOMAIN Names
  /\ LET name == Names[named] IN
     IF MetricUsable(name)
       THEN /\ labels' = WithLabels(labels, service.metrics[name].labels)
            /\ metrics' = metrics \cup {name}
       ELSE UNCHANGED <<labels, metrics>>
  /\ named' = named + 1
  /\ UNCHANGED <<service, stage, destination, logs, held, reported, pending>>

\* The end of a destination's names, and of the destinations of a kind.
LeaveDestination ==
  /\ Reading /\ named > Len(Names)
  /\ destination' = destination + 1 /\ named' = 0
  /\ UNCHANGED <<service, stage, labels, logs, metrics, held, reported, pending>>

NextStage ==
  /\ stage # "extracted" /\ destination > Len(Destinations)
  /\ stage' = IF stage = "logging" THEN "monitoring" ELSE "extracted"
  /\ destination' = 1
  /\ UNCHANGED <<service, named, labels, logs, metrics, held, reported, pending>>

-----------------------------------------------------------------------------
(* Reports *)

\* ReportingRules.from_known_inputs: the labels that can be set, and the
\* metrics; the rest is ignored.
RuleLabels == DOMAIN labels \cap SetLabels

\* operation.Info.as_operation.
ConsumerId(info) ==
  IF info.api_key # "" /\ info.api_key_valid THEN <<"api_key", info.api_key>>
  ELSE IF info.consumer_project_id # "" THEN <<"project", info.consumer_project_id>>
  ELSE <<>>

\* as_report_request: three labels are always set.
LabelsOf(info) ==
  LET set == {l \in RuleLabels : Setters(info)[l] # {}}
             \cup {"platform", "service_agent", "user_agent"}
  IN IF ~info.identified THEN {} ELSE {<<l, Setters(info)[l]>> : l \in set}

\* Whether a request's report has the metric.
About(m, info) ==
  info.identified /\ Concerns(m.mark, info) /\ Measured(m.what, info)

MetricsOf(info) == {m \in metrics : About(m, info)}

\* as_operation's times are absent: FromJsonString returns None.  The bucket
\* options are the metric's own.
ValueOf(m) ==
  [key |-> [name |-> m, sign |-> "none"],
   value |-> [type |-> IF m.what \in Counts THEN "int64_value"
                       ELSE "distribution_value",
              val |-> 1, buckets |-> IF m.what \in Counts THEN "none" ELSE m.what,
              start_time |-> 0, end_time |-> 0]]

LogsOf(info) ==
  SetToSeq({<<l, IF info.response_code >= 400 THEN "ERROR" ELSE "INFO">> :
              l \in logs})

OperationOf(info) == [logs |-> LogsOf(info), start_time |-> 0, end_time |-> 0]

\* _sign_operation: the consumer, the name, the labels.
SignatureOf(info) ==
  <<ConsumerId(info), info.operation_name, LabelsOf(info)>>

\* A request is reported: its operation, all but the metrics, is merged with the
\* cached one of its kind.
Report(info) ==
  LET sig == SignatureOf(info)  op == OperationOf(info) IN
  /\ stage = "extracted" /\ pending = {} /\ Len(reported) < MaxReports
  /\ held' = [s \in DOMAIN held \cup {sig} |->
                IF s # sig THEN held[s]
                ELSE IF sig \in DOMAIN held THEN Extended(held[sig], op)
                ELSE Opened(op)]
  /\ reported' = Append(reported, info)
  /\ pending' = MetricsOf(info)
  /\ UNCHANGED <<service, stage, destination, named, labels, logs, metrics>>

\* A round of _merge_metric_values, whose order is that of metrics_dict; here any.
MergeMetric ==
  \E m \in pending :
    /\ held' = [held EXCEPT ![SignatureOf(Last(reported))] = Take(@, ValueOf(m))]
    /\ pending' = pending \ {m}
    /\ UNCHANGED <<service, stage, destination, named, labels, logs, metrics, reported>>

RulesInit ==
  /\ service \in Services
  /\ stage = "logging" /\ destination = 1 /\ named = 0
  /\ labels = [k \in {} |-> "STRING"] /\ logs = {} /\ metrics = {}
  /\ held = [s \in {} |-> 0] /\ reported = <<>> /\ pending = {}

RulesNext ==
  \/ EnterDestination \/ ReadLog \/ ReadMetric \/ LeaveDestination \/ NextStage
  \/ \E info \in Infos : Report(info)
  \/ MergeMetric

RulesSpec == RulesInit /\ [][RulesNext]_rulesVars

-----------------------------------------------------------------------------
\* Reading the destinations in their order leaves: of every used metric, all
\* the labels that are supported; and every metric and log that a destination
\* with a known resource names and the service declares, except the metrics
\* with a label that contradicts a recorded one.  Only STRING labels are
\* recorded, so the order decides whether a metric with another type of such a
\* label is kept, but none is ever half recorded.
SpecComplete ==
  stage = "extracted" =>
    /\ \A m \in metrics : \A i \in DOMAIN service.metrics[m].labels :
         LET desc == service.metrics[m].labels[i]
         IN LabelSupported(desc) => desc.key \in DOMAIN labels
    /\ \A i \in DOMAIN service.logging :
         service.logging[i].resource \in DOMAIN service.resources =>
           ToSet(service.logging[i].logs) \cap DOMAIN service.logs \subseteq logs
    /\ \A i \in DOMAIN service.monitoring :
         service.monitoring[i].resource \in DOMAIN service.resources =>
           \A m \in ToSet(service.monitoring[i].metrics) \cap DOMAIN service.metrics :
             MetricSupported(m, service.metrics[m]) =>
               m \in metrics \/ Conflicting(labels, service.metrics[m].labels)

\* "Only add correctly configured logs", a comment says where they are added: a
\* log that is kept has its supported labels recorded.  One with a label that
\* contradicts a recorded one is kept without any.
LogsLabelled ==
  stage = "extracted" =>
    \A l \in logs : \A i \in DOMAIN service.logs[l] :
      LabelSupported(service.logs[l][i]) => service.logs[l][i].key \in DOMAIN labels

\* The reports with one signature, and those of them that a metric is about.
Of(s) == {i \in DOMAIN reported : SignatureOf(reported[i]) = s}
AboutIn(m, s) == {i \in Of(s) : About(m, reported[i])}
Failed(i) == reported[i].response_code >= 400

\* In the merged operation of any number of reports each metric counts exactly
\* the reports it is about, the log entries are those of every report, and no
\* merge raises: values that different reports leave out never meet a value
\* they cannot be merged with.  And where the status code is a label, the
\* errors of an operation are all of its reports or none, whatever their codes,
\* as long as these are HTTP's: 600 and 302 are both an unknown code.
ReportedCounts ==
  pending = {} =>
    /\ \A i \in DOMAIN reported : SignatureOf(reported[i]) \in DOMAIN held
    /\ \A s \in DOMAIN held :
         /\ ~held[s].raised
         /\ Len(held[s].logs) = Cardinality(Of(s)) * Cardinality(logs)
         /\ \A m \in metrics :
              LET key == ValueOf(m).key IN
              /\ key \in DOMAIN held[s].values <=> AboutIn(m, s) # {}
              /\ AboutIn(m, s) # {} =>
                   held[s].values[key].val = Cardinality(AboutIn(m, s))
         /\ /\ "status_code" \in RuleLabels
            /\ \E i \in Of(s) : reported[i].identified
            /\ \A i \in Of(s) : reported[i].response_code < 600
            => (\A i \in Of(s) : Failed(i)) \/ (\A i \in Of(s) : ~Failed(i))
=============================================================================
