----------------------------- MODULE ReportOtlp -----------------------------
(***************************************************************************)
(* How a report becomes the OpenTelemetry request that is published:       *)
(* to_value_pairs (nfm-controller/src/utils/report.rs) goes through JSON   *)
(* to the values of reports/report.rs, and reports/report_otlp.rs turns    *)
(* them into data points, scope by scope.  One field of each type stands   *)
(* for the fields of that type; names, attributes' wording and the         *)
(* protobuf encoding are left out.                                         *)
(***************************************************************************)
EXTENDS Integers, Sequences, SequencesExt, Functions

CONSTANTS Half,         \* 2^63: the first u64 that is no i64
          Exact,        \* 2^53: every integer up to it is an f64
          Ulps,         \* distances of neighbouring f64: the powers of 2 up to 2 * Half \div Exact
          Numbers, Bytes, \* the u64 values that occur: in general, and of a flow
          Enis,         \* interface ids
          MaxFlows,     \* bound: flows in a report
          MaxUsage      \* bound: usage samples in a report

\* Values of fields: integers, floats (a ratio whose divisor is zero is no
\* number) and histograms.
U64(n) == [type |-> "u64", n |-> n]
F64(n) == [type |-> "f64", n |-> n]
NotFinite == [type |-> "f64", n |-> -1]
Histo(count, min, max, sum) == [type |-> "histogram", count |-> count, min |-> min, max |-> max, sum |-> sum]

NetworkStats == [bytes : {U64(n) : n \in Bytes}, rtt_us : {Histo(0, 0, 0, 0), Histo(3, 1, 7, 9)}]
UsageStats == [cpu_util : {F64(1), NotFinite}, mem_used_kb : {U64(n) : n \in Numbers}]
Counters == [n : {U64(n) : n \in Numbers}]

VARIABLES
  network_stats,   \* the flows' statistics
  usage,           \* usage samples, the oldest first
  interface_stats, \* interface -> its counter
  event_related, process_related, failed_reports, \* counters
  k8s_metadata,    \* which of node_name and cluster_name the environment has
  resource, scope_metrics, \* the request as built so far
  pc               \* the next function of build_export

report == <<network_stats, usage, interface_stats, event_related, process_related, failed_reports, k8s_metadata>>
vars == <<report, resource, scope_metrics, pc>>

\* K8sMetadata::default: each name is there if its variable is set.
K8sMetadata == SUBSET {"node_name", "cluster_name"}

\* From the same variables, read by another provider.
get_compute_platform ==
  IF "cluster_name" \in k8s_metadata THEN "EC2_K8S_EKS"
  ELSE IF "node_name" \in k8s_metadata THEN "EC2_K8S_VANILLA" ELSE "EC2_PLAIN"

Init ==
  /\ network_stats \in SeqOf(NetworkStats, MaxFlows)
  /\ usage \in SeqOf(UsageStats, MaxUsage)
  /\ interface_stats \in UNION {[I -> Counters] : I \in SUBSET Enis}
  /\ event_related \in Counters /\ process_related \in Counters
  /\ failed_reports = 1
  /\ k8s_metadata \in K8sMetadata
  /\ resource = {} /\ scope_metrics = <<>>
  /\ pc = "resource"

-----------------------------------------------------------------------------
\* From<&serde_json::Value> for ReportValue; JSON has no number for a float
\* that is not finite, and null in its place.
ReportValue(v) ==
  CASE v = NotFinite -> [kind |-> "Invalid"]
    [] v.type = "f64" /\ v # NotFinite -> [kind |-> "Float", n |-> v.n]
    [] v.type = "u64" /\ v.n < Half -> [kind |-> "Int", n |-> v.n]
    [] v.type = "u64" /\ v.n >= Half -> [kind |-> "UInt", n |-> v.n]

\* "Serialize only primitive types into the report."
to_value_pairs(item) ==
  [f \in {g \in DOMAIN item : item[g].type # "histogram"} |-> ReportValue(item[f])]

\* NetworkStats::enumerate
enumerate(stats) ==
  [f \in DOMAIN stats |-> IF stats[f].type = "histogram" THEN [kind |-> "Histogram", histo |-> stats[f]]
                          ELSE to_value_pairs(stats)[f]]

enumerate_usage == IF usage = <<>> THEN <<>> ELSE to_value_pairs(Last(usage))

\* Rust's `as i64`
as_i64(n) == IF n < Half THEN n ELSE n - 2 * Half

\* Rust's `as f64`: the nearest f64, and of two the one whose last bit is 0.
as_f64(n) ==
  LET ulp == CHOOSE u \in Ulps : n <= Exact * u /\ \A v \in Ulps : n <= Exact * v => u <= v
      last == n \div ulp
  IN  IF 2 * (n % ulp) < ulp \/ (2 * (n % ulp) = ulp /\ last % 2 = 0) THEN last * ulp ELSE (last + 1) * ulp

\* A data point, or an error that leaves the metric out; a number is a
\* histogram of one.
build_metric_histogram(value) ==
  CASE value.kind = "Histogram" -> <<[count |-> value.histo.count, min |-> value.histo.min,
                                      max |-> value.histo.max, sum |-> as_f64(value.histo.sum)]>>
    [] value.kind = "Float" -> <<[count |-> 1, sum |-> value.n]>>
    [] value.kind \in {"Int", "UInt"} -> <<[count |-> 1, sum |-> as_f64(value.n)]>>
    [] OTHER -> <<>>

\* Mutant of build_metric_number: what an attribute does with a large u64.
build_metric_number_Zero(value) ==
  CASE value.kind \in {"Float", "Int"} -> <<value.n>>
    [] value.kind = "UInt" -> <<0>>
    [] OTHER -> <<>>

\* build_metric_gauge and build_metric_sum
build_metric_number(value) ==
  CASE value.kind \in {"Float", "Int"} -> <<value.n>>
    [] value.kind = "UInt" -> <<as_i64(value.n)>>
    [] OTHER -> <<>>

\* The metrics of a scope: those whose value could be built.
Metrics(built) == [f \in {g \in DOMAIN built : built[g] # <<>>} |-> built[f][1]]

Histograms(values) == Metrics([f \in DOMAIN values |-> build_metric_histogram(values[f])])
NumbersOf(values) == Metrics([f \in DOMAIN values |-> build_metric_number(values[f])])

Scope(name, id, metrics) == [scope |-> name, id |-> id, metrics |-> metrics]

\* The attributes of the resource, by their groups; the platform is one of
\* the environment's.
add_resource_data ==
  /\ pc = "resource" /\ pc' = "network"
  /\ resource' = {get_compute_platform, "service", "report.version"} \cup k8s_metadata
  /\ UNCHANGED <<report, scope_metrics>>

add_network_stats ==
  /\ pc = "network" /\ pc' = "process"
  /\ scope_metrics' = scope_metrics \o
       [i \in DOMAIN network_stats |->
          Scope("network_stats", i, Histograms(enumerate(network_stats[i])))]
  /\ UNCHANGED <<report, resource>>

add_process_stats ==
  /\ pc = "process" /\ pc' = "host"
  /\ scope_metrics' = Append(scope_metrics,
       Scope("process_stats", 0, NumbersOf(enumerate_usage)))
  /\ UNCHANGED <<report, resource>>

\* The interfaces come in the order of a hash map.
add_host_stats ==
  /\ pc = "host" /\ pc' = "counters"
  /\ scope_metrics' \in {scope_metrics \o
       [i \in DOMAIN order |->
          Scope("host_stats", order[i], NumbersOf(to_value_pairs(interface_stats[order[i]])))] :
            order \in SetToSeqs(DOMAIN interface_stats)}
  /\ UNCHANGED <<report, resource>>

\* ProcessStats::enumerate_counters
enumerate_counters == <<to_value_pairs(event_related).n, to_value_pairs(process_related).n>>

add_counters ==
  /\ pc = "counters" /\ pc' = "built"
  /\ scope_metrics' = Append(scope_metrics,
       Scope("counters", 0,
             NumbersOf(Append(enumerate_counters, [kind |-> "UInt", n |-> failed_reports]))))
  /\ UNCHANGED <<report, resource>>

Next == add_resource_data \/ add_network_stats \/ add_process_stats \/ add_host_stats \/ add_counters

Spec == Init /\ [][Next]_vars

-----------------------------------------------------------------------------
Scopes(name, id) == {i \in DOMAIN scope_metrics : scope_metrics[i].scope = name /\ scope_metrics[i].id = id}
MetricsOf(name, id) == scope_metrics[CHOOSE i \in Scopes(name, id) : TRUE].metrics

\* x is what is left of n with the precision of an f64: n itself up to 2^53, and
\* beyond it no more than one part in 2^53 away.
Faithful(x, n) ==
  IF n <= Exact THEN x = n ELSE (IF x < n THEN n - x ELSE x - n) * Exact <= n

\* Every flow of the report has one scope in the request.  Counts and extremes,
\* which are u32, arrive unchanged; numbers and sums, which are u64, with the
\* precision of an f64 (NetworkStats::enumerate, build_metric_histogram).
FlowsArrive ==
  pc = "built" =>
    \A i \in DOMAIN network_stats :
      LET stats == network_stats[i]  metrics == MetricsOf("network_stats", i)
      IN  /\ \E s \in DOMAIN scope_metrics : Scopes("network_stats", i) = {s}
          /\ metrics.bytes.count = 1 /\ Faithful(metrics.bytes.sum, stats.bytes.n)
          /\ \A f \in {"count", "min", "max"} : metrics.rtt_us[f] = stats.rtt_us[f]
          /\ Faithful(metrics.rtt_us.sum, stats.rtt_us.sum)

\* The platform that a request names and its Kubernetes attributes, which two
\* providers take from the environment, fit each other.
PlatformFits ==
  pc = "built" =>
    /\ "EC2_K8S_EKS" \in resource <=> "cluster_name" \in resource
    /\ "EC2_PLAIN" \in resource <=> resource \cap {"cluster_name", "node_name"} = {}

\* The usage in the request is the newest sample, and a ratio that is no number
\* costs that metric alone (enumerate_usage, build_metric_gauge).
LatestUsageArrives ==
  pc = "built" /\ usage # <<>> =>
    LET newest == Last(usage)  metrics == MetricsOf("process_stats", 0)
    IN  /\ DOMAIN metrics = {f \in DOMAIN newest : newest[f] # NotFinite}
        /\ \A f \in DOMAIN metrics : newest[f].n < Half => metrics[f] = newest[f].n

\* Sums are u64 read as i64 by two's complement, in a counter as in the
\* statistics of an interface: the number that was counted can be had back
\* from the request, even where a delta was taken below zero (build_metric_sum).
SumsKeepTheirBits ==
  pc = "built" =>
    /\ \A e \in DOMAIN interface_stats : MetricsOf("host_stats", e).n % (2 * Half) = interface_stats[e].n.n
    /\ LET c == MetricsOf("counters", 0)
       IN  <<c[1] % (2 * Half), c[2] % (2 * Half), c[3]>> = <<event_related.n.n, process_related.n.n, failed_reports>>
=============================================================================
