--------------------------- MODULE ReportVerifier ---------------------------
(***************************************************************************)
(* The integration tests' verifier (verifiers/report-verifier/src): it     *)
(* polls the agent's log, merges all its reports into one and compares the *)
(* result with the traffic that the test made, until it matches or the     *)
(* time is up.  The agent is seen through its log: every event of a        *)
(* connection is in exactly one report.  A connection's two ends are on    *)
(* the same host, and give a client flow and a server flow.  The agent     *)
(* runs through all the tests, and integration-entrypoint truncates its    *)
(* log after each of them.  Checks against fixed strings and versions are  *)
(* left out.                                                               *)
(***************************************************************************)
EXTENDS Integers, Sequences, SequencesExt, FiniteSets

CONSTANTS Conns,
          ExpectedCount,   \* expected_connection_count
          MinLatency,      \* expected_minimum_latency
          LossTenths,      \* expected_loss_percent, in tens
          Fabric,          \* "Plain", "EC2" or "K8s"
          Latency,         \* connection -> latency of its handshake and its round trip
          PublishSecs, JitterSecs, \* the agent's options
          Grace,           \* the 10 seconds of the code
          MaxEarly         \* bound: seconds pass before the verifier starts up to so many reports

VARIABLES
  stage,   \* connection -> "new", "attempted", "established", "used", "closed"
  window,  \* what the agent has to report
  log,     \* the reports in the agent's log
  due,     \* seconds to the next report
  elapsed, \* seconds since the verifier started, or -1
  result,  \* "none", "passed" or "failed"
  whole,   \* history: one report of everything
  ready    \* history: was the traffic over when the verifier started?

vars == <<stage, window, log, due, elapsed, result, whole, ready>>

-----------------------------------------------------------------------------
\* Reports: the parts that the verifier looks at.
NoHist == [count |-> 0, sum |-> 0, min |-> 0, max |-> 0]

\* One histogram stands for rtt_us and rtt_smoothed_us.
NoStats == [attempts |-> 0, connect_us |-> NoHist, segments_delivered |-> 0, segments_received |-> 0,
            bytes_delivered |-> 0, bytes_received |-> 0, rtt_us |-> NoHist, completed |-> 0]

\* EventCounters; socket_events, which all of them raise, is left out.
NoEvents == [active_connect |-> 0, active_established |-> 0, passive_established |-> 0, rtt |-> 0,
             state_change |-> 0]

\* ProcessCounters: aggregated stands for socket_agg_completed and
\* socket_deltas_completed, errors for the counters of both kinds that must be 0.
NoProcess == [sockets_added |-> 0, restarts |-> 0, aggregated |-> 0, natd |-> 0, errors |-> 0]

\* UsageStats: each figure but sockets_tracked has a range, which load stands for: 0
\* is below it and 2 above.
NoUsage == [load |-> 0, sockets_tracked |-> 0]

\* What is left in the agent when a report has been taken.
NoReport ==
  [client |-> NoStats, server |-> NoStats, events |-> NoEvents, process |-> NoProcess, usage |-> NoUsage,
   interfaces |-> IF Fabric = "Plain" THEN 0 ELSE 1, node |-> Fabric = "K8s",
   platform |-> IF Fabric = "K8s" THEN "k8s" ELSE "ec2", failed_reports |-> 0]

min_non_zero(a, b) == IF a = 0 THEN b ELSE IF b = 0 \/ a < b THEN a ELSE b

larger(a, b) == IF a < b THEN b ELSE a

merge_hist(h, g) ==
  [count |-> h.count + g.count, sum |-> h.sum + g.sum,
   min |-> min_non_zero(h.min, g.min), max |-> larger(h.max, g.max)]

merge_stats(s, t) ==
  [attempts |-> s.attempts + t.attempts, connect_us |-> merge_hist(s.connect_us, t.connect_us),
   segments_delivered |-> s.segments_delivered + t.segments_delivered,
   segments_received |-> s.segments_received + t.segments_received,
   bytes_delivered |-> s.bytes_delivered + t.bytes_delivered,
   bytes_received |-> s.bytes_received + t.bytes_received,
   rtt_us |-> merge_hist(s.rtt_us, t.rtt_us), completed |-> s.completed + t.completed]

\* EventCounters::add_from and ProcessCounters::merge_from
merge_counters(c, d) == [k \in DOMAIN c |-> c[k] + d[k]]

merge_usage(u, v) ==
  [load |-> larger(u.load, v.load), sockets_tracked |-> u.sockets_tracked + v.sockets_tracked]

\* The rest is the first report's.
merge_reports(r, s) ==
  [r EXCEPT !.client = merge_stats(@, s.client), !.server = merge_stats(@, s.server),
            !.events = merge_counters(@, s.events), !.process = merge_counters(@, s.process),
            !.usage = merge_usage(@, s.usage)]

read_and_merge_all_reports == FoldLeft(merge_reports, Head(log), Tail(log))

-----------------------------------------------------------------------------
\* verify and what it calls.  A connection succeeds when six packets in a row
\* get through; what that costs in repetitions is the tolerance.
Pow6(n) == n * n * n * n * n * n

within_tolerance(observed) ==
  LET off == IF observed < ExpectedCount THEN ExpectedCount - observed ELSE observed - ExpectedCount
  IN off * Pow6(10 - LossTenths) <= ExpectedCount * (Pow6(10) - Pow6(10 - LossTenths))

above_latency(h) == h.min >= MinLatency /\ h.max >= MinLatency /\ h.sum >= MinLatency

\* Mutant of verify_flow_stats_common: completed sockets are not compared.
verify_flow_stats_common_NotCompleted(s) ==
  /\ within_tolerance(s.rtt_us.count) /\ above_latency(s.rtt_us)
  /\ s.bytes_delivered > 0 /\ s.bytes_received > 0

verify_flow_stats_common(s) ==
  /\ within_tolerance(s.rtt_us.count) /\ above_latency(s.rtt_us)
  /\ s.bytes_delivered > 0 /\ s.bytes_received > 0
  /\ within_tolerance(s.completed)

verify_local_client_flow_stats(s) ==
  /\ within_tolerance(s.segments_delivered)
  /\ within_tolerance(s.attempts)
  /\ within_tolerance(s.connect_us.count) /\ above_latency(s.connect_us)
  /\ verify_flow_stats_common(s)

verify_remote_server_flow_stats(s) ==
  /\ within_tolerance(s.segments_received)
  /\ s.attempts = 0 /\ s.connect_us = NoHist
  /\ verify_flow_stats_common(s)

verify_network_flow_stats(r) ==
  verify_local_client_flow_stats(r.client) /\ verify_remote_server_flow_stats(r.server)

verify_host_stats(r) == IF Fabric = "Plain" THEN r.interfaces = 0 ELSE r.interfaces > 0

verify_k8s_metadata(r) == r.node = (Fabric = "K8s")

verify_env_metadata(r) == r.platform = IF Fabric = "K8s" THEN "k8s" ELSE "ec2"

verify_usage_stats(r) == r.usage.load = 1 /\ r.usage.sockets_tracked > 0

verify_event_counters(r) == \A k \in DOMAIN r.events : r.events[k] >= ExpectedCount

verify_process_counters(r) ==
  /\ r.process.sockets_added >= ExpectedCount
  /\ r.process.restarts = 0 /\ r.process.errors = 0
  /\ r.process.aggregated > 0
  /\ IF Fabric = "K8s" THEN r.process.natd > 0 ELSE r.process.natd = 0

verify(r) ==
  /\ verify_network_flow_stats(r)
  /\ verify_env_metadata(r)
  /\ verify_usage_stats(r) /\ verify_event_counters(r) /\ verify_process_counters(r)
  /\ verify_host_stats(r)
  /\ verify_k8s_metadata(r)
  /\ r.failed_reports = 0

-----------------------------------------------------------------------------
\* The agent's first report counts its start.
Init ==
  /\ stage = [c \in Conns |-> "new"] /\ window = [NoReport EXCEPT !.process.restarts = 1] /\ log = <<>>
  /\ due \in 1..PublishSecs /\ elapsed = -1 /\ result = "none"
  /\ whole = NoReport /\ ready = FALSE

Sample(l) == [count |-> 1, sum |-> l, min |-> l, max |-> l]

\* One step of a connection: the report of that step alone.
Events(from, l) ==
  LET natd == IF Fabric = "K8s" THEN 1 ELSE 0
      seen == [NoReport EXCEPT !.events.state_change = 1, !.process.aggregated = 1, !.usage.sockets_tracked = 1]
  IN
  CASE from = "new" -> [seen EXCEPT !.client.attempts = 1, !.events.active_connect = 1,
                                    !.process.sockets_added = 1, !.process.natd = natd]
    [] from = "attempted" -> [seen EXCEPT !.client.connect_us = Sample(l), !.events.active_established = 1,
                                          !.events.passive_established = 1, !.process.sockets_added = 1]
    [] from = "established" ->
         [seen EXCEPT !.client.segments_delivered = 1, !.client.bytes_delivered = 1,
                      !.client.bytes_received = 1, !.client.rtt_us = Sample(l),
                      !.server.segments_received = 1, !.server.bytes_received = 1,
                      !.server.bytes_delivered = 1, !.server.rtt_us = Sample(l), !.events.rtt = 2]
    [] from = "used" -> [seen EXCEPT !.client.completed = 1, !.server.completed = 1]

After(from) ==
  CASE from = "new" -> "attempted" [] from = "attempted" -> "established"
    [] from = "established" -> "used" [] from = "used" -> "closed"

Joined(h, g) ==
  IF g.count = 0 THEN h ELSE IF h.count = 0 THEN g
  ELSE [count |-> h.count + g.count, sum |-> h.sum + g.sum,
        min |-> CHOOSE m \in {h.min, g.min} : m <= h.min /\ m <= g.min,
        max |-> CHOOSE m \in {h.max, g.max} : m >= h.max /\ m >= g.max]

Plus(s, t) ==
  [k \in DOMAIN s |-> IF k \in {"connect_us", "rtt_us"} THEN Joined(s[k], t[k]) ELSE s[k] + t[k]]

Record(r, s) ==
  [r EXCEPT !.client = Plus(@, s.client), !.server = Plus(@, s.server),
            !.events = Plus(@, s.events), !.process = Plus(@, s.process),
            !.usage.sockets_tracked = larger(@, s.usage.sockets_tracked)]

\* The tests send one request after the other; only the sockets' closing overlaps.
Traffic(c) ==
  /\ stage[c] # "closed" /\ result = "none"
  /\ \A d \in Conns \ {c} : stage[d] \in {"new", "used", "closed"}
  /\ window' = Record(window, Events(stage[c], Latency[c]))
  /\ whole' = Record(whole, Events(stage[c], Latency[c]))
  /\ stage' = [stage EXCEPT ![c] = After(@)]
  /\ UNCHANGED <<log, due, elapsed, result, ready>>

\* How the agent fared since its last report: load and errors.  Bound: it is idle,
\* overloaded or in error in at most one report of the log.
Well == <<1, 0>>
Conditions ==
  IF \A i \in DOMAIN log : <<log[i].usage.load, log[i].process.errors>> = Well
  THEN {Well, <<0, 0>>, <<2, 0>>, <<1, 1>>} ELSE {Well}

\* The agent logs a report before it sends it, and chooses the time of the next.
Publish ==
  /\ due = 0 /\ result = "none"
  /\ \E c \in Conditions :
       log' = Append(log, [window EXCEPT !.usage.load = c[1], !.process.errors = c[2]])
  /\ window' = NoReport
  /\ due' \in (PublishSecs - JitterSecs)..(PublishSecs + JitterSecs - 1)
  /\ UNCHANGED <<stage, elapsed, result, whole, ready>>

\* "for a clean slate for next test"
Truncate ==
  /\ elapsed = -1 /\ (\A c \in Conns : stage[c] = "new")
  /\ log # <<>> /\ log' = <<>>
  /\ UNCHANGED <<stage, window, due, elapsed, result, whole, ready>>

\* The tests start the verifier after their last request; sockets may still close.
Start ==
  /\ elapsed = -1 /\ elapsed' = 0
  /\ \A c \in Conns : stage[c] \in {"used", "closed"}
  /\ ready' = \A c \in Conns : stage[c] = "closed"
  /\ UNCHANGED <<stage, window, log, due, result, whole>>

timeout == PublishSecs + Grace

\* One turn of main's loop, and the second that it sleeps.
Poll ==
  /\ elapsed >= 0 /\ result = "none" /\ due > 0
  /\ IF elapsed >= timeout THEN result' = "failed" /\ UNCHANGED <<elapsed, due>>
     ELSE IF log # <<>> /\ verify(read_and_merge_all_reports)
     THEN result' = "passed" /\ UNCHANGED <<elapsed, due>>
     ELSE elapsed' = elapsed + 1 /\ due' = due - 1 /\ UNCHANGED result
  /\ UNCHANGED <<stage, window, log, whole, ready>>

\* A second passes before the verifier starts.
Second ==
  /\ elapsed = -1 /\ due > 0 /\ due' = due - 1
  /\ Len(log) < MaxEarly
  /\ UNCHANGED <<stage, window, log, elapsed, result, whole, ready>>

Next == (\E c \in Conns : Traffic(c)) \/ Publish \/ Truncate \/ Start \/ Poll \/ Second

Spec == Init /\ [][Next]_vars

-----------------------------------------------------------------------------
\* "We have to merge all the reports into a single one": wherever the reports cut
\* the connections' lives, the merged report with what is still to come is the
\* report of everything.
MergeIsWhole ==
  log # <<>> => LET r == Record(read_and_merge_all_reports, window)
                IN r.client = whole.client /\ r.server = whole.server /\ r.events = whole.events
                   /\ \A k \in {"sockets_added", "aggregated", "natd"} : r.process[k] = whole.process[k]

\* The verifier passes only when every connection went through its whole life, the
\* agent was in good order throughout, and its first report is not in the log.
PassMeansAll ==
  result = "passed" /\ LossTenths = 0 /\ Cardinality(Conns) = ExpectedCount =>
    /\ \A c \in Conns : stage[c] = "closed"
    /\ \A i \in DOMAIN log : log[i].process.restarts + log[i].process.errors = 0 /\ log[i].usage.load < 2

\* Nothing in the log or still to come keeps the verifier from passing: the agent's
\* first report was truncated away, and it was in good order.
Passable ==
  /\ window.process.restarts = 0
  /\ \A i \in DOMAIN log : log[i].process.restarts + log[i].process.errors = 0 /\ log[i].usage.load = 1

\* "It might take up to publication period of time for a report to appear. But
\* adding 10 more seconds": what was over when the verifier started is found
\* before it gives up, although the period varies by the jitter.
FoundInTime ==
  ready /\ Passable /\ JitterSecs <= Grace /\ (\A c \in Conns : Latency[c] >= MinLatency) =>
    result # "failed"
=============================================================================
