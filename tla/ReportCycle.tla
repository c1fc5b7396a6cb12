---------------------------- MODULE ReportCycle ----------------------------
(***************************************************************************)
(* The report cycle of do_work (nfm-controller/src/lib.rs) against the     *)
(* publishers (reports/publisher.rs, reports/publisher_endpoint.rs) and an *)
(* endpoint that may refuse a report, answer too late, or receive one that *)
(* the agent has given up.  A report holds the flows of one window, the    *)
(* number of reports that failed before it and the peak of memory usage.   *)
(* What the metadata and host statistics contribute is in HostStats.       *)
(***************************************************************************)
EXTENDS TopLoss, FiniteSets, Functions

CONSTANTS Flows,
          top_k,         \* most flows of a report
          log_reports,   \* whether reports are logged too
          MaxBytes,      \* bound: bytes transferred per flow
          MaxLossEvents, \* bound: retransmissions
          MaxReports,    \* bound: reports built
          Usages         \* memory usages that a sample may find

ASSUME ReportAssumption == top_k \in Nat /\ Usages \subseteq Nat

VARIABLES
  flow_cache,            \* statistics of the flows in the current window
  failed_reports_count,
  usage_stats,           \* peak of the samples since the last report
  report_pc,             \* "idle", "request", "wait" or "publish_done"
  report,                \* the report being published
  success,               \* what the publishers have said of it so far
  wire,                  \* requests on their way to the endpoint
  answers,               \* answers on their way back: <<seq, status>>
  received,              \* the reports that the endpoint has accepted
  logged,                \* number of reports that went to the log
  transferred,           \* history: bytes of each flow so far
  samples,               \* history: memory usages since the last report
  acked                  \* history: reports that the agent knows were accepted

report_vars == <<flow_cache, failed_reports_count, usage_stats, report_pc, report, success, wire,
                 answers, received, logged, transferred, samples, acked>>

NoLoss ==
  [retrans_syn |-> 0, retrans_est |-> 0, retrans_close |-> 0,
   rtos_syn |-> 0, rtos_est |-> 0, rtos_close |-> 0,
   severed_connect |-> 0, severed_establish |-> 0, bytes_received |-> 0, bytes_delivered |-> 0]

\* What is left of the flow cache once it has been reported.
NoFlows == [f \in {} |-> NoLoss]

\* NfmReport::new
NewReport == [seq |-> 0, failed_reports |-> 0, network_stats |-> <<>>, usage |-> 0]

ReportInit ==
  /\ flow_cache = NoFlows
  /\ failed_reports_count = 0
  /\ usage_stats = 0
  /\ report_pc = "idle"
  /\ report = NewReport
  /\ success = TRUE
  /\ wire = {} /\ answers = {} /\ received = {} /\ logged = 0
  /\ transferred = [f \in Flows |-> 0]
  /\ samples = {} /\ acked = {}

StatsOf(f) == IF f \in DOMAIN flow_cache THEN flow_cache[f] ELSE NoLoss

TotalLoss == SumFunctionOnSet([f \in DOMAIN flow_cache |-> flow_cache[f].retrans_est],
                              DOMAIN flow_cache)

-----------------------------------------------------------------------------
\* The end of every turn of the loop: a sample of the memory usage.
SampleUsage(stats) ==
  \E mem_used \in Usages :
    /\ usage_stats' = IF mem_used > stats THEN mem_used ELSE stats
    /\ samples' = samples \cup {mem_used}

\* aggregate_event: bytes and perhaps a retransmission are added to a flow.
AggregateEvent ==
  /\ report_pc = "idle"
  /\ \E f \in Flows, lost \in 0..1 :
       /\ transferred[f] < MaxBytes /\ TotalLoss + lost <= MaxLossEvents
       /\ flow_cache' =
            [g \in DOMAIN flow_cache \cup {f} |->
               IF g = f THEN [StatsOf(g) EXCEPT !.bytes_delivered = @ + 1, !.retrans_est = @ + lost]
               ELSE flow_cache[g]]
       /\ transferred' = [transferred EXCEPT ![f] = @ + 1]
  /\ SampleUsage(usage_stats)
  /\ UNCHANGED <<failed_reports_count, report_pc, report, success, wire, answers, received, logged, acked>>

usage_reset == 0

\* publish_event, up to the endpoint's publisher: the log comes before it in
\* from_options.  A hash map gives its values in any order.
PublishEvent ==
  /\ report_pc = "idle" /\ report.seq < MaxReports
  /\ \E order \in Bijection(1..Cardinality(DOMAIN flow_cache), DOMAIN flow_cache) :
       report' = [seq |-> report.seq + 1, failed_reports |-> failed_reports_count,
                  network_stats |-> filter_events([i \in DOMAIN order |->
                                      [flow |-> order[i], stats |-> flow_cache[order[i]]]], top_k),
                  usage |-> usage_stats]
  /\ flow_cache' = NoFlows
  /\ usage_stats' = usage_reset /\ samples' = {}
  /\ success' = TRUE
  /\ logged' = IF log_reports THEN logged + 1 ELSE logged
  /\ report_pc' = "request"
  /\ UNCHANGED <<failed_reports_count, wire, answers, received, transferred, acked>>

\* MultiPublisher: success &= publisher.publish(report)
combined(before, result) == before /\ result

\* What ReportPublisherOTLP::publish returns.
Published(result) ==
  /\ success' = combined(success, result)
  /\ report_pc' = "publish_done"

\* No credentials to sign with, or no connection: nothing is sent.
RequestFails ==
  /\ report_pc = "request"
  /\ Published(FALSE)
  /\ UNCHANGED <<flow_cache, failed_reports_count, usage_stats, report, wire, answers,
                 received, logged, transferred, samples, acked>>

SendRequest ==
  /\ report_pc = "request"
  /\ wire' = wire \cup {report}
  /\ report_pc' = "wait"
  /\ UNCHANGED <<flow_cache, failed_reports_count, usage_stats, report, success, answers,
                 received, logged, transferred, samples, acked>>

\* The endpoint answers 200 and keeps the report, or refuses it.
EndpointAnswers ==
  \E r \in wire, status \in {200, 500} :
    /\ wire' = wire \ {r}
    /\ received' = IF status = 200 THEN received \cup {r} ELSE received
    /\ answers' = answers \cup {<<r.seq, status>>}
    /\ UNCHANGED <<flow_cache, failed_reports_count, usage_stats, report_pc, report, success,
                   logged, transferred, samples, acked>>

RequestLost ==
  \E r \in wire :
    /\ wire' = wire \ {r}
    /\ UNCHANGED <<flow_cache, failed_reports_count, usage_stats, report_pc, report, success,
                   answers, received, logged, transferred, samples, acked>>

\* The answer to this request; every request has a connection of its own.
AnswerArrives ==
  \E a \in answers :
    /\ report_pc = "wait" /\ a[1] = report.seq
    /\ Published(a[2] = 200)
    /\ answers' = answers \ {a}
    /\ acked' = IF a[2] = 200 THEN acked \cup {report.seq} ELSE acked
    /\ UNCHANGED <<flow_cache, failed_reports_count, usage_stats, report, wire,
                   received, logged, transferred, samples>>

\* 20 seconds without an answer; the request may still be on its way.
RequestTimesOut ==
  /\ report_pc = "wait"
  /\ Published(FALSE)
  /\ answers' = {a \in answers : a[1] # report.seq}
  /\ UNCHANGED <<flow_cache, failed_reports_count, usage_stats, report, wire,
                 received, logged, transferred, samples, acked>>

\* Mutant of count_failure: a success does not reset the count.
count_failure_NotReset == IF success THEN failed_reports_count ELSE failed_reports_count + 1

count_failure == IF success THEN 0 ELSE failed_reports_count + 1

\* The rest of publish_event.
PublishDone ==
  /\ report_pc = "publish_done"
  /\ failed_reports_count' = count_failure
  /\ SampleUsage(usage_stats)
  /\ report_pc' = "idle"
  /\ UNCHANGED <<flow_cache, report, success, wire, answers, received, logged, transferred, acked>>

Agent ==
  \/ PublishEvent \/ RequestFails \/ SendRequest
  \/ AnswerArrives \/ RequestTimesOut \/ PublishDone

ReportNext == AggregateEvent \/ Agent \/ EndpointAnswers \/ RequestLost

ReportSpec == ReportInit /\ [][ReportNext]_report_vars

\* The agent's thread keeps running; the HTTP client ends every request.
ReportFairSpec == ReportSpec /\ WF_report_vars(Agent)

-----------------------------------------------------------------------------
Seqs(reports) == {r.seq : r \in reports}

\* The failed reports are all accounted for where they can be: of the reports
\* that precede one which the endpoint has, each one is there too or is among
\* the failures that some report of the endpoint admits to.
LossIsReported ==
  \A r \in received : \A s \in 1..(r.seq - 1) :
    s \in Seqs(received)
      \/ \E q \in received : q.seq - q.failed_reports <= s /\ s < q.seq

\* The other way round: no report counts one as failed that the agent knew to
\* have been accepted.
AckedNotFailed ==
  \A r \in received : \A s \in (r.seq - r.failed_reports)..(r.seq - 1) : s \notin acked

\* Both: the count of failures in the reports is honest.
FailuresAreHonest == LossIsReported /\ AckedNotFailed

\* The invariant behind it.  The endpoint can account for report s.
Accounted(s) ==
  \/ s \in Seqs(received)
  \/ \E q \in received : q.seq - q.failed_reports <= s /\ s < q.seq

\* After report n, a count of failed reports says that the last of them are not
\* known to be accepted and that the endpoint can account for those before.
Honest(n, failed) ==
  /\ \A s \in 1..(n - failed) : Accounted(s)
  /\ \A s \in (n - failed + 1)..n : s \notin acked

ReportInvariant ==
  /\ failed_reports_count \in Nat
  /\ success \in BOOLEAN
  /\ report_pc \in {"idle", "request", "wait", "publish_done"}
  /\ acked \subseteq Seqs(received) /\ acked \subseteq 1..report.seq
  /\ \A a \in answers : a[2] = 200 => a[1] \in Seqs(received)
  /\ \A r \in wire \cup received \cup {report} :
       /\ r.seq \in Nat /\ r.failed_reports \in Nat /\ r.seq <= report.seq
       /\ r.seq = report.seq => r = report
       /\ Honest(r.seq - 1, r.failed_reports)
  /\ report_pc = "idle" => Honest(report.seq, failed_reports_count)
  /\ report_pc # "idle" => report.seq > 0 /\ report.failed_reports = failed_reports_count
  /\ report_pc \in {"request", "wait"} => success /\ report.seq \notin acked
  /\ report_pc = "publish_done" => (success <=> report.seq \in acked)

\* The bytes of a flow in a report.
ReportedBytes(r, f) ==
  SumFunctionOnSet([i \in DOMAIN r.network_stats |-> total_bytes(r.network_stats[i].stats)],
                   {i \in DOMAIN r.network_stats : r.network_stats[i].flow = f})

BytesIn(reports, f) == SumFunctionOnSet([r \in reports |-> ReportedBytes(r, f)], reports)

\* What the endpoint has been told of a flow never exceeds what the flow has
\* transferred, however often a publication failed or was answered too late.
NothingReportedTwice == \A f \in Flows : BytesIn(received, f) <= transferred[f]

\* The invariant behind it: no byte is in two of the reports that exist, or in
\* one of them and in the cache.
Built == wire \cup received \cup {report}

LossStats ==
  [retrans_syn : Nat, retrans_est : Nat, retrans_close : Nat,
   rtos_syn : Nat, rtos_est : Nat, rtos_close : Nat,
   severed_connect : Nat, severed_establish : Nat, bytes_received : Nat, bytes_delivered : Nat]

BytesInvariant ==
  /\ IsFiniteSet(DOMAIN flow_cache) /\ DOMAIN flow_cache \subseteq Flows
  /\ flow_cache \in [DOMAIN flow_cache -> LossStats]
  /\ transferred \in [Flows -> Nat]
  /\ IsFiniteSet(Built)
  /\ \A f \in Flows :
       /\ \A r \in Built : ReportedBytes(r, f) \in Nat
       /\ BytesIn(Built, f) + StatsOf(f).bytes_received + StatsOf(f).bytes_delivered <= transferred[f]

\* "We'll publish the highest mem usage during the report period": the peak
\* covers the samples since the last report, and only those.
PeakOfThePeriod ==
  IF samples = {} THEN usage_stats = 0
  ELSE usage_stats \in samples /\ \A x \in samples : x <= usage_stats

\* Reports that were lost are admitted to in one that arrives, those known to be
\* accepted are not called failed, no byte is in two reports, and the usage in a
\* report is the peak of its own period.
ReportsAreHonest ==
  /\ ReportInvariant /\ FailuresAreHonest
  /\ BytesInvariant /\ NothingReportedTwice
  /\ samples \subseteq Usages /\ PeakOfThePeriod

\* A publication always comes to an end and the loop goes on, whatever becomes
\* of the request.
PublishEnds == report_pc # "idle" ~> report_pc = "idle"
=============================================================================
