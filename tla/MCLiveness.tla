----------------------------- MODULE MCLiveness -----------------------------
(***************************************************************************)
(* Instances for TLC of the modules with something that must happen in the *)
(* end: the timer of the main loop (this module extends EventTimer), the   *)
(* publication of a report, the thread of the metrics server, the watchers *)
(* of the cluster and the clients of the load generator.  component says   *)
(* which of them a behaviour is of; the others stay as they start.         *)
(***************************************************************************)
EXTENDS EventTimer, TLC

CONSTANTS f1,                          \* ReportCycle
          c1, c2, NoHandle, NoClient,  \* OpenMetricsServer
          web, hostA, svc, ip1, ip2, NoInfo, \* KubernetesMetadata
          t1, t2, t3, p1, p2, NoPort   \* LoadGenerator

VARIABLES component,
          flow_cache, failed_reports_count, usage_stats, report_pc, report, success, wire,
          answers, received, logged, transferred, samples, acked,
          handle, owner, joining, threads, state, token, tokenOf, cancelled, backlog, serving,
          asked, answered, refused, server_errors,
          created, live, slices, pod_stream, slice_stream, pod_info, metadata, changes, breaks,
          reports,
          stage, port, socket_config, flow_config, sent, rounds, unread, dropped

reportVars == <<flow_cache, failed_reports_count, usage_stats, report_pc, report, success, wire,
                answers, received, logged, transferred, samples, acked>>
serverVars == <<handle, owner, joining, threads, state, token, tokenOf, cancelled, backlog,
                serving, asked, answered, refused, server_errors>>
clusterVars == <<created, live, slices, pod_stream, slice_stream, pod_info, metadata, changes,
                 breaks, reports>>
loadVars == <<stage, port, socket_config, flow_config, sent, rounds, unread, dropped>>
mcVars == <<component, vars, reportVars, serverVars, clusterVars, loadVars>>

\* Aggregation, publication with jitter, and NAT resolution with its delay.
MCPeriod == <<5, 7, 4>>
MCJitter == <<0, 2, 0>>
MCDelay == <<0, 0, 2>>

\* The same events with handlers that take longer than the periods.
Late == INSTANCE EventTimer WITH MaxWork <- 4

\* A publication whose jitter is longer than its period, as the options allow,
\* on a host that has just booted or is about to be safe.
Jittery == INSTANCE EventTimer WITH
  Period <- <<3, 1, 2>>, Jitter <- <<0, 5, 0>>, BootTimes <- {0, 3, 4, 9}, SafeUptime <- 5, MaxOversleep <- 0

Report == INSTANCE ReportCycle WITH
  MaxU32 <- 100, MaxU64 <- 100, Flows <- {f1}, top_k <- 1, log_reports <- TRUE, MaxBytes <- 1,
  MaxLossEvents <- 1, MaxReports <- 3, Usages <- {1}

Server == INSTANCE OpenMetricsServer WITH
  Clients <- {c1, c2}, MaxStarts <- 3, MaxRequests <- 1, MaxServerErrors <- 1

Cluster == INSTANCE KubernetesMetadata WITH
  Pods <- {web, hostA}, NameOf <- [q \in {web, hostA} |-> q], IpOf <- web :> ip1 @@ hostA :> ip2,
  TcpPorts <- web :> {80, 81} @@ hostA :> {80}, Services <- {svc}, ServicePort <- svc :> 80,
  Flows <- {}, Deletes <- FALSE, Shrinks <- FALSE, MaxChanges <- 2, MaxBreaks <- 1,
  MaxReports <- 0

Load == INSTANCE LoadGenerator WITH
  Clients <- {t1, t2, t3}, Ports <- {p1, p2}, Count <- 1, Attempts <- t1 :> 2 @@ t2 :> 2 @@ t3 :> 1,
  Rounds <- 2, Packet <- 3, Unread <- 2, Buffers <- t1 :> 5 @@ t2 :> 4 @@ t3 :> 5, backlog <- unread

-----------------------------------------------------------------------------
MCInit ==
  /\ component \in {"timer", "late", "jittery", "report", "server", "cluster", "load"}
  /\ IF component = "jittery" THEN Jittery!Init
     ELSE Init /\ (component \notin {"timer", "late"} => uptime = 0)
  /\ Report!ReportInit /\ Server!ServerInit /\ Cluster!Init /\ Load!Init

MCNext ==
  /\ UNCHANGED component
  /\ \/ component = "timer" /\ Next /\ UNCHANGED <<reportVars, serverVars, clusterVars, loadVars>>
     \/ component = "late" /\ Late!Next /\ UNCHANGED <<reportVars, serverVars, clusterVars, loadVars>>
     \/ component = "jittery" /\ Jittery!Next /\ UNCHANGED <<reportVars, serverVars, clusterVars, loadVars>>
     \/ component = "report" /\ Report!ReportNext /\ UNCHANGED <<vars, serverVars, clusterVars, loadVars>>
     \/ component = "server" /\ Server!ServerNext /\ UNCHANGED <<vars, reportVars, clusterVars, loadVars>>
     \/ component = "cluster" /\ Cluster!Next /\ UNCHANGED <<vars, reportVars, serverVars, loadVars>>
     \/ component = "load" /\ Load!Next /\ UNCHANGED <<vars, reportVars, serverVars, clusterVars>>

\* The fairness of each module, as its FairSpec states it.
MCFairness ==
  /\ WF_vars(component = "timer" /\ Step)
  /\ WF_vars(component = "late" /\ Late!Step)
  /\ WF_reportVars(component = "report" /\ Report!Agent)
  /\ WF_serverVars(component = "server" /\ Server!StopReturns)
  /\ \A t \in 1..3 :
       /\ WF_serverVars(component = "server" /\ Server!Bind(t))
       /\ WF_serverVars(component = "server" /\ Server!Accept(t))
       /\ WF_serverVars(component = "server" /\ Server!HandleRequest(t))
       /\ WF_serverVars(component = "server" /\ Server!ConnectionCancelled(t))
       /\ SF_serverVars(component = "server" /\ Server!Cancelled(t))
  /\ WF_clusterVars(component = "cluster" /\ Cluster!HandlePodEvent)
  /\ WF_clusterVars(component = "cluster" /\ Cluster!HandleEndpointSliceEvent)
  /\ \A t \in {t1, t2, t3} : WF_loadVars(component = "load" /\ Load!Client(t))

MCSpec == MCInit /\ [][MCNext]_mcVars /\ MCFairness

-----------------------------------------------------------------------------
\* EventTimer and ReportCycle: the main loop goes on.  Every event is handled
\* again and again, with handlers slower than the periods too, and then none
\* waits for more than one round of all of them, and those that a long jitter puts
\* ahead of it; with such a jitter scheduling can fail only at the start; when
\* handlers leave the loop time to sleep, a signal ends the agent; a publication
\* always ends.
MainLoopGoesOn ==
  /\ [](component = "jittery" => Jittery!TimerInvariant /\ Jittery!BoundedLateness)
  /\ [](component \in {"timer", "late"} => TimerInvariant)
  /\ [](component = "timer" => BoundedLateness) /\ [](component = "late" => Late!BoundedLateness)
  /\ component \in {"timer", "late"} => EveryEventHandled
  /\ component = "timer" => SignalEndsAgent
  /\ Report!PublishEnds

\* OpenMetricsServer: there is one server at a time, it goes away only when it is
\* stopped, and stop and drop come to an end although clients never close their
\* connections.
ServerStops ==
  [](Server!OneServer /\ Server!EndsWhenStopped /\ Server!ServerInvariant) /\ Server!StopEnds

\* KubernetesMetadata: a pod that keeps its address is known sooner or later,
\* also when the watch breaks.
PodsBecomeKnown == Cluster!PodsBecomeKnown

\* LoadGenerator: a client that TCP can connect sends its data and closes, unless
\* what it leaves unread fills the buffers, and no more packets are dropped than
\* the configuration says.
ClientsFinish ==
  [](Load!DropsWithinBudget) /\ (component = "load" => Load!ClientsFinish)
=============================================================================
