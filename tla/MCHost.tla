------------------------------- MODULE MCHost -------------------------------
(***************************************************************************)
(* Instances for TLC of the modules that deal with the host and the        *)
(* cluster around the agent.  The modules do not share state here:         *)
(* component says which of them a behaviour is of.  Startup, CpuUsage and  *)
(* SystemMetrics have their own variables, so that their properties are    *)
(* checked as they are stated and proved; the other modules are            *)
(* instantiated on the variables s1 to s18.                                *)
(***************************************************************************)
EXTENDS Startup, CpuUsage, SystemMetrics, Sequences, FiniteSets, TLC

CONSTANTS eth0, eth1, veth, eni0, eni1, Unknown,   \* HostStats, SystemMetrics
          web, hostA, hostB, hostC, svc, ip1, ip2, NoInfo, \* KubernetesMetadata
          pod1, pod2,   \* InterfaceMetrics
          con1, con2,   \* ReportVerifier
          Idle          \* the value of a variable that the component does not have

VARIABLES component, s1, s2, s3, s4, s5, s6, s7, s8, s9, s10, s11, s12, s13, s14, s15,
          s16, s17, s18

slots == <<s1, s2, s3, s4, s5, s6, s7, s8, s9, s10, s11, s12, s13, s14, s15, s16,
           s17, s18>>
mcVars == <<component, startVars, usageVars, metrics_vars, slots>>

\* The slots after the first n are idle, and stay so.
IdleAfter(n) ==
  /\ IF n < 4 THEN s1 = Idle /\ s2 = Idle /\ s3 = Idle /\ s4 = Idle ELSE TRUE
  /\ IF n < 7 THEN s5 = Idle /\ s6 = Idle /\ s7 = Idle ELSE TRUE
  /\ IF n < 8 THEN s8 = Idle ELSE TRUE
  /\ IF n < 10 THEN s9 = Idle /\ s10 = Idle ELSE TRUE
  /\ IF n < 12 THEN s11 = Idle /\ s12 = Idle ELSE TRUE
  /\ IF n < 13 THEN s13 = Idle ELSE TRUE
  /\ IF n < 18 THEN s14 = Idle /\ s15 = Idle /\ s16 = Idle /\ s17 = Idle /\ s18 = Idle ELSE TRUE

StayAfter(n) ==
  /\ IF n < 7 THEN UNCHANGED <<s5, s6, s7>> ELSE TRUE
  /\ IF n < 8 THEN UNCHANGED s8 ELSE TRUE
  /\ IF n < 10 THEN UNCHANGED <<s9, s10>> ELSE TRUE
  /\ IF n < 12 THEN UNCHANGED <<s11, s12>> ELSE TRUE
  /\ IF n < 13 THEN UNCHANGED s13 ELSE TRUE
  /\ IF n < 18 THEN UNCHANGED <<s14, s15, s16, s17, s18>> ELSE TRUE

-----------------------------------------------------------------------------
\* One interface with a history at the start of the agent, another that may
\* come, and a virtual device that shares a MAC address.
Nics == INSTANCE HostStats WITH
  Names <- {eth0, eth1, veth}, Enis <- {eni0, eni1},
  IsVirtual <- [n \in {eth0, eth1, veth} |-> n = veth],
  Faults <- {"imds", "interface_id", "machine_id", "ip", "virtual", "first_read", "read"}, HotUnplug <- "between",
  MaxFaults <- 1, MaxChanges <- 2, MaxCount <- 2,
  Boot <- eth0 :> [eni |-> eni0, count |-> 2], Modulus <- 16,
  nics <- s1, identity <- s2, network <- s3, network_interface_stats <- s4, latest <- s5,
  todo <- s6, pc <- s7, faults <- s8, changes <- s9, grown <- s10, reported <- s11, missed <- s12,
  excess <- s13

\* What the agent of the other components is started with.
MCNoOptions == [resolve_nat |-> FALSE, open_metrics |-> FALSE, kubernetes_metadata |-> FALSE]
MCSmallHost == [version |-> <<5, 8>>, mem_total |-> 0]

Cidrs == INSTANCE VpcCidr WITH
  Width <- 3, MaxPrefix <- 4, MaxLines <- 2,
  macs <- s1, blocks <- s2, vpc_cidrs <- s3, pc <- s4

\* web declares the port of its service and another one; of the three pods of the
\* host network two have no ports, and one of these has the name of the third.
PodSet == {web, hostA, hostB, hostC}
PodIps == [q \in PodSet |-> IF q = web THEN ip1 ELSE ip2]
PodNames == [q \in PodSet |-> IF q = hostC THEN hostA ELSE q]
PodPorts == [q \in PodSet |-> IF q = web THEN {80, 81} ELSE IF q = hostA THEN {80} ELSE {}]
PodFlows ==
  {[client |-> TRUE, local |-> hostB, remote |-> web, port |-> 80, mapped |-> TRUE],
   [client |-> FALSE, local |-> web, remote |-> hostA, port |-> 80, mapped |-> FALSE]}

Labels == INSTANCE KubernetesMetadata WITH
  Pods <- PodSet, NameOf <- PodNames, IpOf <- PodIps, TcpPorts <- PodPorts, Services <- {svc},
  ServicePort <- svc :> 80, Flows <- PodFlows, Deletes <- FALSE, Shrinks <- FALSE,
  MaxChanges <- 2, MaxBreaks <- 1, MaxReports <- 1,
  created <- s1, live <- s2, slices <- s3, pod_stream <- s4, slice_stream <- s5,
  pod_info <- s6, metadata <- s7, changes <- s8, breaks <- s9, reports <- s10

\* The same pods, created and deleted, without reports.
Deletions == INSTANCE KubernetesMetadata WITH
  Pods <- PodSet, NameOf <- PodNames, IpOf <- PodIps, TcpPorts <- PodPorts, Services <- {svc},
  ServicePort <- svc :> 80, Flows <- {}, Deletes <- TRUE, Shrinks <- TRUE,
  MaxChanges <- 3, MaxBreaks <- 0, MaxReports <- 0,
  created <- s1, live <- s2, slices <- s3, pod_stream <- s4, slice_stream <- s5,
  pod_info <- s6, metadata <- s7, changes <- s8, breaks <- s9, reports <- s10

Interfaces == INSTANCE InterfaceMetrics WITH
  Pods <- {pod1, pod2}, Physical <- {eth0},
  Carried <- {"egress_bytes", "ingress_flow"},
  MaxTraffic <- 2, MaxChanges <- 2, MaxFaults <- 1, MaxUpdates <- 3,
  netns <- s1, up <- s2, traffic <- s3, known <- s4, pc <- s5, ns_info <- s6, pod_info <- s7,
  links <- s8, current_metrics <- s9, gauges <- s10, reported <- s11, base <- s12,
  faults <- s13, changes <- s14, updates <- s15, fresh <- s16, crossed <- s17, remembered <- s18

MCLatency == con1 :> 2 @@ con2 :> 3

Verifier == INSTANCE ReportVerifier WITH
  Conns <- {con1, con2}, ExpectedCount <- 2, MinLatency <- 2, LossTenths <- 0, Fabric <- "K8s",
  Latency <- MCLatency, PublishSecs <- 2, JitterSecs <- 1, Grace <- 1, MaxEarly <- 1,
  stage <- s1, window <- s2, log <- s3, due <- s4, elapsed <- s5, result <- s6, whole <- s7,
  ready <- s8

-----------------------------------------------------------------------------
Init ==
  /\ component \in {"start", "devices", "readers", "cidrs", "cpu", "labels", "deletions",
                   "interfaces", "verifier"}
  /\ StartInit /\ (component # "start" => opt = MCNoOptions /\ host = MCSmallHost)
  /\ UsageInit /\ (component # "cpu" => boot = 0 /\ ~unread)
  /\ MetricsInit /\ (component # "readers" => network = [r \in Readers |-> {}])
  /\ \/ component \in {"start", "readers", "cpu"} /\ IdleAfter(0)
     \/ component = "devices" /\ Nics!Init /\ IdleAfter(13)
     \/ component = "cidrs" /\ Cidrs!Init /\ IdleAfter(4)
     \/ component = "labels" /\ Labels!Init /\ IdleAfter(10)
     \/ component = "deletions" /\ Deletions!Init /\ IdleAfter(10)
     \/ component = "interfaces" /\ Interfaces!Init
     \/ component = "verifier" /\ Verifier!Init /\ IdleAfter(8)

OwnNext ==
  /\ \/ component = "start" /\ StartNext /\ UNCHANGED <<usageVars, metrics_vars>>
     \/ component = "cpu" /\ UsageNext /\ UNCHANGED <<startVars, metrics_vars>>
     \/ component = "readers" /\ MetricsNext /\ UNCHANGED <<startVars, usageVars>>
  /\ UNCHANGED slots

SlotNext ==
  /\ \/ component = "devices" /\ Nics!Next /\ StayAfter(13)
     \/ component = "cidrs" /\ Cidrs!Next /\ StayAfter(4)
     \/ component = "labels" /\ Labels!Next /\ StayAfter(10)
     \/ component = "deletions" /\ Deletions!Next /\ StayAfter(10)
     \/ component = "interfaces" /\ Interfaces!Next
     \/ component = "verifier" /\ Verifier!Next /\ StayAfter(8)
  /\ UNCHANGED <<startVars, usageVars, metrics_vars>>

Next == (OwnNext \/ SlotNext) /\ UNCHANGED component

Spec == Init /\ [][Next]_mcVars

-----------------------------------------------------------------------------
\* HostStats: a delta is what an interface counted between two reports, the
\* deltas add up to what it counted, and no virtual device is read; what
\* identifies the host does not change once it is known.
DeltasAreGrowth ==
  [][component = "devices" =>
       /\ Nics!DeltasAreGrowth' /\ Nics!DeltasAddUp' /\ Nics!NoVirtualDevice'
       /\ Nics!IdentityStep]_mcVars

\* VpcCidr: an address is in the VPC exactly when it is in one of the blocks
\* that the metadata service printed.
DecidesMembership == component = "cidrs" => Cidrs!DecidesMembership

\* KubernetesMetadata: once the watchers have caught up, the map of addresses
\* and ports says of each service port what the cluster says, and the ports that
\* no service has follow the pods; a flow is labelled with its own pods or not at
\* all, up to the pods at one address that the map does not tell apart.
LabelsFollowCluster ==
  [][/\ component = "labels" => Labels!LabelStep /\ Labels!ConvergesToCluster'
     /\ component = "deletions" => Deletions!PlainPortsFollowPods']_mcVars

\* InterfaceMetrics: a gauge is labelled with the pod whose interface was
\* measured, unless the interface was created during the update with the namespace
\* id of a pod deleted during it; no delta wraps, the deltas cover what the pod's
\* interface counted, and without failing sources or wrong labels are no more.
GaugesAreTraffic ==
  component = "interfaces" =>
    /\ Interfaces!LabelsMatch /\ Interfaces!NoWrap
    /\ Interfaces!DeltasAreTraffic /\ Interfaces!DeltasCoverTraffic

\* ReportVerifier: the reports merge into one report of everything, the verifier
\* passes only when everything expected is there, and finds what is there in
\* time.
VerdictIsRight ==
  component = "verifier" =>
    Verifier!MergeIsWhole /\ Verifier!PassMeansAll /\ Verifier!FoundInTime
=============================================================================
