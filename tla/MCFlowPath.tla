----------------------------- MODULE MCFlowPath -----------------------------
(***************************************************************************)
(* Instances for TLC of the modules between the kernel's events and the    *)
(* bytes of a report.  The modules do not share state here: component says *)
(* which of them a behaviour is of.  NatResolver, TopLossLists and         *)
(* ReportCycle have their own variables, so that their properties are      *)
(* checked as they are stated and proved; the other modules are            *)
(* instantiated on the variables s1 to s10.                                *)
(***************************************************************************)
EXTENDS NatResolver, TopLossLists, ReportCycle, FiniteSets, TLC

CONSTANTS a,          \* a client outside the VPC
          p,          \* a pod with an address of the VPC
          service,    \* a virtual address that DNAT replaces
          b1, b2,     \* the backends
          node,       \* the address that SNAT puts in
          v6,         \* an IPv6 address
          c1, c2,     \* CPUs
          f1, f2,     \* flows
          e1,         \* a network interface
          Idle        \* the value of a variable that the component does not have

VARIABLES component,
          s1, s2, s3, s4, s5, s6, s7, s8, s9, s10

slots == <<s1, s2, s3, s4, s5, s6, s7, s8, s9, s10>>
mcVars == <<component, natVars, listsVars, report_vars, slots>>

\* The slots after the first n are idle, and stay so.
IdleAfter(n) ==
  /\ IF n < 2 THEN s1 = Idle /\ s2 = Idle ELSE TRUE
  /\ IF n < 8 THEN s3 = Idle /\ s4 = Idle /\ s5 = Idle /\ s6 = Idle /\ s7 = Idle /\ s8 = Idle ELSE TRUE
  /\ IF n < 10 THEN s9 = Idle /\ s10 = Idle ELSE TRUE

StayAfter(n) ==
  /\ IF n < 2 THEN UNCHANGED <<s1, s2>> ELSE TRUE
  /\ IF n < 8 THEN UNCHANGED <<s3, s4, s5, s6, s7, s8>> ELSE TRUE
  /\ IF n < 10 THEN UNCHANGED <<s9, s10>> ELSE TRUE

-----------------------------------------------------------------------------
\* NAT: what conntrack says, and the sockets that are looked up.
Tuple(src, sport, dst, dport, protocol) ==
  [src_ip |-> src, dst_ip |-> dst, src_port |-> sport, dst_port |-> dport, protocol |-> protocol]

Msg(original, reply) == [original |-> original, reply |-> reply]

\* Any translation of any connection.
AnyMessage ==
  {Msg(Tuple(src, 1, service, 2, "tcp"), Tuple(rsrc, rsport, rdst, rdport, "tcp")) :
     src \in {a, p}, rsrc \in {service, b1}, rdst \in {a, p, node}, rsport \in {2, 3}, rdport \in {1, 3}}
  \cup {Msg(Tuple(a, 1, service, 2, "udp"), Tuple(b1, 2, a, 1, "udp")), Unparsable}

\* A connection that is NATed to one backend and, its tuple reused, to another.
ReusedTuple ==
  {Msg(Tuple(a, 1, service, 2, "tcp"), Tuple(b1, 2, a, 1, "tcp")),
   Msg(Tuple(a, 1, service, 2, "tcp"), Tuple(b2, 2, a, 1, "tcp"))}

\* A connection that SNAT changes too, one without NAT.
SnatAndNone ==
  {Msg(Tuple(p, 1, service, 2, "tcp"), Tuple(b1, 2, node, 3, "tcp")),
   Msg(Tuple(a, 1, b1, 2, "tcp"), Tuple(b1, 2, a, 1, "tcp"))}

Ctx(local, lport, remote, rport, family, is_client) ==
  [local_ip |-> local, local_port |-> lport, remote_ip |-> remote, remote_port |-> rport,
   address_family |-> family, is_client |-> is_client]

MCMessages == AnyMessage \cup ReusedTuple \cup SnatAndNone
MCVpcIps == {p}
MCIps == {a, p, service, b1, b2, node}
MCIpv6s == {v6}

\* A client over IPv4, one over a mapped IPv6 address, and a backend as server.
MCContext ==
  <<Ctx(a, 1, service, 2, 4, TRUE),
    Ctx(Mapped(p), 1, Mapped(service), 2, 6, TRUE),
    Ctx(b1, 2, p, 1, 4, FALSE)>>

MCConnection ==
  <<Tuple(a, 1, service, 2, "tcp"), Tuple(p, 1, service, 2, "tcp"), Tuple(b1, 2, p, 1, "tcp")>>

\* The resolver with some of the messages and sockets.
Ring == INSTANCE NatResolver WITH Messages <- ReusedTuple, Socks <- {1}
Snat == INSTANCE NatResolver WITH Messages <- SnatAndNone, Socks <- {2, 3}

-----------------------------------------------------------------------------
\* Statistics near the limits of a small integer.
MCStats ==
  {[retrans_syn |-> r, retrans_est |-> r, retrans_close |-> 0,
    rtos_syn |-> t, rtos_est |-> 0, rtos_close |-> 0,
    severed_connect |-> s, severed_establish |-> 0,
    bytes_received |-> b, bytes_delivered |-> b] : r, t, s, b \in {0, 4}}

\* Fewer bytes and no losses, but more reports.
Retries == INSTANCE ReportCycle WITH
  MaxBytes <- 1, MaxLossEvents <- 0, MaxReports <- 3, Usages <- {1}

-----------------------------------------------------------------------------
\* Flow statistics: SYNs and their retransmissions, and RTTs.
Connects == INSTANCE FlowStats WITH
  Cpus <- {c1, c2}, Rtts <- {<<2, 16>>}, CtxSrtt <- 2, MaxTime <- 2,
  MaxRtts <- 0, MaxRetrans <- 1, MaxSevered <- 2,
  now_us <- s1, tcp_state <- s2, NFM_SK_STATS <- s3, agg_stats <- s4, flow <- s5,
  syns <- s6, took <- s7, published <- s8

RttSamples == INSTANCE FlowStats WITH
  Cpus <- {c1, c2}, Rtts <- {<<0, 0>>, <<3, 7>>}, CtxSrtt <- 2, MaxTime <- 2,
  MaxRtts <- 2, MaxRetrans <- 0, MaxSevered <- 1,
  now_us <- s1, tcp_state <- s2, NFM_SK_STATS <- s3, agg_stats <- s4, flow <- s5,
  syns <- s6, took <- s7, published <- s8

Keys == INSTANCE FlowKey WITH
  Base <- 3, WordBytes <- 2, Ipv6Words <- 2, MaxSocks <- 2, sockets <- s1, flow_cache <- s2

Otlp == INSTANCE ReportOtlp WITH
  Half <- 16, Exact <- 8, Ulps <- {1, 2, 4}, Numbers <- {7, 31}, Bytes <- {7, 11, 31},
  Enis <- {e1}, MaxFlows <- 1, MaxUsage <- 2,
  network_stats <- s1, usage <- s2, interface_stats <- s3, event_related <- s4,
  process_related <- s5, failed_reports <- s6, k8s_metadata <- s7, resource <- s8,
  scope_metrics <- s9, pc <- s10

-----------------------------------------------------------------------------
Init ==
  /\ component \in {"listener", "ring", "snat", "connects", "rtts", "keys", "lists", "reports",
                   "retries", "otlp"}
  /\ NatInit /\ ReportInit
  /\ IF component = "lists" THEN ListsInit ELSE list = <<>> /\ kept = <<>> /\ done = FALSE
  /\ \/ component \in {"listener", "ring", "snat", "lists", "reports", "retries"} /\ IdleAfter(0)
     \/ component = "connects" /\ Connects!Init /\ IdleAfter(8)
     \/ component = "rtts" /\ RttSamples!Init /\ IdleAfter(8)
     \/ component = "keys" /\ Keys!Init /\ IdleAfter(2)
     \/ component = "otlp" /\ Otlp!Init /\ IdleAfter(10)

ResolverNext ==
  /\ \/ /\ component = "listener" /\ ListenerNext
        /\ UNCHANGED <<conntrack_ringbuf, ringbuf_index, aggregating, context_external, since>>
     \/ component = "ring" /\ Ring!NatNext
     \/ component = "snat" /\ Snat!NatNext
  /\ UNCHANGED <<listsVars, report_vars, slots>>

ReportsNext ==
  /\ \/ component = "reports" /\ ReportNext
     \/ component = "retries" /\ Retries!ReportNext
  /\ UNCHANGED <<natVars, listsVars, slots>>

SlotNext ==
  /\ \/ component = "connects" /\ Connects!Next /\ StayAfter(8)
     \/ component = "rtts" /\ RttSamples!Next /\ StayAfter(8)
     \/ component = "keys" /\ Keys!Next /\ StayAfter(2)
     \/ component = "otlp" /\ Otlp!Next /\ StayAfter(10)
  /\ UNCHANGED <<natVars, listsVars, report_vars>>

Next ==
  /\ \/ ResolverNext
     \/ component = "lists" /\ Filter /\ UNCHANGED <<natVars, report_vars, slots>>
     \/ ReportsNext
     \/ SlotNext
  /\ UNCHANGED component

Spec == Init /\ [][Next]_mcVars

Symmetry == Permutations({c1, c2}) \cup Permutations({f1, f2})

-----------------------------------------------------------------------------
\* FlowStats: the reported connection attempts are the SYNs that were sent and a
\* connect time is observed once, whichever CPU, cycle and window they fall in;
\* the order in which the BPF map is iterated does not matter to the statistics
\* of a socket, a CPU's old RTTs are left out of them, and the histograms of a
\* flow are consistent.
MeasuredOnce ==
  /\ component = "connects" => Connects!AttemptsAreSyns /\ Connects!ConnectObservedOnce
  /\ component = "rtts" =>
       /\ RttSamples!MergeOrderIrrelevant /\ RttSamples!StaleRttsLeftOut
       /\ RttSamples!HistogramsConsistent

\* FlowKey: the flow of a socket names the socket's own endpoints, and sockets
\* share labels exactly when they are connections of the same hosts to the same
\* service.
FlowsNameTheirSockets ==
  component = "keys" => Keys!NamesEndpoints /\ Keys!OneFlowPerService

\* ReportOtlp: the flows of a report are in the request, each with its
\* statistics, with the latest usage and a platform that fits its Kubernetes
\* attributes; a flow's numbers keep the precision of an f64, and no other number
\* loses bits.
NumbersArrive ==
  component = "otlp" =>
    Otlp!FlowsArrive /\ Otlp!LatestUsageArrives /\ Otlp!PlatformFits /\ Otlp!SumsKeepTheirBits
=============================================================================
