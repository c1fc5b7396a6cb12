----------------------------- MODULE FlowStats -----------------------------
(***************************************************************************)
(* The measurements that EventProvider leaves out: round-trip times,       *)
(* connect times, connection attempts and severed connections, from the    *)
(* handlers (sock_ops_handler.rs) over the merge of a socket's CPUs        *)
(* (network.rs) and the socket cache into a flow (network_event.rs).       *)
(* One socket on several CPUs is enough: sockets meet only in the flow,    *)
(* and a flow adds up what it is given.  An aggregation cycle is one step; *)
(* its interleaving with the handlers is the subject of EventProvider.     *)
(***************************************************************************)
EXTENDS Naturals, FiniteSets, FiniteSetsExt, SequencesExt, TLC

CONSTANTS Cpus,
          Rtts,        \* pairs of RTTs that the kernel may pass, measured and smoothed; 0 for none
          CtxSrtt,     \* the smoothed RTT of the sock-ops structure
          MaxTime,     \* bound: the clock
          MaxRtts,     \* bound: RTT callbacks
          MaxRetrans,  \* bound: segments retransmitted before the connection is open
          MaxSevered   \* bound: how often a severed connection is counted

VARIABLES
  now_us,       \* the clock
  tcp_state,    \* the socket's state
  NFM_SK_STATS, \* the socket's statistics on each CPU that handled it
  agg_stats,    \* the cached statistics of the last cycle
  flow,         \* the statistics of the socket's flow in this publishing window
  syns,         \* history: SYN segments that the socket sent
  took,         \* history: opening and establishment of the connection
  published     \* history: what the reports so far add up to

vars == <<now_us, tcp_state, NFM_SK_STATS, agg_stats, flow,
          syns, took, published>>

history == <<syns, took, published>>

DefaultStats ==
  [last_touched_us |-> 0, connect_start_us |-> 0, connect_end_us |-> 0,
   rtt_count |-> 0, rtt_latest_us |-> 0, rtt_smoothed_us |-> 0,
   retrans_syn |-> 0, connect_attempts |-> 0, connect_successes |-> 0,
   state_flags |-> {}]

\* MetricHistogram
NoSamples == [count |-> 0, min |-> 0, max |-> 0, sum |-> 0]

\* NetworkStats: one of the levels is enough, EventProvider has the others.
EmptyFlow ==
  [severed_connect |-> 0, severed_establish |-> 0, connect_attempts |-> 0,
   retrans_syn |-> 0, connect_us |-> NoSamples, rtt_us |-> NoSamples,
   rtt_smoothed_us |-> NoSamples]

Init ==
  /\ now_us = 1
  /\ tcp_state = "NEW"
  /\ NFM_SK_STATS = <<>>
  /\ agg_stats = DefaultStats
  /\ flow = EmptyFlow
  /\ syns = 0
  /\ took = [from |-> 0, to |-> 0]
  /\ published = [severed |-> 0, attempts |-> 0, connects |-> 0]

-----------------------------------------------------------------------------
max(a, b) == IF a > b THEN a ELSE b

min_non_zero(a, b) ==
  IF a > 0 /\ b > 0 THEN (IF a < b THEN a ELSE b) ELSE max(a, b)

\* SockStats::add_from: one CPU's statistics join those of the others.
add_from(self, other, last_agg_timestamp) ==
  LET newer == other.last_touched_us >= last_agg_timestamp
      both == newer /\ self.last_touched_us >= last_agg_timestamp
  IN  [last_touched_us |-> max(self.last_touched_us, other.last_touched_us),
       connect_start_us |-> max(self.connect_start_us, other.connect_start_us),
       connect_end_us |-> max(self.connect_end_us, other.connect_end_us),
       state_flags |-> self.state_flags \cup other.state_flags,
       rtt_latest_us |-> IF both THEN min_non_zero(self.rtt_latest_us, other.rtt_latest_us)
                         ELSE IF newer THEN other.rtt_latest_us ELSE self.rtt_latest_us,
       rtt_smoothed_us |-> IF both THEN max(self.rtt_smoothed_us, other.rtt_smoothed_us)
                           ELSE IF newer THEN other.rtt_smoothed_us ELSE self.rtt_smoothed_us,
       rtt_count |-> self.rtt_count + other.rtt_count,
       retrans_syn |-> self.retrans_syn + other.retrans_syn,
       connect_attempts |-> self.connect_attempts + other.connect_attempts,
       connect_successes |-> self.connect_successes + other.connect_successes]

\* aggregate_sock_stats, when the map is iterated in the order of cpus.
aggregate_sock_stats(cpus) ==
  FoldLeft(LAMBDA agg, c : add_from(agg, NFM_SK_STATS[c], agg_stats.last_touched_us),
           DefaultStats, cpus)

\* SockStats::subtract: levels stay, counters become deltas.
subtract(self, rhs) ==
  [self EXCEPT !.rtt_count = @ - rhs.rtt_count,
               !.retrans_syn = @ - rhs.retrans_syn,
               !.connect_attempts = @ - rhs.connect_attempts,
               !.connect_successes = @ - rhs.connect_successes]

\* SockStats::connect_us, 0 for None.
connect_us(stats) ==
  IF stats.connect_start_us > 0 /\ stats.connect_end_us > stats.connect_start_us
  THEN stats.connect_end_us - stats.connect_start_us ELSE 0

\* n observations of a value in a histogram.
Observe(hist, n, value) ==
  [count |-> hist.count + n, min |-> min_non_zero(hist.min, value),
   max |-> max(hist.max, value), sum |-> hist.sum + value]

\* Mutant of connect_observed: connects are observed in every cycle.
connect_observed_Always(hist, stats) ==
  IF connect_us(stats) > 0 THEN Observe(hist, 1, connect_us(stats)) ELSE hist

connect_observed(hist, stats) ==
  IF stats.connect_successes > 0 /\ connect_us(stats) > 0
  THEN Observe(hist, stats.connect_successes, connect_us(stats)) ELSE hist

rtt_observed(hist, stats, value) ==
  IF stats.rtt_count > 0 /\ value > 0 THEN Observe(hist, 1, value) ELSE hist

\* update_sock_counters, as far as it counts severed connections.
Severed(stats, from) == {"STARTED_CLOSURE", from} \subseteq stats.state_flags

\* NetworkStats::add_from of a socket's delta.
add_to_flow(f, stats) ==
  [severed_connect |-> f.severed_connect
     + (IF Severed(stats, "TERMINATED_FROM_SYN") THEN 1 ELSE 0),
   severed_establish |-> f.severed_establish
     + (IF Severed(stats, "TERMINATED_FROM_EST") /\ ~Severed(stats, "TERMINATED_FROM_SYN")
        THEN 1 ELSE 0),
   connect_attempts |-> f.connect_attempts + stats.connect_attempts,
   retrans_syn |-> f.retrans_syn + stats.retrans_syn,
   connect_us |-> connect_observed(f.connect_us, stats),
   rtt_us |-> rtt_observed(f.rtt_us, stats, stats.rtt_latest_us),
   rtt_smoothed_us |-> rtt_observed(f.rtt_smoothed_us, stats, stats.rtt_smoothed_us)]

-----------------------------------------------------------------------------
\* get_or_add_sock_stats: the CPU's entry, touched.
SockStats(cpu) ==
  [(IF cpu \in DOMAIN NFM_SK_STATS THEN NFM_SK_STATS[cpu] ELSE DefaultStats)
     EXCEPT !.last_touched_us = now_us]

\* A handler's last act, the entry of its CPU.
Store(cpu, stats) ==
  /\ NFM_SK_STATS' = (cpu :> stats) @@ NFM_SK_STATS
  /\ UNCHANGED <<now_us, agg_stats, flow, published>>

\* handle_new_sock: the connection's start and, for a client, its first attempt.
handle_connect(cpu) ==
  /\ tcp_state = "NEW" /\ tcp_state' = "SYN_SENT"
  /\ Store(cpu, [SockStats(cpu) EXCEPT !.connect_start_us = now_us, !.connect_attempts = @ + 1])
  /\ syns' = 1 /\ took' = [took EXCEPT !.from = now_us]

handle_passive_established(cpu) ==
  /\ tcp_state = "NEW" /\ tcp_state' \in {"SYN_RECV", "ESTABLISHED"}
  /\ Store(cpu, [SockStats(cpu) EXCEPT !.connect_start_us = now_us,
                   !.state_flags = @ \cup (IF tcp_state' = "ESTABLISHED"
                                           THEN {"ENTERED_ESTABLISH"} ELSE {})])
  /\ UNCHANGED <<syns, took>>

\* The kernel's transitions; SYN_SENT to SYN_RECV is a simultaneous open.
TcpTransitions ==
  {<<"SYN_SENT", "SYN_RECV">>, <<"SYN_SENT", "ESTABLISHED">>, <<"SYN_SENT", "CLOSE">>,
   <<"SYN_RECV", "ESTABLISHED">>, <<"SYN_RECV", "CLOSING">>, <<"SYN_RECV", "CLOSE">>,
   <<"ESTABLISHED", "CLOSING">>, <<"ESTABLISHED", "CLOSE">>, <<"CLOSING", "CLOSE">>}

NewFlags(old, new) ==
  CASE new = "ESTABLISHED" -> {"ENTERED_ESTABLISH"}
    [] new = "SYN_RECV" -> {}
    [] OTHER -> {"STARTED_CLOSURE"}
         \cup (IF old \in {"SYN_SENT", "SYN_RECV"} THEN {"TERMINATED_FROM_SYN"} ELSE {})
         \cup (IF new = "CLOSE" THEN {"CLOSED"} ELSE {})
         \cup (IF new = "CLOSE" /\ old = "ESTABLISHED" THEN {"TERMINATED_FROM_EST"} ELSE {})

handle_state_change(cpu) ==
  \E t \in TcpTransitions :
    /\ t[1] = tcp_state /\ tcp_state' = t[2]
    /\ Store(cpu, [SockStats(cpu) EXCEPT
         !.connect_end_us = IF t[2] = "ESTABLISHED" THEN now_us ELSE @,
         !.connect_successes = @ + (IF t = <<"SYN_SENT", "ESTABLISHED">> THEN 1 ELSE 0),
         !.state_flags = @ \cup NewFlags(t[1], t[2])])
    /\ took' = IF t = <<"SYN_SENT", "ESTABLISHED">> THEN [took EXCEPT !.to = now_us] ELSE took
    /\ UNCHANGED syns

TotalOf(field) == MapThenSumSet(LAMBDA c : NFM_SK_STATS[c][field], DOMAIN NFM_SK_STATS)

\* handle_rtt: the measured and, in eighths, the smoothed RTT that the kernel
\* passes; where it passes none, that of the sock-ops structure stands in.
handle_rtt(cpu) ==
  /\ tcp_state \in {"ESTABLISHED", "CLOSING"}
  /\ TotalOf("rtt_count") < MaxRtts
  /\ \E <<measured, smoothed>> \in Rtts :
       Store(cpu, [SockStats(cpu) EXCEPT
                     !.rtt_count = @ + 1,
                     !.rtt_latest_us = IF measured = 0 THEN CtxSrtt ELSE measured,
                     !.rtt_smoothed_us = IF smoothed = 0 THEN CtxSrtt ELSE smoothed \div 8])
  /\ UNCHANGED <<tcp_state, syns, took>>

retransmitted(stats) ==
  [stats EXCEPT !.connect_attempts = @ + (IF tcp_state = "SYN_SENT" THEN 1 ELSE 0),
                !.retrans_syn = @ + (IF tcp_state \in {"SYN_SENT", "SYN_RECV"} THEN 1 ELSE 0)]

\* handle_retransmit of one segment.  The classes of the later states are
\* counted like this one and are left out.
handle_retransmit(cpu) ==
  /\ tcp_state \notin {"NEW", "CLOSE"}
  /\ TotalOf("retrans_syn") < MaxRetrans
  /\ Store(cpu, retransmitted(SockStats(cpu)))
  /\ syns' = syns + (IF tcp_state = "SYN_SENT" THEN 1 ELSE 0)
  /\ UNCHANGED <<tcp_state, took>>

Tick ==
  /\ now_us < MaxTime /\ now_us' = now_us + 1
  /\ UNCHANGED <<tcp_state, NFM_SK_STATS, agg_stats, flow, history>>

-----------------------------------------------------------------------------
\* The cycle for this socket: merge, delta, flow; a closed socket is evicted
\* from the cache and from the BPF maps.
Aggregate ==
  /\ DOMAIN NFM_SK_STATS # {}
  /\ published.severed + flow.severed_connect + flow.severed_establish < MaxSevered
  /\ \E cpus \in SetToSeqs(DOMAIN NFM_SK_STATS) :
       LET agg == aggregate_sock_stats(cpus)
           delta == subtract(agg, agg_stats)
           closed == "CLOSED" \in agg.state_flags
       IN  /\ flow' = add_to_flow(flow, delta)
           /\ agg_stats' = IF closed THEN DefaultStats ELSE agg
           /\ NFM_SK_STATS' = IF closed THEN <<>> ELSE NFM_SK_STATS
  /\ UNCHANGED <<now_us, tcp_state, syns, took, published>>

\* network_stats: the window is reported and the next one starts.
Publish ==
  /\ flow # EmptyFlow
  /\ published' = [severed |-> published.severed + flow.severed_connect + flow.severed_establish,
                   attempts |-> published.attempts + flow.connect_attempts,
                   connects |-> published.connects + flow.connect_us.count]
  /\ flow' = EmptyFlow
  /\ UNCHANGED <<now_us, tcp_state, NFM_SK_STATS, agg_stats, syns, took>>

Handler(cpu) ==
  \/ handle_connect(cpu) \/ handle_passive_established(cpu) \/ handle_state_change(cpu)
  \/ handle_rtt(cpu) \/ handle_retransmit(cpu)

Next == Tick \/ Aggregate \/ Publish \/ \E cpu \in Cpus : Handler(cpu)

Spec == Init /\ [][Next]_vars

-----------------------------------------------------------------------------
\* The BPF map is iterated in no particular order: whichever CPU's entry
\* aggregate_sock_stats meets first, the socket's statistics are the same.
MergeOrderIrrelevant ==
  \A p, q \in SetToSeqs(DOMAIN NFM_SK_STATS) : aggregate_sock_stats(p) = aggregate_sock_stats(q)

\* "If a certain core only handled this socket in the distant past, we don't want
\* its old RTT measurement": a socket's RTTs are those of CPUs that handled it
\* since the newest event of the last cycle.
StaleRttsLeftOut ==
  LET fresh == {c \in DOMAIN NFM_SK_STATS : NFM_SK_STATS[c].last_touched_us >= agg_stats.last_touched_us}
  IN  \A p \in SetToSeqs(DOMAIN NFM_SK_STATS) : \A rtt \in {"rtt_latest_us", "rtt_smoothed_us"} :
        p # <<>> => aggregate_sock_stats(p)[rtt] \in {NFM_SK_STATS[c][rtt] : c \in fresh}

\* Connection attempts, counted by whichever CPUs sent a SYN, merged, made a
\* delta and added to one window or another, are the SYNs that were sent: those
\* reported, those of the current window and those not yet aggregated.
AttemptsAreSyns ==
  published.attempts + flow.connect_attempts
    + (TotalOf("connect_attempts") - agg_stats.connect_attempts) = syns

\* A connect time is observed at most once in all reports although connect
\* timestamps are levels that stay in every later total, only for a socket that
\* connected, and is the time from its connect to its establishment even when
\* two CPUs saw these.
ConnectObservedOnce ==
  /\ published.connects + flow.connect_us.count <= 1
  /\ flow.connect_us.count = 1 => flow.connect_us.sum = took.to - took.from

\* The histograms of a flow can be divided: no sample lies outside [min, max]
\* and a minimum of zero means that there is none.
HistogramsConsistent ==
  \A h \in {flow.connect_us, flow.rtt_us, flow.rtt_smoothed_us} :
    /\ h.min * h.count <= h.sum /\ h.sum <= h.max * h.count
    /\ h.min = 0 <=> h.count = 0
=============================================================================
