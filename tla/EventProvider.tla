--------------------------- MODULE EventProvider ---------------------------
(***************************************************************************)
(* The agent's event provider (event_provider_ebpf.rs) running against the *)
(* eBPF program of SockOps: one aggregation cycle after another, with      *)
(* publication of the flows in between.                                    *)
(*                                                                         *)
(* perform_aggregation_cycle is cut into steps at its operations on the    *)
(* shared BPF maps; what it does between two of them touches only the      *)
(* agent's memory and is one step.  An iteration over a BPF map visits     *)
(* every entry that was there when it began and any of those inserted      *)
(* since, in any order.  Copying an entry of NFM_SK_STATS out of the       *)
(* kernel is not atomic: a handler may overwrite it half way, after the    *)
(* timestamp and bytes were copied and before the counters and flags were. *)
(***************************************************************************)
EXTENDS SockOps, SockCache, NetworkStats, AdaptiveSampling, Functions

CONSTANTS NoTrack,     \* notrack_us
          MaxFlows,    \* AGG_FLOWS_MAX_ENTRIES
          NatTables    \* what the NAT resolver may know: partial maps of Flows

ASSUME EventProviderAssumption ==
  /\ NoTrack \in Nat \ {0}
  /\ IsFiniteSet(Flows)
  /\ \A nat \in NatTables : DOMAIN nat \subseteq Flows
                            /\ \A f \in DOMAIN nat : nat[f] \in Flows

VARIABLES
  pc,                 \* where the agent is in its cycle
  cycle_us,           \* now_us of the running cycle, 0 between cycles
  new_cpu_sock_keys,  \* contexts read in this cycle and not yet freed
  todo,               \* keys the current map iteration still has to visit
  copying,            \* the half-copied stats entry, if there is one
  sock_cache,
  sock_stream,
  to_evict,           \* keys that perform_bpf_eviction still has to remove
  flow_cache,
  \* History variables, which no step depends on:
  credited,           \* what each socket added to flows since the start
  window,             \* bytes each socket added to flows since the last report
  dropped,            \* sockets with bytes in a delta that reached no flow
  finished,           \* sockets evicted as complete
  torn_close          \* sockets whose CLOSED flag was copied with older bytes

agent_vars == <<pc, cycle_us, new_cpu_sock_keys, todo, copying, sock_cache,
                sock_stream, to_evict, flow_cache, credited, window,
                dropped, finished, torn_close>>

vars == <<kernel_vars, agent_vars>>

AggSockStats == [stats : SockStats, cpus : SUBSET Cpus]
StatsCopy == [key : CpuSockKey, last_touched_us : Nat, bytes_received : Counter]

TypeOK ==
  /\ KernelTypeOK
  /\ NFM_CONTROL \in 1..MaxSamplingInterval
  /\ pc \in {"idle", "props", "free", "stats", "evict"}
  /\ cycle_us \in Nat
  /\ new_cpu_sock_keys \subseteq CpuSockKey
  /\ todo \subseteq CpuSockKey
  /\ copying \subseteq StatsCopy
  /\ \A x, y \in copying : x = y
  /\ IsMap(sock_cache, Socks, SockWrapper(Cpus))
  /\ IsMap(sock_stream, Socks, AggSockStats)
  /\ to_evict \subseteq CpuSockKey
  /\ IsMap(flow_cache, Flows, [Socks -> Share])
  /\ credited \in [Socks -> Share]
  /\ window \in [Socks -> Nat]
  /\ dropped \subseteq Socks
  /\ finished \subseteq Socks
  /\ torn_close \subseteq Socks

\* EventProviderEbpf::new, on a host where the eBPF program is just attached.
Init ==
  /\ now_us = StartTime
  /\ tcp_state = [s \in Socks |-> "NEW"]
  /\ kernel_bytes = [s \in Socks |-> 0]
  /\ counted_events = [s \in Socks |-> 0]
  /\ cb_flags = {}
  /\ opening = {}
  /\ NFM_SK_PROPS = EmptyMap
  /\ NFM_SK_STATS = EmptyMap
  /\ NFM_CONTROL = increase_sampling_interval(0)
  /\ insertion_errors = FALSE
  /\ pc = "idle"
  /\ cycle_us = 0
  /\ new_cpu_sock_keys = {}
  /\ todo = {}
  /\ copying = {}
  /\ sock_cache = EmptyMap
  /\ sock_stream = EmptyMap
  /\ to_evict = {}
  /\ flow_cache = EmptyMap
  /\ credited = [s \in Socks |-> NoShare]
  /\ window = [s \in Socks |-> 0]
  /\ dropped = {}
  /\ finished = {}
  /\ torn_close = {}

-----------------------------------------------------------------------------
\* Adapts the sampling interval to the insertion errors since the last cycle,
\* reads the clock and starts to iterate over the contexts.
StartCycle ==
  /\ pc = "idle"
  /\ NFM_CONTROL' = IF insertion_errors
                    THEN increase_sampling_interval(NFM_CONTROL)
                    ELSE decrease_sampling_interval(NFM_CONTROL)
  /\ insertion_errors' = FALSE
  /\ cycle_us' = now_us
  /\ todo' = DOMAIN NFM_SK_PROPS
  /\ pc' = "props"
  /\ UNCHANGED <<now_us, tcp_state, kernel_bytes, counted_events, cb_flags,
                 opening, NFM_SK_PROPS, NFM_SK_STATS, new_cpu_sock_keys,
                 copying, sock_cache, sock_stream, to_evict, flow_cache,
                 credited, window, dropped, finished, torn_close>>

\* Mutant of ReadProps: takes the context for read before add_context fails.
ReadProps_BeforeFailure(key) ==
  /\ pc = "props"
  /\ key \in DOMAIN NFM_SK_PROPS \ new_cpu_sock_keys
  /\ sock_cache' = add_context(sock_cache, key[2], NFM_SK_PROPS[key],
                               saturating_sub(cycle_us, NoTrack \div 2))
  /\ new_cpu_sock_keys' = new_cpu_sock_keys \cup {key}
  /\ IF add_context_fails(sock_cache, key[2])
     THEN pc' = "free" /\ todo' = {}
     ELSE todo' = todo \ {key} /\ UNCHANGED pc
  /\ UNCHANGED <<kernel_vars, cycle_us, copying, sock_stream, to_evict,
                 flow_cache, credited, window, dropped, finished,
                 torn_close>>

\* One context of the iteration.  When the cache cannot take it the iteration
\* ends and the context stays in NFM_SK_PROPS.
ReadProps(key) ==
  /\ pc = "props"
  /\ key \in DOMAIN NFM_SK_PROPS \ new_cpu_sock_keys
  /\ sock_cache' = add_context(sock_cache, key[2], NFM_SK_PROPS[key],
                               saturating_sub(cycle_us, NoTrack \div 2))
  /\ IF add_context_fails(sock_cache, key[2])
     THEN /\ pc' = "free"
          /\ todo' = {}
          /\ UNCHANGED new_cpu_sock_keys
     ELSE /\ todo' = todo \ {key}
          /\ new_cpu_sock_keys' = new_cpu_sock_keys \cup {key}
          /\ UNCHANGED pc
  /\ UNCHANGED <<kernel_vars, cycle_us, copying, sock_stream, to_evict,
                 flow_cache, credited, window, dropped, finished,
                 torn_close>>

PropsRead ==
  /\ pc = "props"
  /\ todo = {}
  /\ pc' = "free"
  /\ UNCHANGED <<kernel_vars, cycle_us, new_cpu_sock_keys, todo, copying,
                 sock_cache, sock_stream, to_evict, flow_cache, credited,
                 window, dropped, finished, torn_close>>

\* Mutant of FreeProps: forgets to remove the context.
FreeProps_Forgets(key) ==
  /\ pc = "free"
  /\ key \in new_cpu_sock_keys
  /\ new_cpu_sock_keys' = new_cpu_sock_keys \ {key}
  /\ UNCHANGED <<kernel_vars, pc, cycle_us, todo, copying, sock_cache,
                 sock_stream, to_evict, flow_cache, credited, window, dropped,
                 finished, torn_close>>

\* Removes one of the contexts that were read from NFM_SK_PROPS.
FreeProps(key) ==
  /\ pc = "free"
  /\ key \in new_cpu_sock_keys
  /\ NFM_SK_PROPS' = RemoveKeys(NFM_SK_PROPS, {key})
  /\ new_cpu_sock_keys' = new_cpu_sock_keys \ {key}
  /\ UNCHANGED <<now_us, tcp_state, kernel_bytes, counted_events, cb_flags,
                 opening, NFM_SK_STATS, NFM_CONTROL, insertion_errors, pc,
                 cycle_us, todo, copying, sock_cache, sock_stream, to_evict,
                 flow_cache, credited, window, dropped, finished,
                 torn_close>>

\* Starts to iterate over the statistics.
PropsFreed ==
  /\ pc = "free"
  /\ new_cpu_sock_keys = {}
  /\ pc' = "stats"
  /\ todo' = DOMAIN NFM_SK_STATS
  /\ UNCHANGED <<kernel_vars, cycle_us, new_cpu_sock_keys, copying, sock_cache,
                 sock_stream, to_evict, flow_cache, credited, window,
                 dropped, finished, torn_close>>

\* Was the entry visited by the current iteration?
Visited(key) ==
  key[2] \in DOMAIN sock_stream /\ key[1] \in sock_stream[key[2]].cpus

\* The first half of an entry is copied out of NFM_SK_STATS.  The map can always
\* be read: the code skips an entry whose reading fails (flatten), and what that
\* entry held would be missing from the cycle.
CopyStats(key) ==
  /\ pc = "stats"
  /\ copying = {}
  /\ key \in DOMAIN NFM_SK_STATS
  /\ ~Visited(key)
  /\ copying' = {[key |-> key,
                  last_touched_us |-> NFM_SK_STATS[key].last_touched_us,
                  bytes_received |-> NFM_SK_STATS[key].bytes_received]}
  /\ UNCHANGED <<kernel_vars, pc, cycle_us, new_cpu_sock_keys, todo,
                 sock_cache, sock_stream, to_evict, flow_cache, credited,
                 window, dropped, finished, torn_close>>

\* The entry as the agent gets it: its second half is read now.
CopiedStats(copy) ==
  [NFM_SK_STATS[copy.key] EXCEPT !.last_touched_us = copy.last_touched_us,
                                 !.bytes_received = copy.bytes_received]

\* The second half of the entry, and its aggregation over the CPUs.
aggregate_sock_stats ==
  \E copy \in copying :
    LET sock  == copy.key[2]
        stats == CopiedStats(copy)
        agg   == IF sock \in DOMAIN sock_stream THEN sock_stream[sock]
                 ELSE [stats |-> DefaultStats, cpus |-> {}]
    IN  /\ pc = "stats"
        /\ copying' = {}
        /\ todo' = todo \ {copy.key}
        /\ sock_stream' = Put(sock_stream, sock,
                              [stats |-> add_from(agg.stats, stats),
                               cpus |-> agg.cpus \cup {copy.key[1]}])
        /\ torn_close' =
             IF /\ is_closed(stats)
                /\ stats.bytes_received # NFM_SK_STATS[copy.key].bytes_received
             THEN torn_close \cup {sock} ELSE torn_close
        /\ UNCHANGED <<kernel_vars, pc, cycle_us, new_cpu_sock_keys,
                       sock_cache, to_evict, flow_cache, credited, window,
                       dropped, finished>>

-----------------------------------------------------------------------------
\* NatResolver::store_beyond_nat_entries for what the resolver knows.
store_beyond_nat_entries(cache, nat) ==
  [s \in DOMAIN cache |->
     IF ~is_valid(cache[s].context_external) /\ cache[s].context \in DOMAIN nat
     THEN [cache[s] EXCEPT !.context_external = nat[cache[s].context]]
     ELSE cache[s]]

context_beyond_nat(wrapper) ==
  IF is_valid(wrapper.context_external) THEN wrapper.context_external
                                        ELSE wrapper.context

\* The flows that the sockets of a round ask for and that are not there yet.
NewFlows(cache, deltas) ==
  {context_beyond_nat(cache[s]) : s \in DOMAIN deltas}
     \ ({NoContext} \cup DOMAIN flow_cache)

\* The flows that get in: which ones depends on the order of the iteration.
Admissible(new) ==
  {admitted \in SUBSET new :
     LET size == Cardinality(DOMAIN flow_cache) + Cardinality(admitted)
     IN  /\ admitted # {} => size <= MaxFlows
         /\ admitted # new => size >= MaxFlows}

\* The sockets of a round whose delta is added to a flow.
InFlow(cache, deltas, flows) ==
  {s \in DOMAIN deltas : context_beyond_nat(cache[s]) \in flows}

\* The flows after a round: levels start again from zero, and the delta of
\* every socket is added to its flow.
aggregate_into_flows(cache, deltas, flows) ==
  [f \in flows |->
     [s \in Socks |->
        LET share == IF f \in DOMAIN flow_cache
                     THEN clear_levels(flow_cache[f][s]) ELSE NoShare
        IN  IF s \in DOMAIN deltas /\ context_beyond_nat(cache[s]) = f
            THEN add_to_flow(share, deltas[s], should_evict(cache[s]))
            ELSE share]]

\* The deltas go to the flows, and into the history of what was credited.
CreditFlows(cache, deltas, flows) ==
  LET in_flow == InFlow(cache, deltas, flows)
  IN  /\ flow_cache' = aggregate_into_flows(cache, deltas, flows)
      /\ credited' = [s \in Socks |->
           IF s \in in_flow
           THEN clear_levels(add_to_flow(credited[s], deltas[s],
                                         should_evict(cache[s])))
           ELSE credited[s]]
      /\ window' = [s \in Socks |->
           IF s \in in_flow THEN window[s] + deltas[s].bytes_received
                            ELSE window[s]]
      /\ dropped' = dropped \cup
           {s \in DOMAIN deltas \ in_flow : deltas[s].bytes_received > 0}

\* Mutant of EvictFromCache: the evicted sockets stay cached.
EvictFromCache_KeepsSocks(cache) ==
  LET evicted == EvictedSocks(cache)
  IN  /\ sock_cache' = cache
      /\ to_evict' = {key \in CpuSockKey :
                        key[2] \in evicted /\ key[1] \in cache[key[2]].cpus}
      /\ finished' = finished \cup {s \in evicted : cache[s].is_complete}

\* perform_eviction, and the work it leaves for perform_bpf_eviction.
EvictFromCache(cache) ==
  LET evicted == EvictedSocks(cache)
  IN  /\ sock_cache' = RemoveKeys(cache, evicted)
      /\ to_evict' = {key \in CpuSockKey :
                        key[2] \in evicted /\ key[1] \in cache[key[2]].cpus}
      /\ finished' = finished \cup {s \in evicted : cache[s].is_complete}

\* All entries are copied: deltas, NAT, flows and eviction from the cache.
Aggregate ==
  /\ pc = "stats"
  /\ todo = {}
  /\ copying = {}
  /\ \E nat \in NatTables :
       LET deltas == get_deltas(sock_cache, sock_stream)
           cache  == store_beyond_nat_entries(
                       update_stats(sock_cache, sock_stream,
                                    saturating_sub(cycle_us, NoTrack)), nat)
       IN  /\ \E admitted \in Admissible(NewFlows(cache, deltas)) :
                CreditFlows(cache, deltas, DOMAIN flow_cache \cup admitted)
           /\ EvictFromCache(cache)
  /\ sock_stream' = EmptyMap
  /\ pc' = "evict"
  /\ UNCHANGED <<kernel_vars, cycle_us, new_cpu_sock_keys, todo, copying,
                 torn_close>>

\* Removes one entry of an evicted socket.  Were the entry not there, the
\* entries of the socket's other CPUs would be left in place.
perform_bpf_eviction(key) ==
  /\ pc = "evict"
  /\ key \in to_evict
  /\ NFM_SK_STATS' = RemoveKeys(NFM_SK_STATS, {key})
  /\ to_evict' = IF key \in DOMAIN NFM_SK_STATS THEN to_evict \ {key}
                 ELSE {k \in to_evict : k[2] # key[2]}
  /\ UNCHANGED <<now_us, tcp_state, kernel_bytes, counted_events, cb_flags,
                 opening, NFM_SK_PROPS, NFM_CONTROL, insertion_errors, pc,
                 cycle_us, new_cpu_sock_keys, todo, copying, sock_cache,
                 sock_stream, flow_cache, credited, window, dropped,
                 finished, torn_close>>

EndCycle ==
  /\ pc = "evict"
  /\ to_evict = {}
  /\ pc' = "idle"
  /\ cycle_us' = 0
  /\ UNCHANGED <<kernel_vars, new_cpu_sock_keys, todo, copying,
                 sock_cache, sock_stream, to_evict, flow_cache, credited,
                 window, dropped, finished, torn_close>>

\* Mutant of network_stats: reports the flows and keeps them.
network_stats_KeepsFlows ==
  /\ pc = "idle"
  /\ window' = [s \in Socks |-> 0]
  /\ UNCHANGED <<kernel_vars, pc, cycle_us, new_cpu_sock_keys, todo, copying,
                 sock_cache, sock_stream, to_evict, flow_cache, credited,
                 dropped, finished, torn_close>>

\* The main loop publishes between two cycles and takes the flows.
network_stats ==
  /\ pc = "idle"
  /\ flow_cache' = EmptyMap
  /\ window' = [s \in Socks |-> 0]
  /\ UNCHANGED <<kernel_vars, pc, cycle_us, new_cpu_sock_keys, todo, copying,
                 sock_cache, sock_stream, to_evict, credited, dropped,
                 finished, torn_close>>
-----------------------------------------------------------------------------
KernelStep ==
  /\ \/ \E cpu \in Cpus, sock \in Socks :
          \/ handle_connect(cpu, sock)
          \/ handle_passive_established(cpu, sock)
          \/ \E new \in TcpStates, n \in 0..1 :
               handle_state_change(cpu, sock, new, n)
          \/ \E n \in 0..1 : handle_rtt(cpu, sock, n)
          \/ handle_rto(cpu, sock)
          \/ \E n \in 0..1 : handle_bytes_transferred_event(cpu, sock, n)
     \/ \E key \in CpuSockKey : handle_new_sock_stats(key)
     \/ Tick
  /\ UNCHANGED agent_vars

\* perform_aggregation_cycle
AgentStep ==
  \/ StartCycle
  \/ \E key \in CpuSockKey : ReadProps(key)
  \/ PropsRead
  \/ \E key \in CpuSockKey : FreeProps(key)
  \/ PropsFreed
  \/ \E key \in CpuSockKey : CopyStats(key)
  \/ aggregate_sock_stats
  \/ Aggregate
  \/ \E key \in CpuSockKey : perform_bpf_eviction(key)
  \/ EndCycle

Next == KernelStep \/ AgentStep \/ network_stats

Spec == Init /\ [][Next]_vars
\* The main loop never stops calling perform_aggregation_cycle, and a handler
\* that the kernel started runs to its end.
Fairness ==
  /\ WF_vars(AgentStep)
  /\ \A key \in CpuSockKey :
       WF_vars(handle_new_sock_stats(key) /\ UNCHANGED agent_vars)

FairSpec == Spec /\ Fairness

-----------------------------------------------------------------------------
\* Every entry that perform_bpf_eviction sets out to remove is still in
\* NFM_SK_STATS, whatever the handlers did since it was read: the removal never
\* fails, so `continue 'sock_loop` never leaves entries of other CPUs behind.
EvictionFindsEntries ==
  \A key \in to_evict : key \in DOMAIN NFM_SK_STATS

\* When update_stats_and_get_deltas subtracts the cached byte counter from the
\* aggregated one, the counter has not gone backwards, so wrapping_sub does not
\* wrap: not when the socket moved between CPUs during the iteration, and not
\* after its entries were evicted and created again.
BytesDoNotWrap ==
  pc = "stats" /\ todo = {} /\ copying = {} =>
    \A s \in DOMAIN sock_cache \cap DOMAIN sock_stream :
      sock_stream[s].stats.bytes_received >= sock_cache[s].stats.bytes_received

\* The same for the counters that are summed over the CPUs: the iteration sees
\* every CPU's entry that it saw in an earlier cycle.
EventsDoNotWrap ==
  pc = "stats" /\ todo = {} /\ copying = {} =>
    \A s \in DOMAIN sock_cache \cap DOMAIN sock_stream :
      sock_stream[s].stats.bpf_events >= sock_cache[s].stats.bpf_events

\* Over all cycles the flows are never credited with more bytes of a socket
\* than the kernel transferred for it: not when several CPUs hold a copy of the
\* same counter, and not when the socket was evicted and its entries came back
\* with the counters the kernel kept.
NoDoubleCounting ==
  \A s \in Socks : credited[s].bytes_received <= kernel_bytes[s]

\* Nor with more callbacks than the handlers counted for it, on all CPUs.
EventsCountedOnce ==
  \A s \in Socks : credited[s].bpf_events <= counted_events[s]

\* sockets_completed counts a socket once: a socket that was counted, because
\* it was closed or stale, is never again evicted with a context.
CompletedOnce ==
  \A s \in Socks : credited[s].sockets_completed <= 1

\* A socket that is evicted as complete took all its bytes along: once its
\* CLOSED flag was seen, the flows have the final value of the kernel's
\* counter, unless a delta was dropped on the way (no context yet, or no room
\* for the flow) or its entry was overwritten while it was being copied.
ClosedSocketFullyCounted ==
  \A s \in finished \ (dropped \cup torn_close) :
    credited[s].bytes_received = kernel_bytes[s]

\* A socket's bytes in the flows that wait for the next report.
BytesInFlows(s) ==
  SumFunction([f \in DOMAIN flow_cache |-> flow_cache[f][s].bytes_received])

\* The flows waiting for the next report hold exactly what was credited since
\* the last one: network_stats takes everything once and leaves nothing behind.
FlowsHoldTheWindow ==
  \A s \in Socks : BytesInFlows(s) = window[s]

\* A socket is counted in one level of one flow at most, even when NAT moves it
\* to another flow: levels are those of the latest cycle.
LevelsCountSocketsOnce ==
  \A s \in Socks :
    \A f, g \in DOMAIN flow_cache :
      flow_cache[f][s].level # "none" /\ flow_cache[g][s].level # "none"
        => f = g

\* An entry leaves NFM_SK_PROPS only once the cache has its context ("entries
\* are deleted by user-space once read").
ContextFreedOnceCached ==
  [][\A key \in DOMAIN NFM_SK_PROPS \ DOMAIN NFM_SK_PROPS' :
       /\ key[2] \in DOMAIN sock_cache
       /\ sock_cache[key[2]].context = NFM_SK_PROPS[key]]_vars

\* A socket the agent has a context and statistics for is given up only when the
\* kernel closed it or none of its CPUs saw a callback for NoTrack before the
\* cycle; a callback during the cycle may come too late to save it.
LiveSocketKept ==
  [][\A s \in DOMAIN sock_cache \ DOMAIN sock_cache' :
       (is_valid(sock_cache[s].context) /\ s \in DOMAIN sock_stream) =>
         \/ tcp_state[s] = "CLOSE"
         \/ \A c \in Cpus :
              <<c, s>> \in DOMAIN NFM_SK_STATS =>
                LET touched == NFM_SK_STATS[<<c, s>>].last_touched_us
                IN  touched + NoTrack <= cycle_us \/ touched >= cycle_us]_vars

\* The agent releases the entry of every closed socket, with a context or not.
ClosedEventuallyReleased ==
  \A key \in CpuSockKey :
    (key \in DOMAIN NFM_SK_STATS /\ is_closed(NFM_SK_STATS[key]))
      ~> key \notin DOMAIN NFM_SK_STATS

\* Entries of a socket whose context never comes do not pile up: the entry goes,
\* or the socket gets its context.
OrphansEventuallyReleased ==
  \A key \in CpuSockKey :
    (key \in DOMAIN NFM_SK_STATS)
      ~> \/ key \notin DOMAIN NFM_SK_STATS
         \/ /\ key[2] \in DOMAIN sock_cache
            /\ is_valid(sock_cache[key[2]].context)

\* A context reaches the agent and leaves NFM_SK_PROPS, if the cache has room.
ContextEventuallyRead ==
  \A key \in CpuSockKey :
    key \in DOMAIN NFM_SK_PROPS ~> key \notin DOMAIN NFM_SK_PROPS

Ledger == INSTANCE FlowLedger WITH
  Sockets <- Socks,
  transferred <- kernel_bytes,
  credited <- [s \in Socks |-> credited[s].bytes_received],
  completed <- {s \in Socks : credited[s].sockets_completed > 0}

\* The event provider implements the ledger: seen through the totals of the
\* flows, any interleaving of handlers and cycles is a sequence of transfers
\* and credits that never exceed them, and nothing is credited for a socket
\* once sockets_completed has counted it.
ImplementsLedger == Ledger!LedgerSpec
=============================================================================
