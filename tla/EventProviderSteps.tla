------------------------- MODULE EventProviderSteps -------------------------
(***************************************************************************)
(* Every step of EventProvider preserves its type invariant, what the      *)
(* operators it is built from return, and what the kernel's handlers may   *)
(* do to the maps the agent relies on.  Then the steps that preserve the   *)
(* core of the inductive invariant without touching the cache: the         *)
(* handlers, the phase changes of a cycle, freeing contexts, copying       *)
(* statistics and evicting entries.                                        *)
(***************************************************************************)
EXTENDS EventProviderInvariant, TLAPS

USE DEF is_valid

-----------------------------------------------------------------------------
(* Hash maps. *)

LEMMA PutIsMap ==
  ASSUME NEW map, NEW K, NEW V, IsMap(map, K, V), NEW key \in K, NEW value \in V
  PROVE  /\ IsMap(Put(map, key, value), K, V)
         /\ DOMAIN Put(map, key, value) = DOMAIN map \cup {key}
         /\ Put(map, key, value)[key] = value
         /\ \A k \in DOMAIN map : k # key => Put(map, key, value)[k] = map[k]
BY Zenon DEF IsMap, Put

LEMMA RemoveIsMap ==
  ASSUME NEW map, NEW K, NEW V, IsMap(map, K, V), NEW keys
  PROVE  /\ IsMap(RemoveKeys(map, keys), K, V)
         /\ DOMAIN RemoveKeys(map, keys) = DOMAIN map \ keys
         /\ \A k \in DOMAIN map \ keys : RemoveKeys(map, keys)[k] = map[k]
BY Zenon DEF IsMap, RemoveKeys

LEMMA EmptyIsMap ==
  ASSUME NEW K, NEW V
  PROVE  IsMap(EmptyMap, K, V) /\ DOMAIN EmptyMap = {}
BY Zenon DEF IsMap, EmptyMap

-----------------------------------------------------------------------------
(* Statistics records. *)

LEMMA DefaultStatsType == DefaultStats \in SockStats
BY NetworkAssumption DEF NetworkAssumption, DefaultStats, SockStats, Counter

LEMMA AddFromType ==
  ASSUME NEW a \in SockStats, NEW b \in SockStats
  PROVE  add_from(a, b) \in SockStats
BY NetworkAssumption DEF NetworkAssumption, add_from, SockStats, Counter, max, wrapping_add

LEMMA WrappingSubType ==
  ASSUME NEW a \in Counter, NEW b \in Counter
  PROVE  wrapping_sub(a, b) \in Counter
BY NetworkAssumption DEF NetworkAssumption, Counter, wrapping_sub

LEMMA SubtractType ==
  ASSUME NEW a \in SockStats, NEW b \in SockStats
  PROVE  subtract(a, b) \in SockStats
<1>1. wrapping_sub(a.bytes_received, b.bytes_received) \in Counter
  BY Zenon, WrappingSubType DEF SockStats
<1>2. wrapping_sub(a.bpf_events, b.bpf_events) \in Counter
  BY Zenon, WrappingSubType DEF SockStats
<1> QED BY Zenon, <1>1, <1>2 DEF subtract, SockStats

-----------------------------------------------------------------------------
(* The kernel's steps preserve its type invariant. *)

LEMMA TouchedType ==
  ASSUME KernelTypeOK, NEW key \in CpuSockKey
  PROVE  get_or_add_sock_stats(key) \in SockStats
BY Zenon, DefaultStatsType DEF KernelTypeOK, IsMap, get_or_add_sock_stats, SockStats

LEMMA StoreType ==
  ASSUME KernelTypeOK, NEW key \in CpuSockKey, NEW stats \in SockStats,
         StoreSockStats(key, stats)
  PROVE  /\ IsMap(NFM_SK_STATS', CpuSockKey, SockStats)
         /\ insertion_errors' \in BOOLEAN
<1>1. CASE HasSockStats(key)
  <2>1. NFM_SK_STATS' = Put(NFM_SK_STATS, key, stats)
    BY Zenon, <1>1 DEF StoreSockStats
  <2>2. insertion_errors' = insertion_errors
    BY Zenon, <1>1 DEF StoreSockStats
  <2> QED BY Zenon, <2>1, <2>2, PutIsMap DEF KernelTypeOK
<1>2. CASE ~HasSockStats(key)
  BY Zenon, <1>2 DEF StoreSockStats, KernelTypeOK
<1> QED BY Zenon, <1>1, <1>2

LEMMA TransferType ==
  ASSUME KernelTypeOK, NEW sock \in Socks, NEW n \in 0..1, Transfer(sock, n)
  PROVE  /\ kernel_bytes[sock] + n \in Counter
         /\ kernel_bytes' \in [Socks -> 0..MaxBytes]
         /\ kernel_bytes'[sock] = kernel_bytes[sock] + n
         /\ \A s \in Socks : kernel_bytes[s] <= kernel_bytes'[s]
<1>1. kernel_bytes \in [Socks -> 0..MaxBytes] /\ MaxBytes \in Nat
  BY Zenon, SockOpsAssumption DEF SockOpsAssumption, KernelTypeOK
<1>2. kernel_bytes[sock] + n \in 0..MaxBytes
  BY <1>1 DEF Transfer
<1>3. kernel_bytes[sock] + n \in Counter
  BY <1>2, SockOpsAssumption, NetworkAssumption
  DEF SockOpsAssumption, NetworkAssumption, Counter
<1> QED BY <1>1, <1>2, <1>3 DEF Transfer

LEMMA CountEventType ==
  ASSUME KernelTypeOK, NEW key \in CpuSockKey, CountEvent(key)
  PROVE  counted_events' \in [Socks -> 0..MaxEvents]
BY SockOpsAssumption DEF SockOpsAssumption, KernelTypeOK, CountEvent, CpuSockKey

LEMMA NewSockType ==
  ASSUME KernelTypeOK, NEW cpu \in Cpus, NEW sock \in Socks,
         NEW state \in TcpStates, handle_new_sock(cpu, sock, state)
  PROVE  KernelTypeOK'
<1>1. <<cpu, sock>> \in CpuSockKey
  BY Zenon DEF CpuSockKey
<1>2. tcp_state' \in [Socks -> TcpStates]
  BY Zenon DEF handle_new_sock, KernelTypeOK
<1>3. insertion_errors' \in BOOLEAN
  BY Zenon DEF handle_new_sock, KernelTypeOK
<1>4. cb_flags' \subseteq Socks /\ opening' \subseteq CpuSockKey
  BY Zenon, <1>1 DEF handle_new_sock, KernelTypeOK
<1>5. IsMap(NFM_SK_PROPS', CpuSockKey, Flows)
  <2>1. \/ UNCHANGED NFM_SK_PROPS
        \/ \E context \in Flows :
             NFM_SK_PROPS' = Put(NFM_SK_PROPS, <<cpu, sock>>, context)
    BY Zenon DEF handle_new_sock
  <2>2. CASE UNCHANGED NFM_SK_PROPS
    BY Zenon, <2>2 DEF KernelTypeOK
  <2>3. ASSUME NEW context \in Flows,
               NFM_SK_PROPS' = Put(NFM_SK_PROPS, <<cpu, sock>>, context)
        PROVE  IsMap(NFM_SK_PROPS', CpuSockKey, Flows)
    BY Zenon, <1>1, <2>3, PutIsMap DEF KernelTypeOK
  <2> QED BY Zenon, <2>1, <2>2, <2>3
<1> QED BY Zenon, <1>2, <1>3, <1>4, <1>5 DEF handle_new_sock, KernelTypeOK

LEMMA NewSockStatsType ==
  ASSUME KernelTypeOK, NEW key \in CpuSockKey, handle_new_sock_stats(key)
  PROVE  KernelTypeOK'
<1> DEFINE stats == [get_or_add_sock_stats(key) EXCEPT !.state_flags = @ \cup
              (IF tcp_state[key[2]] = "ESTABLISHED" THEN {"ENTERED_ESTABLISH"}
                                                    ELSE {})]
<1>1. stats \in SockStats
  BY Zenon, TouchedType DEF SockStats, SockStateFlags
<1>2. StoreSockStats(key, stats)
  BY Zenon DEF handle_new_sock_stats
<1> HIDE DEF stats
<1>3. IsMap(NFM_SK_STATS', CpuSockKey, SockStats) /\ insertion_errors' \in BOOLEAN
  BY Zenon, <1>1, <1>2, StoreType
<1> QED BY Zenon, <1>3 DEF handle_new_sock_stats, KernelTypeOK

LEMMA StateChangeType ==
  ASSUME KernelTypeOK, NEW cpu \in Cpus, NEW sock \in Socks,
         NEW new \in TcpStates, NEW n \in 0..1,
         handle_state_change(cpu, sock, new, n)
  PROVE  KernelTypeOK'
<1> DEFINE key == <<cpu, sock>>
           stats == [get_or_add_sock_stats(key) EXCEPT
              !.state_flags = @ \cup NewFlags(tcp_state[sock], new),
              !.bytes_received = IF new = "CLOSE" THEN kernel_bytes[sock] + n
                                                  ELSE @]
<1>1. key \in CpuSockKey
  BY Zenon DEF CpuSockKey
<1>2. /\ kernel_bytes[sock] + n \in Counter
      /\ kernel_bytes' \in [Socks -> 0..MaxBytes]
  BY Zenon, TransferType DEF handle_state_change
<1>3. stats \in SockStats
  <2>1. NewFlags(tcp_state[sock], new) \subseteq SockStateFlags
    BY Zenon DEF NewFlags, SockStateFlags
  <2> QED BY Zenon, <1>1, <1>2, <2>1, TouchedType DEF SockStats
<1>4. StoreSockStats(key, stats)
  BY Zenon DEF handle_state_change
<1> HIDE DEF stats, key
<1>5. IsMap(NFM_SK_STATS', CpuSockKey, SockStats) /\ insertion_errors' \in BOOLEAN
  BY Zenon, <1>1, <1>3, <1>4, StoreType
<1> QED BY Zenon, <1>2, <1>5 DEF handle_state_change, KernelTypeOK

LEMMA WrappingAddType ==
  ASSUME NEW a \in Counter, NEW b \in Counter
  PROVE  wrapping_add(a, b) \in Counter
BY NetworkAssumption DEF NetworkAssumption, Counter, wrapping_add

LEMMA RttType ==
  ASSUME KernelTypeOK, NEW cpu \in Cpus, NEW sock \in Socks, NEW n \in 0..1,
         handle_rtt(cpu, sock, n)
  PROVE  KernelTypeOK'
<1> DEFINE key == <<cpu, sock>>
           stats == [get_or_add_sock_stats(key) EXCEPT
                       !.bpf_events = wrapping_add(@, 1),
                       !.bytes_received = kernel_bytes[sock] + n]
<1>1. key \in CpuSockKey
  BY Zenon DEF CpuSockKey
<1>2. /\ kernel_bytes[sock] + n \in Counter
      /\ kernel_bytes' \in [Socks -> 0..MaxBytes]
  BY Zenon, TransferType DEF handle_rtt
<1>3. counted_events' \in [Socks -> 0..MaxEvents]
  BY Zenon, <1>1, CountEventType DEF handle_rtt
<1>4. stats \in SockStats
  <2>1. MaxEvents >= 1
    <3>1. CountEvent(key)
      BY Zenon DEF handle_rtt
    <3> QED BY <3>1, SockOpsAssumption
            DEF SockOpsAssumption, CountEvent, KernelTypeOK
  <2>2. 1 \in Counter
    BY <2>1, SockOpsAssumption, NetworkAssumption
    DEF SockOpsAssumption, NetworkAssumption, Counter
  <2>3. get_or_add_sock_stats(key).bpf_events \in Counter
    BY Zenon, <1>1, TouchedType DEF SockStats
  <2>4. wrapping_add(get_or_add_sock_stats(key).bpf_events, 1) \in Counter
    BY Zenon, <2>2, <2>3, WrappingAddType
  <2> QED BY Zenon, <1>1, <1>2, <2>4, TouchedType DEF SockStats
<1>5. StoreSockStats(key, stats)
  BY Zenon DEF handle_rtt
<1> HIDE DEF stats, key
<1>6. IsMap(NFM_SK_STATS', CpuSockKey, SockStats) /\ insertion_errors' \in BOOLEAN
  BY Zenon, <1>1, <1>4, <1>5, StoreType
<1> QED BY Zenon, <1>2, <1>3, <1>6 DEF handle_rtt, KernelTypeOK

LEMMA RtoType ==
  ASSUME KernelTypeOK, NEW cpu \in Cpus, NEW sock \in Socks,
         handle_rto(cpu, sock)
  PROVE  KernelTypeOK'
<1> DEFINE key == <<cpu, sock>>
           stats == [get_or_add_sock_stats(key) EXCEPT
                       !.bpf_events = wrapping_add(@, 1)]
<1>1. key \in CpuSockKey
  BY Zenon DEF CpuSockKey
<1>2. counted_events' \in [Socks -> 0..MaxEvents]
  BY Zenon, <1>1, CountEventType DEF handle_rto
<1>3. stats \in SockStats
  <2>1. MaxEvents >= 1
    <3>1. CountEvent(key)
      BY Zenon DEF handle_rto
    <3> QED BY <3>1, SockOpsAssumption
            DEF SockOpsAssumption, CountEvent, KernelTypeOK
  <2>2. 1 \in Counter
    BY <2>1, SockOpsAssumption, NetworkAssumption
    DEF SockOpsAssumption, NetworkAssumption, Counter
  <2>3. get_or_add_sock_stats(key).bpf_events \in Counter
    BY Zenon, <1>1, TouchedType DEF SockStats
  <2>4. wrapping_add(get_or_add_sock_stats(key).bpf_events, 1) \in Counter
    BY Zenon, <2>2, <2>3, WrappingAddType
  <2> QED BY Zenon, <1>1, <2>4, TouchedType DEF SockStats
<1>4. StoreSockStats(key, stats)
  BY Zenon DEF handle_rto
<1> HIDE DEF stats, key
<1>5. IsMap(NFM_SK_STATS', CpuSockKey, SockStats) /\ insertion_errors' \in BOOLEAN
  BY Zenon, <1>1, <1>3, <1>4, StoreType
<1> QED BY Zenon, <1>2, <1>5 DEF handle_rto, KernelTypeOK

LEMMA BytesType ==
  ASSUME KernelTypeOK, NEW cpu \in Cpus, NEW sock \in Socks, NEW n \in 0..1,
         handle_bytes_transferred_event(cpu, sock, n)
  PROVE  KernelTypeOK'
<1> DEFINE key == <<cpu, sock>>
           stats == [get_or_add_sock_stats(key) EXCEPT
                       !.bytes_received = kernel_bytes[sock] + n]
<1>1. key \in CpuSockKey
  BY Zenon DEF CpuSockKey
<1>2. /\ kernel_bytes[sock] + n \in Counter
      /\ kernel_bytes' \in [Socks -> 0..MaxBytes]
  BY Zenon, TransferType DEF handle_bytes_transferred_event
<1>3. stats \in SockStats
  BY Zenon, <1>1, <1>2, TouchedType DEF SockStats
<1>4. StoreSockStats(key, stats)
  BY Zenon DEF handle_bytes_transferred_event
<1> HIDE DEF stats, key
<1>5. IsMap(NFM_SK_STATS', CpuSockKey, SockStats) /\ insertion_errors' \in BOOLEAN
  BY Zenon, <1>1, <1>3, <1>4, StoreType
<1> QED BY Zenon, <1>2, <1>5 DEF handle_bytes_transferred_event, KernelTypeOK

LEMMA KernelStepType ==
  ASSUME KernelTypeOK, KernelStep
  PROVE  KernelTypeOK'
<1>1. ASSUME NEW cpu \in Cpus, NEW sock \in Socks, handle_connect(cpu, sock)
      PROVE  KernelTypeOK'
  BY Zenon, <1>1, NewSockType DEF handle_connect, TcpStates
<1>2. ASSUME NEW cpu \in Cpus, NEW sock \in Socks,
             handle_passive_established(cpu, sock)
      PROVE  KernelTypeOK'
  BY Zenon, <1>2, NewSockType DEF handle_passive_established, TcpStates
<1>3. CASE Tick
  BY <1>3 DEF Tick, KernelTypeOK
<1> QED
  BY Zenon, <1>1, <1>2, <1>3, NewSockStatsType, StateChangeType, RttType, RtoType,
     BytesType DEF KernelStep

-----------------------------------------------------------------------------
\* Wrappers and caches.

Wrappers == SockWrapper(Cpus)

LEMMA AddCycleType ==
  ASSUME NEW cycles \in SUBSET (0..255)
  PROVE  add_cycle(cycles) \in SUBSET (0..255)
BY DEF add_cycle

LEMMA NewWrapperType ==
  ASSUME NEW context \in Flows \cup {NoContext}, NEW stats \in SockStats,
         NEW cpus \in SUBSET Cpus
  PROVE  new_wrapper(context, stats, cpus) \in Wrappers
BY DEF new_wrapper, Wrappers, SockWrapper

\* The fields that the operations on a wrapper assign.
LEMMA ContextFieldsType ==
  ASSUME NEW w \in Wrappers, NEW cycles \in SUBSET (0..255),
         NEW context \in Flows \cup {NoContext}, NEW stats \in SockStats
  PROVE  [w EXCEPT !.cycles_not_fully_initialized = cycles, !.context = context,
                   !.context_external = NoContext, !.stats = stats,
                   !.is_stale = FALSE, !.is_complete = FALSE] \in Wrappers
BY ZenonT(60) DEF Wrappers, SockWrapper

LEMMA StatusFieldsType ==
  ASSUME NEW w \in Wrappers, NEW cycles \in SUBSET (0..255),
         NEW stale \in BOOLEAN, NEW complete \in BOOLEAN
  PROVE  [w EXCEPT !.is_stale = stale, !.is_complete = complete,
                   !.cycles_not_fully_initialized = cycles] \in Wrappers
BY ZenonT(60) DEF Wrappers, SockWrapper

LEMMA StatsFieldsType ==
  ASSUME NEW w \in Wrappers, NEW stats \in SockStats, NEW cpus \in SUBSET Cpus
  PROVE  [w EXCEPT !.stats = stats, !.cpus = cpus] \in Wrappers
BY ZenonT(60) DEF Wrappers, SockWrapper

LEMMA UpdateContextType ==
  ASSUME NEW w \in Wrappers, NEW context \in Flows \cup {NoContext}, NEW now \in Nat
  PROVE  update_context(w, context, now) \in Wrappers
<1> DEFINE stats == [w.stats EXCEPT !.last_touched_us = now]
           cycles == IF ~is_valid(w.context) /\ is_valid(context) THEN {}
                     ELSE w.cycles_not_fully_initialized
<1>1. stats \in SockStats
  BY Zenon DEF Wrappers, SockWrapper, SockStats
<1>2. cycles \in SUBSET (0..255)
  BY Zenon DEF Wrappers, SockWrapper
<1>3. update_context(w, context, now) =
        [w EXCEPT !.cycles_not_fully_initialized = cycles, !.context = context,
                  !.context_external = NoContext, !.stats = stats,
                  !.is_stale = FALSE, !.is_complete = FALSE]
  BY Zenon DEF update_context
<1> HIDE DEF stats, cycles
<1>4. [w EXCEPT !.cycles_not_fully_initialized = cycles, !.context = context,
                !.context_external = NoContext, !.stats = stats,
                !.is_stale = FALSE, !.is_complete = FALSE] \in Wrappers
  BY <1>1, <1>2, ContextFieldsType, ZenonT(60)
<1> QED BY <1>3, <1>4, Zenon

LEMMA UpdateStatusType ==
  ASSUME NEW w \in Wrappers, NEW t \in Nat
  PROVE  update_status(w, t) \in Wrappers
<1> DEFINE stale == w.stats.last_touched_us <= t
           complete == is_valid(w.context) /\ is_closed(w.stats)
           old == w.cycles_not_fully_initialized
           cycles == IF is_valid(w.context) THEN {}
                     ELSE IF old = {} THEN {0} ELSE add_cycle(old)
<1>1. add_cycle(w.cycles_not_fully_initialized) \in SUBSET (0..255)
  BY AddCycleType DEF Wrappers, SockWrapper
<1>2. cycles \in SUBSET (0..255)
  BY <1>1
<1>3. stale \in BOOLEAN /\ complete \in BOOLEAN
  BY DEF is_closed
<1>4. update_status(w, t) =
        [w EXCEPT !.is_stale = stale, !.is_complete = complete,
                  !.cycles_not_fully_initialized = cycles]
  BY Zenon DEF update_status
<1> HIDE DEF stale, complete, cycles
<1>5. [w EXCEPT !.is_stale = stale, !.is_complete = complete,
                !.cycles_not_fully_initialized = cycles] \in Wrappers
  BY <1>2, <1>3, StatusFieldsType, ZenonT(60)
<1> QED BY <1>4, <1>5, Zenon

LEMMA NotInRoundType ==
  ASSUME NEW w \in Wrappers, NEW t \in Nat
  PROVE  not_in_round(w, t) \in Wrappers
<1>1. add_cycle(w.cycles_not_fully_initialized) \in SUBSET (0..255)
  BY AddCycleType DEF Wrappers, SockWrapper
<1>2. (w.stats.last_touched_us <= t) \in BOOLEAN
  OBVIOUS
<1> QED BY ZenonT(60), <1>1, <1>2 DEF not_in_round, Wrappers, SockWrapper

LEMMA AddContextType ==
  ASSUME NEW cache, IsMap(cache, Socks, Wrappers), NEW sock \in Socks,
         NEW context \in Flows, NEW now \in Nat
  PROVE  IsMap(add_context(cache, sock, context, now), Socks, Wrappers)
<1>1. CASE add_context_fails(cache, sock)
  BY Zenon, <1>1 DEF add_context
<1>2. CASE ~add_context_fails(cache, sock)
  <2>1. [DefaultStats EXCEPT !.last_touched_us = now] \in SockStats
    BY Zenon, DefaultStatsType DEF SockStats
  <2>2. new_wrapper(context, [DefaultStats EXCEPT !.last_touched_us = now], {})
          \in Wrappers
    BY Zenon, <2>1, NewWrapperType
  <2>3. sock \in DOMAIN cache => update_context(cache[sock], context, now) \in Wrappers
    BY Zenon, UpdateContextType DEF IsMap
  <2> QED BY Zenon, <1>2, <2>2, <2>3 DEF add_context, IsMap
<1> QED BY Zenon, <1>1, <1>2

LEMMA UpdateStatsType ==
  ASSUME NEW cache, IsMap(cache, Socks, Wrappers),
         NEW incoming, IsMap(incoming, Socks, AggSockStats), NEW t \in Nat
  PROVE  IsMap(update_stats(cache, incoming, t), Socks, Wrappers)
<1>1. \A s \in DOMAIN cache : not_in_round(cache[s], t) \in Wrappers
  BY Zenon, NotInRoundType DEF IsMap
<1>2. \A s \in DOMAIN incoming :
        incoming[s].stats \in SockStats /\ incoming[s].cpus \in SUBSET Cpus
  BY Zenon DEF IsMap, AggSockStats
<1>3. \A s \in DOMAIN incoming \cap DOMAIN cache :
        [cache[s] EXCEPT !.stats = incoming[s].stats, !.cpus = incoming[s].cpus]
          \in Wrappers
  BY Zenon, <1>2, StatsFieldsType DEF IsMap
<1>4. \A s \in DOMAIN incoming :
        new_wrapper(NoContext, incoming[s].stats, incoming[s].cpus) \in Wrappers
  BY Zenon, <1>2, NewWrapperType
<1>5. \A s \in DOMAIN incoming :
        update_status(
            IF s \in DOMAIN cache
            THEN [cache[s] EXCEPT !.stats = incoming[s].stats,
                                  !.cpus = incoming[s].cpus]
            ELSE new_wrapper(NoContext, incoming[s].stats, incoming[s].cpus), t)
          \in Wrappers
  BY Zenon, <1>3, <1>4, UpdateStatusType
<1> QED BY Zenon, <1>1, <1>5 DEF update_stats, IsMap

LEMMA StoreNatType ==
  ASSUME NEW cache, IsMap(cache, Socks, Wrappers), NEW nat \in NatTables
  PROVE  IsMap(store_beyond_nat_entries(cache, nat), Socks, Wrappers)
BY EventProviderAssumption
DEF EventProviderAssumption, store_beyond_nat_entries, IsMap, Wrappers, SockWrapper

LEMMA DeltasType ==
  ASSUME NEW cache, IsMap(cache, Socks, Wrappers),
         NEW incoming, IsMap(incoming, Socks, AggSockStats)
  PROVE  IsMap(get_deltas(cache, incoming), Socks, SockStats)
<1>1. \A s \in DOMAIN incoming : incoming[s].stats \in SockStats
  BY Zenon DEF IsMap, AggSockStats
<1>2. \A s \in DOMAIN cache : cache[s].stats \in SockStats
  BY Zenon DEF IsMap, Wrappers, SockWrapper
<1> QED BY Zenon, <1>1, <1>2, SubtractType DEF get_deltas, IsMap

LEMMA ContextType ==
  ASSUME NEW w \in Wrappers
  PROVE  context_beyond_nat(w) \in Flows \cup {NoContext}
BY Zenon DEF context_beyond_nat, Wrappers, SockWrapper

LEMMA AddToFlowType ==
  ASSUME NEW share \in Share, NEW delta \in SockStats, NEW completes
  PROVE  /\ add_to_flow(share, delta, completes) \in Share
         /\ clear_levels(share) \in Share
         /\ NoShare \in Share
<1>1. level_of(delta.state_flags) \in Levels
  BY Zenon DEF level_of, Levels
<1> QED
  BY <1>1, NetworkAssumption
  DEF NetworkAssumption, add_to_flow, clear_levels, NoShare, Share, Levels,
      SockStats, Counter

-----------------------------------------------------------------------------
\* The steps of the agent.

LEMMA SamplingIntervalType ==
  /\ increase_sampling_interval(0) \in 1..MaxSamplingInterval
  /\ \A x \in 1..MaxSamplingInterval :
       /\ increase_sampling_interval(x) \in 1..MaxSamplingInterval
       /\ decrease_sampling_interval(x) \in 1..MaxSamplingInterval
<1>1. increase_sampling_interval(0) \in 1..MaxSamplingInterval
  BY MaxSamplingAssumption DEF MaxSamplingAssumption, increase_sampling_interval
<1>2. ASSUME NEW x \in 1..MaxSamplingInterval
      PROVE  increase_sampling_interval(x) \in 1..MaxSamplingInterval
  <2>1. x \in Nat /\ x >= 1 /\ x <= MaxSamplingInterval
    BY MaxSamplingAssumption DEF MaxSamplingAssumption
  <2>2. (3 * x) \div 2 \in Nat /\ (3 * x) \div 2 >= 1
    BY <2>1
  <2> QED BY <2>1, <2>2, MaxSamplingAssumption
          DEF MaxSamplingAssumption, increase_sampling_interval
<1>3. ASSUME NEW x \in 1..MaxSamplingInterval
      PROVE  decrease_sampling_interval(x) \in 1..MaxSamplingInterval
  <2>1. x \in Nat /\ x >= 1 /\ x <= MaxSamplingInterval
    BY MaxSamplingAssumption DEF MaxSamplingAssumption
  <2>2. x > 1 => (x + 7 - 1) \div 7 \in 0..(x - 1)
    BY <2>1
  <2> QED BY <2>1, <2>2, MaxSamplingAssumption
          DEF MaxSamplingAssumption, decrease_sampling_interval, div_ceil
<1> QED BY Zenon, <1>1, <1>2, <1>3

LEMMA KernelUnchanged ==
  ASSUME KernelTypeOK, UNCHANGED kernel_vars
  PROVE  KernelTypeOK'
BY Zenon DEF KernelTypeOK, kernel_vars

LEMMA SaturatingSubType ==
  ASSUME NEW a \in Nat, NEW b \in Nat
  PROVE  saturating_sub(a, b) \in Nat
BY DEF saturating_sub

LEMMA StartCycleType ==
  ASSUME TypeOK, StartCycle
  PROVE  TypeOK'
<1>1. NFM_CONTROL' \in 1..MaxSamplingInterval
  BY Zenon, SamplingIntervalType DEF TypeOK, StartCycle
<1>2. todo' \subseteq CpuSockKey /\ cycle_us' \in Nat
  BY Zenon DEF TypeOK, StartCycle, KernelTypeOK, IsMap
<1>3. KernelTypeOK'
  <2>1. NFM_CONTROL' \in Nat
    BY <1>1, MaxSamplingAssumption DEF MaxSamplingAssumption
  <2> QED BY Zenon, <2>1 DEF TypeOK, KernelTypeOK, StartCycle
<1> QED BY Zenon, <1>1, <1>2, <1>3 DEF TypeOK, StartCycle

LEMMA ReadPropsType ==
  ASSUME TypeOK, NEW key \in CpuSockKey, ReadProps(key)
  PROVE  TypeOK'
<1>1. NoTrack \div 2 \in Nat
  BY EventProviderAssumption DEF EventProviderAssumption
<1>2. saturating_sub(cycle_us, NoTrack \div 2) \in Nat
  BY Zenon, <1>1, SaturatingSubType DEF TypeOK
<1>3. NFM_SK_PROPS[key] \in Flows /\ key[2] \in Socks
  BY Zenon DEF TypeOK, KernelTypeOK, IsMap, ReadProps, CpuSockKey
<1>4. IsMap(sock_cache', Socks, Wrappers)
  BY Zenon, <1>2, <1>3, AddContextType DEF TypeOK, ReadProps, Wrappers
<1>5. KernelTypeOK'
  BY Zenon, KernelUnchanged DEF TypeOK, ReadProps
<1>6. /\ pc' \in {"idle", "props", "free", "stats", "evict"}
      /\ todo' \subseteq CpuSockKey /\ new_cpu_sock_keys' \subseteq CpuSockKey
  BY Zenon DEF TypeOK, ReadProps
<1> QED BY Zenon, <1>4, <1>5, <1>6 DEF TypeOK, ReadProps, kernel_vars, Wrappers

LEMMA FreePropsType ==
  ASSUME TypeOK, NEW key \in CpuSockKey, FreeProps(key)
  PROVE  TypeOK'
<1>1. IsMap(NFM_SK_PROPS', CpuSockKey, Flows)
  BY Zenon, RemoveIsMap DEF TypeOK, KernelTypeOK, FreeProps
<1>2. KernelTypeOK'
  BY Zenon, <1>1 DEF TypeOK, KernelTypeOK, FreeProps
<1> QED BY Zenon, <1>2 DEF TypeOK, FreeProps

LEMMA CopyStatsType ==
  ASSUME TypeOK, NEW key \in CpuSockKey, CopyStats(key)
  PROVE  TypeOK'
<1>1. NFM_SK_STATS[key] \in SockStats
  BY Zenon DEF TypeOK, KernelTypeOK, IsMap, CopyStats
<1>2. copying' \subseteq StatsCopy /\ \A x, y \in copying' : x = y
  BY <1>1 DEF CopyStats, StatsCopy, SockStats
<1>3. KernelTypeOK'
  BY Zenon, KernelUnchanged DEF TypeOK, CopyStats
<1> QED BY Zenon, <1>2, <1>3 DEF TypeOK, CopyStats, kernel_vars

LEMMA CopiedStatsType ==
  ASSUME TypeOK, NEW copy \in copying, copy.key \in DOMAIN NFM_SK_STATS
  PROVE  CopiedStats(copy) \in SockStats
<1>1. NFM_SK_STATS[copy.key] \in SockStats /\ copy \in StatsCopy
  BY Zenon DEF TypeOK, KernelTypeOK, IsMap
<1> QED BY Zenon, <1>1 DEF CopiedStats, SockStats, StatsCopy

LEMMA AggregateSockStatsType ==
  ASSUME TypeOK, EntryInv, aggregate_sock_stats
  PROVE  TypeOK'
<1>1. PICK copy \in copying :
        LET sock  == copy.key[2]
            stats == CopiedStats(copy)
            agg   == IF sock \in DOMAIN sock_stream THEN sock_stream[sock]
                     ELSE [stats |-> DefaultStats, cpus |-> {}]
        IN  /\ sock_stream' = Put(sock_stream, sock,
                                  [stats |-> add_from(agg.stats, stats),
                                   cpus |-> agg.cpus \cup {copy.key[1]}])
            /\ todo' = todo \ {copy.key}
            /\ torn_close' \in {torn_close, torn_close \cup {sock}}
  BY Zenon DEF aggregate_sock_stats
<1> DEFINE sock == copy.key[2]
           stats == CopiedStats(copy)
           agg == IF sock \in DOMAIN sock_stream THEN sock_stream[sock]
                  ELSE [stats |-> DefaultStats, cpus |-> {}]
<1>2. copy.key \in CpuSockKey /\ sock \in Socks /\ copy.key[1] \in Cpus
  BY Zenon DEF TypeOK, StatsCopy, CpuSockKey
<1>3. stats \in SockStats
  BY Zenon, CopiedStatsType DEF EntryInv
<1>4. agg \in AggSockStats
  BY Zenon, DefaultStatsType DEF TypeOK, IsMap, AggSockStats
<1> DEFINE new == [stats |-> add_from(agg.stats, stats),
                   cpus |-> agg.cpus \cup {copy.key[1]}]
<1>5. sock_stream' = Put(sock_stream, sock, new)
  BY Zenon, <1>1
<1>6. torn_close' \subseteq Socks /\ todo' \subseteq CpuSockKey
  BY Zenon, <1>1, <1>2 DEF TypeOK
<1> HIDE DEF sock, stats, agg
<1>7. agg.stats \in SockStats /\ agg.cpus \in SUBSET Cpus
  BY Zenon, <1>4 DEF AggSockStats
<1>8. new \in AggSockStats
  BY Zenon, <1>2, <1>3, <1>7, AddFromType DEF AggSockStats
<1> HIDE DEF new
<1>9. IsMap(sock_stream', Socks, AggSockStats)
  BY Zenon, <1>2, <1>5, <1>8, PutIsMap DEF TypeOK
<1>10. KernelTypeOK'
  BY Zenon, KernelUnchanged DEF TypeOK, aggregate_sock_stats
<1> QED BY Zenon, <1>6, <1>9, <1>10 DEF TypeOK, aggregate_sock_stats, kernel_vars

LEMMA EvictionType ==
  ASSUME TypeOK, NEW key \in CpuSockKey, perform_bpf_eviction(key)
  PROVE  TypeOK'
<1>1. IsMap(NFM_SK_STATS', CpuSockKey, SockStats)
  BY Zenon, RemoveIsMap DEF TypeOK, KernelTypeOK, perform_bpf_eviction
<1>2. KernelTypeOK'
  BY Zenon, <1>1 DEF TypeOK, KernelTypeOK, perform_bpf_eviction
<1>3. to_evict' \subseteq CpuSockKey
  BY Zenon DEF TypeOK, perform_bpf_eviction
<1> QED BY Zenon, <1>2, <1>3 DEF TypeOK, perform_bpf_eviction

\* The flows a round may touch are flows.
LEMMA FlowsType ==
  ASSUME TypeOK, NEW cache, IsMap(cache, Socks, Wrappers),
         NEW deltas, DOMAIN deltas \subseteq DOMAIN cache,
         NEW admitted \in Admissible(NewFlows(cache, deltas))
  PROVE  DOMAIN flow_cache \cup admitted \subseteq Flows
<1>1. \A s \in DOMAIN deltas : context_beyond_nat(cache[s]) \in Flows \cup {NoContext}
  BY Zenon, ContextType DEF IsMap
<1>2. NewFlows(cache, deltas) \subseteq Flows
  BY Zenon, <1>1 DEF NewFlows
<1>3. admitted \subseteq NewFlows(cache, deltas)
  BY Zenon DEF Admissible
<1> QED BY Zenon, <1>2, <1>3 DEF TypeOK, IsMap

LEMMA AggregateIntoFlowsType ==
  ASSUME TypeOK, NEW cache, NEW deltas, IsMap(deltas, Socks, SockStats),
         NEW flows \in SUBSET Flows
  PROVE  IsMap(aggregate_into_flows(cache, deltas, flows), Flows, [Socks -> Share])
<1> SUFFICES ASSUME NEW f \in flows, NEW s \in Socks
             PROVE  aggregate_into_flows(cache, deltas, flows)[f][s] \in Share
  BY Zenon DEF aggregate_into_flows, IsMap
<1> DEFINE share == IF f \in DOMAIN flow_cache
                    THEN clear_levels(flow_cache[f][s]) ELSE NoShare
<1>1. DefaultStats \in SockStats
  BY Zenon, DefaultStatsType
<1>2. NoShare \in Share
  BY Zenon DEF NoShare, Share, Levels
<1>3. f \in DOMAIN flow_cache => flow_cache[f][s] \in Share
  BY Zenon DEF TypeOK, IsMap
<1>4. share \in Share
  BY Zenon, <1>1, <1>2, <1>3, AddToFlowType
<1>5. s \in DOMAIN deltas => deltas[s] \in SockStats
  BY Zenon DEF IsMap
<1>6. s \in DOMAIN deltas =>
        add_to_flow(share, deltas[s], should_evict(cache[s])) \in Share
  BY Zenon, <1>4, <1>5, AddToFlowType
<1> QED BY Zenon, <1>4, <1>6 DEF aggregate_into_flows

-----------------------------------------------------------------------------
\* One round: the cache and the deltas that Aggregate works with.

Deltas == get_deltas(sock_cache, sock_stream)

Updated == update_stats(sock_cache, sock_stream, saturating_sub(cycle_us, NoTrack))

RoundCache(nat) == store_beyond_nat_entries(Updated, nat)

Round(nat, admitted) ==
  /\ CreditFlows(RoundCache(nat), Deltas, DOMAIN flow_cache \cup admitted)
  /\ EvictFromCache(RoundCache(nat))

LEMMA AggregateIsRound ==
  ASSUME Aggregate
  PROVE  \E nat \in NatTables :
           \E admitted \in Admissible(NewFlows(RoundCache(nat), Deltas)) :
             Round(nat, admitted)
BY Zenon DEF Aggregate, Deltas, Updated, RoundCache, Round

\* update_status and not_in_round touch only the status of a wrapper.
LEMMA StatusKeeps ==
  ASSUME NEW w \in Wrappers, NEW t \in Nat
  PROVE  /\ update_status(w, t).stats = w.stats
         /\ update_status(w, t).cpus = w.cpus
         /\ update_status(w, t).context = w.context
         /\ update_status(w, t).context_external = w.context_external
         /\ not_in_round(w, t).stats = w.stats
         /\ not_in_round(w, t).cpus = w.cpus
         /\ not_in_round(w, t).context = w.context
         /\ not_in_round(w, t).context_external = w.context_external
BY Zenon DEF update_status, not_in_round, Wrappers, SockWrapper

LEMMA ExternalKeeps ==
  ASSUME NEW w \in Wrappers, NEW external
  PROVE  /\ [w EXCEPT !.context_external = external].stats = w.stats
         /\ [w EXCEPT !.context_external = external].cpus = w.cpus
         /\ [w EXCEPT !.context_external = external].context = w.context
BY Zenon DEF Wrappers, SockWrapper

LEMMA UpdatedFacts ==
  ASSUME TypeOK
  PROVE  /\ IsMap(Updated, Socks, Wrappers)
         /\ DOMAIN Updated = DOMAIN sock_cache \cup DOMAIN sock_stream
         /\ \A s \in DOMAIN sock_stream :
              /\ Updated[s].stats = sock_stream[s].stats
              /\ Updated[s].cpus = sock_stream[s].cpus
         /\ \A s \in DOMAIN sock_cache \ DOMAIN sock_stream :
              /\ Updated[s].stats = sock_cache[s].stats
              /\ Updated[s].cpus = sock_cache[s].cpus
         /\ \A s \in DOMAIN sock_cache :
              /\ Updated[s].context = sock_cache[s].context
              /\ Updated[s].context_external = sock_cache[s].context_external
         /\ \A s \in DOMAIN sock_stream \ DOMAIN sock_cache :
              /\ Updated[s].context = NoContext
              /\ Updated[s].context_external = NoContext
<1> DEFINE t == saturating_sub(cycle_us, NoTrack)
           in_round(s) == IF s \in DOMAIN sock_cache
                          THEN [sock_cache[s] EXCEPT !.stats = sock_stream[s].stats,
                                                     !.cpus = sock_stream[s].cpus]
                          ELSE new_wrapper(NoContext, sock_stream[s].stats,
                                           sock_stream[s].cpus)
<1>1. t \in Nat
  BY Zenon, SaturatingSubType, EventProviderAssumption DEF EventProviderAssumption, TypeOK
<1> HIDE DEF t
<1>2. Updated = [s \in DOMAIN sock_cache \cup DOMAIN sock_stream |->
                   IF s \notin DOMAIN sock_stream THEN not_in_round(sock_cache[s], t)
                   ELSE update_status(in_round(s), t)]
  BY Zenon DEF Updated, update_stats, t
<1>3. IsMap(Updated, Socks, Wrappers)
  BY Zenon, <1>1, UpdateStatsType DEF TypeOK, Wrappers, Updated, t
<1>4. \A s \in DOMAIN sock_stream :
        sock_stream[s].stats \in SockStats /\ sock_stream[s].cpus \in SUBSET Cpus
  BY Zenon DEF TypeOK, IsMap, AggSockStats
<1>5. \A s \in DOMAIN sock_cache : sock_cache[s] \in Wrappers
  BY Zenon DEF TypeOK, IsMap, Wrappers
<1>6. \A s \in DOMAIN sock_stream :
        /\ in_round(s) \in Wrappers
        /\ in_round(s).stats = sock_stream[s].stats
        /\ in_round(s).cpus = sock_stream[s].cpus
        /\ s \in DOMAIN sock_cache =>
             /\ in_round(s).context = sock_cache[s].context
             /\ in_round(s).context_external = sock_cache[s].context_external
        /\ s \notin DOMAIN sock_cache =>
             /\ in_round(s).context = NoContext
             /\ in_round(s).context_external = NoContext
  <2> SUFFICES ASSUME NEW s \in DOMAIN sock_stream
               PROVE  /\ in_round(s) \in Wrappers
                      /\ in_round(s).stats = sock_stream[s].stats
                      /\ in_round(s).cpus = sock_stream[s].cpus
                      /\ s \in DOMAIN sock_cache =>
                           /\ in_round(s).context = sock_cache[s].context
                           /\ in_round(s).context_external = sock_cache[s].context_external
                      /\ s \notin DOMAIN sock_cache =>
                           /\ in_round(s).context = NoContext
                           /\ in_round(s).context_external = NoContext
    BY Zenon
  <2>1. CASE s \in DOMAIN sock_cache
    <3>1. in_round(s) \in Wrappers
      BY Zenon, <1>4, <1>5, <2>1, StatsFieldsType
    <3> QED BY <1>5, <2>1, <3>1 DEF Wrappers, SockWrapper
  <2>2. CASE s \notin DOMAIN sock_cache
    <3>1. in_round(s) \in Wrappers
      BY Zenon, <1>4, <2>2, NewWrapperType
    <3> QED BY Zenon, <2>2, <3>1 DEF new_wrapper
  <2> QED BY Zenon, <2>1, <2>2
<1> HIDE DEF in_round
<1>7. \A s \in DOMAIN sock_stream : Updated[s] = update_status(in_round(s), t)
  BY Zenon, <1>2
<1>8. \A s \in DOMAIN sock_cache \ DOMAIN sock_stream :
        Updated[s] = not_in_round(sock_cache[s], t)
  BY Zenon, <1>2
<1>9. \A s \in DOMAIN sock_stream :
        /\ Updated[s].stats = in_round(s).stats
        /\ Updated[s].cpus = in_round(s).cpus
        /\ Updated[s].context = in_round(s).context
        /\ Updated[s].context_external = in_round(s).context_external
  BY <1>1, <1>6, <1>7, StatusKeeps
<1>10. \A s \in DOMAIN sock_cache \ DOMAIN sock_stream :
        /\ Updated[s].stats = sock_cache[s].stats
        /\ Updated[s].cpus = sock_cache[s].cpus
        /\ Updated[s].context = sock_cache[s].context
        /\ Updated[s].context_external = sock_cache[s].context_external
  BY <1>1, <1>5, <1>8, StatusKeeps
<1>11. DOMAIN Updated = DOMAIN sock_cache \cup DOMAIN sock_stream
  BY Zenon, <1>2
<1> QED BY <1>3, <1>6, <1>9, <1>10, <1>11

LEMMA RoundCacheFacts ==
  ASSUME TypeOK, NEW nat \in NatTables
  PROVE  /\ IsMap(RoundCache(nat), Socks, Wrappers)
         /\ DOMAIN RoundCache(nat) = DOMAIN Updated
         /\ \A s \in DOMAIN Updated :
              /\ RoundCache(nat)[s].stats = Updated[s].stats
              /\ RoundCache(nat)[s].cpus = Updated[s].cpus
              /\ RoundCache(nat)[s].context = Updated[s].context
              /\ is_valid(RoundCache(nat)[s].context_external) =>
                   is_valid(Updated[s].context_external) \/ is_valid(Updated[s].context)
<1>1. IsMap(Updated, Socks, Wrappers)
  BY Zenon, UpdatedFacts
<1>2. \A s \in DOMAIN Updated : Updated[s] \in Wrappers
  BY Zenon, <1>1 DEF IsMap
<1>3. NoContext \notin DOMAIN nat
  BY Zenon, EventProviderAssumption, NetworkAssumption
  DEF EventProviderAssumption, NetworkAssumption
<1>4. DOMAIN RoundCache(nat) = DOMAIN Updated
  BY Zenon DEF RoundCache, store_beyond_nat_entries
<1>5. \A s \in DOMAIN Updated :
        \/ RoundCache(nat)[s] = Updated[s]
        \/ /\ is_valid(Updated[s].context)
           /\ RoundCache(nat)[s] =
                [Updated[s] EXCEPT !.context_external = nat[Updated[s].context]]
  BY Zenon, <1>3 DEF RoundCache, store_beyond_nat_entries
<1>6. \A s \in DOMAIN Updated :
        /\ RoundCache(nat)[s].stats = Updated[s].stats
        /\ RoundCache(nat)[s].cpus = Updated[s].cpus
        /\ RoundCache(nat)[s].context = Updated[s].context
  <2> TAKE s \in DOMAIN Updated
  <2> DEFINE external == nat[Updated[s].context]
             moved == [Updated[s] EXCEPT !.context_external = external]
  <2>1. /\ moved.stats = Updated[s].stats
        /\ moved.cpus = Updated[s].cpus
        /\ moved.context = Updated[s].context
    BY <1>2, ExternalKeeps, Zenon
  <2>2. RoundCache(nat)[s] = Updated[s] \/ RoundCache(nat)[s] = moved
    BY Zenon, <1>5
  <2> HIDE DEF moved
  <2> QED BY Zenon, <2>1, <2>2
<1> QED BY Zenon, <1>1, <1>4, <1>5, <1>6, StoreNatType DEF RoundCache

LEMMA DeltasFacts ==
  ASSUME TypeOK
  PROVE  IsMap(Deltas, Socks, SockStats) /\ DOMAIN Deltas = DOMAIN sock_stream
<1>1. IsMap(Deltas, Socks, SockStats)
  BY Zenon, DeltasType DEF TypeOK, Wrappers, Deltas
<1> QED BY Zenon, <1>1 DEF Deltas, get_deltas

LEMMA InFlowType ==
  ASSUME TypeOK, NEW cache, NEW flows
  PROVE  /\ InFlow(cache, Deltas, flows) \subseteq DOMAIN sock_stream
         /\ InFlow(cache, Deltas, flows) \subseteq Socks
         /\ \A s \in DOMAIN sock_stream :
              Deltas[s] \in SockStats /\ Deltas[s].bytes_received \in Nat
<1>1. \A s \in DOMAIN sock_stream : s \in Socks /\ Deltas[s] \in SockStats
  BY Zenon, DeltasFacts DEF IsMap
<1>2. \A s \in DOMAIN sock_stream : Deltas[s].bytes_received \in Nat
  BY <1>1, NetworkAssumption DEF NetworkAssumption, SockStats, Counter
<1> QED BY Zenon, <1>1, <1>2, DeltasFacts DEF InFlow

LEMMA CreditFlowsType ==
  ASSUME TypeOK, NEW cache, NEW flows \in SUBSET Flows,
         CreditFlows(cache, Deltas, flows)
  PROVE  /\ IsMap(flow_cache', Flows, [Socks -> Share])
         /\ credited' \in [Socks -> Share]
         /\ window' \in [Socks -> Nat]
         /\ dropped' \subseteq Socks
<1> DEFINE in_flow == InFlow(cache, Deltas, flows)
           added(s) == add_to_flow(credited[s], Deltas[s], should_evict(cache[s]))
<1>1. /\ flow_cache' = aggregate_into_flows(cache, Deltas, flows)
      /\ credited' = [s \in Socks |-> IF s \in in_flow THEN clear_levels(added(s))
                                                       ELSE credited[s]]
      /\ window' = [s \in Socks |->
                      IF s \in in_flow THEN window[s] + Deltas[s].bytes_received
                                       ELSE window[s]]
      /\ dropped' = dropped \cup {s \in DOMAIN Deltas \ in_flow :
                                    Deltas[s].bytes_received > 0}
  BY Zenon DEF CreditFlows
<1>2. \A s \in in_flow : s \in Socks /\ Deltas[s] \in SockStats
                         /\ Deltas[s].bytes_received \in Nat
  BY Zenon, InFlowType
<1> HIDE DEF in_flow
<1>3. \A s \in in_flow : added(s) \in Share
  BY Zenon, <1>2, AddToFlowType DEF TypeOK
<1> HIDE DEF added
<1>4. \A s \in in_flow : clear_levels(added(s)) \in Share
  BY Zenon, <1>3, DefaultStatsType, AddToFlowType
<1>5. credited' \in [Socks -> Share]
  BY Zenon, <1>1, <1>4 DEF TypeOK
<1>6. window' \in [Socks -> Nat]
  BY <1>1, <1>2 DEF TypeOK
<1>7. dropped' \subseteq Socks
  BY Zenon, <1>1, DeltasFacts DEF TypeOK, IsMap
<1> QED BY Zenon, <1>1, <1>5, <1>6, <1>7, DeltasFacts, AggregateIntoFlowsType

LEMMA AggregateType ==
  ASSUME TypeOK, Aggregate
  PROVE  TypeOK'
<1>0. PICK nat \in NatTables :
        \E admitted \in Admissible(NewFlows(RoundCache(nat), Deltas)) :
          Round(nat, admitted)
  BY Zenon, AggregateIsRound
<1>1. PICK admitted \in Admissible(NewFlows(RoundCache(nat), Deltas)) :
        Round(nat, admitted)
  BY Zenon, <1>0
<1>2. /\ IsMap(RoundCache(nat), Socks, Wrappers)
      /\ DOMAIN Deltas \subseteq DOMAIN RoundCache(nat)
  BY Zenon, RoundCacheFacts, UpdatedFacts, DeltasFacts
<1>3. DOMAIN flow_cache \cup admitted \subseteq Flows
  BY Zenon, <1>2, FlowsType
<1>4. /\ IsMap(flow_cache', Flows, [Socks -> Share])
      /\ credited' \in [Socks -> Share]
      /\ window' \in [Socks -> Nat]
      /\ dropped' \subseteq Socks
  BY Zenon, <1>1, <1>3, CreditFlowsType DEF Round
<1>5. IsMap(sock_cache', Socks, Wrappers)
  BY Zenon, <1>1, <1>2, RemoveIsMap DEF Round, EvictFromCache
<1>6. to_evict' \subseteq CpuSockKey /\ finished' \subseteq Socks
  BY Zenon, <1>1, <1>2 DEF Round, EvictFromCache, EvictedSocks, IsMap, TypeOK
<1>7. sock_stream' = EmptyMap /\ IsMap(sock_stream', Socks, AggSockStats)
  BY Zenon, EmptyIsMap DEF Aggregate
<1>8. KernelTypeOK'
  BY Zenon, KernelUnchanged DEF TypeOK, Aggregate
<1> QED BY Zenon, <1>4, <1>5, <1>6, <1>7, <1>8
        DEF TypeOK, Aggregate, Wrappers, kernel_vars

-----------------------------------------------------------------------------
LEMMA ControlUnchanged ==
  ASSUME KernelStep
  PROVE  NFM_CONTROL' = NFM_CONTROL
<1>1. \A cpu \in Cpus, sock \in Socks, state \in TcpStates :
        handle_new_sock(cpu, sock, state) => NFM_CONTROL' = NFM_CONTROL
  BY Zenon DEF handle_new_sock
<1>2. \A cpu \in Cpus, sock \in Socks, new \in TcpStates, n \in 0..1 :
        \/ handle_state_change(cpu, sock, new, n)
        \/ handle_rtt(cpu, sock, n)
        \/ handle_rto(cpu, sock)
        \/ handle_bytes_transferred_event(cpu, sock, n)
        => NFM_CONTROL' = NFM_CONTROL
  BY DEF handle_state_change, handle_rtt, handle_rto,
         handle_bytes_transferred_event
<1>3. Tick \/ (\E key \in CpuSockKey : handle_new_sock_stats(key))
        => NFM_CONTROL' = NFM_CONTROL
  BY Zenon DEF Tick, handle_new_sock_stats
<1>4. {"NEW", "SYN_SENT", "SYN_RECV", "ESTABLISHED"} \subseteq TcpStates
  BY Zenon DEF TcpStates
<1> QED BY <1>1, <1>2, <1>3, <1>4
        DEF KernelStep, handle_connect, handle_passive_established

LEMMA TypeInit == Init => TypeOK
<1> SUFFICES ASSUME Init PROVE TypeOK
  BY Zenon
<1>1. NFM_CONTROL \in 1..MaxSamplingInterval /\ NFM_CONTROL \in Nat
  BY SamplingIntervalType, MaxSamplingAssumption DEF MaxSamplingAssumption, Init
<1>2. KernelTypeOK
  <2>1. /\ tcp_state \in [Socks -> TcpStates]
        /\ kernel_bytes \in [Socks -> 0..MaxBytes]
        /\ counted_events \in [Socks -> 0..MaxEvents]
    BY SockOpsAssumption DEF SockOpsAssumption, Init, TcpStates
  <2>2. /\ IsMap(NFM_SK_PROPS, CpuSockKey, Flows)
        /\ IsMap(NFM_SK_STATS, CpuSockKey, SockStats)
    BY Zenon, EmptyIsMap DEF Init
  <2>3. now_us \in Nat
    BY Zenon, SockOpsAssumption DEF SockOpsAssumption, Init
  <2> QED BY Zenon, <1>1, <2>1, <2>2, <2>3 DEF Init, KernelTypeOK
<1>3. NoShare \in Share
  BY Zenon DEF NoShare, Share, Levels
<1>4. /\ IsMap(sock_cache, Socks, SockWrapper(Cpus))
      /\ IsMap(sock_stream, Socks, AggSockStats)
      /\ IsMap(flow_cache, Flows, [Socks -> Share])
  BY Zenon, EmptyIsMap DEF Init
<1> QED BY Zenon, <1>1, <1>2, <1>3, <1>4 DEF Init, TypeOK

\* TypeOK alone is not inductive: an entry that is being copied must not be
\* removed between the two halves of the copy, which EntryInv says.
LEMMA TypeStep ==
  ASSUME TypeOK, EntryInv, [Next]_vars
  PROVE  TypeOK'
<1>1. CASE KernelStep
  <2>1. KernelTypeOK'
    BY Zenon, <1>1, KernelStepType DEF TypeOK
  <2>2. NFM_CONTROL' = NFM_CONTROL
    BY Zenon, <1>1, ControlUnchanged
  <2> QED BY Zenon, <1>1, <2>1, <2>2 DEF TypeOK, KernelStep, agent_vars
<1>2. CASE StartCycle
  BY Zenon, <1>2, StartCycleType
<1>3. CASE \E key \in CpuSockKey : ReadProps(key)
  BY Zenon, <1>3, ReadPropsType
<1>4. CASE PropsRead
  <2>1. KernelTypeOK'
    BY Zenon, <1>4, KernelUnchanged DEF TypeOK, PropsRead
  <2> QED BY Zenon, <1>4, <2>1 DEF TypeOK, PropsRead, kernel_vars
<1>5. CASE \E key \in CpuSockKey : FreeProps(key)
  BY Zenon, <1>5, FreePropsType
<1>6. CASE PropsFreed
  <2>1. KernelTypeOK'
    BY Zenon, <1>6, KernelUnchanged DEF TypeOK, PropsFreed
  <2>2. todo' \subseteq CpuSockKey
    BY Zenon, <1>6 DEF TypeOK, KernelTypeOK, IsMap, PropsFreed
  <2> QED BY Zenon, <1>6, <2>1, <2>2 DEF TypeOK, PropsFreed, kernel_vars
<1>7. CASE \E key \in CpuSockKey : CopyStats(key)
  BY Zenon, <1>7, CopyStatsType
<1>8. CASE aggregate_sock_stats
  BY Zenon, <1>8, AggregateSockStatsType
<1>9. CASE Aggregate
  BY Zenon, <1>9, AggregateType
<1>10. CASE \E key \in CpuSockKey : perform_bpf_eviction(key)
  BY Zenon, <1>10, EvictionType
<1>11. CASE EndCycle
  <2>1. KernelTypeOK'
    BY Zenon, <1>11, KernelUnchanged DEF TypeOK, EndCycle
  <2> QED BY Zenon, <1>11, <2>1 DEF TypeOK, EndCycle, kernel_vars
<1>12. CASE network_stats
  <2>1. KernelTypeOK'
    BY Zenon, <1>12, KernelUnchanged DEF TypeOK, network_stats
  <2>2. IsMap(flow_cache', Flows, [Socks -> Share]) /\ window' \in [Socks -> Nat]
    BY Zenon, <1>12, EmptyIsMap DEF network_stats
  <2> QED BY Zenon, <1>12, <2>1, <2>2 DEF TypeOK, network_stats, kernel_vars
<1>13. CASE UNCHANGED vars
  <2>1. KernelTypeOK'
    BY Zenon, <1>13, KernelUnchanged DEF TypeOK, vars
  <2> QED BY Zenon, <1>13, <2>1 DEF TypeOK, vars, kernel_vars, agent_vars
<1> QED BY Zenon, <1>1, <1>2, <1>3, <1>4, <1>5, <1>6, <1>7, <1>8, <1>9, <1>10, <1>11,
           <1>12, <1>13 DEF Next, AgentStep

-----------------------------------------------------------------------------
(* What the handlers may do to what the agent relies on. *)

\* Entries stay, and their copies of the kernel's byte counter only grow.
BytesMove ==
  /\ DOMAIN NFM_SK_STATS \subseteq DOMAIN NFM_SK_STATS'
  /\ \A key \in DOMAIN NFM_SK_STATS :
       NFM_SK_STATS[key].bytes_received <= NFM_SK_STATS'[key].bytes_received
  /\ \A key \in DOMAIN NFM_SK_STATS' :
       NFM_SK_STATS'[key].bytes_received <= kernel_bytes'[key[2]]
  /\ \A s \in Socks : kernel_bytes[s] <= kernel_bytes'[s]

\* A context is inserted only for a socket that is new.
ContextsMove ==
  /\ \A s \in Socks : tcp_state'[s] = "NEW" => tcp_state[s] = "NEW"
  /\ \/ UNCHANGED NFM_SK_PROPS
     \/ \E key \in CpuSockKey, context \in Flows :
          /\ tcp_state[key[2]] = "NEW"
          /\ tcp_state'[key[2]] # "NEW"
          /\ key \notin DOMAIN NFM_SK_PROPS
          /\ NFM_SK_PROPS' = Put(NFM_SK_PROPS, key, context)

EntriesLag ==
  \A key \in DOMAIN NFM_SK_STATS :
    NFM_SK_STATS[key].bytes_received <= kernel_bytes[key[2]]

LEMMA BytesAreNat ==
  ASSUME NEW stats \in SockStats
  PROVE  stats.bytes_received \in Nat /\ stats.bpf_events \in Nat
BY NetworkAssumption DEF NetworkAssumption, SockStats, Counter

LEMMA StatsMapNat ==
  ASSUME NEW map, IsMap(map, CpuSockKey, SockStats)
  PROVE  \A key \in DOMAIN map : map[key].bytes_received \in Nat
BY Zenon, BytesAreNat DEF IsMap

LEMMA KernelBytesAreNat ==
  ASSUME KernelTypeOK, NEW s \in Socks
  PROVE  kernel_bytes[s] \in Nat
BY SockOpsAssumption DEF SockOpsAssumption, KernelTypeOK

LEMMA EntryIsStats ==
  ASSUME KernelTypeOK, NEW key \in DOMAIN NFM_SK_STATS
  PROVE  /\ key \in CpuSockKey /\ key[2] \in Socks
         /\ NFM_SK_STATS[key] \in SockStats
         /\ NFM_SK_STATS[key].bytes_received \in Nat
<1>1. key \in CpuSockKey /\ NFM_SK_STATS[key] \in SockStats
  BY Zenon DEF KernelTypeOK, IsMap
<1> QED BY Zenon, <1>1, BytesAreNat DEF CpuSockKey

LEMMA GotBytes ==
  ASSUME KernelTypeOK, EntriesLag, NEW key \in CpuSockKey
  PROVE  /\ get_or_add_sock_stats(key) \in SockStats
         /\ get_or_add_sock_stats(key).bytes_received \in Nat
         /\ get_or_add_sock_stats(key).bytes_received <= kernel_bytes[key[2]]
         /\ key \in DOMAIN NFM_SK_STATS =>
              get_or_add_sock_stats(key).bytes_received
                = NFM_SK_STATS[key].bytes_received
<1>1. get_or_add_sock_stats(key) \in SockStats
  BY Zenon, TouchedType
<1>2. CASE key \in DOMAIN NFM_SK_STATS
  <2>1. NFM_SK_STATS[key] \in SockStats
    BY Zenon, <1>2, EntryIsStats
  <2>2. get_or_add_sock_stats(key).bytes_received = NFM_SK_STATS[key].bytes_received
    BY Zenon, <1>2, <2>1 DEF get_or_add_sock_stats, SockStats
  <2> QED BY Zenon, <1>1, <1>2, <2>2, BytesAreNat DEF EntriesLag
<1>3. CASE key \notin DOMAIN NFM_SK_STATS
  <2>1. get_or_add_sock_stats(key).bytes_received = 0
    BY Zenon, <1>3 DEF get_or_add_sock_stats, DefaultStats
  <2>2. kernel_bytes[key[2]] \in Nat
    BY Zenon, KernelBytesAreNat DEF CpuSockKey
  <2> QED BY <1>1, <1>3, <2>1, <2>2
<1> QED BY Zenon, <1>2, <1>3

LEMMA CountedType ==
  ASSUME KernelTypeOK, NEW key \in CpuSockKey, CountEvent(key), NEW n \in Counter
  PROVE  wrapping_add(n, 1) \in Counter
<1>1. MaxEvents >= 1
  BY SockOpsAssumption DEF SockOpsAssumption, CountEvent, KernelTypeOK, CpuSockKey
<1>2. 1 \in Counter
  BY <1>1, SockOpsAssumption, NetworkAssumption
  DEF SockOpsAssumption, NetworkAssumption, Counter
<1> QED BY Zenon, <1>2, WrappingAddType

LEMMA StoreMoves ==
  ASSUME KernelTypeOK, KernelTypeOK', EntriesLag, NEW key \in CpuSockKey,
         NEW stats \in SockStats, StoreSockStats(key, stats),
         \A s \in Socks : kernel_bytes[s] <= kernel_bytes'[s],
         get_or_add_sock_stats(key).bytes_received <= stats.bytes_received,
         stats.bytes_received <= kernel_bytes'[key[2]]
  PROVE  BytesMove
<1>1. \A k \in DOMAIN NFM_SK_STATS :
        /\ k[2] \in Socks
        /\ NFM_SK_STATS[k].bytes_received \in Nat
        /\ NFM_SK_STATS[k].bytes_received <= kernel_bytes[k[2]]
        /\ kernel_bytes[k[2]] \in Nat
        /\ kernel_bytes'[k[2]] \in Nat
        /\ kernel_bytes[k[2]] <= kernel_bytes'[k[2]]
  <2> TAKE k \in DOMAIN NFM_SK_STATS
  <2>1. k[2] \in Socks /\ NFM_SK_STATS[k].bytes_received \in Nat
    BY Zenon, EntryIsStats
  <2>2. kernel_bytes'[k[2]] \in Nat
    BY <2>1, SockOpsAssumption DEF SockOpsAssumption, KernelTypeOK
  <2> QED BY Zenon, <2>1, <2>2, KernelBytesAreNat DEF EntriesLag
<1>2. CASE HasSockStats(key)
  <2>1. NFM_SK_STATS' = Put(NFM_SK_STATS, key, stats)
    BY Zenon, <1>2 DEF StoreSockStats
  <2>2. /\ DOMAIN NFM_SK_STATS' = DOMAIN NFM_SK_STATS \cup {key}
        /\ NFM_SK_STATS'[key] = stats
        /\ \A k \in DOMAIN NFM_SK_STATS : k # key => NFM_SK_STATS'[k] = NFM_SK_STATS[k]
    <3>1. IsMap(NFM_SK_STATS, CpuSockKey, SockStats)
      BY Zenon DEF KernelTypeOK
    <3> QED BY <2>1, <3>1, PutIsMap
  <2>3. key \in DOMAIN NFM_SK_STATS =>
          NFM_SK_STATS[key].bytes_received <= stats.bytes_received
    BY Zenon, GotBytes
  <2>4. \A k \in DOMAIN NFM_SK_STATS :
          NFM_SK_STATS[k].bytes_received <= NFM_SK_STATS'[k].bytes_received
    BY <1>1, <2>2, <2>3
  <2>5. \A k \in DOMAIN NFM_SK_STATS \ {key} :
          NFM_SK_STATS'[k].bytes_received <= kernel_bytes'[k[2]]
    BY <1>1, <2>2
  <2>6. NFM_SK_STATS'[key].bytes_received <= kernel_bytes'[key[2]]
    BY Zenon, <2>2
  <2> QED BY Zenon, <2>2, <2>4, <2>5, <2>6 DEF BytesMove
<1>3. CASE ~HasSockStats(key)
  <2>1. NFM_SK_STATS' = NFM_SK_STATS
    BY Zenon, <1>3 DEF StoreSockStats
  <2> QED BY <1>1, <2>1 DEF BytesMove
<1> QED BY Zenon, <1>2, <1>3

LEMMA NothingMoves ==
  ASSUME KernelTypeOK, EntriesLag, UNCHANGED <<NFM_SK_STATS, kernel_bytes>>
  PROVE  BytesMove
<1>1. \A key \in DOMAIN NFM_SK_STATS : NFM_SK_STATS[key].bytes_received \in Nat
  BY Zenon, EntryIsStats
<1>2. \A s \in Socks : kernel_bytes[s] \in Nat
  BY Zenon, KernelBytesAreNat
<1> QED BY <1>1, <1>2 DEF BytesMove, EntriesLag

LEMMA StateChangeMoves ==
  ASSUME KernelTypeOK, KernelTypeOK', EntriesLag, NEW cpu \in Cpus,
         NEW sock \in Socks, NEW new \in TcpStates, NEW n \in 0..1,
         handle_state_change(cpu, sock, new, n)
  PROVE  BytesMove /\ ContextsMove
<1> DEFINE key == <<cpu, sock>>
           got == get_or_add_sock_stats(key)
           bytes == IF new = "CLOSE" THEN kernel_bytes[sock] + n
                                     ELSE got.bytes_received
           flags == got.state_flags \cup NewFlags(tcp_state[sock], new)
           stats == [got EXCEPT !.state_flags = flags, !.bytes_received = bytes]
<1>1. key \in CpuSockKey /\ key[2] = sock
  BY Zenon DEF CpuSockKey
<1>2. /\ kernel_bytes[sock] + n \in Counter
      /\ kernel_bytes'[sock] = kernel_bytes[sock] + n
      /\ \A s \in Socks : kernel_bytes[s] <= kernel_bytes'[s]
  BY Zenon, TransferType DEF handle_state_change
<1>3. /\ got \in SockStats /\ got.bytes_received \in Nat
      /\ got.bytes_received <= kernel_bytes[sock]
  BY Zenon, <1>1, GotBytes
<1>4. StoreSockStats(key, stats)
  BY Zenon DEF handle_state_change
<1>5. kernel_bytes[sock] \in Nat
  BY Zenon, KernelBytesAreNat
<1>6. flags \in SUBSET SockStateFlags
  BY Zenon, <1>3 DEF SockStats, NewFlags, SockStateFlags
<1> HIDE DEF key, got, flags
<1>7. bytes \in Counter /\ got.bytes_received <= bytes /\ bytes <= kernel_bytes'[sock]
  BY <1>2, <1>3, <1>5 DEF SockStats
<1> HIDE DEF bytes
<1>8. stats \in SockStats /\ stats.bytes_received = bytes
  BY Zenon, <1>3, <1>6, <1>7 DEF SockStats
<1> HIDE DEF stats
<1>9. BytesMove
  <2>1. /\ get_or_add_sock_stats(key).bytes_received <= stats.bytes_received
        /\ stats.bytes_received <= kernel_bytes'[key[2]]
    BY Zenon, <1>1, <1>7, <1>8 DEF got
  <2> QED BY Zenon, <1>1, <1>2, <1>4, <1>8, <2>1, StoreMoves
<1>10. ContextsMove
  BY Zenon DEF handle_state_change, ContextsMove, KernelTypeOK, TcpTransitions
<1> QED BY Zenon, <1>9, <1>10

LEMMA RttMoves ==
  ASSUME KernelTypeOK, KernelTypeOK', EntriesLag, NEW cpu \in Cpus,
         NEW sock \in Socks, NEW n \in 0..1, handle_rtt(cpu, sock, n)
  PROVE  BytesMove /\ ContextsMove
<1> DEFINE key == <<cpu, sock>>
           got == get_or_add_sock_stats(key)
           events == wrapping_add(got.bpf_events, 1)
           bytes == kernel_bytes[sock] + n
           stats == [got EXCEPT !.bpf_events = events, !.bytes_received = bytes]
<1>1. key \in CpuSockKey /\ key[2] = sock
  BY Zenon DEF CpuSockKey
<1>2. /\ bytes \in Counter
      /\ kernel_bytes'[sock] = bytes
      /\ \A s \in Socks : kernel_bytes[s] <= kernel_bytes'[s]
  BY Zenon, TransferType DEF handle_rtt
<1>3. /\ got \in SockStats /\ got.bytes_received \in Nat
      /\ got.bytes_received <= kernel_bytes[sock]
  BY Zenon, <1>1, GotBytes
<1>4. StoreSockStats(key, stats) /\ CountEvent(key)
  BY Zenon DEF handle_rtt
<1>5. kernel_bytes[sock] \in Nat
  BY Zenon, KernelBytesAreNat
<1>6. events \in Counter
  BY Zenon, <1>1, <1>3, <1>4, CountedType DEF SockStats
<1> HIDE DEF key, got, events
<1>7. got.bytes_received <= bytes /\ bytes <= kernel_bytes'[sock]
  BY <1>2, <1>3, <1>5
<1> HIDE DEF bytes
<1>8. stats \in SockStats /\ stats.bytes_received = bytes
  BY Zenon, <1>2, <1>3, <1>6 DEF SockStats
<1> HIDE DEF stats
<1>9. BytesMove
  <2>1. /\ get_or_add_sock_stats(key).bytes_received <= stats.bytes_received
        /\ stats.bytes_received <= kernel_bytes'[key[2]]
    BY Zenon, <1>1, <1>7, <1>8 DEF got
  <2> QED BY Zenon, <1>1, <1>2, <1>4, <1>8, <2>1, StoreMoves
<1> QED BY Zenon, <1>9 DEF handle_rtt, ContextsMove

LEMMA RtoMoves ==
  ASSUME KernelTypeOK, KernelTypeOK', EntriesLag, NEW cpu \in Cpus,
         NEW sock \in Socks, handle_rto(cpu, sock)
  PROVE  BytesMove /\ ContextsMove
<1> DEFINE key == <<cpu, sock>>
           got == get_or_add_sock_stats(key)
           events == wrapping_add(got.bpf_events, 1)
           stats == [got EXCEPT !.bpf_events = events]
<1>1. key \in CpuSockKey /\ key[2] = sock
  BY Zenon DEF CpuSockKey
<1>2. kernel_bytes' = kernel_bytes /\ kernel_bytes[sock] \in Nat
      /\ \A s \in Socks : kernel_bytes[s] <= kernel_bytes'[s]
  BY KernelBytesAreNat DEF handle_rto
<1>3. /\ got \in SockStats /\ got.bytes_received \in Nat
      /\ got.bytes_received <= kernel_bytes[sock]
  BY Zenon, <1>1, GotBytes
<1>4. StoreSockStats(key, stats) /\ CountEvent(key)
  BY Zenon DEF handle_rto
<1>6. events \in Counter
  BY Zenon, <1>1, <1>3, <1>4, CountedType DEF SockStats
<1> HIDE DEF key, got, events
<1>8. stats \in SockStats /\ stats.bytes_received = got.bytes_received
  BY Zenon, <1>2, <1>3, <1>6 DEF SockStats
<1> HIDE DEF stats
<1>9. BytesMove
  <2>1. /\ get_or_add_sock_stats(key).bytes_received <= stats.bytes_received
        /\ stats.bytes_received <= kernel_bytes'[key[2]]
    BY <1>1, <1>2, <1>3, <1>8 DEF got
  <2> QED BY Zenon, <1>1, <1>2, <1>4, <1>8, <2>1, StoreMoves
<1> QED BY Zenon, <1>9 DEF handle_rto, ContextsMove

LEMMA BytesTransferredMoves ==
  ASSUME KernelTypeOK, KernelTypeOK', EntriesLag, NEW cpu \in Cpus,
         NEW sock \in Socks, NEW n \in 0..1,
         handle_bytes_transferred_event(cpu, sock, n)
  PROVE  BytesMove /\ ContextsMove
<1> DEFINE key == <<cpu, sock>>
           got == get_or_add_sock_stats(key)
           bytes == kernel_bytes[sock] + n
           stats == [got EXCEPT !.bytes_received = bytes]
<1>1. key \in CpuSockKey /\ key[2] = sock
  BY Zenon DEF CpuSockKey
<1>2. /\ bytes \in Counter
      /\ kernel_bytes'[sock] = bytes
      /\ \A s \in Socks : kernel_bytes[s] <= kernel_bytes'[s]
  BY Zenon, TransferType DEF handle_bytes_transferred_event
<1>3. /\ got \in SockStats /\ got.bytes_received \in Nat
      /\ got.bytes_received <= kernel_bytes[sock]
  BY Zenon, <1>1, GotBytes
<1>4. StoreSockStats(key, stats)
  BY Zenon DEF handle_bytes_transferred_event
<1>5. kernel_bytes[sock] \in Nat
  BY Zenon, KernelBytesAreNat
<1> HIDE DEF key, got
<1>7. got.bytes_received <= bytes /\ bytes <= kernel_bytes'[sock]
  BY <1>2, <1>3, <1>5
<1> HIDE DEF bytes
<1>8. stats \in SockStats /\ stats.bytes_received = bytes
  BY Zenon, <1>2, <1>3 DEF SockStats
<1> HIDE DEF stats
<1>9. BytesMove
  <2>1. /\ get_or_add_sock_stats(key).bytes_received <= stats.bytes_received
        /\ stats.bytes_received <= kernel_bytes'[key[2]]
    BY Zenon, <1>1, <1>7, <1>8 DEF got
  <2> QED BY Zenon, <1>1, <1>2, <1>4, <1>8, <2>1, StoreMoves
<1> QED BY Zenon, <1>9 DEF handle_bytes_transferred_event, ContextsMove

LEMMA NewSockStatsMoves ==
  ASSUME KernelTypeOK, KernelTypeOK', EntriesLag, NEW key \in CpuSockKey,
         handle_new_sock_stats(key)
  PROVE  BytesMove /\ ContextsMove
<1> DEFINE got == get_or_add_sock_stats(key)
           flags == got.state_flags \cup
                    (IF tcp_state[key[2]] = "ESTABLISHED" THEN {"ENTERED_ESTABLISH"}
                                                          ELSE {})
           stats == [got EXCEPT !.state_flags = flags]
<1>1. key[2] \in Socks
  BY Zenon DEF CpuSockKey
<1>2. kernel_bytes' = kernel_bytes /\ kernel_bytes[key[2]] \in Nat
      /\ \A s \in Socks : kernel_bytes[s] <= kernel_bytes'[s]
  BY <1>1, KernelBytesAreNat DEF handle_new_sock_stats
<1>3. /\ got \in SockStats /\ got.bytes_received \in Nat
      /\ got.bytes_received <= kernel_bytes[key[2]]
  BY Zenon, GotBytes
<1>4. StoreSockStats(key, stats)
  BY Zenon DEF handle_new_sock_stats
<1>6. flags \in SUBSET SockStateFlags
  BY Zenon, <1>3 DEF SockStats, SockStateFlags
<1> HIDE DEF got, flags
<1>8. stats \in SockStats /\ stats.bytes_received = got.bytes_received
  BY Zenon, <1>3, <1>6 DEF SockStats
<1> HIDE DEF stats
<1>9. BytesMove
  <2>1. /\ get_or_add_sock_stats(key).bytes_received <= stats.bytes_received
        /\ stats.bytes_received <= kernel_bytes'[key[2]]
    BY <1>2, <1>3, <1>8 DEF got
  <2> QED BY Zenon, <1>2, <1>4, <1>8, <2>1, StoreMoves
<1> QED BY Zenon, <1>9 DEF handle_new_sock_stats, ContextsMove

LEMMA NewSockMoves ==
  ASSUME KernelTypeOK, EntriesLag, NEW cpu \in Cpus, NEW sock \in Socks,
         NEW state \in TcpStates, state # "NEW", handle_new_sock(cpu, sock, state)
  PROVE  BytesMove /\ ContextsMove
<1>1. BytesMove
  BY Zenon, NothingMoves DEF handle_new_sock
<1>2. <<cpu, sock>> \in CpuSockKey /\ <<cpu, sock>>[2] = sock
  BY Zenon DEF CpuSockKey
<1>3. tcp_state[sock] = "NEW" /\ tcp_state' = [tcp_state EXCEPT ![sock] = state]
  BY Zenon DEF handle_new_sock
<1>4. \A s \in Socks : tcp_state'[s] = "NEW" => tcp_state[s] = "NEW"
  BY Zenon, <1>3 DEF KernelTypeOK
<1>5. tcp_state'[sock] # "NEW"
  BY Zenon, <1>3 DEF KernelTypeOK
<1>6. \/ UNCHANGED NFM_SK_PROPS
      \/ \E context \in Flows :
           /\ <<cpu, sock>> \notin DOMAIN NFM_SK_PROPS
           /\ NFM_SK_PROPS' = Put(NFM_SK_PROPS, <<cpu, sock>>, context)
  BY Zenon DEF handle_new_sock, CanInsertProps
<1> QED BY Zenon, <1>1, <1>2, <1>3, <1>4, <1>5, <1>6 DEF ContextsMove

LEMMA KernelMoves ==
  ASSUME KernelTypeOK, EntriesLag, KernelStep
  PROVE  BytesMove /\ ContextsMove
<1>1. KernelTypeOK'
  BY Zenon, KernelStepType
<1>2. ASSUME NEW cpu \in Cpus, NEW sock \in Socks,
             handle_connect(cpu, sock) \/ handle_passive_established(cpu, sock)
      PROVE  BytesMove /\ ContextsMove
  BY Zenon, <1>2, NewSockMoves DEF handle_connect, handle_passive_established, TcpStates
<1>3. CASE Tick
  BY Zenon, <1>3, NothingMoves DEF Tick, ContextsMove
<1> QED
  BY Zenon, <1>1, <1>2, <1>3, NewSockStatsMoves, StateChangeMoves, RttMoves, RtoMoves,
     BytesTransferredMoves DEF KernelStep

-----------------------------------------------------------------------------
(* What the handlers write. *)

\* A handler stores stats as the entry of key, counting a callback or not.
EntryWritten(key, stats) ==
  /\ key \in CpuSockKey
  /\ stats \in SockStats
  /\ NFM_SK_STATS' = Put(NFM_SK_STATS, key, stats)
  /\ now_us' = now_us
  /\ stats.last_touched_us = now_us
  /\ \/ /\ stats.bpf_events = get_or_add_sock_stats(key).bpf_events
        /\ counted_events' = counted_events
     \/ /\ stats.bpf_events = wrapping_add(get_or_add_sock_stats(key).bpf_events, 1)
        /\ counted_events[key[2]] < MaxEvents
        /\ counted_events' = [counted_events EXCEPT ![key[2]] = @ + 1]
  /\ is_closed(stats) =>
       /\ tcp_state'[key[2]] = "CLOSE"
       /\ stats.bytes_received = kernel_bytes'[key[2]]

EntriesKept ==
  /\ UNCHANGED <<NFM_SK_STATS, counted_events>>
  /\ now_us <= now_us'

EntriesMove ==
  EntriesKept \/ \E key \in CpuSockKey, stats \in SockStats : EntryWritten(key, stats)

\* The entry a handler starts from: what is there, touched.
LEMMA GotEntry ==
  ASSUME KernelTypeOK, NEW key \in CpuSockKey
  PROVE  LET got == get_or_add_sock_stats(key)
             old == IF key \in DOMAIN NFM_SK_STATS THEN NFM_SK_STATS[key]
                                                   ELSE DefaultStats
         IN  /\ got \in SockStats
             /\ old \in SockStats
             /\ got.last_touched_us = now_us
             /\ got.bytes_received = old.bytes_received
             /\ got.bpf_events = old.bpf_events
             /\ got.state_flags = old.state_flags
<1> DEFINE old == IF key \in DOMAIN NFM_SK_STATS THEN NFM_SK_STATS[key]
                                                 ELSE DefaultStats
<1>1. old \in SockStats
  BY Zenon, DefaultStatsType, EntryIsStats
<1>2. get_or_add_sock_stats(key) = [old EXCEPT !.last_touched_us = now_us]
  BY Zenon DEF get_or_add_sock_stats
<1> HIDE DEF old
<1>3. /\ get_or_add_sock_stats(key).last_touched_us = now_us
      /\ get_or_add_sock_stats(key).bytes_received = old.bytes_received
      /\ get_or_add_sock_stats(key).bpf_events = old.bpf_events
      /\ get_or_add_sock_stats(key).state_flags = old.state_flags
  BY Zenon, <1>1, <1>2 DEF SockStats
<1> QED BY Zenon, <1>1, <1>3, TouchedType DEF old

\* A socket that gets a callback has no CLOSED flag yet.
LEMMA NotYetClosed ==
  ASSUME KernelTypeOK, ClosedEntries, NEW cpu \in Cpus, NEW sock \in Socks,
         Callback(sock)
  PROVE  "CLOSED" \notin get_or_add_sock_stats(<<cpu, sock>>).state_flags
<1> DEFINE key == <<cpu, sock>>
<1>1. key \in CpuSockKey /\ key[2] = sock
  BY Zenon DEF CpuSockKey
<1>2. tcp_state[sock] # "CLOSE"
  BY Zenon DEF Callback
<1> HIDE DEF key
<1>3. CASE key \in DOMAIN NFM_SK_STATS
  <2>1. "CLOSED" \notin NFM_SK_STATS[key].state_flags
    BY Zenon, <1>1, <1>2, <1>3 DEF ClosedEntries, is_closed
  <2> QED BY Zenon, <1>1, <1>3, <2>1, GotEntry DEF key
<1>4. CASE key \notin DOMAIN NFM_SK_STATS
  <2>1. "CLOSED" \notin DefaultStats.state_flags
    BY Zenon DEF DefaultStats
  <2> QED BY Zenon, <1>1, <1>4, <2>1, GotEntry DEF key
<1> QED BY Zenon, <1>3, <1>4 DEF key

\* A handler that does not count, and one that does.
LEMMA StoreUncounted ==
  ASSUME KernelTypeOK, NEW key \in CpuSockKey, NEW stats \in SockStats,
         StoreSockStats(key, stats), UNCHANGED <<now_us, counted_events>>,
         stats.last_touched_us = now_us,
         stats.bpf_events = get_or_add_sock_stats(key).bpf_events,
         is_closed(stats) => /\ tcp_state'[key[2]] = "CLOSE"
                             /\ stats.bytes_received = kernel_bytes'[key[2]]
  PROVE  EntriesMove
<1>1. CASE HasSockStats(key)
  <2>1. NFM_SK_STATS' = Put(NFM_SK_STATS, key, stats)
    BY Zenon, <1>1 DEF StoreSockStats
  <2>2. EntryWritten(key, stats)
    BY Zenon, <2>1 DEF EntryWritten
  <2> QED BY Zenon, <2>2 DEF EntriesMove
<1>2. CASE ~HasSockStats(key)
  BY <1>2 DEF StoreSockStats, EntriesMove, EntriesKept, KernelTypeOK
<1> QED BY Zenon, <1>1, <1>2

LEMMA StoreCounted ==
  ASSUME KernelTypeOK, NEW key \in CpuSockKey, NEW stats \in SockStats,
         StoreSockStats(key, stats), now_us' = now_us, CountEvent(key),
         stats.last_touched_us = now_us,
         stats.bpf_events = wrapping_add(get_or_add_sock_stats(key).bpf_events, 1),
         ~is_closed(stats)
  PROVE  EntriesMove
<1>1. CASE HasSockStats(key)
  <2>1. NFM_SK_STATS' = Put(NFM_SK_STATS, key, stats)
    BY Zenon, <1>1 DEF StoreSockStats
  <2>2. /\ counted_events[key[2]] < MaxEvents
        /\ counted_events' = [counted_events EXCEPT ![key[2]] = @ + 1]
    BY Zenon, <1>1 DEF CountEvent
  <2>3. EntryWritten(key, stats)
    BY Zenon, <2>1, <2>2 DEF EntryWritten
  <2> QED BY Zenon, <2>3 DEF EntriesMove
<1>2. CASE ~HasSockStats(key)
  <2>1. counted_events' = counted_events
    BY Zenon, <1>2 DEF CountEvent, KernelTypeOK
  <2> QED BY <1>2, <2>1 DEF StoreSockStats, EntriesMove, EntriesKept, KernelTypeOK
<1> QED BY Zenon, <1>1, <1>2

LEMMA StateChangeWrites ==
  ASSUME KernelTypeOK, ClosedEntries, NEW cpu \in Cpus, NEW sock \in Socks,
         NEW new \in TcpStates, NEW n \in 0..1, handle_state_change(cpu, sock, new, n)
  PROVE  EntriesMove
<1> DEFINE key == <<cpu, sock>>
           got == get_or_add_sock_stats(key)
           bytes == IF new = "CLOSE" THEN kernel_bytes[sock] + n
                                     ELSE got.bytes_received
           flags == got.state_flags \cup NewFlags(tcp_state[sock], new)
           stats == [got EXCEPT !.state_flags = flags, !.bytes_received = bytes]
<1>1. key \in CpuSockKey /\ key[2] = sock
  BY Zenon DEF CpuSockKey
<1>2. /\ kernel_bytes[sock] + n \in Counter
      /\ kernel_bytes'[sock] = kernel_bytes[sock] + n
  BY Zenon, TransferType DEF handle_state_change
<1>3. /\ got \in SockStats /\ got.last_touched_us = now_us
      /\ "CLOSED" \notin got.state_flags
  BY Zenon, <1>1, GotEntry, NotYetClosed DEF handle_state_change
<1>4. /\ StoreSockStats(key, stats)
      /\ UNCHANGED <<now_us, counted_events>>
      /\ tcp_state' = [tcp_state EXCEPT ![sock] = new]
  BY Zenon DEF handle_state_change
<1>5. flags \in SUBSET SockStateFlags
  BY Zenon, <1>3 DEF SockStats, NewFlags, SockStateFlags
<1>6. "CLOSED" \in flags => new = "CLOSE"
  BY Zenon, <1>3 DEF NewFlags
<1> HIDE DEF key, got, flags
<1>7. bytes \in Counter
  BY Zenon, <1>2, <1>3 DEF SockStats
<1>8. new = "CLOSE" => bytes = kernel_bytes'[sock]
  BY Zenon, <1>2
<1> HIDE DEF bytes
<1>9. /\ stats \in SockStats /\ stats.bytes_received = bytes
      /\ stats.state_flags = flags /\ stats.bpf_events = got.bpf_events
      /\ stats.last_touched_us = got.last_touched_us
  BY Zenon, <1>3, <1>5, <1>7 DEF SockStats
<1> HIDE DEF stats
<1>10. is_closed(stats) => /\ tcp_state'[key[2]] = "CLOSE"
                           /\ stats.bytes_received = kernel_bytes'[key[2]]
  <2>1. new = "CLOSE" => tcp_state'[sock] = "CLOSE"
    BY Zenon, <1>4 DEF KernelTypeOK
  <2> QED BY Zenon, <1>1, <1>6, <1>8, <1>9, <2>1 DEF is_closed
<1> QED BY Zenon, <1>1, <1>3, <1>4, <1>9, <1>10, StoreUncounted DEF got

LEMMA RttWrites ==
  ASSUME KernelTypeOK, ClosedEntries, NEW cpu \in Cpus, NEW sock \in Socks,
         NEW n \in 0..1, handle_rtt(cpu, sock, n)
  PROVE  EntriesMove
<1> DEFINE key == <<cpu, sock>>
           got == get_or_add_sock_stats(key)
           events == wrapping_add(got.bpf_events, 1)
           bytes == kernel_bytes[sock] + n
           stats == [got EXCEPT !.bpf_events = events, !.bytes_received = bytes]
<1>1. key \in CpuSockKey
  BY Zenon DEF CpuSockKey
<1>2. bytes \in Counter
  BY Zenon, TransferType DEF handle_rtt
<1>3. /\ got \in SockStats /\ got.last_touched_us = now_us
      /\ "CLOSED" \notin got.state_flags
  BY Zenon, <1>1, GotEntry, NotYetClosed DEF handle_rtt
<1>4. StoreSockStats(key, stats) /\ CountEvent(key) /\ now_us' = now_us
  BY Zenon DEF handle_rtt
<1>5. events \in Counter
  BY Zenon, <1>1, <1>3, <1>4, CountedType DEF SockStats
<1> HIDE DEF key, got, events, bytes
<1>6. /\ stats \in SockStats /\ stats.bpf_events = events
      /\ stats.state_flags = got.state_flags
      /\ stats.last_touched_us = got.last_touched_us
  BY Zenon, <1>2, <1>3, <1>5 DEF SockStats
<1> HIDE DEF stats
<1> QED BY Zenon, <1>1, <1>3, <1>4, <1>6, StoreCounted DEF got, events, is_closed

LEMMA RtoWrites ==
  ASSUME KernelTypeOK, ClosedEntries, NEW cpu \in Cpus, NEW sock \in Socks,
         handle_rto(cpu, sock)
  PROVE  EntriesMove
<1> DEFINE key == <<cpu, sock>>
           got == get_or_add_sock_stats(key)
           events == wrapping_add(got.bpf_events, 1)
           stats == [got EXCEPT !.bpf_events = events]
<1>1. key \in CpuSockKey
  BY Zenon DEF CpuSockKey
<1>3. /\ got \in SockStats /\ got.last_touched_us = now_us
      /\ "CLOSED" \notin got.state_flags
  BY Zenon, <1>1, GotEntry, NotYetClosed DEF handle_rto
<1>4. StoreSockStats(key, stats) /\ CountEvent(key) /\ now_us' = now_us
  BY Zenon DEF handle_rto
<1>5. events \in Counter
  BY Zenon, <1>1, <1>3, <1>4, CountedType DEF SockStats
<1> HIDE DEF key, got, events
<1>6. /\ stats \in SockStats /\ stats.bpf_events = events
      /\ stats.state_flags = got.state_flags
      /\ stats.last_touched_us = got.last_touched_us
  BY Zenon, <1>3, <1>5 DEF SockStats
<1> HIDE DEF stats
<1> QED BY Zenon, <1>1, <1>3, <1>4, <1>6, StoreCounted DEF got, events, is_closed

LEMMA BytesTransferredWrites ==
  ASSUME KernelTypeOK, ClosedEntries, NEW cpu \in Cpus, NEW sock \in Socks,
         NEW n \in 0..1, handle_bytes_transferred_event(cpu, sock, n)
  PROVE  EntriesMove
<1> DEFINE key == <<cpu, sock>>
           got == get_or_add_sock_stats(key)
           bytes == kernel_bytes[sock] + n
           stats == [got EXCEPT !.bytes_received = bytes]
<1>1. key \in CpuSockKey /\ key[2] = sock
  BY Zenon DEF CpuSockKey
<1>2. bytes \in Counter /\ kernel_bytes'[sock] = bytes
  BY Zenon, TransferType DEF handle_bytes_transferred_event
<1>3. got \in SockStats /\ got.last_touched_us = now_us
  BY Zenon, <1>1, GotEntry
<1>4. /\ StoreSockStats(key, stats) /\ UNCHANGED <<now_us, counted_events>>
      /\ tcp_state' = tcp_state
  BY Zenon DEF handle_bytes_transferred_event
<1>5. "CLOSED" \in got.state_flags => tcp_state[sock] = "CLOSE"
  <2>1. CASE Callback(sock)
    BY Zenon, <2>1, NotYetClosed
  <2>2. CASE ResetCallback(sock, n)
    BY Zenon, <2>2 DEF ResetCallback
  <2> QED BY Zenon, <2>1, <2>2 DEF handle_bytes_transferred_event
<1> HIDE DEF key, got, bytes
<1>6. /\ stats \in SockStats /\ stats.bpf_events = got.bpf_events
      /\ stats.state_flags = got.state_flags /\ stats.bytes_received = bytes
      /\ stats.last_touched_us = got.last_touched_us
  BY Zenon, <1>2, <1>3 DEF SockStats
<1> HIDE DEF stats
<1>7. is_closed(stats) => /\ tcp_state'[key[2]] = "CLOSE"
                          /\ stats.bytes_received = kernel_bytes'[key[2]]
  BY Zenon, <1>1, <1>2, <1>4, <1>5, <1>6 DEF is_closed
<1> QED BY Zenon, <1>1, <1>3, <1>4, <1>6, <1>7, StoreUncounted DEF got

LEMMA NewSockStatsWrites ==
  ASSUME KernelTypeOK, ClosedEntries, NEW key \in CpuSockKey,
         handle_new_sock_stats(key)
  PROVE  EntriesMove
<1> DEFINE got == get_or_add_sock_stats(key)
           more == IF tcp_state[key[2]] = "ESTABLISHED" THEN {"ENTERED_ESTABLISH"}
                                                        ELSE {}
           flags == got.state_flags \cup more
           stats == [got EXCEPT !.state_flags = flags]
<1>1. got \in SockStats /\ got.last_touched_us = now_us
  BY Zenon, GotEntry
<1>2. "CLOSED" \in got.state_flags =>
        /\ tcp_state[key[2]] = "CLOSE"
        /\ got.bytes_received = kernel_bytes[key[2]]
  <2>1. CASE key \in DOMAIN NFM_SK_STATS
    BY Zenon, <2>1, GotEntry DEF ClosedEntries, is_closed
  <2>2. CASE key \notin DOMAIN NFM_SK_STATS
    <3>1. "CLOSED" \notin DefaultStats.state_flags
      BY Zenon DEF DefaultStats
    <3> QED BY Zenon, <2>2, <3>1, GotEntry
  <2> QED BY Zenon, <2>1, <2>2
<1>3. /\ StoreSockStats(key, stats)
      /\ UNCHANGED <<now_us, counted_events, tcp_state, kernel_bytes>>
  BY Zenon DEF handle_new_sock_stats
<1>4. flags \in SUBSET SockStateFlags /\ ("CLOSED" \in flags => "CLOSED" \in got.state_flags)
  BY Zenon, <1>1 DEF SockStats, SockStateFlags
<1> HIDE DEF got, flags
<1>5. /\ stats \in SockStats /\ stats.bpf_events = got.bpf_events
      /\ stats.state_flags = flags /\ stats.bytes_received = got.bytes_received
      /\ stats.last_touched_us = got.last_touched_us
  BY Zenon, <1>1, <1>4 DEF SockStats
<1> HIDE DEF stats
<1> QED BY Zenon, <1>1, <1>2, <1>3, <1>4, <1>5, StoreUncounted DEF got, is_closed

\* The kernel is done with a socket it closed.
ClosedIsFinal ==
  \A s \in Socks :
    tcp_state[s] = "CLOSE" =>
      tcp_state'[s] = "CLOSE" /\ kernel_bytes'[s] = kernel_bytes[s]

LEMMA KernelWrites ==
  ASSUME KernelTypeOK, ClosedEntries, KernelStep
  PROVE  EntriesMove
<1>1. ASSUME NEW cpu \in Cpus, NEW sock \in Socks,
             handle_connect(cpu, sock) \/ handle_passive_established(cpu, sock)
      PROVE  EntriesMove
  BY <1>1 DEF handle_connect, handle_passive_established, handle_new_sock,
              EntriesMove, EntriesKept, KernelTypeOK
<1>2. CASE Tick
  BY <1>2 DEF Tick, EntriesMove, EntriesKept, KernelTypeOK
<1> QED
  BY Zenon, <1>1, <1>2, NewSockStatsWrites, StateChangeWrites, RttWrites, RtoWrites,
     BytesTransferredWrites DEF KernelStep

LEMMA KernelClosed ==
  ASSUME KernelTypeOK, KernelStep
  PROVE  ClosedIsFinal
<1> USE DEF ClosedIsFinal, KernelTypeOK
<1>1. ASSUME NEW cpu \in Cpus, NEW sock \in Socks,
             handle_connect(cpu, sock) \/ handle_passive_established(cpu, sock)
      PROVE  ClosedIsFinal
  BY Zenon, <1>1 DEF handle_connect, handle_passive_established, handle_new_sock
<1>2. ASSUME NEW cpu \in Cpus, NEW sock \in Socks, NEW new \in TcpStates,
             NEW n \in 0..1, handle_state_change(cpu, sock, new, n)
      PROVE  ClosedIsFinal
  BY Zenon, <1>2 DEF handle_state_change, Callback, Transfer
<1>3. ASSUME NEW cpu \in Cpus, NEW sock \in Socks, NEW n \in 0..1,
             handle_rtt(cpu, sock, n) \/ handle_bytes_transferred_event(cpu, sock, n)
      PROVE  ClosedIsFinal
  <2>1. tcp_state' = tcp_state /\ Transfer(sock, n) /\ (Callback(sock) \/ ResetCallback(sock, n))
    BY Zenon, <1>3 DEF handle_rtt, handle_bytes_transferred_event
  <2>2. CASE Callback(sock)
    BY Zenon, <2>1, <2>2 DEF Callback, Transfer
  <2>3. CASE ResetCallback(sock, n)
    <3>1. kernel_bytes[sock] \in Nat /\ n = 0
      BY Zenon, <2>3, KernelBytesAreNat DEF ResetCallback
    <3>2. kernel_bytes[sock] + n = kernel_bytes[sock]
      BY <3>1
    <3> QED BY Zenon, <2>1, <3>2 DEF Transfer
  <2> QED BY Zenon, <2>1, <2>2, <2>3
<1>4. ASSUME NEW cpu \in Cpus, NEW sock \in Socks, handle_rto(cpu, sock)
      PROVE  ClosedIsFinal
  BY Zenon, <1>4 DEF handle_rto
<1>5. ASSUME NEW key \in CpuSockKey, handle_new_sock_stats(key)
      PROVE  ClosedIsFinal
  BY Zenon, <1>5 DEF handle_new_sock_stats
<1>6. CASE Tick
  BY Zenon, <1>6 DEF Tick
<1> QED BY Zenon, <1>1, <1>2, <1>3, <1>4, <1>5, <1>6 DEF KernelStep

-----------------------------------------------------------------------------
(* Every step preserves the inductive invariant. *)

LEMMA Numbers ==
  ASSUME TypeOK
  PROVE  /\ \A s \in Socks : /\ kernel_bytes[s] \in Nat
                             /\ credited[s].bytes_received \in Nat
                             /\ credited[s].sockets_completed \in Nat
         /\ \A key \in DOMAIN NFM_SK_STATS :
              NFM_SK_STATS[key].bytes_received \in Nat
         /\ \A copy \in copying : copy.bytes_received \in Nat
         /\ \A s \in DOMAIN sock_stream : sock_stream[s].stats.bytes_received \in Nat
         /\ \A s \in DOMAIN sock_cache : sock_cache[s].stats.bytes_received \in Nat
<1>1. \A s \in Socks : kernel_bytes[s] \in Nat
  BY Zenon, KernelBytesAreNat DEF TypeOK
<1>2. \A s \in Socks : credited[s].bytes_received \in Nat
                       /\ credited[s].sockets_completed \in Nat
  BY Zenon DEF TypeOK, Share
<1>3. \A key \in DOMAIN NFM_SK_STATS : NFM_SK_STATS[key].bytes_received \in Nat
  BY Zenon, EntryIsStats DEF TypeOK
<1>4. \A copy \in copying : copy.bytes_received \in Nat
  BY NetworkAssumption DEF NetworkAssumption, TypeOK, StatsCopy, Counter
<1>5. \A s \in DOMAIN sock_stream : sock_stream[s].stats.bytes_received \in Nat
  <2>1. \A s \in DOMAIN sock_stream : sock_stream[s].stats \in SockStats
    BY Zenon DEF TypeOK, IsMap, AggSockStats
  <2> QED BY Zenon, <2>1, BytesAreNat
<1>6. \A s \in DOMAIN sock_cache : sock_cache[s].stats.bytes_received \in Nat
  <2>1. \A s \in DOMAIN sock_cache : sock_cache[s].stats \in SockStats
    BY Zenon DEF TypeOK, IsMap, SockWrapper
  <2> QED BY Zenon, <2>1, BytesAreNat
<1> QED BY Zenon, <1>1, <1>2, <1>3, <1>4, <1>5, <1>6

LEMMA Places ==
  ASSUME TypeOK
  PROVE  /\ DOMAIN NFM_SK_STATS \subseteq CpuSockKey
         /\ DOMAIN NFM_SK_PROPS \subseteq CpuSockKey
         /\ DOMAIN sock_cache \subseteq Socks
         /\ DOMAIN sock_stream \subseteq Socks
         /\ \A key \in CpuSockKey : key[1] \in Cpus /\ key[2] \in Socks
                                    /\ key = <<key[1], key[2]>>
BY DEF TypeOK, KernelTypeOK, IsMap, CpuSockKey

LEMMA KernelStepInv ==
  ASSUME CoreInvariant, KernelStep
  PROVE  CoreInvariant'
<1> USE DEF CoreInvariant
<1>1. TypeOK'
  BY Zenon, TypeStep DEF Next
<1>2. BytesMove /\ ContextsMove
  BY Zenon, KernelMoves DEF TypeOK, BytesInv, EntriesLag
<1>3. UNCHANGED <<pc, copying, todo, sock_cache, sock_stream, to_evict, credited,
                  new_cpu_sock_keys>>
  BY Zenon DEF KernelStep, agent_vars
<1> DEFINE old(key) == NFM_SK_STATS[key].bytes_received
           new(key) == NFM_SK_STATS'[key].bytes_received
<1>4. \A key \in DOMAIN NFM_SK_STATS :
        /\ key \in DOMAIN NFM_SK_STATS'
        /\ old(key) \in Nat /\ new(key) \in Nat /\ old(key) <= new(key)
  <2>1. \A key \in DOMAIN NFM_SK_STATS' : new(key) \in Nat
    BY Zenon, <1>1, StatsMapNat DEF TypeOK, KernelTypeOK
  <2> QED BY Zenon, <1>2, <2>1, Numbers DEF BytesMove
<1>5. PhaseInv'
  BY Zenon, <1>3, <1>4 DEF PhaseInv
<1>6. EntryInv'
  BY Zenon, <1>3, <1>4 DEF EntryInv
<1>7. BytesInv'
  <2>1. \A key \in DOMAIN NFM_SK_STATS' : new(key) <= kernel_bytes'[key[2]]
    BY Zenon, <1>2 DEF BytesMove
  <2>2. \A copy \in copying' :
          copy.bytes_received <= NFM_SK_STATS'[copy.key].bytes_received
    BY <1>3, <1>4, Numbers DEF BytesInv, EntryInv
  <2>3. ASSUME NEW bytes \in Nat, NEW cpus, NEW s, Covered(bytes, cpus, s)
        PROVE  Covered(bytes, cpus, s)'
    <3>1. CASE bytes = 0
      BY Zenon, <3>1 DEF Covered
    <3>2. ASSUME NEW c \in cpus, <<c, s>> \in DOMAIN NFM_SK_STATS,
                 bytes <= old(<<c, s>>)
          PROVE  Covered(bytes, cpus, s)'
      <4>1. <<c, s>> \in DOMAIN NFM_SK_STATS' /\ bytes <= new(<<c, s>>)
        BY <1>4, <3>2
      <4> QED BY Zenon, <4>1 DEF Covered
    <3> QED BY Zenon, <2>3, <3>1, <3>2 DEF Covered
  <2>4. \A s \in DOMAIN sock_stream :
          Covered(sock_stream[s].stats.bytes_received, sock_stream[s].cpus, s)'
    BY Zenon, <1>3, <2>3, Numbers DEF BytesInv
  <2>5. \A s \in DOMAIN sock_cache :
          Covered(sock_cache[s].stats.bytes_received, sock_cache[s].cpus, s)'
    BY Zenon, <1>3, <2>3, Numbers DEF BytesInv
  <2> QED BY Zenon, <1>3, <2>1, <2>2, <2>4, <2>5 DEF BytesInv
<1>8. IterationInv'
  <2>1. pc = "stats" => \A s \in DOMAIN sock_cache : Ahead(s) => Ahead(s)'
    BY <1>3, <1>4, Numbers DEF Ahead, PhaseInv
  <2> QED BY Zenon, <1>3, <2>1 DEF IterationInv
<1>9. ContextInv'
  <2>1. \A s : HasContext(s)' = HasContext(s) /\ Uncredited(s)' = Uncredited(s)
    BY Zenon, <1>3 DEF HasContext, Uncredited
  <2>2. CASE UNCHANGED NFM_SK_PROPS
    <3>1. \A key \in DOMAIN NFM_SK_PROPS : tcp_state'[key[2]] # "NEW"
      BY Zenon, <1>2, Places DEF ContextInv, ContextsMove
    <3>2. \A s \in Socks : tcp_state'[s] = "NEW" => Uncredited(s)'
      BY Zenon, <1>2, <2>1 DEF ContextInv, ContextsMove
    <3> QED BY Zenon, <1>3, <2>1, <2>2, <3>1, <3>2 DEF ContextInv
  <2>3. CASE \E key \in CpuSockKey, context \in Flows :
               /\ tcp_state[key[2]] = "NEW"
               /\ tcp_state'[key[2]] # "NEW"
               /\ key \notin DOMAIN NFM_SK_PROPS
               /\ NFM_SK_PROPS' = Put(NFM_SK_PROPS, key, context)
    <3>1. PICK key \in CpuSockKey, context \in Flows :
               /\ tcp_state[key[2]] = "NEW"
               /\ tcp_state'[key[2]] # "NEW"
               /\ key \notin DOMAIN NFM_SK_PROPS
               /\ NFM_SK_PROPS' = Put(NFM_SK_PROPS, key, context)
      BY Zenon, <2>3
    <3>2. /\ DOMAIN NFM_SK_PROPS' = DOMAIN NFM_SK_PROPS \cup {key}
          /\ \A k \in DOMAIN NFM_SK_PROPS : NFM_SK_PROPS'[k] = NFM_SK_PROPS[k]
      <4>1. IsMap(NFM_SK_PROPS, CpuSockKey, Flows)
        BY Zenon DEF TypeOK, KernelTypeOK
      <4>2. /\ DOMAIN Put(NFM_SK_PROPS, key, context) = DOMAIN NFM_SK_PROPS \cup {key}
            /\ \A k \in DOMAIN NFM_SK_PROPS :
                 k # key => Put(NFM_SK_PROPS, key, context)[k] = NFM_SK_PROPS[k]
        BY <4>1, PutIsMap
      <4> QED BY Zenon, <3>1, <4>2
    <3>3. \A k \in DOMAIN NFM_SK_PROPS' : tcp_state'[k[2]] # "NEW"
      BY <1>2, <3>1, <3>2, Places DEF ContextInv, ContextsMove
    <3>4. \A s \in Socks : tcp_state'[s] = "NEW" => Uncredited(s)'
      BY Zenon, <1>2, <2>1 DEF ContextInv, ContextsMove
    <3>5. \A k \in DOMAIN NFM_SK_PROPS' \ new_cpu_sock_keys' : Uncredited(k[2])'
      BY Zenon, <1>3, <2>1, <3>1, <3>2, Places DEF ContextInv
    <3>6. \A j, k \in DOMAIN NFM_SK_PROPS' : j[2] = k[2] => j = k
      BY <3>1, <3>2 DEF ContextInv
    <3>7. \A k \in new_cpu_sock_keys' :
            /\ k \in DOMAIN NFM_SK_PROPS'
            /\ k[2] \in DOMAIN sock_cache'
            /\ sock_cache'[k[2]].context = NFM_SK_PROPS'[k]
      BY Zenon, <1>3, <3>2 DEF ContextInv
    <3> QED BY Zenon, <1>3, <3>3, <3>4, <3>5, <3>6, <3>7 DEF ContextInv
  <2> QED BY Zenon, <1>2, <2>2, <2>3 DEF ContextsMove
<1>10. CreditInv'
  <2>1. \A s \in Socks : kernel_bytes[s] <= kernel_bytes'[s] /\ kernel_bytes'[s] \in Nat
    <3> HIDE DEF CoreInvariant
    <3>1. KernelTypeOK'
      BY Zenon, <1>1 DEF TypeOK
    <3>2. \A s \in Socks : kernel_bytes'[s] \in Nat
      BY <3>1, SockOpsAssumption DEF SockOpsAssumption, KernelTypeOK
    <3> QED BY Zenon, <1>2, <3>2 DEF BytesMove
  <2>2. \A s \in Socks : credited[s].bytes_received <= kernel_bytes'[s]
    BY <2>1, Numbers DEF CreditInv
  <2> QED BY Zenon, <1>3, <2>2 DEF CreditInv, HasContext
<1> QED BY Zenon, <1>1, <1>5, <1>6, <1>7, <1>8, <1>9, <1>10

\* What the steps that only move the agent to its next phase leave alone.
Settled == UNCHANGED <<kernel_bytes, tcp_state, NFM_SK_PROPS, NFM_SK_STATS,
                       sock_cache, credited>>

LEMMA SettledInv ==
  ASSUME Settled, ContextInv, CreditInv, UNCHANGED new_cpu_sock_keys
  PROVE  ContextInv' /\ CreditInv'
<1>1. \A s : HasContext(s)' = HasContext(s) /\ Uncredited(s)' = Uncredited(s)
  BY Zenon DEF Settled, HasContext, Uncredited
<1>2. ContextInv'
  BY Zenon, <1>1 DEF Settled, ContextInv
<1>3. CreditInv'
  BY Zenon, <1>1 DEF Settled, CreditInv
<1> QED BY Zenon, <1>2, <1>3

LEMMA PhaseStepInv ==
  ASSUME CoreInvariant,
         StartCycle \/ PropsRead \/ EndCycle \/ network_stats \/ UNCHANGED vars
  PROVE  CoreInvariant'
<1> USE DEF CoreInvariant
<1>1. TypeOK'
  BY Zenon, TypeStep DEF Next, AgentStep
<1>2. /\ Settled
      /\ UNCHANGED <<copying, sock_stream, to_evict, new_cpu_sock_keys>>
  BY Zenon DEF Settled, StartCycle, PropsRead, EndCycle, network_stats, vars,
         kernel_vars, agent_vars
<1>3. pc' = "stats" => pc = "stats" /\ UNCHANGED todo
  BY Zenon DEF StartCycle, PropsRead, EndCycle, network_stats, vars, agent_vars
<1>4. /\ pc' # "stats" => pc # "stats"
      /\ pc' # "evict" => pc # "evict" \/ to_evict = {}
      /\ pc' \notin {"props", "free"} => pc \notin {"props", "free"}
  BY Zenon DEF StartCycle, PropsRead, EndCycle, network_stats, vars, agent_vars
<1>5. PhaseInv'
  BY Zenon, <1>2, <1>3, <1>4 DEF PhaseInv, Settled
<1>6. EntryInv'
  BY Zenon, <1>2 DEF EntryInv, Settled
<1>7. BytesInv'
  BY Zenon, <1>2 DEF BytesInv, Covered, Settled
<1>8. IterationInv'
  BY Zenon, <1>2, <1>3 DEF IterationInv, Ahead, Settled
<1> QED BY Zenon, <1>1, <1>2, <1>5, <1>6, <1>7, <1>8, SettledInv

LEMMA PropsFreedInv ==
  ASSUME CoreInvariant, PropsFreed
  PROVE  CoreInvariant'
<1> USE DEF CoreInvariant
<1>1. TypeOK'
  BY Zenon, TypeStep DEF Next, AgentStep
<1>2. /\ Settled
      /\ UNCHANGED <<copying, sock_stream, to_evict, new_cpu_sock_keys>>
      /\ pc = "free" /\ pc' = "stats" /\ todo' = DOMAIN NFM_SK_STATS
      /\ new_cpu_sock_keys = {}
  BY Zenon DEF Settled, PropsFreed, kernel_vars
<1>3. PhaseInv'
  BY Zenon, <1>2 DEF PhaseInv, Settled
<1>4. EntryInv'
  BY Zenon, <1>2 DEF EntryInv, Settled
<1>5. BytesInv'
  BY Zenon, <1>2 DEF BytesInv, Covered, Settled
<1>6. IterationInv'
  <2> SUFFICES ASSUME NEW s \in DOMAIN sock_cache
               PROVE  sock_cache[s].stats.bytes_received = 0 \/ Ahead(s)'
    BY Zenon, <1>2 DEF IterationInv, Settled
  <2>1. CASE sock_cache[s].stats.bytes_received = 0
    BY Zenon, <2>1
  <2>2. CASE \E c \in sock_cache[s].cpus :
               /\ <<c, s>> \in DOMAIN NFM_SK_STATS
               /\ sock_cache[s].stats.bytes_received
                    <= NFM_SK_STATS[<<c, s>>].bytes_received
    <3>1. PICK c \in sock_cache[s].cpus :
               /\ <<c, s>> \in DOMAIN NFM_SK_STATS
               /\ sock_cache[s].stats.bytes_received
                    <= NFM_SK_STATS[<<c, s>>].bytes_received
      BY Zenon, <2>2
    <3>2. c \in Cpus
      BY Zenon, <3>1, Places
    <3>3. copying' = {}
      BY Zenon, <1>2 DEF PhaseInv
    <3> QED BY Zenon, <1>2, <3>1, <3>2, <3>3 DEF Ahead, Settled
  <2> QED BY Zenon, <2>1, <2>2 DEF BytesInv, Covered
<1> QED BY Zenon, <1>1, <1>2, <1>3, <1>4, <1>5, <1>6, SettledInv

LEMMA FreePropsInv ==
  ASSUME CoreInvariant, NEW key \in CpuSockKey, FreeProps(key)
  PROVE  CoreInvariant'
<1> USE DEF CoreInvariant
<1>1. TypeOK'
  BY Zenon, TypeStep DEF Next, AgentStep
<1>2. /\ UNCHANGED <<kernel_bytes, tcp_state, NFM_SK_STATS, sock_cache, credited,
                     copying, sock_stream, to_evict, pc, todo>>
      /\ pc = "free"
      /\ NFM_SK_PROPS' = RemoveKeys(NFM_SK_PROPS, {key})
      /\ new_cpu_sock_keys' = new_cpu_sock_keys \ {key}
  BY Zenon DEF FreeProps
<1>3. PhaseInv'
  BY Zenon, <1>2 DEF PhaseInv
<1>4. EntryInv'
  BY Zenon, <1>2 DEF EntryInv
<1>5. BytesInv'
  BY Zenon, <1>2 DEF BytesInv, Covered
<1>6. IterationInv'
  BY Zenon, <1>2 DEF IterationInv
<1>7. \A s : HasContext(s)' = HasContext(s) /\ Uncredited(s)' = Uncredited(s)
  BY Zenon, <1>2 DEF HasContext, Uncredited
<1>8. ContextInv'
  <2>1. /\ DOMAIN NFM_SK_PROPS' = DOMAIN NFM_SK_PROPS \ {key}
        /\ \A k \in DOMAIN NFM_SK_PROPS \ {key} : NFM_SK_PROPS'[k] = NFM_SK_PROPS[k]
    BY Zenon, <1>2 DEF RemoveKeys
  <2> QED BY Zenon, <1>2, <1>7, <2>1 DEF ContextInv
<1>9. CreditInv'
  BY Zenon, <1>2, <1>7 DEF CreditInv
<1> QED BY Zenon, <1>1, <1>3, <1>4, <1>5, <1>6, <1>8, <1>9

LEMMA CopyStatsInv ==
  ASSUME CoreInvariant, NEW key \in CpuSockKey, CopyStats(key)
  PROVE  CoreInvariant'
<1> USE DEF CoreInvariant
<1>1. TypeOK'
  BY Zenon, TypeStep DEF Next, AgentStep
<1> DEFINE copy == [key |-> key,
                    last_touched_us |-> NFM_SK_STATS[key].last_touched_us,
                    bytes_received |-> NFM_SK_STATS[key].bytes_received]
<1>2. /\ Settled
      /\ UNCHANGED <<pc, todo, sock_stream, to_evict, new_cpu_sock_keys>>
      /\ pc = "stats" /\ key \in DOMAIN NFM_SK_STATS /\ copying' = {copy}
      /\ copying = {}
  BY Zenon DEF Settled, CopyStats, kernel_vars
<1>3. copy.key = key /\ copy.bytes_received = NFM_SK_STATS[key].bytes_received
  BY Zenon
<1> HIDE DEF copy
<1>4. PhaseInv'
  BY Zenon, <1>2 DEF PhaseInv, Settled
<1>5. EntryInv'
  BY Zenon, <1>2, <1>3 DEF EntryInv, Settled
<1>6. BytesInv'
  <2>1. copy.bytes_received <= NFM_SK_STATS[copy.key].bytes_received
    <3>1. NFM_SK_STATS[key].bytes_received \in Nat
      BY Zenon, <1>2, Numbers
    <3> QED BY <1>3, <3>1
  <2> QED BY Zenon, <1>2, <2>1 DEF BytesInv, Covered, Settled
<1>7. IterationInv'
  <2>1. \A s : Ahead(s) => Ahead(s)'
    BY Zenon, <1>2, <1>3 DEF Ahead, Settled
  <2> QED BY Zenon, <1>2, <2>1 DEF IterationInv, Settled
<1> QED BY Zenon, <1>1, <1>2, <1>4, <1>5, <1>6, <1>7, SettledInv

LEMMA EvictionInv ==
  ASSUME CoreInvariant, NEW key \in CpuSockKey, perform_bpf_eviction(key)
  PROVE  CoreInvariant'
<1> USE DEF CoreInvariant
<1>1. TypeOK'
  BY Zenon, TypeStep DEF Next, AgentStep
<1>2. /\ UNCHANGED <<kernel_bytes, tcp_state, NFM_SK_PROPS, sock_cache, credited,
                     copying, sock_stream, pc, todo, new_cpu_sock_keys>>
      /\ pc = "evict" /\ key \in to_evict
      /\ NFM_SK_STATS' = RemoveKeys(NFM_SK_STATS, {key})
  BY Zenon DEF perform_bpf_eviction
<1>3. /\ key \in DOMAIN NFM_SK_STATS /\ key[2] \notin DOMAIN sock_cache
      /\ copying = {} /\ DOMAIN sock_stream = {}
  BY Zenon, <1>2, EmptyIsMap DEF EntryInv, PhaseInv
<1>4. to_evict' = to_evict \ {key}
  BY Zenon, <1>3 DEF perform_bpf_eviction
<1>5. /\ DOMAIN NFM_SK_STATS' = DOMAIN NFM_SK_STATS \ {key}
      /\ \A k \in DOMAIN NFM_SK_STATS \ {key} : NFM_SK_STATS'[k] = NFM_SK_STATS[k]
  BY Zenon, <1>2 DEF RemoveKeys
<1>6. PhaseInv'
  BY Zenon, <1>2 DEF PhaseInv
<1>7. \A s \in DOMAIN sock_cache : \A c : <<c, s>> # key
  BY <1>3
<1>8. EntryInv'
  BY Zenon, <1>2, <1>3, <1>4, <1>5, <1>7 DEF EntryInv
<1>9. BytesInv'
  <2>1. \A k \in DOMAIN NFM_SK_STATS' :
          NFM_SK_STATS'[k].bytes_received <= kernel_bytes'[k[2]]
    BY Zenon, <1>2, <1>5 DEF BytesInv
  <2>2. \A s \in DOMAIN sock_cache :
          Covered(sock_cache[s].stats.bytes_received, sock_cache[s].cpus, s)'
    <3> TAKE s \in DOMAIN sock_cache
    <3>1. Covered(sock_cache[s].stats.bytes_received, sock_cache[s].cpus, s)
      BY Zenon DEF BytesInv
    <3>2. \A c : <<c, s>> \in DOMAIN NFM_SK_STATS =>
            /\ <<c, s>> \in DOMAIN NFM_SK_STATS'
            /\ NFM_SK_STATS'[<<c, s>>] = NFM_SK_STATS[<<c, s>>]
      BY Zenon, <1>5, <1>7
    <3> QED BY Zenon, <1>2, <3>1, <3>2 DEF Covered
  <2> QED BY Zenon, <1>2, <1>3, <2>1, <2>2 DEF BytesInv
<1>10. IterationInv'
  BY Zenon, <1>2 DEF IterationInv
<1>11. \A s : HasContext(s)' = HasContext(s) /\ Uncredited(s)' = Uncredited(s)
  BY Zenon, <1>2 DEF HasContext, Uncredited
<1>12. ContextInv' /\ CreditInv'
  BY Zenon, <1>2, <1>11 DEF ContextInv, CreditInv
<1> QED BY Zenon, <1>1, <1>6, <1>8, <1>9, <1>10, <1>12

=============================================================================
