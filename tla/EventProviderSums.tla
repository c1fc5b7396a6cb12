------------------------- MODULE EventProviderSums --------------------------
(***************************************************************************)
(* Proofs about the sums of EventProvider: the bytes and levels of a       *)
(* socket over the flows that wait for the next report, and its callbacks  *)
(* over the CPUs that handled them.                                        *)
(***************************************************************************)
EXTENDS EventProviderSockets, SumTheorems

USE DEF is_valid

-----------------------------------------------------------------------------
(* The flows after a round. *)

\* The bytes of s in f before the round, where a new flow has none.
BytesBefore(f, s) ==
  IF f \in DOMAIN flow_cache THEN flow_cache[f][s].bytes_received ELSE 0

LEMMA RoundFlows ==
  ASSUME TypeOK, NEW nat \in NatTables,
         NEW admitted \in Admissible(NewFlows(RoundCache(nat), Deltas)),
         Round(nat, admitted),
         NEW f \in DOMAIN flow_cache \cup admitted, NEW s \in Socks
  PROVE  IF s \in DOMAIN Deltas /\ context_beyond_nat(RoundCache(nat)[s]) = f
         THEN flow_cache'[f][s].bytes_received
                = BytesBefore(f, s) + Deltas[s].bytes_received
         ELSE /\ flow_cache'[f][s].bytes_received = BytesBefore(f, s)
              /\ flow_cache'[f][s].level = "none"
<1> DEFINE share == IF f \in DOMAIN flow_cache
                    THEN clear_levels(flow_cache[f][s]) ELSE NoShare
           mine == s \in DOMAIN Deltas /\ context_beyond_nat(RoundCache(nat)[s]) = f
           added == add_to_flow(share, Deltas[s], should_evict(RoundCache(nat)[s]))
<1>1. flow_cache' = aggregate_into_flows(RoundCache(nat), Deltas,
                                         DOMAIN flow_cache \cup admitted)
  BY Zenon DEF Round, CreditFlows
<1>2. flow_cache'[f][s] = IF mine THEN added ELSE share
  BY Zenon, <1>1 DEF aggregate_into_flows
<1>3. share.bytes_received = BytesBefore(f, s) /\ share.level = "none"
  <2>1. f \in DOMAIN flow_cache => flow_cache[f][s] \in Share
    BY Zenon DEF TypeOK, IsMap
  <2> QED BY Zenon, <2>1 DEF clear_levels, NoShare, Share, BytesBefore
<1> HIDE DEF share
<1>4. added.bytes_received = share.bytes_received + Deltas[s].bytes_received
  BY Zenon DEF add_to_flow
<1> QED BY Zenon, <1>2, <1>3, <1>4

LEMMA RoundFlowsDomain ==
  ASSUME NEW nat, NEW admitted, Round(nat, admitted)
  PROVE  DOMAIN flow_cache' = DOMAIN flow_cache \cup admitted
BY Zenon DEF Round, CreditFlows, aggregate_into_flows

LEMMA AggregateLevels ==
  ASSUME CoreInvariant, Aggregate
  PROVE  LevelsCountSocketsOnce'
<1>1. PICK nat \in NatTables :
        \E admitted \in Admissible(NewFlows(RoundCache(nat), Deltas)) :
          Round(nat, admitted)
  BY Zenon, AggregateIsRound DEF CoreInvariant
<1>2. PICK admitted \in Admissible(NewFlows(RoundCache(nat), Deltas)) :
        Round(nat, admitted)
  BY Zenon, <1>1
<1>3. \A f \in DOMAIN flow_cache', s \in Socks :
        flow_cache'[f][s].level # "none" => context_beyond_nat(RoundCache(nat)[s]) = f
  <2> TAKE f \in DOMAIN flow_cache', s \in Socks
  <2>1. f \in DOMAIN flow_cache \cup admitted
    BY Zenon, <1>2, RoundFlowsDomain
  <2>2. \/ context_beyond_nat(RoundCache(nat)[s]) = f
        \/ flow_cache'[f][s].level = "none"
    BY Zenon, <1>2, <2>1, RoundFlows DEF CoreInvariant
  <2> QED BY Zenon, <2>2
<1> QED BY Zenon, <1>3 DEF LevelsCountSocketsOnce

LEMMA AggregateWindow ==
  ASSUME CoreInvariant, FlowsHoldTheWindow, Aggregate
  PROVE  FlowsHoldTheWindow'
<1> USE DEF CoreInvariant
<1>1. PICK nat \in NatTables :
        \E admitted \in Admissible(NewFlows(RoundCache(nat), Deltas)) :
          Round(nat, admitted)
  BY Zenon, AggregateIsRound
<1>2. PICK admitted \in Admissible(NewFlows(RoundCache(nat), Deltas)) :
        Round(nat, admitted)
  BY Zenon, <1>1
<1> SUFFICES ASSUME NEW s \in Socks
             PROVE  BytesInFlows(s)' = window'[s]
  BY Zenon DEF FlowsHoldTheWindow
<1> DEFINE flows == DOMAIN flow_cache \cup admitted
           flow == context_beyond_nat(RoundCache(nat)[s])
           d == Deltas[s].bytes_received
           in_flow == InFlow(RoundCache(nat), Deltas, flows)
           old == [f \in DOMAIN flow_cache |-> flow_cache[f][s].bytes_received]
           base == [f \in flows |-> BytesBefore(f, s)]
           new == [f \in flows |-> flow_cache'[f][s].bytes_received]
<1>3. DOMAIN flow_cache' = flows
  BY Zenon, <1>2, RoundFlowsDomain
<1>4. window'[s] = IF s \in in_flow THEN window[s] + d ELSE window[s]
  BY Zenon, <1>2 DEF Round, CreditFlows
<1>5. IsFiniteSet(flows) /\ IsFiniteSet(DOMAIN flow_cache)
  <2>1. /\ IsMap(RoundCache(nat), Socks, Wrappers)
        /\ DOMAIN Deltas \subseteq DOMAIN RoundCache(nat)
    BY Zenon, RoundCacheFacts, UpdatedFacts, DeltasFacts
  <2>2. flows \subseteq Flows
    BY Zenon, <2>1, FlowsType
  <2>3. IsFiniteSet(Flows)
    BY Zenon, EventProviderAssumption DEF EventProviderAssumption
  <2> QED BY Zenon, <2>2, <2>3, FS_Subset
<1>6. \A f \in DOMAIN flow_cache : old[f] \in Nat
  BY Zenon DEF TypeOK, IsMap, Share
<1>7. \A f \in flows : base[f] \in Nat /\ base[f] = BytesBefore(f, s)
  BY Zenon, <1>6 DEF BytesBefore
<1>8. SumFunctionOnSet(base, flows) = SumFunctionOnSet(old, DOMAIN flow_cache)
  <2>1. SumFunctionOnSet(base, flows) = SumFunctionOnSet(base, DOMAIN flow_cache)
    <3>1. /\ \A f \in flows : base[f] \in Int
          /\ \A f \in flows \ DOMAIN flow_cache : base[f] = 0
          /\ DOMAIN flow_cache \in SUBSET flows
      BY <1>7 DEF BytesBefore
    <3> HIDE DEF base, flows
    <3> QED BY Zenon, <1>5, <3>1, SumZeros
  <2>2. SumFunctionOnSet(base, DOMAIN flow_cache) = SumFunctionOnSet(old, DOMAIN flow_cache)
    <3>1. \A f \in DOMAIN flow_cache : base[f] \in Int /\ base[f] = old[f]
      <4> TAKE f \in DOMAIN flow_cache
      <4>1. base[f] = flow_cache[f][s].bytes_received
        BY Zenon DEF BytesBefore
      <4>2. base[f] \in Nat
        BY Zenon, <1>7
      <4> QED BY <4>1, <4>2
    <3> HIDE DEF base, old
    <3> QED BY Zenon, <1>5, <3>1, SumSame
  <2> QED BY Zenon, <2>1, <2>2
<1>9. \A f \in flows : new[f] = IF s \in DOMAIN Deltas /\ flow = f
                                THEN base[f] + d ELSE base[f]
  BY Zenon, <1>2, <1>7, RoundFlows
<1>10. SumFunctionOnSet(old, DOMAIN flow_cache) = window[s]
  BY Zenon DEF FlowsHoldTheWindow, BytesInFlows, SumFunction
<1>11. BytesInFlows(s)' = SumFunctionOnSet(new, flows)
  <2>1. BytesInFlows(s)' = SumFunction([f \in DOMAIN flow_cache' |->
                                         flow_cache'[f][s].bytes_received])
    BY Zenon DEF BytesInFlows
  <2>2. BytesInFlows(s)' = SumFunction(new)
    BY Zenon, <1>3, <2>1
  <2>3. DOMAIN new = flows
    BY Zenon
  <2> HIDE DEF new, flows
  <2> QED BY Zenon, <2>2, <2>3 DEF SumFunction
<1>12. s \in DOMAIN Deltas => d \in Nat
  BY Zenon, DeltasFacts, InFlowType
<1>13. s \in in_flow <=> s \in DOMAIN Deltas /\ flow \in flows
  BY Zenon DEF InFlow
<1> HIDE DEF flows, flow, d, in_flow, old, base, new
<1>14. CASE s \in in_flow
  <2>1. /\ flow \in flows /\ d \in Int
        /\ \A f \in flows : base[f] \in Int
        /\ \A f \in flows \ {flow} : new[f] = base[f]
        /\ new[flow] = base[flow] + d
    BY <1>7, <1>9, <1>12, <1>13, <1>14
  <2>2. SumFunctionOnSet(new, flows) = SumFunctionOnSet(base, flows) + d
    BY Zenon, <1>5, <2>1, SumChange
  <2> QED BY Zenon, <1>4, <1>8, <1>10, <1>11, <1>14, <2>2
<1>15. CASE s \notin in_flow
  <2>1. \A f \in flows : base[f] \in Int /\ base[f] = new[f]
    BY <1>7, <1>9, <1>13, <1>15
  <2>2. SumFunctionOnSet(base, flows) = SumFunctionOnSet(new, flows)
    BY Zenon, <1>5, <2>1, SumSame
  <2> QED BY Zenon, <1>4, <1>8, <1>10, <1>11, <1>15, <2>2
<1> QED BY Zenon, <1>14, <1>15

\* A report leaves no flows, and other steps do not touch them.
LEMMA OtherStepsFlows ==
  ASSUME LevelsCountSocketsOnce, FlowsHoldTheWindow, [Next]_vars, ~Aggregate
  PROVE  LevelsCountSocketsOnce' /\ FlowsHoldTheWindow'
<1>1. CASE UNCHANGED <<flow_cache, window>>
  BY Zenon, <1>1 DEF LevelsCountSocketsOnce, FlowsHoldTheWindow, BytesInFlows
<1>2. CASE network_stats
  <2>1. DOMAIN flow_cache' = {} /\ window' = [s \in Socks |-> 0]
    BY Zenon, <1>2, EmptyIsMap DEF network_stats
  <2>2. LevelsCountSocketsOnce'
    BY Zenon, <2>1 DEF LevelsCountSocketsOnce
  <2>3. \A s \in Socks : BytesInFlows(s)' = 0
    BY Zenon, <2>1, SumEmpty DEF BytesInFlows, SumFunction
  <2> QED BY Zenon, <2>1, <2>2, <2>3 DEF FlowsHoldTheWindow
<1> QED BY Zenon, <1>1, <1>2
        DEF Next, AgentStep, KernelStep, StartCycle, ReadProps, PropsRead, FreeProps,
            PropsFreed, CopyStats, aggregate_sock_stats, perform_bpf_eviction,
            EndCycle, vars, agent_vars

-----------------------------------------------------------------------------
(* The callbacks of a socket over the CPUs. *)

LEMMA CpuSums ==
  ASSUME NEW f \in [Cpus -> Nat], NEW cpus \in SUBSET Cpus
  PROVE  /\ IsFiniteSet(cpus)
         /\ SumFunctionOnSet(f, cpus) \in Nat
         /\ SumFunctionOnSet(f, cpus) <= SumFunctionOnSet(f, Cpus)
         /\ SumFunctionOnSet(f, Cpus) \in Nat
<1>1. IsFiniteSet(Cpus) /\ IsFiniteSet(cpus)
  BY Zenon, SockOpsAssumption, FS_Subset DEF SockOpsAssumption
<1>2. \A c \in Cpus : f[c] \in Nat
  BY Zenon
<1> QED BY Zenon, <1>1, <1>2, SumNat, SumSubset

\* More on one CPU is more on every set of CPUs.
LEMMA CpuSumsGrow ==
  ASSUME NEW f \in [Cpus -> Nat], NEW g \in [Cpus -> Nat],
         \A c \in Cpus : f[c] <= g[c], NEW cpus \in SUBSET Cpus
  PROVE  SumFunctionOnSet(f, cpus) <= SumFunctionOnSet(g, cpus)
<1>1. IsFiniteSet(cpus)
  BY Zenon, CpuSums
<1>2. \A c \in cpus : f[c] \in Int /\ g[c] \in Int /\ f[c] <= g[c]
  OBVIOUS
<1> QED BY Zenon, <1>1, <1>2, SumMonotone

LEMMA EventsType ==
  ASSUME KernelTypeOK, NEW s \in Socks
  PROVE  EventsOf(s) \in [Cpus -> Nat]
<1>1. \A key \in DOMAIN NFM_SK_STATS : NFM_SK_STATS[key].bpf_events \in Nat
  BY NetworkAssumption DEF NetworkAssumption, KernelTypeOK, IsMap, SockStats, Counter
<1> QED BY Zenon, <1>1 DEF EventsOf

LEMMA EventNumbers ==
  ASSUME TypeOK
  PROVE  /\ \A s \in Socks : /\ counted_events[s] \in 0..MaxEvents
                             /\ credited[s].bpf_events \in Nat
                             /\ StreamEvents(s) \in Nat
                             /\ StreamCpus(s) \in SUBSET Cpus
         /\ \A s \in DOMAIN sock_cache : /\ sock_cache[s].stats.bpf_events \in Nat
                                         /\ sock_cache[s].cpus \in SUBSET Cpus
<1>1. \A s \in DOMAIN sock_stream : /\ sock_stream[s].stats.bpf_events \in Nat
                                    /\ sock_stream[s].cpus \in SUBSET Cpus
  BY NetworkAssumption
     DEF NetworkAssumption, TypeOK, IsMap, AggSockStats, SockStats, Counter
<1>2. \A s \in DOMAIN sock_cache : /\ sock_cache[s].stats.bpf_events \in Nat
                                   /\ sock_cache[s].cpus \in SUBSET Cpus
  BY NetworkAssumption
     DEF NetworkAssumption, TypeOK, IsMap, SockWrapper, SockStats, Counter
<1>3. \A s \in Socks : counted_events[s] \in 0..MaxEvents
  BY Zenon DEF TypeOK, KernelTypeOK
<1>4. \A s \in Socks : credited[s].bpf_events \in Nat
  BY Zenon DEF TypeOK, Share
<1> QED BY Zenon, <1>1, <1>2, <1>3, <1>4 DEF StreamEvents, StreamCpus

\* The handlers count on one CPU at a time, and count what they add.
EventsGrow(s) ==
  \/ EventsOf(s)' = EventsOf(s) /\ counted_events'[s] = counted_events[s]
  \/ \E c \in Cpus : /\ EventsOf(s)' = [EventsOf(s) EXCEPT ![c] = @ + 1]
                     /\ counted_events'[s] = counted_events[s] + 1

LEMMA KernelEvents ==
  ASSUME CoreInvariant, ClosedInv, EventsInv, KernelStep, NEW s \in Socks
  PROVE  EventsGrow(s)
<1>1. TypeOK /\ KernelTypeOK
  BY Zenon DEF CoreInvariant, TypeOK
<1>2. EntriesMove
  BY Zenon, <1>1, KernelWrites DEF ClosedInv
<1>3. CASE EntriesKept
  BY Zenon, <1>3 DEF EntriesKept, EventsGrow, EventsOf
<1>4. ASSUME NEW key \in CpuSockKey, NEW stats \in SockStats, EntryWritten(key, stats)
      PROVE  EventsGrow(s)
  <2> DEFINE c == key[1]
             got == get_or_add_sock_stats(key).bpf_events
  <2>1. key = <<c, key[2]>> /\ c \in Cpus /\ key[2] \in Socks
    BY Zenon, <1>1, Places
  <2>2. NFM_SK_STATS' = Put(NFM_SK_STATS, key, stats)
    BY Zenon, <1>4 DEF EntryWritten
  <2>3. CASE s # key[2]
    <3>1. EventsOf(s)' = EventsOf(s)
      BY <2>1, <2>2, <2>3 DEF EventsOf, Put
    <3>2. counted_events'[s] = counted_events[s]
      BY Zenon, <1>1, <1>4, <2>3 DEF EntryWritten, KernelTypeOK
    <3> QED BY Zenon, <3>1, <3>2 DEF EventsGrow
  <2>4. CASE s = key[2]
    <3>1. got = EventsOf(s)[c]
      <4>1. got = IF key \in DOMAIN NFM_SK_STATS THEN NFM_SK_STATS[key].bpf_events
                  ELSE DefaultStats.bpf_events
        BY Zenon, <1>1, GotEntry
      <4>2. DefaultStats.bpf_events = 0
        BY Zenon DEF DefaultStats
      <4> HIDE DEF got
      <4> QED BY Zenon, <2>1, <2>4, <4>1, <4>2 DEF EventsOf
    <3>2. EventsOf(s) \in [Cpus -> Nat]
      BY Zenon, <1>1, EventsType
    <3>3. EventsOf(s)' = [EventsOf(s) EXCEPT ![c] = stats.bpf_events]
      <4>1. /\ DOMAIN NFM_SK_STATS' = DOMAIN NFM_SK_STATS \cup {key}
            /\ NFM_SK_STATS'[key] = stats
            /\ \A k \in DOMAIN NFM_SK_STATS \ {key} : NFM_SK_STATS'[k] = NFM_SK_STATS[k]
        BY Zenon, <2>2 DEF Put
      <4>2. \A x \in Cpus : EventsOf(s)'[x] = IF x = c THEN stats.bpf_events
                                             ELSE EventsOf(s)[x]
        BY <2>1, <2>4, <4>1 DEF EventsOf
      <4>3. EventsOf(s)' = [x \in Cpus |-> EventsOf(s)'[x]]
        BY Zenon DEF EventsOf
      <4> HIDE DEF c
      <4> QED BY Zenon, <3>2, <4>2, <4>3
    <3>4. got <= counted_events[s] /\ got \in Nat /\ counted_events[s] \in 0..MaxEvents
      <4>1. EventsOn(Cpus, s) \in Nat /\ EventsOn({c}, s) <= EventsOn(Cpus, s)
        BY Zenon, <2>1, <3>2, CpuSums DEF EventsOn
      <4>2. EventsOn({c}, s) = EventsOf(s)[c]
        <5>1. SumFunctionOnSet(EventsOf(s), {} \cup {c})
                = EventsOf(s)[c] + SumFunctionOnSet(EventsOf(s), {})
          BY <2>1, <3>2, FS_EmptySet, SumAdd
        <5>2. {} \cup {c} = {c} /\ EventsOf(s)[c] \in Nat
          BY Zenon, <2>1, <3>2
        <5> QED BY <5>1, <5>2, SumEmpty DEF EventsOn
      <4>3. counted_events[s] \in 0..MaxEvents /\ EventsOn(Cpus, s) <= counted_events[s]
        BY Zenon, <1>1, EventNumbers DEF EventsInv
      <4>4. EventsOf(s)[c] \in Nat
        BY Zenon, <2>1, <3>2
      <4> QED BY <3>1, <4>1, <4>2, <4>3, <4>4, SockOpsAssumption DEF SockOpsAssumption
    <3> HIDE DEF got, c
    <3>5. CASE stats.bpf_events = got /\ counted_events' = counted_events
      <4>1. EventsOf(s)' = EventsOf(s)
        BY Zenon, <2>1, <3>1, <3>2, <3>3, <3>5
      <4> QED BY Zenon, <3>5, <4>1 DEF EventsGrow
    <3>6. CASE /\ stats.bpf_events = wrapping_add(got, 1)
               /\ counted_events[key[2]] < MaxEvents
               /\ counted_events' = [counted_events EXCEPT ![key[2]] = @ + 1]
      <4>1. wrapping_add(got, 1) = got + 1
        BY <2>4, <3>4, <3>6, SockOpsAssumption, NetworkAssumption
           DEF SockOpsAssumption, NetworkAssumption, wrapping_add
      <4>2. EventsOf(s)' = [EventsOf(s) EXCEPT ![c] = @ + 1]
        BY Zenon, <2>1, <3>1, <3>2, <3>3, <3>6, <4>1
      <4>3. counted_events'[s] = counted_events[s] + 1
        BY Zenon, <1>1, <2>4, <3>6 DEF KernelTypeOK
      <4> QED BY Zenon, <2>1, <4>2, <4>3 DEF EventsGrow
    <3> QED BY Zenon, <1>4, <3>5, <3>6 DEF EntryWritten, got
  <2> QED BY Zenon, <2>3, <2>4
<1> QED BY Zenon, <1>2, <1>3, <1>4 DEF EntriesMove

LEMMA KernelSums ==
  ASSUME CoreInvariant, ClosedInv, EventsInv, KernelStep, NEW s \in Socks
  PROVE  /\ EventsOn(Cpus, s)' <= counted_events'[s]
         /\ counted_events[s] <= counted_events'[s]
         /\ counted_events'[s] \in Nat
         /\ \A cpus \in SUBSET Cpus :
              /\ EventsOn(cpus, s) <= SumFunctionOnSet(EventsOf(s)', cpus)
              /\ EventsOn(cpus, s) \in Nat
              /\ SumFunctionOnSet(EventsOf(s)', cpus) \in Nat
<1>1. TypeOK /\ KernelTypeOK
  BY Zenon DEF CoreInvariant, TypeOK
<1>2. EventsGrow(s)
  BY Zenon, KernelEvents
<1> DEFINE f == EventsOf(s)
           g == EventsOf(s)'
<1>3. f \in [Cpus -> Nat]
  BY Zenon, <1>1, EventsType
<1>4. /\ EventsOn(Cpus, s) = SumFunctionOnSet(f, Cpus)
      /\ EventsOn(Cpus, s)' = SumFunctionOnSet(g, Cpus)
      /\ \A cpus : EventsOn(cpus, s) = SumFunctionOnSet(f, cpus)
  BY Zenon DEF EventsOn
<1>5. /\ counted_events[s] \in Nat
      /\ SumFunctionOnSet(f, Cpus) <= counted_events[s]
  BY <1>1, <1>4, EventNumbers, SockOpsAssumption DEF EventsInv, SockOpsAssumption
<1> HIDE DEF f, g
<1>6. CASE g = f /\ counted_events'[s] = counted_events[s]
  <2>1. \A cpus \in SUBSET Cpus : SumFunctionOnSet(f, cpus) \in Nat
    BY Zenon, <1>3, CpuSums
  <2> QED BY <1>4, <1>5, <1>6, <2>1 DEF g
<1>7. ASSUME NEW c \in Cpus, g = [f EXCEPT ![c] = @ + 1],
             counted_events'[s] = counted_events[s] + 1
      PROVE  /\ SumFunctionOnSet(g, Cpus) <= counted_events'[s]
             /\ counted_events[s] <= counted_events'[s]
             /\ counted_events'[s] \in Nat
             /\ \A cpus \in SUBSET Cpus :
                  /\ SumFunctionOnSet(f, cpus) <= SumFunctionOnSet(g, cpus)
                  /\ SumFunctionOnSet(f, cpus) \in Nat
                  /\ SumFunctionOnSet(g, cpus) \in Nat
  <2>1. /\ g \in [Cpus -> Nat] /\ (\A x \in Cpus : f[x] <= g[x])
        /\ \A x \in Cpus \ {c} : g[x] = f[x]
        /\ g[c] = f[c] + 1 /\ 1 \in Int
        /\ \A x \in Cpus : f[x] \in Int
    BY <1>3, <1>7
  <2>2. \A cpus \in SUBSET Cpus :
          /\ SumFunctionOnSet(f, cpus) <= SumFunctionOnSet(g, cpus)
          /\ SumFunctionOnSet(f, cpus) \in Nat
          /\ SumFunctionOnSet(g, cpus) \in Nat
    BY Zenon, <1>3, <2>1, CpuSums, CpuSumsGrow
  <2>3. IsFiniteSet(Cpus)
    BY Zenon, SockOpsAssumption DEF SockOpsAssumption
  <2>4. SumFunctionOnSet(g, Cpus) = SumFunctionOnSet(f, Cpus) + 1
    BY <2>1, <2>3, SumChange
  <2>5. SumFunctionOnSet(f, Cpus) \in Nat
    BY Zenon, <2>2
  <2>6. SumFunctionOnSet(g, Cpus) <= counted_events'[s]
    BY <1>5, <1>7, <2>4, <2>5
  <2>7. counted_events[s] <= counted_events'[s] /\ counted_events'[s] \in Nat
    BY <1>5, <1>7
  <2> QED BY Zenon, <2>2, <2>6, <2>7
<1>8. (g = f /\ counted_events'[s] = counted_events[s])
      \/ \E c \in Cpus : /\ g = [f EXCEPT ![c] = @ + 1]
                         /\ counted_events'[s] = counted_events[s] + 1
  BY Zenon, <1>2 DEF EventsGrow, f, g
<1> QED BY Zenon, <1>4, <1>6, <1>7, <1>8 DEF g

-----------------------------------------------------------------------------
(* Every step preserves the invariants about the callbacks. *)

EventInv == EventsInv /\ EventIterationInv

LEMMA KernelStepEvents ==
  ASSUME CoreInvariant, ClosedInv, EventInv, KernelStep
  PROVE  EventInv'
<1> USE DEF EventInv
<1>1. UNCHANGED <<pc, todo, copying, sock_cache, sock_stream, credited>>
  BY Zenon DEF KernelStep, agent_vars
<1>2. TypeOK
  BY Zenon DEF CoreInvariant
<1>3. \A s \in DOMAIN sock_cache : s \in Socks
  BY Zenon, <1>2, Places
<1> DEFINE sum(cpus, s) == SumFunctionOnSet(EventsOf(s)', cpus)
<1>4. \A s \in Socks : /\ sum(Cpus, s) <= counted_events'[s]
                       /\ counted_events[s] <= counted_events'[s]
                       /\ counted_events'[s] \in Nat
                       /\ counted_events[s] \in Nat
                       /\ \A cpus \in SUBSET Cpus :
                            /\ EventsOn(cpus, s) <= sum(cpus, s)
                            /\ EventsOn(cpus, s) \in Nat
                            /\ sum(cpus, s) \in Nat
  <2> TAKE s \in Socks
  <2>1. counted_events[s] \in Nat
    BY <1>2, EventNumbers, SockOpsAssumption DEF SockOpsAssumption
  <2>2. EventsOn(Cpus, s)' = sum(Cpus, s)
    BY Zenon DEF EventsOn
  <2> HIDE DEF sum
  <2>3. \A cpus \in SUBSET Cpus : /\ EventsOn(cpus, s) <= sum(cpus, s)
                                  /\ EventsOn(cpus, s) \in Nat
                                  /\ sum(cpus, s) \in Nat
    BY Zenon, KernelSums DEF sum
  <2> QED BY Zenon, <2>1, <2>2, <2>3, KernelSums
<1>5. /\ \A s \in Socks : EventsOn(StreamCpus(s), s)' = sum(StreamCpus(s), s)
      /\ \A s \in Socks : EventsOn(Cpus, s)' = sum(Cpus, s)
      /\ \A s \in DOMAIN sock_cache :
           /\ EventsOn(sock_cache[s].cpus, s)' = sum(sock_cache[s].cpus, s)
           /\ EventsOn(sock_cache[s].cpus \ StreamCpus(s), s)'
                = sum(sock_cache[s].cpus \ StreamCpus(s), s)
  BY Zenon, <1>1 DEF EventsOn, StreamCpus
<1>6. \A s \in Socks : StreamEvents(s)' = StreamEvents(s) /\ StreamCpus(s)' = StreamCpus(s)
                       /\ HasContext(s)' = HasContext(s)
  BY Zenon, <1>1 DEF StreamEvents, StreamCpus, HasContext
<1> HIDE DEF sum
<1>7. EventsInv'
  <2>1. \A s \in Socks : credited[s].bpf_events <= counted_events'[s]
    BY <1>2, <1>4, EventNumbers DEF EventsInv
  <2>2. \A s \in Socks : StreamEvents(s) <= sum(StreamCpus(s), s)
    BY <1>2, <1>4, EventNumbers DEF EventsInv
  <2>3. \A s \in DOMAIN sock_cache :
          sock_cache[s].stats.bpf_events <= sum(sock_cache[s].cpus, s)
    BY <1>2, <1>3, <1>4, EventNumbers DEF EventsInv
  <2> QED BY Zenon, <1>1, <1>4, <1>5, <1>6, <2>1, <2>2, <2>3 DEF EventsInv
<1>8. EventIterationInv'
  <2>1. \A copy \in copying : copy.key[2] \in Socks
    BY Zenon, <1>2 DEF TypeOK, StatsCopy, CpuSockKey
  <2>2. ASSUME pc = "stats", NEW s \in DOMAIN sock_cache
        PROVE  sock_cache[s].stats.bpf_events
                 <= StreamEvents(s) + sum(sock_cache[s].cpus \ StreamCpus(s), s)
    <3>1. sock_cache[s].cpus \ StreamCpus(s) \in SUBSET Cpus
      BY Zenon, <1>2, EventNumbers
    <3>2. /\ s \in Socks /\ StreamEvents(s) \in Nat
          /\ sock_cache[s].stats.bpf_events \in Nat
      BY Zenon, <1>2, <1>3, EventNumbers
    <3>3. sock_cache[s].stats.bpf_events
            <= StreamEvents(s) + EventsOn(sock_cache[s].cpus \ StreamCpus(s), s)
      BY Zenon, <2>2 DEF EventIterationInv
    <3> QED BY <1>4, <3>1, <3>2, <3>3
  <2> QED BY Zenon, <1>1, <1>3, <1>5, <1>6, <2>1, <2>2 DEF EventIterationInv
<1> QED BY Zenon, <1>7, <1>8

\* Outside the iteration nothing is in the stream.
LEMMA NoStreamEvents ==
  ASSUME NEW s, sock_stream = EmptyMap
  PROVE  StreamCpus(s) = {} /\ StreamEvents(s) = 0 /\ EventsOn(StreamCpus(s), s) = 0
BY Zenon, EmptyIsMap, SumEmpty DEF StreamCpus, StreamEvents, EventsOn

\* The steps of the agent that change none of the counters.
LEMMA PhaseStepEvents ==
  ASSUME CoreInvariant, EventInv,
         \/ StartCycle \/ PropsRead \/ EndCycle \/ network_stats \/ UNCHANGED vars
         \/ \E key \in CpuSockKey : FreeProps(key)
  PROVE  EventInv'
<1> USE DEF CoreInvariant, EventInv
<1>1. /\ UNCHANGED <<counted_events, NFM_SK_STATS, copying, sock_cache, sock_stream, credited>>
      /\ pc' # "stats" \/ UNCHANGED <<pc, todo>>
  BY Zenon DEF StartCycle, PropsRead, EndCycle, network_stats, FreeProps, vars,
               kernel_vars, agent_vars
<1>2. EventsInv'
  BY Zenon, <1>1 DEF EventsInv, EventsOn, EventsOf, StreamCpus, StreamEvents, HasContext
<1>3. EventIterationInv'
  BY Zenon, <1>1 DEF EventIterationInv, EventsOn, EventsOf, StreamCpus, StreamEvents
<1> QED BY Zenon, <1>2, <1>3

LEMMA PropsFreedEvents ==
  ASSUME CoreInvariant, EventInv, PropsFreed
  PROVE  EventInv'
<1> USE DEF CoreInvariant, EventInv
<1>1. /\ UNCHANGED <<counted_events, NFM_SK_STATS, copying, sock_cache, sock_stream, credited>>
      /\ todo' = DOMAIN NFM_SK_STATS /\ copying = {} /\ sock_stream = EmptyMap
  BY Zenon DEF PropsFreed, kernel_vars, PhaseInv
<1>2. EventsInv'
  BY Zenon, <1>1 DEF EventsInv, EventsOn, EventsOf, StreamCpus, StreamEvents, HasContext
<1>3. \A s \in DOMAIN sock_cache :
        \A c \in sock_cache[s].cpus : <<c, s>> \in todo'
  BY Zenon, <1>1 DEF EntryInv
<1>4. \A s \in DOMAIN sock_cache :
        sock_cache[s].stats.bpf_events
          <= StreamEvents(s) + EventsOn(sock_cache[s].cpus \ StreamCpus(s), s)
  <2> TAKE s \in DOMAIN sock_cache
  <2>1. /\ sock_cache[s].cpus \ StreamCpus(s) = sock_cache[s].cpus
        /\ StreamEvents(s) = 0
    BY Zenon, <1>1, NoStreamEvents
  <2>2. sock_cache[s].cpus \in SUBSET Cpus /\ s \in Socks
    BY Zenon, EventNumbers, Places
  <2>3. EventsOn(sock_cache[s].cpus, s) \in Nat
    BY Zenon, <2>2, EventsType, CpuSums DEF EventsOn, TypeOK
  <2>4. sock_cache[s].stats.bpf_events <= EventsOn(sock_cache[s].cpus, s)
    BY Zenon DEF EventsInv
  <2>5. 0 + EventsOn(sock_cache[s].cpus, s) = EventsOn(sock_cache[s].cpus, s)
    BY <2>3
  <2> QED BY Zenon, <2>1, <2>4, <2>5
<1>5. EventIterationInv'
  BY Zenon, <1>1, <1>3, <1>4
     DEF EventIterationInv, EventsOn, EventsOf, StreamCpus, StreamEvents
<1> QED BY Zenon, <1>2, <1>5

LEMMA CopyStatsEvents ==
  ASSUME CoreInvariant, EventInv, NEW key \in CpuSockKey, CopyStats(key)
  PROVE  EventInv'
<1> USE DEF EventInv
<1>1. /\ UNCHANGED <<counted_events, NFM_SK_STATS, pc, todo, sock_cache, sock_stream, credited>>
      /\ ~Visited(key)
      /\ \A copy \in copying' : copy.key = key
  BY DEF CopyStats, kernel_vars
<1>2. EventsInv'
  BY Zenon, <1>1 DEF EventsInv, EventsOn, EventsOf, StreamCpus, StreamEvents, HasContext
<1>3. \A copy \in copying' : copy.key[1] \notin StreamCpus(copy.key[2])
  BY Zenon, <1>1 DEF StreamCpus, Visited
<1>4. EventIterationInv'
  BY Zenon, <1>1, <1>3 DEF EventIterationInv, EventsOn, EventsOf, StreamCpus, StreamEvents
<1> QED BY Zenon, <1>2, <1>4

\* Entries that are evicted are not of a socket in the cache.
LEMMA EvictionEvents ==
  ASSUME CoreInvariant, EventInv, NEW key \in CpuSockKey, perform_bpf_eviction(key)
  PROVE  EventInv'
<1> USE DEF CoreInvariant, EventInv
<1>1. /\ UNCHANGED <<counted_events, pc, copying, sock_cache, sock_stream, credited>>
      /\ NFM_SK_STATS' = RemoveKeys(NFM_SK_STATS, {key})
      /\ pc = "evict" /\ key \in to_evict
  BY Zenon DEF perform_bpf_eviction
<1>2. copying = {} /\ sock_stream = EmptyMap /\ key[2] \notin DOMAIN sock_cache
  BY Zenon, <1>1 DEF PhaseInv, EntryInv
<1>3. /\ DOMAIN NFM_SK_STATS' = DOMAIN NFM_SK_STATS \ {key}
      /\ \A k \in DOMAIN NFM_SK_STATS' : NFM_SK_STATS'[k] = NFM_SK_STATS[k]
  BY Zenon, <1>1 DEF RemoveKeys
<1>4. key = <<key[1], key[2]>>
  BY Zenon, Places
<1>5. \A s \in Socks : EventsOf(s)' \in [Cpus -> Nat]
                       /\ \A c \in Cpus : EventsOf(s)'[c] <= EventsOf(s)[c]
  <2> TAKE s \in Socks
  <2>1. EventsOf(s) \in [Cpus -> Nat]
    BY Zenon, EventsType DEF TypeOK
  <2>2. \A c \in Cpus : EventsOf(s)'[c] = 0 \/ EventsOf(s)'[c] = EventsOf(s)[c]
    BY Zenon, <1>3 DEF EventsOf
  <2>3. EventsOf(s)' = [c \in Cpus |-> EventsOf(s)'[c]]
    BY Zenon DEF EventsOf
  <2>4. \A c \in Cpus : EventsOf(s)'[c] \in Nat /\ EventsOf(s)'[c] <= EventsOf(s)[c]
    BY <2>1, <2>2
  <2> QED BY Zenon, <2>3, <2>4
<1>6. \A s \in DOMAIN sock_cache : EventsOf(s)' = EventsOf(s)
  BY <1>2, <1>3, <1>4 DEF EventsOf
<1>7. \A s \in Socks : EventsOn(Cpus, s)' <= counted_events[s]
  <2> TAKE s \in Socks
  <2>1. EventsOf(s) \in [Cpus -> Nat] /\ Cpus \in SUBSET Cpus
    BY Zenon, EventsType DEF TypeOK
  <2>2. SumFunctionOnSet(EventsOf(s)', Cpus) <= SumFunctionOnSet(EventsOf(s), Cpus)
    BY Zenon, <1>5, <2>1, CpuSumsGrow
  <2>3. SumFunctionOnSet(EventsOf(s)', Cpus) \in Nat /\ SumFunctionOnSet(EventsOf(s), Cpus) \in Nat
    BY Zenon, <1>5, <2>1, CpuSums
  <2>4. SumFunctionOnSet(EventsOf(s), Cpus) <= counted_events[s] /\ counted_events[s] \in Nat
    BY EventNumbers, SockOpsAssumption DEF EventsInv, EventsOn, SockOpsAssumption
  <2>5. EventsOn(Cpus, s)' = SumFunctionOnSet(EventsOf(s)', Cpus)
    BY Zenon DEF EventsOn
  <2> QED BY <2>2, <2>3, <2>4, <2>5
<1>8. \A s \in Socks : StreamEvents(s)' = 0 /\ EventsOn(StreamCpus(s), s)' = 0
  <2> TAKE s \in Socks
  <2>1. StreamEvents(s)' = StreamEvents(s) /\ StreamCpus(s)' = StreamCpus(s)
    BY Zenon, <1>1 DEF StreamEvents, StreamCpus
  <2>2. StreamEvents(s) = 0 /\ StreamCpus(s) = {}
    BY Zenon, <1>2, NoStreamEvents
  <2>3. SumFunctionOnSet(EventsOf(s)', {}) = 0
    BY Zenon, SumEmpty
  <2> QED BY Zenon, <2>1, <2>2, <2>3 DEF EventsOn
<1>9. \A s \in DOMAIN sock_cache :
        sock_cache[s].stats.bpf_events <= EventsOn(sock_cache[s].cpus, s)'
  BY Zenon, <1>1, <1>6 DEF EventsInv, EventsOn
<1>10. EventsInv'
  <2>1. 0 <= 0
    OBVIOUS
  <2> QED BY Zenon, <1>1, <1>7, <1>8, <1>9, <2>1 DEF EventsInv, HasContext
<1>11. EventIterationInv'
  BY Zenon, <1>1, <1>2 DEF EventIterationInv
<1> QED BY Zenon, <1>10, <1>11

LEMMA ReadPropsEvents ==
  ASSUME CoreInvariant, EventInv, NEW key \in CpuSockKey, ReadProps(key)
  PROVE  EventInv'
<1> USE DEF CoreInvariant, EventInv
<1>1. /\ UNCHANGED <<counted_events, NFM_SK_STATS, copying, sock_stream, credited>>
      /\ pc' # "stats" /\ copying = {}
  BY Zenon DEF ReadProps, kernel_vars, PhaseInv
<1>2. EventIterationInv'
  BY Zenon, <1>1 DEF EventIterationInv
<1>3. CASE UNCHANGED sock_cache
  <2>1. EventsInv'
    BY Zenon, <1>1, <1>3 DEF EventsInv, EventsOn, EventsOf, StreamCpus, StreamEvents,
                             HasContext
  <2> QED BY Zenon, <1>2, <2>1
<1> DEFINE sock == key[2]
<1>4. CASE /\ ContextAdded(sock_cache', sock, NFM_SK_PROPS[key])
           /\ sock \in Socks /\ Uncredited(sock)
  <2> HIDE DEF sock
  <2>1. /\ DOMAIN sock_cache' = DOMAIN sock_cache \cup {sock}
        /\ \A s \in DOMAIN sock_cache \ {sock} : sock_cache'[s] = sock_cache[s]
        /\ sock \in DOMAIN sock_cache =>
             /\ sock_cache'[sock].cpus = sock_cache[sock].cpus
             /\ sock_cache'[sock].stats.bpf_events = sock_cache[sock].stats.bpf_events
        /\ sock \notin DOMAIN sock_cache =>
             /\ sock_cache'[sock].cpus = {}
             /\ sock_cache'[sock].stats.bpf_events = 0
    BY Zenon, <1>4 DEF ContextAdded
  <2>2. /\ EventsOn(sock_cache'[sock].cpus, sock) >= sock_cache'[sock].stats.bpf_events
        /\ sock_cache'[sock].stats.bpf_events \in Nat
    <3>1. CASE sock \in DOMAIN sock_cache
      <4>1. /\ sock_cache[sock].stats.bpf_events \in Nat
            /\ sock_cache[sock].cpus \in SUBSET Cpus
        BY Zenon, <3>1, EventNumbers
      <4>2. EventsOn(sock_cache[sock].cpus, sock) \in Nat
        BY Zenon, <1>4, <4>1, EventsType, CpuSums DEF EventsOn, TypeOK
      <4> QED BY Zenon, <2>1, <3>1, <4>1, <4>2 DEF EventsInv
    <3>2. CASE sock \notin DOMAIN sock_cache
      BY <2>1, <3>2, SumEmpty DEF EventsOn
    <3> QED BY Zenon, <3>1, <3>2
  <2>3. credited[sock].bpf_events = 0
    BY Zenon, <1>4 DEF Uncredited
  <2>4. \A s \in DOMAIN sock_cache' :
          sock_cache'[s].stats.bpf_events <= EventsOn(sock_cache'[s].cpus, s)
    BY Zenon, <2>1, <2>2 DEF EventsInv
  <2>5. \A s \in Socks : HasContext(s)' =>
          credited[s].bpf_events <= sock_cache'[s].stats.bpf_events
    <3> SUFFICES ASSUME NEW s \in Socks, HasContext(s)'
                 PROVE  credited[s].bpf_events <= sock_cache'[s].stats.bpf_events
      BY Zenon
    <3>1. CASE s = sock
      BY <2>2, <2>3, <3>1
    <3>2. CASE s # sock
      <4>1. HasContext(s) /\ sock_cache'[s] = sock_cache[s]
        BY Zenon, <2>1, <3>2 DEF HasContext
      <4> QED BY Zenon, <4>1 DEF EventsInv
    <3> QED BY Zenon, <3>1, <3>2
  <2>6. EventsInv'
    BY Zenon, <1>1, <2>4, <2>5 DEF EventsInv, EventsOn, EventsOf, StreamCpus, StreamEvents
  <2> QED BY Zenon, <1>2, <2>6
<1> QED BY Zenon, <1>3, <1>4, ReadPropsAdds

\* A sum of callbacks over some CPUs does not reach the modulus of the counters.
LEMMA EventSumBound ==
  ASSUME CoreInvariant, EventsInv, NEW s \in Socks, NEW cpus \in SUBSET Cpus
  PROVE  /\ EventsOn(cpus, s) \in Nat
         /\ EventsOn(cpus, s) <= counted_events[s]
         /\ counted_events[s] \in Nat
         /\ counted_events[s] < CounterModulus
<1>1. TypeOK /\ EventsOf(s) \in [Cpus -> Nat]
  BY Zenon, EventsType DEF CoreInvariant, TypeOK
<1>2. /\ EventsOn(cpus, s) \in Nat /\ EventsOn(Cpus, s) \in Nat
      /\ EventsOn(cpus, s) <= EventsOn(Cpus, s)
  BY Zenon, <1>1, CpuSums DEF EventsOn
<1>3. EventsOn(Cpus, s) <= counted_events[s] /\ counted_events[s] \in 0..MaxEvents
  BY Zenon, <1>1, EventNumbers DEF EventsInv
<1> QED BY <1>2, <1>3, SockOpsAssumption, NetworkAssumption
        DEF SockOpsAssumption, NetworkAssumption

\* The callbacks of one more CPU.
LEMMA EventsOnOneMore ==
  ASSUME TypeOK, NEW s \in Socks, NEW cpus \in SUBSET Cpus, NEW c \in Cpus, c \notin cpus
  PROVE  /\ EventsOn(cpus \cup {c}, s) = EventsOf(s)[c] + EventsOn(cpus, s)
         /\ EventsOf(s)[c] \in Nat
         /\ EventsOn(cpus, s) \in Nat
<1>1. EventsOf(s) \in [Cpus -> Nat]
  BY Zenon, EventsType DEF TypeOK
<1>2. IsFiniteSet(cpus) /\ EventsOn(cpus, s) \in Nat
  BY Zenon, <1>1, CpuSums DEF EventsOn
<1>3. \A x \in cpus \cup {c} : EventsOf(s)[x] \in Int
  BY <1>1
<1>4. EventsOf(s)[c] \in Nat
  BY Zenon, <1>1
<1> QED BY Zenon, <1>2, <1>3, <1>4, SumAdd DEF EventsOn

LEMMA AggregateSockStatsEvents ==
  ASSUME CoreInvariant, EventInv, aggregate_sock_stats
  PROVE  EventInv'
<1> USE DEF CoreInvariant, EventInv
<1>1. PICK copy \in copying, cpu \in Cpus, sock \in Socks : EntryMerged(copy, cpu, sock)
  BY Zenon, MergesEntry
<1>2. /\ UNCHANGED <<counted_events, NFM_SK_STATS, pc, sock_cache, credited>>
      /\ copying' = {} /\ pc = "stats"
  BY Zenon DEF aggregate_sock_stats, kernel_vars
<1>3. /\ todo' = todo \ {<<cpu, sock>>}
      /\ DOMAIN sock_stream' = DOMAIN sock_stream \cup {sock}
      /\ \A s \in DOMAIN sock_stream \ {sock} : sock_stream'[s] = sock_stream[s]
      /\ sock_stream'[sock].cpus = StreamCpus(sock) \cup {cpu}
      /\ copy.key = <<cpu, sock>>
      /\ <<cpu, sock>> \in DOMAIN NFM_SK_STATS
  BY Zenon, <1>1 DEF EntryMerged
<1>4. cpu \notin StreamCpus(sock)
  BY <1>3 DEF EventIterationInv
<1>5. /\ \A s \in Socks \ {sock} : /\ StreamCpus(s)' = StreamCpus(s)
                                   /\ StreamEvents(s)' = StreamEvents(s)
      /\ StreamCpus(sock)' = StreamCpus(sock) \cup {cpu}
  BY Zenon, <1>3 DEF StreamCpus, StreamEvents
<1> DEFINE more == EventsOf(sock)[cpu]
<1>6. /\ StreamEvents(sock) <= EventsOn(StreamCpus(sock), sock)
      /\ StreamEvents(sock) \in Nat /\ StreamCpus(sock) \in SUBSET Cpus
      /\ StreamCpus(sock) \cup {cpu} \in SUBSET Cpus
  BY Zenon, EventNumbers DEF EventsInv
<1>7. /\ EventsOn(StreamCpus(sock) \cup {cpu}, sock) = more + EventsOn(StreamCpus(sock), sock)
      /\ more \in Nat /\ EventsOn(StreamCpus(sock), sock) \in Nat
  BY Zenon, <1>4, <1>6, EventsOnOneMore
<1>8. StreamEvents(sock)' = StreamEvents(sock) + more
  <2>1. /\ sock_stream'[sock].stats = add_from(Before(sock), CopiedStats(copy))
        /\ Before(sock) \in SockStats /\ CopiedStats(copy) \in SockStats
        /\ CopiedStats(copy).bpf_events = NFM_SK_STATS[<<cpu, sock>>].bpf_events
    BY Zenon, <1>1 DEF EntryMerged
  <2>2. Before(sock).bpf_events = StreamEvents(sock)
    BY Zenon DEF Before, StreamEvents, DefaultStats
  <2>3. more = NFM_SK_STATS[<<cpu, sock>>].bpf_events
    BY Zenon, <1>3 DEF EventsOf
  <2>4. StreamEvents(sock)' = sock_stream'[sock].stats.bpf_events
    BY Zenon, <1>3 DEF StreamEvents
  <2> HIDE DEF more
  <2>5. StreamEvents(sock)' = wrapping_add(StreamEvents(sock), more)
    BY <2>1, <2>2, <2>3, <2>4, AddFromRest
  <2>6. /\ EventsOn(StreamCpus(sock) \cup {cpu}, sock) <= counted_events[sock]
        /\ counted_events[sock] \in Nat /\ counted_events[sock] < CounterModulus
    BY Zenon, <1>6, EventSumBound
  <2>7. CounterModulus \in Nat
    BY Zenon, NetworkAssumption DEF NetworkAssumption
  <2> QED BY <1>6, <1>7, <2>5, <2>6, <2>7 DEF wrapping_add
<1> HIDE DEF more
<1>9. EventsInv'
  <2>1. StreamEvents(sock)' <= EventsOn(StreamCpus(sock) \cup {cpu}, sock)
    BY <1>6, <1>7, <1>8
  <2>2. \A s \in Socks : StreamEvents(s)' <= EventsOn(StreamCpus(s)', s)
    BY Zenon, <1>5, <2>1 DEF EventsInv
  <2>3. \A s \in Socks : EventsOn(StreamCpus(s), s)' = EventsOn(StreamCpus(s)', s)
    BY Zenon, <1>2 DEF EventsOn, EventsOf
  <2>4. \A s \in Socks : StreamEvents(s)' <= EventsOn(StreamCpus(s), s)'
    BY Zenon, <2>2, <2>3
  <2> HIDE DEF EventInv
  <2>5. EventsInv
    BY Zenon DEF EventInv
  <2> QED BY Zenon, <1>2, <2>4, <2>5 DEF EventsInv, EventsOn, EventsOf, HasContext
<1>10. ASSUME NEW s \in DOMAIN sock_cache, NEW c \in sock_cache[s].cpus
       PROVE  <<c, s>> \in todo' \/ c \in StreamCpus(s)'
  <2>1. s \in Socks /\ (<<c, s>> \in todo \/ c \in StreamCpus(s))
    BY Zenon, <1>2, Places DEF EventIterationInv
  <2>2. CASE s = sock
    BY Zenon, <1>3, <1>5, <2>1, <2>2
  <2>3. CASE s # sock
    BY Zenon, <1>3, <1>5, <2>1, <2>3
  <2> QED BY Zenon, <2>2, <2>3
<1>11. ASSUME NEW s \in DOMAIN sock_cache
       PROVE  sock_cache[s].stats.bpf_events
                <= StreamEvents(s)' + EventsOn(sock_cache[s].cpus \ StreamCpus(s)', s)
  <2> DEFINE cpus == sock_cache[s].cpus
             left == cpus \ StreamCpus(s)'
             cached == sock_cache[s].stats.bpf_events
  <2>1. /\ s \in Socks
        /\ cached <= StreamEvents(s) + EventsOn(cpus \ StreamCpus(s), s)
    BY Zenon, <1>2, Places DEF EventIterationInv
  <2>2. CASE s # sock
    BY Zenon, <1>5, <2>1, <2>2
  <2>3. CASE s = sock /\ cpu \notin cpus
    <3>1. left = cpus \ StreamCpus(s)
      BY Zenon, <1>5, <2>3
    <3>2. left \in SUBSET Cpus /\ cached \in Nat
      BY Zenon, EventNumbers
    <3>3. EventsOn(left, s) \in Nat
      BY Zenon, <2>1, <3>2, EventSumBound
    <3>4. cached <= StreamEvents(s) + EventsOn(left, s)
      BY Zenon, <2>1, <3>1
    <3>5. StreamEvents(s)' = StreamEvents(s) + more /\ StreamEvents(s) \in Nat
      BY Zenon, <1>6, <1>8, <2>3
    <3> HIDE DEF left, cached
    <3>6. cached <= StreamEvents(s)' + EventsOn(left, s)
      BY <1>7, <3>2, <3>3, <3>4, <3>5
    <3> QED BY Zenon, <3>6 DEF left, cached
  <2>4. CASE s = sock /\ cpu \in cpus
    <3>1. cpus \ StreamCpus(s) = left \cup {cpu} /\ cpu \notin left
      BY Zenon, <1>4, <1>5, <2>4
    <3>2. left \in SUBSET Cpus /\ cached \in Nat
      BY Zenon, EventNumbers
    <3> HIDE DEF left, cached
    <3>3. EventsOn(left \cup {cpu}, s) = more + EventsOn(left, s) /\ EventsOn(left, s) \in Nat
      BY Zenon, <2>4, <3>1, <3>2, EventsOnOneMore DEF more
    <3>4. cached <= StreamEvents(s) + (more + EventsOn(left, s))
      BY Zenon, <2>1, <3>1, <3>3
    <3>5. StreamEvents(s)' = StreamEvents(s) + more /\ StreamEvents(s) \in Nat
      BY Zenon, <1>6, <1>8, <2>4
    <3>6. cached <= StreamEvents(s)' + EventsOn(left, s)
      BY <1>7, <3>2, <3>3, <3>4, <3>5
    <3> QED BY Zenon, <3>6 DEF left, cached
  <2> QED BY Zenon, <2>2, <2>3, <2>4
<1>12. EventIterationInv'
  <2>1. \A s \in DOMAIN sock_cache :
          EventsOn(sock_cache[s].cpus \ StreamCpus(s), s)'
            = EventsOn(sock_cache[s].cpus \ StreamCpus(s)', s)
    BY Zenon, <1>2 DEF EventsOn, EventsOf
  <2> QED BY Zenon, <1>2, <1>10, <1>11, <2>1 DEF EventIterationInv
<1> QED BY Zenon, <1>9, <1>12

\* At the end of the iteration the stream has at least the cached callbacks.
LEMMA NoEventWrap ==
  ASSUME CoreInvariant, EventInv, pc = "stats", todo = {}, copying = {},
         NEW s \in DOMAIN sock_cache \cap DOMAIN sock_stream
  PROVE  /\ sock_cache[s].stats.bpf_events <= sock_stream[s].stats.bpf_events
         /\ sock_cache[s].stats.bpf_events \in Nat
         /\ sock_stream[s].stats.bpf_events \in Nat
<1> USE DEF CoreInvariant, EventInv
<1>1. sock_cache[s].cpus \ StreamCpus(s) = {}
  <2>1. \A c \in sock_cache[s].cpus : <<c, s>> \in todo \/ c \in StreamCpus(s)
    BY Zenon DEF EventIterationInv
  <2> HIDE DEF CoreInvariant, EventInv
  <2> QED BY Zenon, <2>1
<1>2. EventsOn(sock_cache[s].cpus \ StreamCpus(s), s) = 0
  BY Zenon, <1>1, SumEmpty DEF EventsOn
<1>3. /\ sock_cache[s].stats.bpf_events <= StreamEvents(s) + 0
      /\ StreamEvents(s) = sock_stream[s].stats.bpf_events
  BY Zenon, <1>2 DEF EventIterationInv, StreamEvents
<1>4. StreamEvents(s) \in Nat /\ sock_cache[s].stats.bpf_events \in Nat
  BY Zenon, EventNumbers, Places
<1> QED BY <1>3, <1>4

LEMMA DeltaEvents ==
  ASSUME CoreInvariant, EventInv, pc = "stats", todo = {}, copying = {},
         NEW s \in DOMAIN sock_cache \cap DOMAIN sock_stream
  PROVE  Deltas[s].bpf_events =
           sock_stream[s].stats.bpf_events - sock_cache[s].stats.bpf_events
<1> DEFINE new == sock_stream[s].stats
           old == sock_cache[s].stats
<1>1. /\ old.bpf_events <= new.bpf_events
      /\ old.bpf_events \in Nat /\ new.bpf_events \in Nat
  BY Zenon, NoEventWrap
<1>2. new \in SockStats
  BY Zenon DEF CoreInvariant, TypeOK, IsMap, AggSockStats
<1>3. Deltas[s] = subtract(new, old)
  BY Zenon DEF Deltas, get_deltas
<1> HIDE DEF new, old
<1>4. subtract(new, old).bpf_events = wrapping_sub(new.bpf_events, old.bpf_events)
  BY Zenon, <1>2 DEF subtract, SockStats
<1> QED BY Zenon, <1>1, <1>3, <1>4 DEF wrapping_sub, new, old

\* A round credits the callbacks that are new in the stream.
LEMMA AggregateEvents ==
  ASSUME CoreInvariant, EventInv, Aggregate
  PROVE  EventInv'
<1> USE DEF CoreInvariant, EventInv
<1>1. /\ UNCHANGED <<counted_events, NFM_SK_STATS>>
      /\ pc = "stats" /\ pc' = "evict" /\ todo = {} /\ copying = {} /\ copying' = {}
      /\ sock_stream' = EmptyMap
  BY Zenon DEF Aggregate, kernel_vars
<1>2. /\ \A s \in DOMAIN sock_cache' : Kept(s)
      /\ \A s \in Socks : credited'[s] = credited[s] \/ CreditedNow(s)
  BY Zenon, AggregateFacts
<1>3. \A s, cpus : EventsOn(cpus, s)' = EventsOn(cpus, s)
  BY Zenon, <1>1 DEF EventsOn, EventsOf
<1>4. \A s \in DOMAIN sock_cache' :
        sock_cache'[s].stats.bpf_events <= EventsOn(sock_cache'[s].cpus, s)
  <2> TAKE s \in DOMAIN sock_cache'
  <2>1. CASE s \in DOMAIN sock_stream
    <3>1. /\ sock_cache'[s].stats = sock_stream[s].stats
          /\ sock_cache'[s].cpus = sock_stream[s].cpus
      BY Zenon, <1>2, <2>1 DEF Kept
    <3>2. s \in Socks
      BY Zenon, <2>1, Places
    <3> QED BY Zenon, <2>1, <3>1, <3>2 DEF EventsInv, StreamEvents, StreamCpus
  <2>2. CASE s \notin DOMAIN sock_stream
    BY Zenon, <1>2, <2>2 DEF Kept, EventsInv
  <2> QED BY Zenon, <2>1, <2>2
<1>5. ASSUME NEW s \in Socks
      PROVE  /\ credited'[s].bpf_events <= counted_events[s]
             /\ HasContext(s)' => credited'[s].bpf_events
                                    <= sock_cache'[s].stats.bpf_events
  <2> DEFINE cached == sock_cache[s].stats.bpf_events
             read == sock_stream[s].stats.bpf_events
  <2>1. /\ credited[s].bpf_events \in Nat
        /\ credited[s].bpf_events <= counted_events[s]
        /\ counted_events[s] \in Nat
    BY Zenon, EventNumbers, EventSumBound DEF EventsInv
  <2>2. s \in DOMAIN sock_cache \cap DOMAIN sock_stream =>
          cached <= read /\ cached \in Nat /\ read \in Nat
    BY Zenon, <1>1, NoEventWrap
  <2>3. s \in DOMAIN sock_stream => read <= counted_events[s]
    <3> SUFFICES ASSUME s \in DOMAIN sock_stream PROVE read <= counted_events[s]
      BY Zenon
    <3>1. read = StreamEvents(s)
      BY Zenon DEF StreamEvents
    <3> HIDE DEF read
    <3>2. read <= EventsOn(StreamCpus(s), s) /\ StreamCpus(s) \in SUBSET Cpus /\ read \in Nat
      BY Zenon, <3>1, EventNumbers DEF EventsInv
    <3>3. /\ EventsOn(StreamCpus(s), s) \in Nat
          /\ EventsOn(StreamCpus(s), s) <= counted_events[s]
      BY Zenon, <3>2, EventSumBound
    <3> QED BY <2>1, <3>2, <3>3
  <2>4. HasContext(s) => s \in DOMAIN sock_cache /\ credited[s].bpf_events <= cached
    BY Zenon DEF HasContext, EventsInv
  <2>5. HasContext(s)' =>
          /\ HasContext(s) /\ s \in DOMAIN sock_cache'
          /\ s \in DOMAIN sock_stream => sock_cache'[s].stats.bpf_events = read
          /\ s \notin DOMAIN sock_stream => sock_cache'[s].stats.bpf_events = cached
    <3> SUFFICES ASSUME HasContext(s)'
                 PROVE  /\ HasContext(s) /\ s \in DOMAIN sock_cache'
                        /\ s \in DOMAIN sock_stream =>
                             sock_cache'[s].stats.bpf_events = read
                        /\ s \notin DOMAIN sock_stream =>
                             sock_cache'[s].stats.bpf_events = cached
      BY Zenon
    <3>1. Kept(s) /\ s \in DOMAIN sock_cache' /\ is_valid(sock_cache'[s].context)
      BY Zenon, <1>2 DEF HasContext
    <3>2. HasContext(s)
      BY Zenon, <3>1 DEF HasContext, Kept
    <3> QED BY Zenon, <3>1, <3>2 DEF Kept
  <2>6. CASE credited'[s] = credited[s]
    <3> HIDE DEF cached, read
    <3>1. HasContext(s)' /\ s \in DOMAIN sock_stream => credited[s].bpf_events <= read
      BY <2>1, <2>2, <2>4, <2>5
    <3> QED BY Zenon, <2>1, <2>4, <2>5, <2>6, <3>1
  <2>7. CASE CreditedNow(s)
    <3>1. /\ HasContext(s) /\ s \in DOMAIN sock_stream /\ s \in DOMAIN sock_cache
          /\ credited'[s].bpf_events = credited[s].bpf_events + Deltas[s].bpf_events
      BY Zenon, <2>4, <2>7 DEF CreditedNow
    <3>2. Deltas[s].bpf_events = read - cached
      BY Zenon, <1>1, <3>1, DeltaEvents
    <3> HIDE DEF cached, read
    <3>3. credited'[s].bpf_events <= read
      BY <2>1, <2>2, <2>4, <3>1, <3>2
    <3>4. credited'[s].bpf_events \in Int
      BY <2>1, <2>2, <3>1, <3>2
    <3>5. credited'[s].bpf_events <= counted_events[s]
      BY <2>1, <2>2, <2>3, <3>1, <3>3, <3>4
    <3> QED BY Zenon, <2>5, <3>1, <3>3, <3>5
  <2> QED BY Zenon, <1>2, <2>6, <2>7
<1>6. \A s \in Socks : StreamEvents(s)' = 0 /\ EventsOn(StreamCpus(s), s)' = 0
  BY Zenon, <1>1, EmptyIsMap, SumEmpty DEF StreamCpus, StreamEvents, EventsOn
<1>7. \A s \in Socks : StreamEvents(s)' <= EventsOn(StreamCpus(s), s)'
  BY <1>6
<1>8. \A s \in Socks : EventsOn(Cpus, s)' <= counted_events'[s]
  BY Zenon, <1>1, <1>3 DEF EventsInv
<1>9. \A s \in DOMAIN sock_cache' :
        sock_cache'[s].stats.bpf_events <= EventsOn(sock_cache[s].cpus, s)'
  BY Zenon, <1>1, <1>4 DEF EventsOn, EventsOf
<1>10. EventsInv'
  <2> HIDE DEF EventInv
  <2> QED BY Zenon, <1>1, <1>5, <1>7, <1>8, <1>9 DEF EventsInv
<1>11. EventIterationInv'
  BY Zenon, <1>1 DEF EventIterationInv
<1> QED BY Zenon, <1>10, <1>11

=============================================================================
