------------------------ MODULE EventProviderProofs -------------------------
(***************************************************************************)
(* Proofs about EventProvider, for any sets of sockets, CPUs and flows and *)
(* any capacities: the inductive invariant, the properties that follow     *)
(* from it, and the refinement of FlowLedger.                              *)
(***************************************************************************)
EXTENDS EventProviderSums

USE DEF is_valid

-----------------------------------------------------------------------------
(* The inductive invariant. *)

LEMMA InitCore == Init => CoreInvariant
<1> SUFFICES ASSUME Init PROVE CoreInvariant
  BY Zenon
<1>1. TypeOK
  BY Zenon, TypeInit
<1>2. /\ DOMAIN NFM_SK_STATS = {} /\ DOMAIN NFM_SK_PROPS = {}
      /\ DOMAIN sock_cache = {} /\ DOMAIN sock_stream = {}
  BY Zenon, EmptyIsMap DEF Init
<1>3. \A s \in Socks : Uncredited(s)
  BY Zenon, <1>2 DEF Init, Uncredited, HasContext, NoShare
<1>4. PhaseInv /\ EntryInv
  BY Zenon, <1>2 DEF Init, PhaseInv, EntryInv
<1>5. BytesInv /\ IterationInv
  BY Zenon, <1>2 DEF Init, BytesInv, IterationInv
<1>6. ContextInv
  BY Zenon, <1>2, <1>3 DEF Init, ContextInv
<1>7. CreditInv
  BY <1>2, <1>3, Numbers, <1>1 DEF CreditInv, Uncredited, HasContext
<1> QED BY Zenon, <1>1, <1>4, <1>5, <1>6, <1>7 DEF CoreInvariant

LEMMA InitInv == Init => InductiveInvariant
<1> SUFFICES ASSUME Init PROVE InductiveInvariant
  BY Zenon
<1>1. CoreInvariant
  BY Zenon, InitCore
<1>2. /\ DOMAIN NFM_SK_STATS = {} /\ DOMAIN sock_cache = {}
      /\ DOMAIN sock_stream = {} /\ DOMAIN flow_cache = {}
      /\ copying = {} /\ finished = {} /\ pc = "idle" /\ sock_stream = EmptyMap
  BY Zenon, EmptyIsMap DEF Init
<1>3. EventsInv
  <2>1. \A s \in Socks : /\ EventsOn(Cpus, s) = 0
                         /\ counted_events[s] = 0 /\ credited[s].bpf_events = 0
    <3> TAKE s \in Socks
    <3>1. \A c \in Cpus : EventsOf(s)[c] = 0
      BY Zenon, <1>2 DEF EventsOf
    <3>2. IsFiniteSet(Cpus) /\ {} \in SUBSET Cpus
      BY Zenon, SockOpsAssumption DEF SockOpsAssumption
    <3>3. EventsOn(Cpus, s) = SumFunctionOnSet(EventsOf(s), {})
      BY <3>1, <3>2, SumZeros DEF EventsOn
    <3>4. counted_events[s] = 0 /\ credited[s].bpf_events = 0
      BY Zenon DEF Init, NoShare
    <3> QED BY Zenon, <3>3, <3>4, SumEmpty
  <2>2. \A s \in Socks : StreamEvents(s) = 0 /\ EventsOn(StreamCpus(s), s) = 0
    BY Zenon, <1>2, NoStreamEvents
  <2> QED BY <1>2, <2>1, <2>2 DEF EventsInv, HasContext
<1>4. EventIterationInv
  BY Zenon, <1>2 DEF EventIterationInv
<1>5. ClosedInv
  BY Zenon, <1>2 DEF ClosedInv, ClosedEntries, ClosedStream, CacheCredited, FinishedSettled
<1>6. TouchInv
  BY <1>2, SockOpsAssumption DEF Init, TouchInv, SockOpsAssumption
<1>7. LevelsCountSocketsOnce
  BY Zenon, <1>2 DEF LevelsCountSocketsOnce
<1>8. FlowsHoldTheWindow
  <2>1. \A s \in Socks : BytesInFlows(s) = 0
    BY Zenon, <1>2, SumEmpty DEF BytesInFlows, SumFunction
  <2> QED BY Zenon, <2>1 DEF Init, FlowsHoldTheWindow
<1> QED BY Zenon, <1>1, <1>3, <1>4, <1>5, <1>6, <1>7, <1>8 DEF InductiveInvariant

LEMMA NextCore ==
  ASSUME CoreInvariant, [Next]_vars
  PROVE  CoreInvariant'
BY Zenon, KernelStepInv, PhaseStepInv, PropsFreedInv, FreePropsInv, CopyStatsInv,
   EvictionInv, ReadPropsInv, AggregateSockStatsInv, AggregateInv
DEF Next, AgentStep

LEMMA NextEvents ==
  ASSUME CoreInvariant, ClosedInv, EventInv, [Next]_vars
  PROVE  EventInv'
BY Zenon, KernelStepEvents, PhaseStepEvents, PropsFreedEvents, CopyStatsEvents,
   EvictionEvents, ReadPropsEvents, AggregateSockStatsEvents, AggregateEvents
DEF Next, AgentStep

LEMMA NextClosed ==
  ASSUME CoreInvariant, ClosedInv, [Next]_vars
  PROVE  ClosedInv'
<1>1. CASE Quiet
  BY Zenon, <1>1, QuietClosed
<1> QED BY Zenon, <1>1, KernelStepClosed, QuietSteps, ReadPropsClosed,
           AggregateSockStatsClosed, AggregateClosed DEF Next, AgentStep

LEMMA NextTouch ==
  ASSUME CoreInvariant, ClosedInv, TouchInv, [Next]_vars
  PROVE  TouchInv'
BY Zenon, KernelStepTouch, OtherStepsTouch, CopyStatsTouch, AggregateSockStatsTouch
DEF Next, AgentStep

LEMMA NextFlows ==
  ASSUME CoreInvariant, LevelsCountSocketsOnce, FlowsHoldTheWindow, [Next]_vars
  PROVE  LevelsCountSocketsOnce' /\ FlowsHoldTheWindow'
BY Zenon, AggregateLevels, AggregateWindow, OtherStepsFlows

LEMMA NextInv ==
  ASSUME InductiveInvariant, [Next]_vars
  PROVE  InductiveInvariant'
<1>1. CoreInvariant /\ ClosedInv /\ EventInv /\ TouchInv
      /\ LevelsCountSocketsOnce /\ FlowsHoldTheWindow
  BY Zenon DEF InductiveInvariant, EventInv
<1>2. CoreInvariant' /\ ClosedInv' /\ EventInv' /\ TouchInv'
      /\ LevelsCountSocketsOnce' /\ FlowsHoldTheWindow'
  BY Zenon, <1>1, NextCore, NextEvents, NextClosed, NextTouch, NextFlows
<1> QED BY Zenon, <1>2 DEF InductiveInvariant, EventInv

\* In every interleaving of the sock_ops handlers with the aggregation cycle, the
\* shared maps, the agent's copies, its cache and the flows stay consistent.
THEOREM InvariantHolds == Spec => []InductiveInvariant
<1>1. Init => InductiveInvariant
  BY Zenon, InitInv
<1>2. InductiveInvariant /\ [Next]_vars => InductiveInvariant'
  BY Zenon, NextInv
<1> QED BY <1>1, <1>2, PTL DEF Spec

\* Every variable keeps its type; in particular the sampling interval that
\* increase_sampling_interval and decrease_sampling_interval send to the eBPF
\* program stays within 1..MaxSamplingInterval.
THEOREM TypeCorrect == Spec => []TypeOK
<1>1. InductiveInvariant => TypeOK
  BY Zenon DEF InductiveInvariant, CoreInvariant
<1> QED BY <1>1, InvariantHolds, PTL

\* perform_bpf_eviction finds every entry it sets out to remove, whatever the
\* handlers did since the entry was read.
THEOREM EvictionIsSafe == Spec => []EvictionFindsEntries
<1>1. InductiveInvariant => EvictionFindsEntries
  BY Zenon DEF InductiveInvariant, CoreInvariant, EntryInv, EvictionFindsEntries
<1> QED BY <1>1, InvariantHolds, PTL

\* The byte counters that update_stats_and_get_deltas subtracts from each other
\* never go backwards, for any number of CPUs a socket moves between.
THEOREM DeltasAreSafe == Spec => []BytesDoNotWrap
<1>1. InductiveInvariant => BytesDoNotWrap
  <2> SUFFICES ASSUME InductiveInvariant, pc = "stats", todo = {}, copying = {},
                      NEW s \in DOMAIN sock_cache \cap DOMAIN sock_stream
               PROVE  sock_stream[s].stats.bytes_received
                        >= sock_cache[s].stats.bytes_received
    BY Zenon DEF BytesDoNotWrap
  <2>1. /\ sock_stream[s].stats.bytes_received \in Nat
        /\ sock_cache[s].stats.bytes_received \in Nat
    BY Zenon, Numbers DEF InductiveInvariant, CoreInvariant
  <2> QED BY Zenon, <2>1, NoWrap DEF InductiveInvariant
<1> QED BY <1>1, InvariantHolds, PTL

\* Nor do the counters of callbacks, which update_stats_and_get_deltas subtracts
\* from the sum over the CPUs a socket was seen on.
THEOREM EventDeltasAreSafe == Spec => []EventsDoNotWrap
<1>1. InductiveInvariant => EventsDoNotWrap
  <2> SUFFICES ASSUME InductiveInvariant, pc = "stats", todo = {}, copying = {},
                      NEW s \in DOMAIN sock_cache \cap DOMAIN sock_stream
               PROVE  sock_stream[s].stats.bpf_events
                        >= sock_cache[s].stats.bpf_events
    BY Zenon DEF EventsDoNotWrap
  <2>1. CoreInvariant /\ EventInv
    BY Zenon DEF InductiveInvariant, EventInv
  <2>2. /\ sock_cache[s].stats.bpf_events <= sock_stream[s].stats.bpf_events
        /\ sock_cache[s].stats.bpf_events \in Nat
        /\ sock_stream[s].stats.bpf_events \in Nat
    BY Zenon, <2>1, NoEventWrap
  <2> QED BY Zenon, <2>2
<1> QED BY <1>1, InvariantHolds, PTL

\* The flows are never credited with more bytes of a socket than the kernel
\* transferred for it.
THEOREM BytesCountedOnce == Spec => []NoDoubleCounting
<1>1. InductiveInvariant => NoDoubleCounting
  BY Zenon DEF InductiveInvariant, CoreInvariant, CreditInv, NoDoubleCounting
<1> QED BY <1>1, InvariantHolds, PTL

\* Nor with more callbacks than the handlers counted on all CPUs together.
THEOREM CallbacksCountedOnce == Spec => []EventsCountedOnce
<1>1. InductiveInvariant => EventsCountedOnce
  BY Zenon DEF InductiveInvariant, EventsInv, EventsCountedOnce
<1> QED BY <1>1, InvariantHolds, PTL

\* A socket that the cache gave up as complete took all its bytes to the flows,
\* unless CreditFlows dropped a delta of it or the copy of its entry was torn.
THEOREM ClosedSocketsArePaid == Spec => []ClosedSocketFullyCounted
<1>1. InductiveInvariant => ClosedSocketFullyCounted
  BY Zenon DEF InductiveInvariant, ClosedInv, FinishedSettled, ClosedSocketFullyCounted
<1> QED BY <1>1, InvariantHolds, PTL

\* network_stats reports exactly what the rounds credited since the last report.
THEOREM ReportsHoldTheWindow == Spec => []FlowsHoldTheWindow
<1>1. InductiveInvariant => FlowsHoldTheWindow
  BY Zenon DEF InductiveInvariant
<1> QED BY <1>1, InvariantHolds, PTL

\* No socket is counted in the levels of two flows, although NAT may move it.
THEOREM LevelsAreDisjoint == Spec => []LevelsCountSocketsOnce
<1>1. InductiveInvariant => LevelsCountSocketsOnce
  BY Zenon DEF InductiveInvariant
<1> QED BY <1>1, InvariantHolds, PTL

\* sockets_completed counts a socket at most once.
THEOREM CompletionCountedOnce == Spec => []CompletedOnce
<1>1. InductiveInvariant => CompletedOnce
  BY Zenon DEF InductiveInvariant, CoreInvariant, CreditInv, CompletedOnce
<1> QED BY <1>1, InvariantHolds, PTL

\* An entry leaves NFM_SK_PROPS only once the cache has its context.
THEOREM ContextIsKept == Spec => ContextFreedOnceCached
<1> DEFINE Freed == \A key \in DOMAIN NFM_SK_PROPS \ DOMAIN NFM_SK_PROPS' :
                      /\ key[2] \in DOMAIN sock_cache
                      /\ sock_cache[key[2]].context = NFM_SK_PROPS[key]
<1>1. InductiveInvariant /\ [Next]_vars => [Freed]_vars
  <2> SUFFICES ASSUME InductiveInvariant, Next PROVE Freed
    BY Zenon
  <2>1. CASE KernelStep
    <3>1. ContextsMove
      BY Zenon, <2>1, KernelMoves DEF InductiveInvariant, CoreInvariant, TypeOK, BytesInv, EntriesLag
    <3>2. DOMAIN NFM_SK_PROPS \subseteq DOMAIN NFM_SK_PROPS'
      BY Zenon, <3>1 DEF ContextsMove, Put
    <3> QED BY Zenon, <3>2
  <2>2. ASSUME NEW key \in CpuSockKey, FreeProps(key) PROVE Freed
    <3>1. DOMAIN NFM_SK_PROPS \ DOMAIN NFM_SK_PROPS' \subseteq {key}
      BY Zenon, <2>2 DEF FreeProps, RemoveKeys
    <3>2. key \in new_cpu_sock_keys
      BY Zenon, <2>2 DEF FreeProps
    <3> QED BY Zenon, <3>1, <3>2 DEF InductiveInvariant, CoreInvariant, ContextInv
  <2>3. CASE UNCHANGED NFM_SK_PROPS
    BY Zenon, <2>3
  <2> QED BY Zenon, <2>1, <2>2, <2>3
          DEF Next, AgentStep, StartCycle, ReadProps, PropsRead, PropsFreed,
              CopyStats, aggregate_sock_stats, Aggregate, perform_bpf_eviction,
              EndCycle, network_stats, kernel_vars
<1>2. (Spec => [][Freed]_vars) => (Spec => ContextFreedOnceCached)
  BY Zenon DEF ContextFreedOnceCached
<1> QED BY <1>1, <1>2, InvariantHolds, PTL DEF Spec

\* What the stream tells of a socket that a round gives up.
LEMMA GivenUpIsOver ==
  ASSUME InductiveInvariant, Aggregate,
         NEW s \in DOMAIN sock_stream, GivenUp(s), tcp_state[s] # "CLOSE",
         NEW c \in Cpus, <<c, s>> \in DOMAIN NFM_SK_STATS
  PROVE  \/ NFM_SK_STATS[<<c, s>>].last_touched_us + NoTrack <= cycle_us
         \/ NFM_SK_STATS[<<c, s>>].last_touched_us >= cycle_us
<1> DEFINE touched == NFM_SK_STATS[<<c, s>>].last_touched_us
           read == sock_stream[s].stats.last_touched_us
<1>1. /\ cycle_us \in Nat /\ touched \in Nat /\ read \in Nat /\ StartTime \in Nat \ {0}
      /\ NoTrack \in Nat
  BY Zenon, Times, SockOpsAssumption, EventProviderAssumption
  DEF InductiveInvariant, CoreInvariant, SockOpsAssumption, EventProviderAssumption
<1>2. read <= saturating_sub(cycle_us, NoTrack)
  <2>1. ~is_closed(sock_stream[s].stats)
    BY Zenon DEF InductiveInvariant, ClosedInv, ClosedStream
  <2> QED BY Zenon, <2>1 DEF GivenUp
<1>3. /\ StartTime <= touched
      /\ touched >= cycle_us \/ touched <= read
  <2>1. pc = "stats" /\ todo = {} /\ <<c, s>>[2] = s
    BY Zenon DEF Aggregate
  <2> QED BY Zenon, <2>1 DEF InductiveInvariant, TouchInv
<1> HIDE DEF touched, read
<1>4. touched + NoTrack <= cycle_us \/ touched >= cycle_us
  BY <1>1, <1>2, <1>3 DEF saturating_sub
<1> QED BY Zenon, <1>4 DEF touched

\* Only a round takes sockets out of the cache.
LEMMA OnlyRoundsRemove ==
  ASSUME CoreInvariant, [Next]_vars, ~Aggregate
  PROVE  DOMAIN sock_cache \subseteq DOMAIN sock_cache'
<1>1. CASE UNCHANGED sock_cache
  BY Zenon, <1>1
<1>2. ASSUME NEW key \in CpuSockKey, ReadProps(key)
      PROVE  DOMAIN sock_cache \subseteq DOMAIN sock_cache'
  <2>1. UNCHANGED sock_cache \/ ContextAdded(sock_cache', key[2], NFM_SK_PROPS[key])
    BY Zenon, <1>2, ReadPropsAdds
  <2> QED BY Zenon, <2>1 DEF ContextAdded
<1> QED BY Zenon, <1>1, <1>2
        DEF Next, AgentStep, KernelStep, StartCycle, PropsRead, FreeProps,
            PropsFreed, CopyStats, aggregate_sock_stats, perform_bpf_eviction,
            EndCycle, network_stats, vars, agent_vars

\* A socket with a context and statistics leaves the cache only when the kernel
\* closed it or no CPU had a callback of it for NoTrack before the cycle.
THEOREM LiveSocketsAreKept == Spec => LiveSocketKept
<1> DEFINE Over == \A s \in DOMAIN sock_cache \ DOMAIN sock_cache' :
                     (is_valid(sock_cache[s].context) /\ s \in DOMAIN sock_stream) =>
                       \/ tcp_state[s] = "CLOSE"
                       \/ \A c \in Cpus :
                            <<c, s>> \in DOMAIN NFM_SK_STATS =>
                              LET touched == NFM_SK_STATS[<<c, s>>].last_touched_us
                              IN  touched + NoTrack <= cycle_us \/ touched >= cycle_us
<1>1. InductiveInvariant /\ [Next]_vars => [Over]_vars
  <2> SUFFICES ASSUME InductiveInvariant, Next,
                      NEW s \in DOMAIN sock_cache \ DOMAIN sock_cache',
                      is_valid(sock_cache[s].context), s \in DOMAIN sock_stream,
                      tcp_state[s] # "CLOSE",
                      NEW c \in Cpus, <<c, s>> \in DOMAIN NFM_SK_STATS
               PROVE  \/ NFM_SK_STATS[<<c, s>>].last_touched_us + NoTrack <= cycle_us
                      \/ NFM_SK_STATS[<<c, s>>].last_touched_us >= cycle_us
    BY Zenon
  <2>1. CoreInvariant /\ CacheCredited
    BY Zenon DEF InductiveInvariant, ClosedInv
  <2>2. Aggregate
    BY Zenon, <2>1, OnlyRoundsRemove
  <2>3. GivenUp(s)
    BY Zenon, <2>1, <2>2, RoundDecides DEF HasContext
  <2> QED BY Zenon, <2>2, <2>3, GivenUpIsOver
<1>2. (Spec => [][Over]_vars) => (Spec => LiveSocketKept)
  BY Zenon DEF LiveSocketKept
<1> QED BY <1>1, <1>2, InvariantHolds, PTL DEF Spec

-----------------------------------------------------------------------------
(* The refinement of the ledger. *)

LEMMA LedgerInitially == Init => Ledger!LedgerInit
BY DEF Init, Ledger!LedgerInit, NoShare

LEMMA LedgerTransfers ==
  ASSUME InductiveInvariant, KernelStep
  PROVE  Ledger!Transfers
<1>1. BytesMove
  BY Zenon, KernelMoves DEF InductiveInvariant, CoreInvariant, TypeOK, BytesInv, EntriesLag
<1>2. kernel_bytes' \in [Socks -> Nat]
  <2>1. KernelTypeOK'
    BY Zenon, KernelStepType DEF InductiveInvariant, CoreInvariant, TypeOK
  <2> QED BY <2>1, SockOpsAssumption DEF SockOpsAssumption, KernelTypeOK
<1>3. credited' = credited
  BY Zenon DEF KernelStep, agent_vars
<1> QED BY Zenon, <1>1, <1>2, <1>3 DEF BytesMove, Ledger!Transfers

LEMMA LedgerCredits ==
  ASSUME InductiveInvariant, Aggregate
  PROVE  Ledger!Credits
<1>1. CoreInvariant /\ CoreInvariant'
  BY Zenon, AggregateInv DEF InductiveInvariant
<1>2. /\ \A s \in Socks : credited'[s] = credited[s] \/ CreditedNow(s)
      /\ pc = "stats" /\ todo = {} /\ copying = {} /\ kernel_bytes' = kernel_bytes
  BY Zenon, <1>1, AggregateFacts DEF Aggregate, kernel_vars
<1>3. \A s \in Socks : /\ credited'[s].bytes_received \in Nat
                       /\ credited'[s].sockets_completed \in Nat
                       /\ credited'[s].bytes_received <= kernel_bytes[s]
  BY Zenon, <1>1, <1>2 DEF InductiveInvariant, CoreInvariant, TypeOK, Share, CreditInv
<1>4. \A s \in Socks :
        /\ credited[s].bytes_received <= credited'[s].bytes_received
        /\ credited[s].sockets_completed > 0 =>
             /\ credited'[s].bytes_received = credited[s].bytes_received
             /\ credited'[s].sockets_completed > 0
  <2> TAKE s \in Socks
  <2>1. credited[s].bytes_received \in Nat /\ credited[s].sockets_completed \in Nat
    BY Zenon, Numbers DEF InductiveInvariant, CoreInvariant
  <2>2. CASE credited'[s] = credited[s]
    BY <2>1, <2>2
  <2>3. CASE CreditedNow(s)
    <3>1. s \in DOMAIN sock_cache \cap DOMAIN sock_stream
          /\ credited[s].sockets_completed = 0
      BY Zenon, <2>3 DEF CreditedNow, HasContext, InductiveInvariant, CoreInvariant, CreditInv
    <3>2. /\ sock_cache[s].stats.bytes_received
               <= sock_stream[s].stats.bytes_received
          /\ sock_cache[s].stats.bytes_received \in Nat
          /\ sock_stream[s].stats.bytes_received \in Nat
      BY Zenon, <1>2, <3>1, NoWrap, Numbers DEF InductiveInvariant, CoreInvariant
    <3> QED BY <2>1, <2>3, <3>1, <3>2 DEF CreditedNow
  <2> QED BY Zenon, <1>2, <2>2, <2>3
<1> QED BY Zenon, <1>2, <1>3, <1>4 DEF Ledger!Credits

LEMMA LedgerStep ==
  ASSUME InductiveInvariant, [Next]_vars
  PROVE  [Ledger!LedgerNext]_(Ledger!ledger_vars)
<1>1. CASE KernelStep
  BY Zenon, <1>1, LedgerTransfers DEF Ledger!LedgerNext
<1>2. CASE Aggregate
  BY Zenon, <1>2, LedgerCredits DEF Ledger!LedgerNext
<1>3. CASE UNCHANGED <<kernel_bytes, credited>>
  BY Zenon, <1>3 DEF Ledger!ledger_vars
<1> QED BY Zenon, <1>1, <1>2, <1>3
        DEF Next, AgentStep, StartCycle, ReadProps, PropsRead, FreeProps,
            PropsFreed, CopyStats, aggregate_sock_stats, perform_bpf_eviction,
            EndCycle, network_stats, vars, kernel_vars, agent_vars

\* The event provider implements FlowLedger: what reaches the flows is a
\* sequence of credits that never exceed the transfers, and a socket that
\* sockets_completed has counted is settled.
THEOREM RefinesLedger == Spec => ImplementsLedger
<1>1. Init => Ledger!LedgerInit
  BY Zenon, LedgerInitially
<1>2. InductiveInvariant /\ [Next]_vars => [Ledger!LedgerNext]_(Ledger!ledger_vars)
  BY Zenon, LedgerStep
<1> QED BY <1>1, <1>2, InvariantHolds, PTL
        DEF Spec, ImplementsLedger, Ledger!LedgerSpec

=============================================================================
