------------------------ MODULE EventProviderSockets ------------------------
(***************************************************************************)
(* Proofs that caching the contexts read, folding the statistics copied    *)
(* into the cache and moving the deltas to the flows preserve the core of  *)
(* the inductive invariant of EventProvider, and about the life of a       *)
(* socket: every step preserves the invariants about closed sockets, whose *)
(* bytes are final, and about recently seen ones, which a round does not   *)
(* give up.                                                                *)
(***************************************************************************)
EXTENDS EventProviderSteps

USE DEF is_valid

-----------------------------------------------------------------------------
(* The aggregation: contexts and statistics enter the cache. *)

LEMMA UpdateContextFacts ==
  ASSUME NEW w \in Wrappers, NEW context, NEW now \in Nat
  PROVE  LET updated == update_context(w, context, now)
         IN  /\ updated.context = context
             /\ updated.context_external = NoContext
             /\ updated.cpus = w.cpus
             /\ updated.stats.bytes_received = w.stats.bytes_received
             /\ updated.stats.bpf_events = w.stats.bpf_events
             /\ ~updated.is_complete
<1> DEFINE updated == update_context(w, context, now)
           stats == [w.stats EXCEPT !.last_touched_us = now]
<1>1. w.stats \in SockStats
  BY Zenon DEF Wrappers, SockWrapper
<1>2. /\ stats.bytes_received = w.stats.bytes_received
      /\ stats.bpf_events = w.stats.bpf_events
  BY Zenon, <1>1 DEF SockStats
<1> HIDE DEF stats
<1>3. updated.context = context /\ updated.context_external = NoContext
      /\ updated.cpus = w.cpus /\ updated.stats = stats
      /\ updated.is_complete = FALSE
  BY Zenon DEF update_context, Wrappers, SockWrapper, stats
<1> HIDE DEF updated
<1> QED BY Zenon, <1>2, <1>3 DEF updated

\* cache is the agent's cache with this context for the socket.
ContextAdded(cache, sock, context) ==
  /\ DOMAIN cache = DOMAIN sock_cache \cup {sock}
  /\ \A s \in DOMAIN sock_cache \ {sock} : cache[s] = sock_cache[s]
  /\ cache[sock].context = context
  /\ cache[sock].context_external = NoContext
  /\ ~cache[sock].is_complete
  /\ sock \in DOMAIN sock_cache =>
       /\ cache[sock].cpus = sock_cache[sock].cpus
       /\ cache[sock].stats.bytes_received = sock_cache[sock].stats.bytes_received
       /\ cache[sock].stats.bpf_events = sock_cache[sock].stats.bpf_events
  /\ sock \notin DOMAIN sock_cache =>
       /\ cache[sock].cpus = {}
       /\ cache[sock].stats.bytes_received = 0
       /\ cache[sock].stats.bpf_events = 0

LEMMA AddContextFacts ==
  ASSUME TypeOK, NEW sock \in Socks, NEW context \in Flows, NEW now \in Nat,
         ~add_context_fails(sock_cache, sock)
  PROVE  ContextAdded(add_context(sock_cache, sock, context, now), sock, context)
<1> DEFINE cache == add_context(sock_cache, sock, context, now)
           fresh == new_wrapper(context,
                      [DefaultStats EXCEPT !.last_touched_us = now], {})
           updated == update_context(sock_cache[sock], context, now)
<1>1. cache = [s \in DOMAIN sock_cache \cup {sock} |->
                 IF s # sock THEN sock_cache[s]
                 ELSE IF sock \in DOMAIN sock_cache THEN updated ELSE fresh]
  BY Zenon DEF add_context
<1>2. /\ fresh.context = context /\ fresh.context_external = NoContext
      /\ fresh.cpus = {} /\ fresh.stats.bytes_received = 0
      /\ fresh.stats.bpf_events = 0 /\ ~fresh.is_complete
  BY Zenon DEF new_wrapper, DefaultStats
<1>3. ASSUME sock \in DOMAIN sock_cache
      PROVE  /\ updated.context = context /\ updated.context_external = NoContext
             /\ updated.cpus = sock_cache[sock].cpus
             /\ updated.stats.bytes_received = sock_cache[sock].stats.bytes_received
             /\ updated.stats.bpf_events = sock_cache[sock].stats.bpf_events
             /\ ~updated.is_complete
  <2>1. sock_cache[sock] \in Wrappers
    BY Zenon, <1>3 DEF TypeOK, IsMap, Wrappers
  <2> QED BY <2>1, UpdateContextFacts
<1> HIDE DEF cache, fresh, updated
<1>4. DOMAIN cache = DOMAIN sock_cache \cup {sock}
      /\ \A s \in DOMAIN sock_cache \ {sock} : cache[s] = sock_cache[s]
  BY Zenon, <1>1
<1>5. /\ sock \in DOMAIN sock_cache => cache[sock] = updated
      /\ sock \notin DOMAIN sock_cache => cache[sock] = fresh
  BY Zenon, <1>1
<1>6. ContextAdded(cache, sock, context)
  BY Zenon, <1>2, <1>3, <1>4, <1>5 DEF ContextAdded
<1> QED BY Zenon, <1>6 DEF cache

LEMMA ReadPropsInv ==
  ASSUME CoreInvariant, NEW key \in CpuSockKey, ReadProps(key)
  PROVE  CoreInvariant'
<1> USE DEF CoreInvariant
<1>1. TypeOK'
  BY Zenon, TypeStep DEF Next, AgentStep
<1> DEFINE sock == key[2]
           context == NFM_SK_PROPS[key]
           now == saturating_sub(cycle_us, NoTrack \div 2)
<1>2. /\ UNCHANGED <<kernel_bytes, tcp_state, NFM_SK_PROPS, NFM_SK_STATS, credited,
                     copying, sock_stream, to_evict>>
      /\ pc = "props" /\ pc' \in {"props", "free"}
      /\ key \in DOMAIN NFM_SK_PROPS \ new_cpu_sock_keys
      /\ sock_cache' = add_context(sock_cache, sock, context, now)
  BY Zenon DEF ReadProps, kernel_vars
<1>3. now \in Nat
  <2>1. NoTrack \div 2 \in Nat
    BY EventProviderAssumption DEF EventProviderAssumption
  <2> QED BY Zenon, <2>1, SaturatingSubType DEF TypeOK
<1>4. sock \in Socks /\ context \in Flows
  BY Zenon, <1>2 DEF TypeOK, KernelTypeOK, IsMap, CpuSockKey
<1> HIDE DEF now, sock, context
<1>5. PhaseInv'
  BY Zenon, <1>2 DEF PhaseInv
<1>6. IterationInv'
  BY Zenon, <1>2 DEF IterationInv
<1>7. CASE add_context_fails(sock_cache, sock)
  <2>1. UNCHANGED <<sock_cache, new_cpu_sock_keys>>
    BY Zenon, <1>2, <1>7 DEF ReadProps, add_context, sock
  <2>2. EntryInv'
    BY Zenon, <1>2, <2>1 DEF EntryInv
  <2>3. BytesInv'
    BY Zenon, <1>2, <2>1 DEF BytesInv, Covered
  <2> QED BY Zenon, <1>1, <1>2, <1>5, <1>6, <2>1, <2>2, <2>3, SettledInv DEF Settled
<1>8. CASE ~add_context_fails(sock_cache, sock)
  <2>1. /\ DOMAIN sock_cache' = DOMAIN sock_cache \cup {sock}
        /\ \A s \in DOMAIN sock_cache \ {sock} : sock_cache'[s] = sock_cache[s]
        /\ sock_cache'[sock].context = context
        /\ sock_cache'[sock].context_external = NoContext
        /\ sock \in DOMAIN sock_cache =>
             /\ sock_cache'[sock].cpus = sock_cache[sock].cpus
             /\ sock_cache'[sock].stats.bytes_received
                  = sock_cache[sock].stats.bytes_received
        /\ sock \notin DOMAIN sock_cache =>
             /\ sock_cache'[sock].cpus = {}
             /\ sock_cache'[sock].stats.bytes_received = 0
    <3>1. ContextAdded(add_context(sock_cache, sock, context, now), sock, context)
      BY Zenon, <1>3, <1>4, <1>8, AddContextFacts
    <3>2. ContextAdded(sock_cache', sock, context)
      BY Zenon, <1>2, <3>1
    <3> QED BY Zenon, <3>2 DEF ContextAdded
  <2>2. new_cpu_sock_keys' = new_cpu_sock_keys \cup {key}
    BY Zenon, <1>8 DEF ReadProps, sock
  <2>3. EntryInv'
    <3>1. to_evict = {}
      BY Zenon, <1>2 DEF PhaseInv
    <3> QED BY Zenon, <1>2, <2>1, <3>1 DEF EntryInv
  <2>4. BytesInv'
    <3>1. \A s \in DOMAIN sock_cache' :
            Covered(sock_cache'[s].stats.bytes_received, sock_cache'[s].cpus, s)
      BY ZenonT(60), <2>1 DEF BytesInv, Covered
    <3> QED BY Zenon, <1>2, <3>1 DEF BytesInv, Covered
  <2>5. \A s \in Socks \ {sock} : HasContext(s)' = HasContext(s)
                                  /\ Uncredited(s)' = Uncredited(s)
    BY Zenon, <1>2, <2>1 DEF HasContext, Uncredited
  <2>6. Uncredited(sock) /\ tcp_state[sock] # "NEW"
    BY Zenon, <1>2 DEF ContextInv, sock
  <2>7. \A k \in DOMAIN NFM_SK_PROPS : k # key => k[2] # sock /\ k[2] \in Socks
    BY Zenon, <1>2, Places DEF ContextInv, sock
  <2>8. ContextInv'
    <3>1. \A s \in Socks : tcp_state'[s] = "NEW" => Uncredited(s)'
      BY Zenon, <1>2, <2>5, <2>6 DEF ContextInv
    <3>2. \A k \in DOMAIN NFM_SK_PROPS' \ new_cpu_sock_keys' : Uncredited(k[2])'
      BY Zenon, <1>2, <2>2, <2>5, <2>7 DEF ContextInv
    <3>3. \A k \in new_cpu_sock_keys' :
            /\ k \in DOMAIN NFM_SK_PROPS'
            /\ k[2] \in DOMAIN sock_cache'
            /\ sock_cache'[k[2]].context = NFM_SK_PROPS'[k]
      <4>1. key[2] \in DOMAIN sock_cache' /\ sock_cache'[key[2]].context = NFM_SK_PROPS[key]
        BY Zenon, <2>1 DEF sock, context
      <4>2. ASSUME NEW k \in new_cpu_sock_keys
            PROVE  /\ k \in DOMAIN NFM_SK_PROPS /\ k # key
                   /\ k[2] \in DOMAIN sock_cache
                   /\ sock_cache[k[2]].context = NFM_SK_PROPS[k]
        BY Zenon, <1>2 DEF ContextInv
      <4>3. ASSUME NEW k \in new_cpu_sock_keys
            PROVE  /\ k[2] \in DOMAIN sock_cache'
                   /\ sock_cache'[k[2]].context = NFM_SK_PROPS[k]
        <5>1. k[2] \in DOMAIN sock_cache \ {sock}
          BY Zenon, <2>7, <4>2
        <5> QED BY Zenon, <2>1, <4>2, <5>1
      <4> QED BY Zenon, <1>2, <2>2, <4>1, <4>2, <4>3
    <3>4. \A s \in DOMAIN sock_cache' :
            is_valid(sock_cache'[s].context_external) => is_valid(sock_cache'[s].context)
      BY Zenon, <2>1 DEF ContextInv
    <3> QED BY Zenon, <1>2, <3>1, <3>2, <3>3, <3>4 DEF ContextInv
  <2>9. CreditInv'
    <3>1. \A s \in Socks \ {sock} :
            HasContext(s)' => /\ credited[s].bytes_received
                                   <= sock_cache'[s].stats.bytes_received
                              /\ credited[s].sockets_completed = 0
      BY Zenon, <2>1, <2>5 DEF CreditInv, HasContext
    <3>2. sock_cache'[sock].stats.bytes_received \in Nat
      <4>1. CASE sock \in DOMAIN sock_cache
        BY Zenon, <2>1, <4>1, Numbers
      <4>2. CASE sock \notin DOMAIN sock_cache
        BY <2>1, <4>2
      <4> QED BY Zenon, <4>1, <4>2
    <3>3. /\ credited[sock].bytes_received <= sock_cache'[sock].stats.bytes_received
          /\ credited[sock].sockets_completed = 0
      BY <2>6, <3>2 DEF Uncredited
    <3> QED BY Zenon, <1>2, <3>1, <3>3 DEF CreditInv
  <2> QED BY Zenon, <1>1, <1>5, <1>6, <2>3, <2>4, <2>8, <2>9
<1> QED BY Zenon, <1>7, <1>8

LEMMA AddFromBytes ==
  ASSUME NEW a \in SockStats, NEW b \in SockStats
  PROVE  /\ add_from(a, b).bytes_received \in {a.bytes_received, b.bytes_received}
         /\ a.bytes_received <= add_from(a, b).bytes_received
         /\ b.bytes_received <= add_from(a, b).bytes_received
<1>1. a.bytes_received \in Nat /\ b.bytes_received \in Nat
  BY Zenon, BytesAreNat
<1>2. add_from(a, b).bytes_received = max(a.bytes_received, b.bytes_received)
  BY Zenon DEF add_from
<1> QED BY <1>1, <1>2 DEF max

\* What aggregate_sock_stats makes of the entry it was copying.
EntryDone(copy) ==
  /\ copy.key \in CpuSockKey
  /\ todo' = todo \ {copy.key}
  /\ DOMAIN sock_stream' = DOMAIN sock_stream \cup {copy.key[2]}
  /\ \A s \in DOMAIN sock_stream \ {copy.key[2]} : sock_stream'[s] = sock_stream[s]
  /\ copy.bytes_received <= sock_stream'[copy.key[2]].stats.bytes_received
  /\ copy.key[2] \in DOMAIN sock_stream =>
       /\ sock_stream[copy.key[2]].stats.bytes_received
            <= sock_stream'[copy.key[2]].stats.bytes_received
       /\ sock_stream'[copy.key[2]].stats.bytes_received
            \in {sock_stream[copy.key[2]].stats.bytes_received, copy.bytes_received}
       /\ sock_stream'[copy.key[2]].cpus
            = sock_stream[copy.key[2]].cpus \cup {copy.key[1]}
  /\ copy.key[2] \notin DOMAIN sock_stream =>
       /\ sock_stream'[copy.key[2]].stats.bytes_received \in {0, copy.bytes_received}
       /\ sock_stream'[copy.key[2]].cpus = {copy.key[1]}

LEMMA AggregateSockStatsFacts ==
  ASSUME CoreInvariant, aggregate_sock_stats
  PROVE  \E copy \in copying : EntryDone(copy)
<1> USE DEF CoreInvariant
<1>1. PICK copy \in copying :
        LET sock  == copy.key[2]
            stats == CopiedStats(copy)
            agg   == IF sock \in DOMAIN sock_stream THEN sock_stream[sock]
                     ELSE [stats |-> DefaultStats, cpus |-> {}]
        IN  /\ sock_stream' = Put(sock_stream, sock,
                                  [stats |-> add_from(agg.stats, stats),
                                   cpus |-> agg.cpus \cup {copy.key[1]}])
            /\ todo' = todo \ {copy.key}
  BY Zenon DEF aggregate_sock_stats
<1> DEFINE sock == copy.key[2]
           stats == CopiedStats(copy)
           agg == IF sock \in DOMAIN sock_stream THEN sock_stream[sock]
                  ELSE [stats |-> DefaultStats, cpus |-> {}]
           new == [stats |-> add_from(agg.stats, stats),
                   cpus |-> agg.cpus \cup {copy.key[1]}]
<1>2. copy.key \in CpuSockKey /\ sock \in Socks /\ copy.key[1] \in Cpus
  BY Zenon DEF TypeOK, StatsCopy, CpuSockKey
<1>3. stats \in SockStats
  BY Zenon, CopiedStatsType DEF EntryInv
<1>4. stats.bytes_received = copy.bytes_received
  <2>1. NFM_SK_STATS[copy.key] \in SockStats
    BY Zenon, EntryIsStats DEF EntryInv, TypeOK
  <2> QED BY Zenon, <2>1 DEF CopiedStats, SockStats
<1>5. agg.stats \in SockStats /\ agg.cpus \in SUBSET Cpus
  BY Zenon, DefaultStatsType DEF TypeOK, IsMap, AggSockStats
<1>6. /\ sock \in DOMAIN sock_stream => agg = sock_stream[sock]
      /\ sock \notin DOMAIN sock_stream =>
           agg.stats.bytes_received = 0 /\ agg.cpus = {}
  BY Zenon DEF DefaultStats
<1>7. sock_stream' = Put(sock_stream, sock, new) /\ todo' = todo \ {copy.key}
  BY Zenon, <1>1
<1> HIDE DEF stats, agg
<1>8. /\ new.stats.bytes_received \in {agg.stats.bytes_received, copy.bytes_received}
      /\ agg.stats.bytes_received <= new.stats.bytes_received
      /\ copy.bytes_received <= new.stats.bytes_received
      /\ new.cpus = agg.cpus \cup {copy.key[1]}
  BY Zenon, <1>3, <1>4, <1>5, AddFromBytes
<1> HIDE DEF new, sock
<1>9. /\ DOMAIN sock_stream' = DOMAIN sock_stream \cup {sock}
      /\ sock_stream'[sock] = new
      /\ \A s \in DOMAIN sock_stream \ {sock} : sock_stream'[s] = sock_stream[s]
  BY Zenon, <1>7 DEF Put
<1> QED BY Zenon, <1>2, <1>6, <1>7, <1>8, <1>9 DEF sock, EntryDone

LEMMA AggregateSockStatsInv ==
  ASSUME CoreInvariant, aggregate_sock_stats
  PROVE  CoreInvariant'
<1> USE DEF CoreInvariant
<1>1. TypeOK'
  BY Zenon, TypeStep DEF Next, AgentStep
<1>2. /\ Settled
      /\ UNCHANGED <<pc, to_evict, new_cpu_sock_keys>>
      /\ pc = "stats" /\ copying' = {}
  BY Zenon DEF Settled, aggregate_sock_stats, kernel_vars
<1>3. PICK copy \in copying : EntryDone(copy)
  BY Zenon, AggregateSockStatsFacts
<1> DEFINE sock == copy.key[2]
           cpu == copy.key[1]
<1>4. /\ copy.key = <<cpu, sock>> /\ copy.key \in DOMAIN NFM_SK_STATS
      /\ cpu \in Cpus /\ sock \in Socks
      /\ copy.bytes_received <= NFM_SK_STATS[<<cpu, sock>>].bytes_received
  BY Zenon, <1>3, Places DEF EntryInv, BytesInv, EntryDone
<1>5. /\ todo' = todo \ {<<cpu, sock>>}
      /\ DOMAIN sock_stream' = DOMAIN sock_stream \cup {sock}
      /\ \A s \in DOMAIN sock_stream \ {sock} : sock_stream'[s] = sock_stream[s]
      /\ copy.bytes_received <= sock_stream'[sock].stats.bytes_received
      /\ sock \in DOMAIN sock_stream =>
           /\ sock_stream[sock].stats.bytes_received
                <= sock_stream'[sock].stats.bytes_received
           /\ sock_stream'[sock].stats.bytes_received
                \in {sock_stream[sock].stats.bytes_received, copy.bytes_received}
           /\ sock_stream'[sock].cpus = sock_stream[sock].cpus \cup {cpu}
      /\ sock \notin DOMAIN sock_stream =>
           /\ sock_stream'[sock].stats.bytes_received \in {0, copy.bytes_received}
           /\ sock_stream'[sock].cpus = {cpu}
  BY Zenon, <1>3, <1>4 DEF EntryDone
<1> HIDE DEF sock, cpu
<1>6. PhaseInv'
  BY Zenon, <1>2, <1>5 DEF PhaseInv, Settled
<1>7. EntryInv'
  <2>1. \A s \in DOMAIN sock_stream' :
          \A c \in sock_stream'[s].cpus : <<c, s>> \in DOMAIN NFM_SK_STATS
    <3>1. \A s \in DOMAIN sock_stream \ {sock} :
            \A c \in sock_stream'[s].cpus : <<c, s>> \in DOMAIN NFM_SK_STATS
      BY Zenon, <1>5 DEF EntryInv
    <3>2. \A c \in sock_stream'[sock].cpus : <<c, sock>> \in DOMAIN NFM_SK_STATS
      BY Zenon, <1>4, <1>5 DEF EntryInv
    <3> QED BY Zenon, <1>5, <3>1, <3>2
  <2> QED BY Zenon, <1>2, <2>1 DEF EntryInv, Settled
<1>8. BytesInv'
  <2>1. \A s \in DOMAIN sock_stream \ {sock} :
          Covered(sock_stream'[s].stats.bytes_received, sock_stream'[s].cpus, s)
    BY Zenon, <1>5 DEF BytesInv
  <2>2. Covered(sock_stream'[sock].stats.bytes_received, sock_stream'[sock].cpus, sock)
    <3>1. CASE sock_stream'[sock].stats.bytes_received = copy.bytes_received
      <4>1. cpu \in sock_stream'[sock].cpus
        BY Zenon, <1>5
      <4> QED BY Zenon, <1>4, <3>1, <4>1 DEF Covered
    <3>2. CASE /\ sock \in DOMAIN sock_stream
               /\ sock_stream'[sock].stats.bytes_received
                    = sock_stream[sock].stats.bytes_received
      BY Zenon, <1>5, <3>2 DEF BytesInv, Covered
    <3>3. CASE sock_stream'[sock].stats.bytes_received = 0
      BY Zenon, <3>3 DEF Covered
    <3> QED BY Zenon, <1>5, <3>1, <3>2, <3>3
  <2>3. \A s \in DOMAIN sock_stream' :
          Covered(sock_stream'[s].stats.bytes_received, sock_stream'[s].cpus, s)
    BY Zenon, <1>5, <2>1, <2>2
  <2> QED BY Zenon, <1>2, <2>3 DEF BytesInv, Covered, Settled
<1>9. IterationInv'
  <2> SUFFICES ASSUME NEW s \in DOMAIN sock_cache
               PROVE  \/ sock_cache[s].stats.bytes_received = 0
                      \/ Ahead(s)'
                      \/ /\ s \in DOMAIN sock_stream'
                         /\ sock_cache[s].stats.bytes_received
                              <= sock_stream'[s].stats.bytes_received
    BY Zenon, <1>2 DEF IterationInv, Settled
  <2> DEFINE cached == sock_cache[s].stats.bytes_received
  <2>1. cached \in Nat /\ copy.bytes_received \in Nat
    BY Zenon, Numbers
  <2>2. \A x \in DOMAIN sock_stream : sock_stream[x].stats.bytes_received \in Nat
    BY Zenon, Numbers
  <2>3. sock_stream'[sock].stats.bytes_received \in Nat
    BY <1>5, <2>1, <2>2
  <2>4. CASE cached = 0
    BY Zenon, <2>4
  <2>5. CASE Ahead(s)
    <3>1. PICK c \in Cpus :
            /\ <<c, s>> \in todo
            /\ cached <= NFM_SK_STATS[<<c, s>>].bytes_received
            /\ \A x \in copying : x.key = <<c, s>> => cached <= x.bytes_received
      BY Zenon, <2>5 DEF Ahead
    <3>2. CASE <<c, s>> = <<cpu, sock>>
      <4>1. cached <= copy.bytes_received /\ s = sock
        BY Zenon, <1>4, <3>1, <3>2
      <4> QED BY <1>5, <2>1, <2>3, <4>1
    <3>3. CASE <<c, s>> # <<cpu, sock>>
      <4>1. <<c, s>> \in todo'
        BY Zenon, <1>5, <3>1, <3>3
      <4> QED BY Zenon, <1>2, <3>1, <4>1 DEF Ahead, Settled
    <3> QED BY Zenon, <3>2, <3>3
  <2>6. CASE /\ s \in DOMAIN sock_stream
             /\ cached <= sock_stream[s].stats.bytes_received
    <3>1. CASE s = sock
      BY <1>5, <2>1, <2>2, <2>3, <2>6, <3>1
    <3>2. CASE s # sock
      BY Zenon, <1>5, <2>6, <3>2
    <3> QED BY Zenon, <3>1, <3>2
  <2> QED BY Zenon, <1>2, <2>4, <2>5, <2>6 DEF IterationInv
<1> QED BY Zenon, <1>1, <1>2, <1>6, <1>7, <1>8, <1>9, SettledInv

-----------------------------------------------------------------------------
(* The aggregation: the deltas move to the flows. *)

\* When the iteration is over nothing is ahead: the cached bytes are in the stream.
LEMMA NoWrap ==
  ASSUME CoreInvariant, pc = "stats", todo = {}, copying = {},
         NEW s \in DOMAIN sock_cache \cap DOMAIN sock_stream
  PROVE  sock_cache[s].stats.bytes_received <= sock_stream[s].stats.bytes_received
<1>1. ~Ahead(s)
  BY Zenon DEF Ahead
<1>2. sock_stream[s].stats.bytes_received \in Nat
  BY Zenon, Numbers DEF CoreInvariant
<1> QED BY <1>1, <1>2 DEF CoreInvariant, IterationInv

LEMMA DeltaBytes ==
  ASSUME CoreInvariant, pc = "stats", todo = {}, copying = {},
         NEW s \in DOMAIN sock_cache \cap DOMAIN sock_stream
  PROVE  Deltas[s].bytes_received =
           sock_stream[s].stats.bytes_received - sock_cache[s].stats.bytes_received
<1> DEFINE new == sock_stream[s].stats
           old == sock_cache[s].stats
<1>1. old.bytes_received <= new.bytes_received
  BY Zenon, NoWrap
<1>2. old.bytes_received \in Nat /\ new.bytes_received \in Nat
  BY Zenon, Numbers DEF CoreInvariant
<1>3. new \in SockStats
  BY Zenon DEF CoreInvariant, TypeOK, IsMap, AggSockStats
<1>4. Deltas[s] = subtract(new, old)
  BY Zenon DEF Deltas, get_deltas
<1> HIDE DEF new, old
<1>5. subtract(new, old).bytes_received =
        wrapping_sub(new.bytes_received, old.bytes_received)
  BY Zenon, <1>3 DEF subtract, SockStats
<1> QED BY Zenon, <1>1, <1>2, <1>4, <1>5 DEF wrapping_sub, new, old

\* Only a socket the agent has a context for adds to a flow.
LEMMA InFlowHasContext ==
  ASSUME CoreInvariant, NEW nat \in NatTables,
         NEW admitted \in Admissible(NewFlows(RoundCache(nat), Deltas)),
         NEW s \in InFlow(RoundCache(nat), Deltas, DOMAIN flow_cache \cup admitted)
  PROVE  HasContext(s) /\ s \in DOMAIN sock_stream
<1> USE DEF CoreInvariant
<1>1. s \in DOMAIN sock_stream
  BY Zenon, DeltasFacts DEF InFlow
<1>2. /\ IsMap(RoundCache(nat), Socks, Wrappers)
      /\ DOMAIN Deltas \subseteq DOMAIN RoundCache(nat)
  BY Zenon, RoundCacheFacts, UpdatedFacts, DeltasFacts
<1>3. context_beyond_nat(RoundCache(nat)[s]) # NoContext
  <2>1. DOMAIN flow_cache \cup admitted \subseteq Flows
    BY Zenon, <1>2, FlowsType
  <2>2. context_beyond_nat(RoundCache(nat)[s]) \in DOMAIN flow_cache \cup admitted
    BY Zenon DEF InFlow
  <2> QED BY Zenon, <2>1, <2>2, NetworkAssumption DEF NetworkAssumption
<1>4. s \in DOMAIN Updated
  BY Zenon, <1>1, UpdatedFacts
<1>5. is_valid(Updated[s].context_external) \/ is_valid(Updated[s].context)
  <2>1. /\ RoundCache(nat)[s].context = Updated[s].context
        /\ is_valid(RoundCache(nat)[s].context_external) =>
             is_valid(Updated[s].context_external) \/ is_valid(Updated[s].context)
    BY Zenon, <1>4, RoundCacheFacts
  <2> QED BY Zenon, <1>3, <2>1 DEF context_beyond_nat
<1>6. s \in DOMAIN sock_cache
  BY Zenon, <1>1, <1>5, UpdatedFacts
<1>7. /\ Updated[s].context = sock_cache[s].context
      /\ Updated[s].context_external = sock_cache[s].context_external
  BY Zenon, <1>6, UpdatedFacts
<1>8. is_valid(sock_cache[s].context)
  BY Zenon, <1>5, <1>6, <1>7 DEF ContextInv
<1> QED BY Zenon, <1>1, <1>6, <1>8 DEF HasContext

\* What a round does to the cache, the work list and the credits.
Kept(s) ==
  /\ s \in DOMAIN sock_cache \cup DOMAIN sock_stream
  /\ s \in DOMAIN sock_stream =>
       /\ sock_cache'[s].stats = sock_stream[s].stats
       /\ sock_cache'[s].cpus = sock_stream[s].cpus
  /\ s \notin DOMAIN sock_stream =>
       /\ sock_cache'[s].stats = sock_cache[s].stats
       /\ sock_cache'[s].cpus = sock_cache[s].cpus
  /\ s \in DOMAIN sock_cache => sock_cache'[s].context = sock_cache[s].context
  /\ s \notin DOMAIN sock_cache => sock_cache'[s].context = NoContext
  /\ is_valid(sock_cache'[s].context_external) => is_valid(sock_cache'[s].context)

CreditedNow(s) ==
  /\ HasContext(s)
  /\ s \in DOMAIN sock_stream
  /\ credited'[s].bytes_received =
       credited[s].bytes_received + (sock_stream[s].stats.bytes_received
                                     - sock_cache[s].stats.bytes_received)
  /\ credited'[s].bpf_events = credited[s].bpf_events + Deltas[s].bpf_events
  /\ \/ credited'[s].sockets_completed = credited[s].sockets_completed
     \/ /\ credited'[s].sockets_completed = credited[s].sockets_completed + 1
        /\ s \notin DOMAIN sock_cache'

LEMMA RoundCredits ==
  ASSUME CoreInvariant, Aggregate, NEW nat \in NatTables,
         NEW admitted \in Admissible(NewFlows(RoundCache(nat), Deltas)),
         Round(nat, admitted), NEW s \in Socks
  PROVE  IF s \in InFlow(RoundCache(nat), Deltas, DOMAIN flow_cache \cup admitted)
         THEN CreditedNow(s) ELSE credited'[s] = credited[s]
<1> DEFINE cache == RoundCache(nat)
           in_flow == InFlow(cache, Deltas, DOMAIN flow_cache \cup admitted)
           added == add_to_flow(credited[s], Deltas[s], should_evict(cache[s]))
<1>1. credited'[s] = IF s \in in_flow THEN clear_levels(added) ELSE credited[s]
  BY Zenon DEF Round, CreditFlows
<1>2. CASE s \notin in_flow
  BY Zenon, <1>1, <1>2
<1>3. CASE s \in in_flow
  <2>1. HasContext(s) /\ s \in DOMAIN sock_stream /\ s \in DOMAIN sock_cache
    BY Zenon, <1>3, InFlowHasContext DEF HasContext
  <2>2. Deltas[s].bytes_received = sock_stream[s].stats.bytes_received
                                   - sock_cache[s].stats.bytes_received
    <3>1. pc = "stats" /\ todo = {} /\ copying = {}
      BY Zenon DEF Aggregate
    <3> QED BY Zenon, <2>1, <3>1, DeltaBytes
  <2>3. /\ clear_levels(added).bytes_received =
             credited[s].bytes_received + Deltas[s].bytes_received
        /\ clear_levels(added).bpf_events =
             credited[s].bpf_events + Deltas[s].bpf_events
        /\ clear_levels(added).sockets_completed =
             credited[s].sockets_completed + (IF should_evict(cache[s]) THEN 1 ELSE 0)
    BY Zenon DEF clear_levels, add_to_flow
  <2>4. credited[s].sockets_completed \in Nat
    BY Zenon, Numbers DEF CoreInvariant
  <2>5. should_evict(cache[s]) => s \notin DOMAIN sock_cache'
    <3>1. DOMAIN sock_cache' = DOMAIN cache \ {x \in DOMAIN cache : should_evict(cache[x])}
      BY Zenon DEF Round, EvictFromCache, RemoveKeys, EvictedSocks
    <3> HIDE DEF cache
    <3> QED BY Zenon, <3>1
  <2>6. CreditedNow(s)
    <3> HIDE DEF added, in_flow, cache
    <3> QED BY <1>1, <1>3, <2>1, <2>2, <2>3, <2>4, <2>5 DEF CreditedNow
  <2> QED BY Zenon, <1>3, <2>6
<1> QED BY Zenon, <1>2, <1>3

LEMMA AggregateFacts ==
  ASSUME CoreInvariant, Aggregate
  PROVE  /\ \A s \in DOMAIN sock_cache' : Kept(s)
         /\ \A key \in to_evict' :
              /\ key \in DOMAIN NFM_SK_STATS
              /\ key[2] \notin DOMAIN sock_cache'
         /\ \A s \in Socks : credited'[s] = credited[s] \/ CreditedNow(s)
<1> USE DEF CoreInvariant
<1>1. PICK nat \in NatTables :
        \E admitted \in Admissible(NewFlows(RoundCache(nat), Deltas)) :
          Round(nat, admitted)
  BY Zenon, AggregateIsRound
<1>2. PICK admitted \in Admissible(NewFlows(RoundCache(nat), Deltas)) :
        Round(nat, admitted)
  BY Zenon, <1>1
<1>3. pc = "stats" /\ todo = {} /\ copying = {}
  BY Zenon DEF Aggregate
<1> DEFINE cache == RoundCache(nat)
           evicted == EvictedSocks(cache)
<1>4. /\ sock_cache' = RemoveKeys(cache, evicted)
      /\ to_evict' = {key \in CpuSockKey :
                        key[2] \in evicted /\ key[1] \in cache[key[2]].cpus}
  BY Zenon, <1>2 DEF Round, EvictFromCache
<1>5. /\ DOMAIN sock_cache' = DOMAIN cache \ evicted
      /\ \A s \in DOMAIN sock_cache' : sock_cache'[s] = cache[s]
      /\ evicted = {s \in DOMAIN cache : should_evict(cache[s])}
  BY Zenon, <1>4 DEF RemoveKeys, EvictedSocks
<1>6. DOMAIN cache = DOMAIN sock_cache \cup DOMAIN sock_stream
  BY Zenon, RoundCacheFacts, UpdatedFacts
<1>7. \A s \in DOMAIN cache :
        /\ s \in DOMAIN sock_stream => /\ cache[s].stats = sock_stream[s].stats
                                       /\ cache[s].cpus = sock_stream[s].cpus
        /\ s \notin DOMAIN sock_stream => /\ cache[s].stats = sock_cache[s].stats
                                          /\ cache[s].cpus = sock_cache[s].cpus
        /\ s \in DOMAIN sock_cache => cache[s].context = sock_cache[s].context
        /\ s \notin DOMAIN sock_cache => cache[s].context = NoContext
  <2> TAKE s \in DOMAIN cache
  <2>1. /\ cache[s].stats = Updated[s].stats /\ cache[s].cpus = Updated[s].cpus
        /\ cache[s].context = Updated[s].context
    BY Zenon, RoundCacheFacts
  <2> HIDE DEF cache
  <2> QED BY Zenon, <1>6, <2>1, UpdatedFacts
<1>8. \A s \in DOMAIN cache :
        is_valid(cache[s].context_external) => is_valid(cache[s].context)
  <2> TAKE s \in DOMAIN cache
  <2>1. /\ cache[s].context = Updated[s].context
        /\ is_valid(cache[s].context_external) =>
             is_valid(Updated[s].context_external) \/ is_valid(Updated[s].context)
    BY Zenon, RoundCacheFacts
  <2>2. is_valid(Updated[s].context_external) => is_valid(Updated[s].context)
    <3>1. CASE s \in DOMAIN sock_cache
      BY ZenonT(60), <3>1, UpdatedFacts DEF ContextInv
    <3>2. CASE s \notin DOMAIN sock_cache
      BY Zenon, <1>6, <3>2, UpdatedFacts
    <3> QED BY Zenon, <3>1, <3>2
  <2> QED BY Zenon, <2>1, <2>2
<1> HIDE DEF cache, evicted
<1>9. \A s \in DOMAIN sock_cache' : Kept(s)
  BY ZenonT(60), <1>5, <1>6, <1>7, <1>8 DEF Kept
<1>10. ASSUME NEW key \in to_evict'
       PROVE  key \in DOMAIN NFM_SK_STATS /\ key[2] \notin DOMAIN sock_cache'
  <2>1. /\ key \in CpuSockKey /\ key[2] \in evicted
        /\ key[1] \in cache[key[2]].cpus
    BY Zenon, <1>4, <1>10
  <2>2. key[2] \in DOMAIN cache /\ key[2] \notin DOMAIN sock_cache'
    BY Zenon, <1>5, <2>1
  <2>3. key = <<key[1], key[2]>>
    BY Zenon, <2>1, Places
  <2>4. <<key[1], key[2]>> \in DOMAIN NFM_SK_STATS
    BY Zenon, <1>6, <1>7, <2>1, <2>2 DEF EntryInv
  <2> QED BY Zenon, <2>2, <2>3, <2>4
<1>11. \A s \in Socks : credited'[s] = credited[s] \/ CreditedNow(s)
  BY Zenon, <1>2, RoundCredits
<1> QED BY Zenon, <1>9, <1>10, <1>11

LEMMA AggregateInv ==
  ASSUME CoreInvariant, Aggregate
  PROVE  CoreInvariant'
<1> USE DEF CoreInvariant
<1>1. TypeOK'
  BY Zenon, TypeStep DEF Next, AgentStep
<1>2. /\ UNCHANGED <<kernel_bytes, tcp_state, NFM_SK_PROPS, NFM_SK_STATS,
                     copying, new_cpu_sock_keys>>
      /\ pc = "stats" /\ pc' = "evict" /\ todo = {} /\ copying = {}
      /\ sock_stream' = EmptyMap /\ DOMAIN sock_stream' = {}
  BY Zenon, EmptyIsMap DEF Aggregate, kernel_vars
<1>3. /\ \A s \in DOMAIN sock_cache' : Kept(s)
      /\ \A key \in to_evict' :
           key \in DOMAIN NFM_SK_STATS /\ key[2] \notin DOMAIN sock_cache'
      /\ \A s \in Socks : credited'[s] = credited[s] \/ CreditedNow(s)
  BY Zenon, AggregateFacts
<1>4. new_cpu_sock_keys = {}
  BY Zenon, <1>2 DEF PhaseInv
<1>5. PhaseInv'
  BY Zenon, <1>2, <1>4 DEF PhaseInv
<1>6. EntryInv'
  <2>1. \A s \in DOMAIN sock_cache' :
          \A c \in sock_cache'[s].cpus : <<c, s>> \in DOMAIN NFM_SK_STATS
    BY Zenon, <1>3 DEF Kept, EntryInv
  <2> QED BY Zenon, <1>2, <1>3, <2>1 DEF EntryInv
<1>7. BytesInv'
  <2>1. \A s \in DOMAIN sock_cache' :
          Covered(sock_cache'[s].stats.bytes_received, sock_cache'[s].cpus, s)
    BY Zenon, <1>3 DEF Kept, BytesInv
  <2> QED BY Zenon, <1>2, <2>1 DEF BytesInv, Covered
<1>8. IterationInv'
  BY Zenon, <1>2 DEF IterationInv
<1>9. \A s \in Socks : HasContext(s)' => HasContext(s)
  BY Zenon, <1>3 DEF Kept, HasContext
<1>10. \A s \in Socks : Uncredited(s) => Uncredited(s)'
  BY Zenon, <1>3, <1>9 DEF Uncredited, CreditedNow
<1>11. ContextInv'
  <2>1. \A key \in DOMAIN NFM_SK_PROPS : key[2] \in Socks
    BY Zenon, Places
  <2>2. \A s \in DOMAIN sock_cache' :
          is_valid(sock_cache'[s].context_external) => is_valid(sock_cache'[s].context)
    BY Zenon, <1>3 DEF Kept
  <2> QED BY Zenon, <1>2, <1>4, <1>10, <2>1, <2>2 DEF ContextInv
<1>12. CreditInv'
  <2> SUFFICES ASSUME NEW s \in Socks
               PROVE  /\ credited'[s].bytes_received <= kernel_bytes[s]
                      /\ credited'[s].sockets_completed <= 1
                      /\ HasContext(s)' =>
                           /\ credited'[s].bytes_received
                                <= sock_cache'[s].stats.bytes_received
                           /\ credited'[s].sockets_completed = 0
    BY Zenon, <1>2 DEF CreditInv
  <2> DEFINE cached == sock_cache[s].stats.bytes_received
             read == sock_stream[s].stats.bytes_received
  <2>1. /\ kernel_bytes[s] \in Nat
        /\ credited[s].bytes_received \in Nat /\ credited[s].sockets_completed \in Nat
        /\ s \in DOMAIN sock_cache => cached \in Nat
        /\ s \in DOMAIN sock_stream => read \in Nat
    BY Zenon, Numbers
  <2>2. s \in DOMAIN sock_cache \cap DOMAIN sock_stream => cached <= read
    BY Zenon, <1>2, NoWrap
  <2>3. s \in DOMAIN sock_stream => read <= kernel_bytes[s]
    <3> SUFFICES ASSUME s \in DOMAIN sock_stream PROVE read <= kernel_bytes[s]
      BY Zenon
    <3>1. CASE read = 0
      BY <2>1, <3>1
    <3>2. ASSUME NEW c \in sock_stream[s].cpus,
                 <<c, s>> \in DOMAIN NFM_SK_STATS,
                 read <= NFM_SK_STATS[<<c, s>>].bytes_received
          PROVE  read <= kernel_bytes[s]
      <4>1. NFM_SK_STATS[<<c, s>>].bytes_received <= kernel_bytes[s]
        BY Zenon, <3>2 DEF BytesInv
      <4>2. NFM_SK_STATS[<<c, s>>].bytes_received \in Nat
        BY Zenon, <3>2, Numbers
      <4> QED BY <2>1, <3>2, <4>1, <4>2
    <3> QED BY Zenon, <3>1, <3>2 DEF BytesInv, Covered
  <2>4. HasContext(s) => /\ s \in DOMAIN sock_cache
                         /\ credited[s].bytes_received <= cached
                         /\ credited[s].sockets_completed = 0
    BY Zenon DEF HasContext, CreditInv
  <2>5. HasContext(s)' =>
          /\ HasContext(s) /\ s \in DOMAIN sock_cache'
          /\ s \in DOMAIN sock_stream =>
               sock_cache'[s].stats.bytes_received = read
          /\ s \notin DOMAIN sock_stream =>
               sock_cache'[s].stats.bytes_received = cached
    BY Zenon, <1>3, <1>9 DEF HasContext, Kept
  <2>6. /\ credited[s].bytes_received <= kernel_bytes[s]
        /\ credited[s].sockets_completed <= 1
    BY Zenon DEF CreditInv
  <2> HIDE DEF cached, read
  <2>7. CASE credited'[s] = credited[s]
    <3>1. HasContext(s)' /\ s \in DOMAIN sock_stream =>
            /\ s \in DOMAIN sock_cache
            /\ credited[s].bytes_received <= cached /\ cached <= read
      BY Zenon, <2>2, <2>4, <2>5
    <3>2. HasContext(s)' /\ s \in DOMAIN sock_stream =>
            credited[s].bytes_received <= read
      BY <2>1, <3>1
    <3> QED BY Zenon, <2>4, <2>5, <2>6, <2>7, <3>2
  <2>8. CASE CreditedNow(s)
    <3>1. /\ HasContext(s) /\ s \in DOMAIN sock_stream /\ s \in DOMAIN sock_cache
          /\ credited'[s].bytes_received = credited[s].bytes_received + (read - cached)
          /\ \/ credited'[s].sockets_completed = credited[s].sockets_completed
             \/ /\ credited'[s].sockets_completed = credited[s].sockets_completed + 1
                /\ s \notin DOMAIN sock_cache'
      <4>1. HasContext(s) /\ s \in DOMAIN sock_stream
        BY Zenon, <2>8 DEF CreditedNow
      <4>2. s \in DOMAIN sock_cache
        BY Zenon, <2>4, <4>1
      <4>3. credited'[s].bytes_received = credited[s].bytes_received + (read - cached)
        BY Zenon, <2>8 DEF CreditedNow, cached, read
      <4>4. \/ credited'[s].sockets_completed = credited[s].sockets_completed
            \/ /\ credited'[s].sockets_completed = credited[s].sockets_completed + 1
               /\ s \notin DOMAIN sock_cache'
        BY Zenon, <2>8 DEF CreditedNow
      <4> QED BY Zenon, <4>1, <4>2, <4>3, <4>4
    <3>2. credited'[s].bytes_received <= read
      BY <2>1, <2>2, <2>4, <3>1
    <3>3. credited'[s].bytes_received <= kernel_bytes[s]
      BY <2>1, <2>2, <2>3, <2>4, <3>1
    <3>4. credited'[s].sockets_completed <= 1
      BY <2>4, <3>1
    <3>5. HasContext(s)' => credited'[s].sockets_completed = 0
      BY Zenon, <2>4, <2>5, <3>1
    <3> QED BY Zenon, <2>5, <3>1, <3>2, <3>3, <3>4, <3>5
  <2> QED BY Zenon, <1>3, <2>7, <2>8
<1> QED BY Zenon, <1>1, <1>5, <1>6, <1>7, <1>8, <1>11, <1>12

-----------------------------------------------------------------------------
(* Closed sockets. *)

LEMMA KernelStepClosed ==
  ASSUME CoreInvariant, ClosedInv, KernelStep
  PROVE  ClosedInv'
<1>1. KernelTypeOK /\ ClosedEntries /\ ClosedStream /\ CacheCredited /\ FinishedSettled
  BY Zenon DEF CoreInvariant, TypeOK, ClosedInv
<1>2. EntriesMove /\ ClosedIsFinal
  BY Zenon, <1>1, KernelWrites, KernelClosed
<1>3. UNCHANGED <<sock_stream, sock_cache, credited, dropped, torn_close, finished>>
  BY Zenon DEF KernelStep, agent_vars
<1>4. ContextsMove
  BY Zenon, KernelMoves DEF CoreInvariant, TypeOK, BytesInv, EntriesLag
<1>5. ClosedEntries'
  <2>1. \A key \in DOMAIN NFM_SK_STATS :
          is_closed(NFM_SK_STATS[key]) =>
            /\ tcp_state'[key[2]] = "CLOSE"
            /\ NFM_SK_STATS[key].bytes_received = kernel_bytes'[key[2]]
    BY Zenon, <1>1, <1>2, EntryIsStats DEF ClosedEntries, ClosedIsFinal
  <2>2. CASE EntriesKept
    BY Zenon, <2>1, <2>2 DEF EntriesKept, ClosedEntries
  <2>3. ASSUME NEW key \in CpuSockKey, NEW stats \in SockStats, EntryWritten(key, stats)
        PROVE  ClosedEntries'
    <3>1. NFM_SK_STATS' = Put(NFM_SK_STATS, key, stats)
      BY Zenon, <2>3 DEF EntryWritten
    <3>2. /\ DOMAIN NFM_SK_STATS' = DOMAIN NFM_SK_STATS \cup {key}
          /\ NFM_SK_STATS'[key] = stats
          /\ \A k \in DOMAIN NFM_SK_STATS \ {key} : NFM_SK_STATS'[k] = NFM_SK_STATS[k]
      BY Zenon, <3>1 DEF Put
    <3>3. is_closed(stats) => /\ tcp_state'[key[2]] = "CLOSE"
                              /\ stats.bytes_received = kernel_bytes'[key[2]]
      BY Zenon, <2>3 DEF EntryWritten
    <3> QED BY Zenon, <2>1, <3>2, <3>3 DEF ClosedEntries
  <2> QED BY Zenon, <1>2, <2>2, <2>3 DEF EntriesMove
<1>6. ClosedStream'
  BY Zenon, <1>1, <1>2, <1>3, Places DEF ClosedStream, ClosedIsFinal, CoreInvariant
<1>7. CacheCredited'
  BY Zenon, <1>1, <1>3 DEF CacheCredited
<1>8. FinishedSettled'
  <2> SUFFICES ASSUME NEW s \in finished
               PROVE  /\ tcp_state'[s] = "CLOSE" /\ ~HasContext(s)'
                      /\ \A key \in DOMAIN NFM_SK_PROPS' : key[2] # s
                      /\ s \notin dropped' \cup torn_close' =>
                           credited'[s].bytes_received = kernel_bytes'[s]
    BY Zenon, <1>3 DEF FinishedSettled
  <2>1. /\ tcp_state[s] = "CLOSE" /\ ~HasContext(s) /\ s \in Socks
        /\ \A key \in DOMAIN NFM_SK_PROPS : key[2] # s
        /\ s \notin dropped \cup torn_close =>
             credited[s].bytes_received = kernel_bytes[s]
    BY Zenon, <1>1 DEF FinishedSettled, CoreInvariant, TypeOK
  <2>2. \A key \in DOMAIN NFM_SK_PROPS' :
          key \in DOMAIN NFM_SK_PROPS \/ tcp_state[key[2]] = "NEW"
    <3>1. CASE UNCHANGED NFM_SK_PROPS
      BY Zenon, <3>1
    <3>2. ASSUME NEW key \in CpuSockKey, NEW context, tcp_state[key[2]] = "NEW",
                 NFM_SK_PROPS' = Put(NFM_SK_PROPS, key, context)
          PROVE  \A k \in DOMAIN NFM_SK_PROPS' :
                   k \in DOMAIN NFM_SK_PROPS \/ tcp_state[k[2]] = "NEW"
      <4>1. DOMAIN NFM_SK_PROPS' = DOMAIN NFM_SK_PROPS \cup {key}
        BY Zenon, <3>2 DEF Put
      <4> QED BY Zenon, <3>2, <4>1
    <3> QED BY Zenon, <1>4, <3>1, <3>2 DEF ContextsMove
  <2>3. \A key \in DOMAIN NFM_SK_PROPS' : key[2] # s
    BY Zenon, <2>1, <2>2
  <2>4. ~HasContext(s)'
    BY Zenon, <1>3, <2>1 DEF HasContext
  <2> QED BY Zenon, <1>2, <1>3, <2>1, <2>3, <2>4 DEF ClosedIsFinal
<1> QED BY Zenon, <1>5, <1>6, <1>7, <1>8 DEF ClosedInv

\* Entries may go, the rest of what is known of closed sockets stays.
Quiet ==
  /\ UNCHANGED <<tcp_state, kernel_bytes, sock_stream, sock_cache, credited, dropped,
                 torn_close, finished>>
  /\ DOMAIN NFM_SK_PROPS' \subseteq DOMAIN NFM_SK_PROPS
  /\ \A key \in DOMAIN NFM_SK_STATS' :
       key \in DOMAIN NFM_SK_STATS /\ NFM_SK_STATS'[key] = NFM_SK_STATS[key]

LEMMA QuietClosed ==
  ASSUME ClosedInv, Quiet
  PROVE  ClosedInv'
<1> USE DEF ClosedInv, Quiet
<1>1. ClosedEntries'
  BY Zenon DEF ClosedEntries
<1>2. ClosedStream' /\ CacheCredited'
  BY Zenon DEF ClosedStream, CacheCredited
<1>3. FinishedSettled'
  BY Zenon DEF FinishedSettled, HasContext
<1> QED BY Zenon, <1>1, <1>2, <1>3

LEMMA QuietSteps ==
  ASSUME CoreInvariant,
         \/ StartCycle \/ PropsRead \/ PropsFreed \/ EndCycle \/ network_stats
         \/ \E key \in CpuSockKey :
              FreeProps(key) \/ CopyStats(key) \/ perform_bpf_eviction(key)
         \/ UNCHANGED vars
  PROVE  Quiet
<1>1. CASE \/ StartCycle \/ PropsRead \/ PropsFreed \/ EndCycle \/ network_stats
           \/ \E key \in CpuSockKey : CopyStats(key)
           \/ UNCHANGED vars
  BY Zenon, <1>1 DEF Quiet, StartCycle, PropsRead, PropsFreed, EndCycle, network_stats,
              CopyStats, vars, kernel_vars, agent_vars
<1>2. ASSUME NEW key \in CpuSockKey, FreeProps(key) PROVE Quiet
  BY Zenon, <1>2 DEF Quiet, FreeProps, RemoveKeys
<1>3. ASSUME NEW key \in CpuSockKey, perform_bpf_eviction(key) PROVE Quiet
  BY Zenon, <1>3 DEF Quiet, perform_bpf_eviction, RemoveKeys
<1> QED BY Zenon, <1>1, <1>2, <1>3

\* The cache gets the context of a socket, or is full.
LEMMA ReadPropsAdds ==
  ASSUME CoreInvariant, NEW key \in CpuSockKey, ReadProps(key)
  PROVE  \/ UNCHANGED sock_cache
         \/ /\ ContextAdded(sock_cache', key[2], NFM_SK_PROPS[key])
            /\ key[2] \in Socks
            /\ Uncredited(key[2])
            /\ NFM_SK_PROPS[key] # NoContext
<1> USE DEF CoreInvariant
<1> DEFINE sock == key[2]
           context == NFM_SK_PROPS[key]
           now == saturating_sub(cycle_us, NoTrack \div 2)
<1>1. /\ sock_cache' = add_context(sock_cache, sock, context, now)
      /\ key \in DOMAIN NFM_SK_PROPS \ new_cpu_sock_keys
  BY Zenon DEF ReadProps
<1>2. now \in Nat
  <2>1. NoTrack \div 2 \in Nat
    BY EventProviderAssumption DEF EventProviderAssumption
  <2> QED BY Zenon, <2>1, SaturatingSubType DEF TypeOK
<1>3. sock \in Socks /\ context \in Flows
  BY Zenon, <1>1 DEF TypeOK, KernelTypeOK, IsMap, CpuSockKey
<1>4. context # NoContext
  BY Zenon, <1>3, NetworkAssumption DEF NetworkAssumption
<1>5. Uncredited(sock)
  BY Zenon, <1>1 DEF ContextInv
<1> HIDE DEF now, sock, context
<1>6. CASE add_context_fails(sock_cache, sock)
  BY Zenon, <1>1, <1>6 DEF add_context
<1>7. CASE ~add_context_fails(sock_cache, sock)
  <2>1. ContextAdded(add_context(sock_cache, sock, context, now), sock, context)
    BY Zenon, <1>2, <1>3, <1>7, AddContextFacts
  <2> QED BY Zenon, <1>1, <1>3, <1>4, <1>5, <2>1 DEF sock, context
<1> QED BY Zenon, <1>6, <1>7

LEMMA ReadPropsClosed ==
  ASSUME CoreInvariant, ClosedInv, NEW key \in CpuSockKey, ReadProps(key)
  PROVE  ClosedInv'
<1> USE DEF ClosedInv
<1>1. UNCHANGED <<tcp_state, kernel_bytes, sock_stream, credited, dropped, torn_close,
                  finished, NFM_SK_PROPS, NFM_SK_STATS>>
  BY Zenon DEF ReadProps, kernel_vars
<1>2. CASE UNCHANGED sock_cache
  BY Zenon, <1>1, <1>2, QuietClosed DEF Quiet
<1> DEFINE sock == key[2]
<1>3. CASE /\ ContextAdded(sock_cache', sock, NFM_SK_PROPS[key])
           /\ sock \in Socks /\ Uncredited(sock) /\ NFM_SK_PROPS[key] # NoContext
  <2>1. ClosedEntries' /\ ClosedStream'
    BY Zenon, <1>1 DEF ClosedEntries, ClosedStream
  <2>2. key \in DOMAIN NFM_SK_PROPS
    BY Zenon DEF ReadProps
  <2> HIDE DEF sock
  <2>3. /\ DOMAIN sock_cache' = DOMAIN sock_cache \cup {sock}
        /\ \A s \in DOMAIN sock_cache \ {sock} : sock_cache'[s] = sock_cache[s]
    BY Zenon, <1>3 DEF ContextAdded
  <2>4. CacheCredited'
    <3>1. ASSUME NEW s \in DOMAIN sock_cache \ {sock}
          PROVE  /\ ~sock_cache'[s].is_complete
                 /\ s \notin dropped =>
                      sock_cache'[s].stats.bytes_received
                        = IF is_valid(sock_cache'[s].context)
                          THEN credited[s].bytes_received ELSE 0
      BY Zenon, <2>3 DEF CacheCredited
    <3>2. /\ ~sock_cache'[sock].is_complete
          /\ sock_cache'[sock].context # NoContext
          /\ sock \in DOMAIN sock_cache =>
               sock_cache'[sock].stats.bytes_received = sock_cache[sock].stats.bytes_received
          /\ sock \notin DOMAIN sock_cache => sock_cache'[sock].stats.bytes_received = 0
      BY Zenon, <1>3 DEF ContextAdded
    <3>3. credited[sock].bytes_received = 0 /\ ~HasContext(sock)
      BY Zenon, <1>3 DEF Uncredited
    <3>4. sock \notin dropped => sock_cache'[sock].stats.bytes_received = 0
      BY Zenon, <3>2, <3>3 DEF HasContext, CacheCredited
    <3> QED BY Zenon, <1>1, <2>3, <3>1, <3>2, <3>3, <3>4 DEF CacheCredited
  <2>5. FinishedSettled'
    <3>1. \A s \in finished : s # sock
      BY Zenon, <2>2 DEF FinishedSettled, sock
    <3>2. \A s : s # sock => HasContext(s)' = HasContext(s)
      BY Zenon, <2>3 DEF HasContext
    <3> QED BY Zenon, <1>1, <3>1, <3>2 DEF FinishedSettled
  <2> QED BY Zenon, <2>1, <2>4, <2>5
<1> QED BY Zenon, <1>2, <1>3, ReadPropsAdds

LEMMA AddFromRest ==
  ASSUME NEW a \in SockStats, NEW b \in SockStats
  PROVE  /\ is_closed(add_from(a, b)) <=> is_closed(a) \/ is_closed(b)
         /\ a.last_touched_us <= add_from(a, b).last_touched_us
         /\ b.last_touched_us <= add_from(a, b).last_touched_us
         /\ add_from(a, b).bytes_received = max(a.bytes_received, b.bytes_received)
         /\ add_from(a, b).bpf_events = wrapping_add(a.bpf_events, b.bpf_events)
<1>1. a.last_touched_us \in Nat /\ b.last_touched_us \in Nat
  BY Zenon DEF SockStats
<1>2. /\ add_from(a, b).last_touched_us = max(a.last_touched_us, b.last_touched_us)
      /\ add_from(a, b).state_flags = a.state_flags \cup b.state_flags
      /\ add_from(a, b).bytes_received = max(a.bytes_received, b.bytes_received)
      /\ add_from(a, b).bpf_events = wrapping_add(a.bpf_events, b.bpf_events)
  BY Zenon DEF add_from
<1> QED BY <1>1, <1>2 DEF max, is_closed

\* What the stream had of the socket before the copy is merged into it.
Before(s) == IF s \in DOMAIN sock_stream THEN sock_stream[s].stats ELSE DefaultStats

\* The copy of the entry of cpu and sock is merged into the stream.
EntryMerged(copy, cpu, sock) ==
  /\ copy.key = <<cpu, sock>>
  /\ cpu \in Cpus /\ sock \in Socks
  /\ <<cpu, sock>> \in DOMAIN NFM_SK_STATS
  /\ Before(sock) \in SockStats
  /\ CopiedStats(copy) \in SockStats
  /\ CopiedStats(copy).bytes_received = copy.bytes_received
  /\ CopiedStats(copy).last_touched_us = copy.last_touched_us
  /\ CopiedStats(copy).bpf_events = NFM_SK_STATS[<<cpu, sock>>].bpf_events
  /\ CopiedStats(copy).state_flags = NFM_SK_STATS[<<cpu, sock>>].state_flags
  /\ todo' = todo \ {<<cpu, sock>>}
  /\ DOMAIN sock_stream' = DOMAIN sock_stream \cup {sock}
  /\ \A s \in DOMAIN sock_stream \ {sock} : sock_stream'[s] = sock_stream[s]
  /\ sock_stream'[sock].stats = add_from(Before(sock), CopiedStats(copy))
  /\ sock_stream'[sock].cpus = StreamCpus(sock) \cup {cpu}
  /\ torn_close' = IF /\ is_closed(CopiedStats(copy))
                      /\ copy.bytes_received # NFM_SK_STATS[<<cpu, sock>>].bytes_received
                   THEN torn_close \cup {sock} ELSE torn_close

LEMMA MergesEntry ==
  ASSUME CoreInvariant, aggregate_sock_stats
  PROVE  \E copy \in copying, cpu \in Cpus, sock \in Socks : EntryMerged(copy, cpu, sock)
<1> USE DEF CoreInvariant
<1>1. PICK copy \in copying :
        LET sock  == copy.key[2]
            stats == CopiedStats(copy)
            agg   == IF sock \in DOMAIN sock_stream THEN sock_stream[sock]
                     ELSE [stats |-> DefaultStats, cpus |-> {}]
        IN  /\ sock_stream' = Put(sock_stream, sock,
                                  [stats |-> add_from(agg.stats, stats),
                                   cpus |-> agg.cpus \cup {copy.key[1]}])
            /\ todo' = todo \ {copy.key}
            /\ torn_close' =
                 IF /\ is_closed(stats)
                    /\ stats.bytes_received # NFM_SK_STATS[copy.key].bytes_received
                 THEN torn_close \cup {sock} ELSE torn_close
  BY Zenon DEF aggregate_sock_stats
<1> DEFINE sock == copy.key[2]
           cpu == copy.key[1]
           stats == CopiedStats(copy)
           agg == IF sock \in DOMAIN sock_stream THEN sock_stream[sock]
                  ELSE [stats |-> DefaultStats, cpus |-> {}]
           new == [stats |-> add_from(agg.stats, stats),
                   cpus |-> agg.cpus \cup {cpu}]
<1>2. /\ copy.key \in CpuSockKey /\ sock \in Socks /\ cpu \in Cpus
      /\ copy.key = <<cpu, sock>> /\ copy.key \in DOMAIN NFM_SK_STATS
  BY DEF TypeOK, StatsCopy, CpuSockKey, EntryInv
<1>3. stats \in SockStats
  BY Zenon, CopiedStatsType DEF EntryInv
<1>4. /\ stats.bytes_received = copy.bytes_received
      /\ stats.last_touched_us = copy.last_touched_us
      /\ stats.bpf_events = NFM_SK_STATS[copy.key].bpf_events
      /\ stats.state_flags = NFM_SK_STATS[copy.key].state_flags
  <2>1. NFM_SK_STATS[copy.key] \in SockStats
    BY Zenon, EntryIsStats DEF EntryInv, TypeOK
  <2> QED BY Zenon, <2>1 DEF CopiedStats, SockStats
<1>5. agg.stats = Before(sock) /\ agg.cpus = StreamCpus(sock)
  BY Zenon DEF Before, StreamCpus
<1>6. Before(sock) \in SockStats
  BY Zenon, DefaultStatsType DEF Before, TypeOK, IsMap, AggSockStats
<1>7. sock_stream' = Put(sock_stream, sock, new) /\ todo' = todo \ {copy.key}
  BY Zenon, <1>1
<1>8. torn_close' = IF /\ is_closed(stats)
                       /\ copy.bytes_received # NFM_SK_STATS[copy.key].bytes_received
                    THEN torn_close \cup {sock} ELSE torn_close
  BY Zenon, <1>1, <1>4
<1>9. new.stats = add_from(Before(sock), stats) /\ new.cpus = StreamCpus(sock) \cup {cpu}
  BY Zenon, <1>5
<1> HIDE DEF new, sock, cpu, agg
<1>10. /\ DOMAIN sock_stream' = DOMAIN sock_stream \cup {sock}
       /\ sock_stream'[sock] = new
       /\ \A s \in DOMAIN sock_stream \ {sock} : sock_stream'[s] = sock_stream[s]
  BY Zenon, <1>7 DEF Put
<1>11. EntryMerged(copy, cpu, sock)
  BY Zenon, <1>2, <1>3, <1>4, <1>6, <1>7, <1>8, <1>9, <1>10 DEF EntryMerged
<1> QED BY Zenon, <1>2, <1>11

LEMMA AggregateSockStatsClosed ==
  ASSUME CoreInvariant, ClosedInv, aggregate_sock_stats
  PROVE  ClosedInv'
<1> USE DEF CoreInvariant, ClosedInv
<1>1. PICK copy \in copying, cpu \in Cpus, sock \in Socks : EntryMerged(copy, cpu, sock)
  BY Zenon, MergesEntry
<1>2. UNCHANGED <<tcp_state, kernel_bytes, sock_cache, credited, dropped, finished,
                  NFM_SK_PROPS, NFM_SK_STATS>>
  BY Zenon DEF aggregate_sock_stats, kernel_vars
<1> DEFINE entry == NFM_SK_STATS[<<cpu, sock>>]
           stats == CopiedStats(copy)
           new == sock_stream'[sock].stats
<1>3. /\ DOMAIN sock_stream' = DOMAIN sock_stream \cup {sock}
      /\ \A s \in DOMAIN sock_stream \ {sock} : sock_stream'[s] = sock_stream[s]
      /\ new = add_from(Before(sock), stats)
      /\ Before(sock) \in SockStats /\ stats \in SockStats
      /\ stats.bytes_received = copy.bytes_received
      /\ is_closed(stats) <=> is_closed(entry)
      /\ <<cpu, sock>> \in DOMAIN NFM_SK_STATS /\ copy.key = <<cpu, sock>>
      /\ torn_close' = IF /\ is_closed(stats)
                          /\ copy.bytes_received # entry.bytes_received
                       THEN torn_close \cup {sock} ELSE torn_close
  BY Zenon, <1>1 DEF EntryMerged, is_closed
<1>4. torn_close \subseteq torn_close'
  BY Zenon, <1>3
<1>5. ClosedEntries' /\ CacheCredited'
  BY Zenon, <1>2 DEF ClosedEntries, CacheCredited
<1>6. FinishedSettled'
  <2>1. \A s : HasContext(s)' = HasContext(s)
    BY Zenon, <1>2 DEF HasContext
  <2> QED BY Zenon, <1>2, <1>4, <2>1 DEF FinishedSettled
<1>7. /\ copy.bytes_received \in Nat /\ entry.bytes_received \in Nat
      /\ kernel_bytes[sock] \in Nat
      /\ copy.bytes_received <= entry.bytes_received
      /\ entry.bytes_received <= kernel_bytes[sock]
  BY Zenon, <1>3, Numbers DEF BytesInv
<1>8. Before(sock).bytes_received \in Nat /\ Before(sock).bytes_received <= kernel_bytes[sock]
  <2>1. Before(sock).bytes_received \in Nat
    BY Zenon, <1>3, BytesAreNat
  <2>2. CASE Before(sock).bytes_received = 0
    BY <1>7, <2>1, <2>2
  <2>3. CASE Before(sock).bytes_received # 0
    <3>1. sock \in DOMAIN sock_stream
      BY Zenon, <2>3 DEF Before, DefaultStats
    <3>2. Covered(Before(sock).bytes_received, sock_stream[sock].cpus, sock)
      BY Zenon, <3>1 DEF BytesInv, Before
    <3>3. PICK c \in sock_stream[sock].cpus :
            /\ <<c, sock>> \in DOMAIN NFM_SK_STATS
            /\ Before(sock).bytes_received <= NFM_SK_STATS[<<c, sock>>].bytes_received
      BY Zenon, <2>3, <3>2 DEF Covered
    <3>4. NFM_SK_STATS[<<c, sock>>].bytes_received \in Nat
          /\ NFM_SK_STATS[<<c, sock>>].bytes_received <= kernel_bytes[sock]
      BY Zenon, <3>3, Numbers DEF BytesInv
    <3> QED BY <1>7, <2>1, <3>3, <3>4
  <2> QED BY Zenon, <2>2, <2>3
<1>9. /\ is_closed(new) <=> is_closed(Before(sock)) \/ is_closed(stats)
      /\ new.bytes_received = max(Before(sock).bytes_received, copy.bytes_received)
  <2> HIDE DEF new, stats, entry
  <2> QED BY Zenon, <1>3, AddFromRest
<1> HIDE DEF new, stats, entry
<1>10. ASSUME is_closed(new)
       PROVE  /\ tcp_state[sock] = "CLOSE"
              /\ sock \in torn_close' \/ new.bytes_received = kernel_bytes[sock]
  <2>1. CASE is_closed(Before(sock))
    <3>1. ~is_closed(DefaultStats)
      BY Zenon DEF is_closed, DefaultStats
    <3>2. /\ tcp_state[sock] = "CLOSE"
          /\ sock \in torn_close \/ Before(sock).bytes_received = kernel_bytes[sock]
      BY Zenon, <2>1, <3>1 DEF Before, ClosedStream
    <3> QED BY <1>4, <1>7, <1>8, <1>9, <3>2 DEF max
  <2>2. CASE is_closed(stats)
    <3>1. tcp_state[sock] = "CLOSE" /\ entry.bytes_received = kernel_bytes[sock]
      BY Zenon, <1>3, <2>2 DEF ClosedEntries, entry
    <3>2. sock \in torn_close' \/ copy.bytes_received = kernel_bytes[sock]
      BY Zenon, <1>3, <2>2, <3>1
    <3> QED BY <1>7, <1>8, <1>9, <3>1, <3>2 DEF max
  <2> QED BY Zenon, <1>9, <1>10, <2>1, <2>2
<1>11. ClosedStream'
  BY Zenon, <1>2, <1>3, <1>4, <1>10 DEF ClosedStream, new
<1> QED BY Zenon, <1>5, <1>6, <1>11

-----------------------------------------------------------------------------
(* The status of a socket in a round. *)

LEMMA StatusFacts ==
  ASSUME NEW w \in Wrappers, NEW t \in Nat
  PROVE  /\ update_status(w, t).is_stale = (w.stats.last_touched_us <= t)
         /\ update_status(w, t).is_complete = (is_valid(w.context) /\ is_closed(w.stats))
         /\ is_valid(w.context) => update_status(w, t).cycles_not_fully_initialized = {}
         /\ not_in_round(w, t).is_complete = w.is_complete
BY Zenon DEF update_status, not_in_round, Wrappers, SockWrapper

LEMMA ExternalKeepsStatus ==
  ASSUME NEW w \in Wrappers, NEW external
  PROVE  LET m == [w EXCEPT !.context_external = external]
         IN  /\ m.is_stale = w.is_stale
             /\ m.is_complete = w.is_complete
             /\ m.cycles_not_fully_initialized = w.cycles_not_fully_initialized
BY Zenon DEF Wrappers, SockWrapper

\* cache[s] has the status that update_stats_and_get_deltas gives it.
StatusOf(w, s) ==
  /\ s \in DOMAIN sock_stream =>
       /\ w.is_complete = (is_valid(w.context) /\ is_closed(sock_stream[s].stats))
       /\ w.is_stale = (sock_stream[s].stats.last_touched_us
                          <= saturating_sub(cycle_us, NoTrack))
       /\ is_valid(w.context) => w.cycles_not_fully_initialized = {}
  /\ s \notin DOMAIN sock_stream => w.is_complete = sock_cache[s].is_complete

LEMMA UpdatedStatus ==
  ASSUME TypeOK, NEW s \in DOMAIN Updated
  PROVE  StatusOf(Updated[s], s)
<1> DEFINE t == saturating_sub(cycle_us, NoTrack)
           in_round == IF s \in DOMAIN sock_cache
                       THEN [sock_cache[s] EXCEPT !.stats = sock_stream[s].stats,
                                                  !.cpus = sock_stream[s].cpus]
                       ELSE new_wrapper(NoContext, sock_stream[s].stats,
                                        sock_stream[s].cpus)
<1>1. t \in Nat
  BY Zenon, SaturatingSubType, EventProviderAssumption DEF EventProviderAssumption, TypeOK
<1>2. s \in DOMAIN sock_cache \cup DOMAIN sock_stream
  BY Zenon, UpdatedFacts
<1>3. Updated[s] = IF s \notin DOMAIN sock_stream THEN not_in_round(sock_cache[s], t)
                   ELSE update_status(in_round, t)
  BY Zenon, <1>2 DEF Updated, update_stats
<1>4. s \in DOMAIN sock_cache => sock_cache[s] \in Wrappers
  BY Zenon DEF TypeOK, IsMap, Wrappers
<1> HIDE DEF t
<1>5. CASE s \in DOMAIN sock_stream
  <2>1. sock_stream[s].stats \in SockStats /\ sock_stream[s].cpus \in SUBSET Cpus
    BY Zenon, <1>5 DEF TypeOK, IsMap, AggSockStats
  <2>2. in_round \in Wrappers /\ in_round.stats = sock_stream[s].stats
    <3>1. CASE s \in DOMAIN sock_cache
      <4>1. in_round \in Wrappers
        BY Zenon, <1>4, <2>1, <3>1, StatsFieldsType
      <4> QED BY Zenon, <1>4, <3>1, <4>1 DEF Wrappers, SockWrapper
    <3>2. CASE s \notin DOMAIN sock_cache
      <4>1. in_round \in Wrappers
        BY Zenon, <2>1, <3>2, NewWrapperType
      <4> QED BY Zenon, <3>2, <4>1 DEF new_wrapper
    <3> QED BY Zenon, <3>1, <3>2
  <2>3. Updated[s] = update_status(in_round, t)
    BY Zenon, <1>3, <1>5
  <2> HIDE DEF in_round
  <2>4. Updated[s].context = in_round.context
    BY <1>1, <2>2, <2>3, StatusKeeps
  <2>5. /\ Updated[s].is_stale = (in_round.stats.last_touched_us <= t)
        /\ Updated[s].is_complete
             = (is_valid(in_round.context) /\ is_closed(in_round.stats))
        /\ is_valid(in_round.context) => Updated[s].cycles_not_fully_initialized = {}
    BY <1>1, <2>2, <2>3, StatusFacts
  <2> QED BY Zenon, <1>5, <2>2, <2>4, <2>5 DEF StatusOf, t
<1>6. CASE s \notin DOMAIN sock_stream
  <2>1. sock_cache[s] \in Wrappers /\ Updated[s] = not_in_round(sock_cache[s], t)
    BY Zenon, <1>2, <1>3, <1>4, <1>6
  <2>2. Updated[s].is_complete = sock_cache[s].is_complete
    BY <1>1, <2>1, StatusFacts
  <2> QED BY Zenon, <1>6, <2>2 DEF StatusOf
<1> QED BY Zenon, <1>5, <1>6

LEMMA RoundStatus ==
  ASSUME TypeOK, NEW nat \in NatTables, NEW s \in DOMAIN RoundCache(nat)
  PROVE  StatusOf(RoundCache(nat)[s], s)
<1>1. s \in DOMAIN Updated /\ Updated[s] \in Wrappers
  BY Zenon, UpdatedFacts, RoundCacheFacts DEF IsMap
<1> DEFINE moved == [Updated[s] EXCEPT !.context_external = nat[Updated[s].context]]
<1>2. RoundCache(nat)[s] = Updated[s] \/ RoundCache(nat)[s] = moved
  BY Zenon, <1>1 DEF RoundCache, store_beyond_nat_entries
<1>3. /\ moved.is_stale = Updated[s].is_stale
      /\ moved.is_complete = Updated[s].is_complete
      /\ moved.cycles_not_fully_initialized = Updated[s].cycles_not_fully_initialized
      /\ moved.context = Updated[s].context
  BY Zenon, <1>1, ExternalKeepsStatus, ExternalKeeps
<1>4. StatusOf(Updated[s], s)
  BY Zenon, <1>1, UpdatedStatus
<1> HIDE DEF moved
<1> QED BY Zenon, <1>2, <1>3, <1>4 DEF StatusOf

-----------------------------------------------------------------------------
(* What a round decides. *)

\* The delta of s is in its flow, or there was nothing in it.
Paid(s) ==
  s \in DOMAIN sock_stream =>
    CreditedNow(s) \/ (credited'[s] = credited[s] /\ Deltas[s].bytes_received = 0)

\* s is given up: the agent saw it closed, or nothing of it for too long.
GivenUp(s) ==
  \/ is_closed(sock_stream[s].stats)
  \/ sock_stream[s].stats.last_touched_us <= saturating_sub(cycle_us, NoTrack)

LEMMA RoundDecides ==
  ASSUME CoreInvariant, CacheCredited, Aggregate
  PROVE  /\ \A s \in DOMAIN sock_cache' : ~sock_cache'[s].is_complete
         /\ \A s \in Socks \ dropped' : s \notin dropped /\ Paid(s)
         /\ \A s \in finished' \ finished :
              /\ HasContext(s) /\ s \in DOMAIN sock_stream
              /\ is_closed(sock_stream[s].stats)
              /\ s \notin DOMAIN sock_cache'
         /\ finished \subseteq finished'
         /\ \A s \in DOMAIN sock_cache \ DOMAIN sock_cache' :
              HasContext(s) /\ s \in DOMAIN sock_stream => GivenUp(s)
<1> USE DEF CoreInvariant
<1>1. PICK nat \in NatTables :
        \E admitted \in Admissible(NewFlows(RoundCache(nat), Deltas)) :
          Round(nat, admitted)
  BY Zenon, AggregateIsRound
<1>2. PICK admitted \in Admissible(NewFlows(RoundCache(nat), Deltas)) :
        Round(nat, admitted)
  BY Zenon, <1>1
<1> DEFINE cache == RoundCache(nat)
           evicted == EvictedSocks(cache)
<1>3. /\ sock_cache' = RemoveKeys(cache, evicted)
      /\ finished' = finished \cup {s \in evicted : cache[s].is_complete}
  BY Zenon, <1>2 DEF Round, EvictFromCache
<1>4. /\ DOMAIN sock_cache' = DOMAIN cache \ evicted
      /\ \A s \in DOMAIN sock_cache' : sock_cache'[s] = cache[s]
      /\ evicted = {s \in DOMAIN cache : should_evict(cache[s])}
  BY Zenon, <1>3 DEF RemoveKeys, EvictedSocks
<1>5. DOMAIN cache = DOMAIN sock_cache \cup DOMAIN sock_stream
  BY Zenon, RoundCacheFacts, UpdatedFacts
<1>6. \A s \in DOMAIN cache : StatusOf(cache[s], s)
  BY Zenon, RoundStatus
<1>7. \A s \in DOMAIN cache :
        /\ s \in DOMAIN sock_cache => cache[s].context = sock_cache[s].context
        /\ s \notin DOMAIN sock_cache => cache[s].context = NoContext
  <2> TAKE s \in DOMAIN cache
  <2>1. cache[s].context = Updated[s].context
    BY Zenon, RoundCacheFacts
  <2> HIDE DEF cache
  <2> QED BY Zenon, <1>5, <2>1, UpdatedFacts
<1> DEFINE in_flow == InFlow(cache, Deltas, DOMAIN flow_cache \cup admitted)
<1>8. dropped' = dropped \cup {s \in DOMAIN Deltas \ in_flow :
                                  Deltas[s].bytes_received > 0}
  BY Zenon, <1>2 DEF Round, CreditFlows
<1> HIDE DEF cache, evicted, in_flow
<1>9. \A s \in DOMAIN sock_cache' : ~sock_cache'[s].is_complete
  BY Zenon, <1>4 DEF should_evict
<1>10. ASSUME NEW s \in Socks \ dropped'
       PROVE  s \notin dropped /\ Paid(s)
  <2>1. s \notin dropped
    BY Zenon, <1>8
  <2>2. CASE s \in in_flow
    <3>1. CreditedNow(s)
      BY Zenon, <1>2, <2>2, RoundCredits DEF cache, in_flow
    <3> QED BY Zenon, <2>1, <3>1 DEF Paid
  <2>3. CASE s \notin in_flow
    <3>1. credited'[s] = credited[s]
      BY Zenon, <1>2, <2>3, RoundCredits DEF cache, in_flow
    <3>2. s \in DOMAIN sock_stream =>
            Deltas[s].bytes_received \in Nat /\ ~(Deltas[s].bytes_received > 0)
      BY Zenon, <1>8, <1>10, <2>3, InFlowType, DeltasFacts
    <3>3. s \in DOMAIN sock_stream => Deltas[s].bytes_received = 0
      BY <3>2
    <3> QED BY Zenon, <2>1, <3>1, <3>3 DEF Paid
  <2> QED BY Zenon, <2>2, <2>3
<1>11. ASSUME NEW s \in finished' \ finished
       PROVE  /\ HasContext(s) /\ s \in DOMAIN sock_stream
              /\ is_closed(sock_stream[s].stats)
              /\ s \notin DOMAIN sock_cache'
  <2>1. s \in DOMAIN cache /\ cache[s].is_complete /\ s \in evicted
    BY Zenon, <1>3, <1>4, <1>11
  <2>2. StatusOf(cache[s], s)
    BY Zenon, <1>6, <2>1
  <2>3. s \in DOMAIN sock_stream
    BY Zenon, <1>5, <2>1, <2>2 DEF StatusOf, CacheCredited
  <2>4. is_valid(cache[s].context) /\ is_closed(sock_stream[s].stats)
    BY Zenon, <2>1, <2>2, <2>3 DEF StatusOf
  <2> QED BY Zenon, <1>4, <1>7, <2>1, <2>3, <2>4 DEF HasContext
<1>12. ASSUME NEW s \in DOMAIN sock_cache \ DOMAIN sock_cache', HasContext(s),
              s \in DOMAIN sock_stream
       PROVE  GivenUp(s)
  <2>1. s \in DOMAIN cache /\ should_evict(cache[s])
    BY Zenon, <1>4, <1>5, <1>12
  <2>2. StatusOf(cache[s], s) /\ is_valid(cache[s].context)
    BY Zenon, <1>6, <1>7, <1>12, <2>1 DEF HasContext
  <2>3. cache[s].cycles_not_fully_initialized = {}
    BY Zenon, <1>12, <2>2 DEF StatusOf
  <2>4. cache[s].is_complete \/ cache[s].is_stale
    BY Zenon, <2>1, <2>3 DEF should_evict
  <2> QED BY Zenon, <1>12, <2>2, <2>4 DEF StatusOf, GivenUp
<1>13. finished \subseteq finished'
  BY Zenon, <1>3
<1> QED BY Zenon, <1>9, <1>10, <1>11, <1>12, <1>13

LEMMA AggregateClosed ==
  ASSUME CoreInvariant, ClosedInv, Aggregate
  PROVE  ClosedInv'
<1> USE DEF CoreInvariant, ClosedInv
<1>1. /\ UNCHANGED <<kernel_bytes, tcp_state, NFM_SK_PROPS, NFM_SK_STATS, torn_close>>
      /\ pc = "stats" /\ todo = {} /\ copying = {}
      /\ DOMAIN sock_stream' = {}
  BY Zenon, EmptyIsMap DEF Aggregate, kernel_vars
<1>2. /\ \A s \in DOMAIN sock_cache' : Kept(s)
      /\ \A s \in Socks : credited'[s] = credited[s] \/ CreditedNow(s)
  BY Zenon, AggregateFacts
<1>3. /\ \A s \in DOMAIN sock_cache' : ~sock_cache'[s].is_complete
      /\ \A s \in Socks \ dropped' : s \notin dropped /\ Paid(s)
      /\ \A s \in finished' \ finished :
           /\ HasContext(s) /\ s \in DOMAIN sock_stream
           /\ is_closed(sock_stream[s].stats)
           /\ s \notin DOMAIN sock_cache'
  BY Zenon, RoundDecides
<1>4. ClosedEntries' /\ ClosedStream'
  BY Zenon, <1>1 DEF ClosedEntries, ClosedStream
<1> DEFINE cached(s) == sock_cache[s].stats.bytes_received
           read(s) == sock_stream[s].stats.bytes_received
\* A socket whose delta is in its flow or empty: the credit is what was read.
<1>5. ASSUME NEW s \in Socks \ dropped', HasContext(s), s \in DOMAIN sock_stream
      PROVE  credited'[s].bytes_received = read(s)
  <2>1. s \in DOMAIN sock_cache /\ s \notin dropped /\ Paid(s)
    BY Zenon, <1>3, <1>5 DEF HasContext
  <2>2. cached(s) = credited[s].bytes_received
    BY Zenon, <1>5, <2>1 DEF CacheCredited, HasContext
  <2>3. cached(s) \in Nat /\ read(s) \in Nat
    BY Zenon, <1>5, <2>1, Numbers
  <2>4. CASE CreditedNow(s)
    <3>1. credited'[s].bytes_received = credited[s].bytes_received + (read(s) - cached(s))
      BY Zenon, <2>4 DEF CreditedNow
    <3> QED BY <2>2, <2>3, <3>1
  <2>5. CASE credited'[s] = credited[s] /\ Deltas[s].bytes_received = 0
    <3>1. Deltas[s].bytes_received = read(s) - cached(s)
      BY Zenon, <1>1, <1>5, <2>1, DeltaBytes
    <3> QED BY <2>2, <2>3, <2>5, <3>1
  <2> QED BY Zenon, <1>5, <2>1, <2>4, <2>5 DEF Paid
<1>6. CacheCredited'
  <2> SUFFICES ASSUME NEW s \in DOMAIN sock_cache', s \notin dropped'
               PROVE  sock_cache'[s].stats.bytes_received
                        = IF is_valid(sock_cache'[s].context)
                          THEN credited'[s].bytes_received ELSE 0
    BY Zenon, <1>3 DEF CacheCredited
  <2>1. Kept(s) /\ s \in Socks /\ s \in DOMAIN sock_cache \cup DOMAIN sock_stream
    BY Zenon, <1>2, Places DEF Kept
  <2>2. s \notin dropped /\ Paid(s)
    BY Zenon, <1>3, <2>1
  <2>3. CASE s \notin DOMAIN sock_stream
    <3>1. s \in DOMAIN sock_cache /\ credited'[s] = credited[s]
      BY Zenon, <1>2, <2>1, <2>3 DEF CreditedNow
    <3> QED BY Zenon, <2>1, <2>2, <2>3, <3>1 DEF Kept, CacheCredited
  <2>4. CASE s \in DOMAIN sock_stream /\ HasContext(s)
    BY Zenon, <1>5, <2>1, <2>4 DEF Kept, HasContext
  <2>5. CASE s \in DOMAIN sock_stream /\ ~HasContext(s)
    <3>1. Deltas[s].bytes_received = 0
      BY Zenon, <2>2, <2>5 DEF Paid, CreditedNow
    <3>2. CASE s \in DOMAIN sock_cache
      <4>1. cached(s) = 0 /\ sock_cache'[s].context = NoContext
        BY Zenon, <2>1, <2>2, <2>5, <3>2 DEF HasContext, CacheCredited, Kept
      <4>2. Deltas[s].bytes_received = read(s) - cached(s)
        BY Zenon, <1>1, <2>5, <3>2, DeltaBytes
      <4>3. read(s) \in Nat
        BY Zenon, <2>5, Numbers
      <4>4. sock_cache'[s].stats.bytes_received = read(s)
        BY Zenon, <2>1, <2>5 DEF Kept
      <4> QED BY <3>1, <4>1, <4>2, <4>3, <4>4
    <3>3. CASE s \notin DOMAIN sock_cache
      <4>1. Deltas[s] = sock_stream[s].stats
        BY Zenon, <2>5, <3>3 DEF Deltas, get_deltas
      <4>2. /\ sock_cache'[s].stats.bytes_received = read(s)
            /\ sock_cache'[s].context = NoContext
        BY Zenon, <2>1, <2>5, <3>3 DEF Kept
      <4> QED BY Zenon, <3>1, <4>1, <4>2
    <3> QED BY Zenon, <3>2, <3>3
  <2> QED BY Zenon, <2>3, <2>4, <2>5
<1>7. FinishedSettled'
  <2> SUFFICES ASSUME NEW s \in finished'
               PROVE  /\ tcp_state[s] = "CLOSE" /\ ~HasContext(s)'
                      /\ \A key \in DOMAIN NFM_SK_PROPS : key[2] # s
                      /\ s \notin dropped' \cup torn_close =>
                           credited'[s].bytes_received = kernel_bytes[s]
    BY Zenon, <1>1 DEF FinishedSettled
  <2>1. s \in Socks
    <3>1. TypeOK'
      BY Zenon, TypeStep DEF Next, AgentStep
    <3> QED BY Zenon, <3>1 DEF TypeOK
  <2>2. CASE s \in finished
    <3>1. ~HasContext(s)
      BY Zenon, <2>2 DEF FinishedSettled
    <3>2. ~HasContext(s)'
      BY Zenon, <1>2, <3>1 DEF HasContext, Kept
    <3>3. credited'[s] = credited[s]
      BY Zenon, <1>2, <2>1, <3>1 DEF CreditedNow
    <3>4. s \notin dropped' => s \notin dropped
      BY Zenon, <1>3, <2>1
    <3> QED BY Zenon, <2>2, <3>2, <3>3, <3>4 DEF FinishedSettled
  <2>3. CASE s \notin finished
    <3>1. /\ HasContext(s) /\ s \in DOMAIN sock_stream
          /\ is_closed(sock_stream[s].stats)
          /\ s \notin DOMAIN sock_cache'
      BY Zenon, <1>3, <2>3
    <3>2. tcp_state[s] = "CLOSE" /\ (s \in torn_close \/ read(s) = kernel_bytes[s])
      BY Zenon, <3>1 DEF ClosedStream
    <3>3. \A key \in DOMAIN NFM_SK_PROPS : key[2] # s
      <4>1. new_cpu_sock_keys = {}
        BY Zenon, <1>1 DEF PhaseInv
      <4> QED BY <3>1, <4>1 DEF ContextInv, Uncredited
    <3>4. s \notin dropped' => credited'[s].bytes_received = read(s)
      BY Zenon, <1>5, <2>1, <3>1
    <3>5. ~HasContext(s)'
      BY Zenon, <3>1 DEF HasContext
    <3> QED BY Zenon, <3>2, <3>3, <3>4, <3>5
  <2> QED BY Zenon, <2>2, <2>3
<1> QED BY Zenon, <1>4, <1>6, <1>7

-----------------------------------------------------------------------------
(* Recently seen sockets. *)

LEMMA Times ==
  ASSUME TypeOK
  PROVE  /\ now_us \in Nat /\ cycle_us \in Nat /\ StartTime \in Nat
         /\ \A key \in DOMAIN NFM_SK_STATS : NFM_SK_STATS[key].last_touched_us \in Nat
         /\ \A copy \in copying : copy.last_touched_us \in Nat
         /\ \A s \in DOMAIN sock_stream : sock_stream[s].stats.last_touched_us \in Nat
<1>1. now_us \in Nat /\ cycle_us \in Nat /\ StartTime \in Nat
  BY Zenon, SockOpsAssumption DEF SockOpsAssumption, TypeOK, KernelTypeOK
<1>2. \A key \in DOMAIN NFM_SK_STATS : NFM_SK_STATS[key].last_touched_us \in Nat
  BY Zenon DEF TypeOK, KernelTypeOK, IsMap, SockStats
<1>3. \A copy \in copying : copy.last_touched_us \in Nat
  BY Zenon DEF TypeOK, StatsCopy
<1>4. \A s \in DOMAIN sock_stream : sock_stream[s].stats.last_touched_us \in Nat
  BY Zenon DEF TypeOK, IsMap, AggSockStats, SockStats
<1> QED BY Zenon, <1>1, <1>2, <1>3, <1>4

LEMMA KernelStepTouch ==
  ASSUME CoreInvariant, ClosedInv, TouchInv, KernelStep
  PROVE  TouchInv'
<1>1. TypeOK /\ EntryInv /\ ClosedEntries
  BY Zenon DEF CoreInvariant, ClosedInv
<1>2. EntriesMove
  BY Zenon, <1>1, KernelWrites DEF TypeOK
<1>3. UNCHANGED <<pc, cycle_us, copying, todo, sock_stream>>
  BY Zenon DEF KernelStep, agent_vars
<1>4. CASE EntriesKept
  <2>1. KernelTypeOK'
    BY Zenon, <1>1, KernelStepType DEF TypeOK
  <2>2. now_us <= now_us' /\ now_us' \in Nat /\ UNCHANGED NFM_SK_STATS
    BY Zenon, <1>4, <2>1 DEF EntriesKept, KernelTypeOK
  <2>3. StartTime <= now_us' /\ cycle_us <= now_us'
    BY <1>1, <2>2, Times DEF TouchInv
  <2> QED BY Zenon, <1>3, <2>2, <2>3 DEF TouchInv, Visited
<1>5. ASSUME NEW key \in CpuSockKey, NEW stats \in SockStats, EntryWritten(key, stats)
      PROVE  TouchInv'
  <2>1. /\ NFM_SK_STATS' = Put(NFM_SK_STATS, key, stats)
        /\ now_us' = now_us /\ stats.last_touched_us = now_us
    BY Zenon, <1>5 DEF EntryWritten
  <2>2. /\ DOMAIN NFM_SK_STATS' = DOMAIN NFM_SK_STATS \cup {key}
        /\ NFM_SK_STATS'[key].last_touched_us = now_us
        /\ \A k \in DOMAIN NFM_SK_STATS \ {key} : NFM_SK_STATS'[k] = NFM_SK_STATS[k]
    BY Zenon, <2>1 DEF Put
  <2>3. now_us >= cycle_us
    BY Zenon, <1>1, Times DEF TouchInv
  <2>4. \A k \in DOMAIN NFM_SK_STATS' : StartTime <= NFM_SK_STATS'[k].last_touched_us
    BY Zenon, <2>2 DEF TouchInv
  <2>5. \A copy \in copying :
          \/ NFM_SK_STATS'[copy.key].last_touched_us = copy.last_touched_us
          \/ NFM_SK_STATS'[copy.key].last_touched_us >= cycle_us
    BY Zenon, <1>1, <2>2, <2>3 DEF TouchInv, EntryInv
  <2>6. pc = "stats" =>
          \A k \in DOMAIN NFM_SK_STATS' :
            \/ NFM_SK_STATS'[k].last_touched_us >= cycle_us
            \/ k \in todo
            \/ /\ Visited(k)
               /\ NFM_SK_STATS'[k].last_touched_us
                    <= sock_stream[k[2]].stats.last_touched_us
    BY Zenon, <2>2, <2>3 DEF TouchInv
  <2> QED BY Zenon, <1>3, <2>1, <2>4, <2>5, <2>6 DEF TouchInv, Visited
<1> QED BY Zenon, <1>2, <1>4, <1>5 DEF EntriesMove

\* Outside the iteration only the clocks, the entries and the copies matter.
LEMMA OtherStepsTouch ==
  ASSUME CoreInvariant, TouchInv,
         \/ StartCycle \/ PropsRead \/ PropsFreed \/ EndCycle \/ network_stats
         \/ Aggregate \/ UNCHANGED vars
         \/ \E key \in CpuSockKey : \/ ReadProps(key) \/ FreeProps(key)
                                    \/ perform_bpf_eviction(key)
  PROVE  TouchInv'
<1> USE DEF CoreInvariant, TouchInv
<1>1. /\ UNCHANGED <<now_us, copying>>
      /\ \A key \in DOMAIN NFM_SK_STATS' :
           key \in DOMAIN NFM_SK_STATS /\ NFM_SK_STATS'[key] = NFM_SK_STATS[key]
  BY Zenon DEF StartCycle, PropsRead, PropsFreed, EndCycle, network_stats, Aggregate,
         ReadProps, FreeProps, perform_bpf_eviction, RemoveKeys, vars, kernel_vars,
         agent_vars
<1>2. cycle_us' \in {0, now_us, cycle_us} /\ (cycle_us' = cycle_us \/ pc # "stats")
  BY Zenon DEF StartCycle, PropsRead, PropsFreed, EndCycle, network_stats, Aggregate,
         ReadProps, FreeProps, perform_bpf_eviction, vars, agent_vars
<1>3. cycle_us' <= now_us'
  <2>1. now_us \in Nat /\ cycle_us \in Nat /\ cycle_us <= now_us
    BY Zenon, Times
  <2> HIDE DEF CoreInvariant, TouchInv
  <2> QED BY <1>1, <1>2, <2>1
<1>4. \A copy \in copying' :
        \/ NFM_SK_STATS'[copy.key].last_touched_us = copy.last_touched_us
        \/ NFM_SK_STATS'[copy.key].last_touched_us >= cycle_us'
  <2>1. CASE pc # "stats"
    BY Zenon, <1>1, <2>1 DEF PhaseInv
  <2>2. CASE pc = "stats"
    <3>1. UNCHANGED NFM_SK_STATS
      BY Zenon, <2>2 DEF StartCycle, PropsRead, PropsFreed, EndCycle, network_stats,
         Aggregate, ReadProps, FreeProps, perform_bpf_eviction, vars, kernel_vars
    <3> QED BY Zenon, <1>1, <1>2, <2>2, <3>1
  <2> QED BY Zenon, <2>1, <2>2
<1>5. ASSUME pc' = "stats"
      PROVE  \/ todo' = DOMAIN NFM_SK_STATS'
             \/ UNCHANGED <<pc, todo, sock_stream, cycle_us, NFM_SK_STATS>>
  BY Zenon, <1>5 DEF StartCycle, PropsRead, PropsFreed, EndCycle, network_stats,
     Aggregate, ReadProps, FreeProps, perform_bpf_eviction, vars, kernel_vars, agent_vars
<1>6. pc' = "stats" =>
        \A k \in DOMAIN NFM_SK_STATS' :
          \/ NFM_SK_STATS'[k].last_touched_us >= cycle_us'
          \/ k \in todo'
          \/ /\ Visited(k)'
             /\ NFM_SK_STATS'[k].last_touched_us
                  <= sock_stream'[k[2]].stats.last_touched_us
  BY Zenon, <1>5 DEF Visited
<1> QED BY Zenon, <1>1, <1>3, <1>4, <1>6

LEMMA CopyStatsTouch ==
  ASSUME CoreInvariant, TouchInv, NEW key \in CpuSockKey, CopyStats(key)
  PROVE  TouchInv'
<1> DEFINE copy == [key |-> key,
                    last_touched_us |-> NFM_SK_STATS[key].last_touched_us,
                    bytes_received |-> NFM_SK_STATS[key].bytes_received]
<1>1. /\ UNCHANGED <<now_us, NFM_SK_STATS, pc, cycle_us, todo, sock_stream>>
      /\ copying' = {copy}
  BY Zenon DEF CopyStats, kernel_vars
<1>2. copy.key = key /\ copy.last_touched_us = NFM_SK_STATS[key].last_touched_us
  BY Zenon
<1> HIDE DEF copy
<1> QED BY Zenon, <1>1, <1>2 DEF TouchInv, Visited

LEMMA AggregateSockStatsTouch ==
  ASSUME CoreInvariant, TouchInv, aggregate_sock_stats
  PROVE  TouchInv'
<1> USE DEF CoreInvariant
<1>1. PICK copy \in copying, cpu \in Cpus, sock \in Socks : EntryMerged(copy, cpu, sock)
  BY Zenon, MergesEntry
<1>2. /\ UNCHANGED <<now_us, NFM_SK_STATS, pc, cycle_us>>
      /\ pc = "stats" /\ copying' = {}
  BY Zenon DEF aggregate_sock_stats, kernel_vars
<1> DEFINE touched(k) == NFM_SK_STATS[k].last_touched_us
           read(s) == sock_stream[s].stats.last_touched_us
           new == sock_stream'[sock].stats.last_touched_us
<1>3. /\ todo' = todo \ {<<cpu, sock>>}
      /\ DOMAIN sock_stream' = DOMAIN sock_stream \cup {sock}
      /\ \A s \in DOMAIN sock_stream \ {sock} : sock_stream'[s] = sock_stream[s]
      /\ sock_stream'[sock].cpus = StreamCpus(sock) \cup {cpu}
      /\ copy.key = <<cpu, sock>>
  BY Zenon, <1>1 DEF EntryMerged
<1>4. /\ copy.last_touched_us <= new
      /\ Before(sock).last_touched_us <= new
      /\ new \in Nat
  <2>1. /\ sock_stream'[sock].stats = add_from(Before(sock), CopiedStats(copy))
        /\ Before(sock) \in SockStats /\ CopiedStats(copy) \in SockStats
        /\ CopiedStats(copy).last_touched_us = copy.last_touched_us
    BY Zenon, <1>1 DEF EntryMerged
  <2>2. add_from(Before(sock), CopiedStats(copy)) \in SockStats
    BY Zenon, <2>1, AddFromType
  <2> QED BY Zenon, <2>1, <2>2, AddFromRest DEF SockStats
<1>5. ASSUME NEW k \in DOMAIN NFM_SK_STATS
      PROVE  \/ touched(k) >= cycle_us
             \/ k \in todo'
             \/ Visited(k)' /\ touched(k) <= sock_stream'[k[2]].stats.last_touched_us
  <2>1. k = <<k[1], k[2]>>
    BY Zenon, Places
  <2>2. CASE k = <<cpu, sock>>
    <3>1. Visited(k)'
      BY Zenon, <1>3, <2>2 DEF Visited
    <3>2. touched(k) = copy.last_touched_us \/ touched(k) >= cycle_us
      BY Zenon, <1>3, <2>2 DEF TouchInv
    <3>3. k[2] = sock
      BY Zenon, <2>2
    <3> QED BY Zenon, <1>4, <3>1, <3>2, <3>3
  <2>3. CASE k # <<cpu, sock>> /\ k \in todo
    BY Zenon, <1>3, <2>3
  <2>4. CASE Visited(k) /\ touched(k) <= read(k[2])
    <3>1. k[2] \in DOMAIN sock_stream /\ k[1] \in sock_stream[k[2]].cpus
      BY Zenon, <2>4 DEF Visited
    <3>2. CASE k[2] # sock
      BY Zenon, <1>3, <2>4, <3>1, <3>2 DEF Visited
    <3>3. CASE k[2] = sock
      <4>1. Visited(k)'
        BY Zenon, <1>3, <3>1, <3>3 DEF Visited, StreamCpus
      <4>2. touched(k) <= Before(sock).last_touched_us /\ Before(sock).last_touched_us \in Nat
        BY Zenon, <2>4, <3>1, <3>3, Times DEF Before
      <4>3. touched(k) \in Nat
        BY Zenon, Times
      <4>4. touched(k) <= new
        BY <1>4, <4>2, <4>3
      <4> QED BY Zenon, <3>3, <4>1, <4>4
    <3> QED BY Zenon, <3>2, <3>3
  <2> QED BY Zenon, <1>2, <2>2, <2>3, <2>4 DEF TouchInv
<1> QED BY Zenon, <1>2, <1>5 DEF TouchInv

=============================================================================
