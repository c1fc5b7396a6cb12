----------------------------- MODULE SockCache -----------------------------
(***************************************************************************)
(* The agent's cache of sockets (nfm-controller/src/events/sock_cache.rs): *)
(* the operations as functions from one value of the cache to the next.    *)
(* A cache is a function from the cached cookies to wrappers.  An          *)
(* Option<u8> is the set of at most one number that it holds.              *)
(***************************************************************************)
EXTENDS Network, FiniteSets

CONSTANT MaxSockEntries   \* max_sock_entries

\* Cookies and CPUs are left open: see TypeOK of EventProvider.
SockWrapper(C) ==
  [context : Flows \cup {NoContext}, context_external : Flows \cup {NoContext},
   stats : SockStats, cpus : SUBSET C, is_stale : BOOLEAN,
   is_complete : BOOLEAN, cycles_not_fully_initialized : SUBSET (0..255)]

\* SockWrapper::new
new_wrapper(context, stats, cpus) ==
  [context |-> context, context_external |-> NoContext,
   stats |-> stats, cpus |-> cpus, is_stale |-> FALSE,
   is_complete |-> FALSE, cycles_not_fully_initialized |-> {0}]

\* u8::saturating_add(1) under the Option.
add_cycle(cycles) == {IF n < 255 THEN n + 1 ELSE n : n \in cycles}

update_context(wrapper, new_context, now) ==
  [wrapper EXCEPT
     !.cycles_not_fully_initialized =
        IF ~is_valid(wrapper.context) /\ is_valid(new_context) THEN {}
        ELSE wrapper.cycles_not_fully_initialized,
     !.context = new_context,
     !.context_external = NoContext,
     !.stats = [wrapper.stats EXCEPT !.last_touched_us = now],
     !.is_stale = FALSE,
     !.is_complete = FALSE]

\* Mutant of update_status: takes a socket for stale too early.
update_status_StaleEarly(wrapper, staleness_timestamp) ==
  LET cycles == wrapper.cycles_not_fully_initialized
  IN  [wrapper EXCEPT
         !.is_stale = wrapper.stats.last_touched_us <= staleness_timestamp + 1,
         !.is_complete = is_valid(wrapper.context) /\ is_closed(wrapper.stats),
         !.cycles_not_fully_initialized =
            IF is_valid(wrapper.context) THEN {}
            ELSE IF cycles = {} THEN {0} ELSE add_cycle(cycles)]

\* Mutant of update_status: never counts the cycles a socket has no context.
update_status_RestartsCycles(wrapper, staleness_timestamp) ==
  [wrapper EXCEPT
     !.is_stale = wrapper.stats.last_touched_us <= staleness_timestamp,
     !.is_complete = is_valid(wrapper.context) /\ is_closed(wrapper.stats),
     !.cycles_not_fully_initialized = IF is_valid(wrapper.context) THEN {} ELSE {0}]

update_status(wrapper, staleness_timestamp) ==
  LET cycles == wrapper.cycles_not_fully_initialized
  IN  [wrapper EXCEPT
         !.is_stale = wrapper.stats.last_touched_us <= staleness_timestamp,
         !.is_complete = is_valid(wrapper.context) /\ is_closed(wrapper.stats),
         !.cycles_not_fully_initialized =
            IF is_valid(wrapper.context) THEN {}
            ELSE IF cycles = {} THEN {0} ELSE add_cycle(cycles)]

\* Mutant of should_evict: keeps closed sockets.
should_evict_NotComplete(wrapper) ==
  \/ wrapper.is_stale
  \/ \E cycles \in wrapper.cycles_not_fully_initialized : cycles > 1

should_evict(wrapper) ==
  \/ wrapper.is_complete
  \/ wrapper.is_stale
  \/ \E cycles \in wrapper.cycles_not_fully_initialized : cycles > 1

\* The only case in which add_context fails: a new socket and a full cache.
add_context_fails(cache, sock) ==
  sock \notin DOMAIN cache /\ Cardinality(DOMAIN cache) >= MaxSockEntries

add_context(cache, sock, context, now) ==
  IF add_context_fails(cache, sock) THEN cache
  ELSE [s \in DOMAIN cache \cup {sock} |->
          IF s # sock THEN cache[s]
          ELSE IF sock \in DOMAIN cache
               THEN update_context(cache[sock], context, now)
               ELSE new_wrapper(context,
                      [DefaultStats EXCEPT !.last_touched_us = now], {})]

\* The wrapper of a socket that has no statistics in this round.
not_in_round(wrapper, staleness_timestamp) ==
  [wrapper EXCEPT
     !.is_stale = wrapper.stats.last_touched_us <= staleness_timestamp,
     !.cycles_not_fully_initialized = add_cycle(@)]

\* The cache after update_stats_and_get_deltas.  A socket that is not cached is
\* inserted without a context even when the cache is full.
update_stats(cache, incoming, staleness_timestamp) ==
  [s \in DOMAIN cache \cup DOMAIN incoming |->
     IF s \notin DOMAIN incoming
     THEN not_in_round(cache[s], staleness_timestamp)
     ELSE update_status(
            IF s \in DOMAIN cache
            THEN [cache[s] EXCEPT !.stats = incoming[s].stats,
                                  !.cpus = incoming[s].cpus]
            ELSE new_wrapper(NoContext, incoming[s].stats, incoming[s].cpus),
            staleness_timestamp)]

\* Mutant of get_deltas: passes the totals on.
get_deltas_Totals(cache, incoming) == [s \in DOMAIN incoming |-> incoming[s].stats]

\* What update_stats_and_get_deltas leaves on the incoming map.
get_deltas(cache, incoming) ==
  [s \in DOMAIN incoming |->
     IF s \in DOMAIN cache
     THEN subtract(incoming[s].stats, cache[s].stats)
     ELSE incoming[s].stats]

\* Mutant of EvictedSocks: leaves the stale sockets.
EvictedSocks_OnlyComplete(cache) == {s \in DOMAIN cache : cache[s].is_complete}

\* The sockets that perform_eviction takes out of the cache.
EvictedSocks(cache) == {s \in DOMAIN cache : should_evict(cache[s])}
=============================================================================
