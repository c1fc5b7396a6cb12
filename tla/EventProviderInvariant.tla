----------------------- MODULE EventProviderInvariant -----------------------
(***************************************************************************)
(* The inductive invariant of EventProvider: why its counters do not go    *)
(* backwards, why nothing is credited twice, why a socket completes once,  *)
(* is then paid in full and is not given up before, and what the flows     *)
(* hold.  EventProviderProofs proves it; TLC checks it on small instances. *)
(***************************************************************************)
EXTENDS EventProvider

\* Where the agent is in its cycle tells which of its work lists may be in use.
PhaseInv ==
  /\ pc # "stats" => copying = {} /\ sock_stream = EmptyMap
  /\ pc # "evict" => to_evict = {}
  /\ pc \notin {"props", "free"} => new_cpu_sock_keys = {}
  /\ pc = "stats" => todo \subseteq DOMAIN NFM_SK_STATS

\* Whatever names an entry of NFM_SK_STATS names one that is there, and an entry
\* on its way out belongs to a socket that is not cached.
EntryInv ==
  /\ \A copy \in copying : copy.key \in DOMAIN NFM_SK_STATS
  /\ \A s \in DOMAIN sock_stream :
       \A c \in sock_stream[s].cpus : <<c, s>> \in DOMAIN NFM_SK_STATS
  /\ \A s \in DOMAIN sock_cache :
       \A c \in sock_cache[s].cpus : <<c, s>> \in DOMAIN NFM_SK_STATS
  /\ \A key \in to_evict :
       key \in DOMAIN NFM_SK_STATS /\ key[2] \notin DOMAIN sock_cache

\* Some CPU in cpus has an entry of s with at least this many bytes.
Covered(bytes, cpus, s) ==
  \/ bytes = 0
  \/ \E c \in cpus : /\ <<c, s>> \in DOMAIN NFM_SK_STATS
                     /\ bytes <= NFM_SK_STATS[<<c, s>>].bytes_received

\* Each copy of the kernel's byte counter is at most the one it was taken from.
BytesInv ==
  /\ \A key \in DOMAIN NFM_SK_STATS :
       NFM_SK_STATS[key].bytes_received <= kernel_bytes[key[2]]
  /\ \A copy \in copying :
       copy.bytes_received <= NFM_SK_STATS[copy.key].bytes_received
  /\ \A s \in DOMAIN sock_stream :
       Covered(sock_stream[s].stats.bytes_received, sock_stream[s].cpus, s)
  /\ \A s \in DOMAIN sock_cache :
       Covered(sock_cache[s].stats.bytes_received, sock_cache[s].cpus, s)

\* The entry with at least the cached bytes of s is still to be visited, and if
\* it is being copied the copy has them too.
Ahead(s) ==
  \E c \in Cpus :
    /\ <<c, s>> \in todo
    /\ sock_cache[s].stats.bytes_received
         <= NFM_SK_STATS[<<c, s>>].bytes_received
    /\ \A copy \in copying :
         copy.key = <<c, s>> =>
           sock_cache[s].stats.bytes_received <= copy.bytes_received

\* During the iteration over NFM_SK_STATS, the bytes the cache has of a socket
\* are in the entries to come or in the stream already.
IterationInv ==
  pc = "stats" =>
    \A s \in DOMAIN sock_cache :
      \/ sock_cache[s].stats.bytes_received = 0
      \/ Ahead(s)
      \/ /\ s \in DOMAIN sock_stream
         /\ sock_cache[s].stats.bytes_received
              <= sock_stream[s].stats.bytes_received

\* The agent has a context for s.
HasContext(s) == s \in DOMAIN sock_cache /\ is_valid(sock_cache[s].context)

\* The flows were credited with nothing of s, and cannot be yet.
Uncredited(s) ==
  /\ credited[s].bytes_received = 0
  /\ credited[s].bpf_events = 0
  /\ credited[s].sockets_completed = 0
  /\ ~HasContext(s)

\* A socket has at most one context in NFM_SK_PROPS, and until the agent reads
\* it nothing is credited.
ContextInv ==
  /\ \A s \in Socks : tcp_state[s] = "NEW" => Uncredited(s)
  /\ \A key \in DOMAIN NFM_SK_PROPS : tcp_state[key[2]] # "NEW"
  /\ \A key \in DOMAIN NFM_SK_PROPS \ new_cpu_sock_keys : Uncredited(key[2])
  /\ \A j, k \in DOMAIN NFM_SK_PROPS : j[2] = k[2] => j = k
  /\ \A key \in new_cpu_sock_keys :
       /\ key \in DOMAIN NFM_SK_PROPS
       /\ key[2] \in DOMAIN sock_cache
       /\ sock_cache[key[2]].context = NFM_SK_PROPS[key]
  /\ \A s \in DOMAIN sock_cache :
       is_valid(sock_cache[s].context_external) => is_valid(sock_cache[s].context)

\* What was credited is in the cache as long as more can be credited, and a
\* socket that completed cannot be credited again.
CreditInv ==
  /\ \A s \in Socks : /\ credited[s].bytes_received <= kernel_bytes[s]
                      /\ credited[s].sockets_completed <= 1
  /\ \A s \in Socks :
       HasContext(s) =>
         /\ credited[s].bytes_received <= sock_cache[s].stats.bytes_received
         /\ credited[s].sockets_completed = 0

\* The part of the invariant that the rest is built on: the entries the agent
\* refers to exist, the copies of byte counters lag behind their originals, and
\* the credited bytes lag behind the cache.
CoreInvariant ==
  /\ TypeOK
  /\ PhaseInv
  /\ EntryInv
  /\ BytesInv
  /\ IterationInv
  /\ ContextInv
  /\ CreditInv

-----------------------------------------------------------------------------
\* What the entries of s count on each CPU, and on some CPUs together.
EventsOf(s) ==
  [c \in Cpus |-> IF <<c, s>> \in DOMAIN NFM_SK_STATS
                  THEN NFM_SK_STATS[<<c, s>>].bpf_events ELSE 0]
EventsOn(cpus, s) == SumFunctionOnSet(EventsOf(s), cpus)

\* The CPUs whose entry of s was visited by the iteration, and what they counted.
StreamCpus(s) == IF s \in DOMAIN sock_stream THEN sock_stream[s].cpus ELSE {}
StreamEvents(s) ==
  IF s \in DOMAIN sock_stream THEN sock_stream[s].stats.bpf_events ELSE 0

\* Each sum of callbacks is at most what the entries it was taken from count now,
\* and what was credited is in the cache as long as more can be credited.
EventsInv ==
  /\ \A s \in Socks : /\ EventsOn(Cpus, s) <= counted_events[s]
                      /\ credited[s].bpf_events <= counted_events[s]
  /\ \A s \in Socks : StreamEvents(s) <= EventsOn(StreamCpus(s), s)
  /\ \A s \in DOMAIN sock_cache :
       sock_cache[s].stats.bpf_events <= EventsOn(sock_cache[s].cpus, s)
  /\ \A s \in Socks :
       HasContext(s) => credited[s].bpf_events <= sock_cache[s].stats.bpf_events

\* During the iteration, the callbacks the cache has of a socket are in the stream
\* already or in the entries of its CPUs that are still to come.
EventIterationInv ==
  /\ \A copy \in copying : copy.key[1] \notin StreamCpus(copy.key[2])
  /\ pc = "stats" =>
       \A s \in DOMAIN sock_cache :
         /\ \A c \in sock_cache[s].cpus : <<c, s>> \in todo \/ c \in StreamCpus(s)
         /\ sock_cache[s].stats.bpf_events
              <= StreamEvents(s) + EventsOn(sock_cache[s].cpus \ StreamCpus(s), s)

\* A CLOSED flag in NFM_SK_STATS comes with the final value of the kernel's byte
\* counter, and in the stream too unless the entry was torn.
ClosedEntries ==
  \A key \in DOMAIN NFM_SK_STATS :
    is_closed(NFM_SK_STATS[key]) =>
      /\ tcp_state[key[2]] = "CLOSE"
      /\ NFM_SK_STATS[key].bytes_received = kernel_bytes[key[2]]

ClosedStream ==
  \A s \in DOMAIN sock_stream :
    is_closed(sock_stream[s].stats) =>
      /\ tcp_state[s] = "CLOSE"
      /\ \/ s \in torn_close
         \/ sock_stream[s].stats.bytes_received = kernel_bytes[s]

\* What the cache has of a socket was credited, unless a delta was dropped, and
\* a socket that is complete does not stay in the cache.
CacheCredited ==
  \A s \in DOMAIN sock_cache :
    /\ ~sock_cache[s].is_complete
    /\ s \notin dropped =>
         sock_cache[s].stats.bytes_received
           = IF is_valid(sock_cache[s].context) THEN credited[s].bytes_received
                                                ELSE 0

\* Nothing more happens to a socket that is finished.
FinishedSettled ==
  \A s \in finished :
    /\ tcp_state[s] = "CLOSE"
    /\ ~HasContext(s)
    /\ \A key \in DOMAIN NFM_SK_PROPS : key[2] # s
    /\ s \notin dropped \cup torn_close =>
         credited[s].bytes_received = kernel_bytes[s]

ClosedInv == ClosedEntries /\ ClosedStream /\ CacheCredited /\ FinishedSettled

\* The stream has the latest callback of a socket on every CPU, but for entries
\* that are still to come or that were touched after the cycle began.
TouchInv ==
  /\ StartTime <= now_us
  /\ cycle_us <= now_us
  /\ \A key \in DOMAIN NFM_SK_STATS : StartTime <= NFM_SK_STATS[key].last_touched_us
  /\ \A copy \in copying :
       \/ NFM_SK_STATS[copy.key].last_touched_us = copy.last_touched_us
       \/ NFM_SK_STATS[copy.key].last_touched_us >= cycle_us
  /\ pc = "stats" =>
       \A key \in DOMAIN NFM_SK_STATS :
         \/ NFM_SK_STATS[key].last_touched_us >= cycle_us
         \/ key \in todo
         \/ /\ Visited(key)
            /\ NFM_SK_STATS[key].last_touched_us
                 <= sock_stream[key[2]].stats.last_touched_us

\* The handlers' entries, the copies the agent makes of them, its cache and the
\* flows stay consistent in every interleaving of handlers and agent: entries
\* the agent refers to exist, copies lag behind their originals, and credits
\* lag behind the cache.
InductiveInvariant ==
  /\ CoreInvariant
  /\ EventsInv
  /\ EventIterationInv
  /\ ClosedInv
  /\ TouchInv
  /\ LevelsCountSocketsOnce
  /\ FlowsHoldTheWindow
=============================================================================
