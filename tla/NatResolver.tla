---------------------------- MODULE NatResolver ----------------------------
(***************************************************************************)
(* NatResolverImpl (nfm-controller/src/events/nat_resolver.rs) on top of   *)
(* the conntrack listener: a ring of maps, one per aggregation period, in  *)
(* which the cached sockets look for their connection as it is beyond NAT. *)
(* The main loop calls it for two events: resolve_nat_event drains the     *)
(* listener; aggregate_event drains it, stores and evicts.                 *)
(***************************************************************************)
EXTENDS ConntrackListener, Integers, Functions

CONSTANTS Ips, Ipv6s, \* addresses, the IPv6 ones among them
          Socks,      \* sockets that the event provider may cache
          Context,    \* their SockContext
          Connection, \* the 5-tuple that they send with
          None        \* no context_external

RING_BUF_ENTRIES == 3

Slots == 0..(RING_BUF_ENTRIES - 1)

VARIABLES
  conntrack_ringbuf,  \* per slot, connections and what they are beyond NAT
  ringbuf_index,
  aggregating,        \* the main loop is in aggregate_event
  context_external,   \* of each socket in the cache
  since               \* history: rounds since a connection was last learned

natVars == <<netlink, overrun, draining, new_entries, read,
             conntrack_ringbuf, ringbuf_index, aggregating, context_external, since>>

-----------------------------------------------------------------------------
AF_INET == 4
AF_INET6 == 6

\* The IPv4-mapped form in which an IPv6 socket reports an IPv4 address.
Mapped(ip) == <<"::ffff", ip>>

MappedIps == {Mapped(ip) : ip \in Ips}

\* Mutant of ipv6_to_ipaddr: mapped addresses are taken as they are.
ipv6_to_ipaddr_AsIs(addr) == addr

\* Netlink reports the address itself.
ipv6_to_ipaddr(addr) == IF addr \in MappedIps THEN addr[2] ELSE addr

sock_context_to_egress_cxn_info(ctx) ==
  LET ip(addr) == IF ctx.address_family = AF_INET6 THEN ipv6_to_ipaddr(addr) ELSE addr
  IN  [src_ip |-> ip(ctx.local_ip), dst_ip |-> ip(ctx.remote_ip),
       src_port |-> ctx.local_port, dst_port |-> ctx.remote_port, protocol |-> TCP]

ingress_cxn_info_to_sock_context(cxn, is_client) ==
  [local_ip |-> cxn.dst_ip, remote_ip |-> cxn.src_ip,
   local_port |-> cxn.dst_port, remote_port |-> cxn.src_port,
   address_family |-> IF cxn.src_ip \in Ipv6s THEN AF_INET6 ELSE AF_INET,
   is_client |-> is_client]

\* An address as the socket of a family reports it: as it is, or mapped.
ReportedAs(family, addr, ip) ==
  \/ family = AF_INET /\ addr = ip
  \/ family = AF_INET6 /\ ip \in Ips /\ addr = Mapped(ip)
  \/ family = AF_INET6 /\ ip \in Ipv6s /\ addr = ip

\* The context of a socket is of the connection that it sends with.
ASSUME ContextAssumption ==
  /\ Ipv6s \cap MappedIps = {}
  /\ \A s \in Socks :
       /\ Connection[s] = [src_ip |-> Connection[s].src_ip, dst_ip |-> Connection[s].dst_ip,
                           src_port |-> Context[s].local_port, dst_port |-> Context[s].remote_port,
                           protocol |-> TCP]
       /\ ReportedAs(Context[s].address_family, Context[s].local_ip, Connection[s].src_ip)
       /\ ReportedAs(Context[s].address_family, Context[s].remote_ip, Connection[s].dst_ip)

\* None is no context.
ASSUME NoneAssumption ==
  \A m \in Messages \ {Unparsable}, s \in Socks :
    \A cxn \in {m.original, normalized(m).reply} :
      None # ingress_cxn_info_to_sock_context(cxn, Context[s].is_client)

\* Where a connection is found: the first slot that has it, whatever its age.
SlotsWith(cxn) == {i \in Slots : cxn \in DOMAIN conntrack_ringbuf[i]}

FirstSlot(slots) == CHOOSE i \in slots : \A j \in slots : i <= j

\* Mutant of get_beyond_nat_entry: only the slot of the current round is searched.
get_beyond_nat_entry_Current(ctx) ==
  LET cxn == sock_context_to_egress_cxn_info(ctx)
  IN  IF ctx.address_family \notin {AF_INET, AF_INET6} \/ ringbuf_index \notin SlotsWith(cxn) THEN None
      ELSE ingress_cxn_info_to_sock_context(conntrack_ringbuf[ringbuf_index][cxn], ctx.is_client)

get_beyond_nat_entry(ctx) ==
  LET cxn == sock_context_to_egress_cxn_info(ctx)
  IN  IF ctx.address_family \notin {AF_INET, AF_INET6} \/ SlotsWith(cxn) = {} THEN None
      ELSE ingress_cxn_info_to_sock_context(conntrack_ringbuf[FirstSlot(SlotsWith(cxn))][cxn],
                                            ctx.is_client)

EmptyMap == [c \in {} |-> c]

\* f, and g where f is not defined.
Over(f, g) == [c \in DOMAIN f \cup DOMAIN g |-> IF c \in DOMAIN f THEN f[c] ELSE g[c]]

\* The map that the entries make, both directions of each inserted in turn: the
\* last entry that has a connection decides, its reply after its original.
Ends(e) == {e.original, e.reply}

LastWith(entries, c) ==
  CHOOSE i \in DOMAIN entries :
    c \in Ends(entries[i]) /\ \A j \in DOMAIN entries : c \in Ends(entries[j]) => j <= i

inserted(entries) ==
  [c \in UNION {Ends(entries[i]) : i \in DOMAIN entries} |->
     LET e == entries[LastWith(entries, c)] IN IF c = e.reply THEN e.original ELSE e.reply]

NatInit ==
  /\ ListenerInit
  /\ conntrack_ringbuf = [i \in Slots |-> EmptyMap]
  /\ ringbuf_index = 0
  /\ aggregating = FALSE
  /\ context_external = EmptyMap
  /\ since = EmptyMap

\* NatResolverImpl::perform_aggregation_cycle, once get_new_entries is done.
perform_aggregation_cycle ==
  /\ RecvWouldBlock
  /\ LET new == inserted(new_entries)
     IN  /\ conntrack_ringbuf' = [conntrack_ringbuf EXCEPT ![ringbuf_index] = Over(new, @)]
         /\ since' = Over([c \in DOMAIN new |-> 0], since)
  /\ UNCHANGED <<ringbuf_index, aggregating, context_external>>

\* resolve_nat_event, or the start of aggregate_event.
Start ==
  /\ ~aggregating /\ StartDrain
  /\ aggregating' \in BOOLEAN
  /\ UNCHANGED <<conntrack_ringbuf, ringbuf_index, context_external, since>>

\* What the listener does before the drain is over; when it fails the ring
\* stays as it is.
Drain ==
  /\ RecvMessage \/ RecvFails
  /\ UNCHANGED <<conntrack_ringbuf, ringbuf_index, aggregating, context_external, since>>

perform_eviction ==
  /\ ringbuf_index' = (ringbuf_index + 1) % RING_BUF_ENTRIES
  /\ conntrack_ringbuf' = [conntrack_ringbuf EXCEPT ![ringbuf_index'] = EmptyMap]

\* The sockets that are in the cache once the event provider has read its
\* new contexts.
NewSocks == {[s \in cached |-> None] : cached \in SUBSET (Socks \ DOMAIN context_external)}

store_beyond_nat_entries(cache) ==
  [s \in DOMAIN cache |->
     IF cache[s] = None THEN get_beyond_nat_entry(Context[s]) ELSE cache[s]]

\* The rest of aggregate_event: the event provider's cycle, with its evictions
\* at the end, and the resolver's eviction.
Aggregate ==
  /\ aggregating /\ ~draining
  /\ aggregating' = FALSE
  /\ \E new \in NewSocks :
       LET stored == store_beyond_nat_entries(Over(context_external, new))
       IN  \E evicted \in SUBSET DOMAIN stored :
             context_external' = Restrict(stored, DOMAIN stored \ evicted)
  /\ perform_eviction
  /\ since' = [c \in {d \in DOMAIN since : since[d] + 1 < RING_BUF_ENTRIES} |-> since[c] + 1]
  /\ UNCHANGED listenerVars

KernelStep ==
  /\ \E m \in Messages : Len(read) + Len(netlink) < MaxDrain /\ KernelSends(m)
  /\ UNCHANGED <<conntrack_ringbuf, ringbuf_index, aggregating, context_external, since>>

NatNext == KernelStep \/ Start \/ Drain \/ perform_aggregation_cycle \/ Aggregate

NatSpec == NatInit /\ [][NatNext]_natVars

-----------------------------------------------------------------------------
\* The ring keeps its promise whatever slot it is at: a connection reported
\* by a drain that succeeded is known for that aggregation period and the two
\* after it and not longer, "beyond a single aggregation cycle" so that it
\* does not matter whether conntrack or eBPF reports a socket first.
KnownForThreeRounds ==
  \A s \in Socks :
    (get_beyond_nat_entry(Context[s]) # None) <=> (Connection[s] \in DOMAIN since)

\* What a socket is said to be beyond NAT is what conntrack said of its own
\* connection: its local side is the one that conntrack pairs with it.
OfOwnConnection(s, ext) ==
  \E m \in Messages :
    /\ accepted(m)
    /\ Connection[s] \in {m.original, normalized(m).reply}
    /\ LET other == IF Connection[s] = m.original THEN normalized(m).reply ELSE m.original
       IN  /\ ext.local_ip = other.dst_ip /\ ext.local_port = other.dst_port
           /\ ext.remote_ip = other.src_ip /\ ext.remote_port = other.src_port
           /\ ext.is_client = Context[s].is_client

ExternalIsOfOwnConnection ==
  \A s \in DOMAIN context_external :
    context_external[s] # None => OfOwnConnection(s, context_external[s])

\* The invariant behind both.  Conntrack said that c is d beyond NAT.
Translates(c, d) ==
  \E m \in Messages :
    accepted(m) /\ \/ c = m.original /\ d = normalized(m).reply
                   \/ c = normalized(m).reply /\ d = m.original

\* Rounds since a slot was the current one.
SlotAge(i) == (ringbuf_index - i) % RING_BUF_ENTRIES

IsMap(f) == f = [c \in DOMAIN f |-> f[c]]

\* The youngest slot that has a connection is the one of the round in which it
\* was last learned, and everything in the ring is what conntrack said.
NatInvariant ==
  /\ ListenerInvariant
  /\ ringbuf_index \in Slots /\ aggregating \in BOOLEAN
  /\ DOMAIN conntrack_ringbuf = Slots /\ IsMap(conntrack_ringbuf)
  /\ IsMap(context_external) /\ DOMAIN context_external \subseteq Socks
  /\ since \in [DOMAIN since -> Slots]
  /\ \A i \in Slots :
       /\ IsMap(conntrack_ringbuf[i])
       /\ \A c \in DOMAIN conntrack_ringbuf[i] :
            /\ Translates(c, conntrack_ringbuf[i][c])
            /\ c \in DOMAIN since /\ since[c] <= SlotAge(i)
  /\ \A c \in DOMAIN since : \E i \in Slots : SlotAge(i) = since[c] /\ c \in DOMAIN conntrack_ringbuf[i]

\* A socket finds its own connection: for three rounds, and no other.
FindsOwnConnection == NatInvariant /\ KnownForThreeRounds /\ ExternalIsOfOwnConnection

\* The mappings of the ring, with their ages.
Entries ==
  UNION {{[key |-> c, value |-> conntrack_ringbuf[i][c], age |-> SlotAge(i)] :
            c \in DOMAIN conntrack_ringbuf[i]} : i \in Slots}

\* How a socket sees what its connection is beyond NAT.
Beyond(s, cxn) == ingress_cxn_info_to_sock_context(cxn, Context[s].is_client)

\* The ring and the cache refine the table of aging mappings and the answers that
\* it gives: a socket finds its connection when a slot has it, in one of the rounds
\* that are still known, but not always in the newest (get_beyond_nat_entry).
Table == INSTANCE NatTable WITH
  Rounds <- RING_BUF_ENTRIES, KeyOf <- Connection, Seen <- Beyond,
  entries <- Entries, external <- context_external

ImplementsNatTable == Table!Spec
=============================================================================
