------------------------------ MODULE NatProofs -----------------------------
(***************************************************************************)
(* Proofs about the conntrack listener and the ring of translations        *)
(* (NatResolver), and that the ring implements NatTable.                   *)
(***************************************************************************)
EXTENDS NatResolver, WellFoundedInduction, TLAPS

-----------------------------------------------------------------------------
\* A set of numbers up to n has a largest one.
LEMMA LastPlace ==
  ASSUME NEW n \in Nat, NEW T \in SUBSET (1..n), T # {}
  PROVE  \E i \in T : \A j \in T : j <= i
<1> DEFINE Gaps == {n - i : i \in T}
           Less == OpToRel(<, Nat)
<1>1. IsWellFoundedOn(Less, Nat)
  BY Zenon, NatLessThanWellFounded
<1>2. Gaps \subseteq Nat /\ Gaps # {}
  <2>1. \A i \in T : n - i \in Nat
    OBVIOUS
  <2>2. PICK i \in T : TRUE
    BY Zenon
  <2> QED BY Zenon, <2>1, <2>2
<1>3. PICK g \in Gaps : \A h \in Gaps : <<h, g>> \notin Less
  <2> HIDE DEF Gaps, Less
  <2> QED BY Zenon, <1>1, <1>2, WFMin
<1>4. \A h \in Gaps : ~(h < g)
  <2> HIDE DEF Gaps
  <2> QED BY Zenon, <1>2, <1>3 DEF OpToRel
<1>5. PICK i \in T : g = n - i
  BY Zenon
<1>6. ASSUME NEW j \in T PROVE j <= i
  BY <1>4, <1>5
<1> QED BY Zenon, <1>6

-----------------------------------------------------------------------------
(***************************************************************************)
(* The conntrack listener.                                                 *)
(***************************************************************************)

\* filter_and_normalize_event accepts the messages that are wanted.
LEMMA AcceptedIsWanted ==
  ASSUME NEW m \in Messages
  PROVE  accepted(m) <=> Wanted(m)
<1>1. CASE m = Unparsable
  BY Zenon, <1>1 DEF accepted, Wanted
<1>2. CASE m # Unparsable
  <2>1. m.reply.protocol = m.original.protocol
    BY Zenon, <1>2, MessageAssumption
  <2> QED BY Zenon, <1>2, <2>1 DEF accepted, Wanted, is_inverse_of, snat_occurred, dnat_occurred
<1> QED BY Zenon, <1>1, <1>2

\* What normalized changes in a message: the destination of the reply, to the
\* source of the original when that is in the VPC.
LEMMA NormalizedFields ==
  ASSUME NEW m \in Messages, accepted(m)
  PROVE  /\ normalized(m).original = m.original
         /\ normalized(m).reply.src_ip = m.reply.src_ip
         /\ normalized(m).reply.src_port = m.reply.src_port
         /\ IF is_vpc_ip(m.original.src_ip) /\ m.original.src_ip # m.reply.dst_ip
            THEN /\ normalized(m).reply.dst_ip = m.original.src_ip
                 /\ normalized(m).reply.dst_port = m.original.src_port
            ELSE normalized(m) = m
  BY Zenon DEF normalized, snat_occurred

\* An entry still leads from one connection to another.
LEMMA NormalizedIsNat ==
  ASSUME NEW m \in Messages, accepted(m)
  PROVE  ~is_inverse_of(normalized(m).original, normalized(m).reply)
<1>1. normalized(m).original = m.original
  BY Zenon, NormalizedFields
<1>2. CASE is_vpc_ip(m.original.src_ip) /\ m.original.src_ip # m.reply.dst_ip
  <2>1. m.original.dst_ip # m.reply.src_ip
    BY Zenon, <1>2 DEF accepted, snat_occurred, dnat_occurred
  <2> QED BY Zenon, <1>1, <2>1, NormalizedFields DEF is_inverse_of
<1>3. CASE ~(is_vpc_ip(m.original.src_ip) /\ m.original.src_ip # m.reply.dst_ip)
  BY Zenon, <1>3, NormalizedFields DEF accepted
<1> QED BY Zenon, <1>2, <1>3

LEMMA ListenerInvariantInit == ListenerInit => ListenerInvariant
<1> SUFFICES ASSUME ListenerInit PROVE ListenerInvariant
  BY Zenon
<1>1. overrun \in BOOLEAN /\ draining \in BOOLEAN
  BY Zenon DEF ListenerInit
<1>2. netlink = <<>> /\ read = <<>> /\ new_entries = <<>>
  BY Zenon DEF ListenerInit
<1> QED BY <1>1, <1>2, BufferAssumption DEF ListenerInvariant

\* Each action of the listener keeps its invariant.
LEMMA KernelSendsKeeps ==
  ASSUME ListenerInvariant, NEW m \in Messages, KernelSends(m)
  PROVE  ListenerInvariant'
<1>1. read' = read /\ new_entries' = new_entries /\ draining' = draining
  BY Zenon DEF KernelSends
<1>2. overrun' \in BOOLEAN
  BY Zenon DEF KernelSends, ListenerInvariant
<1>3. netlink' \in Seq(Messages)
  <2>1. netlink \in Seq(Messages)
    BY Zenon DEF ListenerInvariant
  <2>2. Append(netlink, m) \in Seq(Messages)
    BY <2>1
  <2> QED BY <2>1, <2>2, Zenon DEF KernelSends
<1>4. Len(netlink') <= SOCKET_RX_BUF
  <2>1. netlink \in Seq(Messages) /\ Len(netlink) \in Nat /\ Len(netlink) <= SOCKET_RX_BUF
    BY DEF ListenerInvariant
  <2>2. Len(Append(netlink, m)) = Len(netlink) + 1
    BY <2>1
  <2> QED BY <2>1, <2>2, BufferAssumption DEF KernelSends
<1> QED BY Zenon, <1>1, <1>2, <1>3, <1>4 DEF ListenerInvariant

LEMMA RecvMessageKeeps ==
  ASSUME ListenerInvariant, RecvMessage
  PROVE  ListenerInvariant'
<1> DEFINE m == Head(netlink)
<1>1. netlink' \in Seq(Messages) /\ Len(netlink') <= SOCKET_RX_BUF /\ m \in Messages
  BY BufferAssumption DEF RecvMessage, ListenerInvariant
<1>2. overrun' \in BOOLEAN /\ draining' \in BOOLEAN
  BY Zenon DEF RecvMessage, ListenerInvariant
<1>3. accepted(m) <=> Wanted(m)
  BY Zenon, <1>1, AcceptedIsWanted
<1>4. CASE accepted(m)
  <2>1. read' = Append(read, m) /\ new_entries' = Append(new_entries, normalized(m))
    BY Zenon, <1>3, <1>4 DEF RecvMessage
  <2>2. m # Unparsable
    BY Zenon, <1>4 DEF accepted
  <2>3. read' \in Seq({n \in Messages : accepted(n)})
    BY <1>1, <1>4, <2>1 DEF ListenerInvariant
  <2>4. new_entries' \in Seq({normalized(n) : n \in Messages \ {Unparsable}})
    BY <1>1, <2>1, <2>2 DEF ListenerInvariant
  <2>5. Len(new_entries') = Len(read') /\ \A i \in 1..Len(read') : new_entries'[i] = normalized(read'[i])
    <3>1. Len(read) \in Nat /\ Len(read') = Len(read) + 1 /\ Len(new_entries') = Len(read) + 1
      BY <2>1 DEF ListenerInvariant
    <3>2. \A i \in 1..Len(read) : read'[i] = read[i] /\ new_entries'[i] = new_entries[i]
      BY <2>1 DEF ListenerInvariant
    <3>3. read'[Len(read) + 1] = m /\ new_entries'[Len(read) + 1] = normalized(m)
      BY <2>1 DEF ListenerInvariant
    <3>4. \A i \in 1..Len(read) : new_entries[i] = normalized(read[i])
      BY Zenon DEF ListenerInvariant
    <3> QED BY <3>1, <3>2, <3>3, <3>4
  <2> QED BY Zenon, <1>1, <1>2, <2>3, <2>4, <2>5 DEF ListenerInvariant
<1>5. CASE ~accepted(m)
  <2>1. read' = read /\ new_entries' = new_entries
    BY Zenon, <1>3, <1>5 DEF RecvMessage
  <2> QED BY Zenon, <1>1, <1>2, <2>1 DEF ListenerInvariant
<1> QED BY Zenon, <1>4, <1>5

LEMMA DrainEndsKeeps ==
  ASSUME ListenerInvariant, StartDrain \/ RecvFails \/ RecvWouldBlock
  PROVE  ListenerInvariant'
<1>1. overrun' \in BOOLEAN /\ draining' \in BOOLEAN
  BY Zenon DEF ListenerInvariant, StartDrain, RecvFails, RecvWouldBlock
<1>2. netlink' = netlink /\ read' = <<>> /\ new_entries' = <<>>
  BY Zenon DEF StartDrain, RecvFails, RecvWouldBlock
<1> QED BY <1>1, <1>2 DEF ListenerInvariant

LEMMA ListenerInvariantStep == ListenerInvariant /\ [ListenerNext]_listenerVars => ListenerInvariant'
<1> SUFFICES ASSUME ListenerInvariant, [ListenerNext]_listenerVars PROVE ListenerInvariant'
  BY Zenon
<1>1. ASSUME NEW m \in Messages, KernelSends(m) PROVE ListenerInvariant'
  BY Zenon, <1>1, KernelSendsKeeps
<1>2. CASE RecvMessage
  BY Zenon, <1>2, RecvMessageKeeps
<1>3. CASE StartDrain \/ RecvFails \/ RecvWouldBlock
  BY Zenon, <1>3, DrainEndsKeeps
<1>4. CASE UNCHANGED listenerVars
  BY Zenon, <1>4 DEF ListenerInvariant, listenerVars
<1> QED BY Zenon, <1>1, <1>2, <1>3, <1>4 DEF ListenerNext

\* What a drain returns, from the invariant.
LEMMA InvariantDrains == ListenerInvariant => DrainStep
<1> SUFFICES ASSUME ListenerInvariant PROVE DrainStep
  BY Zenon
<1>1. Len(new_entries) = Len(read)
  BY Zenon DEF ListenerInvariant
<1>2. ASSUME NEW i \in 1..Len(new_entries)
      PROVE  read[i] \in Messages /\ accepted(read[i]) /\ new_entries[i] = normalized(read[i])
  BY <1>1 DEF ListenerInvariant
<1>3. ASSUME NEW i \in 1..Len(new_entries)
      PROVE  /\ ~is_inverse_of(new_entries[i].original, new_entries[i].reply)
             /\ new_entries[i].original = read[i].original
             /\ new_entries[i].reply.src_ip = read[i].reply.src_ip
             /\ is_vpc_ip(read[i].original.src_ip) /\ read[i].original.src_ip # read[i].reply.dst_ip =>
                  /\ new_entries[i].reply.dst_ip = read[i].original.src_ip
                  /\ new_entries[i].reply.dst_port = read[i].original.src_port
  BY Zenon, <1>2, NormalizedFields, NormalizedIsNat
<1> QED BY Zenon, <1>1, <1>3 DEF DrainStep

\* get_new_entries: every call that succeeds returns what DrainStep says.
THEOREM DrainsAreNat == ListenerSpec => DrainReturnsNat
<1>1. ListenerSpec => []ListenerInvariant
  BY ListenerInvariantInit, ListenerInvariantStep, PTL DEF ListenerSpec
<1> QED BY <1>1, InvariantDrains, PTL DEF DrainReturnsNat

-----------------------------------------------------------------------------
(***************************************************************************)
(* The ring of translations.                                               *)
(***************************************************************************)

\* What an entry of a drain maps its ends to is what conntrack said.
LEMMA EntriesTranslate ==
  ASSUME ListenerInvariant, NEW c \in DOMAIN inserted(new_entries)
  PROVE  Translates(c, inserted(new_entries)[c])
<1> DEFINE T == {i \in 1..Len(new_entries) : c \in Ends(new_entries[i])}
           n == LastWith(new_entries, c)
<1>1. DOMAIN new_entries = 1..Len(new_entries) /\ Len(new_entries) \in Nat /\ Len(new_entries) = Len(read)
  BY DEF ListenerInvariant
<1>2. c \in UNION {Ends(new_entries[i]) : i \in DOMAIN new_entries}
  BY Zenon DEF inserted
<1>3. T # {}
  BY Zenon, <1>1, <1>2
<1>4. \E i \in T : \A j \in T : j <= i
  BY Zenon, <1>1, <1>3, LastPlace
<1>5. \E i \in DOMAIN new_entries :
        c \in Ends(new_entries[i]) /\ \A j \in DOMAIN new_entries : c \in Ends(new_entries[j]) => j <= i
  BY Zenon, <1>1, <1>4
<1>6. n \in DOMAIN new_entries /\ c \in Ends(new_entries[n])
  BY Zenon, <1>5 DEF LastWith
<1>7. /\ read[n] \in Messages /\ accepted(read[n])
      /\ new_entries[n].original = read[n].original
      /\ new_entries[n].reply = normalized(read[n]).reply
  <2>1. n \in 1..Len(read)
    BY Zenon, <1>1, <1>6
  <2>2. read[n] \in Messages /\ accepted(read[n]) /\ new_entries[n] = normalized(read[n])
    BY <2>1 DEF ListenerInvariant
  <2> QED BY Zenon, <2>2, NormalizedFields
<1>8. inserted(new_entries)[c] = IF c = new_entries[n].reply THEN new_entries[n].original ELSE new_entries[n].reply
  BY Zenon, <1>2 DEF inserted
<1>9. c = new_entries[n].original \/ c = new_entries[n].reply
  BY Zenon, <1>6 DEF Ends
<1> HIDE DEF n
<1> QED BY Zenon, <1>7, <1>8, <1>9 DEF Translates

\* Maps are maps.
LEMMA OverIsMap ==
  ASSUME NEW f, NEW g
  PROVE  /\ IsMap(Over(f, g)) /\ DOMAIN Over(f, g) = DOMAIN f \cup DOMAIN g
         /\ \A c \in DOMAIN f : Over(f, g)[c] = f[c]
         /\ \A c \in DOMAIN g \ DOMAIN f : Over(f, g)[c] = g[c]
  BY Zenon DEF IsMap, Over

\* The age of a slot, and what the eviction does to it.
LEMMA SlotAges ==
  ASSUME ringbuf_index \in Slots, NEW i \in Slots
  PROVE  SlotAge(i) \in Slots /\ (SlotAge(i) = 0 <=> i = ringbuf_index)
  BY DEF SlotAge, Slots, RING_BUF_ENTRIES

LEMMA SlotsAge ==
  ASSUME ringbuf_index \in Slots, ringbuf_index' = (ringbuf_index + 1) % RING_BUF_ENTRIES
  PROVE  /\ ringbuf_index' \in Slots
         /\ \A i \in Slots \ {ringbuf_index'} : SlotAge(i)' = SlotAge(i) + 1 /\ SlotAge(i) + 1 \in Slots
  BY DEF SlotAge, Slots, RING_BUF_ENTRIES

\* The first slot of some is one of them.
LEMMA FirstSlotIn ==
  ASSUME NEW S \in SUBSET Slots, S # {}
  PROVE  FirstSlot(S) \in S
<1>1. \A i \in S : i = 0 \/ i = 1 \/ i = 2
  BY DEF Slots, RING_BUF_ENTRIES
<1>2. CASE 0 \in S
  BY <1>1, <1>2 DEF FirstSlot
<1>3. CASE 0 \notin S /\ 1 \in S
  BY <1>1, <1>3 DEF FirstSlot
<1>4. CASE 0 \notin S /\ 1 \notin S
  BY <1>1, <1>4 DEF FirstSlot
<1> QED BY Zenon, <1>2, <1>3, <1>4

\* The connection of a socket is found from its context.
LEMMA ContextOfConnection ==
  ASSUME NEW s \in Socks
  PROVE  /\ sock_context_to_egress_cxn_info(Context[s]) = Connection[s]
         /\ Context[s].address_family \in {AF_INET, AF_INET6}
<1> DEFINE ctx == Context[s]
           cxn == Connection[s]
<1>1. ASSUME NEW addr, NEW ip, ReportedAs(ctx.address_family, addr, ip)
      PROVE  /\ ctx.address_family \in {AF_INET, AF_INET6}
             /\ (IF ctx.address_family = AF_INET6 THEN ipv6_to_ipaddr(addr) ELSE addr) = ip
  <2>1. AF_INET # AF_INET6
    BY DEF AF_INET, AF_INET6
  <2>2. CASE ctx.address_family = AF_INET /\ addr = ip
    BY Zenon, <2>1, <2>2
  <2>3. CASE ctx.address_family = AF_INET6 /\ ip \in Ips /\ addr = Mapped(ip)
    <3>1. addr \in MappedIps /\ addr[2] = ip
      BY Zenon, <2>3 DEF MappedIps, Mapped
    <3> QED BY Zenon, <2>3, <3>1 DEF ipv6_to_ipaddr
  <2>4. CASE ctx.address_family = AF_INET6 /\ ip \in Ipv6s /\ addr = ip
    <3>1. addr \notin MappedIps
      BY Zenon, <2>4, ContextAssumption
    <3> QED BY Zenon, <2>4, <3>1 DEF ipv6_to_ipaddr
  <2> QED BY Zenon, <1>1, <2>2, <2>3, <2>4 DEF ReportedAs
<1>2. /\ ReportedAs(ctx.address_family, ctx.local_ip, cxn.src_ip)
      /\ ReportedAs(ctx.address_family, ctx.remote_ip, cxn.dst_ip)
      /\ cxn = [src_ip |-> cxn.src_ip, dst_ip |-> cxn.dst_ip, src_port |-> ctx.local_port,
                dst_port |-> ctx.remote_port, protocol |-> TCP]
  BY Zenon, ContextAssumption
<1>3. /\ (IF ctx.address_family = AF_INET6 THEN ipv6_to_ipaddr(ctx.local_ip) ELSE ctx.local_ip) = cxn.src_ip
      /\ (IF ctx.address_family = AF_INET6 THEN ipv6_to_ipaddr(ctx.remote_ip) ELSE ctx.remote_ip) = cxn.dst_ip
      /\ ctx.address_family \in {AF_INET, AF_INET6}
  BY Zenon, <1>1, <1>2
<1>4. sock_context_to_egress_cxn_info(ctx)
        = [src_ip |-> cxn.src_ip, dst_ip |-> cxn.dst_ip, src_port |-> ctx.local_port,
           dst_port |-> ctx.remote_port, protocol |-> TCP]
  BY Zenon, <1>3 DEF sock_context_to_egress_cxn_info
<1> QED BY Zenon, <1>2, <1>3, <1>4

\* What a socket finds in the ring is of its own connection.
LEMMA LookupFinds ==
  ASSUME NatInvariant, NEW s \in Socks
  PROVE  /\ get_beyond_nat_entry(Context[s]) # None <=> Connection[s] \in DOMAIN since
         /\ get_beyond_nat_entry(Context[s]) # None =>
              OfOwnConnection(s, get_beyond_nat_entry(Context[s]))
<1> DEFINE c == Connection[s]
           i == FirstSlot(SlotsWith(c))
           d == conntrack_ringbuf[i][c]
           found == get_beyond_nat_entry(Context[s])
<1>1. c \in DOMAIN since <=> SlotsWith(c) # {}
  BY Zenon DEF NatInvariant, SlotsWith
<1>2. CASE SlotsWith(c) = {}
  <2>1. found = None
    BY Zenon, <1>2, ContextOfConnection DEF get_beyond_nat_entry
  <2> QED BY Zenon, <1>1, <1>2, <2>1
<1>3. CASE SlotsWith(c) # {}
  <2>1. i \in Slots /\ c \in DOMAIN conntrack_ringbuf[i]
    BY Zenon, <1>3, FirstSlotIn DEF SlotsWith
  <2>2. Translates(c, d)
    BY Zenon, <2>1 DEF NatInvariant
  <2>3. found = ingress_cxn_info_to_sock_context(d, Context[s].is_client)
    BY Zenon, <1>3, ContextOfConnection DEF get_beyond_nat_entry
  <2>4. PICK m \in Messages :
          accepted(m) /\ \/ c = m.original /\ d = normalized(m).reply
                         \/ c = normalized(m).reply /\ d = m.original
    BY Zenon, <2>2 DEF Translates
  <2> HIDE DEF found, d
  <2>5. found # None
    BY Zenon, <2>3, <2>4, NoneAssumption DEF accepted
  <2>6. OfOwnConnection(s, found)
    <3>1. d = IF c = m.original THEN normalized(m).reply ELSE m.original
      BY Zenon, <2>4
    <3>2. /\ found.local_ip = d.dst_ip /\ found.local_port = d.dst_port
          /\ found.remote_ip = d.src_ip /\ found.remote_port = d.src_port
          /\ found.is_client = Context[s].is_client
      BY Zenon, <2>3 DEF ingress_cxn_info_to_sock_context
    <3> QED BY Zenon, <2>4, <3>1, <3>2 DEF OfOwnConnection
  <2> QED BY Zenon, <1>1, <1>3, <2>5, <2>6 DEF found
<1> QED BY Zenon, <1>2, <1>3

LEMMA NatInvariantInit == NatInit => NatInvariant /\ ExternalIsOfOwnConnection
<1> SUFFICES ASSUME NatInit PROVE NatInvariant /\ ExternalIsOfOwnConnection
  BY Zenon
<1>1. ListenerInvariant
  BY Zenon, ListenerInvariantInit DEF NatInit
<1>2. DOMAIN EmptyMap = {} /\ IsMap(EmptyMap)
  BY Zenon DEF EmptyMap, IsMap
<1>3. /\ ringbuf_index \in Slots
      /\ aggregating \in BOOLEAN
  <2>1. ringbuf_index \in Slots
    BY DEF NatInit, Slots, RING_BUF_ENTRIES
  <2>2. aggregating \in BOOLEAN
    BY Zenon DEF NatInit
  <2> QED BY Zenon, <2>1, <2>2
<1>4. /\ DOMAIN conntrack_ringbuf = Slots /\ IsMap(conntrack_ringbuf)
      /\ \A i \in Slots : conntrack_ringbuf[i] = EmptyMap
  BY Zenon DEF NatInit, IsMap
<1>5. context_external = EmptyMap /\ since = EmptyMap
  BY Zenon DEF NatInit
<1>6. since \in [DOMAIN since -> Slots]
  BY Zenon, <1>5 DEF EmptyMap
<1> HIDE DEF EmptyMap
<1> QED BY Zenon, <1>1, <1>2, <1>3, <1>4, <1>5, <1>6 DEF NatInvariant, ExternalIsOfOwnConnection

\* A step that leaves the ring alone keeps the invariant if it keeps the
\* listener's.
LEMMA RingUnchanged ==
  ASSUME NatInvariant, ListenerInvariant', aggregating' \in BOOLEAN,
         UNCHANGED <<conntrack_ringbuf, ringbuf_index, context_external, since>>
  PROVE  NatInvariant' /\ (ExternalIsOfOwnConnection => ExternalIsOfOwnConnection')
<1>1. \A i : SlotAge(i)' = SlotAge(i)
  BY Zenon DEF SlotAge
<1>2. NatInvariant'
  BY <1>1 DEF NatInvariant, IsMap, Translates
<1> QED BY Zenon, <1>2 DEF ExternalIsOfOwnConnection, OfOwnConnection

\* perform_aggregation_cycle: what it learns goes to the current slot.
LEMMA LearnKeeps ==
  ASSUME NatInvariant, perform_aggregation_cycle
  PROVE  NatInvariant'
<1> DEFINE new == inserted(new_entries)
           zero == [c \in DOMAIN new |-> 0]
<1>1. ListenerInvariant'
  BY Zenon, DrainEndsKeeps DEF NatInvariant, perform_aggregation_cycle
<1>2. /\ conntrack_ringbuf' = [conntrack_ringbuf EXCEPT ![ringbuf_index] = Over(new, @)]
      /\ since' = Over(zero, since)
      /\ UNCHANGED <<ringbuf_index, aggregating, context_external>>
  BY Zenon DEF perform_aggregation_cycle
<1>3. \A c \in DOMAIN new : Translates(c, new[c])
  BY Zenon, EntriesTranslate DEF NatInvariant
<1>4. DOMAIN zero = DOMAIN new /\ \A c \in DOMAIN new : zero[c] = 0
  BY Zenon
<1> HIDE DEF new, zero
<1>5. /\ ringbuf_index \in Slots /\ DOMAIN conntrack_ringbuf = Slots /\ IsMap(conntrack_ringbuf)
      /\ since \in [DOMAIN since -> Slots]
  BY Zenon DEF NatInvariant
<1>6. /\ DOMAIN conntrack_ringbuf' = Slots /\ IsMap(conntrack_ringbuf')
      /\ conntrack_ringbuf'[ringbuf_index] = Over(new, conntrack_ringbuf[ringbuf_index])
      /\ \A i \in Slots \ {ringbuf_index} : conntrack_ringbuf'[i] = conntrack_ringbuf[i]
  BY Zenon, <1>2, <1>5 DEF IsMap
<1>7. /\ DOMAIN since' = DOMAIN new \cup DOMAIN since /\ IsMap(since')
      /\ \A c \in DOMAIN new : since'[c] = 0
      /\ \A c \in DOMAIN since \ DOMAIN new : since'[c] = since[c]
  <2>1. /\ DOMAIN Over(zero, since) = DOMAIN zero \cup DOMAIN since /\ IsMap(Over(zero, since))
        /\ \A c \in DOMAIN zero : Over(zero, since)[c] = zero[c]
        /\ \A c \in DOMAIN since \ DOMAIN zero : Over(zero, since)[c] = since[c]
    BY Zenon, OverIsMap
  <2> QED BY Zenon, <1>2, <1>4, <2>1
<1>8. 0 \in Slots /\ \A i \in Slots : SlotAge(i)' = SlotAge(i) /\ SlotAge(i) \in Slots
  BY Zenon, <1>2, <1>5, SlotAges DEF SlotAge, Slots, RING_BUF_ENTRIES
<1>9. since' \in [DOMAIN since' -> Slots]
  BY Zenon, <1>5, <1>7, <1>8 DEF IsMap
<1>10. ASSUME NEW i \in Slots
       PROVE  /\ IsMap(conntrack_ringbuf'[i])
              /\ \A c \in DOMAIN conntrack_ringbuf'[i] :
                   /\ Translates(c, conntrack_ringbuf'[i][c])
                   /\ c \in DOMAIN since' /\ since'[c] <= SlotAge(i)
  <2>1. /\ IsMap(conntrack_ringbuf[i])
        /\ \A c \in DOMAIN conntrack_ringbuf[i] :
             /\ Translates(c, conntrack_ringbuf[i][c])
             /\ c \in DOMAIN since /\ since[c] <= SlotAge(i)
    BY Zenon DEF NatInvariant
  <2>2. \A c \in DOMAIN conntrack_ringbuf[i] : since'[c] <= SlotAge(i)
    BY <1>7, <1>8, <2>1 DEF Slots, RING_BUF_ENTRIES
  <2>3. CASE i # ringbuf_index
    BY Zenon, <1>6, <1>7, <2>1, <2>2, <2>3
  <2>4. CASE i = ringbuf_index
    <3> DEFINE slot == conntrack_ringbuf'[i]
    <3>1. /\ IsMap(slot) /\ DOMAIN slot = DOMAIN new \cup DOMAIN conntrack_ringbuf[i]
          /\ \A c \in DOMAIN new : slot[c] = new[c]
          /\ \A c \in DOMAIN conntrack_ringbuf[i] \ DOMAIN new : slot[c] = conntrack_ringbuf[i][c]
      <4> DEFINE ring == conntrack_ringbuf[i]
      <4>1. /\ DOMAIN Over(new, ring) = DOMAIN new \cup DOMAIN ring /\ IsMap(Over(new, ring))
            /\ \A c \in DOMAIN new : Over(new, ring)[c] = new[c]
            /\ \A c \in DOMAIN ring \ DOMAIN new : Over(new, ring)[c] = ring[c]
        BY Zenon, OverIsMap
      <4> QED BY Zenon, <1>6, <2>4, <4>1
    <3>2. ASSUME NEW c \in DOMAIN new
          PROVE  Translates(c, slot[c]) /\ c \in DOMAIN since' /\ since'[c] <= SlotAge(i)
      BY <1>3, <1>7, <1>8, <3>1 DEF Slots, RING_BUF_ENTRIES
    <3>3. ASSUME NEW c \in DOMAIN conntrack_ringbuf[i] \ DOMAIN new
          PROVE  Translates(c, slot[c]) /\ c \in DOMAIN since' /\ since'[c] <= SlotAge(i)
      BY Zenon, <1>7, <2>1, <2>2, <3>1
    <3> QED BY Zenon, <3>1, <3>2, <3>3
  <2> QED BY Zenon, <2>3, <2>4
<1>11. ASSUME NEW c \in DOMAIN since'
       PROVE  \E i \in Slots : SlotAge(i) = since'[c] /\ c \in DOMAIN conntrack_ringbuf'[i]
  <2>1. DOMAIN conntrack_ringbuf'[ringbuf_index] = DOMAIN new \cup DOMAIN conntrack_ringbuf[ringbuf_index]
    <3> DEFINE ring == conntrack_ringbuf[ringbuf_index]
    <3>1. DOMAIN Over(new, ring) = DOMAIN new \cup DOMAIN ring
      BY Zenon, OverIsMap
    <3> QED BY Zenon, <1>6, <3>1
  <2>2. CASE c \in DOMAIN new
    BY Zenon, <1>5, <1>7, <2>1, <2>2, SlotAges
  <2>3. CASE c \notin DOMAIN new
    <3>1. PICK i \in Slots : SlotAge(i) = since[c] /\ c \in DOMAIN conntrack_ringbuf[i]
      BY Zenon, <1>7, <2>3 DEF NatInvariant
    <3>2. c \in DOMAIN conntrack_ringbuf'[i]
      BY Zenon, <1>6, <2>1, <3>1
    <3> QED BY Zenon, <1>7, <2>3, <3>1, <3>2
  <2> QED BY Zenon, <2>2, <2>3
<1>12. \A c, d : Translates(c, d)' <=> Translates(c, d)
  BY Zenon DEF Translates
<1>13. (/\ ringbuf_index \in Slots /\ aggregating \in BOOLEAN
        /\ DOMAIN conntrack_ringbuf = Slots /\ IsMap(conntrack_ringbuf)
        /\ IsMap(context_external) /\ DOMAIN context_external \subseteq Socks)'
  BY <1>2, <1>5, <1>6 DEF NatInvariant, IsMap
<1>14. (\A i \in Slots :
          /\ IsMap(conntrack_ringbuf[i])
          /\ \A c \in DOMAIN conntrack_ringbuf[i] :
               /\ Translates(c, conntrack_ringbuf[i][c])
               /\ c \in DOMAIN since /\ since[c] <= SlotAge(i))'
  BY Zenon, <1>8, <1>10, <1>12 DEF IsMap
<1>15. (\A c \in DOMAIN since : \E i \in Slots : SlotAge(i) = since[c] /\ c \in DOMAIN conntrack_ringbuf[i])'
  BY Zenon, <1>8, <1>11
<1> QED BY Zenon, <1>1, <1>9, <1>13, <1>14, <1>15 DEF NatInvariant

\* aggregate_event: the oldest slot is emptied and becomes the current one.
LEMMA AggregateKeeps ==
  ASSUME NatInvariant, Aggregate
  PROVE  NatInvariant'
<1> DEFINE i1 == ringbuf_index'
<1>1. ListenerInvariant'
  BY Zenon DEF NatInvariant, Aggregate, listenerVars, ListenerInvariant
<1>2. /\ ringbuf_index' = (ringbuf_index + 1) % RING_BUF_ENTRIES
      /\ conntrack_ringbuf' = [conntrack_ringbuf EXCEPT ![ringbuf_index'] = EmptyMap]
      /\ since' = [c \in {d \in DOMAIN since : since[d] + 1 < RING_BUF_ENTRIES} |-> since[c] + 1]
      /\ aggregating' \in BOOLEAN
  BY Zenon DEF Aggregate, perform_eviction
<1>3. /\ ringbuf_index \in Slots /\ DOMAIN conntrack_ringbuf = Slots /\ IsMap(conntrack_ringbuf)
      /\ since \in [DOMAIN since -> Slots]
  BY Zenon DEF NatInvariant
<1>4. /\ i1 \in Slots
      /\ \A i \in Slots \ {i1} : SlotAge(i)' = SlotAge(i) + 1 /\ SlotAge(i) + 1 \in Slots
  BY Zenon, <1>2, <1>3, SlotsAge
<1>5. \A i \in Slots : SlotAge(i) \in Slots
  BY Zenon, <1>3, SlotAges
<1>6. DOMAIN EmptyMap = {} /\ IsMap(EmptyMap)
  BY Zenon DEF EmptyMap, IsMap
<1> HIDE DEF EmptyMap
<1>7. /\ DOMAIN conntrack_ringbuf' = Slots /\ IsMap(conntrack_ringbuf')
      /\ conntrack_ringbuf'[i1] = EmptyMap
      /\ \A i \in Slots \ {i1} : conntrack_ringbuf'[i] = conntrack_ringbuf[i]
  BY Zenon, <1>2, <1>3, <1>4 DEF IsMap
<1>8. /\ DOMAIN since' = {d \in DOMAIN since : since[d] + 1 < RING_BUF_ENTRIES}
      /\ \A c \in DOMAIN since' : since'[c] = since[c] + 1 /\ since'[c] \in Slots
      /\ since' \in [DOMAIN since' -> Slots]
  BY <1>2, <1>3 DEF Slots, RING_BUF_ENTRIES
<1>9. ASSUME NEW i \in Slots
      PROVE  /\ IsMap(conntrack_ringbuf'[i])
             /\ \A c \in DOMAIN conntrack_ringbuf'[i] :
                  /\ Translates(c, conntrack_ringbuf'[i][c])
                  /\ c \in DOMAIN since' /\ since'[c] <= SlotAge(i)'
  <2>1. CASE i = i1
    BY Zenon, <1>6, <1>7, <2>1
  <2>2. CASE i # i1
    <3>1. /\ IsMap(conntrack_ringbuf[i]) /\ conntrack_ringbuf'[i] = conntrack_ringbuf[i]
          /\ \A c \in DOMAIN conntrack_ringbuf[i] :
               /\ Translates(c, conntrack_ringbuf[i][c])
               /\ c \in DOMAIN since /\ since[c] <= SlotAge(i)
      BY Zenon, <1>7, <2>2 DEF NatInvariant
    <3>2. ASSUME NEW c \in DOMAIN conntrack_ringbuf[i]
          PROVE  c \in DOMAIN since' /\ since'[c] <= SlotAge(i)'
      <4>1. since[c] \in Slots /\ since[c] <= SlotAge(i)
        BY Zenon, <1>3, <3>1
      <4>2. since[c] + 1 < RING_BUF_ENTRIES
        BY <1>4, <1>5, <2>2, <4>1 DEF Slots, RING_BUF_ENTRIES
      <4> QED BY <1>4, <1>5, <1>8, <2>2, <3>1, <4>1, <4>2 DEF Slots, RING_BUF_ENTRIES
    <3> QED BY Zenon, <3>1, <3>2
  <2> QED BY Zenon, <2>1, <2>2
<1>10. ASSUME NEW c \in DOMAIN since'
       PROVE  \E i \in Slots : SlotAge(i)' = since'[c] /\ c \in DOMAIN conntrack_ringbuf'[i]
  <2>1. c \in DOMAIN since /\ since[c] + 1 < RING_BUF_ENTRIES /\ since'[c] = since[c] + 1
    BY Zenon, <1>8
  <2>2. PICK i \in Slots : SlotAge(i) = since[c] /\ c \in DOMAIN conntrack_ringbuf[i]
    BY Zenon, <2>1 DEF NatInvariant
  <2>3. i # i1
    BY <1>2, <1>3, <2>1, <2>2 DEF SlotAge, Slots, RING_BUF_ENTRIES
  <2> QED BY Zenon, <1>4, <1>7, <2>1, <2>2, <2>3
<1>11. IsMap(context_external') /\ DOMAIN context_external' \subseteq Socks
  <2>1. PICK new \in NewSocks : \E evicted :
          LET stored == store_beyond_nat_entries(Over(context_external, new))
          IN  context_external' = Restrict(stored, DOMAIN stored \ evicted)
    BY Zenon DEF Aggregate
  <2>2. DOMAIN new \subseteq Socks
    BY Zenon DEF NewSocks
  <2>3. DOMAIN Over(context_external, new) \subseteq Socks
    <3>1. DOMAIN Over(context_external, new) = DOMAIN context_external \cup DOMAIN new
      BY Zenon, OverIsMap
    <3>2. DOMAIN context_external \subseteq Socks
      BY Zenon DEF NatInvariant
    <3> QED BY Zenon, <2>2, <3>1, <3>2
  <2> QED BY Zenon, <2>1, <2>3 DEF Restrict, store_beyond_nat_entries, IsMap
<1>12. \A c, d : Translates(c, d)' <=> Translates(c, d)
  BY Zenon DEF Translates
<1>13. (/\ ringbuf_index \in Slots /\ aggregating \in BOOLEAN
        /\ DOMAIN conntrack_ringbuf = Slots /\ IsMap(conntrack_ringbuf)
        /\ IsMap(context_external) /\ DOMAIN context_external \subseteq Socks)'
  BY Zenon, <1>2, <1>4, <1>7, <1>11 DEF IsMap
<1>14. (\A i \in Slots :
          /\ IsMap(conntrack_ringbuf[i])
          /\ \A c \in DOMAIN conntrack_ringbuf[i] :
               /\ Translates(c, conntrack_ringbuf[i][c])
               /\ c \in DOMAIN since /\ since[c] <= SlotAge(i))'
  BY Zenon, <1>9, <1>12 DEF IsMap
<1>15. (\A c \in DOMAIN since : \E i \in Slots : SlotAge(i) = since[c] /\ c \in DOMAIN conntrack_ringbuf[i])'
  BY Zenon, <1>10
<1> QED BY Zenon, <1>1, <1>8, <1>13, <1>14, <1>15 DEF NatInvariant

\* What aggregate_event stores in the cache is of the sockets' own connections.
LEMMA AggregateStoresOwn ==
  ASSUME NatInvariant, ExternalIsOfOwnConnection, Aggregate
  PROVE  ExternalIsOfOwnConnection'
<1>1. PICK new \in NewSocks : \E evicted :
        LET stored == store_beyond_nat_entries(Over(context_external, new))
        IN  context_external' = Restrict(stored, DOMAIN stored \ evicted)
  BY Zenon DEF Aggregate
<1> DEFINE cache == Over(context_external, new)
           stored == store_beyond_nat_entries(cache)
<1>2. /\ DOMAIN new \subseteq Socks /\ \A s \in DOMAIN new : new[s] = None
  BY Zenon DEF NewSocks
<1>3. /\ DOMAIN cache = DOMAIN context_external \cup DOMAIN new
      /\ \A s \in DOMAIN context_external : cache[s] = context_external[s]
      /\ \A s \in DOMAIN new \ DOMAIN context_external : cache[s] = new[s]
  BY Zenon, OverIsMap
<1> HIDE DEF cache
<1>4. ASSUME NEW s \in DOMAIN context_external', context_external'[s] # None
      PROVE  OfOwnConnection(s, context_external'[s])
  <2>1. /\ s \in DOMAIN cache
        /\ context_external'[s] = IF cache[s] = None THEN get_beyond_nat_entry(Context[s]) ELSE cache[s]
    BY Zenon, <1>1 DEF Restrict, store_beyond_nat_entries, cache
  <2>2. s \in Socks
    BY Zenon, <1>2, <1>3, <2>1 DEF NatInvariant
  <2>3. CASE cache[s] = None
    BY Zenon, <1>4, <2>1, <2>2, <2>3, LookupFinds
  <2>4. CASE cache[s] # None
    <3>1. s \in DOMAIN context_external /\ context_external[s] = cache[s]
      BY Zenon, <1>2, <1>3, <2>1, <2>4
    <3> QED BY Zenon, <2>1, <2>4, <3>1 DEF ExternalIsOfOwnConnection
  <2> QED BY Zenon, <2>3, <2>4
<1>5. \A s, ext : OfOwnConnection(s, ext)' <=> OfOwnConnection(s, ext)
  BY Zenon DEF OfOwnConnection
<1> QED BY Zenon, <1>4, <1>5 DEF ExternalIsOfOwnConnection

LEMMA NatInvariantStep ==
  NatInvariant /\ ExternalIsOfOwnConnection /\ [NatNext]_natVars
    => NatInvariant' /\ ExternalIsOfOwnConnection'
<1> SUFFICES ASSUME NatInvariant, ExternalIsOfOwnConnection, [NatNext]_natVars
             PROVE  NatInvariant' /\ ExternalIsOfOwnConnection'
  BY Zenon
<1>0. ListenerInvariant /\ aggregating \in BOOLEAN
  BY Zenon DEF NatInvariant
<1>1. CASE KernelStep
  <2>1. ListenerInvariant'
    BY Zenon, <1>0, <1>1, KernelSendsKeeps DEF KernelStep
  <2> QED BY Zenon, <1>0, <1>1, <2>1, RingUnchanged DEF KernelStep
<1>2. CASE Start
  <2>1. ListenerInvariant'
    BY Zenon, <1>0, <1>2, DrainEndsKeeps DEF Start
  <2> QED BY Zenon, <1>2, <2>1, RingUnchanged DEF Start
<1>3. CASE Drain
  <2>1. ListenerInvariant'
    BY Zenon, <1>0, <1>3, RecvMessageKeeps, DrainEndsKeeps DEF Drain
  <2> QED BY Zenon, <1>0, <1>3, <2>1, RingUnchanged DEF Drain
<1>4. CASE perform_aggregation_cycle
  <2>1. UNCHANGED context_external
    BY Zenon, <1>4 DEF perform_aggregation_cycle
  <2> QED BY Zenon, <1>4, <2>1, LearnKeeps DEF ExternalIsOfOwnConnection, OfOwnConnection
<1>5. CASE Aggregate
  BY Zenon, <1>5, AggregateKeeps, AggregateStoresOwn
<1>6. CASE UNCHANGED natVars
  <2>1. ListenerInvariant'
    BY Zenon, <1>0, <1>6 DEF ListenerInvariant, natVars
  <2> QED BY Zenon, <1>0, <1>6, <2>1, RingUnchanged DEF natVars
<1> QED BY Zenon, <1>1, <1>2, <1>3, <1>4, <1>5, <1>6 DEF NatNext

\* NatResolver: a connection that a drain reported is found in that aggregation
\* period and the two after it, and not longer; what a socket is said to be
\* beyond NAT is what conntrack said of its own connection.
THEOREM NatIsFound == NatSpec => []FindsOwnConnection
<1>1. NatInvariant => KnownForThreeRounds
  BY Zenon, LookupFinds DEF KnownForThreeRounds
<1>2. NatSpec => [](NatInvariant /\ ExternalIsOfOwnConnection)
  BY NatInvariantInit, NatInvariantStep, PTL DEF NatSpec
<1>3. NatInvariant /\ ExternalIsOfOwnConnection => FindsOwnConnection
  BY Zenon, <1>1 DEF FindsOwnConnection
<1> QED BY <1>2, <1>3, PTL

-----------------------------------------------------------------------------
(***************************************************************************)
(* The ring implements the table of aging mappings.                        *)
(***************************************************************************)
LEMMA EntriesAre ==
  ASSUME NEW e
  PROVE  e \in Entries <=>
           \E i \in Slots : \E c \in DOMAIN conntrack_ringbuf[i] :
             e = [key |-> c, value |-> conntrack_ringbuf[i][c], age |-> SlotAge(i)]
  BY DEF Entries

LEMMA EntriesAfter ==
  ASSUME NEW e
  PROVE  e \in Entries' <=>
           \E i \in Slots : \E c \in DOMAIN conntrack_ringbuf'[i] :
             e = [key |-> c, value |-> conntrack_ringbuf'[i][c], age |-> SlotAge(i)']
  BY DEF Entries

LEMMA EntryIs ==
  ASSUME NEW i \in Slots, NEW c \in DOMAIN conntrack_ringbuf[i]
  PROVE  [key |-> c, value |-> conntrack_ringbuf[i][c], age |-> SlotAge(i)] \in Entries
  BY DEF Entries

LEMMA EntryAfter ==
  ASSUME NEW i \in Slots, NEW c \in DOMAIN conntrack_ringbuf'[i]
  PROVE  [key |-> c, value |-> conntrack_ringbuf'[i][c], age |-> SlotAge(i)'] \in Entries'
  BY DEF Entries

\* perform_aggregation_cycle learns the mappings of the drain.
LEMMA CycleLearns ==
  ASSUME NatInvariant, perform_aggregation_cycle
  PROVE  Table!Learn
<1> DEFINE ins == inserted(new_entries)
           new == {[key |-> c, value |-> ins[c]] : c \in DOMAIN ins}
           ring == conntrack_ringbuf
           now == ringbuf_index
<1>1. /\ now \in Slots /\ DOMAIN ring = Slots
      /\ ring' = [ring EXCEPT ![now] = Over(ins, @)] /\ ringbuf_index' = now
  BY Zenon DEF NatInvariant, perform_aggregation_cycle
<1>2. /\ DOMAIN ring'[now] = DOMAIN ins \cup DOMAIN ring[now]
      /\ \A c \in DOMAIN ins : ring'[now][c] = ins[c]
      /\ \A c \in DOMAIN ring[now] \ DOMAIN ins : ring'[now][c] = ring[now][c]
      /\ \A i \in Slots \ {now} : ring'[i] = ring[i]
  <2>1. ring'[now] = Over(ins, ring[now]) /\ \A i \in Slots \ {now} : ring'[i] = ring[i]
    BY Zenon, <1>1
  <2>2. /\ DOMAIN Over(ins, ring[now]) = DOMAIN ins \cup DOMAIN ring[now]
        /\ \A c \in DOMAIN ins : Over(ins, ring[now])[c] = ins[c]
        /\ \A c \in DOMAIN ring[now] \ DOMAIN ins : Over(ins, ring[now])[c] = ring[now][c]
    BY Zenon, OverIsMap
  <2> QED BY Zenon, <2>1, <2>2
<1>3. \A i \in Slots : /\ SlotAge(i)' = SlotAge(i) /\ SlotAge(i) \in Nat
                       /\ SlotAge(i) = 0 <=> i = now
  BY <1>1, SlotAges DEF SlotAge, Slots
<1> HIDE DEF ins
<1>4. ASSUME NEW c \in DOMAIN ins
      PROVE  [key |-> c, value |-> ins[c], age |-> 0] \in Entries'
  <2>1. c \in DOMAIN ring'[now] /\ ring'[now][c] = ins[c] /\ SlotAge(now)' = 0
    BY Zenon, <1>1, <1>2, <1>3
  <2>2. [key |-> c, value |-> ring'[now][c], age |-> SlotAge(now)'] \in Entries'
    BY Zenon, <1>1, <2>1, EntryAfter
  <2> QED BY Zenon, <2>1, <2>2
<1>5. new \in SUBSET {[key |-> e.key, value |-> e.value] : e \in Entries'}
  <2>1. ASSUME NEW c \in DOMAIN ins
        PROVE  [key |-> c, value |-> ins[c]] \in {[key |-> e.key, value |-> e.value] : e \in Entries'}
    <3> DEFINE e1 == [key |-> c, value |-> ins[c], age |-> 0]
    <3>1. e1 \in Entries' /\ [key |-> e1.key, value |-> e1.value] = [key |-> c, value |-> ins[c]]
      BY Zenon, <1>4
    <3> QED BY Zenon, <3>1
  <2> QED BY Zenon, <2>1
<1>6. \A m, n \in new : m.key = n.key => m = n
  OBVIOUS
<1>7. \A c : (\A m \in new : m.key # c) <=> c \notin DOMAIN ins
  <2>1. ASSUME NEW c \in DOMAIN ins PROVE \E m \in new : m.key = c
    <3>1. [key |-> c, value |-> ins[c]] \in new /\ [key |-> c, value |-> ins[c]].key = c
      BY Zenon
    <3> QED BY Zenon, <3>1
  <2>2. ASSUME NEW m \in new PROVE m.key \in DOMAIN ins
    OBVIOUS
  <2> HIDE DEF new
  <2> QED BY Zenon, <2>1, <2>2
<1> DEFINE fresh == {[key |-> m.key, value |-> m.value, age |-> 0] : m \in new}
           old == {e \in Entries : e.age > 0 \/ \A m \in new : m.key # e.key}
<1>8. \A e : e \in fresh <=> \E c \in DOMAIN ins : e = [key |-> c, value |-> ins[c], age |-> 0]
  <2>1. ASSUME NEW c \in DOMAIN ins PROVE [key |-> c, value |-> ins[c], age |-> 0] \in fresh
    <3> DEFINE m == [key |-> c, value |-> ins[c]]
    <3>1. m \in new /\ m.key = c /\ m.value = ins[c]
      BY Zenon
    <3> HIDE DEF m, new
    <3>2. [key |-> m.key, value |-> m.value, age |-> 0] \in fresh
      BY Zenon, <3>1
    <3> QED BY Zenon, <3>1, <3>2
  <2>2. ASSUME NEW e \in fresh PROVE \E c \in DOMAIN ins : e = [key |-> c, value |-> ins[c], age |-> 0]
    <3>1. PICK m \in new : e = [key |-> m.key, value |-> m.value, age |-> 0]
      BY Zenon
    <3>2. m.key \in DOMAIN ins /\ m.value = ins[m.key]
      OBVIOUS
    <3> QED BY Zenon, <3>1, <3>2
  <2> HIDE DEF fresh
  <2> QED BY Zenon, <2>1, <2>2
<1> HIDE DEF new, fresh
<1>9. ASSUME NEW e \in Entries' PROVE e \in fresh \/ e \in old
  <2>0. PICK i \in Slots : \E c \in DOMAIN ring'[i] :
          e = [key |-> c, value |-> ring'[i][c], age |-> SlotAge(i)']
    BY Zenon, EntriesAfter
  <2>1. PICK c \in DOMAIN ring'[i] :
          e = [key |-> c, value |-> ring'[i][c], age |-> SlotAge(i)']
    BY Zenon, <2>0
  <2>2. CASE i # now
    <3>0. c \in DOMAIN ring[i] /\ e = [key |-> c, value |-> ring[i][c], age |-> SlotAge(i)]
      BY Zenon, <1>2, <1>3, <2>1, <2>2
    <3>1. e \in Entries
      BY Zenon, <3>0, EntryIs
    <3>2. e.age > 0
      BY <1>3, <2>1, <2>2
    <3> QED BY Zenon, <3>1, <3>2
  <2>3. CASE i = now /\ c \in DOMAIN ins
    BY Zenon, <1>2, <1>3, <1>8, <2>1, <2>3
  <2>4. CASE i = now /\ c \notin DOMAIN ins
    <3>0. c \in DOMAIN ring[i] /\ e = [key |-> c, value |-> ring[i][c], age |-> SlotAge(i)]
      BY Zenon, <1>2, <1>3, <2>1, <2>4
    <3>1. e \in Entries
      BY Zenon, <3>0, EntryIs
    <3>2. \A m \in new : m.key # e.key
      BY Zenon, <1>7, <2>1, <2>4
    <3> QED BY Zenon, <3>1, <3>2
  <2> QED BY Zenon, <2>2, <2>3, <2>4
<1>10. ASSUME NEW e \in old PROVE e \in Entries'
  <2>0. PICK i \in Slots : \E c \in DOMAIN ring[i] :
          e = [key |-> c, value |-> ring[i][c], age |-> SlotAge(i)]
    BY Zenon, EntriesAre
  <2>1. PICK c \in DOMAIN ring[i] :
          e = [key |-> c, value |-> ring[i][c], age |-> SlotAge(i)]
    BY Zenon, <2>0
  <2>2. i # now \/ c \notin DOMAIN ins
    <3>1. e.age > 0 \/ \A m \in new : m.key # e.key
      BY Zenon
    <3>2. e.age = SlotAge(i) /\ e.key = c
      BY Zenon, <2>1
    <3> QED BY <1>3, <1>7, <3>1, <3>2
  <2>3. CASE i # now
    <3>1. ring'[i] = ring[i]
      BY Zenon, <1>2, <2>3
    <3> QED BY Zenon, <1>3, <2>1, <3>1, EntryAfter
  <2>4. CASE i = now
    <3>1. c \in DOMAIN ring'[now] /\ ring'[now][c] = ring[now][c]
      BY Zenon, <1>2, <2>1, <2>2, <2>4
    <3> QED BY Zenon, <1>3, <2>1, <2>4, <3>1, EntryAfter
  <2> QED BY Zenon, <2>3, <2>4
<1>11. fresh \subseteq Entries'
  BY Zenon, <1>4, <1>8
<1>12. Entries' = fresh \cup old
  BY Zenon, <1>9, <1>10, <1>11
<1>13. UNCHANGED context_external
  BY Zenon DEF perform_aggregation_cycle
<1> QED BY Zenon, <1>5, <1>6, <1>12, <1>13 DEF Table!Learn, fresh

\* A look-up gives one of the answers of the table.
LEMMA LookupAnswers ==
  ASSUME NatInvariant, NEW s \in Socks
  PROVE  get_beyond_nat_entry(Context[s]) \in Table!Answers(s)
<1> DEFINE c == Connection[s]
           i == FirstSlot(SlotsWith(c))
           e == [key |-> c, value |-> conntrack_ringbuf[i][c], age |-> SlotAge(i)]
<1>1. CASE SlotsWith(c) = {}
  <2>1. get_beyond_nat_entry(Context[s]) = None
    BY Zenon, <1>1, ContextOfConnection DEF get_beyond_nat_entry
  <2>2. ASSUME NEW f \in Entries PROVE f.key # c
    <3>1. PICK j \in Slots : \E b \in DOMAIN conntrack_ringbuf[j] :
            f = [key |-> b, value |-> conntrack_ringbuf[j][b], age |-> SlotAge(j)]
      BY Zenon, EntriesAre
    <3>2. PICK b \in DOMAIN conntrack_ringbuf[j] :
            f = [key |-> b, value |-> conntrack_ringbuf[j][b], age |-> SlotAge(j)]
      BY Zenon, <3>1
    <3>3. f.key = b
      BY <3>2
    <3> QED BY Zenon, <1>1, <3>3 DEF SlotsWith
  <2> QED BY Zenon, <2>1, <2>2 DEF Table!Answers, Table!Known
<1>2. CASE SlotsWith(c) # {}
  <2>1. i \in Slots /\ c \in DOMAIN conntrack_ringbuf[i]
    BY Zenon, <1>2, FirstSlotIn DEF SlotsWith
  <2>2. e \in Entries
    BY Zenon, <2>1, EntryIs
  <2>3. e.key = c /\ e.value = conntrack_ringbuf[i][c]
    OBVIOUS
  <2>4. get_beyond_nat_entry(Context[s]) = Beyond(s, conntrack_ringbuf[i][c])
    BY Zenon, <1>2, ContextOfConnection DEF get_beyond_nat_entry, Beyond
  <2> HIDE DEF e
  <2> QED BY Zenon, <2>2, <2>3, <2>4 DEF Table!Answers, Table!Known
<1> QED BY Zenon, <1>1, <1>2

\* The answers of the cached sockets after a round are the table's.
LEMMA AggregateAnswers ==
  ASSUME NatInvariant, Aggregate, NEW s \in DOMAIN context_external'
  PROVE  /\ s \in Socks
         /\ IF s \in DOMAIN context_external /\ context_external[s] # None
            THEN context_external'[s] = context_external[s]
            ELSE context_external'[s] \in Table!Answers(s)
<1>1. PICK new \in NewSocks : \E evicted :
        LET stored == store_beyond_nat_entries(Over(context_external, new))
        IN  context_external' = Restrict(stored, DOMAIN stored \ evicted)
  BY Zenon DEF Aggregate
<1> DEFINE cache == Over(context_external, new)
<1>2. DOMAIN new \subseteq Socks /\ \A t \in DOMAIN new : new[t] = None
  BY Zenon DEF NewSocks
<1>3. /\ DOMAIN cache = DOMAIN context_external \cup DOMAIN new
      /\ \A t \in DOMAIN context_external : cache[t] = context_external[t]
      /\ \A t \in DOMAIN new \ DOMAIN context_external : cache[t] = new[t]
  BY Zenon, OverIsMap
<1> HIDE DEF cache
<1>4. /\ s \in DOMAIN cache
      /\ context_external'[s] = IF cache[s] = None THEN get_beyond_nat_entry(Context[s]) ELSE cache[s]
  BY Zenon, <1>1 DEF Restrict, store_beyond_nat_entries, cache
<1>5. s \in Socks
  BY Zenon, <1>2, <1>3, <1>4 DEF NatInvariant
<1>6. get_beyond_nat_entry(Context[s]) \in Table!Answers(s)
  BY Zenon, <1>5, LookupAnswers
<1> QED BY Zenon, <1>2, <1>3, <1>4, <1>5, <1>6

\* The end of a round ages them.
LEMMA AggregateAges ==
  ASSUME NatInvariant, Aggregate
  PROVE  Table!Round
<1> DEFINE ring == conntrack_ringbuf
           next == ringbuf_index'
           young == {f \in Entries : f.age + 1 < RING_BUF_ENTRIES}
           aged == {[e EXCEPT !.age = @ + 1] : e \in young}
<1>1. /\ ringbuf_index \in Slots /\ DOMAIN ring = Slots
      /\ ringbuf_index' = (ringbuf_index + 1) % RING_BUF_ENTRIES
      /\ ring' = [ring EXCEPT ![ringbuf_index'] = EmptyMap]
  BY Zenon DEF NatInvariant, Aggregate, perform_eviction
<1>2. /\ next \in Slots
      /\ \A i \in Slots \ {next} : SlotAge(i)' = SlotAge(i) + 1 /\ SlotAge(i) + 1 \in Slots
  BY Zenon, <1>1, SlotsAge
<1>3. DOMAIN ring'[next] = {} /\ \A i \in Slots \ {next} : ring'[i] = ring[i]
  BY Zenon, <1>1, <1>2 DEF EmptyMap
<1>4. SlotAge(next) + 1 = RING_BUF_ENTRIES /\ \A i \in Slots : SlotAge(i) \in Nat
  BY <1>1 DEF SlotAge, Slots, RING_BUF_ENTRIES
<1>5. ASSUME NEW e \in Entries' PROVE e \in aged
  <2>0. PICK i \in Slots : \E c \in DOMAIN ring'[i] :
          e = [key |-> c, value |-> ring'[i][c], age |-> SlotAge(i)']
    BY Zenon, EntriesAfter
  <2>1. PICK c \in DOMAIN ring'[i] :
          e = [key |-> c, value |-> ring'[i][c], age |-> SlotAge(i)']
    BY Zenon, <2>0
  <2>2. i # next
    BY Zenon, <1>3, <2>1
  <2> DEFINE f == [key |-> c, value |-> ring[i][c], age |-> SlotAge(i)]
  <2>3. f \in Entries
    BY Zenon, <1>3, <2>1, <2>2, EntryIs
  <2>4. f.age + 1 < RING_BUF_ENTRIES
    BY <1>2, <2>2 DEF Slots, RING_BUF_ENTRIES
  <2>5. e = [f EXCEPT !.age = @ + 1]
    BY <1>2, <1>3, <2>1, <2>2
  <2> HIDE DEF f
  <2> QED BY Zenon, <2>3, <2>4, <2>5
<1>6. ASSUME NEW f \in young PROVE [f EXCEPT !.age = @ + 1] \in Entries'
  <2>0. PICK i \in Slots : \E c \in DOMAIN ring[i] :
          f = [key |-> c, value |-> ring[i][c], age |-> SlotAge(i)]
    BY Zenon, EntriesAre
  <2>1. PICK c \in DOMAIN ring[i] :
          f = [key |-> c, value |-> ring[i][c], age |-> SlotAge(i)]
    BY Zenon, <2>0
  <2>2. i # next
    BY <1>4, <2>1 DEF RING_BUF_ENTRIES
  <2>3. [f EXCEPT !.age = @ + 1] = [key |-> c, value |-> ring'[i][c], age |-> SlotAge(i)']
    BY <1>2, <1>3, <2>1, <2>2
  <2>4. c \in DOMAIN ring'[i]
    BY Zenon, <1>3, <2>1, <2>2
  <2> QED BY <2>3, <2>4, EntryAfter
<1>7. Entries' = aged
  BY Zenon, <1>5, <1>6
<1> QED BY Zenon, <1>7, AggregateAnswers DEF Table!Round

\* A step that leaves the ring and the cache alone is a stutter of the table.
LEMMA TableUnchanged ==
  ASSUME UNCHANGED <<conntrack_ringbuf, ringbuf_index, context_external>>
  PROVE  UNCHANGED Table!tableVars
<1>1. \A i : SlotAge(i)' = SlotAge(i)
  BY Zenon DEF SlotAge
<1>2. UNCHANGED Entries
  BY <1>1 DEF Entries
<1> QED BY Zenon, <1>2 DEF Table!tableVars

LEMMA TableInit == NatInit => Table!Init
<1> SUFFICES ASSUME NatInit PROVE Entries = {} /\ DOMAIN context_external = {}
  BY Zenon DEF Table!Init
<1>1. \A i \in Slots : DOMAIN conntrack_ringbuf[i] = {}
  BY Zenon DEF NatInit, EmptyMap
<1>2. DOMAIN context_external = {}
  BY Zenon DEF NatInit, EmptyMap
<1> QED BY Zenon, <1>1, <1>2, EntriesAre

\* NatResolver: the ring of generations and the cache implement the table in which
\* a mapping lives for three rounds and the answers that it gives, every step one
\* of the table's or a stutter.
THEOREM RefinesNatTable == NatSpec => ImplementsNatTable
<1>1. NatInvariant /\ [NatNext]_natVars => [Table!Next]_(Table!tableVars)
  <2> SUFFICES ASSUME NatInvariant, [NatNext]_natVars PROVE [Table!Next]_(Table!tableVars)
    BY Zenon
  <2>1. CASE KernelStep \/ Start \/ Drain \/ UNCHANGED natVars
    BY Zenon, <2>1, TableUnchanged DEF KernelStep, Start, Drain, natVars
  <2>2. CASE perform_aggregation_cycle
    BY Zenon, <2>2, CycleLearns DEF Table!Next
  <2>3. CASE Aggregate
    BY Zenon, <2>3, AggregateAges DEF Table!Next
  <2> QED BY Zenon, <2>1, <2>2, <2>3 DEF NatNext
<1>2. NatSpec => [](NatInvariant /\ ExternalIsOfOwnConnection)
  BY NatInvariantInit, NatInvariantStep, PTL DEF NatSpec
<1> QED BY <1>1, <1>2, TableInit, PTL DEF NatSpec, ImplementsNatTable, Table!Spec

=============================================================================
