------------------------- MODULE ConntrackListener -------------------------
(***************************************************************************)
(* The netlink listener (nfm-controller/src/utils/conntrack_listener.rs):  *)
(* the kernel queues a message per new connection, get_new_entries drains  *)
(* the queue and keeps the connections that NAT changed.  The kernel goes  *)
(* on queueing while it drains.                                            *)
(***************************************************************************)
EXTENDS Naturals, Sequences

CONSTANTS Messages,      \* what the kernel may send: pairs of tuples, Unparsable
          Unparsable,    \* a message that is no pair of 5-tuples
          VpcIps,        \* the addresses that VpcCidrChecker knows
          SOCKET_RX_BUF, \* messages that the socket's buffer has room for
          MaxDrain       \* bound: messages kept by one drain, as the kernel keeps sending

TCP == "tcp"

\* The kernel translates a connection within its protocol.
ASSUME MessageAssumption ==
  \A m \in Messages \ {Unparsable} : m.reply.protocol = m.original.protocol

ASSUME BufferAssumption == SOCKET_RX_BUF \in Nat

VARIABLES
  netlink,    \* the socket's receive queue
  overrun,    \* the kernel found no room: the next recv fails
  draining,   \* get_new_entries is running
  new_entries,     \* what it has collected
  read        \* history: the messages of NATed connections that this call was sent

listenerVars == <<netlink, overrun, draining, new_entries, read>>

ListenerInit ==
  /\ netlink = <<>> /\ overrun = FALSE /\ draining = FALSE
  /\ new_entries = <<>> /\ read = <<>>

-----------------------------------------------------------------------------
is_inverse_of(c, d) ==
  /\ c.src_ip = d.dst_ip /\ c.dst_ip = d.src_ip
  /\ c.src_port = d.dst_port /\ c.dst_port = d.src_port
  /\ c.protocol = d.protocol

is_vpc_ip(ip) == ip \in VpcIps

snat_occurred(m) == m.original.src_ip # m.reply.dst_ip

dnat_occurred(m) == m.original.dst_ip # m.reply.src_ip

\* Mutant of accepted: without the test of the other direction of the NAT.
accepted_NoDnat(m) ==
  /\ m # Unparsable
  /\ m.original.protocol = TCP
  /\ ~is_inverse_of(m.original, m.reply)
  /\ ~(snat_occurred(m) /\ is_vpc_ip(m.original.src_ip))

\* The result of filter_and_normalize_event.
accepted(m) ==
  /\ m # Unparsable
  /\ m.original.protocol = TCP
  /\ ~is_inverse_of(m.original, m.reply)
  /\ ~(snat_occurred(m) /\ is_vpc_ip(m.original.src_ip) /\ ~dnat_occurred(m))

\* What filter_and_normalize_event makes of a message that it accepts.
normalized(m) ==
  IF snat_occurred(m) /\ is_vpc_ip(m.original.src_ip)
  THEN [original |-> m.original,
        reply |-> [src_ip |-> m.reply.src_ip, src_port |-> m.reply.src_port,
                   dst_ip |-> m.original.src_ip, dst_port |-> m.original.src_port,
                   protocol |-> m.reply.protocol]]
  ELSE m

\* The messages that are wanted: those of NATed TCP connections, whether the
\* destination was changed or a source outside the VPC.
Wanted(m) ==
  /\ m # Unparsable
  /\ m.original.protocol = TCP
  /\ \/ m.original.dst_ip # m.reply.src_ip
     \/ m.original.dst_port # m.reply.src_port /\ m.original.src_ip = m.reply.dst_ip
     \/ m.original.src_port # m.reply.dst_port /\ m.original.src_ip = m.reply.dst_ip
     \/ m.original.src_ip # m.reply.dst_ip /\ ~is_vpc_ip(m.original.src_ip)

\* The kernel sends a message; without room for it the message is lost and
\* the next recv reports ENOBUFS.
KernelSends(m) ==
  /\ IF Len(netlink) < SOCKET_RX_BUF
     THEN netlink' = Append(netlink, m) /\ UNCHANGED overrun
     ELSE overrun' = TRUE /\ UNCHANGED netlink
  /\ UNCHANGED <<draining, new_entries, read>>

\* get_new_entries starts.
StartDrain ==
  /\ ~draining
  /\ draining' = TRUE /\ new_entries' = <<>> /\ read' = <<>>
  /\ UNCHANGED <<netlink, overrun>>

\* recv returns an error: what was collected is dropped.
RecvFails ==
  /\ draining /\ overrun
  /\ overrun' = FALSE /\ draining' = FALSE /\ new_entries' = <<>> /\ read' = <<>>
  /\ UNCHANGED netlink

\* recv returns a message.
RecvMessage ==
  /\ draining /\ ~overrun /\ netlink # <<>>
  /\ netlink' = Tail(netlink)
  /\ read' = IF Wanted(Head(netlink)) THEN Append(read, Head(netlink)) ELSE read
  /\ new_entries' = IF accepted(Head(netlink)) THEN Append(new_entries, normalized(Head(netlink)))
                                         ELSE new_entries
  /\ UNCHANGED <<overrun, draining>>

\* recv would block: get_new_entries returns its events.
RecvWouldBlock ==
  /\ draining /\ ~overrun /\ netlink = <<>>
  /\ draining' = FALSE /\ new_entries' = <<>> /\ read' = <<>>
  /\ UNCHANGED <<netlink, overrun>>

ListenerNext ==
  \/ \E m \in Messages : Len(read) + Len(netlink) < MaxDrain /\ KernelSends(m)
  \/ StartDrain \/ RecvFails \/ RecvMessage \/ RecvWouldBlock

ListenerSpec == ListenerInit /\ [][ListenerNext]_listenerVars

-----------------------------------------------------------------------------
\* What the drain has collected so far is what it was sent, normalised.
ListenerInvariant ==
  /\ netlink \in Seq(Messages) /\ Len(netlink) <= SOCKET_RX_BUF
  /\ overrun \in BOOLEAN /\ draining \in BOOLEAN
  /\ read \in Seq({m \in Messages : accepted(m)})
  /\ new_entries \in Seq({normalized(m) : m \in Messages \ {Unparsable}})
  /\ Len(new_entries) = Len(read)
  /\ \A i \in 1..Len(read) : new_entries[i] = normalized(read[i])

\* A call of get_new_entries that fails returns nothing, one that succeeds
\* everything that it should: the messages of NATed TCP connections, in the
\* order in which the kernel sent them, whether the destination was changed or
\* a source outside the VPC.  "Particularly we do not care when there is no NAT
\* at all": after the normalisation an entry still leads from one connection to
\* another, and a source in the VPC is the one of the original connection, its
\* port included.
DrainStep ==
  RecvWouldBlock =>
    /\ Len(new_entries) = Len(read)
    /\ \A i \in 1..Len(new_entries) :
         /\ ~is_inverse_of(new_entries[i].original, new_entries[i].reply)
         /\ new_entries[i].original = read[i].original
         /\ new_entries[i].reply.src_ip = read[i].reply.src_ip
         /\ is_vpc_ip(read[i].original.src_ip) /\ read[i].original.src_ip # read[i].reply.dst_ip =>
              /\ new_entries[i].reply.dst_ip = read[i].original.src_ip
              /\ new_entries[i].reply.dst_port = read[i].original.src_port

DrainReturnsNat == [][DrainStep]_listenerVars
=============================================================================
