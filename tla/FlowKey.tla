------------------------------- MODULE FlowKey -------------------------------
(***************************************************************************)
(* How a kernel socket becomes the flow it is counted in and the labels it *)
(* is published under: SockContext::from_sock_ops (nfm-common/src/network. *)
(* rs) converts the words of the kernel's context in the BPF program,      *)
(* FlowProperties::try_from (nfm-controller/src/events/network_event.rs)   *)
(* makes the key of the flow cache of the context, and serialize the       *)
(* labels.  Ports and addresses are sequences of bytes, most significant   *)
(* first, on a little-endian host.                                         *)
(***************************************************************************)
EXTENDS Integers, Sequences, FiniteSets, SequencesExt

CONSTANTS Base,      \* values of a byte (256)
          WordBytes, \* bytes of a word (4); a port is half a word
          Ipv6Words, \* words of an IPv6 address (4)
          MaxSocks   \* bound: sockets

VARIABLES
  sockets,    \* the kernel's sockets of which the program had an event
  flow_cache  \* the sockets counted in each flow

vars == <<sockets, flow_cache>>

AF_INET == 2
AF_INET6 == 10
AF_UNIX == 1   \* any other family
ELIDED_PORT == 0
PortBytes == WordBytes \div 2

\* One byte of an address is set: enough to see where each byte goes.
Addresses(n) == {[i \in 1..n |-> IF i = k THEN Base - 1 ELSE 0] : k \in 1..n}
AddressBytes(family) == IF family = AF_INET6 THEN WordBytes * Ipv6Words ELSE WordBytes

\* The value of a sequence of bytes, most significant first.
Value(bytes) == FoldLeft(LAMBDA v, b : v * Base + b, 0, bytes)

\* Connected sockets have no port zero.
Ports == [1..PortBytes -> 0..(Base - 1)] \ {[i \in 1..PortBytes |-> 0]}

Sockets == UNION {[family : {f}, local : Addresses(AddressBytes(f)),
                   remote : Addresses(AddressBytes(f)), local_port : Ports,
                   remote_port : Ports, is_client : BOOLEAN] : f \in {AF_INET, AF_INET6, AF_UNIX}}

Init == sockets = {} /\ flow_cache = [f \in {} |-> {}]

-----------------------------------------------------------------------------
\* The kernel's context: words that hold, in memory order, an address or the
\* remote port behind padding, and the local port as a number.
Load(bytes) == Value(Reverse(bytes))
remote_port_word(s) == Load([i \in 1..(WordBytes - PortBytes) |-> 0] \o s.remote_port)
ip4_word(address) == Load(SubSeq(address, 1, WordBytes))
ip6_words(address) ==
  [i \in 1..Ipv6Words |-> Load(SubSeq(address, (i - 1) * WordBytes + 1, i * WordBytes))]

\* The byte of a word that is shifted right by j bytes and cast to u8.
byte(word, j) == (word \div Base^j) % Base

from_be(word) == Value([i \in 1..WordBytes |-> byte(word, i - 1)])

ipv6_to_bytes(parts) ==
  [k \in 1..(WordBytes * Ipv6Words) |->
     byte(parts[(k - 1) \div WordBytes + 1], (k - 1) % WordBytes)]

\* The fields of the other family hold what the kernel reports for them, which
\* nothing reads; they are left out.
from_sock_ops(s) ==
  [is_client |-> s.is_client, address_family |-> s.family,
   local_port |-> Value(s.local_port),
   remote_port |-> from_be(remote_port_word(s)),
   local |-> IF s.family = AF_INET6 THEN ipv6_to_bytes(ip6_words(s.local))
                                    ELSE from_be(ip4_word(s.local)),
   remote |-> IF s.family = AF_INET6 THEN ipv6_to_bytes(ip6_words(s.remote))
                                     ELSE from_be(ip4_word(s.remote))]

is_valid(context) == context.address_family \in {AF_INET, AF_INET6}

\* IpAddr::V4 of a number, IpAddr::V6 of bytes.
IpAddr(family, a) ==
  [version |-> family,
   bytes |-> IF family = AF_INET6 THEN a
             ELSE [i \in 1..WordBytes |-> byte(a, WordBytes - i)]]

\* Mutant of try_from: only the local port is elided.
try_from_RemotePort(context) ==
  [protocol |-> "TCP",
   local_address |-> IpAddr(context.address_family, context.local),
   remote_address |-> IpAddr(context.address_family, context.remote),
   local_port |-> IF context.is_client THEN ELIDED_PORT ELSE context.local_port,
   remote_port |-> context.remote_port]

\* FlowProperties::try_from of a valid context.
try_from(context) ==
  [protocol |-> "TCP",
   local_address |-> IpAddr(context.address_family, context.local),
   remote_address |-> IpAddr(context.address_family, context.remote),
   local_port |-> IF context.is_client THEN ELIDED_PORT ELSE context.local_port,
   remote_port |-> IF context.is_client THEN context.remote_port ELSE ELIDED_PORT]

is_client_flow(flow) == flow.local_port = ELIDED_PORT

\* The labels of a flow, in the order of the fields.
serialize(flow) ==
  <<flow.protocol, flow.local_address, flow.remote_address, flow.local_port, flow.remote_port>>

\* An event of socket s.  A context of another family is refused by the BPF
\* program.
Observe(s) ==
  LET context == from_sock_ops(s)
      flow == try_from(context)
      before == IF flow \in DOMAIN flow_cache THEN flow_cache[flow] ELSE {}
  IN /\ Cardinality(sockets) < MaxSocks
     /\ s \notin sockets
     /\ sockets' = sockets \union {s}
     /\ IF is_valid(context)
        THEN flow_cache' = [f \in DOMAIN flow_cache \union {flow} |->
                              IF f = flow THEN before \union {s} ELSE flow_cache[f]]
        ELSE UNCHANGED flow_cache

Next == \E s \in Sockets : Observe(s)

Spec == Init /\ [][Next]_vars

-----------------------------------------------------------------------------
\* The flow of a socket names the socket's own endpoints (from_sock_ops,
\* ipv6_to_bytes, try_from): both addresses byte by byte in the order in which
\* they are read, the port of the service, and which side opened it.
NamesEndpoints ==
  \A flow \in DOMAIN flow_cache : \A s \in flow_cache[flow] :
    /\ flow.local_address = [version |-> s.family, bytes |-> s.local]
    /\ flow.remote_address = [version |-> s.family, bytes |-> s.remote]
    /\ is_client_flow(flow) = s.is_client
    /\ IF s.is_client THEN flow.remote_port = Value(s.remote_port)
                      ELSE flow.local_port = Value(s.local_port)

\* What a connection is of, whichever ephemeral port its client used.
Service(s) ==
  <<s.family, s.local, s.remote, s.is_client, IF s.is_client THEN s.remote_port ELSE s.local_port>>

LabelsOf(s) == {serialize(flow) : flow \in {f \in DOMAIN flow_cache : s \in flow_cache[f]}}

\* Sockets of an internet family are published under the same labels exactly
\* when they are connections of the same two hosts to the same service
\* (try_from elides the client port, serialize publishes five fields), and a
\* socket of another family under none.
OneFlowPerService ==
  \A s, t \in sockets :
    /\ (LabelsOf(s) = {}) = (s.family = AF_UNIX)
    /\ s.family # AF_UNIX => (LabelsOf(s) = LabelsOf(t)) = (Service(s) = Service(t))
=============================================================================
