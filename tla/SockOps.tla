------------------------------ MODULE SockOps ------------------------------
(***************************************************************************)
(* The kernel side: TCP sockets, the sock_ops callbacks they trigger, and  *)
(* the handlers of those callbacks (nfm-common/src/sock_ops_handler.rs),   *)
(* which write the two BPF hash maps shared with the agent.                *)
(*                                                                         *)
(* A callback runs on whichever CPU the kernel picked and uses the entry   *)
(* of that CPU.  The kernel runs the callbacks of one socket one at a time *)
(* (they are made under the socket's lock); those of different sockets,    *)
(* and the agent, interleave with it at the map operations.                *)
(***************************************************************************)
EXTENDS Network, FiniteSets

CONSTANTS Socks,       \* socket cookies; a cookie names one connection
          Cpus,
          MaxProps,    \* capacity of NFM_SK_PROPS
          MaxStats,    \* capacity of NFM_SK_STATS
          MaxBytes,    \* bound: bytes one socket transfers
          MaxEvents,   \* bound: counted callbacks of one socket
          StartTime,   \* the boot clock when the program is attached, after boot
          MaxTime      \* bound: the boot clock

ASSUME SockOpsAssumption ==
  /\ MaxBytes \in Nat /\ MaxEvents \in Nat
  /\ MaxBytes < CounterModulus /\ MaxEvents < CounterModulus
  /\ StartTime \in Nat \ {0}
  /\ IsFiniteSet(Cpus)

VARIABLES
  now_us,           \* the boot clock, read by handlers and by the agent
  tcp_state,        \* the TCP state of each socket
  kernel_bytes,     \* the byte counter the kernel keeps for each socket
  counted_events,   \* history: callbacks counted into NFM_SK_STATS, per socket
  cb_flags,         \* the sockets that were registered for further callbacks
  opening,          \* the keys whose handle_new_sock is between its two maps
  NFM_SK_PROPS,
  NFM_SK_STATS,
  NFM_CONTROL,      \* the sampling interval
  insertion_errors  \* has map_insertion_errors moved since the agent read it?

kernel_vars == <<now_us, tcp_state, kernel_bytes, counted_events, cb_flags,
                 opening, NFM_SK_PROPS, NFM_SK_STATS, NFM_CONTROL,
                 insertion_errors>>

CpuSockKey == Cpus \X Socks

\* "NEW": not opened yet.  "CLOSING" stands for FIN_WAIT*, CLOSE_WAIT, LAST_ACK,
\* CLOSING and TIME_WAIT, between which the handlers do not distinguish.
TcpStates == {"NEW", "SYN_SENT", "SYN_RECV", "ESTABLISHED", "CLOSING", "CLOSE"}

\* The transitions the kernel reports with BPF_SOCK_OPS_STATE_CB.
TcpTransitions ==
  {<<"SYN_SENT", "ESTABLISHED">>, <<"SYN_SENT", "SYN_RECV">>, <<"SYN_SENT", "CLOSE">>,
   <<"SYN_RECV", "ESTABLISHED">>, <<"SYN_RECV", "CLOSING">>,
   <<"SYN_RECV", "CLOSE">>, <<"ESTABLISHED", "CLOSING">>,
   <<"ESTABLISHED", "CLOSE">>, <<"CLOSING", "CLOSE">>}

\* A hash map is a function on the set of keys that have an entry.
EmptyMap == [k \in {} |-> {}]
Put(map, key, value) ==
  [k \in DOMAIN map \cup {key} |-> IF k = key THEN value ELSE map[k]]
RemoveKeys(map, keys) == [k \in DOMAIN map \ keys |-> map[k]]
IsMap(map, K, V) == DOMAIN map \subseteq K /\ map \in [DOMAIN map -> V]

KernelTypeOK ==
  /\ now_us \in Nat
  /\ tcp_state \in [Socks -> TcpStates]
  /\ kernel_bytes \in [Socks -> 0..MaxBytes]
  /\ counted_events \in [Socks -> 0..MaxEvents]
  /\ cb_flags \subseteq Socks
  /\ opening \subseteq CpuSockKey
  /\ IsMap(NFM_SK_PROPS, CpuSockKey, Flows)
  /\ IsMap(NFM_SK_STATS, CpuSockKey, SockStats)
  /\ NFM_CONTROL \in Nat
  /\ insertion_errors \in BOOLEAN

-----------------------------------------------------------------------------
\* The entry a handler works on: the existing one or a default one, touched.
get_or_add_sock_stats(key) ==
  [(IF key \in DOMAIN NFM_SK_STATS THEN NFM_SK_STATS[key] ELSE DefaultStats)
     EXCEPT !.last_touched_us = now_us]

\* There is an entry, or room to insert one.
HasSockStats(key) ==
  key \in DOMAIN NFM_SK_STATS \/ Cardinality(DOMAIN NFM_SK_STATS) < MaxStats

\* The outcome of a handler whose new entry is stats: written, or the map is
\* full, the error is counted and the event is lost.
StoreSockStats(key, stats) ==
  \/ /\ HasSockStats(key)
     /\ NFM_SK_STATS' = Put(NFM_SK_STATS, key, stats)
     /\ UNCHANGED insertion_errors
  \/ /\ ~HasSockStats(key)
     /\ insertion_errors' = TRUE
     /\ UNCHANGED NFM_SK_STATS

\* BPF_NOEXIST: an insertion fails on a full map and on an existing key.
CanInsertProps(key) ==
  key \notin DOMAIN NFM_SK_PROPS /\ Cardinality(DOMAIN NFM_SK_PROPS) < MaxProps

\* BpfControlConveyor::should_handle_new_sock; the random draw may go either way.
SampledOut == NFM_CONTROL > 1

-----------------------------------------------------------------------------
\* A new socket's callback, up to the insertion of its context and its
\* registration for further callbacks.  A socket that is sampled out, has no
\* valid context, does not fit, or cannot be registered is not heard of again.
handle_new_sock(cpu, sock, state) ==
  /\ tcp_state[sock] = "NEW"
  /\ tcp_state' = [tcp_state EXCEPT ![sock] = state]
  /\ \/ /\ SampledOut
        /\ UNCHANGED <<NFM_SK_PROPS, insertion_errors, cb_flags, opening>>
     \/ \E context \in Flows \cup {NoContext} :
          \/ /\ ~is_valid(context)
             /\ UNCHANGED <<NFM_SK_PROPS, insertion_errors, cb_flags, opening>>
          \/ /\ is_valid(context)
             /\ ~CanInsertProps(<<cpu, sock>>)
             /\ insertion_errors' = TRUE
             /\ UNCHANGED <<NFM_SK_PROPS, cb_flags, opening>>
          \/ /\ is_valid(context)
             /\ CanInsertProps(<<cpu, sock>>)
             /\ NFM_SK_PROPS' = Put(NFM_SK_PROPS, <<cpu, sock>>, context)
             /\ UNCHANGED insertion_errors
             /\ \/ /\ cb_flags' = cb_flags \cup {sock}
                   /\ opening' = opening \cup {<<cpu, sock>>}
                \/ UNCHANGED <<cb_flags, opening>>   \* set_cb_flags failed
  /\ UNCHANGED <<now_us, kernel_bytes, counted_events, NFM_SK_STATS,
                 NFM_CONTROL>>

handle_connect(cpu, sock) == handle_new_sock(cpu, sock, "SYN_SENT")

handle_passive_established(cpu, sock) ==
  \E state \in {"SYN_RECV", "ESTABLISHED"} : handle_new_sock(cpu, sock, state)

\* The rest of handle_new_sock: the stats entry of the new socket.
handle_new_sock_stats(key) ==
  /\ key \in opening
  /\ opening' = opening \ {key}
  /\ LET stats == get_or_add_sock_stats(key)
     IN  StoreSockStats(key,
           [stats EXCEPT !.state_flags = @ \cup
              (IF tcp_state[key[2]] = "ESTABLISHED" THEN {"ENTERED_ESTABLISH"}
                                                    ELSE {})])
  /\ UNCHANGED <<now_us, tcp_state, kernel_bytes, counted_events, cb_flags,
                 NFM_SK_PROPS, NFM_CONTROL>>

\* The kernel calls back for a registered socket that is still alive, one
\* callback at a time.
Callback(sock) ==
  /\ sock \in cb_flags
  /\ tcp_state[sock] \notin {"NEW", "CLOSE"}
  /\ \A key \in opening : key[2] # sock

\* It also calls back when it resets a connection: for the reset (an egress
\* packet without data) the socket may be in CLOSE already, and nothing was
\* transferred since.
ResetCallback(sock, n) ==
  /\ sock \in cb_flags
  /\ tcp_state[sock] = "CLOSE" /\ n = 0
  /\ \A key \in opening : key[2] # sock

\* The kernel counted n more bytes since the socket's last callback.
Transfer(sock, n) ==
  /\ kernel_bytes[sock] + n <= MaxBytes
  /\ kernel_bytes' = [kernel_bytes EXCEPT ![sock] = @ + n]

\* One more counted callback, unless its entry could not be stored.
CountEvent(key) ==
  /\ counted_events[key[2]] < MaxEvents
  /\ counted_events' = [counted_events EXCEPT ![key[2]] =
                          IF HasSockStats(key) THEN @ + 1 ELSE @]

\* The flags of a transition.  (The counters of connects that the same handlers
\* keep, and their times, are in FlowStats.)
NewFlags(old, new) ==
  IF new = "ESTABLISHED" THEN {"ENTERED_ESTABLISH"}
  ELSE IF new \in {"SYN_SENT", "SYN_RECV"} THEN {}
  ELSE {"STARTED_CLOSURE"}
       \cup (IF old \in {"SYN_SENT", "SYN_RECV"} THEN {"TERMINATED_FROM_SYN"}
                                                 ELSE {})
       \cup (IF new = "CLOSE" THEN {"CLOSED"} ELSE {})
       \cup (IF new = "CLOSE" /\ old = "ESTABLISHED"
               THEN {"TERMINATED_FROM_EST"} ELSE {})

\* Mutant of handle_state_change: no final values on close.
handle_state_change_NoFinalStats(cpu, sock, new, n) ==
  LET key   == <<cpu, sock>>
      stats == get_or_add_sock_stats(key)
  IN  /\ Callback(sock)
      /\ <<tcp_state[sock], new>> \in TcpTransitions
      /\ tcp_state' = [tcp_state EXCEPT ![sock] = new]
      /\ Transfer(sock, n)
      /\ StoreSockStats(key,
           [stats EXCEPT !.state_flags = @ \cup NewFlags(tcp_state[sock], new)])
      /\ UNCHANGED <<now_us, counted_events, cb_flags, opening, NFM_SK_PROPS,
                     NFM_CONTROL>>

\* A transition to CLOSE also stores the final values of the kernel's counters.
handle_state_change(cpu, sock, new, n) ==
  LET key   == <<cpu, sock>>
      stats == get_or_add_sock_stats(key)
  IN  /\ Callback(sock)
      /\ <<tcp_state[sock], new>> \in TcpTransitions
      /\ tcp_state' = [tcp_state EXCEPT ![sock] = new]
      /\ Transfer(sock, n)
      /\ StoreSockStats(key,
           [stats EXCEPT
              !.state_flags = @ \cup NewFlags(tcp_state[sock], new),
              !.bytes_received = IF new = "CLOSE" THEN kernel_bytes[sock] + n
                                                  ELSE @])
      /\ UNCHANGED <<now_us, counted_events, cb_flags, opening, NFM_SK_PROPS,
                     NFM_CONTROL>>

handle_rtt(cpu, sock, n) ==
  LET key   == <<cpu, sock>>
      stats == get_or_add_sock_stats(key)
  IN  /\ Callback(sock)
      /\ Transfer(sock, n)
      /\ CountEvent(key)
      /\ StoreSockStats(key,
           [stats EXCEPT !.bpf_events = wrapping_add(@, 1),
                         !.bytes_received = kernel_bytes[sock] + n])
      /\ UNCHANGED <<now_us, tcp_state, cb_flags, opening, NFM_SK_PROPS,
                     NFM_CONTROL>>

\* A retransmission or a retransmission timeout (handle_retransmit, handle_rto).
handle_rto(cpu, sock) ==
  LET key   == <<cpu, sock>>
      stats == get_or_add_sock_stats(key)
  IN  /\ Callback(sock)
      /\ CountEvent(key)
      /\ StoreSockStats(key, [stats EXCEPT !.bpf_events = wrapping_add(@, 1)])
      /\ UNCHANGED <<now_us, tcp_state, kernel_bytes, cb_flags, opening,
                     NFM_SK_PROPS, NFM_CONTROL>>

handle_bytes_transferred_event(cpu, sock, n) ==
  LET key   == <<cpu, sock>>
      stats == get_or_add_sock_stats(key)
  IN  /\ Callback(sock) \/ ResetCallback(sock, n)
      /\ Transfer(sock, n)
      /\ StoreSockStats(key,
           [stats EXCEPT !.bytes_received = kernel_bytes[sock] + n])
      /\ UNCHANGED <<now_us, tcp_state, counted_events, cb_flags, opening,
                     NFM_SK_PROPS, NFM_CONTROL>>

\* Time passes.
Tick ==
  /\ now_us < MaxTime
  /\ now_us' = now_us + 1
  /\ UNCHANGED <<tcp_state, kernel_bytes, counted_events, cb_flags, opening,
                 NFM_SK_PROPS, NFM_SK_STATS, NFM_CONTROL, insertion_errors>>
=============================================================================
