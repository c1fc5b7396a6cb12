--------------------------- MODULE LoadGenerator ---------------------------
(***************************************************************************)
(* tcp-tester (load-generator/): clients that connect to an echo server    *)
(* through a middle box where a traffic control program drops packets of   *)
(* configured flows.  Every client loads its own copy of the programs and  *)
(* maps (setup_ebpf) and drops it when connect returns, so the maps of one *)
(* client see the sockets and packets of all while they are attached.  The *)
(* program is attached where packets come in from the server (i3) and      *)
(* where they go out to the client (i2): both see packets to the client    *)
(* alone, and one that i3 drops does not come to i2.  Flows are told apart *)
(* by the client's port, which is used again.                              *)
(***************************************************************************)
EXTENDS Naturals, FiniteSets

CONSTANTS Clients, Ports, NoPort,
          Count,      \* drop.count of the configuration file
          Attempts,   \* client -> SYN-ACKs that TCP sends before it gives up
          Rounds,     \* packets of send_random_data
          Packet,     \* units of a packet
          Unread,     \* most of an echo that the client may leave unread, in units
          Buffers     \* client -> units that the sockets' buffers hold, both ways

VARIABLES
  stage,         \* client -> "new", "attached", "configured", "syn", "connected",
                 \* "failed", "done"
  port,          \* client -> its port
  socket_config, \* client's map -> directions that are still configured by cookie
  flow_config,   \* client's map -> (port, direction) -> packets left to drop
  sent,          \* client -> SYN-ACKs sent to it
  rounds,        \* client -> packets of data sent
  backlog,       \* client -> echoed units that are not read
  dropped        \* history: client -> packets dropped

vars == <<stage, port, socket_config, flow_config, sent, rounds, backlog, dropped>>

Directions == {"INGRESS", "EGRESS"}

\* The clients whose bpf is still in scope.
Attached == {c \in Clients : stage[c] \in {"attached", "configured", "syn"}}

Init ==
  /\ stage = [c \in Clients |-> "new"] /\ port = [c \in Clients |-> NoPort]
  /\ socket_config = [c \in Clients |-> {}] /\ flow_config = [c \in Clients |-> <<>>]
  /\ sent = [c \in Clients |-> 0] /\ rounds = [c \in Clients |-> 0]
  /\ backlog = [c \in Clients |-> 0]
  /\ dropped = [c \in Clients |-> 0]

-----------------------------------------------------------------------------
\* start_client_at_rate spawns run_client, which loads and attaches the programs.
setup_ebpf(c) ==
  /\ stage[c] = "new" /\ stage' = [stage EXCEPT ![c] = "attached"]
  /\ UNCHANGED <<port, socket_config, flow_config, sent, rounds, backlog, dropped>>

\* ClientSocketBuilder.connect enters both directions under the socket's cookie.
ClientSocketBuilder_connect(c) ==
  /\ stage[c] = "attached" /\ stage' = [stage EXCEPT ![c] = "configured"]
  /\ socket_config' = [socket_config EXCEPT ![c] = Directions]
  /\ UNCHANGED <<port, flow_config, sent, rounds, backlog, dropped>>

\* The programs of every attached client see the callback; the map of one has
\* this socket's cookie.  Its entries move to the flow's addresses and ports.
ConnectCb(c) ==
  /\ stage[c] = "configured" /\ stage' = [stage EXCEPT ![c] = "syn"]
  /\ \E p \in Ports \ {port[d] : d \in Clients} :
       /\ port' = [port EXCEPT ![c] = p]
       /\ flow_config' =
            [flow_config EXCEPT ![c] =
               [k \in DOMAIN @ \cup ({p} \X socket_config[c]) |->
                  IF k \in {p} \X socket_config[c] THEN Count ELSE @[k]]]
  /\ socket_config' = [socket_config EXCEPT ![c] = {}]
  /\ UNCHANGED <<sent, rounds, backlog, dropped>>

spent(n) == n - 1

\* get_config finds a flow whose packets are to be dropped.
Configured(p, d) == {c \in Attached : <<p, d>> \in DOMAIN flow_config[c] /\ flow_config[c][<<p, d>>] > 0}

\* try_tc_egress: the first program whose map has the flow, with packets left to
\* drop, drops this one.
Dropped(c, d) ==
  /\ \E m \in Configured(port[c], d) :
       flow_config' = [flow_config EXCEPT ![m][<<port[c], d>>] = spent(@)]
  /\ dropped' = [dropped EXCEPT ![c] = @ + 1]

\* The callback of a socket that closes: "remove any config we have".
without_flow(p) ==
  [m \in Clients |->
     IF m \notin Attached THEN flow_config[m]
     ELSE [k \in DOMAIN flow_config[m] \ ({p} \X Directions) |-> flow_config[m][k]]]

\* bpf goes out of scope when connect returns, and its maps with it.
kept_maps(c, maps) == [maps EXCEPT ![c] = <<>>]

\* The server answers the client's SYN, which no program sees.  TCP sends a SYN-ACK
\* that is lost again, and gives up in the end; then connect returns an error.
SynAck(c) ==
  /\ stage[c] = "syn"
  /\ IF sent[c] = Attempts[c]
     THEN /\ stage' = [stage EXCEPT ![c] = "failed"]
          /\ flow_config' = kept_maps(c, without_flow(port[c])) /\ port' = [port EXCEPT ![c] = NoPort]
          /\ UNCHANGED <<sent, dropped>>
     ELSE /\ sent' = [sent EXCEPT ![c] = @ + 1]
          /\ IF Configured(port[c], "INGRESS") # {}
             THEN Dropped(c, "INGRESS") /\ UNCHANGED stage
             ELSE /\ stage' = [stage EXCEPT ![c] = "connected"]
                  /\ flow_config' = kept_maps(c, flow_config) /\ UNCHANGED dropped
          /\ UNCHANGED port
  /\ UNCHANGED <<socket_config, rounds, backlog>>

\* Mutant of unread_echo: the response is not read.
unread_echo_All == {Packet}

\* The client writes all of its buffer and reads len of the echo, which is less.
unread_echo == 1..Unread

\* send_random_data: the whole packet is written, the server echoes all of it,
\* and the client reads a random part of what was echoed.  When the buffers have no
\* room the server waits in its write_all, and then the client in its own.
Exchange(c) ==
  /\ stage[c] = "connected" /\ rounds[c] < Rounds
  /\ backlog[c] + Packet <= Buffers[c]
  /\ \E left \in unread_echo : backlog' = [backlog EXCEPT ![c] = @ + left]
  /\ rounds' = [rounds EXCEPT ![c] = @ + 1]
  /\ UNCHANGED <<stage, port, socket_config, flow_config, sent, dropped>>

\* shutdown; the socket's port is free again.
Close(c) ==
  /\ stage[c] = "connected" /\ rounds[c] = Rounds
  /\ stage' = [stage EXCEPT ![c] = "done"] /\ port' = [port EXCEPT ![c] = NoPort]
  /\ flow_config' = without_flow(port[c])
  /\ backlog' = [backlog EXCEPT ![c] = 0]
  /\ UNCHANGED <<socket_config, sent, rounds, dropped>>

Client(c) ==
  \/ setup_ebpf(c) \/ ClientSocketBuilder_connect(c) \/ ConnectCb(c)
  \/ SynAck(c) \/ Exchange(c) \/ Close(c)

Next == \E c \in Clients : Client(c)

Spec == Init /\ [][Next]_vars

\* Tokio runs every spawned client, and TCP sends a lost packet again.
FairSpec == Spec /\ \A c \in Clients : WF_vars(Client(c))

-----------------------------------------------------------------------------
\* A connection loses no more packets than the configuration says, whoever used
\* its port before and whichever programs are attached.
DropsWithinBudget == \A c \in Clients : dropped[c] <= Count

\* The client and the server wait for each other: no room for another packet.
Stuck(c) == stage[c] = "connected" /\ rounds[c] < Rounds /\ backlog[c] + Packet > Buffers[c]

\* Every client comes to its end, unless the echo that it leaves unread fills the
\* buffers.  When TCP sends more often than the configuration drops, and the
\* buffers hold what the rounds before the last may leave and a packet, it gets its
\* connection, sends its data and closes.
ClientsFinish ==
  \A c \in Clients :
    /\ <>(stage[c] \in {"done", "failed"} \/ Stuck(c))
    /\ Count < Attempts[c] /\ (Rounds - 1) * Unread + Packet <= Buffers[c] => <>(stage[c] = "done")
=============================================================================
