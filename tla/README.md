# TLA+ models of the Network Flow Monitor agent

The agent watches the TCP sockets of a host with an eBPF program, adds their
statistics up into flows and publishes the flows. This directory holds TLA+
models of the parts of it that are hard to test, the TLC configurations that
check them on small instances, and TLAPS proofs of the central properties for
instances of any size.

Contents: [the system](#the-system) · [modules](#modules) ·
[runs](#runs) · [proofs](#proofs) · [limits](#what-is-not-covered) ·
[further work](#further-work) · [running the tools](#running-the-tools)

## The system

### Parts and their state

| Part | State | Operations | Talks to |
|---|---|---|---|
| eBPF program (`nfm-common/src/sock_ops_handler.rs`, `nfm-bpf`) | BPF maps `NFM_SK_PROPS` (contexts), `NFM_SK_STATS` (statistics), both keyed by CPU and socket cookie; `NFM_COUNTERS` (per CPU); reads `NFM_CONTROL` | one handler per `sock_ops` callback | agent, through the maps |
| Event provider (`events/event_provider_ebpf.rs`) | socket cache, stream of the current cycle, flow cache, counters, sampling interval | `perform_aggregation_cycle`, `network_stats`, `counters` | maps, socket cache, NAT resolver |
| Socket cache (`events/sock_cache.rs`) | a wrapper per socket: context, external context, last totals, CPUs, stale / complete / cycles without context | `add_context`, `update_stats_and_get_deltas`, `perform_eviction` | event provider, NAT resolver |
| Flow statistics (`events/network_event.rs`) | levels, counters, histograms of a flow | `add_from`, `clear_levels` | event provider |
| NAT resolver (`events/nat_resolver.rs`, `utils/conntrack_listener.rs`) | ring of conntrack generations | aggregation, eviction, lookup | netlink, socket cache |
| Main loop and timer (`lib.rs`, `utils/event_timer.rs`) | heap of periodic events, exit flag, count of failed reports | `await_next_event`, `do_work` | everything, on one thread |
| Start (`lib.rs`, `event_provider_ebpf.rs`) | capabilities, the loaded program, map sizes | `on_load` | kernel |
| Publishing (`reports/`) | none between reports | `publish` | endpoint |
| Top-loss filter (`events/event_filter_top_loss.rs`) | none | sort and truncate | main loop |
| Host statistics (`events/host_stats_provider.rs`) | last reading of each device | `set_network_devices`, `get_stats` | ethtool |
| Kubernetes metadata (`kubernetes/`) | map from address and port to pod, under a mutex | two watcher tasks, `enrich_flows` | API server, main loop |
| Open-metrics server (`open_metrics/`) | thread handle, cancellation token, gauges, last interface readings | `start`, `stop`, accept loop, `update_metrics` | scrapers |
| Metadata and utilities (`metadata/`, `utils/`) | values cached from the environment | refresh | IMDS, `/proc` |
| Load generator and report verifier (`load-generator/`, `verifiers/`) | connections, BPF programs that drop packets; the agent's log | a client's life; poll, merge, compare | kernel, agent |

### How the core works

The kernel calls a handler for an event of a socket, on whichever CPU the event
was processed. `handle_new_sock` stores the socket's context in one map and
registers the socket for further callbacks, then creates an entry in a second
map. Every other handler updates the entry of *its* CPU; so one socket has as
many entries as CPUs that saw it, some fields being copies of one
counter of the kernel (bytes) and others each CPU's own part (retransmissions).

The agent runs a cycle every half second, without any lock against the handlers:
it adapts the sampling interval; copies new contexts into its cache and deletes
them from the first map; iterates over the second map and merges the entries of
each socket; subtracts the totals of the cycle before; adds the differences
to flows; and evicts sockets that are closed, stale, or without context for two
cycles, deleting their entries. Less often, the main loop takes the flows and
publishes them.

### What is hard

* Handlers and the agent interleave at every map operation. An entry that the
  agent is copying may be overwritten under its hands.
* What the agent reads of one socket was written at different times, and a
  socket may open, move to another CPU, close, or be evicted and come back in
  the middle of a cycle.
* Both maps, the cache and the flow table are bounded.
* The result is only ever a sequence of differences: a total that goes
  backwards once wraps to an enormous number, and a byte added twice cannot be
  found afterwards.

For each part, what makes it correct:

* **handlers**: every registered socket has at most one context; final values
  are stored on close; a full map is counted and loses that one event.
* **cycle**: bytes and events are credited at most once; a closed socket is
  credited in full unless a delta was visibly dropped; a context is deleted only
  once it is cached; entries are not leaked; live sockets are kept.
* **flows**: each report has exactly what was credited since the last one;
  a socket is in one level of one flow.
* **sampling**: new insertion errors are noticed; the interval stays in range
  and comes back to 1.
* **measurements**: a connect time is observed once and SYNs are counted once,
  on whichever CPUs and in whichever cycles they are seen.
* **NAT**: a connection that conntrack reported is found for three rounds, and
  what is found is what was said of that connection.
* **timer**: every event is handled again, and an exit request is noticed.
* **report**: what is lost is admitted to, and nothing is sent twice.
* **host statistics, metrics**: a delta is what was counted since the reader's
  last reading, and never contains history.
* **Kubernetes**: a flow is labelled with its own pods or not at all, and the
  map of pods follows the cluster.
* **metrics server**: one server at a time; a stop ends.
* **start**: the loop runs completely set up or not at all, and nothing stays
  behind.

`PROJECT.json` lists the hazards at the lines where they bite and the
properties that cover them.

## Modules

```
Network ──┬── SockOps ──────┐
          ├── SockCache ────┤
          └── NetworkStats ─┼── EventProvider ── EventProviderInvariant ──┬── MCEventProvider
AdaptiveSampling ───────────┘        │                                    └── EventProviderSteps ── EventProviderSockets
        └── SamplingControl       FlowLedger (INSTANCE)                                        │
                                                                  SumTheorems ── EventProviderSums ── EventProviderProofs
```

| Module | Models |
|---|---|
| `Network` | `SockContext`, `SockStats`, `add_from`, `subtract` (`network.rs`) |
| `SockOps` | the kernel's sockets, every handler, the two hash maps |
| `SockCache` | `SockWrapper` and `SockCache`, as functions on caches |
| `NetworkStats` | a flow's counters and levels |
| `AdaptiveSampling` | increase and decrease of the sampling interval |
| `EventProvider` | the composition: handlers, aggregation cycle, reports |
| `FlowLedger` | abstract specification: what the provider promises about a counter |
| `EventProviderInvariant` | the inductive invariant |
| `EventProviderSteps`, `EventProviderSockets`, `EventProviderSums`, `EventProviderProofs` | the proofs, each extending the one before |
| `SumTheorems` | sums over finite sets of any size, for the proofs |
| `MCEventProvider` | constants and symmetries for TLC |
| `SamplingControl` | the sampling feedback loop with its wrapping counters |

The other components do not share state with that composition or with each
other, beyond what their environment actions stand for. Each is a module of its own
(a module that extends another is listed after it):

| Module | Models |
|---|---|
| `ConntrackListener` | the netlink socket and its drain |
| `NatResolver` | the ring of conntrack generations, look-up, storing in the cache |
| `NatTable` | abstract specification of `NatResolver`: mappings that age, answers that stay |
| `FlowStats` | RTTs, connect times, connection attempts, severed connections |
| `FlowKey` | from the kernel's words to the key and the labels of a flow |
| `TopLoss`, `TopLossLists` | the loss filter; its lists for TLC |
| `ReportCycle` | a report from the flow cache to the endpoint's answer |
| `ReportOtlp` | a report's values as OpenTelemetry data points |
| `EventTimer` | the timer and the main loop around it |
| `Startup` | `on_load`, step by step |
| `HostStats` | metadata of the interfaces, deltas of their counters |
| `SystemMetrics` | the two readers of the host statistics |
| `CpuUsage` | CPU usage from clocks of seconds and nanoseconds |
| `VpcCidr` | the blocks of the VPC and the test of an address |
| `KubernetesMetadata` | two watchers, their map, labelling of flows |
| `InterfaceMetrics` | the join of four sources, deltas per pod |
| `OpenMetricsServer` | server thread, owner, clients |
| `LoadGenerator` | clients of the load generator and their BPF programs |
| `ReportVerifier` | the verifier of the integration tests |
| `NatProofs` | proofs about `ConntrackListener` and `NatResolver` |
| `ReportProofs` | proofs about `TopLossLists`, `ReportCycle` and `SamplingControl` |
| `AgentProofs` | proofs about `SystemMetrics`, `EventTimer`, `OpenMetricsServer`, `Startup` and `CpuUsage` |
| `MCFlowPath`, `MCHost`, `MCLiveness` | instances for TLC of all of these |
| `MCHostStats`, `MCKubernetesMetadata` | instances for the two runs that end in a violation |

### State and actions of `EventProvider`

Variables named like a map or a field of the code stand for it. Besides those:
`tcp_state`, `kernel_bytes`, `cb_flags` are the kernel's; `opening` holds the
sockets whose `handle_new_sock` is between its two maps; `pc`, `cycle_us`,
`todo`, `new_cpu_sock_keys`, `copying`, `to_evict` are the local state of
`perform_aggregation_cycle`; `counted_events`, `credited`, `window`, `dropped`,
`finished` and `torn_close` are history that no step depends on.

| Action | Code |
|---|---|
| `handle_connect`, `handle_passive_established`, then `handle_new_sock_stats` | `handle_new_sock`, cut between its two maps |
| `handle_state_change`, `handle_rtt`, `handle_rto`, `handle_bytes_transferred_event` | the handlers of the same names (`handle_rto` is also `handle_retransmit`) |
| `StartCycle` | sampling, clock, start of the iteration over contexts |
| `ReadProps`, `PropsRead` | one context of the iteration; its end |
| `FreeProps`, `PropsFreed` | deletion of one context that was read; start of the iteration over statistics |
| `CopyStats`, `aggregate_sock_stats` | the two halves of the copy of an entry; the second also merges it |
| `Aggregate` | deltas, NAT, flows, eviction from the cache: memory of the agent only |
| `perform_bpf_eviction`, `EndCycle` | deletion of one entry; end of the cycle |
| `network_stats` | the main loop takes the flows |

Abstractions and assumptions about the environment:

* A cookie names one connection. A socket that the program does not accept
  (sampled out, invalid context, map full, registration failed) makes no more
  callbacks, because only registered sockets do.
* The kernel runs one socket's callbacks one at a time. A handler is atomic,
  except for `handle_new_sock`. After the change to `CLOSE` the kernel still calls
  back for a reset that it sends (`ResetCallback`), with nothing transferred
  since; no other callback follows.
* Reading an entry of a BPF map succeeds. The code skips an entry that it cannot
  read (`flatten`), which the kernel allows only when an entry is deleted under
  the iteration, and only the agent deletes.
* An iteration over a BPF map visits every entry that stays from its beginning
  to its end, and any entry inserted meanwhile, once. Only the agent deletes.
* An entry is copied in two halves, split where `SockStats` has its timestamps
  and kernel counters before its own counters and flags.
* One field represents each class of statistics: `bytes_received` (kernel
  counter, merged with max), `bpf_events` (handler counter, merged with +),
  `last_touched_us`, `state_flags`.
* A context is the flow it belongs to. What the NAT resolver knows may change
  arbitrarily from cycle to cycle within `NatTables`.
* A flow keeps the share of each socket instead of the sum of the shares, so
  that properties can speak of one socket.

`FlowLedger` knows three things: what sockets transferred, what of it was
credited, and which sockets were reported as completed. `EventProvider`
implements it with `transferred` = the kernel's counters, `credited` = the sum of
everything ever added to flows, `completed` = sockets that `sockets_completed`
counted.

### `SamplingControl`

Handlers count failed insertions per CPU (`insertion_error`); a cycle reads and
sums the counters or fails to (`ReadCounters`, `ReadFails`), decides by the
difference, and sends the interval; a report publishes the difference to the
report before (`counters`). `EventProvider` has the same decision with a Boolean
in place of the counters. All arithmetic is modulo `CounterModulus`.

### The path of a flow

* **`ConntrackListener`**. `KernelSends` queues a message or, when the buffer is
  full, marks an overrun; `StartDrain`, `RecvMessage`, `RecvFails` and
  `RecvWouldBlock` are the loop of `get_new_entries`, between whose reads the
  kernel goes on sending. A message is a pair of 5-tuples or does not parse.
  What is kept, and how a source within the VPC replaces SNAT's, is
  `accepted` and `normalized`.
* **`NatResolver`** extends it: `Start`, `Drain` and `perform_aggregation_cycle` for
  a drain, `Aggregate` for the rest of `aggregate_event`: new sockets,
  `store_beyond_nat_entries`, sockets evicted, `perform_eviction` of the ring.
  Addresses are model values; a mapped IPv6 address is a pair, and
  `ipv6_to_ipaddr` takes it apart. `since` is history. It implements `NatTable`
  with `entries` = all slots' mappings, aged by their distance from the index, and
  `external` = what the cached sockets found. `NatTable` has two steps: `Learn`, a
  drain, and `Round`, in which sockets without an answer look for one and mappings
  age. An answer is any mapping of the socket's connection that is still known, since
  `get_beyond_nat_entry` takes the first slot that has one, not the newest.
* **`FlowStats`**. `EventProvider` keeps one field of each class of statistics;
  this module has those whose *values* matter, of one socket on two CPUs, the connect
  counters and times that `SockOps` leaves out among them:
  `Handler` is every handler with its timestamps, `Aggregate` one whole cycle
  (the CPUs' entries are merged in any order), `Publish` a report.
* **`FlowKey`**. Ports and addresses are sequences of bytes in the order in
  which the kernel has them; `Observe` makes a context, a flow and its labels.
  Two words of two bytes to the base 3 stand for IPv6 addresses.
* **`TopLoss`** has no state: the filter and its score, with saturating
  arithmetic at `MaxU32` and `MaxU64`. `TopLossLists` enumerates lists.
* **`ReportCycle`**. `AggregateEvent` and `PublishEvent` are the two handlers of the
  main loop; `RequestFails` (no credentials or no connection),
  `SendRequest`, `AnswerArrives`, `RequestTimesOut`, `PublishDone` follow
  the publishers in their order. The endpoint accepts or refuses a request at any
  time (`EndpointAnswers`), also after the agent has given it up; requests get lost.
* **`ReportOtlp`**. The functions of `build_export` in their order, on a report with
  one field of each type, and the platform and Kubernetes attributes that two
  providers take from the same environment variables. A `u64` becomes an `i64` modulo
  `2 * Half` or, in a flow's histograms, an `f64`, which is rounded to the nearest
  beyond `Exact`.

### The main loop and the start

* **`EventTimer`**. `add_event`, `await_next_event`, `try_sleep` (one fragment) and
  `Work` (a handler that takes up to `MaxWork`). Times are relative to the
  clock, so that the state space is finite without bounding time; `Signal`
  raises the flag. A subtraction that underflows ends the agent (`panicked`): every
  build profile has overflow checks and aborts.
* **`Startup`**. One action per step of `on_load`, each of which may fail; `Kill`
  at any time. A program that is attached belongs to the process and goes with
  its link. Map sizes are computed from the memory of the host.

### Host and cluster

* **`HostStats`**. `Refresh`, `SetNetworkDevices`, `LoadNew`, `StartGetStats`,
  `ReadStats` (one device) and `GetStats` are the steps of a report; interfaces are
  attached, detached and count in between. `Faults` names the commands that may
  fail, the first reading of a device and the test for virtual devices among them,
  and `HotUnplug` whether a device may vanish within a report. `excess` is the
  history that a failed first reading lets into a delta.
* **`SystemMetrics`**. `publish_event` and `update_metrics` each read everything in
  one step, against interfaces that come, go and count.
* **`CpuUsage`, `VpcCidr`**. Clocks of seconds with `NSEC_PER_SEC` = 3, words of 3
  bits; every reading and every line the metadata service may print.
* **`KubernetesMetadata`**. The cluster creates pods, gives them addresses, deletes
  them and updates endpoint slices; each change is an event in the stream of one
  watcher. A watch that breaks is followed by a list of everything.
  `HandlePodEvent` and `HandleEndpointSliceEvent` apply one event to the map;
  `EnrichFlows` labels the flows of a report. Pods of the host network share an
  address, and those without ports the virtual port 0 of it; two pods may have one
  name in two namespaces, which `enrich_flows` does not tell apart (`NameOf`).
* **`InterfaceMetrics`**. `environment_info`, `parse_all_interface_links` and
  `get_metrics` are the reads of one update, in order, while pods come and go.
  A pod stands for its address and its interface. The kernel gives a namespace the
  lowest free id (`FreeId`), also one that was freed during the update.
* **`OpenMetricsServer`**. `start`, `stop`, `StopReturns`, `Drop` are the owner's;
  `Bind`, `Accept`, `HandleRequest`, `ConnectionCancelled` (back to the accept loop),
  `Cancelled` (out of it) and the failures a thread's. Clients may ask, and never close.
* **`LoadGenerator`**. A client attaches its programs, configures its drops,
  connects through whatever programs are attached, sends and closes. The programs see
  the packets to the client: SYN-ACKs are dropped and sent again. Echoes that are not
  read fill the sockets' buffers, and client and server may wait for each other.
* **`ReportVerifier`**. Connections make traffic, the agent logs reports at a period
  with jitter, its first one with its start in it, the log is truncated between
  tests, and the verifier polls until it passes or time is up. All checks are there but
  those against fixed strings and versions; fields that are checked alike are one field.

## Runs

Ten runs pass. Two show a disagreement between the code and a comment in it,
and end in a violation on purpose.

| Run | Instance | Checks | States |
|---|---|---|---|
| `cpus` | 1 socket, 2 CPUs, 2 bytes | the inductive invariant with all types; evictions find their entries; byte deltas do not wrap; no byte counted twice; closed sockets counted in full; `FlowLedger` implemented | 447 k |
| `events` | 1 socket, 2 CPUs, 2 counted events | the same for counters that are summed over CPUs | 206 k |
| `stale` | 1 socket, 1 CPU, clock 1..4, no-track 2 | a socket completes once; live sockets are kept | 768 k |
| `nat` | 1 socket, 2 flows, any NAT entry | reports hold exactly the window; one level in one flow | 27 k |
| `limits` | 2 sockets, 2 flows, every capacity 1 | contexts freed only once cached; closed sockets counted in full under competition | 1.36 M |
| `live` | 1 socket, 2 CPUs, no bytes | closed sockets, orphans and contexts leave the maps | 25 k |
| `sampling` | 2 CPUs, interval up to 1000, counters modulo 3, 17 errors, 1 failed read | errors noticed; reports add up; recovery to 1 | 1.3 M |
| `flow_path` | the modules of "the path of a flow" | see below | 331 k |
| `host` | `Startup` and the modules of "host and cluster" but the server and the load generator, with `ReportVerifier` | see below | 972 k |
| `liveness` | `EventTimer`, `ReportCycle`, `OpenMetricsServer`, `KubernetesMetadata`, `LoadGenerator` with fairness | see below | 24 k |
| `host_unplug` | `HostStats`, a device may vanish within a report | `DeltasAreGrowth`, violated | |
| `kubernetes_deleted` | `KubernetesMetadata` with deletions | `GoneWhenDeleted`, violated | |

One socket, two map-compatible flows or two CPUs at a time suffice for
`EventProvider` because the code never relates two sockets except by competition for
capacity, which `limits` has.

`flow_path`, `host` and `liveness` each hold several independent instances: the
variable `component`, chosen in the initial state, says which module a
behaviour belongs to, and the others stand still. Modules that a theorem is
about (`NatResolver`, `TopLossLists` and `ReportCycle` in `flow_path`; `Startup`,
`CpuUsage` and `SystemMetrics` in `host`) have their own variables there, so that
a run checks the very definition that the theorem is about. The others share
the variables `s1`, `s2`, ...; a property of one of them is the conjunction of
the module's properties, under the condition that the behaviour is of that module.

| Property | Of | What it says |
|---|---|---|
| `DrainReturnsNat` | `ConntrackListener` | a drain returns the NATed TCP connections it read, in order and with sources in the VPC, or nothing |
| `ImplementsNatTable` | `NatResolver` | the ring implements the table of aging mappings; a look-up answers with a mapping of the socket's own connection from a round that is still known, and the answer stays |
| `FindsOwnConnection` | `NatResolver` | a connection is found for exactly three rounds after it was last reported, and as conntrack described it |
| `MeasuredOnce` | `FlowStats` | attempts are SYNs; a connect time is observed once; the order of the CPUs does not matter, and the RTTs of a CPU not touched since are left out; histograms agree with each other |
| `FlowsNameTheirSockets` | `FlowKey` | a flow names the endpoints of its sockets; labels are shared by connections of the same hosts to the same service, and by no others |
| `KeepsWorstFlows` | `TopLoss` | the filter keeps whole flows, drops the least loss, is stable |
| `ReportsAreHonest` | `ReportCycle` | lost reports are admitted to; accepted ones are not called failed; nothing is in two reports; the peak is of its period; `ReportInvariant` |
| `NumbersArrive` | `ReportOtlp` | every flow arrives with its numbers, to the precision of an `f64`; all other numbers lose no bits; the latest usage, and a platform that fits the Kubernetes attributes |
| `StartsWholeOrNot` | `Startup` | what runs has been set up, without the capability or after a warning; maps stay in their share; nothing outlives the agent |
| `DeltasAreGrowth` | `HostStats` | a delta is what was counted between two reports, and after a first reading that failed also the history, deltas add up, virtual devices are not read, an identity does not change |
| `ReadersAreIndependent` | `SystemMetrics` | each reader is told every event once; `MetricsInvariant` |
| `DecidesMembership` | `VpcCidr` | the test of an address agrees with the definition of a block |
| `UsageIsExact` | `CpuUsage` | both times of the ratio are exact across a borrow |
| `LabelsFollowCluster` | `KubernetesMetadata` | with the streams drained, service ports are labelled as the cluster says, other ports with their pod, and a virtual port with one of the pods that share it; flows get their own pods or no label, up to pods at one address that the map does not tell apart |
| `GaugesAreTraffic` | `InterfaceMetrics` | a gauge is of the pod it names, unless its interface was created during the update with the id of a namespace deleted during it; deltas do not wrap, cover the traffic and, without failures and such labels, are no more |
| `VerdictIsRight` | `ReportVerifier` | merged reports are one report of everything; a pass means that all is there and the agent was in good order; what is there in time is found unless the log has the agent's first report, an error or a usage out of range |
| `MainLoopGoesOn` | `EventTimer`, `ReportCycle` | events are handled for ever, late by at most one round of handlers and the events that a long jitter puts ahead; scheduling fails only at the start; a signal ends the loop; a publication ends; `TimerInvariant` |
| `ServerStops` | `OpenMetricsServer` | one server, ending only when stopped; stop and drop end; `ServerInvariant` |
| `PodsBecomeKnown` | `KubernetesMetadata` | a pod that keeps its address becomes known, though watches break |
| `ClientsFinish` | `LoadGenerator` | every client finishes or has its buffers full of echoes that it does not read, which cannot happen when they hold what all rounds may leave; no more packets are dropped than configured |

Bounds, and why they are enough:

* `MaxBytes = 2` lets a CPU's copy be behind, equal to and ahead of another's,
  with a transfer on each side of a copy; `MaxEvents = 2` lets both CPUs or one
  of them count. `CounterModulus = 16` is above both, so that a value that
  wraps is a violation and not a coincidence.
* `StartTime = MaxTime = 3` with `NoTrack = 2` stops the clock after boot where
  time does not matter: a context is then dated `3 - 1`, a fresh entry 3 and
  the staleness limit is 1, which keeps the order they have in the code. `stale`
  lets time pass from 1, where `now - notrack` saturates, through the whole
  no-track period.
* `MaxSamplingInterval = 2` in the runs of `EventProvider` gives the handlers an
  interval of 1 and of more than 1, which is all they distinguish; `sampling` has
  the real limit, and 17 errors are just enough to reach it.
* A netlink buffer of one message and drains of two reach an overrun in the
  middle of a drain. The ring has its real three slots and no bound on rounds.
  One tuple that is translated in two ways is the reuse that the order of the
  look-up could confuse.
* `FlowStats` is instantiated twice, for SYNs (one retransmission) and for RTTs (two
  samples, each with or without a value, at three times), since the two do not meet
  in the code. Three times let one CPU's entry be older than the cached total.
* Two reports of two flows, each with up to two bytes, suffice for the accounts of
  `ReportCycle`; a second instance with fewer bytes and no losses has three reports,
  so that two failures follow each other before one that is received.
* `Half = 16` and `Exact = 8` with the numbers 7, 11 and 31, `MaxU32 = 7`, `MaxU64 = 10` and words of 3
  bits are on both sides of the limits at which the code's arithmetic turns.
* Hosts have two interfaces and a virtual device, two changes and one fault: an
  interface goes and comes back, with a failure before or after. Clusters have four
  pods, three of them on the host network, two of these without ports and two with
  one name; two changes and one broken watch or, where pods and slices are deleted,
  three changes, in any order with the creation of the pods. A pod that was deleted
  does not come back.
* Two pods and two changes within three updates of the interface metrics are the least
  that gives a namespace id to a second pod during an update, and lets a pod come
  back with counters below the remembered ones.
* The verifier's log may hold a report from before the traffic, truncated or not, and
  at most one report of an agent that is idle, overloaded or in error.
* Of three clients of the load generator one has buffers that are too small and one TCP
  gives up; the third finishes.
* The timer has three events (`NumEvents`) with different periods, one with jitter and one
  with a delay, right after boot and later. A second instance has handlers that take
  four units, as long as the shortest period; a third has a jitter of five times the
  period, on hosts that have been up for less than the difference and for more.
* Three starts of the server let a thread meet the token of two others.
* Model values of CPUs, flows and sockets are symmetric in the safety runs of
  `EventProvider`, CPUs and the flows of a report in `flow_path`, since the modules
  only compare them for equality. Runs with liveness, `sampling` and `host` use no symmetry.
* `flow_path`, `host`, `liveness` and `kubernetes_deleted` do not check for
  deadlock: agents exit, hosts are killed, clients finish and bounds are used up.

What the runs of `EventProvider` showed beyond "pass": three exceptions in the
properties are needed, each a behaviour of the code. A socket's first delta is lost
if its statistics are seen before its context (`dropped`); so are deltas of flows
beyond the table's limit. A close that overwrites an entry while it is being copied
loses the bytes since the last cycle (`torn_close`). And a socket whose
callback comes during the cycle that finds it stale is still given up
(second disjunct in `LiveSocketKept`).

### Where the code differs from its comments

* `host_unplug`: "Preserve prior stats on error." (`host_stats_provider.rs:162`)
  does not hold when `ethtool` runs but fails, as it does for a device that
  vanished after the devices were listed: its exit status is not looked at, the
  reading is zero, and the wrapping difference to the reading before is close
  to 2^64. In `host`, devices vanish between reports only, and one that comes back
  does so after a report without it.
* `kubernetes_deleted`: "On delete events we remove associated entry from our
  internal map." (`kubernetes_metadata_collector.rs:157`) does not hold when the
  delete of a pod is handled before an older event of its endpoint slice, which
  enters the pod again; the later slice without the pod removes nothing. In
  `host`, the instance with deletions checks the ports that no service has.

A third disagreement has no run of its own, because it is the exception that
`DeltasAreGrowth` states: "Stats must be loaded now for newly added devices so that we
don't treat historical values as large deltas." (`host_stats_provider.rs:89-90`) does
not hold when that first reading fails. `unwrap_or_default` takes it for zero, and the
next report has the history of the device as a delta (`excess`).

Further behaviours that the modules have and no comment or test of the
repository contradicts:

* The exit flag is looked at only while the loop sleeps. With handlers that
  always take longer than the shortest period it never sleeps, and a signal goes
  unnoticed; `SignalEndsAgent` is therefore checked with `MaxWork = 1`.
* A jitter longer than its period, which the options do not refuse, makes the
  subtraction underflow when the agent starts within the difference after boot.
  Once the loop runs it cannot (`SchedulingSucceeds`).
* Of the mappings of a connection in several slots of the NAT ring the one in the
  first slot is taken, whatever its age.
* Pods of the host network without ports share one entry of the pod map: all but the
  first are labelled with it, and deleting any of them removes it.
* An interface that is created while the interface metrics are updated may be labelled
  with a pod that was deleted during the update; the next update corrects it.
* A connection that is severed while it opens is counted in every cycle that
  still sees its flags.
* RTTs are accepted again from a CPU whose entry was last touched at exactly the
  time of the cached one.

### Fairness

`EventProvider`'s `FairSpec` assumes weak fairness of the agent's cycle, because
`do_work` loops for ever and every aggregation event is rescheduled, and of the
second half of `handle_new_sock`, because the kernel does not stop in the middle of
an eBPF program. Nothing is assumed of the network or the applications: sockets may
stay open and silent for ever, and time may stop. `SamplingControl` assumes weak
fairness of the cycle only; its bounds on errors and failed reads say that
both stop at some time, which is the premise of recovery.

The other modules assume fairness, weak but for one action, of threads that are always
ready to run, and nothing of what they wait for:

* `EventTimer`: of the loop's `Step`. Handlers end, which `ReportCycle` shows of
  the one that waits for another host. Signals need not come.
* `ReportCycle`: of `Agent`. The endpoint may never answer: the request then
  times out, which is an action of the agent. The credentials provider is
  assumed to answer or to fail.
* `OpenMetricsServer`: of `StopReturns` and of each action of a thread, because a
  task that is woken is polled. `Cancelled` is strongly fair: when a connection and
  the cancellation are both ready, `select!` takes a random one, and does not take
  connections for ever. Clients may stop asking and never close.
* `KubernetesMetadata`: of the two watchers, which are tasks of one runtime.
  Nothing makes the cluster change.
* `LoadGenerator`: of each client's steps, including TCP's retransmissions.

## Proofs

### The event provider

`EventProviderProofs` proves, for any sets of sockets, CPUs and flows, any
capacities, any no-track period and any NAT tables, every safety property that
the runs of `EventProvider` check:

| Theorem | States |
|---|---|
| `InvariantHolds` | `Spec => []InductiveInvariant` |
| `TypeCorrect` | all variables keep their types |
| `EvictionIsSafe` | `EvictionFindsEntries` |
| `DeltasAreSafe`, `EventDeltasAreSafe` | `BytesDoNotWrap`, `EventsDoNotWrap` |
| `BytesCountedOnce`, `CallbacksCountedOnce` | `NoDoubleCounting`, `EventsCountedOnce` |
| `CompletionCountedOnce` | `CompletedOnce` |
| `ClosedSocketsArePaid` | `ClosedSocketFullyCounted` |
| `ReportsHoldTheWindow`, `LevelsAreDisjoint` | `FlowsHoldTheWindow`, `LevelsCountSocketsOnce` |
| `ContextIsKept`, `LiveSocketsAreKept` | the action properties `ContextFreedOnceCached`, `LiveSocketKept` |
| `RefinesLedger` | `Spec => ImplementsLedger` |

Assumptions, all evaluated by TLC in the runs: a default context is not a valid
one; counters are wide enough for what one socket transfers (`MaxBytes`,
`MaxEvents` below `CounterModulus`); the limit of the interval is at least 2;
the no-track period and the time at which the agent starts are positive; NAT
maps flows to flows; CPUs and flows are finite sets, since a sum over them is
spoken of.

The argument. `NoDoubleCounting` is not inductive: whether a delta may be added
depends on what the cache, the stream, a half-made copy and the entries of all
CPUs say about each other. `CoreInvariant` says it in six parts besides the types:

1. `PhaseInv`: each work list is empty outside its phase.
2. `EntryInv`: whatever names an entry names one that exists, because only the
   agent deletes, and what it deletes belongs to sockets no longer cached. This
   is `EvictionFindsEntries`, and `TypeOK` needs it too.
3. `BytesInv`: a copy of the kernel's counter is at most its original: entry,
   half-made copy, stream, cache. For the last two "original" means *some* CPU's
   entry among those merged, since the merge is a maximum.
4. `IterationInv`: during the iteration, the bytes cached for a socket are
   either still ahead, in an entry to be visited, or already in the stream.
   When nothing is left to visit this gives `BytesDoNotWrap`.
5. `ContextInv`: a socket has one context; before it is read nothing is credited.
6. `CreditInv`: while a socket has a context, what was credited is at most what
   is cached, so a delta adds at most the rest. A socket that is evicted has no
   context any more and gets none again, so it is neither credited nor completed
   a second time.

`InductiveInvariant` adds, each part inductive given the core:

7. `EventsInv` and `EventIterationInv`: the same two arguments for counters that
   are *summed* over CPUs. What the stream or the cache has of a socket is at most
   the sum of its entries on the CPUs it names; during the iteration, the sum in the
   cache is at most the stream's and the entries of its CPUs that are not in the
   stream yet. No CPU is merged twice, because a key under copy is not in the stream.
8. `ClosedInv`: a `CLOSED` flag comes with the final value of the kernel's counter,
   in an entry and, unless the entry was torn, in the stream; what the cache has
   was credited unless a delta was dropped; a socket that is finished has no
   context left to read.
9. `TouchInv`: the clock of a cycle is not ahead, and every entry was touched
   since the cycle began, is still to come, or is in the stream with its time.
   Hence the age that a round sees is the age of the latest callback on any CPU.
10. `FlowsHoldTheWindow` and `LevelsCountSocketsOnce`, which need no more than
    the core: a round adds a delta to one flow and the window alike, and clears
    the levels it sets anew.

`EventProviderSteps` has the type lemmas of all operators and the preservation
of `TypeOK`, what the handlers may do to the maps (`KernelMoves` reduces them to a
few ways), and that the handlers and the short steps of a cycle preserve the core.
`EventProviderSockets` shows it of reading contexts, merging entries and the round that
moves the deltas to the flows, and is about closed and recently seen sockets;
`EventProviderSums` is about flows and callbacks; `EventProviderProofs` has the theorems.

`SumTheorems` proves what they need of `SumFunctionOnSet`: that the recursion it
chooses a solution of has one on every finite set, that the order of the elements does
not matter, and from these how sums compare, split and change. Induction over a
finite set is written as the choice of a counterexample that is minimal for inclusion
(`MinimalSet`, from the well-foundedness of the strict subset order).

### The other components

`ReportProofs`, one section per component; the components share no variable:

| Theorem | States | Assumes |
|---|---|---|
| `WorstFlowsAreKept` | `KeepsWorstFlows`, for any list and any limit of the filter | counters hold naturals; `MaxU32 <= MaxU64` |
| `ReportsStayHonest` | `ReportsAreHonest`, for any flows, number of reports, samples and answers | `top_k` and the sampled usages are naturals |
| `ReportsSettle` | `ReportsAddUp` | finitely many CPUs, counters of at least two values |
| `ErrorsAreNoticed` | the action property `ErrorsNoticed` | the same |

`AgentProofs`, in the same way:

| Theorem | States | Assumes |
|---|---|---|
| `EachReaderToldOnce` | `ReadersAreIndependent`, for any interfaces and any interleaving | the interfaces at the start are interfaces |
| `NoEventForgotten` | each event is in the heap or is being slept for; scheduling underflows only while the events are added, at a boot time below jitter - period | none on jitter or period; `SafeUptime` is at least every jitter |
| `OneServerUntilStopped` | there is one server at a time, and the one the owner holds ends only if it could not bind | threads are numbered, and no number is `NoHandle` |
| `AgentStartsWhole` | `StartsWholeOrNot`, for any memory, any limits of the maps, and wherever the start fails or is killed | the limits are naturals in their order, the divisor is positive |
| `UsageStaysExact` | `UsageIsExact`, for any resolution of the clocks and any number of cores | `NSEC_PER_SEC` is positive |

`NatProofs`:

| Theorem | States | Assumes |
|---|---|---|
| `DrainsAreNat` | `DrainReturnsNat`, for any messages | the two tuples of a message have one protocol |
| `NatIsFound` | `FindsOwnConnection`, for any connections and sockets | a socket's context is of the connection it sends with, its addresses as they are or mapped; `None` is no context |
| `RefinesNatTable` | `NatSpec => ImplementsNatTable` | the same |

TLC evaluates the assumptions on constants in the runs named above. Each theorem
rests on an inductive invariant. `ReportInvariant`, `BytesInvariant`,
`MetricsInvariant`, `TimerInvariant`, `ServerInvariant`, `ListenerInvariant` and
`NatInvariant` are part of the properties that the runs check; the others
(`ListsInvariant`, `SamplingInvariant`, `UsageInvariant`, `StartInvariant`) are
established by their proofs alone.

* `ReportInvariant`. That a received report is honest about the past cannot be
  shown from received reports alone: its count was taken from
  `failed_reports_count` when it was made. So the invariant says that at rest
  the last `failed_reports_count` reports are those not known to be accepted and
  the endpoint can account for all before them (`Honest`), and the same of
  every report, made, on its way or received, as of the time it was made. A report
  that is answered while it is waited for is the only one that resets the count,
  and it is then in `received`. `HonestGrows` shows that later steps do not take
  honesty away.
* `BytesInvariant`. Nothing is reported twice because the bytes of a flow in all
  reports that are being published, on their way or received and those in the flow
  cache are together at most what the flow transferred. The reports are identified by their numbers, of which
  the last one built is the largest; `ReportOfCache` shows that a report has of
  each flow what the cache had, or nothing where the filter dropped it, and
  `BytesInOneMore` what one more report adds to the sum.
* `ListsInvariant`. What was kept is what the filter makes of the list: a prefix of
  its sorted form. `sorted` puts each element at the place given by how many go before it
  (`Place`); `PlacesAreUnique` shows, by counting, that no two get the same place
  and that every place is taken, from the order being total (`BeforeIsOrder`).
  `LossSaturates` shows that saturating at every addition is saturating once.
* `SamplingInvariant`. The counters of the CPUs add up to the errors, the last good
  reading to the errors seen and the reports to what they ended with, each
  modulo the width of a counter; and fewer errors than that are unread. A failed
  read leaves 0 in place of the reading, which is why the reading is one or the
  other. `WrappedSum` shows that adding up with wrapping additions is the remainder
  of the sum, on any finite set of CPUs; the lemmas on remainders hold for any width.
* `UsageInvariant`. While the clocks could be read, the monitor has two times of
  the past. `DeltaIsExact` shows that `clock_delta` then is the difference, to
  the nanosecond, and never trips its assertion.
* `MetricsInvariant`. What a reader was told and what it must not be told make
  up its last reading of each interface, which is at most the counter; a reader
  was told nothing of an interface it has not read. An interface that was
  detached needs its own clause, since its reading is kept until the next report.
* `TimerInvariant`. Types, the order in which the events are added, and which event
  was popped last. The time since boot is followed up to `SafeUptime`, which is
  assumed to be at least every jitter: beyond it the subtraction cannot underflow. An
  event that could be added can be scheduled at every later time (`ClockGrows`), so that the
  invariant has it of all events once the loop runs, and the only way into
  `panicked` is `add_event` at the boot time.
* `ServerInvariant`. A thread that the owner neither has nor waits for has
  exited, which gives `OneServer`; the owner's token is not cancelled unless it is
  waiting, and the thread it has was given that token, so a thread cannot be ended by an
  earlier run's token.
* `ListenerInvariant`. The entries of a drain are, in order, what `normalized` makes of
  the accepted messages that it read.
* `NatInvariant`. `KnownForThreeRounds` speaks of the first slot that has a
  connection, whatever its age, and is not inductive. The invariant says that everything
  in the ring is what conntrack said of some connection, and that the *youngest*
  slot that has a connection is as old as its last report (`since`), so that a
  connection leaves the ring exactly when `since` forgets it. For the refinement,
  a drain is one `Learn` of `NatTable` with the mappings of the last entry for each
  connection (`LastPlace` finds it, by well-foundedness), and the end of an
  aggregation, with its look-ups and the eviction, is `Round`.
* `StartInvariant`. What each step of `on_load` finds done. The kernel's version is
  part of it: an attached program does not outlive an abort because no kernel on which
  it would gets past `check_kernel_version`. `MapSizes` has the arithmetic.

### Only model-checked

* All liveness: `ClosedEventuallyReleased` and the other properties of `live`,
  `SamplingRecovers`, and what `liveness` checks. The prover has no rule for
  fairness and no `ENABLED`. `BoundedLateness` of the timer is a part of
  `MainLoopGoesOn` that would be in reach.
* `DecidesMembership`: bit operations are out of the prover's reach.
* `FlowsNameTheirSockets` and `NumbersArrive`: conversions of bytes, words and numbers
  of a few bits, which TLC goes through; a proof would be about recursion over bytes.
* `MeasuredOnce`, `DeltasAreGrowth`, `LabelsFollowCluster`, `GaugesAreTraffic` and
  `VerdictIsRight`: no invariant has been worked out for them.

## What is not covered

* Reuse of a cookie by a second connection.
* A crash of the agent during a cycle: the maps belong to the loaded program and go
  with it (`Startup`), so that a restart begins in `Init`.
* The Remote NAT resolver for Kubernetes (`remote_nat_resolver.rs`): no module
  declares it and it is not compiled.
* What is input and output only: signing, compression and the HTTP client
  of the publisher; the parsing of IMDS answers and of command output, beyond what
  it says; netlink sockets, `sock_diag`, memory inspection, the command
  runner, credentials and the crypto provider.
* The service's metadata, which are constants of the build.
* Options, which `clap` parses; `Startup` has those that change what is started.
* The mocks of the unit tests, which have no behaviour of their own.
* Interactions of the components that the main loop does not order: there are
  none but those through the metrics server's thread (`SystemMetrics`), the watchers
  (`KubernetesMetadata`, `InterfaceMetrics`) and the maps (`EventProvider`).

## Further work

1. `CookieReuse`: `SockOps` with a second connection on the same cookie.
2. Proofs of `MeasuredOnce` (an invariant on the timestamps of two CPUs), of
   `DeltasAreGrowth` along the lines of `MetricsInvariant`, and of `BoundedLateness`.

## Running the tools

```
tlc -workers 2 -config EventProviderCpus.cfg MCEventProvider
tlc -workers 2 -config FlowPath.cfg MCFlowPath
tlc -workers 2 -config Liveness.cfg MCLiveness
tlapm SumTheorems.tla
tlapm EventProviderSteps.tla   # then Sockets, Sums, Proofs
tlapm NatProofs.tla            # ReportProofs, AgentProofs
```

The runs take from ten seconds to four minutes each, a proof module from half a
minute to fifteen. Definitions whose comment begins with "Mutant of" are deliberately wrong
variants of a definition; each property is violated when one replaces it.
