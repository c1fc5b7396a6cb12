-------------------------- MODULE InterfaceMetrics --------------------------
(***************************************************************************)
(* InterfaceMetricsProvider on a Kubernetes node                           *)
(* (open_metrics/providers/interface_metrics_provider.rs and its           *)
(* discovery.rs, namespace_manager.rs, netns_stats.rs and types.rs).       *)
(* update_metrics joins what four sources say, read one after the other    *)
(* while pods come and go: lsns and nsenter (namespace -> addresses), the  *)
(* collector (address -> pod), "ip link" (interface -> namespace) and      *)
(* /proc/net/dev with the namespaces' TCP counters.  A pod stands for its  *)
(* address and for its interface, whose name is the same in each of its    *)
(* lives.  A key is an interface with the pod it is labelled with; the     *)
(* gauges get the difference to the values kept under the same key from    *)
(* the previous update.                                                    *)
(***************************************************************************)
EXTENDS Naturals, FiniteSets, FiniteSetsExt

CONSTANTS Pods,
          Physical,    \* interfaces of the node that are not virtual
          Carried,     \* the counters that traffic moves
          MaxTraffic, MaxChanges, MaxFaults, MaxUpdates \* bounds

VARIABLES
  netns,           \* live pod -> id of its namespace on the host
  up,              \* pods whose interface is up
  traffic,         \* pod -> counters of its life, seen from inside the pod
  known,           \* pods of the collector's ip_to_pod_mapping
  pc,              \* "new", "idle", "links", "stats"
  ns_info,         \* the update's namespace id -> pod that has the addresses
  pod_info,        \* the update's pods with a mapping
  links,           \* the update's interface -> namespace id
  current_metrics, \* key -> counters at the last update
  gauges,          \* key -> last delta
  fresh,           \* history: pods created since the update read the namespaces
  crossed,         \* history: [key, update] of the keys that fresh pods' interfaces got
  reported,        \* history: sum of the deltas of an interface's life, over its keys
  base,            \* history: counters of the interface's life in the baseline of new
  remembered,      \* history: counters kept of earlier lives when the life began
  faults, changes, updates \* bounds

world == <<netns, up, traffic, known>>
provider == <<pc, ns_info, pod_info, links, current_metrics, gauges>>
history == <<crossed, reported, base, remembered>>
vars == <<world, provider, fresh, history, faults, changes, updates>>

Counters == {"ingress_bytes", "egress_bytes", "ingress_flow", "egress_flow"}

Zero == [c \in Counters |-> 0]

Live == DOMAIN netns

Init ==
  /\ netns \in {CHOOSE f \in [P -> 1..Cardinality(P)] : IsInjective(f) : P \in SUBSET Pods}
  /\ up = DOMAIN netns
  /\ traffic = [p \in Pods |-> IF p \in DOMAIN netns THEN [Zero EXCEPT !.egress_bytes = 1] ELSE Zero]
  /\ known \in {{}, DOMAIN netns}
  /\ pc = "new" /\ ns_info = <<>> /\ pod_info = {} /\ links = <<>>
  /\ current_metrics = <<>> /\ gauges = <<>>
  /\ fresh = {} /\ crossed = {}
  /\ reported = [p \in Pods |-> Zero] /\ base = [p \in Pods |-> Zero]
  /\ remembered = [p \in Pods |-> Zero]
  /\ faults = 0 /\ changes = 0 /\ updates = 0

-----------------------------------------------------------------------------
\* The node: pods come, carry traffic and go, and the collector learns of it.
\* The kernel gives a namespace the lowest free id.  What an update reads only in
\* its first step (known) or only in its last (traffic, up) changes between
\* updates, or on a pod that is created during one: any other change during an
\* update is the same as a change before or after it.
Between == pc \in {"new", "idle"}

FreeId == Min((1..(1 + Cardinality(Pods))) \ Range(netns))

\* What the provider still keeps of earlier lives of an interface.
Kept(p) ==
  [c \in Counters |-> Max({0} \cup {current_metrics[k][c] : k \in {k \in DOMAIN current_metrics : k.iface = p}})]

CreatePod(p) ==
  /\ p \notin Live /\ changes < MaxChanges /\ changes' = changes + 1
  /\ netns' = [q \in Live \cup {p} |-> IF q = p THEN FreeId ELSE netns[q]]
  /\ up' = up \cup {p}
  /\ traffic' = [traffic EXCEPT ![p] = Zero]
  /\ fresh' = IF Between THEN fresh ELSE fresh \cup {p}
  /\ reported' = [reported EXCEPT ![p] = Zero] /\ base' = [base EXCEPT ![p] = Zero]
  /\ remembered' = [remembered EXCEPT ![p] = Kept(p)]
  /\ UNCHANGED <<known, provider, crossed, faults, updates>>

DeletePod(p) ==
  /\ p \in Live /\ changes < MaxChanges /\ changes' = changes + 1
  /\ netns' = [q \in Live \ {p} |-> netns[q]]
  /\ up' = up \ {p} /\ fresh' = fresh \ {p}
  /\ UNCHANGED <<traffic, known, provider, history, faults, updates>>

SetLink(p) ==
  /\ Between /\ p \in Live /\ faults < MaxFaults
  /\ up' = IF p \in up THEN up \ {p} ELSE up \cup {p}
  /\ faults' = IF p \in up THEN faults + 1 ELSE faults
  /\ UNCHANGED <<netns, traffic, known, provider, fresh, history, changes, updates>>

Carry(p, c) ==
  /\ p \in Live /\ (Between \/ p \in fresh)
  /\ MapThenSumSet(LAMBDA q : MapThenSumSet(LAMBDA d : traffic[q][d], Counters), Pods) < MaxTraffic
  /\ traffic' = [traffic EXCEPT ![p][c] = @ + 1]
  /\ UNCHANGED <<netns, up, known, provider, fresh, history, faults, changes, updates>>

Learn ==
  /\ Between /\ known # Live /\ known' = Live
  /\ UNCHANGED <<netns, up, traffic, provider, fresh, history, faults, changes, updates>>

Node ==
  \/ \E p \in Pods : CreatePod(p) \/ DeletePod(p) \/ SetLink(p)
  \/ \E p \in Pods, c \in Carried : Carry(p, c)
  \/ Learn

-----------------------------------------------------------------------------
Fault(F) == faults + Cardinality(F) <= MaxFaults /\ faults' = faults + Cardinality(F)

\* A namespace whose file cannot be entered is entered through its process;
\* when that fails too it has no addresses.
get_ip_addresses_for_namespace(i, failed) == {p \in Live : netns[p] = i} \ failed

\* lsns fails as a whole, and then there are no namespaces.
get_namespace_info(failed) ==
  IF "lsns" \in failed THEN <<>>
  ELSE [i \in {netns[p] : p \in Live} |-> get_ip_addresses_for_namespace(i, failed)]

environment_info ==
  /\ pc \in {"new", "idle"} /\ updates < MaxUpdates
  /\ \E failed \in SUBSET ({"lsns"} \cup Live) :
       /\ Fault(failed)
       /\ ns_info' = get_namespace_info(failed)
  /\ pod_info' = known
  /\ pc' = IF pc = "new" THEN "new_links" ELSE "links"
  /\ UNCHANGED <<world, links, current_metrics, gauges, fresh, history, changes, updates>>

\* parse_all_interface_links: an interface has the first link-netnsid after its
\* heading; physical ones have none.  A failing command gives an empty map.
parse_all_interface_links ==
  /\ pc \in {"new_links", "links"}
  /\ \/ links' = netns /\ UNCHANGED faults
     \/ Fault({"link"}) /\ links' = <<>>
  /\ pc' = IF pc = "new_links" THEN "new_stats" ELSE "stats"
  /\ UNCHANGED <<world, ns_info, pod_info, current_metrics, gauges, fresh, history, changes, updates>>

-----------------------------------------------------------------------------
\* The host's end of the pair receives what the pod sends.
dev_status(p) == [recv |-> traffic[p].egress_bytes, sent |-> traffic[p].ingress_bytes]

\* HostInterfaceMetricValues::new, then swap_tx_rx: the interface is virtual.
host_metrics(p) ==
  [ingress_bytes |-> dev_status(p).sent, egress_bytes |-> dev_status(p).recv]

\* Passive opens are ingress, active ones egress.
parsed_flow_stats(p) ==
  [ingress_flow |-> traffic[p].ingress_flow, egress_flow |-> traffic[p].egress_flow]

\* From nstat in the namespace's file or from its process's /proc/PID/net/snmp;
\* values that cannot be read are 0.  The file and the process are those that the
\* update read first: an interface created since then has the id of a namespace
\* that is gone.
get_namespace_flow_stats(p, failed) ==
  IF p \in failed \cup fresh THEN [ingress_flow |-> 0, egress_flow |-> 0] ELSE parsed_flow_stats(p)

iface_metrics(p, failed) ==
  [c \in Counters |->
     IF c \in {"ingress_bytes", "egress_bytes"} THEN host_metrics(p)[c]
     ELSE get_namespace_flow_stats(p, failed)[c]]

saturating_sub(a, b) == IF a < b THEN 0 ELSE a - b

calculate_delta(now, before) == [c \in Counters |-> saturating_sub(now[c], before[c])]

\* Loopback and physical interfaces are left out, and those that are down.
should_include_interface(i) == i \in Pods /\ i \in up

\* get_pod_info_from_iface: the pod that the namespace's addresses belong to.
\* Without a namespace the interface is skipped, whatever pod its own addresses
\* would give.
pod_of(i) ==
  IF i \in DOMAIN links /\ links[i] \in DOMAIN ns_info
  THEN ns_info[links[i]] \cap pod_info ELSE {}

build_metric_key(i) == [iface |-> i, pod |-> pod_of(i)]

\* InterfaceMetricKey::is_valid
is_valid(key) == key.pod # {}

\* Mutant of previous: a key that is new has no delta.
previous_New(k, now) == IF k \in DOMAIN current_metrics THEN current_metrics[k] ELSE now

previous(k, now) == IF k \in DOMAIN current_metrics THEN current_metrics[k] ELSE Zero

\* update_metrics sets the gauges; those of keys that are gone stay.
update_metrics(delta) ==
  [k \in DOMAIN gauges \cup DOMAIN delta |-> IF k \in DOMAIN delta THEN delta[k] ELSE gauges[k]]

\* The rest of get_metrics, and update_metrics.  "We return the delta but keep the
\* real value".  The first call, by new, is for the baseline: its deltas are
\* dropped.
get_metrics ==
  /\ pc \in {"new_stats", "stats"}
  /\ \E failed \in {"dev"} \cup {"none"}, unread \in SUBSET Live :
       /\ Fault((IF failed = "dev" THEN {"dev"} ELSE {}) \cup unread)
       /\ LET seen == IF failed = "dev" THEN {} ELSE {i \in Live \cup Physical : should_include_interface(i)}
              keys == {k \in {build_metric_key(i) : i \in seen} : is_valid(k)}
              keyed == {k.iface : k \in keys}
              now(i) == iface_metrics(i, unread)
              delta == [k \in keys |-> calculate_delta(now(k.iface), previous(k, now(k.iface)))]
              of(p) == build_metric_key(p)
          IN /\ current_metrics' = [k \in keys |-> now(k.iface)]
             /\ crossed' = crossed \cup {[key |-> k, update |-> updates] : k \in {k \in keys : k.iface \in fresh}}
             /\ IF pc = "new_stats"
                THEN /\ base' = [p \in Pods |-> IF p \in keyed THEN now(p) ELSE base[p]]
                     /\ UNCHANGED <<gauges, reported>>
                ELSE /\ gauges' = update_metrics(delta)
                     /\ reported' = [p \in Pods |->
                                       IF p \in keyed
                                       THEN [c \in Counters |-> reported[p][c] + delta[of(p)][c]]
                                       ELSE reported[p]]
                     /\ UNCHANGED base
  /\ pc' = "idle" /\ updates' = updates + 1
  /\ ns_info' = <<>> /\ pod_info' = {} /\ links' = <<>> /\ fresh' = {}
  /\ UNCHANGED <<world, remembered, changes>>

Next == Node \/ environment_info \/ parse_all_interface_links \/ get_metrics

Spec == Init /\ [][Next]_vars

-----------------------------------------------------------------------------
Own(k) == k.pod = {k.iface}

\* However pods come and go between the reads of an update, an interface's values
\* carry the name of the pod at its other end, with one exception: an interface
\* that was created during the update and was given the namespace id of a pod
\* deleted during it is joined with that pod's address.  The next update does not
\* go on from the values kept under the wrong name.
LabelsMatch ==
  /\ \A k \in DOMAIN gauges : Own(k) \/ \E x \in crossed : x.key = k
  /\ \A k \in DOMAIN current_metrics : Own(k) \/ [key |-> k, update |-> updates - 1] \in crossed

\* "Delta calculations for rate-based metrics": a pod that takes over the name
\* of an earlier one starts its counters again, and the gauge does not turn
\* that into an enormous number.
NoWrap ==
  \A k \in DOMAIN gauges, c \in Counters : gauges[k][c] <= MaxTraffic

\* Nothing that a pod carried is lost between updates: what the gauges showed of
\* an interface's life, with the baseline of new and what was kept of an earlier
\* life, reaches the values at the last update.
DeltasCoverTraffic ==
  \A k \in DOMAIN current_metrics, c \in Counters :
    reported[k.iface][c] + base[k.iface][c] + remembered[k.iface][c] >= current_metrics[k][c]

\* And it is no more than was carried, unless a source failed or the interface was
\* labelled with the name of another pod, so that its counters were shown a second
\* time under its own.
DeltasAreTraffic ==
  \A p \in Live, c \in Counters :
    faults = 0 /\ (\A x \in crossed : x.key.iface # p) =>
      reported[p][c] + base[p][c] <= traffic[p][c]
=============================================================================
