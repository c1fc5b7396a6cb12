------------------------ MODULE KubernetesMetadata ------------------------
(***************************************************************************)
(* KubernetesMetadataCollector (kubernetes/kubernetes_metadata_collector.  *)
(* rs): two watchers, each fed by an ordered stream of the API server,     *)
(* keep one map from address and port to pod, from which enrich_flows      *)
(* labels the flows of a report.  The cluster is the environment: pods     *)
(* that get their address after their creation, services whose endpoint    *)
(* slices follow the pods, watches that break and list everything again.   *)
(* A pod stands for its name and namespace, which PodInfo holds both;      *)
(* NameOf tells pods apart that have the same name in two namespaces.      *)
(***************************************************************************)
EXTENDS Naturals, Sequences, FiniteSets, Functions, SequencesExt, FiniteSetsExt

CONSTANTS Pods,
          NameOf,      \* pod -> its name, without the namespace
          IpOf,        \* pod -> its address; pods of the host network share one
          TcpPorts,    \* pod -> the TCP ports that its containers declare
          Services,
          ServicePort, \* service -> the port of its endpoints
          Flows,       \* flows of a report, see FlowTypes
          Deletes,     \* whether pods and slices are deleted
          Shrinks,     \* whether endpoints leave a slice
          MaxChanges,  \* bound: changes of the cluster after the creation of pods
          MaxBreaks,   \* bound: watches that break
          MaxReports,  \* bound: reports
          NoInfo       \* None

VARIABLES
  created, live, \* pods ever created, that exist
  slices,       \* service -> pods that are its endpoints
  pod_stream,   \* events on their way to the pod watcher
  slice_stream, \* events on their way to the endpoint slice watcher
  pod_info,     \* address -> port -> PodInfo
  metadata,     \* flow -> labels, as of the last report
  changes, breaks, reports \* bounds

clusterVars == <<created, live, slices, changes, breaks>>
vars == <<clusterVars, pod_stream, slice_stream, pod_info, metadata, reports>>

Unlabelled == [local |-> NoInfo, remote |-> NoInfo]

Init ==
  /\ created = {} /\ live = {}
  /\ slices = [s \in {} |-> {}]
  /\ pod_stream = <<>> /\ slice_stream = <<>>
  /\ pod_info = [ip \in {} |-> NoInfo]
  /\ metadata = [f \in Flows |-> Unlabelled]
  /\ changes = 0 /\ breaks = 0 /\ reports = 0

-----------------------------------------------------------------------------
\* The cluster and the API server.  An event carries the object as it was.
PodEvent(type, p, has_ip) == [type |-> type, pod |-> p, has_ip |-> has_ip]

SliceEvent(type, s, eps) == [type |-> type, service |-> s, endpoints |-> eps]

Change == changes < MaxChanges /\ changes' = changes + 1

\* A pod is created, and updated when it gets its address.
CreatePod(p) ==
  /\ p \notin created
  /\ created' = created \cup {p} /\ live' = live \cup {p}
  /\ pod_stream' = pod_stream \o <<PodEvent("Apply", p, FALSE), PodEvent("Apply", p, TRUE)>>
  /\ UNCHANGED <<slices, slice_stream, changes, breaks>>

DeletePod(p) ==
  /\ Deletes /\ Change
  /\ p \in live
  /\ live' = live \ {p}
  /\ pod_stream' = Append(pod_stream, PodEvent("Delete", p, TRUE))
  /\ UNCHANGED <<created, slices, slice_stream, breaks>>

EndpointsOf(s) == IF s \in DOMAIN slices THEN slices[s] ELSE {}

\* The endpoint controller brings a slice up to date.  Two pods of the host
\* network cannot listen on the same port.
UpdateSlice(s) ==
  /\ Change
  /\ \E eps \in SUBSET live :
       /\ \A p \in eps, q \in Pods :
            p # q /\ IpOf[p] = IpOf[q] => q \notin eps /\ ServicePort[s] \notin TcpPorts[q]
       /\ (s \in DOMAIN slices) => (slices[s] # eps)
       /\ Shrinks \/ (EndpointsOf(s) \cap live) \subseteq eps
       /\ slices' = [t \in DOMAIN slices \cup {s} |-> IF t = s THEN eps ELSE slices[t]]
       /\ slice_stream' = Append(slice_stream, SliceEvent("Apply", s, eps))
  /\ UNCHANGED <<created, live, pod_stream, breaks>>

DeleteSlice(s) ==
  /\ Deletes /\ Change
  /\ s \in DOMAIN slices
  /\ slice_stream' = Append(slice_stream, SliceEvent("Delete", s, slices[s]))
  /\ slices' = Restrict(slices, DOMAIN slices \ {s})
  /\ UNCHANGED <<created, live, pod_stream, breaks>>

\* A watch breaks: what was on its way is lost, an error is delivered, and the
\* watcher lists the objects that exist.
BreakPodWatch ==
  /\ breaks < MaxBreaks /\ breaks' = breaks + 1
  /\ UNCHANGED <<created, live, slices, slice_stream, changes>>
  /\ \E order \in SetToSeqs(live) :
       pod_stream' = <<[type |-> "Error"]>>
                       \o [i \in DOMAIN order |-> PodEvent("InitApply", order[i], TRUE)]
                       \o <<[type |-> "InitDone"]>>

BreakSliceWatch ==
  /\ breaks < MaxBreaks /\ breaks' = breaks + 1
  /\ UNCHANGED <<created, live, slices, pod_stream, changes>>
  /\ \E order \in SetToSeqs(DOMAIN slices) :
       slice_stream' = <<[type |-> "Error"]>>
                         \o [i \in DOMAIN order |-> SliceEvent("InitApply", order[i], slices[order[i]])]
                         \o <<[type |-> "InitDone"]>>

Cluster ==
  /\ \/ \E p \in Pods : CreatePod(p) \/ DeletePod(p)
     \/ \E s \in Services : UpdateSlice(s) \/ DeleteSlice(s)
     \/ BreakPodWatch \/ BreakSliceWatch
  /\ UNCHANGED <<pod_info, metadata, reports>>

-----------------------------------------------------------------------------
\* "If the pod doesn't have any port, add a virtual port 0".
get_tcp_ports_from_pod(p) == IF TcpPorts[p] = {} THEN {0} ELSE TcpPorts[p]

\* entry(ip).or_default()
PortMap(info, ip) == IF ip \in DOMAIN info THEN info[ip] ELSE [port \in {} |-> NoInfo]

WithPorts(info, ip, port_map) ==
  [a \in DOMAIN info \cup {ip} |-> IF a = ip THEN port_map ELSE info[a]]

\* Mutant of fill_ports: what an endpoint slice has said is replaced.
fill_ports_Replace(info, p) ==
  LET old == PortMap(info, IpOf[p])
      ports == get_tcp_ports_from_pod(p)
  IN  WithPorts(info, IpOf[p],
                [port \in DOMAIN old \cup ports |->
                   IF port \in ports THEN [pod |-> p, service_name |-> ""] ELSE old[port]])

\* or_insert_with: "Only insert if pod info for this port doesn't exist."
fill_ports(info, p) ==
  LET old == PortMap(info, IpOf[p])
  IN  WithPorts(info, IpOf[p],
                [port \in DOMAIN old \cup get_tcp_ports_from_pod(p) |->
                   IF port \in DOMAIN old THEN old[port] ELSE [pod |-> p, service_name |-> ""]])

\* purge_pod_ip_ports_from_pod_info
purge(info, ip, ports) ==
  IF ip \notin DOMAIN info THEN info
  ELSE LET rest == Restrict(info[ip], DOMAIN info[ip] \ ports)
       IN  IF DOMAIN rest = {} THEN Restrict(info, DOMAIN info \ {ip})
           ELSE WithPorts(info, ip, rest)

\* Mutant of HandlePodEvent: the pods that are listed after an error are not
\* entered.
HandlePodEvent_ApplyOnly ==
  /\ pod_stream # <<>>
  /\ pod_stream' = Tail(pod_stream)
  /\ LET event == Head(pod_stream)
     IN  pod_info' = IF event.type = "Apply" /\ event.has_ip THEN fill_ports(pod_info, event.pod)
                     ELSE pod_info
  /\ UNCHANGED <<clusterVars, slice_stream, metadata, reports>>

\* handle_pod_event
HandlePodEvent ==
  /\ pod_stream # <<>>
  /\ pod_stream' = Tail(pod_stream)
  /\ LET event == Head(pod_stream)
     IN  pod_info' =
           CASE event.type \in {"Apply", "InitApply"} /\ event.has_ip -> fill_ports(pod_info, event.pod)
             [] event.type = "Delete" /\ event.has_ip ->
                  purge(pod_info, IpOf[event.pod], get_tcp_ports_from_pod(event.pod))
             [] OTHER -> pod_info
  /\ UNCHANGED <<clusterVars, slice_stream, metadata, reports>>

\* get_tcp_ports_from_endpoint_slice
slice_ports(s) == {ServicePort[s]}

\* The ports of an address with those of a slice entered for its endpoint p.
Entered(port_map, p, s) ==
  [port \in DOMAIN port_map \cup slice_ports(s) |->
     IF port \in slice_ports(s) THEN [pod |-> p, service_name |-> s] ELSE port_map[port]]

\* Every endpoint of the slice is entered under the ports of the slice.
handle_endpoint_update(info, s, eps) ==
  FoldSet(LAMBDA p, acc : WithPorts(acc, IpOf[p], Entered(PortMap(acc, IpOf[p]), p, s)), info, eps)

handle_endpoint_removal(info, s, eps) ==
  FoldSet(LAMBDA p, acc : purge(acc, IpOf[p], slice_ports(s)), info, eps)

\* handle_endpoint_slice_event
HandleEndpointSliceEvent ==
  /\ slice_stream # <<>>
  /\ slice_stream' = Tail(slice_stream)
  /\ LET event == Head(slice_stream)
     IN  pod_info' =
           CASE event.type \in {"Apply", "InitApply"} ->
                  handle_endpoint_update(pod_info, event.service, event.endpoints)
             [] event.type = "Delete" ->
                  handle_endpoint_removal(pod_info, event.service, event.endpoints)
             [] OTHER -> pod_info
  /\ UNCHANGED <<clusterVars, pod_stream, metadata, reports>>

-----------------------------------------------------------------------------
\* Addresses of flows are those of pods, or IPv6 addresses that stand for them.
Mapped(ip) == <<"::ffff:", ip>>

FlowTypes ==
  [client : BOOLEAN, local : Pods, remote : Pods, port : {ServicePort[s] : s \in Services}, mapped : BOOLEAN]

address(f, p) == IF f.mapped THEN Mapped(IpOf[p]) ELSE IpOf[p]

get_pod_info(ip) ==
  IF ip \in DOMAIN pod_info THEN pod_info[ip]
  ELSE IF \E a \in DOMAIN pod_info : ip = Mapped(a)
       THEN pod_info[CHOOSE a \in DOMAIN pod_info : ip = Mapped(a)]
       ELSE PortMap(pod_info, ip)

\* The side whose port is not known: the first entry in the order of a hash
\* map, if all entries have the same name, of whatever namespace.
whole_address(port_map) ==
  IF Range(port_map) # {} /\ \A a, b \in Range(port_map) : NameOf[a.pod] = NameOf[b.pod]
  THEN Range(port_map) ELSE {NoInfo}

one_port(port_map, port) == IF port \in DOMAIN port_map THEN port_map[port] ELSE NoInfo

\* enrich_flows, one flow: the labels it may get.
enrich(f) ==
  LET local == get_pod_info(address(f, f.local))
      remote == get_pod_info(address(f, f.remote))
  IN  IF f.client
      THEN {[local |-> l, remote |-> one_port(remote, f.port)] : l \in whole_address(local)}
      ELSE {[local |-> one_port(local, f.port), remote |-> r] : r \in whole_address(remote)}

EnrichFlows ==
  /\ reports < MaxReports /\ reports' = reports + 1
  /\ metadata' \in {m \in [Flows -> UNION {enrich(f) : f \in Flows}] : \A f \in Flows : m[f] \in enrich(f)}
  /\ UNCHANGED <<clusterVars, pod_stream, slice_stream, pod_info>>

Watchers == HandlePodEvent \/ HandleEndpointSliceEvent

Next == Cluster \/ Watchers \/ EnrichFlows

Spec == Init /\ [][Next]_vars

\* Both tasks run on a runtime of their own and poll their streams forever.
FairSpec == Spec /\ WF_vars(HandlePodEvent) /\ WF_vars(HandleEndpointSliceEvent)

-----------------------------------------------------------------------------
Drained == pod_stream = <<>> /\ slice_stream = <<>>

Endpoints == {<<s, p>> \in Services \X Pods : s \in DOMAIN slices /\ p \in slices[s]}

Label(p, port) == one_port(PortMap(pod_info, IpOf[p]), port)

\* The pods that have the port at p's address.  Pods of the host network cannot
\* declare the same TCP port, but all that declare none have the virtual port 0.
Sharers(p, port) == {q \in created : IpOf[q] = IpOf[p] /\ port \in get_tcp_ports_from_pod(q)}

\* "In case this pod event comes before endpoint slice event, that is alright
\* as endpoint slice event will override it", and the other way round: in
\* whichever order the two watchers run, and whatever is delivered again after
\* an error, a port of a service ends up with the service's name and any other
\* port with that of its pod, or, where several pods of an address share the
\* virtual port, of one of them.
ConvergesToCluster ==
  Drained =>
    /\ \A e \in Endpoints : Label(e[2], ServicePort[e[1]]) = [pod |-> e[2], service_name |-> e[1]]
    /\ \A p \in live : \A port \in get_tcp_ports_from_pod(p) :
         (\A e \in Endpoints : ~(IpOf[e[2]] = IpOf[p] /\ ServicePort[e[1]] = port)) =>
           \E q \in Sharers(p, port) : Label(p, port) = [pod |-> q, service_name |-> ""]

\* The pods at p's address that enrich_flows may take for p when it does not know
\* the port: those with p's name, in whatever namespace, or, when p has the virtual
\* port, with the name of the pod that was entered under it.
Alike(p) ==
  LET entered == {q \in created : TcpPorts[p] = {} /\ Label(p, 0) # NoInfo /\ Label(p, 0).pod = q}
  IN  {r \in Pods : IpOf[r] = IpOf[p] /\ \E q \in {p} \cup entered : NameOf[r] = NameOf[q]}

\* A flow between two pods is labelled with these pods or not at all; mapped
\* addresses are recognised.  On the side whose port was elided the label may be
\* that of a pod of the host network that is Alike.  This is for clusters that
\* delete nothing: after a purge of the virtual port, or with an entry that
\* outlived its pod, the only entry of an address may be another pod's.
LabelStep ==
  EnrichFlows /\ Drained =>
    \A f \in {g \in Flows : {g.local, g.remote} \subseteq live} :
      LET m == metadata'[f]
          known == IF f.client THEN "remote" ELSE "local"
          elided == IF f.client THEN "local" ELSE "remote"
      IN
      /\ m[known] # NoInfo => m[known].pod = f[known]
      /\ m[elided] # NoInfo => m[elided].pod \in Alike(f[elided])
      /\ \A s \in DOMAIN slices : ServicePort[s] = f.port /\ f[known] \in slices[s] => m[known] # NoInfo

\* A pod that keeps its address is known sooner or later.
PodsBecomeKnown ==
  \A p \in Pods : p \in live ~> IpOf[p] \in DOMAIN pod_info

\* "On delete events we remove associated entry from our internal map": once
\* everything is delivered and no endpoint slice names a pod that is gone, no
\* entry does.
GoneWhenDeleted ==
  Drained /\ (\A s \in DOMAIN slices : slices[s] \subseteq live) =>
    \A ip \in DOMAIN pod_info : \A port \in DOMAIN pod_info[ip] :
      pod_info[ip][port].pod \in live

\* Pods that come and go leave the others alone: a port that no service uses is
\* labelled exactly as long as its pod exists, also for pods that share an address.
\* The virtual port of several pods is labelled with one that exists, if at all:
\* deleting any of them purges the entry of the others.
PlainPortsFollowPods ==
  Drained /\ breaks = 0 =>
    \A p \in created : \A port \in get_tcp_ports_from_pod(p) \ Range(ServicePort) :
      /\ Label(p, port) # NoInfo => Label(p, port).pod \in Sharers(p, port) \cap live
      /\ Sharers(p, port) = {p} => (p \in live <=> Label(p, port) # NoInfo)
=============================================================================
