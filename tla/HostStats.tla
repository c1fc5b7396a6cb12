----------------------------- MODULE HostStats -----------------------------
(***************************************************************************)
(* What publish_event (nfm-controller/src/lib.rs) reads from the host: the *)
(* metadata providers (metadata/*.rs), which ask the instance metadata     *)
(* service for the network interfaces and `ip` for their devices, and the  *)
(* host statistics (events/host_stats_provider.rs), deltas of the          *)
(* cumulative counters that `ethtool` prints for each of them.  Interfaces *)
(* are attached and detached and count while the agent reads.  One counter *)
(* stands for the five cumulative ones; it wraps at Modulus, as            *)
(* wrapping_sub does.  The sixth, conntrack_allowance_available, is a      *)
(* level: subtract passes the last reading on, and it is left out here.    *)
(***************************************************************************)
EXTENDS Integers, FiniteSets, Functions, TLC

CONSTANTS Names,        \* device names
          Enis,         \* interface ids; each interface has a MAC address of its own
          IsVirtual,    \* whether the device of a name is virtual
          Faults,       \* the faults that happen, see Fault
          HotUnplug,    \* when interfaces are detached: "never", "any" time, or "between" two
                        \* reports with a report before the same device is attached again
          MaxFaults,    \* bound: number of faults
          MaxChanges,   \* bound: interfaces attached or detached
          MaxCount,     \* bound: events per interface
          Boot,         \* name -> [eni, count]: the devices at the start of the agent
          Modulus,      \* 2^64
          Unknown       \* the empty string

VARIABLES
  nics,        \* name -> interface and counter of the devices that exist
  identity,    \* instance_id, instance_type and machine_id
  network,     \* interface -> interface_id, as last read
  network_interface_stats, \* <<name, interface_id>> -> counter, as last read
  latest,      \* the map that load_all_iface_stats builds
  todo,        \* devices still to be read
  pc,          \* "idle", "refreshed", "load" or "read"
  faults, changes, \* bounds
  grown,       \* history: events of each interface since the agent started
  reported,    \* history: events reported for it
  missed,      \* history: events before the agent first read it
  excess       \* history: the counters that failed first readings took for zero

hostVars == <<nics, grown, changes>>
agentVars == <<identity, network, network_interface_stats, latest, todo, pc, faults, reported, missed, excess>>
vars == <<hostVars, agentVars>>

Empty == [x \in {} |-> 0]

\* The providers' constructors ask for the same values as refresh does, and
\* each value may be missing.
Init ==
  /\ nics = Boot
  /\ identity \in [{"instance_id", "instance_type", "machine_id"} -> {Unknown, "known"}]
  /\ network = Empty
  /\ network_interface_stats = Empty /\ latest = Empty
  /\ todo = {}
  /\ pc = "idle"
  /\ faults = 0 /\ changes = 0
  /\ grown = [e \in Enis |-> 0]
  /\ reported = [e \in Enis |-> 0]
  /\ missed = [e \in Enis |-> 0]
  /\ excess = [e \in Enis |-> 0]

-----------------------------------------------------------------------------
\* The host.  Two devices may share the MAC address of an interface when one of
\* them is virtual.
Physical == {n \in DOMAIN nics : ~IsVirtual[n]}

Attach(n, e) ==
  /\ changes < MaxChanges /\ changes' = changes + 1
  /\ n \notin DOMAIN nics
  /\ IsVirtual[n] \/ \A p \in Physical : nics[p].eni # e
  /\ HotUnplug = "any" \/ <<n, e>> \notin DOMAIN network_interface_stats
  /\ nics' = (n :> [eni |-> e, count |-> 0]) @@ nics
  /\ UNCHANGED grown

Detach(n) ==
  /\ changes < MaxChanges /\ changes' = changes + 1
  /\ n \in DOMAIN nics
  /\ HotUnplug = "any" \/ (HotUnplug = "between" /\ pc = "idle")
  /\ nics' = Restrict(nics, DOMAIN nics \ {n})
  /\ UNCHANGED grown

Count(n) ==
  /\ n \in Physical /\ grown[nics[n].eni] < MaxCount
  /\ nics' = [nics EXCEPT ![n].count = (@ + 1) % Modulus]
  /\ grown' = [grown EXCEPT ![nics[n].eni] = @ + 1]
  /\ UNCHANGED changes

Host ==
  /\ \/ \E n \in Names, e \in Enis : Attach(n, e)
     \/ \E n \in Names : Detach(n)
     \/ \E n \in Names : Count(n)
  /\ UNCHANGED agentVars

-----------------------------------------------------------------------------
\* A fault of some kind is possible: "imds" and "interface_id" are failing
\* requests, "machine_id" a file that is not there, "virtual" a device whose kind
\* could not be found out, "ip", "first_read" and "read" commands that could not be
\* run.
Fault(kind) == kind \in Faults /\ faults < MaxFaults

Attached == {nics[p].eni : p \in Physical}

\* retrieve_network_information with the outcomes of its requests.
retrieve_network_information ==
  {[e \in Attached |-> e]}
    \cup (IF Fault("imds") THEN {Empty} ELSE {})
    \cup (IF Fault("interface_id") THEN {[e \in Attached |-> IF e = f THEN Unknown ELSE e] : f \in Attached}
          ELSE {})

\* EniMetadataProvider::refresh asks for what it does not know.
instance_refreshed(k) ==
  IF identity[k] # Unknown THEN {identity[k]}
  ELSE {"known"} \cup (IF Fault("imds") THEN {Unknown} ELSE {})

get_machine_id == {"known"} \cup (IF Fault("machine_id") THEN {Unknown} ELSE {})

\* HostMetadataProvider::refresh
machine_id_refreshed ==
  IF identity.machine_id # Unknown THEN {identity.machine_id} ELSE get_machine_id

\* metadata_provider.refresh()
Refresh ==
  /\ pc = "idle" /\ pc' = "refreshed"
  /\ identity' \in [instance_id : instance_refreshed("instance_id"),
                   instance_type : instance_refreshed("instance_type"),
                   machine_id : machine_id_refreshed]
  /\ network' \in retrieve_network_information
  /\ faults' = IF network' # [e \in Attached |-> e] \/ Unknown \in Range(identity')
               THEN faults + 1 ELSE faults
  /\ UNCHANGED <<hostVars, network_interface_stats, latest, todo, reported, missed, excess>>

\* The devices of names whose MAC address is that of an interface.  The cache of
\* CachedInterfaceVirtualChecker cannot be seen while a name keeps its kind.
devices_of(names) ==
  {<<n, network[nics[n].eni]>> : n \in {p \in names : nics[p].eni \in DOMAIN network}}

\* get_network_devices: no device when `ip` cannot be run; one whose kind cannot be
\* found out is skipped.
get_network_devices ==
  {devices_of(Physical)}
    \cup (IF Fault("ip") THEN {{}} ELSE {})
    \cup (IF Fault("virtual") THEN {devices_of(Physical \ {p}) : p \in Physical} ELSE {})

\* set_network_devices, up to the reading of new devices.
SetNetworkDevices ==
  /\ pc = "refreshed" /\ pc' = "load"
  /\ \E devices \in get_network_devices :
       /\ network_interface_stats' =
            Restrict(network_interface_stats, DOMAIN network_interface_stats \cap devices)
       /\ todo' = devices \ DOMAIN network_interface_stats
       /\ faults' = IF devices # devices_of(Physical) THEN faults + 1 ELSE faults
  /\ UNCHANGED <<hostVars, identity, network, latest, reported, missed, excess>>

\* load_single_iface_stats: the counter, or nothing when the command could not
\* be run.  ethtool for a device that does not exist runs, prints nothing and
\* fails; its exit status is not looked at.
load_single_iface_stats(name, kind) ==
  {[ok |-> TRUE, val |-> IF name \in DOMAIN nics THEN nics[name].count ELSE 0]}
    \cup (IF Fault(kind) THEN {[ok |-> FALSE, val |-> 0]} ELSE {})

\* A new device is read; unwrap_or_default stands in for a reading that failed.
LoadNew ==
  \E d \in todo : \E r \in load_single_iface_stats(d[1], "first_read") :
    /\ pc = "load"
    /\ network_interface_stats' = (d :> r.val) @@ network_interface_stats
    /\ todo' = todo \ {d}
    /\ faults' = IF r.ok THEN faults ELSE faults + 1
    /\ missed' = IF d[2] = Unknown THEN missed
                 ELSE [missed EXCEPT ![d[2]] = grown[d[2]] + excess[d[2]] - reported[d[2]]]
    /\ excess' = IF d[2] = Unknown \/ r.ok \/ d[1] \notin DOMAIN nics THEN excess
                 ELSE [excess EXCEPT ![d[2]] = @ + nics[d[1]].count]
    /\ UNCHANGED <<hostVars, identity, network, latest, pc, reported>>

\* load_all_iface_stats starts.
StartGetStats ==
  /\ pc = "load" /\ todo = {}
  /\ pc' = "read" /\ todo' = DOMAIN network_interface_stats /\ latest' = Empty
  /\ UNCHANGED <<hostVars, identity, network, network_interface_stats, faults, reported, missed, excess>>

\* Mutant of read_or_prior: a reading that failed counts as zero.
read_or_prior_Zero(d, r) == r.val

\* "Preserve prior stats on error."
read_or_prior(d, r) == IF r.ok THEN r.val ELSE network_interface_stats[d]

ReadStats ==
  \E d \in todo : \E r \in load_single_iface_stats(d[1], "read") :
    /\ pc = "read"
    /\ latest' = (d :> read_or_prior(d, r)) @@ latest
    /\ todo' = todo \ {d}
    /\ faults' = IF r.ok THEN faults ELSE faults + 1
    /\ UNCHANGED <<hostVars, identity, network, network_interface_stats, pc, reported, missed, excess>>

\* NetworkInterfaceStats::subtract, of the cumulative counters.
subtract(a, b) == (a - b) % Modulus

latest_kept == latest

\* The rest of get_stats: the deltas go into the report, the readings are kept.
GetStats ==
  /\ pc = "read" /\ todo = {}
  /\ reported' = [e \in Enis |->
       reported[e] +
         LET devs == {d \in DOMAIN latest : d[2] = e}
         IN  IF devs = {} THEN 0
             ELSE LET d == CHOOSE x \in devs : TRUE
                  IN  subtract(latest[d], network_interface_stats[d])]
  /\ network_interface_stats' = latest_kept
  /\ pc' = "idle"
  /\ UNCHANGED <<hostVars, identity, network, latest, todo, faults, missed, excess>>

Agent == Refresh \/ SetNetworkDevices \/ LoadNew \/ StartGetStats \/ ReadStats \/ GetStats

Next == Host \/ Agent

Spec == Init /\ [][Next]_vars

-----------------------------------------------------------------------------
\* "So that we don't treat historical values as large deltas": what the reports
\* say of an interface never exceeds what it has counted since the agent
\* started, whichever requests and commands failed in between.  The exception is
\* the first reading of a device: unwrap_or_default takes one that fails for zero,
\* and the history of the device up to then is reported as a delta.
DeltasAreGrowth == \A e \in Enis : reported[e] <= grown[e] + excess[e]

\* And it falls short only by what was counted while the agent did not know
\* the interface, and by what it has not read yet.
DeltasAddUp ==
  \A d \in DOMAIN network_interface_stats :
    d[2] # Unknown /\ d[1] \in DOMAIN nics /\ nics[d[1]].eni = d[2] =>
      reported[d[2]] + missed[d[2]] + subtract(nics[d[1]].count, network_interface_stats[d])
        = grown[d[2]] + excess[d[2]]

\* Statistics are never those of a virtual device that shares the MAC address
\* of an interface.
NoVirtualDevice == \A d \in DOMAIN network_interface_stats : ~IsVirtual[d[1]]

\* What identifies the host in its reports does not change once it is known,
\* although it is asked for again with every report.
IdentityStep == \A k \in DOMAIN identity : identity[k] # Unknown => identity'[k] = identity[k]
=============================================================================
