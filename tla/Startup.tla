------------------------------- MODULE Startup -------------------------------
(***************************************************************************)
(* How the agent starts: on_load (nfm-controller/src/lib.rs) checks the    *)
(* kernel, loads and attaches the BPF program (EventProviderEbpf::new,     *)
(* events/event_provider_ebpf.rs) with maps sized for the host, gives up   *)
(* the capability it no longer needs, opens the conntrack socket and the   *)
(* metrics server its options ask for, and enters do_work.  Any of these   *)
(* may fail, and the process may be killed at any time.  Cargo.toml sets   *)
(* panic = "abort": an agent that panics drops nothing.                    *)
(***************************************************************************)
EXTENDS Integers

CONSTANTS MAX_ENTRIES_SK_PROPS_LO, MAX_ENTRIES_SK_PROPS_HI,
          SK_STATS_TO_PROPS_RATIO,
          divisor,   \* bytes of memory for each MAX_ENTRIES_SK_PROPS_LO entries
          MaxMemory  \* bound: mem_total

\* MAX_ENTRIES_SK_PROPS_LO and _HI are positive, and so is what the memory is
\* divided by.
ASSUME SizeAssumption ==
  /\ MAX_ENTRIES_SK_PROPS_LO \in Nat /\ MAX_ENTRIES_SK_PROPS_HI \in Nat
  /\ MAX_ENTRIES_SK_PROPS_LO <= MAX_ENTRIES_SK_PROPS_HI
  /\ SK_STATS_TO_PROPS_RATIO \in Nat /\ divisor \in Nat \ {0} /\ MaxMemory \in Nat

VARIABLES
  opt,         \* Options: what is switched on
  host,        \* the kernel's version and the memory of the host
  step,        \* the step of on_load that comes next; "do_work"; or how it ended
  effective, permitted, \* whether the process has CAP_SYS_ADMIN in the two sets
  program,     \* "none", "object", "loaded" or "attached"
  max_entries, \* sizes of NFM_SK_PROPS, NFM_SK_STATS and of SockCache
  sampling,    \* whether NFM_CONTROL has been written
  conntrack, server, watchers, \* what runs besides the main loop
  scheduled,   \* the events of the timer
  warned       \* history: dropping the capability failed

startVars == <<opt, host, step, effective, permitted, program, max_entries, sampling,
               conntrack, server, watchers, scheduled, warned>>

\* The versions that matter: the one from which a cgroup program is attached
\* by a link, and the one the agent asks for.
Versions == {<<5, 4>>, <<5, 7>>, <<5, 8>>}
AtLeast(v, w) == v[1] > w[1] \/ (v[1] = w[1] /\ v[2] >= w[2])

Ended == {"refused", "panicked", "killed", "stopped"}

\* The process is started with the capability, and with any options.
StartInit ==
  /\ opt \in [resolve_nat : BOOLEAN, open_metrics : BOOLEAN, kubernetes_metadata : BOOLEAN]
  /\ host \in [version : Versions, mem_total : 0..MaxMemory]
  /\ step = "check_kernel_version"
  /\ effective = TRUE /\ permitted = TRUE
  /\ program = "none"
  /\ max_entries = [props |-> 0, stats |-> 0, cache |-> 0]
  /\ sampling = FALSE /\ conntrack = FALSE /\ server = FALSE /\ watchers = FALSE
  /\ scheduled = {}
  /\ warned = FALSE

-----------------------------------------------------------------------------
\* What the kernel keeps when the process is gone (aya 0.13): a program is
\* attached by a link, which ends with its descriptor, from 5.7 on; before, it
\* stays on the cgroup unless aya's destructor detaches it.
LeftAttached(destructors) ==
  IF program = "attached" /\ ~destructors /\ ~AtLeast(host.version, <<5, 7>>)
  THEN "attached" ELSE "none"

End(how, destructors) ==
  /\ step' = how
  /\ program' = LeftAttached(destructors)
  /\ sampling' = FALSE /\ conntrack' = FALSE /\ server' = FALSE /\ watchers' = FALSE
  /\ UNCHANGED <<opt, host, effective, permitted, max_entries, scheduled, warned>>

\* An error that on_load returns; an unwrap, expect or panic.
Refuse == End("refused", TRUE)
Panic == End("panicked", FALSE)

-----------------------------------------------------------------------------
\* Mutant of check_kernel_version: any kernel will do.
check_kernel_version_Any ==
  /\ step = "check_kernel_version" /\ step' = "File::open"
  /\ UNCHANGED <<opt, host, effective, permitted, program, max_entries, sampling,
                 conntrack, server, watchers, scheduled, warned>>

check_kernel_version ==
  /\ step = "check_kernel_version"
  /\ IF AtLeast(host.version, <<5, 8>>)
     THEN /\ step' = "File::open"
          /\ UNCHANGED <<opt, host, effective, permitted, program, max_entries, sampling,
                         conntrack, server, watchers, scheduled, warned>>
     ELSE Refuse

\* EventProviderEbpf::new opens the cgroup, which may be missing.
OpenCgroup ==
  /\ step = "File::open"
  /\ \/ /\ step' = "Meminfo"
        /\ UNCHANGED <<opt, host, effective, permitted, program, max_entries, sampling,
                       conntrack, server, watchers, scheduled, warned>>
     \/ Refuse

clamp(n, lo, hi) == IF n < lo THEN lo ELSE IF n > hi THEN hi ELSE n

map_max_entries(mem_total) ==
  LET props == clamp((mem_total \div divisor) * MAX_ENTRIES_SK_PROPS_LO,
                     MAX_ENTRIES_SK_PROPS_LO, MAX_ENTRIES_SK_PROPS_HI)
  IN [props |-> props,
      stats |-> clamp(props * SK_STATS_TO_PROPS_RATIO,
                      SK_STATS_TO_PROPS_RATIO * MAX_ENTRIES_SK_PROPS_LO,
                      SK_STATS_TO_PROPS_RATIO * MAX_ENTRIES_SK_PROPS_HI)]

\* The memory is read, which panics when it cannot be, and the object is
\* loaded with maps of that size.
instantiate_ebpf_object ==
  /\ step = "Meminfo"
  /\ \/ LET sizes == map_max_entries(host.mem_total)
        IN /\ max_entries' = [props |-> sizes.props, stats |-> sizes.stats, cache |-> 0]
           /\ effective
           /\ program' = "object" /\ step' = "load"
           /\ UNCHANGED <<opt, host, effective, permitted, sampling, conntrack, server,
                          watchers, scheduled, warned>>
     \/ Refuse
     \/ Panic

\* The verifier accepts the program, or does not; the kernel asks for the
\* capability.
LoadProgram ==
  /\ step = "load"
  /\ \/ /\ effective
        /\ program' = "loaded" /\ step' = "attach"
        /\ UNCHANGED <<opt, host, effective, permitted, max_entries, sampling, conntrack,
                       server, watchers, scheduled, warned>>
     \/ Refuse

\* CgroupAttachMode::Single: fails when another program is attached.
AttachProgram ==
  /\ step = "attach"
  /\ \/ /\ effective
        /\ program' = "attached" /\ step' = "provider"
        /\ UNCHANGED <<opt, host, effective, permitted, max_entries, sampling, conntrack,
                       server, watchers, scheduled, warned>>
     \/ Refuse

\* The maps are taken, the cache gets room for every context of the BPF map,
\* and increase_sampling_interval writes the first control data.
MakeProvider ==
  /\ step = "provider"
  /\ \/ /\ max_entries' = [max_entries EXCEPT !.cache = max_entries.props]
        /\ sampling' = TRUE
        /\ step' = "Effective"
        /\ UNCHANGED <<opt, host, effective, permitted, program, conntrack, server, watchers,
                       scheduled, warned>>
     \/ Refuse
     \/ Panic

\* drop_capabilities: a set that cannot be read or written ends it with a
\* warning.
DropFails ==
  /\ step' = "NatResolver" /\ warned' = TRUE
  /\ UNCHANGED <<opt, host, effective, permitted, program, max_entries, sampling,
                 conntrack, server, watchers, scheduled>>

DropEffective ==
  /\ step = "Effective"
  /\ \/ /\ effective' = FALSE /\ step' = "Permitted"
        /\ UNCHANGED <<opt, host, permitted, program, max_entries, sampling, conntrack,
                       server, watchers, scheduled, warned>>
     \/ DropFails

DropPermitted ==
  /\ step = "Permitted"
  /\ \/ /\ permitted' = FALSE /\ step' = "NatResolver"
        /\ UNCHANGED <<opt, host, effective, program, max_entries, sampling, conntrack,
                       server, watchers, scheduled, warned>>
     \/ DropFails

\* NatResolverImpl::initialize opens the conntrack socket, or panics.
MakeNatResolver ==
  /\ step = "NatResolver"
  /\ \/ /\ conntrack' = opt.resolve_nat /\ step' = "server"
        /\ UNCHANGED <<opt, host, effective, permitted, program, max_entries, sampling, server,
                       watchers, scheduled, warned>>
     \/ opt.resolve_nat /\ Panic

\* start_open_metrics_server panics when the server does not start.
start_open_metrics_server ==
  /\ step = "server"
  /\ \/ /\ server' = opt.open_metrics /\ step' = "do_work_starts"
        /\ UNCHANGED <<opt, host, effective, permitted, program, max_entries, sampling,
                       conntrack, watchers, scheduled, warned>>
     \/ opt.open_metrics /\ Panic

\* do_work up to its loop: the events, the signals, which panic when they
\* cannot be registered, and the watchers.
EnterLoop ==
  /\ step = "do_work_starts"
  /\ \/ /\ scheduled' = {"aggregate", "publish"} \union (IF opt.resolve_nat THEN {"resolve_nat"} ELSE {})
        /\ watchers' = opt.kubernetes_metadata
        /\ step' = "do_work"
        /\ UNCHANGED <<opt, host, effective, permitted, program, max_entries, sampling,
                       conntrack, server, warned>>
     \/ Panic

\* The main loop returns on a signal, or an assertion in it fails.
Leave ==
  /\ step = "do_work"
  /\ End("stopped", TRUE) \/ Panic

\* The kernel or an operator kills the process.
Kill ==
  /\ step \notin Ended
  /\ End("killed", FALSE)

StartNext ==
  \/ check_kernel_version \/ OpenCgroup \/ instantiate_ebpf_object \/ LoadProgram
  \/ AttachProgram \/ MakeProvider \/ DropEffective \/ DropPermitted \/ MakeNatResolver
  \/ start_open_metrics_server \/ EnterLoop \/ Leave \/ Kill

StartSpec == StartInit /\ [][StartNext]_startVars

-----------------------------------------------------------------------------
\* However the agent ends (an error, a panic that aborts, a signal, a kill),
\* its program does not stay on the cgroup, where with CgroupAttachMode::Single
\* it would keep the next agent from starting.  check_kernel_version is what
\* makes this true of an abort.
NothingOutlivesTheAgent == step \in Ended => program = "none"

\* The main loop, the server and the conntrack socket run only while the
\* program is attached, its maps are sized, the first control data is written
\* and CAP_SYS_ADMIN is out of both sets, or a warning says that it is not
\* (on_load, drop_capabilities: "Also drop from permitted capabilities to
\* prevent re-enabling").
RunsReady ==
  (conntrack \/ server \/ step = "do_work") =>
    /\ program = "attached" /\ sampling
    /\ max_entries.cache = max_entries.props
    /\ warned \/ (~effective /\ ~permitted)
    /\ conntrack = ("resolve_nat" \in scheduled) \/ step # "do_work"

\* The maps take their share of the memory and no more (map_max_entries): above
\* the smallest size, the entries are at most in the proportion of the divisor
\* to the memory, and the stats map keeps its ratio to the props map.
MapsWithinShare ==
  program \in {"loaded", "attached"} =>
    /\ max_entries.props = MAX_ENTRIES_SK_PROPS_LO
         \/ max_entries.props * divisor <= host.mem_total * MAX_ENTRIES_SK_PROPS_LO
    /\ max_entries.props \in MAX_ENTRIES_SK_PROPS_LO..MAX_ENTRIES_SK_PROPS_HI
    /\ max_entries.stats = SK_STATS_TO_PROPS_RATIO * max_entries.props

\* The agent starts whole or not at all: what it runs is ready, its maps take
\* their share of the memory, and nothing of it is left when it ends (on_load
\* and EventProviderEbpf::new, with all that can fail in them).
StartsWholeOrNot == NothingOutlivesTheAgent /\ RunsReady /\ MapsWithinShare
=============================================================================
