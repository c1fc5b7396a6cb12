--------------------------- MODULE SystemMetrics ---------------------------
(***************************************************************************)
(* The host statistics have two readers: publish_event of the report loop  *)
(* (nfm-controller/src/lib.rs) and, in the server thread, the scrapes of   *)
(* SystemMetricsProvider (open_metrics/providers/system_metrics_provider   *)
(* .rs).  Each owns a HostStatsProviderImpl and so the readings it         *)
(* subtracts.  The report loop refreshes its list of interfaces with every *)
(* report; the provider of the scrapes reads it once, in its constructor.  *)
(* One counter stands for the five; the steps of one reading, and its      *)
(* failures, are those of module HostStats and are one step here.          *)
(***************************************************************************)
EXTENDS Integers, Functions

CONSTANTS Enis,         \* interface ids
          AtStart,      \* the interfaces attached when the agent starts
          MaxCount,     \* bound: events per interface
          MaxChanges    \* bound: interfaces attached or detached

ASSUME StartAssumption == AtStart \subseteq Enis

Readers == {"report", "scrape"}

VARIABLES
  counter,     \* interface -> cumulative counter of the attached interfaces
  network,     \* reader -> the interfaces its EniMetadataProvider knows
  prior,       \* reader -> interface -> counter at its last reading
  gauges,      \* interface -> value of its gauge
  changes,     \* bound
  told,        \* history: reader -> interface -> sum of the deltas it was given
  unseen       \* history: reader -> interface -> events no delta of its shall hold

metrics_vars == <<counter, network, prior, gauges, changes, told, unseen>>

Empty == [x \in {} |-> 0]

\* SystemMetricsProvider::new asks the metadata service for the interfaces, and
\* gets none when it does not answer.
MetricsInit ==
  /\ counter = [e \in AtStart |-> 0]
  /\ network \in [Readers -> {AtStart, {}}]
  /\ prior = [r \in Readers |-> Empty]
  /\ gauges = Empty
  /\ changes = 0
  /\ told = [r \in Readers |-> [e \in Enis |-> 0]]
  /\ unseen = [r \in Readers |-> [e \in Enis |-> 0]]

-----------------------------------------------------------------------------
\* The host.  An interface that was detached does not come back: what happens
\* then is the subject of module HostStats.
Attach(e) ==
  /\ changes < MaxChanges /\ changes' = changes + 1
  /\ e \notin AtStart /\ e \notin DOMAIN counter
  /\ \A r \in Readers : told[r][e] = 0 /\ unseen[r][e] = 0
  /\ counter' = [f \in DOMAIN counter \cup {e} |-> IF f = e THEN 0 ELSE counter[f]]
  /\ UNCHANGED <<network, prior, gauges, told, unseen>>

\* What was counted since a reader's last reading is lost to it.
Detach(e) ==
  /\ changes < MaxChanges /\ changes' = changes + 1
  /\ e \in DOMAIN counter
  /\ counter' = Restrict(counter, DOMAIN counter \ {e})
  /\ unseen' = [r \in Readers |-> [unseen[r] EXCEPT ![e] = counter[e] - told[r][e]]]
  /\ UNCHANGED <<network, prior, gauges, told>>

Count(e) ==
  /\ e \in DOMAIN counter /\ counter[e] < MaxCount
  /\ counter' = [counter EXCEPT ![e] = @ + 1]
  /\ UNCHANGED <<network, prior, gauges, changes, told, unseen>>

-----------------------------------------------------------------------------
\* Mutant of provider_of: one HostStatsProviderImpl serves both readers.
provider_of_Shared(r) == "report"

\* The HostStatsProviderImpl a reader owns.
provider_of(r) == r

\* set_network_devices and get_stats of a provider, for the interfaces known:
\* a new interface is read, so that its first delta is zero.
Devices(known) == known \cap DOMAIN counter

First(r, e) == IF e \in DOMAIN prior[provider_of(r)] THEN prior[provider_of(r)][e] ELSE counter[e]

get_stats(r, known) == [e \in Devices(known) |-> counter[e] - First(r, e)]

Read(r, known) ==
  LET stats == get_stats(r, known)
  IN  /\ prior' = [prior EXCEPT ![provider_of(r)] = [e \in Devices(known) |-> counter[e]]]
      /\ told' = [told EXCEPT ![r] = [e \in Enis |-> @[e] + IF e \in DOMAIN stats THEN stats[e] ELSE 0]]
      /\ unseen' = [unseen EXCEPT ![r] =
           [e \in Enis |-> IF e \in Devices(known) \ DOMAIN prior[r] THEN counter[e] ELSE @[e]]]

\* publish_event: metadata_provider.refresh(), then the host statistics.
publish_event ==
  /\ network' = [network EXCEPT !["report"] = DOMAIN counter]
  /\ Read("report", DOMAIN counter)
  /\ UNCHANGED <<counter, gauges, changes>>

\* The gauges are set; those of interfaces that are gone keep their values.
with_label_values(stats) ==
  [e \in DOMAIN stats \cup DOMAIN gauges |-> IF e \in DOMAIN stats THEN stats[e] ELSE gauges[e]]

\* update_metrics, and get_metrics with the interfaces known from the start.
update_metrics ==
  /\ gauges' = with_label_values(get_stats("scrape", network["scrape"]))
  /\ Read("scrape", network["scrape"])
  /\ UNCHANGED <<counter, network, changes>>

MetricsNext ==
  \/ \E e \in Enis : Attach(e) \/ Detach(e) \/ Count(e)
  \/ publish_event
  \/ update_metrics

MetricsSpec == MetricsInit /\ [][MetricsNext]_metrics_vars

-----------------------------------------------------------------------------
\* However reports and scrapes interleave, each reader is told every event of
\* an interface once, from its own first reading on: the deltas one of them
\* takes are not missing from the other's (the two HostStatsProviderImpl).
ToldOnce ==
  \A r \in Readers : \A e \in DOMAIN prior[r] \cap DOMAIN counter :
    unseen[r][e] + told[r][e] + (counter[e] - prior[r][e]) = counter[e]

\* The invariant behind it: what a reader was told and what it shall not be told
\* make up its last reading; it was told nothing of an interface that it has
\* not read; the scrapes read the interfaces known from the start only.
MetricsInvariant ==
  /\ counter \in [DOMAIN counter -> Nat] /\ DOMAIN counter \subseteq Enis
  /\ DOMAIN prior = Readers /\ DOMAIN network = Readers
  /\ DOMAIN prior["scrape"] \subseteq network["scrape"]
  /\ told \in [Readers -> [Enis -> Nat]] /\ unseen \in [Readers -> [Enis -> Nat]]
  /\ \A r \in Readers : \A e \in DOMAIN prior[r] :
       /\ e \in Enis /\ prior[r][e] \in Nat
       /\ e \in DOMAIN counter => unseen[r][e] + told[r][e] = prior[r][e] /\ prior[r][e] <= counter[e]
       /\ e \notin DOMAIN counter => prior[r][e] <= unseen[r][e] + told[r][e]
  /\ \A r \in Readers : \A e \in DOMAIN counter \ DOMAIN prior[r] : told[r][e] = 0

\* A gauge shows what the last scrape found since the scrape before it: between
\* two scrapes no more than what was counted between them
\* (update_metrics sets, and never adds).
ScrapeStep ==
  \A e \in DOMAIN gauges' : gauges'[e] # (IF e \in DOMAIN gauges THEN gauges[e] ELSE 0) =>
    gauges'[e] = told'["scrape"][e] - told["scrape"][e]

\* Reports and scrapes do not take events from each other, and a gauge shows
\* what was counted between two scrapes.
ReadersAreIndependent == [][ToldOnce' /\ MetricsInvariant' /\ ScrapeStep]_metrics_vars
=============================================================================
