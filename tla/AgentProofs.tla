----------------------------- MODULE AgentProofs ----------------------------
(***************************************************************************)
(* Proofs about the parts of the agent around its report loop: the readers *)
(* of the interface counters (SystemMetrics), the timer of the main loop   *)
(* (EventTimer), the metrics server (OpenMetricsServer), the start of the  *)
(* agent (Startup) and the CPU usage (CpuUsage).  They share no variable.  *)
(***************************************************************************)
EXTENDS EventTimer, SystemMetrics, OpenMetricsServer, Startup, CpuUsage, TLAPS

-----------------------------------------------------------------------------
(* The report and the scrapes each get every event of an interface once,    *)
(* for any interfaces, any number of events and any interleaving of         *)
(* reports, scrapes and changes.                                            *)

LEMMA MetricsInvInit == MetricsInit => MetricsInvariant
BY StartAssumption DEF StartAssumption, MetricsInit, MetricsInvariant, Readers, Empty

LEMMA AttachInv ==
  ASSUME MetricsInvariant, NEW e \in Enis, Attach(e)
  PROVE  MetricsInvariant'
<1>1. /\ e \notin DOMAIN counter
      /\ \A r \in Readers : told[r][e] = 0 /\ unseen[r][e] = 0
      /\ counter' = [f \in DOMAIN counter \cup {e} |-> IF f = e THEN 0 ELSE counter[f]]
      /\ UNCHANGED <<network, prior, told, unseen>>
  BY Zenon DEF Attach
<1>2. /\ DOMAIN counter' = DOMAIN counter \cup {e} /\ counter'[e] = 0
      /\ \A f \in DOMAIN counter : counter'[f] = counter[f]
      /\ counter' \in [DOMAIN counter' -> Nat]
  BY Zenon, <1>1 DEF MetricsInvariant
<1>3. ASSUME NEW r \in Readers, NEW f \in DOMAIN prior[r]
      PROVE  /\ f \in Enis /\ prior[r][f] \in Nat
             /\ f \in DOMAIN counter' => unseen[r][f] + told[r][f] = prior[r][f] /\ prior[r][f] <= counter'[f]
             /\ f \notin DOMAIN counter' => prior[r][f] <= unseen[r][f] + told[r][f]
  <2>1. CASE f = e
    BY <2>1, <1>1, <1>2 DEF MetricsInvariant
  <2>2. CASE f # e
    BY Zenon, <2>2, <1>2 DEF MetricsInvariant
  <2> QED BY Zenon, <2>1, <2>2
<1>4. ASSUME NEW r \in Readers, NEW f \in DOMAIN counter' \ DOMAIN prior[r] PROVE told[r][f] = 0
  BY Zenon, <1>1, <1>2 DEF MetricsInvariant
<1>5. DOMAIN counter' \subseteq Enis
  BY Zenon, <1>2 DEF MetricsInvariant
<1> QED BY <1>1, <1>2, <1>3, <1>4, <1>5 DEF MetricsInvariant

LEMMA DetachInv ==
  ASSUME MetricsInvariant, NEW e \in Enis, Detach(e)
  PROVE  MetricsInvariant'
<1>1. /\ e \in DOMAIN counter
      /\ counter' = Restrict(counter, DOMAIN counter \ {e})
      /\ unseen' = [r \in Readers |-> [unseen[r] EXCEPT ![e] = counter[e] - told[r][e]]]
      /\ UNCHANGED <<network, prior, told>>
  BY Zenon DEF Detach
<1>2. /\ DOMAIN counter' = DOMAIN counter \ {e} /\ DOMAIN counter' \subseteq Enis
      /\ \A f \in DOMAIN counter' : counter'[f] = counter[f]
      /\ counter' \in [DOMAIN counter' -> Nat]
  BY Zenon, <1>1 DEF MetricsInvariant, Restrict
<1>3. ASSUME NEW r \in Readers PROVE counter[e] - told[r][e] \in Nat
  <2>1. counter[e] \in Nat /\ told[r][e] \in Nat /\ unseen[r][e] \in Nat
    BY Zenon, <1>1 DEF MetricsInvariant
  <2>2. CASE e \in DOMAIN prior[r]
    BY <2>1, <2>2, <1>1 DEF MetricsInvariant
  <2>3. CASE e \notin DOMAIN prior[r]
    BY <2>1, <2>3, <1>1 DEF MetricsInvariant
  <2> QED BY Zenon, <2>2, <2>3
<1>4. /\ unseen' \in [Readers -> [Enis -> Nat]]
      /\ \A r \in Readers : \A f \in Enis :
           unseen'[r][f] = IF f = e THEN counter[e] - told[r][e] ELSE unseen[r][f]
  BY Zenon, <1>1, <1>3 DEF MetricsInvariant
<1>5. ASSUME NEW r \in Readers, NEW f \in DOMAIN prior[r]
      PROVE  /\ f \in Enis /\ prior[r][f] \in Nat
             /\ f \in DOMAIN counter' => unseen'[r][f] + told[r][f] = prior[r][f] /\ prior[r][f] <= counter'[f]
             /\ f \notin DOMAIN counter' => prior[r][f] <= unseen'[r][f] + told[r][f]
  <2>1. /\ f \in Enis /\ prior[r][f] \in Nat /\ told[r][f] \in Nat /\ counter[e] \in Nat
        /\ f \in DOMAIN counter => unseen[r][f] + told[r][f] = prior[r][f] /\ prior[r][f] <= counter[f]
        /\ f \notin DOMAIN counter => prior[r][f] <= unseen[r][f] + told[r][f]
    BY Zenon, <1>1 DEF MetricsInvariant
  <2>2. CASE f = e
    <3>1. unseen'[r][f] = counter[e] - told[r][e] /\ f \notin DOMAIN counter'
      BY Zenon, <2>1, <2>2, <1>2, <1>4
    <3>2. prior[r][f] <= counter[e] /\ unseen'[r][f] + told[r][f] = counter[e]
      BY <3>1, <2>1, <2>2, <1>1
    <3> QED BY Zenon, <3>1, <3>2, <2>1
  <2>3. CASE f # e
    <3>1. unseen'[r][f] = unseen[r][f] /\ (f \in DOMAIN counter' <=> f \in DOMAIN counter)
      BY Zenon, <2>1, <2>3, <1>2, <1>4
    <3> QED BY Zenon, <3>1, <2>1, <1>2
  <2> QED BY Zenon, <2>2, <2>3
<1>6. ASSUME NEW r \in Readers, NEW f \in DOMAIN counter' \ DOMAIN prior[r] PROVE told[r][f] = 0
  BY Zenon, <1>2 DEF MetricsInvariant
<1>7. /\ DOMAIN prior = Readers /\ DOMAIN network = Readers
      /\ DOMAIN prior["scrape"] \subseteq network["scrape"]
      /\ told \in [Readers -> [Enis -> Nat]]
  BY Zenon DEF MetricsInvariant
<1>8. network' = network /\ prior' = prior /\ told' = told
  BY Zenon, <1>1
<1> QED BY <1>2, <1>4, <1>5, <1>6, <1>7, <1>8 DEF MetricsInvariant

LEMMA CountInv ==
  ASSUME MetricsInvariant, NEW e \in Enis, Count(e)
  PROVE  MetricsInvariant'
<1>1. /\ e \in DOMAIN counter /\ counter' = [counter EXCEPT ![e] = @ + 1]
      /\ UNCHANGED <<network, prior, told, unseen>>
  BY Zenon DEF Count
<1>2. /\ DOMAIN counter' = DOMAIN counter /\ counter' \in [DOMAIN counter' -> Nat]
      /\ \A f \in DOMAIN counter : counter'[f] \in Nat /\ counter[f] \in Nat /\ counter[f] <= counter'[f]
  BY <1>1 DEF MetricsInvariant
<1>3. ASSUME NEW r \in Readers, NEW f \in DOMAIN prior[r]
      PROVE  /\ f \in Enis /\ prior[r][f] \in Nat
             /\ f \in DOMAIN counter' => unseen[r][f] + told[r][f] = prior[r][f] /\ prior[r][f] <= counter'[f]
             /\ f \notin DOMAIN counter' => prior[r][f] <= unseen[r][f] + told[r][f]
  <2>1. /\ f \in Enis /\ prior[r][f] \in Nat
        /\ f \in DOMAIN counter => unseen[r][f] + told[r][f] = prior[r][f] /\ prior[r][f] <= counter[f]
        /\ f \notin DOMAIN counter => prior[r][f] <= unseen[r][f] + told[r][f]
    BY Zenon DEF MetricsInvariant
  <2> QED BY <2>1, <1>2
<1> QED BY <1>1, <1>2, <1>3 DEF MetricsInvariant

\* A reading by r of the interfaces that it knows, which are all that exist or
\* include those that it has read before.
LEMMA ReadInv ==
  ASSUME MetricsInvariant, NEW r \in Readers, NEW known, Read(r, known), UNCHANGED counter,
         known = DOMAIN counter \/ DOMAIN prior[r] \subseteq known,
         DOMAIN network' = Readers, network'["scrape"] = network["scrape"],
         r = "scrape" => known = network["scrape"]
  PROVE  MetricsInvariant'
<1> DEFINE noted == known \cap DOMAIN counter
<1>1. /\ prior' = [prior EXCEPT ![r] = [e \in noted |-> counter[e]]]
      /\ told' = [told EXCEPT ![r] = [e \in Enis |->
                    told[r][e] + IF e \in noted THEN counter[e] - First(r, e) ELSE 0]]
      /\ unseen' = [unseen EXCEPT ![r] =
           [e \in Enis |-> IF e \in noted \ DOMAIN prior[r] THEN counter[e] ELSE unseen[r][e]]]
  BY Zenon DEF Read, get_stats, Devices, provider_of, MetricsInvariant
<1>2. \A e \in Enis : /\ told[r][e] \in Nat /\ unseen[r][e] \in Nat
                      /\ e \in DOMAIN counter => counter[e] \in Nat
  BY Zenon DEF MetricsInvariant
<1>3. ASSUME NEW e \in noted
      PROVE  /\ First(r, e) \in Nat /\ First(r, e) <= counter[e]
             /\ e \in DOMAIN prior[r] => First(r, e) = prior[r][e]
             /\ e \notin DOMAIN prior[r] => First(r, e) = counter[e]
  <2>1. e \in Enis /\ counter[e] \in Nat
    BY Zenon DEF MetricsInvariant
  <2>2. CASE e \in DOMAIN prior[r]
    BY Zenon, <2>1, <2>2 DEF First, provider_of, MetricsInvariant
  <2>3. CASE e \notin DOMAIN prior[r]
    BY <2>1, <2>3 DEF First, provider_of
  <2> QED BY Zenon, <2>2, <2>3
<1>4. /\ prior'[r] = [e \in noted |-> counter[e]] /\ DOMAIN prior' = Readers
      /\ \A q \in Readers \ {r} : prior'[q] = prior[q]
  BY Zenon, <1>1 DEF MetricsInvariant
<1>5. /\ told' \in [Readers -> [Enis -> Nat]]
      /\ \A e \in Enis : told'[r][e] = told[r][e] + IF e \in noted THEN counter[e] - First(r, e) ELSE 0
      /\ \A q \in Readers \ {r} : told'[q] = told[q]
  <2>1. \A e \in Enis : told[r][e] + (IF e \in noted THEN counter[e] - First(r, e) ELSE 0) \in Nat
    BY <1>2, <1>3
  <2> QED BY Zenon, <1>1, <2>1 DEF MetricsInvariant
<1>6. /\ unseen' \in [Readers -> [Enis -> Nat]]
      /\ \A e \in Enis : unseen'[r][e] = IF e \in noted \ DOMAIN prior[r] THEN counter[e] ELSE unseen[r][e]
      /\ \A q \in Readers \ {r} : unseen'[q] = unseen[q]
  BY Zenon, <1>1, <1>2 DEF MetricsInvariant
<1>7. ASSUME NEW q \in Readers, NEW e \in DOMAIN prior'[q]
      PROVE  /\ e \in Enis /\ prior'[q][e] \in Nat
             /\ e \in DOMAIN counter => unseen'[q][e] + told'[q][e] = prior'[q][e] /\ prior'[q][e] <= counter[e]
             /\ e \notin DOMAIN counter => prior'[q][e] <= unseen'[q][e] + told'[q][e]
  <2>1. CASE q # r
    BY <2>1, <1>4, <1>5, <1>6 DEF MetricsInvariant
  <2>2. CASE q = r
    <3>1. e \in noted /\ prior'[r][e] = counter[e] /\ e \in Enis /\ counter[e] \in Nat
      BY Zenon, <2>2, <1>4 DEF MetricsInvariant
    <3>2. CASE e \in DOMAIN prior[r]
      <4>1. unseen[r][e] + told[r][e] = prior[r][e] /\ prior[r][e] \in Nat
        BY Zenon, <3>1, <3>2 DEF MetricsInvariant
      <4>2. unseen'[r][e] = unseen[r][e] /\ told'[r][e] = told[r][e] + (counter[e] - prior[r][e])
        BY Zenon, <3>1, <3>2, <1>3, <1>5, <1>6
      <4> QED BY <4>1, <4>2, <3>1, <2>2, <1>2
    <3>3. CASE e \notin DOMAIN prior[r]
      <4>1. told[r][e] = 0
        BY Zenon, <3>1, <3>3 DEF MetricsInvariant
      <4>2. unseen'[r][e] = counter[e] /\ told'[r][e] = 0
        BY <4>1, <3>1, <3>3, <1>3, <1>5, <1>6
      <4> QED BY <4>2, <3>1, <2>2
    <3> QED BY Zenon, <3>2, <3>3
  <2> QED BY Zenon, <2>1, <2>2
<1>8. ASSUME NEW q \in Readers, NEW e \in DOMAIN counter \ DOMAIN prior'[q] PROVE told'[q][e] = 0
  <2>0. e \in Enis
    BY Zenon DEF MetricsInvariant
  <2>1. CASE q # r
    BY <2>1, <1>4, <1>5 DEF MetricsInvariant
  <2>2. CASE q = r
    <3>1. e \notin noted /\ e \notin DOMAIN prior[r]
      BY Zenon, <2>2, <1>4
    <3>2. told[r][e] = 0
      BY Zenon, <3>1 DEF MetricsInvariant
    <3> QED BY <3>1, <3>2, <2>0, <2>2, <1>5
  <2> QED BY Zenon, <2>1, <2>2
<1>9. DOMAIN prior'["scrape"] \subseteq network'["scrape"]
  <2>1. CASE r = "scrape"
    BY Zenon, <2>1, <1>4
  <2>2. CASE r # "scrape"
    BY Zenon, <2>2, <1>4 DEF MetricsInvariant, Readers
  <2> QED BY Zenon, <2>1, <2>2
<1> QED BY <1>4, <1>5, <1>6, <1>7, <1>8, <1>9 DEF MetricsInvariant

LEMMA MetricsInvNext == MetricsInvariant /\ [MetricsNext]_metrics_vars => MetricsInvariant'
<1> SUFFICES ASSUME MetricsInvariant, [MetricsNext]_metrics_vars PROVE MetricsInvariant'
  BY Zenon
<1>1. ASSUME NEW e \in Enis, Attach(e) \/ Detach(e) \/ Count(e) PROVE MetricsInvariant'
  BY Zenon, <1>1, AttachInv, DetachInv, CountInv
<1>2. CASE publish_event
  <2>1. /\ Read("report", DOMAIN counter) /\ UNCHANGED counter
        /\ DOMAIN network' = Readers /\ network'["scrape"] = network["scrape"]
    BY Zenon, <1>2 DEF publish_event, MetricsInvariant, Readers
  <2>2. "report" \in Readers /\ "report" # "scrape"
    BY Zenon DEF Readers
  <2> QED BY Zenon, <2>1, <2>2, ReadInv
<1>3. CASE update_metrics
  <2>1. /\ Read("scrape", network["scrape"]) /\ UNCHANGED counter
        /\ network' = network /\ DOMAIN network = Readers
        /\ DOMAIN prior["scrape"] \subseteq network["scrape"]
    BY Zenon, <1>3 DEF update_metrics, MetricsInvariant
  <2>2. "scrape" \in Readers
    BY Zenon DEF Readers
  <2> QED BY Zenon, <2>1, <2>2, ReadInv
<1>4. CASE UNCHANGED metrics_vars
  BY Zenon, <1>4 DEF metrics_vars, MetricsInvariant
<1> QED BY Zenon, <1>1, <1>2, <1>3, <1>4 DEF MetricsNext

LEMMA ScrapeStepFollows == MetricsInvariant /\ [MetricsNext]_metrics_vars => ScrapeStep \/ UNCHANGED metrics_vars
<1> SUFFICES ASSUME MetricsInvariant, MetricsNext PROVE ScrapeStep
  BY Zenon
<1>1. CASE gauges' = gauges
  BY Zenon, <1>1 DEF ScrapeStep
<1>2. CASE update_metrics
  <2> DEFINE stats == get_stats("scrape", network["scrape"])
  <2>1. gauges' = with_label_values(stats) /\ Read("scrape", network["scrape"])
    BY Zenon, <1>2 DEF update_metrics
  <2>2. /\ DOMAIN gauges' = DOMAIN stats \cup DOMAIN gauges
        /\ \A e \in DOMAIN gauges' : gauges'[e] = IF e \in DOMAIN stats THEN stats[e] ELSE gauges[e]
    BY Zenon, <2>1 DEF with_label_values
  <2>3. ASSUME NEW e \in DOMAIN stats
        PROVE  e \in Enis /\ stats[e] \in Int /\ told["scrape"][e] \in Nat
    <3>1. e \in DOMAIN counter /\ e \in Enis /\ counter[e] \in Nat
      BY Zenon DEF get_stats, Devices, MetricsInvariant
    <3>2. First("scrape", e) \in Nat
      BY Zenon, <3>1 DEF First, provider_of, MetricsInvariant, Readers
    <3> QED BY <3>1, <3>2 DEF get_stats, MetricsInvariant, Readers
  <2>4. \A e \in DOMAIN stats : told'["scrape"][e] = told["scrape"][e] + stats[e]
    BY Zenon, <2>1, <2>3 DEF Read, MetricsInvariant, Readers
  <2> HIDE DEF stats
  <2>5. ASSUME NEW e \in DOMAIN gauges', gauges'[e] # IF e \in DOMAIN gauges THEN gauges[e] ELSE 0
        PROVE  gauges'[e] = told'["scrape"][e] - told["scrape"][e]
    <3>1. e \in DOMAIN stats /\ gauges'[e] = stats[e]
      BY Zenon, <2>2, <2>5
    <3> QED BY <3>1, <2>3, <2>4
  <2> QED BY Zenon, <2>5 DEF ScrapeStep
<1> QED BY Zenon, <1>1, <1>2 DEF MetricsNext, Attach, Detach, Count, publish_event

\* However reports and scrapes interleave, each reader is told every event of
\* an interface once, from its own first reading on, and a scrape sets a gauge
\* to what was counted since the scrape before: for any interfaces, any number
\* of events and any attaching and detaching.
THEOREM EachReaderToldOnce == MetricsSpec => []ToldOnce /\ ReadersAreIndependent
<1>1. MetricsInit => MetricsInvariant
  BY Zenon, MetricsInvInit
<1>2. MetricsInvariant => ToldOnce
  <2> SUFFICES ASSUME MetricsInvariant, NEW r \in Readers, NEW e \in DOMAIN prior[r] \cap DOMAIN counter
               PROVE  unseen[r][e] + told[r][e] + (counter[e] - prior[r][e]) = counter[e]
    BY Zenon DEF ToldOnce
  <2>1. counter[e] \in Nat /\ prior[r][e] \in Nat /\ unseen[r][e] + told[r][e] = prior[r][e]
    BY Zenon DEF MetricsInvariant
  <2> QED BY <2>1
<1> QED BY <1>1, <1>2, MetricsInvNext, ScrapeStepFollows, PTL DEF MetricsSpec, ReadersAreIndependent

-----------------------------------------------------------------------------
(* The timer of the main loop forgets no event and, once its events are     *)
(* added, never fails to put one back, for any events, periods, jitters,    *)
(* delays and clock.                                                        *)

LEMMA SmallerType ==
  ASSUME NEW m \in Nat, NEW n \in Nat
  PROVE  Smaller(m, n) \in Nat /\ Smaller(m, n) <= m
BY DEF Smaller

LEMMA ClockType ==
  ASSUME EventTimerAssumption, NEW t \in Nat, TypeOK
  PROVE  Smaller(uptime + t, SafeUptime) \in Nat
<1>1. uptime + t \in Nat /\ SafeUptime \in Nat
  BY DEF TypeOK, EventTimerAssumption
<1> QED BY <1>1, SmallerType, Zenon

\* An event that the clock was far enough for stays so.
LEMMA ClockGrows ==
  ASSUME EventTimerAssumption, TypeOK, NEW t \in Nat, NEW e \in Ids, ~Underflows(uptime, e)
  PROVE  ~Underflows(Smaller(uptime + t, SafeUptime), e)
<1>1. Period[e] \in Nat /\ Jitter[e] \in Nat /\ SafeUptime \in Nat /\ uptime \in Nat
  BY Zenon DEF EventTimerAssumption, TypeOK
<1>2. Jitter[e] <= SafeUptime
  BY Zenon DEF EventTimerAssumption
<1> QED BY <1>1, <1>2 DEF Underflows, Smaller

LEMMA ChosenTimes ==
  ASSUME EventTimerAssumption, NEW e \in Ids, NEW due \in choose_next_invocation(e)
  PROVE  due \in Int
<1>1. Period[e] \in Nat /\ Jitter[e] \in Nat
  BY Zenon DEF EventTimerAssumption
<1> QED BY <1>1 DEF choose_next_invocation

LEMMA TimerInit ==
  ASSUME EventTimerAssumption, Init
  PROVE  TimerInvariant
<1>1. uptime \in Nat
  <2>1. PICK now \in BootTimes : uptime = Smaller(now, SafeUptime)
    BY Zenon DEF Init
  <2>2. now \in Nat /\ SafeUptime \in Nat
    BY Zenon DEF EventTimerAssumption
  <2>3. Smaller(now, SafeUptime) \in Nat
    BY <2>2, SmallerType, Zenon
  <2> QED BY Zenon, <2>1, <2>3
<1>2. 1 \in Ids
  BY DEF EventTimerAssumption, Ids
<1>3. /\ last_id = 0 /\ events = [e \in {} |-> 0] /\ event = 0 /\ until_us = 0
      /\ exit_flag = FALSE /\ pc = "setup"
  BY Zenon DEF Init, EXIT_EVENT
<1>4. DOMAIN events = {} /\ 1..last_id = {} /\ last_id + 1 = 1
  BY <1>3
<1>5. TypeOK
  BY Zenon, <1>1, <1>3, <1>4 DEF TypeOK, EXIT_EVENT
<1>6. \E now \in BootTimes : uptime = Smaller(now, SafeUptime)
  BY Zenon DEF Init
<1> QED BY Zenon, <1>2, <1>3, <1>4, <1>5, <1>6
     DEF TimerInvariant, NoEventLost, SchedulingSucceeds, EXIT_EVENT

LEMMA AddEventInv ==
  ASSUME EventTimerAssumption, TimerInvariant, add_event
  PROVE  TimerInvariant'
<1>1. /\ pc = "setup" /\ last_id' = last_id + 1 /\ last_id' \in Ids
      /\ UNCHANGED <<uptime, event, until_us, exit_flag>>
  BY Zenon DEF add_event
<1>2. /\ uptime \in Nat /\ event = EXIT_EVENT
      /\ \A e \in 1..last_id : ~Underflows(uptime, e)
  BY Zenon, <1>1 DEF TimerInvariant, TypeOK
<1>3. PICK now \in BootTimes : uptime = Smaller(now, SafeUptime)
  BY Zenon, <1>1 DEF TimerInvariant
<1>4. CASE Underflows(uptime, last_id')
  <2>1. pc' = "panicked" /\ events' = events
    BY Zenon, <1>1, <1>4 DEF add_event
  <2>2. Underflows(now, last_id')
    <3>1. /\ Period[last_id'] \in Nat /\ Jitter[last_id'] \in Nat /\ Jitter[last_id'] <= SafeUptime
          /\ SafeUptime \in Nat /\ now \in Nat
      BY Zenon, <1>1 DEF EventTimerAssumption
    <3> QED BY <3>1, <1>3, <1>4 DEF Underflows, Smaller
  <2>3. \E reading \in BootTimes : Underflows(reading, last_id')
    BY Zenon, <2>2
  <2>4. SchedulingSucceeds'
    BY Zenon, <2>3, <1>1, <1>2 DEF SchedulingSucceeds, Underflows, EXIT_EVENT
  <2>5. TypeOK'
    BY Zenon, <2>1, <1>1 DEF TypeOK, TimerInvariant
  <2> QED BY Zenon, <2>1, <2>4, <2>5 DEF TimerInvariant, NoEventLost
<1>5. CASE ~Underflows(uptime, last_id')
  <2>1. PICK due \in choose_next_invocation(last_id') :
          events' = push(events, last_id', due + Delay[last_id'])
    BY Zenon, <1>1, <1>5 DEF add_event
  <2>2. due + Delay[last_id'] \in Int
    BY <1>1, <2>1, ChosenTimes DEF EventTimerAssumption
  <2>3. /\ DOMAIN events' = DOMAIN events \cup {last_id'}
        /\ \A e \in DOMAIN events' : events'[e] \in Int
    BY Zenon, <2>1, <2>2 DEF push, TimerInvariant, TypeOK
  <2>4. PICK n \in Nat : Ids = 1..n
    BY Zenon DEF EventTimerAssumption, Ids
  <2>5. last_id \in Nat /\ DOMAIN events = 1..last_id
    BY <1>1, <2>4 DEF TimerInvariant, TypeOK, EXIT_EVENT
  <2>6. 1..last_id' = 1..last_id \cup {last_id'} /\ DOMAIN events' = 1..last_id'
    BY <1>1, <2>3, <2>5
  <2>7. \A e \in 1..last_id' : ~Underflows(uptime', e)
    BY Zenon, <2>6, <1>1, <1>2, <1>5 DEF Underflows
  <2>8. CASE last_id' + 1 \in Ids
    <3>1. pc' = "setup"
      BY Zenon, <1>1, <1>5, <2>8 DEF add_event
    <3>2. TypeOK' /\ NoEventLost' /\ SchedulingSucceeds'
      BY Zenon, <3>1, <1>1, <1>2, <2>3 DEF TimerInvariant, TypeOK, NoEventLost, SchedulingSucceeds
    <3>3. \E reading \in BootTimes : uptime' = Smaller(reading, SafeUptime)
      BY Zenon, <1>1, <1>3
    <3> QED BY Zenon, <3>1, <3>2, <3>3, <1>1, <1>2, <2>6, <2>7, <2>8 DEF TimerInvariant, EXIT_EVENT
  <2>9. CASE last_id' + 1 \notin Ids
    <3>1. pc' = "await"
      BY Zenon, <1>1, <1>5, <2>9 DEF add_event
    <3>2. 1..last_id' = Ids
      BY <1>1, <2>4, <2>5, <2>9
    <3>3. DOMAIN events' = Ids
      BY Zenon, <3>2, <2>6
    <3>4. TypeOK' /\ NoEventLost' /\ SchedulingSucceeds'
      BY Zenon, <3>1, <3>3, <1>1, <1>2, <2>3 DEF TimerInvariant, TypeOK, NoEventLost, SchedulingSucceeds
    <3> QED BY Zenon, <3>1, <3>2, <3>4, <2>7 DEF TimerInvariant
  <2> QED BY Zenon, <2>8, <2>9
<1> QED BY Zenon, <1>4, <1>5

\* Putting back an event that was taken out of the heap.
LEMMA RescheduleInv ==
  ASSUME EventTimerAssumption, TypeOK, \A f \in Ids : ~Underflows(uptime, f),
         NEW e \in Ids, NEW heap, DOMAIN heap = Ids \ {e},
         \A f \in DOMAIN heap : heap[f] \in Int,
         NEW t \in Nat, Reschedule(heap, e, t),
         event' = e, until_us' \in Nat, UNCHANGED <<last_id, exit_flag>>
  PROVE  TimerInvariant'
<1>1. uptime' \in Nat /\ \A f \in Ids : ~Underflows(uptime', f)
  <2>1. uptime' = Smaller(uptime + t, SafeUptime)
    BY Zenon DEF Reschedule
  <2>2. Smaller(uptime + t, SafeUptime) \in Nat
    BY Zenon, ClockType
  <2>3. \A f \in Ids : ~Underflows(Smaller(uptime + t, SafeUptime), f)
    BY Zenon, ClockGrows
  <2> QED BY Zenon, <2>1, <2>2, <2>3
<1>2. PICK due \in choose_next_invocation(e) : events' = push(heap, e, due)
  BY Zenon, <1>1 DEF Reschedule
<1>3. due \in Int
  BY Zenon, ChosenTimes
<1>4. DOMAIN events' = Ids /\ \A f \in DOMAIN events' : events'[f] \in Int
  BY Zenon, <1>2, <1>3 DEF push
<1>5. pc' = "work"
  BY Zenon, <1>1 DEF Reschedule
<1>6. TypeOK' /\ NoEventLost' /\ SchedulingSucceeds'
  BY Zenon, <1>1, <1>4, <1>5 DEF TypeOK, NoEventLost, SchedulingSucceeds
<1>7. (\A f \in Ids : ~Underflows(uptime, f))'
  BY Zenon, <1>1 DEF Underflows
<1> QED BY Zenon, <1>5, <1>6, <1>7 DEF TimerInvariant

LEMMA AwaitInv ==
  ASSUME EventTimerAssumption, TimerInvariant, await_next_event
  PROVE  TimerInvariant'
<1>1. /\ pc = "await" /\ DOMAIN events = Ids /\ TypeOK /\ UNCHANGED <<last_id, exit_flag>>
      /\ \A f \in Ids : ~Underflows(uptime, f)
  BY Zenon DEF await_next_event, TimerInvariant, NoEventLost
<1>2. 1 \in Ids
  BY DEF EventTimerAssumption, Ids
<1>3. PICK e \in earliest :
        /\ event' = e
        /\ IF events[e] > 0
           THEN /\ events' = Restrict(events, DOMAIN events \ {e})
                /\ until_us' = events[e] /\ pc' = "sleep" /\ UNCHANGED uptime
           ELSE Reschedule(Restrict(events, DOMAIN events \ {e}), e, 0) /\ UNCHANGED until_us
  BY Zenon, <1>1, <1>2 DEF await_next_event
<1> DEFINE heap == Restrict(events, DOMAIN events \ {e})
<1>4. e \in Ids /\ events[e] \in Int
  BY Zenon, <1>1, <1>3 DEF earliest, TypeOK
<1>5. DOMAIN heap = Ids \ {e} /\ \A f \in DOMAIN heap : heap[f] \in Int
  BY Zenon, <1>1 DEF Restrict, TypeOK
<1>6. CASE events[e] > 0
  <2>1. /\ events' = heap /\ until_us' = events[e] /\ pc' = "sleep" /\ uptime' = uptime
    BY Zenon, <1>3, <1>6
  <2> HIDE DEF heap
  <2>2. event' = e /\ until_us' \in Nat
    BY <2>1, <1>3, <1>4, <1>6
  <2>3. TypeOK' /\ NoEventLost' /\ SchedulingSucceeds'
    BY Zenon, <2>1, <2>2, <1>1, <1>4, <1>5 DEF TypeOK, NoEventLost, SchedulingSucceeds
  <2>4. (\A f \in Ids : ~Underflows(uptime, f))'
    BY Zenon, <2>1, <1>1 DEF Underflows
  <2> QED BY Zenon, <2>1, <2>2, <2>3, <2>4, <1>4 DEF TimerInvariant
<1>7. CASE ~(events[e] > 0)
  <2>1. Reschedule(heap, e, 0) /\ until_us' = until_us
    BY Zenon, <1>3, <1>7
  <2>2. until_us' \in Nat
    BY Zenon, <2>1, <1>1 DEF TypeOK
  <2> HIDE DEF heap
  <2> QED BY Zenon, <2>1, <2>2, <1>1, <1>3, <1>4, <1>5, RescheduleInv
<1> QED BY Zenon, <1>6, <1>7

LEMMA TrySleepInv ==
  ASSUME EventTimerAssumption, TimerInvariant, try_sleep
  PROVE  TimerInvariant'
<1>1. /\ pc = "sleep" /\ TypeOK /\ event \in Ids /\ DOMAIN events = Ids \ {event}
      /\ UNCHANGED <<last_id, event, exit_flag>>
      /\ \A f \in Ids : ~Underflows(uptime, f)
  BY Zenon DEF try_sleep, TimerInvariant, NoEventLost
<1> DEFINE slept == Smaller(until_us, Fragment)
<1>2. PICK extra \in 0..MaxOversleep :
        /\ until_us' = until_us - slept
        /\ IF exit_flag \/ until_us' > 0
           THEN /\ events' = Elapse(events, slept + extra)
                /\ uptime' = Smaller(uptime + slept + extra, SafeUptime)
                /\ pc' = IF exit_flag THEN "exited" ELSE pc
           ELSE Reschedule(Elapse(events, slept + extra), event, slept + extra)
  BY Zenon DEF try_sleep
<1>3. slept \in Nat /\ slept <= until_us /\ until_us \in Nat
  <2>1. until_us \in Nat /\ Fragment \in Nat
    BY Zenon, <1>1 DEF TypeOK, EventTimerAssumption
  <2> QED BY <2>1, SmallerType, Zenon
<1> HIDE DEF slept
<1>4. slept + extra \in Nat /\ until_us' \in Nat /\ uptime + slept + extra = uptime + (slept + extra)
  BY <1>1, <1>2, <1>3 DEF EventTimerAssumption, TypeOK
<1> DEFINE heap == Elapse(events, slept + extra)
<1>5. DOMAIN heap = Ids \ {event} /\ \A f \in DOMAIN heap : heap[f] \in Int
  BY <1>1, <1>4 DEF Elapse, TypeOK
<1> HIDE DEF heap
<1>6. CASE exit_flag \/ until_us' > 0
  <2>1. /\ events' = heap /\ pc' \in {"sleep", "exited"}
        /\ uptime' = Smaller(uptime + (slept + extra), SafeUptime)
    BY Zenon, <1>1, <1>2, <1>4, <1>6 DEF heap
  <2>2. uptime' \in Nat
    BY Zenon, <2>1, <1>1, <1>4, ClockType
  <2>3. \A f \in Ids : ~Underflows(Smaller(uptime + (slept + extra), SafeUptime), f)
    BY Zenon, <1>1, <1>4, ClockGrows
  <2>4. (\A f \in Ids : ~Underflows(uptime, f))'
    BY Zenon, <2>1, <2>3 DEF Underflows
  <2>5. TypeOK' /\ NoEventLost' /\ SchedulingSucceeds'
    BY Zenon, <2>1, <2>2, <1>1, <1>4, <1>5 DEF TypeOK, NoEventLost, SchedulingSucceeds
  <2> QED BY Zenon, <2>1, <2>4, <2>5, <1>1 DEF TimerInvariant
<1>7. CASE ~(exit_flag \/ until_us' > 0)
  <2>1. Reschedule(heap, event, slept + extra)
    BY Zenon, <1>2, <1>7 DEF heap
  <2> QED BY Zenon, <2>1, <1>1, <1>4, <1>5, RescheduleInv
<1> QED BY Zenon, <1>6, <1>7

LEMMA WorkInv ==
  ASSUME EventTimerAssumption, TimerInvariant, Work
  PROVE  TimerInvariant'
<1>1. PICK t \in 0..MaxWork : events' = Elapse(events, t) /\ uptime' = Smaller(uptime + t, SafeUptime)
  BY Zenon DEF Work
<1>2. /\ pc = "work" /\ pc' = "await" /\ TypeOK /\ DOMAIN events = Ids
      /\ UNCHANGED <<last_id, event, until_us, exit_flag>>
      /\ \A f \in Ids : ~Underflows(uptime, f)
  BY Zenon DEF Work, TimerInvariant, NoEventLost
<1>3. t \in Nat
  BY DEF EventTimerAssumption
<1>4. uptime' \in Nat
  BY Zenon, <1>1, <1>2, <1>3, ClockType
<1>5. DOMAIN events' = Ids /\ \A f \in DOMAIN events' : events'[f] \in Int
  BY <1>1, <1>2, <1>3 DEF Elapse, TypeOK
<1>6. \A f \in Ids : ~Underflows(Smaller(uptime + t, SafeUptime), f)
  BY Zenon, <1>2, <1>3, ClockGrows
<1>7. (\A f \in Ids : ~Underflows(uptime, f))'
  BY Zenon, <1>1, <1>6 DEF Underflows
<1>8. TypeOK' /\ NoEventLost' /\ SchedulingSucceeds'
  BY Zenon, <1>2, <1>4, <1>5 DEF TypeOK, NoEventLost, SchedulingSucceeds
<1> QED BY Zenon, <1>2, <1>7, <1>8 DEF TimerInvariant

LEMMA TimerNext ==
  ASSUME EventTimerAssumption, TimerInvariant, [Next]_vars
  PROVE  TimerInvariant'
<1>1. CASE Step
  BY Zenon, <1>1, AddEventInv, AwaitInv, TrySleepInv, WorkInv DEF Step
<1>2. CASE Signal
  <2>1. /\ pc \in {"await", "sleep", "work"} /\ exit_flag' = TRUE
        /\ UNCHANGED <<uptime, last_id, events, event, until_us, pc>>
    BY Zenon, <1>2 DEF Signal
  <2>2. TypeOK' /\ NoEventLost' /\ SchedulingSucceeds'
    BY Zenon, <2>1 DEF TimerInvariant, TypeOK, NoEventLost, SchedulingSucceeds, Underflows
  <2>3. (\A f \in Ids : ~Underflows(uptime, f))'
    BY Zenon, <2>1 DEF TimerInvariant, Underflows
  <2> QED BY Zenon, <2>1, <2>2, <2>3 DEF TimerInvariant
<1>3. CASE UNCHANGED vars
  BY Zenon, <1>3 DEF vars, TimerInvariant, TypeOK, NoEventLost, SchedulingSucceeds, Underflows
<1> QED BY Zenon, <1>1, <1>2, <1>3 DEF Next

\* No event of the main loop is ever forgotten, also when it is late, and
\* scheduling one subtracts more than the clock shows only while the events
\* are added, on a host that has not been up for as long as the jitter exceeds
\* the period: for any events with any periods and jitters, any time since
\* boot, and any time that handlers and sleeps take.
THEOREM NoEventForgotten == Spec => [](NoEventLost /\ SchedulingSucceeds)
<1>1. Init => TimerInvariant
  BY Zenon, EventTimerAssumption, TimerInit
<1>2. TimerInvariant /\ [Next]_vars => TimerInvariant'
  BY Zenon, EventTimerAssumption, TimerNext
<1>3. TimerInvariant => NoEventLost /\ SchedulingSucceeds
  BY Zenon DEF TimerInvariant
<1> QED BY <1>1, <1>2, <1>3, PTL DEF Spec

-----------------------------------------------------------------------------
(* There is one metrics server at a time and it ends only when it is        *)
(* stopped, for any number of starts and clients.                           *)

\* A thread is numbered, and NoHandle is no number.
Numbered == MaxStarts \in Nat /\ NoHandle \notin Nat

LEMMA ServerInvInit ==
  ASSUME Numbered, ServerInit
  PROVE  ServerInvariant
BY DEF Numbered, ServerInit, ServerInvariant, Threads

\* A step of a thread or a client: the owner's variables stay, and a thread
\* ends only when its token is cancelled or it could not bind.
LEMMA ThreadStep ==
  ASSUME Numbered, ServerInvariant, UNCHANGED ownerVars,
         state' \in [Threads -> {"none", "spawned", "accepting", "serving", "exited"}],
         refused \subseteq refused',
         \A t \in Threads : state[t] = "exited" => state'[t] = "exited",
         \A t \in Threads : state'[t] = "exited" /\ state[t] # "exited" =>
                              t \in refused' \/ tokenOf[t] \in cancelled
  PROVE  ServerInvariant'
<1>1. /\ handle' = handle /\ owner' = owner /\ joining' = joining /\ threads' = threads
      /\ token' = token /\ tokenOf' = tokenOf /\ cancelled' = cancelled
  BY Zenon DEF ownerVars
<1>2. 1..threads \subseteq Threads
  BY DEF Numbered, ServerInvariant, Threads
<1>3. \A t \in 1..threads : t \notin {handle, joining} => state'[t] = "exited"
  BY Zenon, <1>2 DEF ServerInvariant
<1>4. handle # NoHandle =>
        tokenOf[handle] = token /\ (state'[handle] = "exited" => handle \in refused')
  <2> SUFFICES ASSUME handle # NoHandle
               PROVE  tokenOf[handle] = token /\ (state'[handle] = "exited" => handle \in refused')
    BY Zenon
  <2>1. /\ handle \in Threads /\ tokenOf[handle] = token /\ token \notin cancelled
        /\ state[handle] = "exited" => handle \in refused
    BY Zenon, <1>2 DEF ServerInvariant
  <2> QED BY Zenon, <2>1
<1> QED BY Zenon, <1>1, <1>3, <1>4 DEF ServerInvariant

LEMMA StartInv ==
  ASSUME Numbered, ServerInvariant, start
  PROVE  ServerInvariant'
<1>1. /\ owner = "idle" /\ handle = NoHandle /\ threads < MaxStarts
      /\ threads' = threads + 1 /\ handle' = threads + 1
      /\ state' = [state EXCEPT ![threads + 1] = "spawned"]
      /\ tokenOf' = [tokenOf EXCEPT ![threads + 1] = token]
      /\ UNCHANGED <<owner, joining, token, cancelled, refused>>
  BY Zenon DEF start
<1>2. threads \in Nat /\ threads + 1 \in Threads /\ 1..(threads + 1) \subseteq Threads
  BY <1>1 DEF Numbered, ServerInvariant, Threads
<1>3. /\ joining = NoHandle /\ token \notin cancelled
      /\ \A t \in 1..threads : state[t] = "exited"
  BY <1>1 DEF ServerInvariant, Numbered
<1>4. \A t \in 1..threads' : t \notin {handle', joining'} => state'[t] = "exited"
  <2> SUFFICES ASSUME NEW t \in 1..threads', t # handle' PROVE state'[t] = "exited"
    BY Zenon
  <2>1. t \in 1..threads /\ t # threads + 1 /\ t \in Threads
    BY <1>1, <1>2
  <2> QED BY Zenon, <2>1, <1>1, <1>3 DEF ServerInvariant
<1>5. tokenOf'[handle'] = token' /\ state'[handle'] = "spawned"
  BY Zenon, <1>1, <1>2 DEF ServerInvariant
<1>6. /\ state' \in [Threads -> {"none", "spawned", "accepting", "serving", "exited"}]
      /\ tokenOf' \in [Threads -> Nat]
  BY Zenon, <1>1, <1>2 DEF ServerInvariant
<1>7. /\ threads' \in 0..MaxStarts /\ handle' \in 1..threads' /\ joining' = NoHandle
  BY <1>1, <1>2, <1>3 DEF Threads, Numbered
<1> QED BY Zenon, <1>1, <1>3, <1>4, <1>5, <1>6, <1>7 DEF ServerInvariant

\* stop, and a Drop that finds the server running.
LEMMA StopInv ==
  ASSUME Numbered, ServerInvariant, owner = "idle", handle # NoHandle,
         joining' = handle, handle' = NoHandle, cancelled' = cancelled \cup {token},
         owner' \in {"joining", "dropping"},
         UNCHANGED <<threads, token, tokenOf, state, refused>>
  PROVE  ServerInvariant'
<1>1. cancelled' \subseteq 0..token
  BY DEF ServerInvariant
<1>2. joining = NoHandle /\ handle \in 1..threads
  BY Zenon DEF ServerInvariant
<1>3. \A t \in 1..threads : t \notin {handle', joining'} => state[t] = "exited"
  BY Zenon, <1>2 DEF ServerInvariant, Numbered
<1> QED BY Zenon, <1>1, <1>2, <1>3 DEF ServerInvariant

LEMMA StopReturnsInv ==
  ASSUME Numbered, ServerInvariant, StopReturns
  PROVE  ServerInvariant'
<1>1. /\ owner \in {"joining", "dropping"} /\ state[joining] = "exited"
      /\ owner' \in {"idle", "dropped"} /\ joining' = NoHandle /\ token' = token + 1
      /\ UNCHANGED <<handle, threads, tokenOf, cancelled, state, refused>>
  BY Zenon DEF StopReturns, joined, renewed, threadVars
<1>2. handle = NoHandle /\ joining \in 1..threads
  BY Zenon, <1>1 DEF ServerInvariant
<1>3. \A t \in 1..threads : state[t] = "exited"
  BY <1>1, <1>2 DEF ServerInvariant, Numbered
<1>4. token' \in Nat /\ cancelled \subseteq 0..token' /\ token' \notin cancelled
  BY <1>1 DEF ServerInvariant
<1> QED BY Zenon, <1>1, <1>2, <1>3, <1>4 DEF ServerInvariant

LEMMA DropInv ==
  ASSUME Numbered, ServerInvariant, Drop
  PROVE  ServerInvariant'
<1>1. CASE is_running
  <2>1. /\ owner = "idle" /\ owner' = "dropping" /\ handle # NoHandle
        /\ joining' = handle /\ handle' = NoHandle /\ cancelled' = cancelled \cup {token}
        /\ UNCHANGED <<threads, token, tokenOf, state, refused>>
    BY Zenon, <1>1 DEF Drop, is_running, threadVars
  <2> QED BY Zenon, <2>1, StopInv
<1>2. CASE ~is_running
  <2>1. /\ owner = "idle" /\ owner' = "dropped"
        /\ UNCHANGED <<handle, joining, cancelled, threads, token, tokenOf, state, refused>>
    BY Zenon, <1>2 DEF Drop, threadVars
  <2> QED BY Zenon, <2>1 DEF ServerInvariant
<1> QED BY Zenon, <1>1, <1>2

LEMMA ServerInvNext ==
  ASSUME Numbered, ServerInvariant, [ServerNext]_server_vars
  PROVE  ServerInvariant'
<1>1. CASE start
  BY Zenon, <1>1, StartInv
<1>2. CASE stop
  <2>1. /\ owner = "idle" /\ owner' = "joining" /\ handle # NoHandle
        /\ joining' = handle /\ handle' = NoHandle /\ cancelled' = cancelled \cup {token}
        /\ UNCHANGED <<threads, token, tokenOf, state, refused>>
    BY Zenon, <1>2 DEF stop, threadVars
  <2> QED BY Zenon, <2>1, StopInv
<1>3. CASE StopReturns
  BY Zenon, <1>3, StopReturnsInv
<1>4. CASE Drop
  BY Zenon, <1>4, DropInv
<1>5. ASSUME NEW t \in Threads, Thread(t) PROVE ServerInvariant'
  <2>0. state \in [Threads -> {"none", "spawned", "accepting", "serving", "exited"}]
    BY Zenon DEF ServerInvariant
  <2>1. CASE Bind(t)
    BY Zenon, <2>0, <2>1, ThreadStep DEF Bind
  <2>2. CASE Accept(t)
    BY Zenon, <2>0, <2>2, ThreadStep DEF Accept, after_accept_error
  <2>3. CASE HandleRequest(t)
    BY Zenon, <2>0, <2>3, ThreadStep DEF HandleRequest, threadVars
  <2>4. CASE Cancelled(t)
    BY Zenon, <2>0, <2>4, ThreadStep DEF Cancelled
  <2>5. CASE ConnectionCancelled(t)
    BY Zenon, <2>0, <2>5, ThreadStep DEF ConnectionCancelled
  <2> QED BY Zenon, <1>5, <2>1, <2>2, <2>3, <2>4, <2>5 DEF Thread
<1>6. ASSUME NEW c \in Clients, Connect(c) \/ Ask(c) \/ Close(c) PROVE ServerInvariant'
  <2>0. state \in [Threads -> {"none", "spawned", "accepting", "serving", "exited"}]
    BY Zenon DEF ServerInvariant
  <2>1. CASE Connect(c) \/ Ask(c)
    BY Zenon, <2>0, <2>1, ThreadStep DEF Connect, Ask, threadVars
  <2>2. CASE Close(c)
    BY Zenon, <2>0, <2>2, ThreadStep DEF Close
  <2> QED BY Zenon, <1>6, <2>1, <2>2
<1>7. CASE UNCHANGED server_vars
  <2>0. state \in [Threads -> {"none", "spawned", "accepting", "serving", "exited"}]
    BY Zenon DEF ServerInvariant
  <2>1. UNCHANGED ownerVars /\ state' = state /\ refused' = refused
    BY Zenon, <1>7 DEF server_vars, threadVars
  <2> QED BY Zenon, <2>0, <2>1, ThreadStep
<1> QED BY Zenon, <1>1, <1>2, <1>3, <1>4, <1>5, <1>6, <1>7 DEF ServerNext, Client

LEMMA OneServerFollows ==
  ASSUME Numbered, ServerInvariant
  PROVE  OneServer
BY DEF OneServer, Alive, ServerInvariant, Numbered

\* There is never more than one server thread, however the owner starts, stops
\* and drops it and whatever clients do; and the one the owner holds is gone
\* only if it could not bind: the token of an earlier run never ends a later
\* one, although each stop cancels the token that the next start would use.
THEOREM OneServerUntilStopped ==
  ASSUME Numbered
  PROVE  ServerSpec => [](OneServer /\ EndsWhenStopped)
<1>1. ServerInit => ServerInvariant
  BY Zenon, ServerInvInit
<1>2. ServerInvariant /\ [ServerNext]_server_vars => ServerInvariant'
  BY Zenon, ServerInvNext
<1>3. ServerInvariant => OneServer /\ EndsWhenStopped
  BY Zenon, OneServerFollows DEF ServerInvariant, EndsWhenStopped
<1> QED BY <1>1, <1>2, <1>3, PTL DEF ServerSpec

-----------------------------------------------------------------------------
(***************************************************************************)
(* The start of the agent.                                                 *)
(***************************************************************************)

\* The steps of on_load from a point on.
Running == {"server", "do_work_starts", "do_work"}
Unprivileged == {"NatResolver"} \cup Running
Provided == {"Effective", "Permitted"} \cup Unprivileged
Attached == {"provider"} \cup Provided

\* What each step of on_load finds done: the kernel is checked before anything
\* is loaded, the program goes through its states, the maps have the sizes for
\* the memory of the host, and the capability is dropped, or a warning given,
\* before the socket and the server are opened.
StartInvariant ==
  /\ opt.resolve_nat \in BOOLEAN /\ conntrack \in BOOLEAN
  /\ host.version \in Versions /\ host.mem_total \in Nat
  /\ step \in {"check_kernel_version", "File::open", "Meminfo", "load", "attach"} \cup Attached \cup Ended
  /\ step \notin Ended \cup {"check_kernel_version"} => AtLeast(host.version, <<5, 8>>)
  /\ program = IF step = "load" THEN "object" ELSE IF step = "attach" THEN "loaded"
               ELSE IF step \in Attached THEN "attached" ELSE "none"
  /\ program # "none" =>
       /\ max_entries.props = map_max_entries(host.mem_total).props
       /\ max_entries.stats = map_max_entries(host.mem_total).stats
       /\ max_entries \in [props : Nat, stats : Nat, cache : Nat]
  /\ step \in Provided => sampling = TRUE /\ max_entries.cache = max_entries.props
  /\ step = "Permitted" => effective = FALSE
  /\ step \in Unprivileged => warned = TRUE \/ (effective = FALSE /\ permitted = FALSE)
  /\ step \in Running => conntrack = opt.resolve_nat
  /\ step \notin Running => conntrack = FALSE /\ server = FALSE
  /\ step = "do_work" => (opt.resolve_nat = TRUE <=> "resolve_nat" \in scheduled)

LEMMA TimesMonotone ==
  ASSUME NEW m \in Nat, NEW n \in Nat, NEW k \in Nat, m <= n
  PROVE  m * k <= n * k
BY SMT

\* The sizes of the maps are within their limits and, above the lowest one,
\* within the share of the memory; the ratio of the two is kept.
LEMMA MapSizes ==
  ASSUME SizeAssumption, NEW mem \in Nat
  PROVE  LET sizes == map_max_entries(mem)
         IN  /\ sizes.props \in MAX_ENTRIES_SK_PROPS_LO..MAX_ENTRIES_SK_PROPS_HI
             /\ sizes.props = MAX_ENTRIES_SK_PROPS_LO
                  \/ sizes.props * divisor <= mem * MAX_ENTRIES_SK_PROPS_LO
             /\ sizes.stats = SK_STATS_TO_PROPS_RATIO * sizes.props
<1> DEFINE lo == MAX_ENTRIES_SK_PROPS_LO
           hi == MAX_ENTRIES_SK_PROPS_HI
           ratio == SK_STATS_TO_PROPS_RATIO
           units == mem \div divisor
           props == clamp(units * lo, lo, hi)
<1>1. lo \in Nat /\ hi \in Nat /\ lo <= hi /\ ratio \in Nat /\ divisor \in Nat /\ divisor > 0
  BY DEF SizeAssumption
<1>2. units \in Nat /\ units * divisor <= mem
  BY <1>1
<1>3. /\ map_max_entries(mem).props = props
      /\ map_max_entries(mem).stats = clamp(props * ratio, ratio * lo, ratio * hi)
  BY Zenon DEF map_max_entries
<1> HIDE DEF lo, hi, ratio, units
<1>4. units * lo \in Nat
  BY <1>1, <1>2
<1>5. /\ props \in Nat /\ lo <= props /\ props <= hi
      /\ props = lo \/ props <= units * lo
  BY <1>1, <1>4 DEF clamp
<1> HIDE DEF props
<1>6. ASSUME props <= units * lo
      PROVE  props * divisor <= mem * lo
  <2>1. props * divisor <= (units * lo) * divisor
    BY Zenon, <1>1, <1>4, <1>5, <1>6, TimesMonotone
  <2>2. (units * lo) * divisor = (units * divisor) * lo
    BY <1>1, <1>2
  <2>3. (units * divisor) * lo <= mem * lo
    BY <1>1, <1>2, TimesMonotone
  <2>4. props * divisor \in Nat /\ (units * divisor) * lo \in Nat /\ mem * lo \in Nat
    BY <1>1, <1>2, <1>5
  <2> QED BY <2>1, <2>2, <2>3, <2>4
<1>7. clamp(props * ratio, ratio * lo, ratio * hi) = ratio * props
  <2>1. lo * ratio <= props * ratio /\ props * ratio <= hi * ratio
    BY Zenon, <1>1, <1>5, TimesMonotone
  <2>2. /\ lo * ratio = ratio * lo /\ hi * ratio = ratio * hi /\ props * ratio = ratio * props
        /\ lo * ratio \in Nat /\ hi * ratio \in Nat /\ props * ratio \in Nat
    BY <1>1, <1>5
  <2> QED BY <2>1, <2>2 DEF clamp
<1> QED BY <1>1, <1>3, <1>5, <1>6, <1>7 DEF lo, hi, ratio

LEMMA StartInvInit == StartInit => StartInvariant
<1> SUFFICES ASSUME StartInit PROVE StartInvariant
  BY Zenon
<1>1. host.version \in Versions /\ host.mem_total \in Nat
  BY SizeAssumption DEF StartInit, SizeAssumption
<1> QED BY Zenon, <1>1 DEF StartInit, StartInvariant, Running, Unprivileged, Provided, Attached, Ended

\* However the agent ends, its program does not stay on the cgroup: no kernel
\* that keeps it there gets past check_kernel_version.
LEMMA EndInv ==
  ASSUME StartInvariant, NEW how \in Ended, NEW destructors \in BOOLEAN, End(how, destructors)
  PROVE  StartInvariant'
<1>1. program = "attached" => AtLeast(host.version, <<5, 7>>)
  <2>1. program = "attached" => step \in Attached
    BY Zenon DEF StartInvariant
  <2>2. program = "attached" => AtLeast(host.version, <<5, 8>>)
    BY Zenon, <2>1 DEF StartInvariant, Attached, Provided, Unprivileged, Running, Ended
  <2> QED BY <2>2 DEF AtLeast, StartInvariant, Versions
<1>2. program' = "none"
  BY Zenon, <1>1 DEF End, LeftAttached
<1> QED BY Zenon, <1>2 DEF End, StartInvariant, Attached, Provided, Unprivileged, Running, Ended

LEMMA StartInvNext == StartInvariant /\ [StartNext]_startVars => StartInvariant'
<1> SUFFICES ASSUME StartInvariant, [StartNext]_startVars PROVE StartInvariant'
  BY Zenon
<1> USE DEF Attached, Provided, Unprivileged, Running, Ended
<1>1. CASE Refuse
  BY Zenon, <1>1, EndInv DEF Refuse
<1>2. CASE Panic
  BY Zenon, <1>2, EndInv DEF Panic
<1>3. CASE \E destructors \in BOOLEAN, how \in {"stopped", "killed"} : End(how, destructors)
  BY Zenon, <1>3, EndInv
<1>4. CASE UNCHANGED startVars
  BY <1>4 DEF startVars, StartInvariant, AtLeast, map_max_entries
<1>5. CASE check_kernel_version /\ ~Refuse
  BY Zenon, <1>5 DEF check_kernel_version, StartInvariant
<1>6. CASE OpenCgroup /\ ~Refuse
  BY Zenon, <1>6 DEF OpenCgroup, StartInvariant
<1>7. CASE instantiate_ebpf_object /\ ~Refuse /\ ~Panic
  <2>1. /\ max_entries'.props = map_max_entries(host.mem_total).props
        /\ max_entries'.stats = map_max_entries(host.mem_total).stats
        /\ max_entries' \in [props : Nat, stats : Nat, cache : Nat]
        /\ step' = "load" /\ program' = "object"
        /\ UNCHANGED <<opt, host, effective, permitted, sampling, conntrack, server, scheduled, warned>>
    BY <1>7, MapSizes, SizeAssumption DEF instantiate_ebpf_object, SizeAssumption, StartInvariant
  <2> QED BY Zenon, <1>7, <2>1 DEF instantiate_ebpf_object, StartInvariant
<1>8. CASE LoadProgram /\ ~Refuse
  BY Zenon, <1>8 DEF LoadProgram, StartInvariant
<1>9. CASE AttachProgram /\ ~Refuse
  BY Zenon, <1>9 DEF AttachProgram, StartInvariant
<1>10. CASE MakeProvider /\ ~Refuse /\ ~Panic
  BY Zenon, <1>10 DEF MakeProvider, StartInvariant
<1>11. CASE DropEffective
  BY Zenon, <1>11 DEF DropEffective, DropFails, StartInvariant
<1>12. CASE DropPermitted
  BY Zenon, <1>12 DEF DropPermitted, DropFails, StartInvariant
<1>13. CASE MakeNatResolver /\ ~Panic
  BY Zenon, <1>13 DEF MakeNatResolver, StartInvariant
<1>14. CASE start_open_metrics_server /\ ~Panic
  BY Zenon, <1>14 DEF start_open_metrics_server, StartInvariant
<1>15. CASE EnterLoop /\ ~Panic
  BY Zenon, <1>15 DEF EnterLoop, StartInvariant
<1>16. CASE Leave \/ Kill
  BY Zenon, <1>2, <1>3, <1>16 DEF Leave, Kill
<1> QED BY Zenon, <1>1, <1>2, <1>4, <1>5, <1>6, <1>7, <1>8, <1>9, <1>10, <1>11, <1>12, <1>13, <1>14,
           <1>15, <1>16 DEF StartNext

\* For any memory, any limits of the maps and wherever the start fails or the
\* process is killed.
THEOREM AgentStartsWhole == StartSpec => []StartsWholeOrNot
<1>1. StartInvariant => StartsWholeOrNot
  <2> SUFFICES ASSUME StartInvariant PROVE StartsWholeOrNot
    BY Zenon
  <2>1. NothingOutlivesTheAgent
    BY Zenon DEF NothingOutlivesTheAgent, StartInvariant, Attached, Provided, Unprivileged, Running, Ended
  <2>2. RunsReady
    BY DEF RunsReady, StartInvariant, Attached, Provided, Unprivileged, Running
  <2>3. MapsWithinShare
    BY Zenon, MapSizes, SizeAssumption DEF MapsWithinShare, StartInvariant
  <2> QED BY Zenon, <2>1, <2>2, <2>3 DEF StartsWholeOrNot
<1> QED BY <1>1, StartInvInit, StartInvNext, PTL DEF StartSpec

-----------------------------------------------------------------------------
(***************************************************************************)
(* The CPU usage.                                                          *)
(***************************************************************************)

\* clock_delta borrows a second where the nanoseconds need one: the difference
\* of two times is exact, and never trips the assertion.
LEMMA DeltaIsExact ==
  ASSUME ClockAssumption, NEW past \in Nat, NEW now \in Nat, past <= now
  PROVE  LET delta == clock_delta(timespec(now), timespec(past))
         IN  Asserted(delta) /\ timespec_to_nsec(delta) = now - past
<1> DEFINE n == NSEC_PER_SEC
           q == past \div n
           r == past % n
           u == now \div n
           v == now % n
<1>1. n \in Nat /\ n > 0
  BY DEF ClockAssumption
<1>2. /\ q \in Nat /\ r \in 0..(n - 1) /\ past = n * q + r
      /\ u \in Nat /\ v \in 0..(n - 1) /\ now = n * u + v
  BY <1>1
<1>3. /\ clock_delta(timespec(now), timespec(past)).tv_sec = u - q + (IF v < r THEN -1 ELSE 0)
      /\ clock_delta(timespec(now), timespec(past)).tv_nsec = v - r + (IF v < r THEN n ELSE 0)
  BY Zenon DEF clock_delta, timespec, borrow
<1> HIDE DEF n, q, r, u, v
<1>4. q <= u
  <2> SUFFICES ASSUME u + 1 <= q PROVE FALSE
    BY <1>2
  <2>1. n * (u + 1) <= n * q
    BY <1>1, <1>2
  <2> QED BY <1>1, <1>2, <2>1
<1>5. v < r => q + 1 <= u
  <2> SUFFICES ASSUME v < r, u = q PROVE FALSE
    BY <1>2, <1>4
  <2> QED BY <1>1, <1>2
<1>6. Asserted(clock_delta(timespec(now), timespec(past)))
  BY <1>1, <1>2, <1>3, <1>4, <1>5 DEF Asserted
<1>7. CASE v < r
  <2>1. (u - q + -1) * n + (v - r + n) = now - past
    BY <1>1, <1>2
  <2> QED BY Zenon, <1>3, <1>6, <1>7, <2>1 DEF timespec_to_nsec, n
<1>8. CASE ~(v < r)
  <2>1. (u - q + 0) * n + (v - r + 0) = now - past
    BY <1>1, <1>2
  <2> QED BY Zenon, <1>3, <1>6, <1>8, <2>1 DEF timespec_to_nsec, n
<1> QED BY Zenon, <1>7, <1>8

LEMMA TimespecIsExact ==
  ASSUME ClockAssumption, NEW t \in Nat
  PROVE  timespec_to_nsec(timespec(t)) = t
BY DEF ClockAssumption, timespec, timespec_to_nsec

\* While the clocks can be read, the monitor has two times of the past.
UsageInvariant ==
  /\ process \in Nat /\ boot \in Nat /\ unread \in BOOLEAN
  /\ unread = FALSE =>
       /\ usage = truth
       /\ \E t \in 0..process : process_start = timespec(t)
       /\ \E t \in 0..boot : boot_start = timespec(t)

LEMMA UsageInvInit == UsageInit => UsageInvariant
<1> SUFFICES ASSUME UsageInit PROVE UsageInvariant
  BY Zenon
<1>1. process \in Nat /\ boot \in Nat
  BY ClockAssumption DEF UsageInit, ClockAssumption
<1>2. ASSUME unread = FALSE
      PROVE  process_start = timespec(process) /\ boot_start = timespec(boot) /\ usage = truth
  BY Zenon, <1>2 DEF UsageInit, clock_time
<1>3. process \in 0..process /\ boot \in 0..boot /\ unread \in BOOLEAN
  BY <1>1 DEF UsageInit
<1> QED BY Zenon, <1>1, <1>2, <1>3 DEF UsageInvariant

LEMMA RatioIsExact ==
  ASSUME UsageInvariant, usage_ratio, unread' = FALSE
  PROVE  usage' = truth' /\ unread = FALSE
<1>1. PICK readable \in BOOLEAN :
        LET consumed == clock_delta(clock_time(process, readable), process_start)
            elapsed == clock_delta(clock_time(boot, readable), boot_start)
        IN  /\ unread' = (unread \/ ~readable)
            /\ usage' = IF Asserted(consumed) /\ Asserted(elapsed)
                        THEN [consumed |-> timespec_to_nsec(consumed), elapsed |-> timespec_to_nsec(elapsed)]
                        ELSE Aborted
            /\ truth' = [consumed |-> process - timespec_to_nsec(process_start),
                         elapsed |-> boot - timespec_to_nsec(boot_start)]
  BY Zenon DEF usage_ratio
<1>2. unread = FALSE /\ readable = TRUE
  BY Zenon, <1>1 DEF UsageInvariant
<1>3. PICK p \in 0..process : process_start = timespec(p)
  BY Zenon, <1>2 DEF UsageInvariant
<1>4. PICK b \in 0..boot : boot_start = timespec(b)
  BY Zenon, <1>2 DEF UsageInvariant
<1>5. /\ p \in Nat /\ b \in Nat /\ process \in Nat /\ boot \in Nat /\ p <= process /\ b <= boot
  BY <1>3, <1>4 DEF UsageInvariant
<1>6. LET consumed == clock_delta(timespec(process), timespec(p))
      IN  Asserted(consumed) /\ timespec_to_nsec(consumed) = process - p
  BY Zenon, <1>5, DeltaIsExact, ClockAssumption
<1>7. LET elapsed == clock_delta(timespec(boot), timespec(b))
      IN  Asserted(elapsed) /\ timespec_to_nsec(elapsed) = boot - b
  BY Zenon, <1>5, DeltaIsExact, ClockAssumption
<1>8. timespec_to_nsec(timespec(p)) = p /\ timespec_to_nsec(timespec(b)) = b
  BY Zenon, <1>5, TimespecIsExact, ClockAssumption
<1>9. clock_time(process, readable) = timespec(process) /\ clock_time(boot, readable) = timespec(boot)
  BY Zenon, <1>2 DEF clock_time
<1> QED BY Zenon, <1>1, <1>2, <1>3, <1>4, <1>6, <1>7, <1>8, <1>9

LEMMA UsageInvNext == UsageInvariant /\ [UsageNext]_usageVars => UsageInvariant'
<1> SUFFICES ASSUME UsageInvariant, [UsageNext]_usageVars PROVE UsageInvariant'
  BY Zenon
<1>1. CASE Tick
  <2>1. process' \in Nat /\ boot' \in Nat /\ process <= process' /\ boot <= boot'
    BY <1>1, ClockAssumption DEF Tick, UsageInvariant, ClockAssumption
  <2> QED BY <1>1, <2>1 DEF Tick, UsageInvariant, timespec
<1>2. CASE usage_ratio
  <2>1. UNCHANGED <<process, boot, process_start, boot_start>>
    BY Zenon, <1>2 DEF usage_ratio
  <2>2. unread' \in BOOLEAN
    BY Zenon, <1>2 DEF usage_ratio
  <2> QED BY Zenon, <1>2, <2>1, <2>2, RatioIsExact DEF UsageInvariant, timespec
<1>3. CASE UNCHANGED usageVars
  BY Zenon, <1>3 DEF usageVars, UsageInvariant, timespec
<1> QED BY Zenon, <1>1, <1>2, <1>3 DEF UsageNext

\* For any resolution of the clocks, any number of cores and however often the
\* usage is asked for.
THEOREM UsageStaysExact == UsageSpec => []UsageIsExact
<1>1. UsageInvariant => UsageIsExact
  BY Zenon DEF UsageInvariant, UsageIsExact
<1> QED BY <1>1, UsageInvInit, UsageInvNext, PTL DEF UsageSpec

=============================================================================
