---------------------------- MODULE ReportProofs ----------------------------
(***************************************************************************)
(* Proofs about what a report says: the flows that it keeps                *)
(* (TopLossLists), the bytes and the failures in the reports that the      *)
(* endpoint gets (ReportCycle), and the insertion errors that the sampling *)
(* interval follows (SamplingControl).  They share no variable.            *)
(***************************************************************************)
EXTENDS TopLossLists, ReportCycle, SamplingControl, SumTheorems

-----------------------------------------------------------------------------
(***************************************************************************)
(* The filter of the flows with the most loss.                             *)
(***************************************************************************)
Counts(s) ==
  /\ {s.retrans_syn, s.retrans_est, s.retrans_close} \subseteq Nat
  /\ {s.rtos_syn, s.rtos_est, s.rtos_close} \subseteq Nat
  /\ {s.severed_connect, s.severed_establish} \subseteq Nat
  /\ {s.bytes_received, s.bytes_delivered} \subseteq Nat

\* Saturating at every step is saturating once.
LEMMA LossSaturates ==
  ASSUME NEW s, Counts(s)
  PROVE  /\ quantify_loss(s) = IF ExactLoss(s) > MaxU32 THEN MaxU32 ELSE ExactLoss(s)
         /\ total_bytes(s) = IF ExactBytes(s) > MaxU64 THEN MaxU64 ELSE ExactBytes(s)
         /\ quantify_loss(s) \in Nat /\ total_bytes(s) \in Nat
         /\ ExactLoss(s) \in Nat /\ ExactBytes(s) \in Nat
<1>1. /\ s.retrans_syn \in Nat /\ s.retrans_est \in Nat /\ s.retrans_close \in Nat
      /\ s.rtos_syn \in Nat /\ s.rtos_est \in Nat /\ s.rtos_close \in Nat
      /\ s.severed_connect \in Nat /\ s.severed_establish \in Nat
      /\ s.bytes_received \in Nat /\ s.bytes_delivered \in Nat
  BY Zenon DEF Counts
<1>2. MaxU32 \in Nat /\ MaxU64 \in Nat
  BY Zenon, WidthAssumption
<1> DEFINE Sat(x) == IF x > MaxU32 THEN MaxU32 ELSE x
<1>3. retrans_total(s) = Sat(s.retrans_syn + s.retrans_est + s.retrans_close)
  BY <1>1, <1>2 DEF retrans_total, saturating_add
<1>4. rtos_total(s) = Sat(s.rtos_syn + s.rtos_est + s.rtos_close)
  BY <1>1, <1>2 DEF rtos_total, saturating_add
<1>5. /\ quantify_loss(s) = Sat(ExactLoss(s)) /\ quantify_loss(s) \in Nat /\ ExactLoss(s) \in Nat
  <2> DEFINE a == s.retrans_syn + s.retrans_est + s.retrans_close
             b == s.rtos_syn + s.rtos_est + s.rtos_close
             c == s.severed_connect + s.severed_establish
  <2>1. a \in Nat /\ b \in Nat /\ c \in Nat /\ ExactLoss(s) = a + 2 * b + 4 * c
    BY <1>1 DEF ExactLoss
  <2> HIDE DEF b
  <2>2. saturating_mul(rtos_total(s), SCALE_FACTOR, MaxU32) = Sat(2 * b)
    BY <1>2, <1>4, <2>1 DEF saturating_mul, SCALE_FACTOR, b
  <2> HIDE DEF c
  <2>3. saturating_mul(saturating_add(s.severed_connect, s.severed_establish, MaxU32),
                       SCALE_FACTOR * SCALE_FACTOR, MaxU32) = Sat(4 * c)
    <3>1. saturating_add(s.severed_connect, s.severed_establish, MaxU32) = Sat(c)
      BY Zenon DEF saturating_add, c
    <3> QED BY <1>2, <2>1, <3>1 DEF saturating_mul, SCALE_FACTOR
  <2> HIDE DEF a
  <2>4. quantify_loss(s) = Sat(Sat(Sat(a) + Sat(2 * b)) + Sat(4 * c))
    BY Zenon, <1>3, <2>2, <2>3 DEF quantify_loss, saturating_add, a
  <2> QED BY <1>2, <2>1, <2>4
<1>6. /\ total_bytes(s) = IF ExactBytes(s) > MaxU64 THEN MaxU64 ELSE ExactBytes(s)
      /\ total_bytes(s) \in Nat /\ ExactBytes(s) \in Nat
  BY <1>1, <1>2 DEF total_bytes, saturating_add, ExactBytes
<1> QED BY Zenon, <1>5, <1>6

\* A list of events that can be sorted.
IsList(ev, n) ==
  /\ DOMAIN ev = 1..n /\ ev = [i \in 1..n |-> ev[i]]
  /\ \A i \in 1..n : Counts(ev[i].stats)

\* sort_by sorts by a total order.
LEMMA BeforeIsOrder ==
  ASSUME NEW n \in Nat, NEW ev, IsList(ev, n), NEW i \in 1..n, NEW j \in 1..n, NEW k \in 1..n
  PROVE  /\ ~GoesBefore(ev, i, i)
         /\ i # j => GoesBefore(ev, i, j) \/ GoesBefore(ev, j, i)
         /\ ~(GoesBefore(ev, i, j) /\ GoesBefore(ev, j, i))
         /\ GoesBefore(ev, i, j) /\ GoesBefore(ev, j, k) => GoesBefore(ev, i, k)
<1>1. \A x \in 1..n : quantify_loss(ev[x].stats) \in Nat /\ total_bytes(ev[x].stats) \in Nat
  BY Zenon, LossSaturates DEF IsList
<1>2. /\ quantify_loss(ev[i].stats) \in Nat /\ total_bytes(ev[i].stats) \in Nat
      /\ quantify_loss(ev[j].stats) \in Nat /\ total_bytes(ev[j].stats) \in Nat
      /\ quantify_loss(ev[k].stats) \in Nat /\ total_bytes(ev[k].stats) \in Nat
  BY Zenon, <1>1
<1> QED BY <1>2 DEF GoesBefore, Less

\* Every event has a place of its own, and every place an event.
LEMMA PlacesAreUnique ==
  ASSUME NEW n \in Nat, NEW ev, IsList(ev, n)
  PROVE  /\ \A i \in 1..n : Place(ev, i) \in 1..n
         /\ \A i, j \in 1..n : Place(ev, i) < Place(ev, j) <=> GoesBefore(ev, i, j)
         /\ \A i, j \in 1..n : Place(ev, i) = Place(ev, j) => i = j
         /\ \A k \in 1..n : \E i \in 1..n : Place(ev, i) = k
<1> DEFINE Pred(i) == {j \in 1..n : GoesBefore(ev, j, i)}
<1>1. IsFiniteSet(1..n) /\ Cardinality(1..n) = n
  BY FS_Interval
<1>2. \A i : Place(ev, i) = 1 + Cardinality(Pred(i))
  BY Zenon DEF Place, IsList
<1>3. ASSUME NEW i \in 1..n
      PROVE  IsFiniteSet(Pred(i)) /\ Cardinality(Pred(i)) \in Nat /\ Cardinality(Pred(i)) < n
  <2>1. Pred(i) \in SUBSET (1..n) /\ i \notin Pred(i)
    BY Zenon, BeforeIsOrder
  <2>2. IsFiniteSet(Pred(i)) /\ Cardinality(Pred(i)) <= n /\ Cardinality(Pred(i)) # n
    BY Zenon, <1>1, <2>1, FS_Subset
  <2>3. Cardinality(Pred(i)) \in Nat
    BY Zenon, <2>2, FS_CardinalityType
  <2> QED BY <2>2, <2>3
<1>4. ASSUME NEW i \in 1..n, NEW j \in 1..n, GoesBefore(ev, i, j)
      PROVE  Cardinality(Pred(i)) < Cardinality(Pred(j))
  <2>1. Pred(i) \subseteq Pred(j)
    BY Zenon, <1>4, BeforeIsOrder
  <2>2. i \in Pred(j) /\ i \notin Pred(i)
    BY Zenon, <1>4, BeforeIsOrder
  <2>3. IsFiniteSet(Pred(j)) /\ Cardinality(Pred(j)) \in Nat /\ Cardinality(Pred(i)) \in Nat
    BY Zenon, <1>3
  <2> HIDE DEF Pred
  <2>4. Cardinality(Pred(i)) <= Cardinality(Pred(j)) /\ Cardinality(Pred(i)) # Cardinality(Pred(j))
    BY Zenon, <2>1, <2>2, <2>3, FS_Subset
  <2> QED BY <2>3, <2>4
<1>5. \A i \in 1..n : Place(ev, i) \in 1..n
  <2> HIDE DEF Pred
  <2> QED BY <1>2, <1>3
<1>6. \A i, j \in 1..n : GoesBefore(ev, i, j) => Place(ev, i) < Place(ev, j)
  <2> HIDE DEF Pred
  <2> QED BY <1>2, <1>3, <1>4
<1>7. \A i, j \in 1..n : i # j => GoesBefore(ev, i, j) \/ GoesBefore(ev, j, i)
  BY Zenon, BeforeIsOrder
<1>8. /\ \A i, j \in 1..n : Place(ev, i) < Place(ev, j) <=> GoesBefore(ev, i, j)
      /\ \A i, j \in 1..n : Place(ev, i) = Place(ev, j) => i = j
  BY <1>5, <1>6, <1>7
<1> DEFINE f == [i \in 1..n |-> Place(ev, i)]
<1>9. f \in Injection(1..n, 1..n)
  BY Zenon, <1>5, <1>8 DEF Injection, IsInjective
<1>10. f \in Surjection(1..n, 1..n)
  <2> HIDE DEF f
  <2> QED BY Zenon, <1>1, <1>9, FS_Injection
<1>11. \A k \in 1..n : \E i \in 1..n : f[i] = k
  <2> HIDE DEF f
  <2> QED BY Zenon, <1>10 DEF Surjection
<1> QED BY Zenon, <1>5, <1>8, <1>11

\* A function on 1..n is a sequence of length n.
LEMMA LengthOfList ==
  ASSUME NEW n \in Nat, NEW f, DOMAIN f = 1..n, f = [i \in 1..n |-> f[i]]
  PROVE  Len(f) = n /\ f \in Seq({f[i] : i \in 1..n})
<1> DEFINE S == {f[i] : i \in 1..n}
<1>1. f \in [1..n -> S]
  BY Zenon
<1> HIDE DEF S
<1>2. f \in Seq(S)
  BY <1>1
<1>3. DOMAIN f = 1..Len(f) /\ Len(f) \in Nat
  BY <1>2
<1>4. Len(f) = n
  BY <1>3
<1> QED BY Zenon, <1>2, <1>4 DEF S

LEMMA PrefixOfList ==
  ASSUME NEW S, NEW f \in Seq(S), NEW n \in Nat, n <= Len(f)
  PROVE  /\ DOMAIN SubSeq(f, 1, n) = 1..n
         /\ \A i \in 1..n : SubSeq(f, 1, n)[i] = f[i]
OBVIOUS

\* What the filter returns: the events of the first places, at[k] having place k.
FirstOf(ev, n, max, result, at) ==
  /\ at \in [1..n -> 1..n]
  /\ \A k \in 1..n : Place(ev, at[k]) = k
  /\ \A i \in 1..n : at[Place(ev, i)] = i
  /\ DOMAIN result = {k \in 1..max : k <= n}
  /\ \A k \in DOMAIN result : result[k] = ev[at[k]]

LEMMA FilterReturns ==
  ASSUME NEW n \in Nat, NEW ev, IsList(ev, n), NEW max \in Nat
  PROVE  \E at : FirstOf(ev, n, max, filter_events(ev, max), at)
<1> DEFINE At(k) == CHOOSE i \in DOMAIN ev : Place(ev, i) = k
           at == [k \in 1..n |-> At(k)]
           srt == sorted(ev)
           top == IF n < max THEN n ELSE max
<1>1. ASSUME NEW k \in 1..n PROVE At(k) \in 1..n /\ Place(ev, At(k)) = k
  <2>1. \A m \in 1..n : \E i \in 1..n : Place(ev, i) = m
    BY Zenon, PlacesAreUnique
  <2> QED BY Zenon, <2>1 DEF IsList
<1>2. \A i \in 1..n : At(Place(ev, i)) = i /\ Place(ev, i) \in 1..n
  <2>1. /\ \A i \in 1..n : Place(ev, i) \in 1..n
        /\ \A i, j \in 1..n : Place(ev, i) = Place(ev, j) => i = j
    BY Zenon, PlacesAreUnique
  <2> HIDE DEF At
  <2> QED BY Zenon, <1>1, <2>1
<1> HIDE DEF At
<1>3. /\ at \in [1..n -> 1..n] /\ \A k \in 1..n : Place(ev, at[k]) = k
      /\ \A i \in 1..n : at[Place(ev, i)] = i
  BY Zenon, <1>1, <1>2
<1>4. Len(ev) = n
  BY Zenon, LengthOfList DEF IsList
<1>5. srt = [k \in 1..n |-> ev[At(k)]]
  BY Zenon, <1>4 DEF sorted, At
<1>6. /\ srt = [k \in 1..n |-> srt[k]] /\ DOMAIN srt = 1..n
      /\ \A k \in 1..n : srt[k] = ev[at[k]]
  BY Zenon, <1>5
<1> HIDE DEF srt, at
<1>7. Len(srt) = n /\ srt \in Seq({srt[i] : i \in 1..n})
  BY <1>6, LengthOfList
<1>8. top \in Nat /\ top <= Len(srt)
  BY <1>7
<1>9. filter_events(ev, max) = SubSeq(srt, 1, top)
  BY Zenon, <1>7 DEF filter_events, truncate, srt
<1> DEFINE res == SubSeq(srt, 1, top)
<1>10. DOMAIN res = 1..top /\ \A i \in 1..top : res[i] = srt[i]
  <2> HIDE DEF top
  <2> QED BY Zenon, <1>7, <1>8, PrefixOfList
<1> HIDE DEF res
<1>11. DOMAIN res = {k \in 1..max : k <= n} /\ \A k \in DOMAIN res : k \in 1..n
  BY <1>10
<1>12. \A k \in DOMAIN res : res[k] = ev[at[k]]
  BY Zenon, <1>6, <1>10, <1>11
<1>13. FirstOf(ev, n, max, filter_events(ev, max), at)
  BY Zenon, <1>3, <1>9, <1>11, <1>12 DEF res, FirstOf
<1> QED BY Zenon, <1>13

-----------------------------------------------------------------------------
ListsInvariant ==
  /\ list \in [1..Len(list) -> Stats] /\ Len(list) \in Nat
  /\ done \in BOOLEAN
  /\ done => kept = filter_events([i \in 1..Len(list) |-> Flow(i)], MaxItems)

LEMMA ListsInvariantHolds == ListsSpec => []ListsInvariant
<1>1. ListsInit => ListsInvariant
  <2> SUFFICES ASSUME ListsInit PROVE ListsInvariant
    BY Zenon
  <2>1. PICK n \in 0..MaxLen : list \in [1..n -> Stats]
    BY Zenon DEF ListsInit
  <2>2. n \in Nat
    BY ListsAssumption
  <2>3. Len(list) = n
    BY Zenon, <2>1, <2>2, LengthOfList
  <2> QED BY Zenon, <2>1, <2>2, <2>3 DEF ListsInit, ListsInvariant
<1>2. ListsInvariant /\ [Filter]_listsVars => ListsInvariant'
  <2> SUFFICES ASSUME ListsInvariant, [Filter]_listsVars PROVE ListsInvariant'
    BY Zenon
  <2>1. CASE Filter
    BY Zenon, <2>1 DEF ListsInvariant, Filter, Flow
  <2>2. CASE UNCHANGED listsVars
    BY Zenon, <2>2 DEF ListsInvariant, listsVars, Flow
  <2> QED BY Zenon, <2>1, <2>2
<1> QED BY <1>1, <1>2, PTL DEF ListsSpec

\* TopLoss: the filter keeps whole flows, each once, drops those with the least
\* loss, also at the limits of the counters, and keeps the order of equal ones.
THEOREM WorstFlowsAreKept == ListsSpec => []KeepsWorstFlows
<1> SUFFICES ASSUME ListsInvariant, done PROVE KeepsWorstFlows
  <2>1. ListsInvariant => KeepsWorstFlows
    BY Zenon DEF KeepsWorstFlows, KeepsFlows, DropsLeastLoss, StableAmongEquals
  <2> QED BY <2>1, ListsInvariantHolds, PTL
<1> DEFINE n == Len(list)
           ev == [i \in 1..n |-> Flow(i)]
<1>1. n \in Nat /\ DOMAIN list = 1..n /\ \A i \in 1..n : list[i] \in Stats
  BY Zenon DEF ListsInvariant
<1>2. kept = filter_events(ev, MaxItems)
  BY Zenon DEF ListsInvariant
<1> HIDE DEF n
<1>3. \A i \in 1..n : ev[i].id = i /\ ev[i].stats = list[i] /\ Counts(list[i])
  BY Zenon, <1>1, StatsAssumption DEF Flow, Counts
<1>4. IsList(ev, n)
  BY Zenon, <1>3 DEF IsList
<1> HIDE DEF ev
<1>5. PICK at : FirstOf(ev, n, MaxItems, kept, at)
  <2>1. n \in Nat /\ MaxItems \in Nat /\ IsList(ev, n)
    BY Zenon, <1>1, <1>4, ListsAssumption
  <2> QED BY Zenon, <1>2, <2>1, FilterReturns
<1>6. /\ \A i \in 1..n : Place(ev, i) \in 1..n
      /\ \A i, j \in 1..n : Place(ev, i) < Place(ev, j) <=> GoesBefore(ev, i, j)
  BY Zenon, <1>1, <1>4, PlacesAreUnique
<1>7. ASSUME NEW k \in DOMAIN kept
      PROVE  /\ k \in 1..n /\ at[k] \in 1..n /\ Place(ev, at[k]) = k
             /\ kept[k].id = at[k] /\ kept[k].stats = list[at[k]]
  <2>1. k \in 1..n /\ at[k] \in 1..n
    BY <1>5, <1>1, ListsAssumption DEF FirstOf
  <2> QED BY Zenon, <1>3, <1>5, <2>1 DEF FirstOf
<1>8. KeepsFlows
  <2>1. \A i, j \in DOMAIN kept : kept[i].id = kept[j].id => i = j
    BY Zenon, <1>7
  <2>2. \A i \in DOMAIN kept : kept[i].id \in DOMAIN list /\ kept[i].stats = list[kept[i].id]
    BY Zenon, <1>1, <1>7
  <2> QED BY Zenon, <1>5, <2>1, <2>2 DEF FirstOf, KeepsFlows, n
<1>9. DropsLeastLoss
  <2> SUFFICES ASSUME NEW i \in DOMAIN kept, NEW j \in DOMAIN list \ KeptIds
               PROVE  LET k == kept[i].stats
                          d == list[j]
                      IN  /\ ExactLoss(d) > ExactLoss(k) => ExactLoss(k) >= MaxU32
                          /\ ExactLoss(d) = ExactLoss(k) =>
                               (ExactBytes(d) <= ExactBytes(k) \/ ExactBytes(k) >= MaxU64)
    BY Zenon DEF DropsLeastLoss
  <2> DEFINE k == kept[i].stats
             d == list[j]
             p == Place(ev, j)
  <2>1. j \in 1..n /\ p \in 1..n /\ at[p] = j
    BY Zenon, <1>1, <1>5, <1>6 DEF FirstOf
  <2>2. p \notin DOMAIN kept
    BY <1>7, <2>1 DEF KeptIds
  <2>3. i < p
    BY <1>5, <1>7, <2>1, <2>2, ListsAssumption DEF FirstOf
  <2>4. ~GoesBefore(ev, j, at[i])
    <3>1. GoesBefore(ev, at[i], j)
      BY Zenon, <1>7, <1>6, <2>1, <2>3
    <3> QED BY Zenon, <1>1, <1>4, <1>7, <2>1, <3>1, BeforeIsOrder
  <2>5. ~Less(k, d)
    <3>1. ev[at[i]].stats = k /\ ev[j].stats = d
      BY Zenon, <1>3, <1>7, <2>1
    <3> QED BY Zenon, <2>4, <3>1 DEF GoesBefore
  <2>6. Counts(k) /\ Counts(d)
    BY Zenon, <1>3, <1>7, <2>1
  <2> HIDE DEF k, d
  <2>7. /\ ExactLoss(d) > ExactLoss(k) => ExactLoss(k) >= MaxU32
        /\ ExactLoss(d) = ExactLoss(k) => (ExactBytes(d) <= ExactBytes(k) \/ ExactBytes(k) >= MaxU64)
    BY <2>5, <2>6, LossSaturates, WidthAssumption DEF Less
  <2> QED BY Zenon, <2>7 DEF k, d
<1>10. StableAmongEquals
  <2> SUFFICES ASSUME NEW i \in DOMAIN kept, NEW j \in DOMAIN kept,
                      i < j, kept[i].stats = kept[j].stats
               PROVE  kept[i].id < kept[j].id
    BY Zenon DEF StableAmongEquals
  <2>1. GoesBefore(ev, at[i], at[j])
    BY Zenon, <1>7, <1>6
  <2>2. ev[at[i]].stats = ev[at[j]].stats /\ Counts(ev[at[i]].stats)
    BY Zenon, <1>3, <1>7
  <2>3. ~Less(ev[at[j]].stats, ev[at[i]].stats)
    BY <2>2, LossSaturates DEF Less
  <2>4. at[i] < at[j]
    BY Zenon, <2>1, <2>2, <2>3 DEF GoesBefore
  <2> QED BY Zenon, <1>7, <2>4
<1> QED BY Zenon, <1>8, <1>9, <1>10 DEF KeepsWorstFlows

-----------------------------------------------------------------------------
(* The count of failed reports is honest, for any number of reports and any *)
(* behaviour of the endpoint and the network.                               *)

\* What the endpoint can account for stays so as it receives more.
LEMMA AccountedGrows ==
  ASSUME NEW s, Accounted(s), received \subseteq received'
  PROVE  Accounted(s)'
BY Zenon DEF Accounted, Seqs

LEMMA HonestGrows ==
  ASSUME NEW n \in Int, NEW failed \in Nat, Honest(n, failed),
         received \subseteq received', \A s \in acked' \ acked : s > n
  PROVE  Honest(n, failed)'
<1>1. ASSUME NEW s \in 1..(n - failed) PROVE Accounted(s)'
  BY Zenon, AccountedGrows DEF Honest
<1>2. ASSUME NEW s \in (n - failed + 1)..n PROVE s \notin acked'
  BY DEF Honest
<1> QED BY Zenon, <1>1, <1>2 DEF Honest

LEMMA ReportInvInit == ReportInit => ReportInvariant
BY DEF ReportInit, ReportInvariant, NewReport, Honest, Accounted, Seqs

\* What does not touch reports, answers, counts or report_pc keeps the invariant.
LEMMA ReportUntouched ==
  ASSUME ReportInvariant,
         UNCHANGED <<failed_reports_count, report_pc, report, success, wire, answers, received, acked>>
  PROVE  ReportInvariant'
BY Zenon DEF ReportInvariant, Honest, Accounted, Seqs

LEMMA PublishEventInv ==
  ASSUME ReportInvariant, PublishEvent
  PROVE  ReportInvariant'
<1>1. /\ report'.seq = report.seq + 1 /\ report'.failed_reports = failed_reports_count
      /\ report_pc' = "request" /\ success' = TRUE /\ report_pc = "idle"
      /\ UNCHANGED <<failed_reports_count, wire, answers, received, acked>>
  BY DEF PublishEvent
<1>2. /\ report.seq \in Nat /\ failed_reports_count \in Nat
      /\ acked \subseteq Seqs(received) /\ acked \subseteq 1..report.seq
      /\ \A r \in wire \cup received :
           /\ r.seq \in Nat /\ r.failed_reports \in Nat /\ r.seq <= report.seq
           /\ Honest(r.seq - 1, r.failed_reports)
      /\ Honest(report.seq, failed_reports_count)
      /\ \A a \in answers : a[2] = 200 => a[1] \in Seqs(received)
  BY Zenon, <1>1 DEF ReportInvariant
<1>3. \A n, f : Honest(n, f) => Honest(n, f)'
  BY Zenon, <1>1 DEF Honest, Accounted, Seqs
<1>4. Seqs(received)' = Seqs(received)
  BY Zenon, <1>1 DEF Seqs
<1>5. ASSUME NEW r \in (wire \cup received \cup {report})'
      PROVE  /\ r.seq \in Nat /\ r.failed_reports \in Nat /\ r.seq <= report'.seq
             /\ r.seq = report'.seq => r = report'
             /\ Honest(r.seq - 1, r.failed_reports)'
  <2>1. CASE r = report'
    BY <2>1, <1>1, <1>2, <1>3
  <2>2. CASE r \in wire \cup received
    BY <2>2, <1>1, <1>2, <1>3
  <2> QED BY Zenon, <2>1, <2>2, <1>1
<1>6. acked' \subseteq Seqs(received)' /\ acked' \subseteq 1..report'.seq /\ report'.seq \notin acked'
  BY <1>1, <1>2, <1>4
<1> QED BY <1>1, <1>2, <1>4, <1>5, <1>6 DEF ReportInvariant

\* A step of the agent on the request in hand that builds no report and that
\* learns at most that this one was accepted.
LEMMA RequestStepInv ==
  ASSUME ReportInvariant, report_pc # "idle", report_pc' # "idle",
         UNCHANGED <<failed_reports_count, report, received>>,
         wire' \subseteq wire \cup {report}, answers' \subseteq answers,
         acked' \subseteq Seqs(received), acked \subseteq acked', acked' \subseteq acked \cup {report.seq},
         success' \in BOOLEAN, report_pc' \in {"wait", "publish_done"},
         report_pc' = "wait" => success' /\ report.seq \notin acked',
         report_pc' = "publish_done" => (success' <=> report.seq \in acked')
  PROVE  ReportInvariant'
<1>1. ASSUME NEW r \in (wire \cup received \cup {report})'
      PROVE  /\ r.seq \in Nat /\ r.failed_reports \in Nat /\ r.seq <= report'.seq
             /\ r.seq = report'.seq => r = report'
             /\ Honest(r.seq - 1, r.failed_reports)'
  <2>1. /\ r.seq \in Nat /\ r.failed_reports \in Nat /\ r.seq <= report.seq
        /\ r.seq = report.seq => r = report
        /\ Honest(r.seq - 1, r.failed_reports)
        /\ report.seq \in Nat
    <3>1. r \in wire \cup received \cup {report}
      BY Zenon
    <3> QED BY Zenon, <3>1 DEF ReportInvariant
  <2>2. \A s \in acked' \ acked : s > r.seq - 1
    BY <2>1
  <2>3. r.seq - 1 \in Int
    BY <2>1
  <2>4. Honest(r.seq - 1, r.failed_reports)'
    BY Zenon, <2>1, <2>2, <2>3, HonestGrows
  <2> QED BY Zenon, <2>1, <2>4
<1>2. Seqs(received)' = Seqs(received)
  BY Zenon DEF Seqs
<1>3. acked' \subseteq 1..report'.seq
  <2>1. acked \subseteq 1..report.seq /\ report.seq \in Nat /\ report.seq > 0
    BY Zenon DEF ReportInvariant
  <2> QED BY <2>1
<1>4. \A a \in answers' : a[2] = 200 => a[1] \in Seqs(received)
  BY Zenon DEF ReportInvariant
<1>5. failed_reports_count \in Nat /\ report.seq > 0 /\ report.failed_reports = failed_reports_count
  BY Zenon DEF ReportInvariant
<1> QED BY Zenon, <1>1, <1>2, <1>3, <1>4, <1>5 DEF ReportInvariant

LEMMA EndpointAnswersInv ==
  ASSUME ReportInvariant, EndpointAnswers
  PROVE  ReportInvariant'
<1>1. PICK q \in wire, status \in {200, 500} :
        /\ wire' = wire \ {q}
        /\ received' = IF status = 200 THEN received \cup {q} ELSE received
        /\ answers' = answers \cup {<<q.seq, status>>}
        /\ UNCHANGED <<failed_reports_count, report_pc, report, success, acked>>
  BY DEF EndpointAnswers
<1>2. received \subseteq received' /\ received' \subseteq received \cup wire
  BY Zenon, <1>1
<1>3. Seqs(received) \subseteq Seqs(received')
  BY <1>2 DEF Seqs
<1>4. \A n \in Int, f \in Nat : Honest(n, f) => Honest(n, f)'
  BY <1>1, <1>2, HonestGrows
<1>5. ASSUME NEW r \in (wire \cup received \cup {report})'
      PROVE  /\ r.seq \in Nat /\ r.failed_reports \in Nat /\ r.seq <= report'.seq
             /\ r.seq = report'.seq => r = report'
             /\ Honest(r.seq - 1, r.failed_reports)'
  <2>1. r \in wire \cup received \cup {report}
    BY Zenon, <1>1, <1>2
  <2>2. /\ r.seq \in Nat /\ r.failed_reports \in Nat /\ r.seq <= report.seq
        /\ r.seq = report.seq => r = report
        /\ Honest(r.seq - 1, r.failed_reports)
    BY Zenon, <2>1 DEF ReportInvariant
  <2> QED BY <2>2, <1>1, <1>4
<1>6. \A a \in answers' : a[2] = 200 => a[1] \in Seqs(received')
  <2> SUFFICES ASSUME NEW a \in answers', a[2] = 200 PROVE a[1] \in Seqs(received')
    BY Zenon
  <2>1. CASE a \in answers
    BY <2>1, <1>3 DEF ReportInvariant
  <2>2. CASE a = <<q.seq, status>>
    BY <2>2, <1>1 DEF Seqs
  <2> QED BY Zenon, <2>1, <2>2, <1>1
<1>7. report_pc' = "idle" => Honest(report.seq, failed_reports_count)'
  BY <1>1, <1>4 DEF ReportInvariant
<1>8. acked' \subseteq Seqs(received') /\ acked' \subseteq 1..report'.seq
  <2>1. acked \subseteq Seqs(received) /\ acked \subseteq 1..report.seq
    BY Zenon DEF ReportInvariant
  <2>2. acked' = acked /\ report' = report
    BY Zenon, <1>1
  <2> QED BY Zenon, <2>1, <2>2, <1>3
<1>9. /\ failed_reports_count \in Nat /\ success \in BOOLEAN
      /\ report_pc \in {"idle", "request", "wait", "publish_done"}
      /\ report_pc # "idle" => report.seq > 0 /\ report.failed_reports = failed_reports_count
      /\ report_pc \in {"request", "wait"} => success /\ report.seq \notin acked
      /\ report_pc = "publish_done" => (success <=> report.seq \in acked)
  BY Zenon DEF ReportInvariant
<1>10. Seqs(received)' = Seqs(received')
  BY Zenon DEF Seqs
<1>11. UNCHANGED <<failed_reports_count, report_pc, report, success, acked>>
  BY Zenon, <1>1
<1> QED BY <1>5, <1>6, <1>7, <1>8, <1>9, <1>10, <1>11 DEF ReportInvariant

LEMMA RequestLostInv ==
  ASSUME ReportInvariant, RequestLost
  PROVE  ReportInvariant'
<1>1. wire' \subseteq wire
      /\ UNCHANGED <<failed_reports_count, report_pc, report, success, answers, received, acked>>
  BY Zenon DEF RequestLost
<1>2. \A n, f : Honest(n, f) => Honest(n, f)'
  BY Zenon, <1>1 DEF Honest, Accounted, Seqs
<1>3. Seqs(received)' = Seqs(received)
  BY Zenon, <1>1 DEF Seqs
<1> QED BY Zenon, <1>1, <1>2, <1>3 DEF ReportInvariant

\* The count is set from the answer: after a success the reports counted so far
\* are admitted by the report in hand, which the endpoint has; after a failure
\* the report in hand joins them.
LEMMA PublishDoneInv ==
  ASSUME ReportInvariant, PublishDone
  PROVE  ReportInvariant'
<1>1. /\ report_pc = "publish_done" /\ report_pc' = "idle"
      /\ failed_reports_count' = IF success THEN 0 ELSE failed_reports_count + 1
      /\ UNCHANGED <<report, success, wire, answers, received, acked>>
  BY Zenon DEF PublishDone, count_failure
<1>2. /\ failed_reports_count \in Nat /\ success \in BOOLEAN /\ report.seq \in Nat
      /\ report.failed_reports = failed_reports_count
      /\ Honest(report.seq - 1, failed_reports_count)
      /\ success <=> report.seq \in acked
      /\ acked \subseteq Seqs(received) /\ acked \subseteq 1..report.seq
  BY Zenon, <1>1 DEF ReportInvariant
<1>3. ASSUME success PROVE Honest(report.seq, failed_reports_count')
  <2>1. PICK q \in received : q.seq = report.seq
    BY Zenon, <1>2, <1>3 DEF Seqs
  <2>2. q = report
    BY Zenon, <2>1 DEF ReportInvariant
  <2>3. ASSUME NEW s \in 1..report.seq PROVE Accounted(s)
    <3>1. CASE s \in 1..(report.seq - 1 - failed_reports_count)
      BY Zenon, <3>1, <1>2 DEF Honest
    <3>2. CASE s = report.seq
      BY Zenon, <3>2, <2>1 DEF Accounted, Seqs
    <3>3. CASE report.seq - failed_reports_count <= s /\ s < report.seq
      BY Zenon, <3>3, <2>1, <2>2, <1>2 DEF Accounted
    <3> QED BY <3>1, <3>2, <3>3, <1>2
  <2> QED BY <2>3, <1>1, <1>2, <1>3 DEF Honest
<1>4. ASSUME ~success PROVE Honest(report.seq, failed_reports_count')
  <2>1. \A s \in 1..(report.seq - (failed_reports_count + 1)) : Accounted(s)
    BY <1>2 DEF Honest
  <2>2. \A s \in (report.seq - (failed_reports_count + 1) + 1)..report.seq : s \notin acked
    BY <1>2, <1>4 DEF Honest
  <2> QED BY Zenon, <2>1, <2>2, <1>1, <1>4 DEF Honest
<1>5. Honest(report.seq, failed_reports_count')
  BY Zenon, <1>3, <1>4, <1>2
<1>6. \A n, f : Honest(n, f) => Honest(n, f)'
  BY Zenon, <1>1 DEF Honest, Accounted, Seqs
<1>7. Seqs(received)' = Seqs(received)
  BY Zenon, <1>1 DEF Seqs
<1>8. failed_reports_count' \in Nat
  BY <1>1, <1>2
<1> QED BY Zenon, <1>1, <1>5, <1>6, <1>7, <1>8 DEF ReportInvariant

LEMMA ReportInvNext == ReportInvariant /\ [ReportNext]_report_vars => ReportInvariant'
<1> SUFFICES ASSUME ReportInvariant, [ReportNext]_report_vars PROVE ReportInvariant'
  BY Zenon
<1>1. CASE AggregateEvent
  BY Zenon, <1>1, ReportUntouched DEF AggregateEvent
<1>2. CASE PublishEvent
  BY Zenon, <1>2, PublishEventInv
<1>3. CASE RequestFails
  <2>1. /\ report_pc = "request" /\ report_pc' = "publish_done" /\ success' = FALSE
        /\ UNCHANGED <<failed_reports_count, report, wire, answers, received, acked>>
    BY Zenon, <1>3 DEF RequestFails, Published, combined, ReportInvariant
  <2>2. report.seq \notin acked /\ acked \subseteq Seqs(received)
    BY Zenon, <2>1 DEF ReportInvariant
  <2> QED BY Zenon, <2>1, <2>2, RequestStepInv
<1>4. CASE SendRequest
  <2>1. /\ report_pc = "request" /\ report_pc' = "wait" /\ wire' = wire \cup {report}
        /\ UNCHANGED <<failed_reports_count, report, success, answers, received, acked>>
    BY Zenon, <1>4 DEF SendRequest
  <2>2. report.seq \notin acked /\ acked \subseteq Seqs(received) /\ success = TRUE
    BY Zenon, <2>1 DEF ReportInvariant
  <2> QED BY Zenon, <2>1, <2>2, RequestStepInv
<1>5. CASE AnswerArrives
  <2>1. PICK a \in answers :
          /\ report_pc = "wait" /\ a[1] = report.seq /\ report_pc' = "publish_done"
          /\ success' = combined(success, a[2] = 200)
          /\ answers' = answers \ {a}
          /\ acked' = IF a[2] = 200 THEN acked \cup {report.seq} ELSE acked
          /\ UNCHANGED <<failed_reports_count, report, wire, received>>
    BY Zenon, <1>5 DEF AnswerArrives, Published
  <2>2. /\ report.seq \notin acked /\ acked \subseteq Seqs(received) /\ success = TRUE
        /\ a[2] = 200 => report.seq \in Seqs(received)
    BY Zenon, <2>1 DEF ReportInvariant
  <2>3. success' \in BOOLEAN /\ (success' <=> a[2] = 200)
    BY Zenon, <2>1, <2>2 DEF combined
  <2>4. /\ acked' \subseteq Seqs(received) /\ acked \subseteq acked'
        /\ acked' \subseteq acked \cup {report.seq}
        /\ success' <=> report.seq \in acked'
    <3>1. CASE a[2] = 200
      <4>1. acked' = acked \cup {report.seq} /\ success'
        BY Zenon, <3>1, <2>1, <2>3
      <4> QED BY <4>1, <3>1, <2>2
    <3>2. CASE a[2] # 200
      <4>1. acked' = acked /\ ~success'
        BY Zenon, <3>2, <2>1, <2>3
      <4> QED BY Zenon, <4>1, <2>2
    <3> QED BY Zenon, <3>1, <3>2
  <2> QED BY Zenon, <2>1, <2>3, <2>4, RequestStepInv
<1>6. CASE RequestTimesOut
  <2>1. /\ report_pc = "wait" /\ report_pc' = "publish_done" /\ success' = FALSE /\ answers' \subseteq answers
        /\ UNCHANGED <<failed_reports_count, report, wire, received, acked>>
    BY Zenon, <1>6 DEF RequestTimesOut, Published, combined, ReportInvariant
  <2>2. report.seq \notin acked /\ acked \subseteq Seqs(received)
    BY Zenon, <2>1 DEF ReportInvariant
  <2> QED BY Zenon, <2>1, <2>2, RequestStepInv
<1>7. CASE PublishDone
  BY Zenon, <1>7, PublishDoneInv
<1>8. CASE EndpointAnswers
  BY Zenon, <1>8, EndpointAnswersInv
<1>9. CASE RequestLost
  BY Zenon, <1>9, RequestLostInv
<1>10. CASE UNCHANGED report_vars
  BY Zenon, <1>10, ReportUntouched DEF report_vars
<1> QED BY Zenon, <1>1, <1>2, <1>3, <1>4, <1>5, <1>6, <1>7, <1>8, <1>9, <1>10 DEF ReportNext, Agent

-----------------------------------------------------------------------------
(***************************************************************************)
(* The bytes in the reports.                                               *)
(***************************************************************************)

\* A sum of one term.
LEMMA SumOne ==
  ASSUME NEW x, NEW f, f[x] \in Int
  PROVE  SumFunctionOnSet(f, {x}) = f[x]
<1>1. IsFiniteSet({}) /\ x \notin {} /\ {} \cup {x} = {x}
  BY Zenon, FS_EmptySet
<1>2. \A y \in {} \cup {x} : f[y] \in Int
  BY Zenon
<1>3. SumFunctionOnSet(f, {} \cup {x}) = f[x] + SumFunctionOnSet(f, {})
  BY Zenon, <1>1, <1>2, SumAdd
<1> QED BY <1>1, <1>3, SumEmpty

\* There are no more bytes in fewer reports.
LEMMA BytesInFewer ==
  ASSUME NEW f, NEW S, IsFiniteSet(S), NEW T \in SUBSET S,
         \A r \in S : ReportedBytes(r, f) \in Nat
  PROVE  /\ IsFiniteSet(T) /\ BytesIn(T, f) \in Nat /\ BytesIn(S, f) \in Nat
         /\ BytesIn(T, f) <= BytesIn(S, f)
<1> DEFINE g == [r \in S |-> ReportedBytes(r, f)]
           h == [r \in T |-> ReportedBytes(r, f)]
<1>1. IsFiniteSet(T)
  BY Zenon, FS_Subset
<1>2. BytesIn(T, f) = SumFunctionOnSet(h, T) /\ BytesIn(S, f) = SumFunctionOnSet(g, S)
  BY Zenon DEF BytesIn
<1>3. /\ \A r \in S : g[r] \in Nat
      /\ \A r \in T : h[r] \in Int /\ h[r] = g[r] /\ h[r] \in Nat
  OBVIOUS
<1> HIDE DEF g, h
<1>4. SumFunctionOnSet(g, T) <= SumFunctionOnSet(g, S)
  BY Zenon, <1>3, SumSubset
<1>5. SumFunctionOnSet(h, T) = SumFunctionOnSet(g, T)
  BY Zenon, <1>1, <1>3, SumSame
<1>6. SumFunctionOnSet(h, T) \in Nat /\ SumFunctionOnSet(g, S) \in Nat
  BY Zenon, <1>1, <1>3, SumNat
<1> QED BY Zenon, <1>1, <1>2, <1>4, <1>5, <1>6

\* A report more has no more bytes than its own.
LEMMA BytesInOneMore ==
  ASSUME NEW f, NEW S, IsFiniteSet(S), NEW y,
         \A r \in S \cup {y} : ReportedBytes(r, f) \in Nat
  PROVE  /\ IsFiniteSet(S \cup {y}) /\ BytesIn(S, f) \in Nat /\ BytesIn(S \cup {y}, f) \in Nat
         /\ BytesIn(S \cup {y}, f) <= BytesIn(S, f) + ReportedBytes(y, f)
<1> DEFINE U == S \cup {y}
           g == [r \in U |-> ReportedBytes(r, f)]
           h == [r \in S |-> ReportedBytes(r, f)]
<1>1. IsFiniteSet(U)
  BY Zenon, FS_AddElement
<1>2. BytesIn(U, f) = SumFunctionOnSet(g, U) /\ BytesIn(S, f) = SumFunctionOnSet(h, S)
  BY Zenon DEF BytesIn
<1>3. /\ \A r \in U : g[r] \in Nat /\ g[r] \in Int
      /\ \A r \in S : h[r] \in Nat /\ h[r] \in Int /\ h[r] = g[r]
      /\ g[y] = ReportedBytes(y, f)
  OBVIOUS
<1> HIDE DEF g, h
<1>4. SumFunctionOnSet(g, U) \in Nat /\ SumFunctionOnSet(h, S) \in Nat
  BY Zenon, <1>1, <1>3, SumNat
<1>5. SumFunctionOnSet(h, S) = SumFunctionOnSet(g, S)
  BY Zenon, <1>3, SumSame
<1>6. g[y] \in Nat
  BY Zenon, <1>3
<1>7. SumFunctionOnSet(g, U) <= SumFunctionOnSet(g, S) + g[y]
  <2>1. CASE y \in S
    <3>1. U = S
      BY Zenon, <2>1
    <3> QED BY <1>4, <1>5, <1>6, <3>1
  <2>2. CASE y \notin S
    <3>1. SumFunctionOnSet(g, S \cup {y}) = g[y] + SumFunctionOnSet(g, S)
      BY Zenon, <1>3, <2>2, SumAdd
    <3> QED BY <1>4, <1>5, <1>6, <3>1
  <2> QED BY Zenon, <2>1, <2>2
<1> QED BY Zenon, <1>1, <1>2, <1>3, <1>4, <1>5, <1>7

\* The statistics of a flow in the window, and their bytes.
LEMMA StatsType ==
  ASSUME BytesInvariant, NEW f
  PROVE  StatsOf(f) \in LossStats
  BY Zenon DEF StatsOf, BytesInvariant, LossStats, NoLoss

\* A report has the bytes of a flow once, and not more than the cache had.
LEMMA ReportOfCache ==
  ASSUME BytesInvariant, NEW f \in Flows, NEW n, n = Cardinality(DOMAIN flow_cache),
         NEW order \in Bijection(1..n, DOMAIN flow_cache), NEW r,
         r.network_stats = filter_events([i \in DOMAIN order |->
                             [flow |-> order[i], stats |-> flow_cache[order[i]]]], top_k)
  PROVE  /\ ReportedBytes(r, f) \in Nat
         /\ ReportedBytes(r, f) <= StatsOf(f).bytes_received + StatsOf(f).bytes_delivered
<1> DEFINE ev == [i \in DOMAIN order |-> [flow |-> order[i], stats |-> flow_cache[order[i]]]]
           ns == r.network_stats
           P == {i \in DOMAIN ns : ns[i].flow = f}
           g == [i \in DOMAIN ns |-> total_bytes(ns[i].stats)]
<1>1. n \in Nat
  BY Zenon, FS_CardinalityType DEF BytesInvariant
<1>2. /\ DOMAIN order = 1..n
      /\ \A i \in 1..n : order[i] \in DOMAIN flow_cache
      /\ \A i, j \in 1..n : order[i] = order[j] => i = j
  BY Zenon DEF Bijection, Injection, IsInjective
<1>3. \A h \in DOMAIN flow_cache : flow_cache[h] \in LossStats /\ Counts(flow_cache[h])
  <2>1. \A h \in DOMAIN flow_cache : flow_cache[h] \in LossStats
    BY Zenon DEF BytesInvariant
  <2>2. \A s \in LossStats : Counts(s)
    BY Zenon DEF LossStats, Counts
  <2> QED BY Zenon, <2>1, <2>2
<1>4. \A i \in 1..n : ev[i].flow = order[i] /\ ev[i].stats = flow_cache[order[i]]
  BY Zenon, <1>2
<1>5. DOMAIN ev = 1..n /\ ev = [i \in 1..n |-> ev[i]]
  BY Zenon, <1>2
<1> HIDE DEF ev
<1>6. IsList(ev, n)
  BY Zenon, <1>2, <1>3, <1>4, <1>5 DEF IsList
<1>7. PICK at : FirstOf(ev, n, top_k, filter_events(ev, top_k), at)
  BY Zenon, <1>1, <1>6, FilterReturns, ReportAssumption
<1>8. FirstOf(ev, n, top_k, ns, at)
  BY Zenon, <1>7 DEF ev
<1>9. ASSUME NEW k \in DOMAIN ns
      PROVE  /\ k \in 1..n /\ at[k] \in 1..n
             /\ ns[k].flow = order[at[k]] /\ ns[k].stats = flow_cache[order[at[k]]]
  <2>1. k \in 1..n /\ at[k] \in 1..n
    BY <1>1, <1>8, ReportAssumption DEF FirstOf
  <2>2. ns[k] = ev[at[k]]
    BY Zenon, <1>8 DEF FirstOf
  <2> HIDE DEF ns
  <2> QED BY Zenon, <1>4, <2>1, <2>2
<1>10. \A i, j \in 1..n : at[i] = at[j] => i = j
  BY Zenon, <1>8 DEF FirstOf
<1>11. ReportedBytes(r, f) = SumFunctionOnSet(g, P)
  BY Zenon DEF ReportedBytes
<1>12. StatsOf(f).bytes_received \in Nat /\ StatsOf(f).bytes_delivered \in Nat
  BY Zenon, StatsType DEF LossStats
<1>13. CASE P = {}
  <2>1. SumFunctionOnSet(g, P) = 0
    BY Zenon, <1>13, SumEmpty
  <2> HIDE DEF g, P
  <2> QED BY <1>11, <1>12, <2>1
<1>14. CASE P # {}
  <2>1. PICK k : k \in P
    BY Zenon, <1>14
  <2>2. k \in DOMAIN ns /\ order[at[k]] = f
    BY Zenon, <1>9, <2>1
  <2>3. \A j \in P : j = k
    BY <1>2, <1>9, <1>10, <2>2
  <2>4. P = {k}
    BY Zenon, <2>1, <2>3
  <2>5. f \in DOMAIN flow_cache /\ ns[k].stats = flow_cache[f]
    BY Zenon, <1>2, <1>9, <2>2
  <2>6. g[k] = total_bytes(flow_cache[f])
    BY Zenon, <2>2, <2>5
  <2>7. /\ total_bytes(flow_cache[f]) \in Nat
        /\ total_bytes(flow_cache[f]) <= flow_cache[f].bytes_received + flow_cache[f].bytes_delivered
    <3>1. Counts(flow_cache[f]) /\ MaxU64 \in Nat
      BY Zenon, <1>3, <2>5, WidthAssumption
    <3> QED BY <3>1, LossSaturates DEF ExactBytes
  <2> HIDE DEF g, P
  <2>8. SumFunctionOnSet(g, P) = g[k]
    <3>1. g[k] \in Int
      BY <2>6, <2>7
    <3>2. SumFunctionOnSet(g, {k}) = g[k]
      BY Zenon, <3>1, SumOne
    <3> QED BY Zenon, <2>4, <3>2
  <2> QED BY Zenon, <1>11, <2>5, <2>6, <2>7, <2>8 DEF StatsOf
<1> QED BY Zenon, <1>13, <1>14

-----------------------------------------------------------------------------
LEMMA BytesInit == ReportInit => BytesInvariant
<1> SUFFICES ASSUME ReportInit PROVE BytesInvariant
  BY Zenon
<1>1. DOMAIN flow_cache = {} /\ flow_cache \in [DOMAIN flow_cache -> LossStats]
  BY Zenon DEF ReportInit, NoFlows
<1>2. transferred \in [Flows -> Nat] /\ \A f \in Flows : transferred[f] = 0
  BY Zenon DEF ReportInit
<1>3. Built = {NewReport} /\ IsFiniteSet(Built)
  BY FS_Singleton DEF ReportInit, Built
<1>4. ASSUME NEW f \in Flows
      PROVE  ReportedBytes(NewReport, f) = 0 /\ BytesIn(Built, f) = 0
  <2> DEFINE ns == NewReport.network_stats
             g == [i \in DOMAIN ns |-> total_bytes(ns[i].stats)]
             h == [r \in Built |-> ReportedBytes(r, f)]
  <2>1. {i \in DOMAIN ns : ns[i].flow = f} = {}
    BY DEF NewReport
  <2>2. ReportedBytes(NewReport, f) = SumFunctionOnSet(g, {})
    BY Zenon, <2>1 DEF ReportedBytes
  <2>3. ReportedBytes(NewReport, f) = 0
    BY Zenon, <2>2, SumEmpty
  <2>4. h[NewReport] = 0
    BY Zenon, <1>3, <2>3
  <2>5. BytesIn(Built, f) = SumFunctionOnSet(h, {NewReport})
    BY Zenon, <1>3 DEF BytesIn
  <2> HIDE DEF h
  <2>6. SumFunctionOnSet(h, {NewReport}) = h[NewReport]
    <3>1. h[NewReport] \in Int
      BY <2>4
    <3> QED BY Zenon, <3>1, SumOne
  <2> QED BY Zenon, <2>3, <2>4, <2>5, <2>6
<1>5. \A f \in Flows : StatsOf(f).bytes_received = 0 /\ StatsOf(f).bytes_delivered = 0
  BY Zenon, <1>1 DEF StatsOf, NoLoss
<1>6. IsFiniteSet(DOMAIN flow_cache)
  BY Zenon, <1>1, FS_EmptySet
<1>7. ASSUME NEW f \in Flows
      PROVE  /\ \A r \in Built : ReportedBytes(r, f) \in Nat
             /\ BytesIn(Built, f) + StatsOf(f).bytes_received + StatsOf(f).bytes_delivered <= transferred[f]
  <2>1. \A r \in Built : ReportedBytes(r, f) = 0
    BY Zenon, <1>3, <1>4
  <2> QED BY <1>2, <1>4, <1>5, <2>1
<1> QED BY Zenon, <1>1, <1>2, <1>3, <1>6, <1>7 DEF BytesInvariant

\* What the definitions say of the next state.
LEMMA BytesPrimed ==
  ASSUME NEW f
  PROVE  /\ BytesIn(Built, f)' = BytesIn(Built', f)
         /\ StatsOf(f)' = IF f \in DOMAIN flow_cache' THEN flow_cache'[f] ELSE NoLoss
<1>1. BytesIn(Built, f)' = BytesIn(Built', f)
  BY Zenon DEF BytesIn, ReportedBytes
<1> QED BY Zenon, <1>1 DEF StatsOf

\* A step that builds no report and counts no byte.
LEMMA BytesKept ==
  ASSUME BytesInvariant, Built' \subseteq Built, UNCHANGED <<flow_cache, transferred>>
  PROVE  BytesInvariant'
<1>1. /\ IsFiniteSet(Built) /\ transferred \in [Flows -> Nat]
      /\ \A f \in Flows : \A r \in Built : ReportedBytes(r, f) \in Nat
      /\ \A f \in Flows :
           BytesIn(Built, f) + StatsOf(f).bytes_received + StatsOf(f).bytes_delivered <= transferred[f]
  BY Zenon DEF BytesInvariant
<1>2. ASSUME NEW f \in Flows
      PROVE  (BytesIn(Built, f) + StatsOf(f).bytes_received + StatsOf(f).bytes_delivered <= transferred[f])'
  <2>1. /\ BytesIn(Built', f) \in Nat /\ BytesIn(Built, f) \in Nat
        /\ BytesIn(Built', f) <= BytesIn(Built, f)
    BY Zenon, <1>1, BytesInFewer
  <2>2. /\ StatsOf(f)' = StatsOf(f) /\ transferred[f] \in Nat
        /\ StatsOf(f).bytes_received \in Nat /\ StatsOf(f).bytes_delivered \in Nat
    BY Zenon, <1>1, StatsType DEF StatsOf, LossStats
  <2> QED BY <1>1, <2>1, <2>2, BytesPrimed
<1>3. IsFiniteSet(Built')
  BY Zenon, <1>1, FS_Subset
<1>4. \A f \in Flows : \A r \in Built' : ReportedBytes(r, f) \in Nat
  BY Zenon, <1>1
<1> QED BY Zenon, <1>2, <1>3, <1>4 DEF BytesInvariant

LEMMA AggregateBytes ==
  ASSUME BytesInvariant, AggregateEvent
  PROVE  BytesInvariant'
<1>1. PICK f \in Flows, lost \in 0..1 :
        /\ flow_cache' =
             [g \in DOMAIN flow_cache \cup {f} |->
                IF g = f THEN [StatsOf(g) EXCEPT !.bytes_delivered = @ + 1, !.retrans_est = @ + lost]
                ELSE flow_cache[g]]
        /\ transferred' = [transferred EXCEPT ![f] = @ + 1]
  BY Zenon DEF AggregateEvent
<1> DEFINE old == StatsOf(f)
           new == [old EXCEPT !.bytes_delivered = @ + 1, !.retrans_est = @ + lost]
<1>2. old \in LossStats
  BY Zenon, StatsType
<1> HIDE DEF old
<1>3. /\ new \in LossStats /\ new.bytes_received = old.bytes_received
      /\ new.bytes_delivered = old.bytes_delivered + 1
  <2> DEFINE mid == [old EXCEPT !.bytes_delivered = @ + 1]
  <2>1. /\ mid \in LossStats /\ mid.bytes_received = old.bytes_received
        /\ mid.bytes_delivered = old.bytes_delivered + 1
    BY <1>2 DEF LossStats
  <2>2. new = [mid EXCEPT !.retrans_est = @ + lost]
    BY Zenon
  <2> HIDE DEF mid, new
  <2> QED BY <2>1, <2>2 DEF LossStats
<1>4. /\ IsFiniteSet(DOMAIN flow_cache) /\ DOMAIN flow_cache \subseteq Flows
      /\ \A g \in DOMAIN flow_cache : flow_cache[g] \in LossStats
      /\ transferred \in [Flows -> Nat] /\ IsFiniteSet(Built)
      /\ \A g \in Flows : \A r \in Built : ReportedBytes(r, g) \in Nat
      /\ \A g \in Flows :
           BytesIn(Built, g) + StatsOf(g).bytes_received + StatsOf(g).bytes_delivered <= transferred[g]
  BY Zenon DEF BytesInvariant
<1>5. /\ DOMAIN flow_cache' = DOMAIN flow_cache \cup {f}
      /\ flow_cache' = [g \in DOMAIN flow_cache \cup {f} |-> IF g = f THEN new ELSE flow_cache[g]]
  BY Zenon, <1>1 DEF old
<1> HIDE DEF new
<1>6. /\ IsFiniteSet(DOMAIN flow_cache') /\ DOMAIN flow_cache' \subseteq Flows
      /\ flow_cache' \in [DOMAIN flow_cache' -> LossStats]
  <2>1. IsFiniteSet(DOMAIN flow_cache \cup {f})
    BY Zenon, <1>4, FS_AddElement
  <2> QED BY Zenon, <1>3, <1>4, <1>5, <2>1
<1>7. Built' = Built
  BY Zenon DEF AggregateEvent, Built
<1>8. /\ transferred' \in [Flows -> Nat] /\ transferred'[f] = transferred[f] + 1
      /\ \A g \in Flows \ {f} : transferred'[g] = transferred[g]
  <2>1. transferred \in [Flows -> Nat] /\ transferred' = [transferred EXCEPT ![f] = @ + 1]
    BY Zenon, <1>1, <1>4
  <2> QED BY <2>1
<1>9. ASSUME NEW g \in Flows
      PROVE  (BytesIn(Built, g) + StatsOf(g).bytes_received + StatsOf(g).bytes_delivered <= transferred[g])'
  <2>1. BytesIn(Built, g) \in Nat
    BY Zenon, <1>4, BytesInFewer
  <2>2. /\ StatsOf(g).bytes_received \in Nat /\ StatsOf(g).bytes_delivered \in Nat
        /\ transferred[g] \in Nat
    BY Zenon, <1>4, StatsType DEF LossStats
  <2>3. StatsOf(g)' = IF g = f THEN new ELSE StatsOf(g)
    BY Zenon, <1>5, BytesPrimed DEF StatsOf
  <2>4. BytesIn(Built, g)' = BytesIn(Built, g)
    BY Zenon, <1>7, BytesPrimed
  <2>5. CASE g = f
    BY <1>3, <1>4, <1>8, <2>1, <2>2, <2>3, <2>4, <2>5 DEF old
  <2>6. CASE g # f
    BY Zenon, <1>4, <1>8, <2>1, <2>2, <2>3, <2>4, <2>6
  <2> QED BY Zenon, <2>5, <2>6
<1>10. \A g \in Flows : \A r \in Built' : ReportedBytes(r, g) \in Nat
  BY Zenon, <1>4, <1>7
<1>11. IsFiniteSet(Built')
  BY Zenon, <1>4, <1>7
<1> QED BY Zenon, <1>6, <1>8, <1>9, <1>10, <1>11 DEF BytesInvariant

LEMMA PublishBytes ==
  ASSUME BytesInvariant, PublishEvent
  PROVE  BytesInvariant'
<1> DEFINE n == Cardinality(DOMAIN flow_cache)
           Reports(order) == filter_events([i \in DOMAIN order |->
                               [flow |-> order[i], stats |-> flow_cache[order[i]]]], top_k)
<1>1. PICK order \in Bijection(1..n, DOMAIN flow_cache) : report'.network_stats = Reports(order)
  <2>1. PICK order \in Bijection(1..n, DOMAIN flow_cache) :
          report' = [seq |-> report.seq + 1, failed_reports |-> failed_reports_count,
                     network_stats |-> Reports(order), usage |-> usage_stats]
    BY Zenon DEF PublishEvent
  <2> HIDE DEF Reports
  <2>2. report'.network_stats = Reports(order)
    BY Zenon, <2>1
  <2> QED BY Zenon, <2>2
<1>2. /\ flow_cache' = NoFlows /\ UNCHANGED <<wire, received, transferred>>
  BY Zenon DEF PublishEvent
<1>3. /\ DOMAIN flow_cache' = {} /\ flow_cache' \in [DOMAIN flow_cache' -> LossStats]
  BY Zenon, <1>2 DEF NoFlows
<1>4. Built' \subseteq Built \cup {report'}
  BY Zenon, <1>2 DEF Built
<1>5. /\ transferred \in [Flows -> Nat] /\ IsFiniteSet(Built)
      /\ \A f \in Flows : \A r \in Built : ReportedBytes(r, f) \in Nat
      /\ \A f \in Flows :
           BytesIn(Built, f) + StatsOf(f).bytes_received + StatsOf(f).bytes_delivered <= transferred[f]
  BY Zenon DEF BytesInvariant
<1>6. \A f \in Flows : /\ ReportedBytes(report', f) \in Nat
                       /\ ReportedBytes(report', f) <= StatsOf(f).bytes_received + StatsOf(f).bytes_delivered
  BY Zenon, <1>1, ReportOfCache
<1>7. \A f \in Flows : \A r \in Built \cup {report'} : ReportedBytes(r, f) \in Nat
  BY Zenon, <1>5, <1>6
<1>8. IsFiniteSet(Built \cup {report'}) /\ IsFiniteSet(Built')
  BY Zenon, <1>4, <1>5, FS_AddElement, FS_Subset
<1>9. ASSUME NEW f \in Flows
      PROVE  (BytesIn(Built, f) + StatsOf(f).bytes_received + StatsOf(f).bytes_delivered <= transferred[f])'
  <2>1. /\ BytesIn(Built, f) \in Nat /\ BytesIn(Built \cup {report'}, f) \in Nat
        /\ BytesIn(Built \cup {report'}, f) <= BytesIn(Built, f) + ReportedBytes(report', f)
    BY Zenon, <1>5, <1>7, BytesInOneMore
  <2>2. BytesIn(Built', f) \in Nat /\ BytesIn(Built', f) <= BytesIn(Built \cup {report'}, f)
    BY Zenon, <1>4, <1>7, <1>8, BytesInFewer
  <2>3. StatsOf(f)'.bytes_received = 0 /\ StatsOf(f)'.bytes_delivered = 0
    BY <1>3, BytesPrimed DEF NoLoss
  <2>4. /\ StatsOf(f).bytes_received \in Nat /\ StatsOf(f).bytes_delivered \in Nat
        /\ transferred[f] \in Nat /\ transferred'[f] = transferred[f]
    BY Zenon, <1>2, <1>5, StatsType DEF LossStats
  <2>5. BytesIn(Built, f)' = BytesIn(Built', f)
    BY Zenon, BytesPrimed
  <2> QED BY <1>5, <1>6, <2>1, <2>2, <2>3, <2>4, <2>5
<1>10. \A f \in Flows : \A r \in Built' : ReportedBytes(r, f) \in Nat
  BY Zenon, <1>4, <1>7
<1>11. IsFiniteSet(DOMAIN flow_cache')
  BY Zenon, <1>3, FS_EmptySet
<1> QED BY Zenon, <1>2, <1>3, <1>5, <1>8, <1>9, <1>10, <1>11 DEF BytesInvariant

LEMMA BytesNext == BytesInvariant /\ [ReportNext]_report_vars => BytesInvariant'
<1> SUFFICES ASSUME BytesInvariant, [ReportNext]_report_vars PROVE BytesInvariant'
  BY Zenon
<1>1. CASE AggregateEvent
  BY Zenon, <1>1, AggregateBytes
<1>2. CASE PublishEvent
  BY Zenon, <1>2, PublishBytes
<1>3. CASE SendRequest
  <2>1. Built' \subseteq Built /\ UNCHANGED <<flow_cache, transferred>>
    BY Zenon, <1>3 DEF SendRequest, Built
  <2> QED BY Zenon, <2>1, BytesKept
<1>4. CASE RequestFails \/ AnswerArrives \/ RequestTimesOut \/ PublishDone
  <2>1. Built' \subseteq Built /\ UNCHANGED <<flow_cache, transferred>>
    BY Zenon, <1>4 DEF RequestFails, AnswerArrives, RequestTimesOut, PublishDone, Built
  <2> QED BY Zenon, <2>1, BytesKept
<1>5. CASE EndpointAnswers \/ RequestLost
  <2>1. Built' \subseteq Built /\ UNCHANGED <<flow_cache, transferred>>
    BY <1>5 DEF EndpointAnswers, RequestLost, Built
  <2> QED BY Zenon, <2>1, BytesKept
<1>6. CASE UNCHANGED report_vars
  <2>1. Built' \subseteq Built /\ UNCHANGED <<flow_cache, transferred>>
    BY Zenon, <1>6 DEF report_vars, Built
  <2> QED BY Zenon, <2>1, BytesKept
<1> QED BY Zenon, <1>1, <1>2, <1>3, <1>4, <1>5, <1>6 DEF ReportNext, Agent

\* The bytes of the reports that the endpoint has are among them.
LEMMA BytesInReceived == BytesInvariant => NothingReportedTwice
<1> SUFFICES ASSUME BytesInvariant, NEW f \in Flows PROVE BytesIn(received, f) <= transferred[f]
  BY Zenon DEF NothingReportedTwice
<1>1. received \subseteq Built
  BY Zenon DEF Built
<1>2. /\ BytesIn(received, f) \in Nat /\ BytesIn(Built, f) \in Nat
      /\ BytesIn(received, f) <= BytesIn(Built, f)
  BY Zenon, <1>1, BytesInFewer DEF BytesInvariant
<1>3. /\ StatsOf(f).bytes_received \in Nat /\ StatsOf(f).bytes_delivered \in Nat
      /\ transferred[f] \in Nat
  BY Zenon, StatsType DEF LossStats, BytesInvariant
<1>4. BytesIn(Built, f) + StatsOf(f).bytes_received + StatsOf(f).bytes_delivered <= transferred[f]
  BY Zenon DEF BytesInvariant
<1> QED BY <1>2, <1>3, <1>4

-----------------------------------------------------------------------------
\* The peak of the memory usage.
PeakInvariant == samples \subseteq Usages /\ PeakOfThePeriod

LEMMA PeakNext == PeakInvariant /\ [ReportNext]_report_vars => PeakInvariant'
<1> SUFFICES ASSUME PeakInvariant, [ReportNext]_report_vars PROVE PeakInvariant'
  BY Zenon
<1>1. CASE SampleUsage(usage_stats)
  <2>1. PICK m \in Usages : /\ usage_stats' = IF m > usage_stats THEN m ELSE usage_stats
                            /\ samples' = samples \cup {m}
    BY Zenon, <1>1 DEF SampleUsage
  <2>2. m \in Nat /\ \A x \in samples : x \in Nat
    BY Zenon, ReportAssumption DEF PeakInvariant
  <2>3. usage_stats \in Nat
    <3>1. CASE samples = {}
      BY <3>1 DEF PeakInvariant, PeakOfThePeriod
    <3>2. CASE samples # {}
      <4>1. usage_stats \in samples
        BY Zenon, <3>2 DEF PeakInvariant, PeakOfThePeriod
      <4> QED BY Zenon, <2>2, <4>1
    <3> QED BY Zenon, <3>1, <3>2
  <2>4. /\ usage_stats' \in samples' /\ samples' # {}
        /\ \A x \in samples' : x <= usage_stats'
    BY <2>1, <2>2, <2>3 DEF PeakInvariant, PeakOfThePeriod
  <2> QED BY Zenon, <2>1, <2>4 DEF PeakInvariant, PeakOfThePeriod
<1>2. CASE PublishEvent
  BY Zenon, <1>2 DEF PublishEvent, usage_reset, PeakInvariant, PeakOfThePeriod
<1>3. CASE UNCHANGED <<usage_stats, samples>>
  BY Zenon, <1>3 DEF PeakInvariant, PeakOfThePeriod
<1> QED BY Zenon, <1>1, <1>2, <1>3
      DEF ReportNext, Agent, AggregateEvent, PublishDone, RequestFails, SendRequest, AnswerArrives,
          RequestTimesOut, EndpointAnswers, RequestLost, report_vars

-----------------------------------------------------------------------------
\* What the invariant says of the failures that the reports admit to.
LEMMA FailuresFollow == ReportInvariant => FailuresAreHonest
<1> SUFFICES ASSUME ReportInvariant, NEW r \in received
             PROVE  /\ \A s \in 1..(r.seq - 1) : Accounted(s)
                    /\ \A s \in (r.seq - r.failed_reports)..(r.seq - 1) : s \notin acked
  BY Zenon DEF FailuresAreHonest, LossIsReported, AckedNotFailed, Accounted
<1>1. /\ r.seq \in Nat /\ r.failed_reports \in Nat
      /\ Honest(r.seq - 1, r.failed_reports)
  BY Zenon DEF ReportInvariant
<1>2. ASSUME NEW s \in 1..(r.seq - 1) PROVE Accounted(s)
  <2>1. CASE s \in 1..(r.seq - 1 - r.failed_reports)
    BY Zenon, <1>1, <2>1 DEF Honest
  <2>2. CASE r.seq - r.failed_reports <= s
    BY <1>1, <2>2 DEF Accounted
  <2> QED BY <1>1, <2>1, <2>2
<1>3. ASSUME NEW s \in (r.seq - r.failed_reports)..(r.seq - 1) PROVE s \notin acked
  BY <1>1 DEF Honest
<1> QED BY Zenon, <1>2, <1>3

\* ReportCycle: of the reports before one that the endpoint has, each is there
\* too or is among the failures that a report of the endpoint admits to, and
\* none of those was known to be accepted; no byte of a flow is reported twice;
\* the usage is the peak since the last report.  For any number of reports and
\* flows, and whatever the endpoint and the network do with the requests.
THEOREM ReportsStayHonest == ReportSpec => []ReportsAreHonest
<1>1. ReportInit => PeakInvariant
  BY Zenon DEF ReportInit, PeakInvariant, PeakOfThePeriod
<1>2. ReportSpec => [](ReportInvariant /\ BytesInvariant /\ PeakInvariant)
  BY <1>1, ReportInvInit, ReportInvNext, BytesInit, BytesNext, PeakNext, PTL DEF ReportSpec
<1>3. ReportInvariant /\ BytesInvariant /\ PeakInvariant => ReportsAreHonest
  BY Zenon, FailuresFollow, BytesInReceived DEF ReportsAreHonest, PeakInvariant
<1> QED BY <1>2, <1>3, PTL

-----------------------------------------------------------------------------
(* The reports of insertion errors add up and no error goes unnoticed, for  *)
(* any CPUs, any width of the counters and any number of errors and of      *)
(* failed reads.                                                            *)

\* Larger quotients are a whole divisor apart.
LEMMA QuotientsApart ==
  ASSUME NEW m \in Nat, m > 0, NEW q \in Int, NEW p \in Int, q < p
  PROVE  m * q + m <= m * p
<1>1. PICK d \in Nat : p = q + 1 + d
  <2>1. p - q - 1 \in Nat
    OBVIOUS
  <2> QED BY <2>1
<1>2. m * p = m * q + m + m * d
  BY <1>1
<1>3. m * d \in Nat /\ m * q \in Int
  OBVIOUS
<1> QED BY <1>2, <1>3

\* A remainder is in range, and differs from the number by a multiple.
LEMMA ModFacts ==
  ASSUME NEW m \in Nat, m > 0, NEW a \in Int
  PROVE  a % m \in 0..(m - 1) /\ a \div m \in Int /\ a = m * (a \div m) + (a % m)
OBVIOUS

\* There is only one such remainder.
LEMMA ModUnique ==
  ASSUME NEW m \in Nat, m > 0, NEW a \in Int, NEW q \in Int, NEW r \in 0..(m - 1),
         a = m * q + r
  PROVE  a % m = r
<1> DEFINE p == a \div m
           s == a % m
<1>1. m * q \in Int
  OBVIOUS
<1>2. s \in 0..(m - 1) /\ p \in Int /\ a = m * p + s
  BY Zenon, ModFacts
<1> HIDE DEF p, s
<1>4. m * p \in Int
  BY <1>2
<1>5. ~ (q < p)
  BY <1>1, <1>2, <1>4, QuotientsApart
<1>6. ~ (p < q)
  BY <1>1, <1>2, <1>4, QuotientsApart
<1>7. p = q
  BY <1>2, <1>5, <1>6
<1>8. s = r
  BY <1>1, <1>2, <1>4, <1>7
<1> QED BY Zenon, <1>8 DEF s

\* Remainders can be taken before an addition and a subtraction.
LEMMA ModAdd ==
  ASSUME NEW m \in Nat, m > 0, NEW a \in Int, NEW b \in Int
  PROVE  /\ ((a % m) + b) % m = (a + b) % m
         /\ (b + (a % m)) % m = (a + b) % m
<1> DEFINE r == a % m
           p == a \div m
           s == (r + b) % m
           q == (r + b) \div m
<1>1. r \in 0..(m - 1) /\ p \in Int /\ a = m * p + r
  BY Zenon, ModFacts
<1>2. r + b \in Int
  BY <1>1
<1>3. s \in 0..(m - 1) /\ q \in Int /\ r + b = m * q + s
  BY Zenon, <1>2, ModFacts
<1> HIDE DEF r, p, s, q
<1>4. a + b = m * (p + q) + s
  <2>1. m * (p + q) = m * p + m * q
    BY <1>1, <1>3
  <2>2. m * p \in Int /\ m * q \in Int
    BY <1>1, <1>3
  <2> QED BY <1>1, <1>3, <2>1, <2>2
<1>5. (a + b) % m = s
  <2>1. a + b \in Int /\ p + q \in Int
    BY <1>1, <1>3
  <2> QED BY Zenon, <1>3, <1>4, <2>1, ModUnique
<1>6. b + r = r + b
  BY <1>1
<1> QED BY Zenon, <1>5, <1>6 DEF s, r

LEMMA ModSub ==
  ASSUME NEW m \in Nat, m > 0, NEW a \in Int, NEW b \in Int
  PROVE  ((a % m) - (b % m)) % m = (a - b) % m
<1> DEFINE r == b % m
           p == b \div m
           s == (a - r) % m
           q == (a - r) \div m
<1>1. r \in 0..(m - 1) /\ p \in Int /\ b = m * p + r
  BY Zenon, ModFacts
<1>2. a - r \in Int
  BY <1>1
<1>3. s \in 0..(m - 1) /\ q \in Int /\ a - r = m * q + s
  BY Zenon, <1>2, ModFacts
<1>4. a % m \in Int
  BY ModFacts
<1> HIDE DEF r, p, s, q
<1>5. a - b = m * (q - p) + s
  <2>1. m * (q - p) = m * q - m * p
    BY <1>1, <1>3
  <2>2. m * p \in Int /\ m * q \in Int
    BY <1>1, <1>3
  <2> QED BY <1>1, <1>3, <2>1, <2>2
<1>6. (a - b) % m = s
  <2>1. a - b \in Int /\ q - p \in Int
    BY <1>1, <1>3
  <2> QED BY Zenon, <1>3, <1>5, <2>1, ModUnique
<1>7. -r \in Int /\ (a % m) + (-r) = (a % m) - r /\ a + (-r) = a - r
  BY <1>1, <1>4
<1>8. ((a % m) - r) % m = (a - r) % m
  BY Zenon, <1>7, ModAdd
<1> QED BY Zenon, <1>6, <1>8 DEF s, r

\* A number in range is its own remainder, and no remainder exceeds its number.
LEMMA ModSmall ==
  ASSUME NEW m \in Nat, m > 0, NEW a \in Nat
  PROVE  a % m <= a /\ (a < m => a % m = a)
<1> DEFINE q == a \div m
           r == a % m
<1>1. r \in 0..(m - 1) /\ q \in Int /\ a = m * q + r
  BY ModFacts
<1> HIDE DEF q, r
<1>2. q >= 0
  <2>1. SUFFICES ASSUME q < 0 PROVE FALSE
    BY <1>1
  <2>2. m * q + m <= m * 0 /\ m * q \in Int
    BY <1>1, <2>1, QuotientsApart
  <2> QED BY <1>1, <2>2
<1>3. m * q \in Nat
  BY <1>1, <1>2
<1>4. r <= a
  BY <1>1, <1>3
<1>5. ASSUME a < m PROVE r = a
  <2>1. ~ (0 < q)
    <3>1. SUFFICES ASSUME 0 < q PROVE FALSE
      BY Zenon
    <3>2. m * 0 + m <= m * q
      BY <1>1, <3>1, QuotientsApart
    <3> QED BY <1>1, <1>3, <1>5, <3>2
  <2>2. m * q = 0
    BY <1>1, <1>2, <2>1
  <2> QED BY <1>1, <2>2
<1> QED BY Zenon, <1>4, <1>5 DEF r

\* Adding up with wrapping_add gives the remainder of the sum.
LEMMA WrappedSum ==
  ASSUME NEW S, IsFiniteSet(S), NEW f \in [S -> Int]
  PROVE  FoldFunction(wrapping_add, 0, f) = SumFunctionOnSet(f, S) % CounterModulus
<1> DEFINE M == CounterModulus
           Body(k) == [s \in SUBSET S |-> IF s = {} THEN 0
                                          ELSE (f[Pick(s)] + k[s \ {Pick(s)}]) % M]
           iter == CHOOSE k : k = Body(k)
<1>1. M \in Nat /\ M > 0
  BY SamplingControlAssumption
<1>2. FoldFunction(wrapping_add, 0, f) = iter[S]
  <2>1. DOMAIN f = S
    BY Zenon
  <2> QED BY Zenon, <2>1 DEF FoldFunction, FoldFunctionOnSet, MapThenFoldSet, Pick, wrapping_add
<1>3. PICK g \in [SUBSET S -> Int] : Sums(g, S, f) /\ SumFunctionOnSet(f, S) = g[S]
  <2>1. \A x \in S : f[x] \in Int
    BY Zenon
  <2> QED BY Zenon, <2>1, SumIs
<1> DEFINE h == [s \in SUBSET S |-> g[s] % M]
<1> HIDE DEF M
<1>4. g[{}] = 0 /\ 0 % M = 0
  <2>1. 0 % M = 0
    BY Zenon, <1>1, ModSmall
  <2> QED BY Zenon, <2>1, <1>3 DEF Sums
<1>5. ASSUME NEW s \in SUBSET S, s # {}
      PROVE  /\ Pick(s) \in s /\ f[Pick(s)] \in Int /\ g[s \ {Pick(s)}] \in Int
             /\ g[s] % M = (f[Pick(s)] + (g[s \ {Pick(s)}] % M)) % M
  <2>1. Pick(s) \in s
    BY Zenon, <1>5, PickIn
  <2>2. f[Pick(s)] \in Int /\ g[s \ {Pick(s)}] \in Int
    BY Zenon, <2>1
  <2>3. g[s] = f[Pick(s)] + g[s \ {Pick(s)}]
    BY Zenon, <1>3, <1>5 DEF Sums
  <2>4. f[Pick(s)] + g[s \ {Pick(s)}] = g[s \ {Pick(s)}] + f[Pick(s)]
    BY <2>2
  <2> QED BY Zenon, <1>1, <2>1, <2>2, <2>3, <2>4, ModAdd
<1>6. h = Body(h)
  <2>1. \A s \in SUBSET S : s # {} => h[s] = (f[Pick(s)] + h[s \ {Pick(s)}]) % M
    BY Zenon, <1>5
  <2>2. h[{}] = 0
    BY Zenon, <1>4
  <2>3. h = [s \in SUBSET S |-> h[s]]
    BY Zenon
  <2> HIDE DEF h
  <2> QED BY Zenon, <2>1, <2>2, <2>3
<1>7. iter = Body(iter)
  <2> HIDE DEF Body, h
  <2> QED BY Zenon, <1>6
<1> HIDE DEF iter
<1>8. iter[{}] = 0
  BY Zenon, <1>7
<1>9. ASSUME NEW s \in SUBSET S, s # {}
      PROVE  iter[s] = (f[Pick(s)] + iter[s \ {Pick(s)}]) % M
  BY Zenon, <1>7, <1>9
<1>10. \A s \in SUBSET S : iter[s] = g[s] % M
  <2> DEFINE Bad == {s \in SUBSET S : iter[s] # g[s] % M}
  <2> SUFFICES ASSUME Bad # {} PROVE FALSE
    BY Zenon
  <2>0. Bad \subseteq SUBSET S
    BY Zenon
  <2>1. PICK s \in Bad : \A u \in Bad : u \subseteq s => u = s
    <3> HIDE DEF Bad
    <3> QED BY <2>0, MinimalSet
  <2>2. s \in SUBSET S /\ iter[s] # g[s] % M
    BY Zenon
  <2>3. s # {}
    BY Zenon, <2>2, <1>4, <1>8
  <2>4. Pick(s) \in s /\ s \ {Pick(s)} # s /\ s \ {Pick(s)} \subseteq s
    BY Zenon, <2>3, PickIn
  <2>5. iter[s \ {Pick(s)}] = g[s \ {Pick(s)}] % M
    BY Zenon, <2>1, <2>2, <2>4
  <2> HIDE DEF Bad
  <2> QED BY Zenon, <2>2, <2>3, <2>5, <1>5, <1>9
<1> QED BY Zenon, <1>2, <1>3, <1>10 DEF M

LEMMA SumOfCounters ==
  ASSUME SamplingInvariant
  PROVE  /\ SumFunctionOnSet(NFM_COUNTERS, Cpus) \in Int
         /\ FoldFunction(wrapping_add, 0, NFM_COUNTERS) = errors % CounterModulus
<1>1. NFM_COUNTERS \in [Cpus -> Int] /\ IsFiniteSet(Cpus)
  BY SamplingControlAssumption DEF SamplingInvariant, SamplingTypeOK
<1>2. \A c \in Cpus : NFM_COUNTERS[c] \in Int
  BY Zenon, <1>1
<1>3. SumFunctionOnSet(NFM_COUNTERS, Cpus) \in Int
  BY Zenon, <1>1, <1>2, SumType
<1>4. SumFunctionOnSet(NFM_COUNTERS, Cpus) % CounterModulus = errors % CounterModulus
  BY Zenon DEF SamplingInvariant
<1> QED BY Zenon, <1>1, <1>3, <1>4, WrappedSum

\* The interval stays in range, and an increase is one unless it is at its limit.
LEMMA IntervalMoves ==
  ASSUME NEW x \in 1..MaxSamplingInterval
  PROVE  /\ increase_sampling_interval(x) \in 1..MaxSamplingInterval
         /\ decrease_sampling_interval(x) \in 1..MaxSamplingInterval
         /\ \/ increase_sampling_interval(x) > x
            \/ increase_sampling_interval(x) = MaxSamplingInterval
BY MaxSamplingAssumption DEF increase_sampling_interval, decrease_sampling_interval, div_ceil

LEMMA SamplingInvInit == SamplingInit => SamplingInvariant
<1> SUFFICES ASSUME SamplingInit PROVE SamplingInvariant
  BY Zenon
<1>1. /\ CounterModulus \in Nat /\ CounterModulus > 1 /\ IsFiniteSet(Cpus)
      /\ MaxErrors \in Nat /\ MaxFailures \in Nat
  BY Zenon, SamplingControlAssumption
<1>2. increase_sampling_interval(0) \in 1..MaxSamplingInterval
  BY MaxSamplingAssumption DEF increase_sampling_interval
<1>3. 0 % CounterModulus = 0
  BY <1>1, ModSmall
<1>4. SumFunctionOnSet(NFM_COUNTERS, Cpus) = 0
  <2>1. \A c \in Cpus : NFM_COUNTERS[c] \in Int /\ NFM_COUNTERS[c] = 0
    BY DEF SamplingInit
  <2>2. {} \in SUBSET Cpus
    BY Zenon
  <2>3. SumFunctionOnSet(NFM_COUNTERS, Cpus) = SumFunctionOnSet(NFM_COUNTERS, {})
    BY Zenon, <1>1, <2>1, <2>2, SumZeros
  <2> QED BY Zenon, <2>3, SumEmpty
<1>5. SamplingTypeOK
  BY <1>1, <1>2 DEF SamplingInit, SamplingTypeOK
<1> QED BY <1>1, <1>3, <1>4, <1>5 DEF SamplingInit, SamplingInvariant

LEMMA InsertionErrorInv ==
  ASSUME SamplingInvariant, NEW cpu \in Cpus, insertion_error(cpu)
  PROVE  SamplingInvariant'
<1> DEFINE M == CounterModulus
           sum == SumFunctionOnSet(NFM_COUNTERS, Cpus)
<1>0. SamplingTypeOK
  BY Zenon DEF SamplingInvariant
<1>1. M \in Nat /\ M > 0 /\ IsFiniteSet(Cpus) /\ MaxErrors \in Nat
  BY SamplingControlAssumption
<1>2. /\ NFM_COUNTERS \in [Cpus -> 0..(M - 1)] /\ errors \in 0..MaxErrors /\ seen \in 0..errors
      /\ sum % M = errors % M
  BY Zenon, <1>0 DEF SamplingInvariant, SamplingTypeOK
<1>3. /\ NFM_COUNTERS' = [NFM_COUNTERS EXCEPT ![cpu] = (NFM_COUNTERS[cpu] + 1) % M]
      /\ errors' = errors + 1 /\ errors < MaxErrors /\ errors - seen < M - 1
      /\ UNCHANGED <<NFM_CONTROL, sampling_interval, ebpf_counters_latest,
                     ebpf_counters_published, failures, seen, reported, reading>>
  BY Zenon DEF insertion_error, wrapping_add
<1>4. /\ NFM_COUNTERS[cpu] + 1 \in Int /\ sum \in Int
      /\ (NFM_COUNTERS[cpu] + 1) % M \in 0..(M - 1)
  BY <1>1, <1>2, SumOfCounters, ModFacts
<1>5. NFM_COUNTERS' \in [Cpus -> 0..(M - 1)]
  BY Zenon, <1>2, <1>3, <1>4
<1> DEFINE d == ((NFM_COUNTERS[cpu] + 1) % M) - NFM_COUNTERS[cpu]
<1>6. SumFunctionOnSet(NFM_COUNTERS', Cpus) = sum + d
  <2>1. \A c \in Cpus : NFM_COUNTERS[c] \in Int
    BY <1>2
  <2>2. /\ \A c \in Cpus \ {cpu} : NFM_COUNTERS'[c] = NFM_COUNTERS[c]
        /\ NFM_COUNTERS'[cpu] = NFM_COUNTERS[cpu] + d /\ d \in Int
    BY <1>2, <1>3, <1>4
  <2> HIDE DEF d
  <2> QED BY Zenon, <1>1, <2>1, <2>2, SumChange
<1>7. (sum + d) % M = (errors + 1) % M
  <2> DEFINE n == NFM_COUNTERS[cpu]
  <2>1. n \in Int /\ n + 1 \in Int /\ sum - n \in Int /\ errors \in Int
    BY <1>2, <1>4
  <2>2. sum + d = ((n + 1) % M) + (sum - n)
    BY <1>4, <2>1
  <2>3. (((n + 1) % M) + (sum - n)) % M = ((n + 1) + (sum - n)) % M
    <3> HIDE DEF n, sum, M
    <3> QED BY Zenon, <1>1, <2>1, ModAdd
  <2>4. (n + 1) + (sum - n) = sum + 1
    BY <2>1, <1>4
  <2>5. ((sum % M) + 1) % M = (sum + 1) % M /\ ((errors % M) + 1) % M = (errors + 1) % M
    <3>1. 1 \in Int
      OBVIOUS
    <3> HIDE DEF sum, M
    <3> QED BY <1>1, <1>4, <2>1, <3>1, ModAdd, Zenon
  <2> HIDE DEF n, d, sum, M
  <2> QED BY Zenon, <1>2, <2>2, <2>3, <2>4, <2>5
<1>8. SamplingTypeOK'
  BY <1>0, <1>1, <1>2, <1>3, <1>5 DEF SamplingTypeOK
<1>9. SumFunctionOnSet(NFM_COUNTERS', Cpus) % M = errors' % M
  BY Zenon, <1>3, <1>6, <1>7
<1>10. errors' - seen' < M
  BY <1>1, <1>2, <1>3
<1> HIDE DEF sum, d
<1> QED BY Zenon, <1>3, <1>8, <1>9, <1>10 DEF SamplingInvariant

\* What a cycle does to the sampling interval.
LEMMA CycleInterval ==
  ASSUME SamplingInvariant, NEW n \in 0..(CounterModulus - 1), ebpf_counters(n)
  PROVE  /\ ebpf_counters_latest' = n
         /\ NFM_CONTROL' = sampling_interval' /\ NFM_CONTROL' \in 1..MaxSamplingInterval
         /\ wrapping_sub(n, ebpf_counters_latest) > 0 =>
              NFM_CONTROL' > NFM_CONTROL \/ NFM_CONTROL' = MaxSamplingInterval
<1>1. sampling_interval \in 1..MaxSamplingInterval /\ NFM_CONTROL = sampling_interval
  BY Zenon DEF SamplingInvariant, SamplingTypeOK
<1> QED BY Zenon, <1>1, IntervalMoves DEF ebpf_counters

LEMMA ReadCountersInv ==
  ASSUME SamplingInvariant, ReadCounters
  PROVE  SamplingInvariant'
<1>0. SamplingTypeOK
  BY Zenon DEF SamplingInvariant
<1>1. CounterModulus \in Nat /\ CounterModulus > 1 /\ MaxErrors \in Nat
  BY Zenon, SamplingControlAssumption
<1>2. /\ ebpf_counters(errors % CounterModulus) /\ seen' = errors /\ reading' = "good"
      /\ UNCHANGED <<NFM_COUNTERS, ebpf_counters_published, errors, failures, reported>>
  BY Zenon, SumOfCounters DEF ReadCounters
<1>3. errors \in 0..MaxErrors /\ seen \in 0..errors
  BY Zenon, <1>0 DEF SamplingTypeOK
<1>4. errors % CounterModulus \in 0..(CounterModulus - 1)
  BY <1>1, <1>3, ModFacts
<1>5. /\ ebpf_counters_latest' = errors % CounterModulus
      /\ NFM_CONTROL' = sampling_interval' /\ NFM_CONTROL' \in 1..MaxSamplingInterval
  BY Zenon, <1>2, <1>4, CycleInterval
<1>6. SamplingTypeOK'
  BY <1>0, <1>1, <1>2, <1>3, <1>4, <1>5 DEF SamplingTypeOK
<1>7. errors' - seen' < CounterModulus
  BY <1>1, <1>2, <1>3
<1>8. failures = 0 => reported <= errors
  <2>1. failures = 0 => reported <= seen
    BY Zenon DEF SamplingInvariant
  <2> QED BY <1>0, <1>1, <1>3, <2>1 DEF SamplingTypeOK
<1> QED BY Zenon, <1>2, <1>5, <1>6, <1>7, <1>8 DEF SamplingInvariant

LEMMA ReadFailsInv ==
  ASSUME SamplingInvariant, ReadFails
  PROVE  SamplingInvariant'
<1>0. SamplingTypeOK
  BY Zenon DEF SamplingInvariant
<1>1. CounterModulus \in Nat /\ CounterModulus > 1 /\ MaxFailures \in Nat
  BY Zenon, SamplingControlAssumption
<1>2. /\ ebpf_counters(0) /\ failures' = failures + 1 /\ failures < MaxFailures
      /\ reading' = "failed"
      /\ UNCHANGED <<NFM_COUNTERS, ebpf_counters_published, errors, seen, reported>>
  BY Zenon DEF ReadFails
<1>3. /\ ebpf_counters_latest' = 0
      /\ NFM_CONTROL' = sampling_interval' /\ NFM_CONTROL' \in 1..MaxSamplingInterval
  BY <1>1, <1>2, CycleInterval
<1>4. SamplingTypeOK'
  BY <1>0, <1>1, <1>2, <1>3 DEF SamplingTypeOK
<1>5. failures' # 0
  BY <1>0, <1>2 DEF SamplingTypeOK
<1> QED BY Zenon, <1>2, <1>3, <1>4, <1>5 DEF SamplingInvariant

LEMMA CountersInv ==
  ASSUME SamplingInvariant, counters
  PROVE  SamplingInvariant'
<1> DEFINE M == CounterModulus
           latest == ebpf_counters_latest
           delta == wrapping_sub(latest, ebpf_counters_published)
<1>0. SamplingTypeOK
  BY Zenon DEF SamplingInvariant
<1>1. M \in Nat /\ M > 0
  BY SamplingControlAssumption
<1>2. /\ latest \in 0..(M - 1) /\ reported \in Nat /\ seen \in Nat
      /\ ebpf_counters_published = reported % M
  BY DEF SamplingInvariant, SamplingTypeOK
<1>3. /\ reported' = reported + delta /\ ebpf_counters_published' = latest
      /\ reading' = IF reading = "good" THEN "reported" ELSE reading
      /\ UNCHANGED <<NFM_COUNTERS, NFM_CONTROL, sampling_interval,
                     ebpf_counters_latest, errors, failures, seen>>
  BY Zenon DEF counters
<1>4. latest % M = latest
  BY <1>1, <1>2, ModSmall
<1>5. delta = (latest - reported) % M
  <2>1. delta = ((latest % M) - (reported % M)) % M
    BY Zenon, <1>2, <1>4 DEF wrapping_sub
  <2>2. latest \in Int /\ reported \in Int
    BY <1>2
  <2> HIDE DEF delta, M, latest
  <2> QED BY <1>1, <2>1, <2>2, ModSub, Zenon
<1>6. delta \in 0..(M - 1)
  BY <1>1, <1>2, <1>5, ModFacts
<1>7. (reported + delta) % M = latest
  <2>1. latest - reported \in Int /\ reported \in Int
    BY <1>2
  <2>2. (reported + ((latest - reported) % M)) % M = ((latest - reported) + reported) % M
    <3> HIDE DEF latest, M
    <3> QED BY <1>1, <2>1, ModAdd, Zenon
  <2>3. (latest - reported) + reported = latest
    BY <1>2
  <2> HIDE DEF delta, M, latest
  <2> QED BY Zenon, <1>4, <1>5, <2>2, <2>3
<1>8. ASSUME failures = 0 PROVE reported + delta <= seen
  <2>1. latest = seen % M /\ reported <= seen
    BY Zenon, <1>8 DEF SamplingInvariant
  <2>2. delta = ((seen % M) - (reported % M)) % M
    BY Zenon, <1>2, <2>1 DEF wrapping_sub
  <2>3. delta = (seen - reported) % M
    <3>1. seen \in Int /\ reported \in Int
      BY <1>2
    <3> HIDE DEF delta, M, latest
    <3> QED BY <1>1, <2>2, <3>1, ModSub, Zenon
  <2>4. seen - reported \in Nat
    BY <1>2, <2>1
  <2>5. delta <= seen - reported
    <3> HIDE DEF delta, M, latest
    <3> QED BY Zenon, <1>1, <2>3, <2>4, ModSmall
  <2> HIDE DEF delta, M, latest
  <2> QED BY <1>2, <1>6, <2>5
<1>9. SamplingTypeOK'
  <2> HIDE DEF delta
  <2> QED BY <1>0, <1>1, <1>2, <1>3, <1>6 DEF SamplingTypeOK
<1>10. reading' = "failed" <=> reading = "failed"
  BY Zenon, <1>0, <1>3 DEF SamplingTypeOK
<1> HIDE DEF delta
<1> QED BY Zenon, <1>3, <1>7, <1>8, <1>9, <1>10 DEF SamplingInvariant

LEMMA SamplingInvNext == SamplingInvariant /\ [SamplingNext]_sampling_vars => SamplingInvariant'
<1> SUFFICES ASSUME SamplingInvariant, [SamplingNext]_sampling_vars PROVE SamplingInvariant'
  BY Zenon
<1>1. CASE \E cpu \in Cpus : insertion_error(cpu)
  BY Zenon, <1>1, InsertionErrorInv
<1>2. CASE ReadCounters
  BY Zenon, <1>2, ReadCountersInv
<1>3. CASE ReadFails
  BY Zenon, <1>3, ReadFailsInv
<1>4. CASE counters
  BY Zenon, <1>4, CountersInv
<1>5. CASE UNCHANGED sampling_vars
  BY Zenon, <1>5 DEF sampling_vars, SamplingInvariant, SamplingTypeOK
<1> QED BY Zenon, <1>1, <1>2, <1>3, <1>4, <1>5 DEF SamplingNext, perform_aggregation_cycle

\* The reports add up (counters): without failed reads they never hold more
\* errors than the cycles read, and a reported good read settles the sum.
THEOREM ReportsSettle == SamplingSpec => []ReportsAddUp
<1>1. SamplingInvariant => ReportsAddUp
  <2> SUFFICES ASSUME SamplingInvariant PROVE ReportsAddUp
    BY Zenon
  <2> QED BY Zenon DEF SamplingInvariant, ReportsAddUp
<1> QED BY <1>1, SamplingInvInit, SamplingInvNext, PTL DEF SamplingSpec

\* A cycle that reads errors no cycle has read before raises the interval.
LEMMA ReadNotices ==
  ASSUME SamplingInvariant, ReadCounters, errors # seen,
         failures = 0 \/ errors < CounterModulus
  PROVE  NFM_CONTROL' > NFM_CONTROL \/ NFM_CONTROL' = MaxSamplingInterval
<1> DEFINE M == CounterModulus
           latest == ebpf_counters_latest
           delta == wrapping_sub(errors % M, latest)
<1>1. M \in Nat /\ M > 0
  BY SamplingControlAssumption
<1>2. /\ errors \in Nat /\ seen \in Nat /\ seen < errors /\ errors - seen < M
      /\ latest \in {0, seen % M}
      /\ failures = 0 => latest = seen % M
  BY DEF SamplingInvariant, SamplingTypeOK
<1>3. ebpf_counters(errors % M) /\ errors % M \in 0..(M - 1)
  BY <1>1, <1>2, SumOfCounters, ModFacts DEF ReadCounters
<1>4. ASSUME NEW n \in Nat, latest = n % M, n < errors, errors - n < M
      PROVE  delta > 0
  <2>1. delta = ((errors % M) - (n % M)) % M
    BY Zenon, <1>4 DEF wrapping_sub
  <2>2. delta = (errors - n) % M
    <3>1. errors \in Int /\ n \in Int
      BY <1>2
    <3> HIDE DEF delta, M, latest
    <3> QED BY <1>1, <2>1, <3>1, ModSub, Zenon
  <2>3. errors - n \in Nat /\ errors - n > 0
    BY <1>2, <1>4
  <2>4. (errors - n) % M = errors - n
    <3> HIDE DEF M
    <3> QED BY Zenon, <1>1, <1>4, <2>3, ModSmall
  <2> HIDE DEF delta, M, latest
  <2> QED BY Zenon, <2>2, <2>3, <2>4
<1>5. delta > 0
  <2>1. CASE latest = seen % M
    <3> HIDE DEF delta, M, latest
    <3> QED BY Zenon, <1>2, <1>4, <2>1
  <2>2. CASE latest = 0 /\ errors < M
    <3>1. 0 % M = 0
      BY Zenon, <1>1, ModSmall
    <3> HIDE DEF delta, M, latest
    <3> QED BY <1>2, <1>4, <2>2, <3>1
  <2> HIDE DEF delta, latest
  <2> QED BY <1>2, <2>1, <2>2, Zenon
<1> QED BY Zenon, <1>3, <1>5, CycleInterval

\* Insertion errors that a cycle reads are noticed (ebpf_counters): the interval
\* goes up or is at its limit, also when a counter or their sum wrapped.
THEOREM ErrorsAreNoticed == SamplingSpec => ErrorsNoticed
<1> DEFINE Noticed ==
      seen' # seen /\ (failures = 0 \/ errors < CounterModulus) =>
        \/ NFM_CONTROL' > NFM_CONTROL
        \/ NFM_CONTROL' = MaxSamplingInterval
<1>1. SamplingInvariant /\ [SamplingNext]_sampling_vars => [Noticed]_sampling_vars
  <2> SUFFICES ASSUME SamplingInvariant, SamplingNext,
                      seen' # seen, failures = 0 \/ errors < CounterModulus
               PROVE  NFM_CONTROL' > NFM_CONTROL \/ NFM_CONTROL' = MaxSamplingInterval
    BY Zenon
  <2>1. ReadCounters
    BY Zenon DEF SamplingNext, perform_aggregation_cycle, insertion_error, ReadFails, counters
  <2>2. errors # seen
    BY Zenon, <2>1 DEF ReadCounters
  <2> QED BY Zenon, <2>1, <2>2, ReadNotices
<1>2. SamplingSpec => [][Noticed]_sampling_vars
  <2> HIDE DEF Noticed
  <2> QED BY <1>1, SamplingInvInit, SamplingInvNext, PTL DEF SamplingSpec
<1> QED BY Zenon, <1>2 DEF ErrorsNoticed
=============================================================================
