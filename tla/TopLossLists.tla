----------------------------- MODULE TopLossLists ---------------------------
(***************************************************************************)
(* The filter on all lists of flows up to a length: one list per initial   *)
(* state, one step.                                                        *)
(***************************************************************************)
EXTENDS TopLoss

CONSTANTS Stats,              \* statistics that a flow may have
          MaxItems, MaxLen    \* the filter's limit; bound: length of a list

ASSUME StatsAssumption ==
  \A s \in Stats :
    /\ {s.retrans_syn, s.retrans_est, s.retrans_close} \subseteq Nat
    /\ {s.rtos_syn, s.rtos_est, s.rtos_close} \subseteq Nat
    /\ {s.severed_connect, s.severed_establish} \subseteq Nat
    /\ {s.bytes_received, s.bytes_delivered} \subseteq Nat

ASSUME ListsAssumption == MaxItems \in Nat /\ MaxLen \in Nat

VARIABLES list, kept, done

listsVars == <<list, kept, done>>

ListsInit ==
  /\ list \in UNION {[1..n -> Stats] : n \in 0..MaxLen}
  /\ kept = <<>>
  /\ done = FALSE

\* The flows are told apart by their place in the list.
Flow(i) == [id |-> i, stats |-> list[i]]

Filter ==
  /\ ~done /\ done' = TRUE
  /\ kept' = filter_events([i \in 1..Len(list) |-> Flow(i)], MaxItems)
  /\ UNCHANGED list

ListsSpec == ListsInit /\ [][Filter]_listsVars

-----------------------------------------------------------------------------
\* The loss of a flow in unbounded numbers.
ExactLoss(s) ==
  s.retrans_syn + s.retrans_est + s.retrans_close + 2 * (s.rtos_syn + s.rtos_est + s.rtos_close)
    + 4 * (s.severed_connect + s.severed_establish)

ExactBytes(s) == s.bytes_received + s.bytes_delivered

KeptIds == {kept[i].id : i \in DOMAIN kept}

\* The filter returns as many of its flows as fit, none of them twice and all
\* of them unchanged.
KeepsFlows ==
  done =>
    /\ DOMAIN kept = {i \in 1..MaxItems : i <= Len(list)}
    /\ \A i, j \in DOMAIN kept : kept[i].id = kept[j].id => i = j
    /\ \A i \in DOMAIN kept : kept[i].id \in DOMAIN list /\ kept[i].stats = list[kept[i].id]

\* No flow that the filter drops has lost more than one that it keeps, or as
\* much and transferred more bytes; not even where the numbers leave their range.
DropsLeastLoss ==
  done =>
    \A i \in DOMAIN kept, j \in DOMAIN list \ KeptIds :
      LET k == kept[i].stats
          d == list[j]
      IN  /\ ExactLoss(d) > ExactLoss(k) => ExactLoss(k) >= MaxU32
          /\ ExactLoss(d) = ExactLoss(k) => (ExactBytes(d) <= ExactBytes(k) \/ ExactBytes(k) >= MaxU64)

\* Among equals the first of the list goes first (sort_by is stable).
StableAmongEquals ==
  done =>
    \A i, j \in DOMAIN kept :
      i < j /\ kept[i].stats = kept[j].stats => kept[i].id < kept[j].id

\* The filter keeps whole flows, each once, drops those with the least loss, also
\* at the limits of the counters, and keeps the order of equal ones.
KeepsWorstFlows == KeepsFlows /\ DropsLeastLoss /\ StableAmongEquals
=============================================================================
