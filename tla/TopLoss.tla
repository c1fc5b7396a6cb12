------------------------------ MODULE TopLoss ------------------------------
(***************************************************************************)
(* The loss score of a flow (nfm-controller/src/events/network_event.rs)   *)
(* and the filter that keeps the flows with most of it                     *)
(* (event_filter_top_loss.rs).  The scores saturate at the width of their  *)
(* integers.                                                               *)
(***************************************************************************)
EXTENDS Naturals, Sequences, FiniteSets

CONSTANTS MaxU32,   \* largest u32
          MaxU64    \* largest u64

ASSUME WidthAssumption == MaxU32 \in Nat /\ MaxU64 \in Nat /\ MaxU32 <= MaxU64

\* Mutant of saturating_add: wraps.
saturating_add_Wraps(a, b, max) == (a + b) % (max + 1)

saturating_add(a, b, max) == IF a + b > max THEN max ELSE a + b

saturating_mul(a, b, max) == IF a * b > max THEN max ELSE a * b

SCALE_FACTOR == 2

total_bytes(stats) == saturating_add(stats.bytes_received, stats.bytes_delivered, MaxU64)

retrans_total(stats) ==
  saturating_add(saturating_add(stats.retrans_syn, stats.retrans_est, MaxU32),
                 stats.retrans_close, MaxU32)

rtos_total(stats) ==
  saturating_add(saturating_add(stats.rtos_syn, stats.rtos_est, MaxU32),
                 stats.rtos_close, MaxU32)

quantify_loss(stats) ==
  LET severed == saturating_add(stats.severed_connect, stats.severed_establish, MaxU32)
      timeouts == saturating_mul(rtos_total(stats), SCALE_FACTOR, MaxU32)
  IN  saturating_add(saturating_add(retrans_total(stats), timeouts, MaxU32),
                     saturating_mul(severed, SCALE_FACTOR * SCALE_FACTOR, MaxU32), MaxU32)

\* EventFilterTopLoss::cmp is Ordering::Less.
Less(lhs, rhs) ==
  \/ quantify_loss(lhs) < quantify_loss(rhs)
  \/ quantify_loss(lhs) = quantify_loss(rhs) /\ total_bytes(lhs) < total_bytes(rhs)

\* sort_by with the arguments of cmp exchanged: what is greater goes first, and
\* equals stay in order.  Where it puts event i: behind those that go before it.
GoesBefore(events, j, i) ==
  \/ Less(events[i].stats, events[j].stats)
  \/ ~Less(events[j].stats, events[i].stats) /\ j < i

Place(events, i) == 1 + Cardinality({j \in DOMAIN events : GoesBefore(events, j, i)})

sorted(events) ==
  [n \in 1..Len(events) |-> events[CHOOSE i \in DOMAIN events : Place(events, i) = n]]

\* Vec::truncate
truncate(events, max_items) ==
  SubSeq(events, 1, IF Len(events) < max_items THEN Len(events) ELSE max_items)

filter_events(events, max_items) == truncate(sorted(events), max_items)
=============================================================================
