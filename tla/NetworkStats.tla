---------------------------- MODULE NetworkStats ----------------------------
(***************************************************************************)
(* The statistics of a flow (nfm-controller/src/events/network_event.rs).  *)
(*                                                                         *)
(* The code keeps one total per flow and counter.  Here a flow keeps the   *)
(* share that each socket added to the total, so that properties can speak *)
(* of a socket's contribution; the code's total is the sum of the shares.  *)
(***************************************************************************)
EXTENDS Network

\* The level a socket raises in its flow, "none" if it raises none of them.
Levels == {"none", "connecting", "established", "closing", "closed"}

Share == [bytes_received : Nat, bpf_events : Nat, sockets_completed : Nat,
          level : Levels]

NoShare == [bytes_received |-> 0, bpf_events |-> 0, sockets_completed |-> 0,
            level |-> "none"]

\* update_sock_counters: exactly one level is raised per socket and round.
level_of(flags) ==
  IF "STARTED_CLOSURE" \notin flags
  THEN IF "ENTERED_ESTABLISH" \in flags THEN "established" ELSE "connecting"
  ELSE IF "CLOSED" \in flags THEN "closed" ELSE "closing"

\* Mutant of clear_levels: the levels of earlier rounds stay.
clear_levels_Forgotten(share) == share

\* NetworkStats::clear_levels
clear_levels(share) == [share EXCEPT !.level = "none"]

\* NetworkStats::add_from, and the count of completed sockets that follows it.
add_to_flow(share, delta, completes) ==
  [bytes_received    |-> share.bytes_received + delta.bytes_received,
   bpf_events        |-> share.bpf_events + delta.bpf_events,
   sockets_completed |-> share.sockets_completed + (IF completes THEN 1 ELSE 0),
   level             |-> level_of(delta.state_flags)]
=============================================================================
