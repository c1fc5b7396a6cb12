------------------------------ MODULE Network ------------------------------
(***************************************************************************)
(* The two records the eBPF program writes and the agent reads             *)
(* (nfm-common/src/network.rs): a socket's context and its statistics.     *)
(*                                                                         *)
(* A context matters here as the flow it belongs to and as being valid or  *)
(* not.  The statistics keep one representative of each class of     *)
(* field, because all the fields of a class are treated alike:             *)
(*   bytes_received   kept by the kernel for the whole socket, copied by a *)
(*                    handler and merged across CPUs with max (also the    *)
(*                    bytes delivered and the segment counters);           *)
(*   bpf_events       counted by the handlers themselves, merged with +    *)
(*                    (retransmissions, timeouts, RTTs, connects);         *)
(*   last_touched_us  a timestamp, merged with max (also connect start     *)
(*                    and end);                                            *)
(*   state_flags      a bit set, merged with union.                        *)
(***************************************************************************)
EXTENDS Naturals

CONSTANTS Flows,          \* valid contexts, as far as a flow tells them apart
          NoContext,      \* SockContext::default(), and an absent context
          CounterModulus  \* 2^w for a counter of w bits

ASSUME NetworkAssumption ==
  /\ NoContext \notin Flows
  /\ CounterModulus \in Nat \ {0}

\* SockContext::is_valid
is_valid(context) == context # NoContext

SockStateFlags == {"ENTERED_ESTABLISH", "STARTED_CLOSURE",
                   "TERMINATED_FROM_SYN", "TERMINATED_FROM_EST", "CLOSED"}

Counter == 0..(CounterModulus - 1)

SockStats == [last_touched_us : Nat, bytes_received : Counter,
              bpf_events : Counter, state_flags : SUBSET SockStateFlags]

DefaultStats == [last_touched_us |-> 0, bytes_received |-> 0,
                 bpf_events |-> 0, state_flags |-> {}]

max(a, b) == IF a >= b THEN a ELSE b

saturating_sub(a, b) == IF a >= b THEN a - b ELSE 0

\* Sums and differences of counters.
wrapping_add(a, b) == IF a + b < CounterModulus THEN a + b
                                                ELSE (a + b) - CounterModulus
wrapping_sub(a, b) == IF a >= b THEN a - b ELSE (CounterModulus - b) + a

\* Mutant of add_from: the socket-wide counters are summed over the CPUs.
add_from_SumsKernelCounters(self, other) ==
  [last_touched_us |-> max(self.last_touched_us, other.last_touched_us),
   bytes_received  |-> wrapping_add(self.bytes_received, other.bytes_received),
   bpf_events      |-> wrapping_add(self.bpf_events, other.bpf_events),
   state_flags     |-> self.state_flags \cup other.state_flags]

\* Mutant of add_from: the CPU that is visited last decides.
add_from_LastCpuWins(self, other) == other

\* Merges the record of one CPU into the record of the socket.  (The build
\* stops the agent on an overflow of a sum; MaxEvents stays below it.)
add_from(self, other) ==
  [last_touched_us |-> max(self.last_touched_us, other.last_touched_us),
   bytes_received  |-> max(self.bytes_received, other.bytes_received),
   bpf_events      |-> wrapping_add(self.bpf_events, other.bpf_events),
   state_flags     |-> self.state_flags \cup other.state_flags]

\* What changed from rhs to self: counters are subtracted, the rest is kept.
subtract(self, rhs) ==
  [self EXCEPT
     !.bytes_received = wrapping_sub(self.bytes_received, rhs.bytes_received),
     !.bpf_events     = wrapping_sub(self.bpf_events, rhs.bpf_events)]

is_closed(self) == "CLOSED" \in self.state_flags
=============================================================================
