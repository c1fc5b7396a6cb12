-------------------------- MODULE SamplingControl --------------------------
(***************************************************************************)
(* The feedback loop of adaptive sampling and the counters it is driven    *)
(* by: handlers count failed map insertions per CPU in NFM_COUNTERS, every *)
(* aggregation cycle of the agent compares the sum with the last one it    *)
(* read and adapts the sampling interval in NFM_CONTROL, and every report  *)
(* publishes what was counted since the report before                      *)
(* (nfm-controller/src/events/event_provider_ebpf.rs).  EventProvider has  *)
(* the effect of the loop on the sockets; here the interval has its real   *)
(* range, and the counters their width and their failing reads.            *)
(***************************************************************************)
EXTENDS AdaptiveSampling, FiniteSets, Functions

CONSTANTS Cpus,
          CounterModulus,  \* 2^32 in EventCounters
          MaxErrors,       \* bound: insertion errors that ever happen
          MaxFailures      \* bound: reads of NFM_COUNTERS that ever fail

ASSUME SamplingControlAssumption ==
  /\ IsFiniteSet(Cpus)
  /\ CounterModulus \in Nat /\ CounterModulus > 1
  /\ MaxErrors \in Nat /\ MaxFailures \in Nat

VARIABLES
  NFM_COUNTERS,             \* map_insertion_errors of each CPU
  NFM_CONTROL,              \* the sampling interval the handlers use
  sampling_interval,        \* the one in the agent's ebpf_control_data
  ebpf_counters_latest,     \* map_insertion_errors, as read last
  ebpf_counters_published,  \* map_insertion_errors, as reported last
  \* History variables:
  errors,                   \* insertion errors so far
  failures,                 \* failed reads so far
  seen,                     \* errors when they were last read successfully
  reported,                 \* sum of the numbers in all reports
  reading                   \* the last read: failed, or good, or good and reported

sampling_vars == <<NFM_COUNTERS, NFM_CONTROL, sampling_interval, ebpf_counters_latest,
                   ebpf_counters_published, errors, failures, seen, reported, reading>>

wrapping_add(a, b) == (a + b) % CounterModulus
wrapping_sub(a, b) == (a - b) % CounterModulus

SamplingTypeOK ==
  /\ NFM_COUNTERS \in [Cpus -> 0..(CounterModulus - 1)]
  /\ NFM_CONTROL \in 1..MaxSamplingInterval
  /\ sampling_interval = NFM_CONTROL
  /\ ebpf_counters_latest \in 0..(CounterModulus - 1)
  /\ ebpf_counters_published \in 0..(CounterModulus - 1)
  /\ errors \in 0..MaxErrors
  /\ failures \in 0..MaxFailures
  /\ seen \in 0..errors
  /\ reported \in Nat
  /\ reading \in {"failed", "good", "reported"}

\* EventProviderEbpf::new
SamplingInit ==
  /\ NFM_COUNTERS = [c \in Cpus |-> 0]
  /\ sampling_interval = increase_sampling_interval(0)
  /\ NFM_CONTROL = sampling_interval
  /\ ebpf_counters_latest = 0
  /\ ebpf_counters_published = 0
  /\ errors = 0
  /\ failures = 0
  /\ seen = 0
  /\ reported = 0
  /\ reading = "reported"

\* A handler on this CPU finds a map full.  Fewer than CounterModulus errors
\* happen between two cycles.
insertion_error(cpu) ==
  /\ errors < MaxErrors
  /\ errors - seen < CounterModulus - 1
  /\ NFM_COUNTERS' = [NFM_COUNTERS EXCEPT ![cpu] = wrapping_add(@, 1)]
  /\ errors' = errors + 1
  /\ UNCHANGED <<NFM_CONTROL, sampling_interval, ebpf_counters_latest,
                 ebpf_counters_published, failures, seen, reported, reading>>

\* Mutant of ebpf_counters: compares without regard to a wrapped counter.
ebpf_counters_Compares(new_counters) ==
  /\ ebpf_counters_latest' = new_counters
  /\ sampling_interval' = IF new_counters > ebpf_counters_latest
                          THEN increase_sampling_interval(sampling_interval)
                          ELSE decrease_sampling_interval(sampling_interval)
  /\ NFM_CONTROL' = sampling_interval'

\* The difference from the last reading decides on the sampling interval, which
\* is sent to the handlers (send_control_data) when it changes.
ebpf_counters(new_counters) ==
  /\ ebpf_counters_latest' = new_counters
  /\ sampling_interval' =
       IF wrapping_sub(new_counters, ebpf_counters_latest) > 0
       THEN increase_sampling_interval(sampling_interval)
       ELSE decrease_sampling_interval(sampling_interval)
  /\ NFM_CONTROL' = sampling_interval'

\* The start of perform_aggregation_cycle.  The agent gets the counters of all
\* CPUs with one call; an error counted during the call is in the sum or in the
\* next one.  A failing call leaves the default counters in place of the sum.
ReadCounters ==
  /\ ebpf_counters(FoldFunction(wrapping_add, 0, NFM_COUNTERS))
  /\ seen' = errors
  /\ reading' = "good"
  /\ UNCHANGED <<NFM_COUNTERS, ebpf_counters_published, errors, failures,
                 reported>>

ReadFails ==
  /\ failures < MaxFailures
  /\ failures' = failures + 1
  /\ ebpf_counters(0)
  /\ reading' = "failed"
  /\ UNCHANGED <<NFM_COUNTERS, ebpf_counters_published, errors, seen, reported>>

perform_aggregation_cycle == ReadCounters \/ ReadFails

\* Mutant of counters: the next report starts from the same counters again.
counters_NotRemembered ==
  /\ reported' = reported + wrapping_sub(ebpf_counters_latest,
                                         ebpf_counters_published)
  /\ reading' = IF reading = "good" THEN "reported" ELSE reading
  /\ UNCHANGED <<NFM_COUNTERS, NFM_CONTROL, sampling_interval,
                 ebpf_counters_latest, ebpf_counters_published, errors,
                 failures, seen>>

\* A report takes what the cycles read since the one before.
counters ==
  /\ reported' = reported + wrapping_sub(ebpf_counters_latest,
                                         ebpf_counters_published)
  /\ ebpf_counters_published' = ebpf_counters_latest
  /\ reading' = IF reading = "good" THEN "reported" ELSE reading
  /\ UNCHANGED <<NFM_COUNTERS, NFM_CONTROL, sampling_interval,
                 ebpf_counters_latest, errors, failures, seen>>

-----------------------------------------------------------------------------
SamplingNext ==
  \/ \E cpu \in Cpus : insertion_error(cpu)
  \/ perform_aggregation_cycle
  \/ counters

\* The main loop never stops calling perform_aggregation_cycle.
SamplingSpec ==
  /\ SamplingInit /\ [][SamplingNext]_sampling_vars
  /\ WF_sampling_vars(perform_aggregation_cycle)

\* A cycle whose read finds insertion errors that no cycle has read before
\* raises the interval or has it at its limit, also when the counter of a CPU
\* or their sum wrapped.  After a failed read this holds until the sum wraps.
ErrorsNoticed ==
  [][seen' # seen /\ (failures = 0 \/ errors < CounterModulus) =>
       \/ NFM_CONTROL' > NFM_CONTROL
       \/ NFM_CONTROL' = MaxSamplingInterval]_sampling_vars

\* The reports add up: without failed reads they never hold more errors than
\* were read, and whatever failed before, once a good read is reported the sum
\* of all reports is the number of errors, up to multiples of CounterModulus.
ReportsAddUp ==
  /\ failures = 0 => reported <= seen
  /\ reading = "reported" =>
       reported % CounterModulus = seen % CounterModulus

\* The invariant behind both: the counters of the CPUs add up to the errors, the
\* last reading to the errors seen and the reports to the reading they ended
\* with, each up to multiples of CounterModulus; and a cycle comes before as many
\* errors are missed as would go unnoticed.
SamplingInvariant ==
  /\ SamplingTypeOK
  /\ SumFunctionOnSet(NFM_COUNTERS, Cpus) % CounterModulus = errors % CounterModulus
  /\ errors - seen < CounterModulus
  /\ ebpf_counters_latest \in {0, seen % CounterModulus}
  /\ failures = 0 \/ reading # "failed" => ebpf_counters_latest = seen % CounterModulus
  /\ reported % CounterModulus = ebpf_counters_published
  /\ reading = "reported" => ebpf_counters_published = ebpf_counters_latest
  /\ failures = 0 => reported <= seen

\* Once insertions succeed again and the counters can be read, every new socket
\* is handled again: the interval comes down to 1 from wherever it was.
SamplingRecovers == <>[](NFM_CONTROL = 1)
=============================================================================
