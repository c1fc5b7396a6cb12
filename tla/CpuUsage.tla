------------------------------ MODULE CpuUsage ------------------------------
(***************************************************************************)
(* The CPU usage in a report: CpuUsageMonitor (nfm-controller/src/utils/   *)
(* cpu.rs) divides the CPU time of the process by the time since boot, both *)
(* measured from the start of the monitor by clock_delta (utils/clock.rs)  *)
(* on clocks that count seconds and nanoseconds.                           *)
(***************************************************************************)
EXTENDS Integers

CONSTANTS NSEC_PER_SEC, \* 10^9
          num_cpus,     \* logical cores of the host
          MaxTime       \* bound: nanoseconds since boot

ASSUME ClockAssumption == NSEC_PER_SEC \in Nat \ {0} /\ num_cpus \in Nat /\ MaxTime \in Nat

VARIABLES
  process,     \* CPU time of the process, in nanoseconds
  boot,        \* time since boot, in nanoseconds
  process_start, boot_start, \* both as the monitor read them when it started
  usage,       \* [consumed, elapsed] of the last usage_ratio, or Aborted
  truth,       \* history: the two as they were
  unread       \* history: whether a clock could not be read

usageVars == <<process, boot, process_start, boot_start, usage, truth, unread>>

NoUsage == [consumed |-> 0, elapsed |-> 0]
Aborted == [consumed |-> -1, elapsed |-> -1]

timespec(t) == [tv_sec |-> t \div NSEC_PER_SEC, tv_nsec |-> t % NSEC_PER_SEC]

\* clock_time: a clock that cannot be read reads zero.
clock_time(t, readable) == IF readable THEN timespec(t) ELSE timespec(0)

\* CpuUsageMonitor::start, at any time.
UsageInit ==
  /\ boot \in 0..(MaxTime \div 2) /\ process \in 0..(MaxTime \div 2)
  /\ process <= num_cpus * boot
  /\ unread \in BOOLEAN
  /\ process_start = clock_time(process, ~unread)
  /\ boot_start = clock_time(boot, ~unread)
  /\ usage = NoUsage /\ truth = NoUsage

\* Time goes by, and each core runs the process or does not.
Tick ==
  /\ boot < MaxTime /\ boot' = boot + 1
  /\ process' \in process..(process + num_cpus)
  /\ UNCHANGED <<process_start, boot_start, usage, truth, unread>>

-----------------------------------------------------------------------------
\* Mutant of borrow: no second is borrowed.
borrow_Never(now, past) == [sec |-> 0, nsec |-> 0]

\* sec_adjustment and nsec_adjustment
borrow(now, past) ==
  IF now.tv_nsec < past.tv_nsec THEN [sec |-> -1, nsec |-> NSEC_PER_SEC] ELSE [sec |-> 0, nsec |-> 0]

clock_delta(now, past) ==
  [tv_sec |-> now.tv_sec - past.tv_sec + borrow(now, past).sec,
   tv_nsec |-> now.tv_nsec - past.tv_nsec + borrow(now, past).nsec]

\* The assertion of clock_delta.
Asserted(spec) == spec.tv_sec >= 0 /\ spec.tv_nsec >= 0

timespec_to_nsec(spec) == spec.tv_sec * NSEC_PER_SEC + spec.tv_nsec

\* usage_ratio, before the division.
usage_ratio ==
  \E readable \in BOOLEAN :
    LET consumed == clock_delta(clock_time(process, readable), process_start)
        elapsed == clock_delta(clock_time(boot, readable), boot_start)
    IN  /\ usage # Aborted
        /\ unread' = (unread \/ ~readable)
        /\ usage' = IF Asserted(consumed) /\ Asserted(elapsed)
                    THEN [consumed |-> timespec_to_nsec(consumed), elapsed |-> timespec_to_nsec(elapsed)]
                    ELSE Aborted
        /\ truth' = [consumed |-> process - timespec_to_nsec(process_start),
                     elapsed |-> boot - timespec_to_nsec(boot_start)]
        /\ UNCHANGED <<process, boot, process_start, boot_start>>

UsageNext == Tick \/ usage_ratio

UsageSpec == UsageInit /\ [][UsageNext]_usageVars

-----------------------------------------------------------------------------
\* While the clocks can be read, the usage is measured to the nanosecond
\* whatever the two nanosecond fields are, and the assertion of clock_delta
\* never ends the agent.
UsageIsExact == ~unread => usage = truth
=============================================================================
