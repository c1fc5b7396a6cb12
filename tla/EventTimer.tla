---------------------------- MODULE EventTimer ----------------------------
(***************************************************************************)
(* The timer of the main loop (nfm-controller/src/utils/event_timer.rs)    *)
(* and the loop of do_work around it (nfm-controller/src/lib.rs): periodic *)
(* events in a heap, sleeping in fragments, a flag raised by signals.      *)
(* What the events do is in ReportCycle; here they only take time.         *)
(*                                                                         *)
(* Times are relative to the clock: events[e] is next_invocation - now_us, *)
(* negative when the event is late, and every step that takes time moves   *)
(* all of them.  The clock itself matters only where the code may          *)
(* subtract more than it reads, shortly after boot; uptime counts up to    *)
(* the point where that has become impossible.                             *)
(***************************************************************************)
EXTENDS Integers, Functions

CONSTANTS NumEvents,     \* the events that do_work adds
          Period, Jitter, Delay,  \* of each event
          Fragment,      \* longest uninterrupted sleep: 1 second
          BootTimes,     \* clock readings at which the agent may start
          SafeUptime,    \* bound: the clock is counted up to here, where
                         \* now_us + period_us - jitter_us cannot underflow
          MaxWork,       \* bound: time that handling an event may take
          MaxOversleep   \* bound: time by which a sleep may be too long

EXIT_EVENT == 0

\* The ids of the events, in the order of their add_event.
Ids == 1..NumEvents

ASSUME EventTimerAssumption ==
  /\ NumEvents \in Nat \ {0}
  /\ Period \in [Ids -> Nat] /\ Jitter \in [Ids -> Nat] /\ Delay \in [Ids -> Nat]
  /\ Fragment \in Nat \ {0}
  /\ BootTimes \subseteq Nat
  /\ SafeUptime \in Nat /\ \A e \in Ids : Jitter[e] <= SafeUptime
  /\ MaxWork \in Nat /\ MaxOversleep \in Nat

Smaller(m, n) == IF m <= n THEN m ELSE n

VARIABLES
  uptime,     \* now_us, counted up to SafeUptime
  last_id,    \* the last id given out
  events,     \* the heap: times until the next invocation
  event,      \* the event popped last
  until_us,   \* what is left to sleep for it
  exit_flag,
  pc          \* "setup", "await", "sleep", "work", "exited" or "panicked"

vars == <<uptime, last_id, events, event, until_us, exit_flag, pc>>

TypeOK ==
  /\ uptime \in Nat
  /\ last_id \in Ids \cup {EXIT_EVENT}
  /\ DOMAIN events \subseteq Ids
  /\ \A e \in DOMAIN events : events[e] \in Int
  /\ event \in Ids \cup {EXIT_EVENT}
  /\ until_us \in Nat
  /\ exit_flag \in BOOLEAN
  /\ pc \in {"setup", "await", "sleep", "work", "exited", "panicked"}

Init ==
  /\ uptime \in {Smaller(now, SafeUptime) : now \in BootTimes}
  /\ last_id = EXIT_EVENT
  /\ events = [e \in {} |-> 0]
  /\ event = EXIT_EVENT
  /\ until_us = 0
  /\ exit_flag = FALSE
  /\ pc = "setup"

-----------------------------------------------------------------------------
\* PeriodicEvent::choose_next_invocation: the times it may choose for event e.
\* gen_range excludes its upper end.
choose_next_invocation(e) ==
  {Period[e] - Jitter[e] + rand_jitter :
     rand_jitter \in IF Jitter[e] > 0 THEN 0..(2 * Jitter[e] - 1) ELSE {0}}

\* now_us + period_us - jitter_us on u64: every profile of the agent has
\* overflow-checks, and the process ends.
Underflows(now, e) == now + Period[e] < Jitter[e]

\* Time passes for all that is in the heap.
Elapse(heap, t) == [e \in DOMAIN heap |-> heap[e] - t]

push(heap, e, due) == [f \in DOMAIN heap \cup {e} |-> IF f = e THEN due ELSE heap[f]]

\* Ord of PeriodicEvent: what BinaryHeap::pop may return.
earliest == {e \in DOMAIN events : \A f \in DOMAIN events : events[e] <= events[f]}

\* EventTimer::add_event and add_event_with_delay, in do_work.
add_event ==
  /\ pc = "setup"
  /\ last_id + 1 \in Ids
  /\ last_id' = last_id + 1
  /\ IF Underflows(uptime, last_id')
     THEN pc' = "panicked" /\ UNCHANGED events
     ELSE /\ \E due \in choose_next_invocation(last_id') :
               events' = push(events, last_id', due + Delay[last_id'])
          /\ pc' = IF last_id' + 1 \in Ids THEN "setup" ELSE "await"
  /\ UNCHANGED <<uptime, event, until_us, exit_flag>>

\* The event is put back and handed to the main loop: the end of
\* await_next_event, when the clock shows that t has passed.
Reschedule(heap, e, t) ==
  /\ uptime' = Smaller(uptime + t, SafeUptime)
  /\ IF Underflows(uptime', e)
     THEN pc' = "panicked" /\ events' = heap
     ELSE /\ \E due \in choose_next_invocation(e) : events' = push(heap, e, due)
          /\ pc' = "work"

\* Mutant of await_next_event: an event that is late is not put back.
await_next_event_Dropped ==
  /\ pc = "await"
  /\ IF DOMAIN events = {} THEN pc' = "exited" /\ UNCHANGED <<uptime, events, event, until_us>>
     ELSE \E e \in earliest :
       /\ event' = e
       /\ UNCHANGED uptime
       /\ events' = Restrict(events, DOMAIN events \ {e})
       /\ until_us' = IF events[e] > 0 THEN events[e] ELSE 0
       /\ pc' = IF events[e] > 0 THEN "sleep" ELSE "work"
  /\ UNCHANGED <<last_id, exit_flag>>

\* EventTimer::await_next_event, up to its sleep.
await_next_event ==
  /\ pc = "await"
  /\ IF DOMAIN events = {} THEN pc' = "exited" /\ UNCHANGED <<uptime, events, event, until_us>>
     ELSE \E e \in earliest :
       LET heap == Restrict(events, DOMAIN events \ {e})
       IN  /\ event' = e
           /\ IF events[e] > 0
              THEN events' = heap /\ until_us' = events[e] /\ pc' = "sleep" /\ UNCHANGED uptime
              ELSE Reschedule(heap, e, 0) /\ UNCHANGED until_us
  /\ UNCHANGED <<last_id, exit_flag>>

\* One turn of try_sleep's loop, and what follows the last one.
try_sleep ==
  /\ pc = "sleep"
  /\ \E extra \in 0..MaxOversleep :
       LET slept == Smaller(until_us, Fragment)
           heap == Elapse(events, slept + extra)
       IN  /\ until_us' = until_us - slept
           /\ IF exit_flag \/ until_us' > 0
              THEN /\ events' = heap
                   /\ uptime' = Smaller(uptime + slept + extra, SafeUptime)
                   /\ pc' = IF exit_flag THEN "exited" ELSE pc
              ELSE Reschedule(heap, event, slept + extra)
  /\ UNCHANGED <<last_id, event, exit_flag>>

\* The body of do_work's loop for this event.
Work ==
  /\ pc = "work"
  /\ \E t \in 0..MaxWork :
       /\ events' = Elapse(events, t)
       /\ uptime' = Smaller(uptime + t, SafeUptime)
  /\ pc' = "await"
  /\ UNCHANGED <<last_id, event, until_us, exit_flag>>

\* SIGINT, SIGQUIT or SIGTERM, once their handlers are registered.
Signal ==
  /\ pc \in {"await", "sleep", "work"}
  /\ ~exit_flag
  /\ exit_flag' = TRUE
  /\ UNCHANGED <<uptime, last_id, events, event, until_us, pc>>

Step == add_event \/ await_next_event \/ try_sleep \/ Work

Next == Step \/ Signal

Spec == Init /\ [][Next]_vars

\* The thread keeps running, whatever signals arrive.
FairSpec == Spec /\ WF_vars(Step)

-----------------------------------------------------------------------------
\* No event is forgotten while the loop runs: each one is in the heap, or is
\* the one being slept for.  An event that was late when it was popped has
\* once been lost this way (test_event_invocation_in_the_past).
NoEventLost ==
  pc \in {"await", "sleep", "work"} =>
    DOMAIN events = IF pc = "sleep" THEN Ids \ {event} ELSE Ids

\* "next invocation to be within +/- jitter one period from now"
\* (event_timer.rs): nothing keeps the jitter below the period (the options of
\* lib.rs accept any two), and yet scheduling fails, if at all, when the agent
\* starts so soon after boot that the clock is below jitter - period.  Once the
\* events are added, putting one back never fails.
SchedulingSucceeds ==
  pc = "panicked" => event = EXIT_EVENT /\ \E now \in BootTimes : Underflows(now, last_id)

\* The invariant behind these two: the events are added one after the other at
\* a clock that still reads what it did at the start, the one popped last is
\* known, and for the events that were added the clock has gone far enough.
TimerInvariant ==
  /\ TypeOK /\ NoEventLost /\ SchedulingSucceeds
  /\ pc = "setup" =>
       /\ DOMAIN events = 1..last_id /\ last_id + 1 \in Ids /\ event = EXIT_EVENT
       /\ \E now \in BootTimes : uptime = Smaller(now, SafeUptime)
       /\ \A e \in 1..last_id : ~Underflows(uptime, e)
  /\ pc \in {"await", "sleep", "work"} => \A e \in Ids : ~Underflows(uptime, e)
  /\ pc = "sleep" => event \in Ids

Largest(S) == CHOOSE x \in S : \A y \in S : x >= y

\* What the sleeping for one event may be too long by, over all its fragments.
OversleepBound ==
  LET longest == Largest({Period[e] + Jitter[e] + Delay[e] : e \in Ids})
  IN  MaxOversleep * ((longest + Fragment - 1) \div Fragment)

\* How far in the past an event may be scheduled, when its jitter is longer
\* than its period; it is then before others that are due for less long.
Overtaking == Largest({0} \cup {Jitter[e] - Period[e] : e \in Ids})

\* No event is kept waiting for more than one round of all of them, however
\* long the handlers take and whatever the periods are: at its time one
\* handler may be running, and each other event may be before it once (or
\* more often, for as long as it is scheduled in the past).
BoundedLateness ==
  \A e \in DOMAIN events : -events[e] <= MaxWork * NumEvents + OversleepBound + Overtaking

\* Every event is handled again and again until the agent exits.
EveryEventHandled ==
  \A e \in Ids : []<>((pc = "work" /\ event = e) \/ pc = "exited")

\* A signal ends the agent ("signals for which we want to exit gracefully",
\* lib.rs), although the flag is looked at only after a sleep.
SignalEndsAgent == exit_flag ~> pc = "exited"
=============================================================================
