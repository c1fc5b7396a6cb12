-------------------------- MODULE AdaptiveSampling --------------------------
(***************************************************************************)
(* The sampling interval that the agent sends to the eBPF program.         *)
(***************************************************************************)
EXTENDS Integers

CONSTANT MaxSamplingInterval   \* max_sampling_interval

ASSUME MaxSamplingAssumption ==
  MaxSamplingInterval \in Nat /\ MaxSamplingInterval >= 2

\* u32::div_ceil
div_ceil(x, y) == (x + y - 1) \div y

increase_sampling_interval(x) ==
  IF x > MaxSamplingInterval THEN x
  ELSE IF x > 1
       THEN IF (3 * x) \div 2 < MaxSamplingInterval THEN (3 * x) \div 2
                                                    ELSE MaxSamplingInterval
       ELSE 2

\* Mutant of decrease_sampling_interval: rounds the step down.
decrease_sampling_interval_RoundsDown(x) == IF x > 1 THEN x - x \div 7 ELSE x

decrease_sampling_interval(x) == IF x > 1 THEN x - div_ceil(x, 7) ELSE x
=============================================================================
