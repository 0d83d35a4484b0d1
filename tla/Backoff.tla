------------------------------ MODULE Backoff ------------------------------
(***************************************************************************)
(* The pure arithmetic of retry.rs and deadline.rs.  Durations are ticks;  *)
(* random_duration draws from all of 0..maximum (its u64 nanoseconds are   *)
(* 584 years).  A missing limit or max_elapsed is Unlimited.               *)
(***************************************************************************)
EXTENDS Integers

CONSTANTS
  U32Max,      \* the greatest u32
  DurationMax  \* Duration::MAX

ASSUME WidthAssumption == U32Max \in Nat \ {0} /\ DurationMax \in Nat

Unlimited == -1

Least(a, b) == IF a < b THEN a ELSE b

\* Duration::saturating_sub
Minus(a, b) == IF a > b THEN a - b ELSE 0

\* Duration::saturating_add
Plus(a, b) == Least(a + b, DurationMax)

BadSaturatingPow(factor, exponent) ==  \* wraps
  LET pow[k \in 0 .. exponent] ==
        IF k = 0 THEN 1 ELSE (pow[k - 1] * factor) % (U32Max + 1)
  IN pow[exponent]

\* u32::saturating_pow
SaturatingPow(factor, exponent) ==
  LET pow[k \in 0 .. exponent] ==
        IF k = 0 THEN 1 ELSE Least(pow[k - 1] * factor, U32Max)
  IN pow[exponent]

\* delay_after's cap; attempts are one-based.
Cap(initial, maximum, factor, attempt) ==
  LET exponent == Minus(attempt, 1)
  IN Least(Least(initial * SaturatingPow(factor, exponent), DurationMax), maximum)

\* The delays delay_after may return.  Equal jitter adds 0..cap-cap/2 to cap/2.
Delays(cap, jitter) ==
  {delay \in 0 .. cap :
     /\ jitter = "None" => delay = cap
     /\ jitter = "Equal" => delay >= cap \div 2}

None == -1  \* no further attempt

BadNextDelayUntimed(policy, attempt, elapsed, retryable) ==  \* the sleep is not counted
  IF ~retryable \/ attempt >= policy.max_attempts THEN {None}
  ELSE {IF policy.max_elapsed # Unlimited /\ elapsed > policy.max_elapsed
        THEN None ELSE delay :
          delay \in Delays(Cap(policy.initial, policy.maximum, policy.factor, attempt),
                           policy.jitter)}

BadNextDelayStrict(policy, attempt, elapsed, retryable) ==  \* a sleep to the limit is refused
  IF ~retryable \/ attempt >= policy.max_attempts THEN {None}
  ELSE {IF policy.max_elapsed # Unlimited /\ Plus(elapsed, delay) >= policy.max_elapsed
        THEN None ELSE delay :
          delay \in Delays(Cap(policy.initial, policy.maximum, policy.factor, attempt),
                           policy.jitter)}

\* What RetryPolicy::next_delay may return after `attempt' failed.
NextDelay(policy, attempt, elapsed, retryable) ==
  IF ~retryable \/ attempt >= policy.max_attempts THEN {None}
  ELSE {IF policy.max_elapsed # Unlimited /\ Plus(elapsed, delay) > policy.max_elapsed
        THEN None ELSE delay :
          delay \in Delays(Cap(policy.initial, policy.maximum, policy.factor, attempt),
                           policy.jitter)}

\* Whether a max_elapsed can refuse a delay: no sum exceeds Duration::MAX.
Limiting(max_elapsed) == max_elapsed \notin {Unlimited, DurationMax}

-----------------------------------------------------------------------------
(* LogicalRequestBudget *)

\* remaining(), for a bounded budget.
Remaining(limit, elapsed) == Minus(limit, elapsed)

BadIsExhausted(limit, elapsed) == limit # Unlimited /\ elapsed > limit

IsExhausted(limit, elapsed) == limit # Unlimited /\ elapsed >= limit

ClampChild(limit, elapsed, requested) ==
  IF limit = Unlimited THEN requested ELSE Least(requested, Remaining(limit, elapsed))

BadCanWait(limit, elapsed, delay) ==  \* the whole remainder may be slept away
  limit = Unlimited \/ delay <= Remaining(limit, elapsed)

CanWait(limit, elapsed, delay) ==
  limit = Unlimited \/ delay < Remaining(limit, elapsed)
=============================================================================
