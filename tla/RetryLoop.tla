----------------------------- MODULE RetryLoop -----------------------------
(***************************************************************************)
(* retry() and retry_async() of retry.rs: one loop over an operation that  *)
(* takes any time and fails in any way.  The sleep may overshoot: the      *)
(* thread or task resumes at any instant after it is due.                  *)
(***************************************************************************)
EXTENDS Backoff

CONSTANTS
  Policies,   \* the RetryPolicy values to start from
  LatestWork  \* bound: from then on the clock only moves for a sleep to end

\* What ExponentialBackoff::new accepts and NonZeroU32 can hold.
ValidPolicy(p) ==
  /\ p.max_attempts \in 1 .. U32Max /\ p.factor \in 1 .. U32Max
  /\ p.max_elapsed \in 0 .. DurationMax \cup {Unlimited}
  /\ p.initial \in 1 .. p.maximum /\ p.maximum \in 1 .. DurationMax
  /\ p.jitter \in {"None", "Full", "Equal"}

ASSUME PolicyAssumption == \A p \in Policies : ValidPolicy(p)

VARIABLES
  now, policy, started, attempt,
  pc,     \* "running" the operation, "sleeping" until `until', or how it ended
  until,
  cause   \* the classifier's verdict on the last error

vars == <<now, policy, started, attempt, pc, until, cause>>

Init ==
  /\ now = 0
  /\ policy \in Policies
  /\ started = 0 /\ attempt = 1 /\ pc = "running" /\ until = 0 /\ cause = "none"

Tick ==
  /\ now < LatestWork \/ (pc = "sleeping" /\ now < until)
  /\ now' = now + 1
  /\ UNCHANGED <<policy, started, attempt, pc, until, cause>>

Succeed ==
  /\ pc = "running"
  /\ pc' = "ok"
  /\ UNCHANGED <<now, policy, started, attempt, until, cause>>

Fail ==
  /\ pc = "running"
  /\ cause' \in {"Retry", "DoNotRetry"}
  /\ \E delay \in NextDelay(policy, attempt, now - started, cause' = "Retry") :
       \/ delay = None /\ pc' = "err" /\ UNCHANGED until
       \/ delay # None /\ pc' = "sleeping" /\ until' = now + delay
  /\ UNCHANGED <<now, policy, started, attempt>>

Wake ==
  /\ pc = "sleeping" /\ now >= until
  /\ attempt' = attempt + 1
  /\ pc' = "running"
  /\ UNCHANGED <<now, policy, started, until, cause>>

\* retry_async's future is dropped by its owner.
Cancel ==
  /\ pc \in {"running", "sleeping"}
  /\ pc' = "dropped"
  /\ UNCHANGED <<now, policy, started, attempt, until, cause>>

Next == Tick \/ Succeed \/ Fail \/ Wake \/ Cancel

Spec == Init /\ [][Next]_vars

-----------------------------------------------------------------------------
\* The specification of the backoff, without its saturating arithmetic.
Power(factor, n) ==
  LET power[k \in 0 .. n] == IF k = 0 THEN 1 ELSE factor * power[k - 1]
  IN power[n]

IdealCap(n) ==
  Least(policy.maximum, policy.initial * Least(Power(policy.factor, n - 1), U32Max))

\* A sleep follows the documented curve, min(maximum, initial * factor^(n-1)) with the
\* multiplier held at u32::MAX, and its jitter; saturation never makes it wrap or shrink.
SleepOnCurve ==
  [][pc = "running" /\ pc' = "sleeping" =>
       LET delay == until' - now
           cap == IdealCap(attempt)
       IN /\ delay <= cap
          /\ policy.jitter = "None" => delay = cap
          /\ policy.jitter = "Equal" => delay >= cap \div 2]_vars

\* The code gives up only with a cause: a verdict, the attempts or the elapsed time.
GivesUpWithCause ==
  [][pc' = "err" /\ pc # "err" =>
       \/ cause' = "DoNotRetry"
       \/ attempt = policy.max_attempts
       \/ Limiting(policy.max_elapsed)
            /\ now - started + IdealCap(attempt) > policy.max_elapsed]_vars

\* The operation never runs more often than max_attempts, a retry is asked for by
\* the classifier, and its sleep is due within max_elapsed.
RetriesAllowed ==
  /\ attempt <= policy.max_attempts
  /\ pc = "sleeping" =>
       /\ cause = "Retry"
       /\ Limiting(policy.max_elapsed) => until <= started + policy.max_elapsed
=============================================================================
