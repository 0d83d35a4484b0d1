----------------------------- MODULE RetryBudget -----------------------------
(***************************************************************************)
(* The shared retry-storm budgets of retry_budget.rs: a bucket of tokens   *)
(* per namespace, spent by retries and refilled by reported successes,     *)
(* with no clock.  Each call holds the namespace's mutex once, so it is    *)
(* one action; any number of clones and threads is any order of actions.   *)
(***************************************************************************)
EXTENDS Integers

CONSTANTS
  Namespaces,  \* PrimaryRetryBudget and ShadowRetryBudget
  Capacity,    \* RetryBudgetConfig.capacity, of each namespace
  Replenish,   \* RetryBudgetConfig.replenish_per_success
  U32Max,      \* the greatest u32
  MaxSuccesses \* bound: successes reported per namespace

ASSUME BudgetAssumption ==
  /\ U32Max \in Nat
  /\ Capacity \in [Namespaces -> 1 .. U32Max]
  /\ Replenish \in [Namespaces -> 1 .. U32Max]
  /\ MaxSuccesses \in Nat

VARIABLES
  available,   \* RetryBudgetState.available
  admitted,    \* history: retries admitted
  reported,    \* history: successes reported
  suppressed   \* history: the namespaces whose last call was suppressed

vars == <<available, admitted, reported, suppressed>>

Init ==
  /\ available = Capacity
  /\ admitted = [n \in Namespaces |-> 0]
  /\ reported = [n \in Namespaces |-> 0]
  /\ suppressed = {}

Lesser(a, b) == IF a < b THEN a ELSE b

BadSaturatingAdd(a, b) == (a + b) % (U32Max + 1)  \* wraps

\* u32::saturating_add
SaturatingAdd(a, b) == Lesser(a + b, U32Max)

BadSpend(n) == available' = [m \in Namespaces |-> available[n] - 1]  \* one bucket

Spend(n) == available' = [available EXCEPT ![n] = @ - 1]

BadIsEmpty(n) == available[n] <= 1  \* keeps the last token

IsEmpty(n) == available[n] = 0

\* try_acquire_retry(): Admitted with a token less, or Suppressed.
TryAcquireRetry(n) ==
  \/ /\ IsEmpty(n)
     /\ suppressed' = suppressed \cup {n}
     /\ UNCHANGED <<available, admitted, reported>>
  \/ /\ ~IsEmpty(n)
     /\ Spend(n)
     /\ admitted' = [admitted EXCEPT ![n] = @ + 1]
     /\ suppressed' = suppressed \ {n}
     /\ UNCHANGED reported

BadRecordSuccess(n) ==  \* the capacity is not applied
  /\ reported[n] < MaxSuccesses
  /\ available' = [available EXCEPT ![n] = SaturatingAdd(@, Replenish[n])]
  /\ reported' = [reported EXCEPT ![n] = @ + 1]
  /\ suppressed' = suppressed \ {n}
  /\ UNCHANGED admitted

\* record_success(): add, saturating at u32::MAX and at capacity.
RecordSuccess(n) ==
  /\ reported[n] < MaxSuccesses
  /\ available' = [available EXCEPT ![n] =
                     Lesser(SaturatingAdd(@, Replenish[n]), Capacity[n])]
  /\ reported' = [reported EXCEPT ![n] = @ + 1]
  /\ suppressed' = suppressed \ {n}
  /\ UNCHANGED admitted

Next == \E n \in Namespaces : TryAcquireRetry(n) \/ RecordSuccess(n)

Spec == Init /\ [][Next]_vars

-----------------------------------------------------------------------------
\* The storm bound: however calls interleave, the retries a namespace admitted
\* never exceed its capacity and its replenishment, what is left in the bucket is
\* within that account, and no run of successes saves up a burst beyond the capacity.
RetriesPaidFor ==
  \A n \in Namespaces :
    /\ available[n] \in 0 .. Capacity[n]
    /\ available[n] + admitted[n] <= Capacity[n] + Replenish[n] * reported[n]

\* No token is lost: not to a saturated or wrapped sum, not to a suppressed call,
\* not to the other namespace.  What is missing from a bucket was spent by it, and
\* a retry is suppressed only when its own namespace has nothing left.
TokensKept ==
  \A n \in Namespaces :
    /\ Capacity[n] - admitted[n] <= available[n]
    /\ n \in suppressed => available[n] = 0
=============================================================================
