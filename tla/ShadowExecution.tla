--------------------------- MODULE ShadowExecution ---------------------------
(***************************************************************************)
(* Shadow requests under ShadowExecutionPolicy (shadow_policy.rs), run by  *)
(* timeout_or_cancel() and sleep_backoff() of tokio_runtime.rs and ending  *)
(* in a ShadowOutcome.  The crate leaves the loop that ties these together *)
(* to an adapter; the one here is what their documentation asks for: a     *)
(* slot of the shadow bulkhead or nothing, a budget of effective_deadline  *)
(* around everything, next_retry_delay() between attempts.                 *)
(*                                                                         *)
(* A poll runs to the future's next await; cancellation, answers and time  *)
(* happen between polls, and a poll may come late.                         *)
(***************************************************************************)
EXTENDS Backoff, FiniteSets

CONSTANTS
  Shadows,
  Capacity,        \* of the shadow bulkhead
  PrimaryLimits,   \* the primary's logical budget, started at 0, or Unlimited
  ShadowDeadlines, \* ShadowExecutionPolicy.deadline
  RetryPolicies,   \* ShadowExecutionPolicy.retry_policy, or NoRetry
  LatestDispatch,  \* bound: no shadow is dispatched after this instant
  Horizon          \* bound: the clock stops here

NoRetry == [max_attempts |-> 0]

\* ShadowExecutionPolicy::new refuses a zero deadline.
ASSUME ShadowAssumption ==
  /\ Capacity \in Nat \ {0}
  /\ PrimaryLimits \subseteq Nat \cup {Unlimited}
  /\ ShadowDeadlines \subseteq Nat \ {0}
  /\ \A policy \in RetryPolicies : policy.max_attempts \in Nat
  /\ {LatestDispatch, Horizon} \subseteq Nat

VARIABLES
  now,
  primary,    \* the limit of the primary's budget
  shadow,     \* what each shadow's future holds
  cancelled   \* the shadows whose owner has signalled cancellation

vars == <<now, primary, shadow, cancelled>>

Outcomes == {"Succeeded", "Overloaded", "Cancelled", "DeadlineExceeded", "Failed"}

Planned ==
  [pc |-> "planned", policy |-> NoRetry, deadline |-> 1, opened |-> 0, limit |-> 0,
   attempt |-> 0, timer |-> Unlimited, wake |-> Unlimited, answer |-> "none",
   outcome |-> "none"]

Init ==
  /\ now = 0
  /\ primary \in PrimaryLimits
  /\ shadow = [s \in Shadows |-> Planned]
  /\ cancelled = {}

-----------------------------------------------------------------------------
(* ShadowExecutionPolicy *)

BadEffectiveDeadline(deadline, primary_remaining) == deadline

EffectiveDeadline(deadline, primary_remaining) == Least(deadline, primary_remaining)

\* next_retry_delay() compares with the policy's own deadline: a sleep up to it, or
\* beyond the primary's, is admitted here and left to sleep_backoff.
NextRetryDelay(q, elapsed, retryable) ==
  IF q.policy = NoRetry THEN {None}
  ELSE {IF delay # None /\ Plus(elapsed, delay) <= q.deadline
        THEN delay ELSE None : delay \in NextDelay(q.policy, q.attempt, elapsed, retryable)}

-----------------------------------------------------------------------------
Elapsed(q) == now - q.opened
Deadline(q) == q.opened + q.limit

Set(s, q) == shadow' = [shadow EXCEPT ![s] = q]

\* The future is dropped with whatever it holds, its permit included.
Ended(q, outcome) ==
  [q EXCEPT !.pc = "ended", !.outcome = outcome, !.timer = Unlimited,
            !.wake = Unlimited, !.answer = "none"]

Running == {s \in Shadows : shadow[s].pc \notin {"planned", "ended"}}

Tick == now < Horizon /\ now' = now + 1 /\ UNCHANGED <<primary, shadow, cancelled>>

\* The adapter takes a slot and opens the budget; without a slot the shadow is over.
Dispatch(s) ==
  /\ shadow[s].pc = "planned" /\ now <= LatestDispatch
  /\ \/ /\ Cardinality(Running) >= Capacity
        /\ Set(s, Ended(shadow[s], "Overloaded"))
     \/ /\ Cardinality(Running) < Capacity
        /\ \E deadline \in ShadowDeadlines, policy \in RetryPolicies :
             LET remaining == IF primary = Unlimited THEN DurationMax
                              ELSE Remaining(primary, now)
             IN Set(s, [shadow[s] EXCEPT
                          !.pc = "created", !.policy = policy, !.deadline = deadline,
                          !.opened = now, !.limit = EffectiveDeadline(deadline, remaining)])
  /\ UNCHANGED <<now, primary, cancelled>>

Cancel(s) ==
  /\ s \in Running
  /\ cancelled' = cancelled \cup {s}
  /\ UNCHANGED <<now, primary, shadow>>

\* The shadow's transport, between polls.
Answer(s) ==
  /\ shadow[s].pc = "calling" /\ shadow[s].answer = "none"
  /\ \E answer \in {"ok", "retry", "fatal"} : Set(s, [shadow[s] EXCEPT !.answer = answer])
  /\ UNCHANGED <<now, primary, cancelled>>

\* select! is biased: every poll looks at the cancellation first.
Cancelled(s) ==
  /\ s \in Running \cap cancelled
  /\ Set(s, Ended(shadow[s], "Cancelled"))

BadUncancelled(s) == s \in Running  \* select! without `biased'

Uncancelled(s) == s \in Running \ cancelled

BadStart(s) ==  \* only the transport's own deadline, if any
  /\ Uncancelled(s) /\ shadow[s].pc = "created"
  /\ Set(s, IF IsExhausted(shadow[s].limit, Elapsed(shadow[s]))
            THEN Ended(shadow[s], "DeadlineExceeded")
            ELSE [shadow[s] EXCEPT !.pc = "calling", !.attempt = 1])

\* The first poll of timeout(): an exhausted budget starts nothing.
Start(s) ==
  LET q == shadow[s]
  IN /\ Uncancelled(s) /\ q.pc = "created"
     /\ Set(s, IF IsExhausted(q.limit, Elapsed(q)) THEN Ended(q, "DeadlineExceeded")
               ELSE [q EXCEPT !.pc = "calling", !.attempt = 1,
                              !.timer = now + ClampChild(q.limit, Elapsed(q), q.deadline)])

\* The transport's answer, looked at before the timer, and what the adapter does with
\* an error: the next delay, and sleep_backoff's own test of it.
Answered(s) ==
  LET q == shadow[s]
  IN /\ Uncancelled(s) /\ q.answer # "none"
     /\ IF q.answer = "ok" THEN Set(s, Ended(q, "Succeeded"))
        ELSE \E delay \in NextRetryDelay(q, Elapsed(q), q.answer = "retry") :
               Set(s, IF delay = None \/ ~CanWait(q.limit, Elapsed(q), delay)
                      THEN Ended(q, "Failed")
                      ELSE [q EXCEPT !.pc = "sleeping", !.answer = "none",
                                     !.wake = now + delay])

Due(instant) == instant # Unlimited /\ instant <= now

\* The sleep is over, maybe long over: sleep_backoff tests the budget again, and the
\* next attempt begins in the same poll.
Woken(s) ==
  LET q == shadow[s]
  IN /\ Uncancelled(s) /\ q.pc = "sleeping" /\ Due(q.wake)
     /\ Set(s, IF IsExhausted(q.limit, Elapsed(q)) THEN Ended(q, "DeadlineExceeded")
               ELSE [q EXCEPT !.pc = "calling", !.wake = Unlimited, !.attempt = @ + 1])

\* Nothing inside is ready and the timer has fired.
TimedOut(s) ==
  LET q == shadow[s]
  IN /\ Uncancelled(s) /\ Due(q.timer) /\ q.answer = "none" /\ ~Due(q.wake)
     /\ Set(s, Ended(q, "DeadlineExceeded"))

Poll(s) ==
  /\ Cancelled(s) \/ Start(s) \/ Answered(s) \/ Woken(s) \/ TimedOut(s)
  /\ UNCHANGED <<now, primary, cancelled>>

Next == Tick \/ \E s \in Shadows : Dispatch(s) \/ Cancel(s) \/ Answer(s) \/ Poll(s)

Spec == Init /\ [][Next]_vars

\* Time passes, and the executor polls a future whose wake-up is due.
FairSpec == Spec /\ WF_vars(Tick) /\ \A s \in Shadows : WF_vars(Poll(s))

-----------------------------------------------------------------------------
Futures ==
  [pc : {"planned", "created", "calling", "sleeping", "ended"},
   policy : RetryPolicies \cup {NoRetry}, deadline : Nat, opened : Nat, limit : Nat,
   attempt : Nat, timer : Nat \cup {Unlimited}, wake : Nat \cup {Unlimited},
   answer : {"none", "ok", "retry", "fatal"}, outcome : Outcomes \cup {"none"}]

\* The type invariant; no duration of a shadow is without limit.
TypeOK ==
  /\ now \in 0 .. Horizon
  /\ primary \in PrimaryLimits
  /\ shadow \in [Shadows -> Futures]
  /\ cancelled \subseteq Shadows

\* No attempt of a shadow begins at or after its own deadline or the primary's, which
\* bounds it, however late the executor polls and whatever next_retry_delay allows;
\* and every wait of a running shadow ends by then.
AttemptsWithinDeadline ==
  [][\A s \in Shadows :
       LET q == shadow'[s]
       IN /\ q.attempt > shadow[s].attempt =>
               /\ now < q.opened + q.deadline
               /\ primary # Unlimited => now < primary
          /\ q.pc \in {"calling", "sleeping"} =>
               /\ q.timer # Unlimited /\ q.timer <= q.opened + q.deadline
               /\ primary # Unlimited => q.timer <= primary
               /\ q.pc = "sleeping" => q.wake < q.timer]_vars

\* A shadow's outcome is what happened to it: cancelled exactly if its owner had
\* asked before the poll, even if it was also answered or late; out of time only once
\* its deadline has come; overloaded only if every slot was taken; and a transport's
\* verdict only if the transport gave it.
OutcomesTrue ==
  [][\A s \in Shadows :
       LET q == shadow[s]
           outcome == shadow'[s].outcome
       IN q.pc # "ended" /\ shadow'[s].pc = "ended" =>
            /\ outcome = "Cancelled" <=> s \in cancelled
            /\ outcome = "DeadlineExceeded" => now >= Deadline(q)
            /\ outcome = "Overloaded" => Cardinality(Running) = Capacity
            /\ outcome = "Succeeded" => q.answer = "ok"
            /\ outcome = "Failed" => q.answer \in {"retry", "fatal"}]_vars

\* A dispatched shadow ends and gives its slot back, whatever its transport does or
\* does not do, and also if the primary has no deadline.
ShadowsEnd == \A s \in Shadows : (s \in Running) ~> (shadow[s].pc = "ended")
=============================================================================
