----------------------------- MODULE TowerRetry -----------------------------
(***************************************************************************)
(* TowerRetryService of tower_adapter.rs with the budget of                *)
(* tokio_runtime.rs: requests that share one service handle, each a future *)
(* that the executor polls.  A poll runs without interruption to its next  *)
(* await; the inner service's answers, the timers and the caller's drop    *)
(* happen between polls, and a poll may come any time after its wake-up.   *)
(* Both of the code's clocks (std and Tokio Instant) are `now'.            *)
(***************************************************************************)
EXTENDS Backoff

CONSTANTS
  Requests,
  Limits, AttemptTimeouts,  \* what a TowerRequestFactory may carry
  MaxAttempts, MaxElapsed,  \* RetryPolicy
  Initial, Maximum, Factor, Jitter,  \* ExponentialBackoff
  LatestCall,  \* bound: no request is called after this instant
  Horizon      \* bound: the clock stops here

ASSUME TowerAssumption ==
  /\ Limits \subseteq Nat \cup {Unlimited}
  /\ AttemptTimeouts \subseteq Nat
  /\ MaxAttempts \in Nat \ {0}
  /\ MaxElapsed \in 0 .. DurationMax \cup {Unlimited}
  /\ {Initial, Factor} \subseteq Nat \ {0}
  /\ Maximum \in Nat /\ Maximum >= Initial
  /\ Jitter \in {"None", "Full", "Equal"}
  /\ {LatestCall, Horizon} \subseteq Nat /\ LatestCall <= Horizon

policy ==
  [max_attempts |-> MaxAttempts, max_elapsed |-> MaxElapsed, initial |-> Initial,
   maximum |-> Maximum, factor |-> Factor, jitter |-> Jitter]

Stops == {"LogicalDeadlineExceeded", "ChildTimeout", "BackoffWouldExhaustBudget"}
Results == Stops \cup {"Ok", "Call", "Readiness", "Cancelled"}
Places == {"idle", "created", "calling", "sleeping", "readying", "done"}
Answers == {"none", "ok", "retry", "fatal", "ready", "error"}

VARIABLES
  now,
  ready,   \* readiness observed on the handle's `inner' and not yet used
  request  \* per request: its factory and the locals of its future

vars == <<now, ready, request>>

NoRequest ==
  [pc |-> "idle", opened |-> 0, limit |-> Unlimited, requested |-> 0,
   started |-> 0, attempt |-> 0, timer |-> Unlimited, stop |-> "ChildTimeout",
   answer |-> "none", result |-> "none",
   permits |-> 0, calls |-> 0]  \* permits: Ready results of the future's own instance

Init ==
  /\ now = 0
  /\ ready = FALSE
  /\ request = [r \in Requests |-> NoRequest]

Elapsed(q) == now - q.opened

Ended(q, result) == [q EXCEPT !.pc = "done", !.result = result, !.timer = Unlimited,
                              !.answer = "none"]

BadStopReason(q) ==  \* a timeout equal to the remainder counts as the child's
  IF q.limit # Unlimited /\ Remaining(q.limit, Elapsed(q)) < q.requested
  THEN "LogicalDeadlineExceeded" ELSE "ChildTimeout"

\* What an expiry of the clamped timeout will be called.
StopReason(q) ==
  IF q.limit # Unlimited /\ Remaining(q.limit, Elapsed(q)) <= q.requested
  THEN "LogicalDeadlineExceeded" ELSE "ChildTimeout"

\* The head of the loop: timeout() and the first poll of `call' inside it.
StartAttempt(q) ==
  IF IsExhausted(q.limit, Elapsed(q)) THEN Ended(q, "LogicalDeadlineExceeded")
  ELSE [q EXCEPT !.pc = "calling", !.answer = "none", !.calls = @ + 1,
                 !.timer = now + ClampChild(q.limit, Elapsed(q), q.requested),
                 !.stop = StopReason(q)]

\* The Err branch up to sleep_backoff's await.
CallFailed(q, delay) ==
  IF delay = None THEN Ended(q, "Call")
  ELSE IF ~CanWait(q.limit, Elapsed(q), delay) THEN Ended(q, "BackoffWouldExhaustBudget")
  ELSE [q EXCEPT !.pc = "sleeping", !.answer = "none", !.timer = now + delay]

BadAwaken(q) ==  \* readiness awaited without the budget
  IF IsExhausted(q.limit, Elapsed(q)) THEN Ended(q, "LogicalDeadlineExceeded")
  ELSE [q EXCEPT !.pc = "readying", !.attempt = @ + 1, !.timer = Unlimited,
                 !.stop = "LogicalDeadlineExceeded"]

\* After the sleep: the second check, then readiness within what remains.
Awaken(q) ==
  IF IsExhausted(q.limit, Elapsed(q)) THEN Ended(q, "LogicalDeadlineExceeded")
  ELSE [q EXCEPT !.pc = "readying", !.attempt = @ + 1,
                 !.timer = IF q.limit = Unlimited THEN Unlimited
                           ELSE now + Remaining(q.limit, Elapsed(q)),
                 !.stop = "LogicalDeadlineExceeded"]

-----------------------------------------------------------------------------
Set(r, q) == request' = [request EXCEPT ![r] = q]

Tick == now < Horizon /\ now' = now + 1 /\ UNCHANGED <<ready, request>>

\* The caller's poll_ready on the handle; an error or Pending changes nothing.
PollReady == ready' = TRUE /\ UNCHANGED <<now, request>>

\* Service::call, by a caller that keeps Tower's contract and may have opened the
\* budget earlier.  The future takes the instance that is ready, and the handle
\* keeps a clone that is not.
Called(r, opened, limit, requested, permits) ==
  Set(r, [NoRequest EXCEPT !.pc = "created", !.opened = opened, !.limit = limit,
                           !.requested = requested, !.permits = permits])

BadCall(r) ==  \* the future takes the clone
  /\ request[r].pc = "idle" /\ ready /\ now <= LatestCall
  /\ \E opened \in 0 .. now, limit \in Limits, requested \in AttemptTimeouts :
       Called(r, opened, limit, requested, 0)
  /\ UNCHANGED <<now, ready>>

Call(r) ==
  /\ request[r].pc = "idle" /\ ready /\ now <= LatestCall
  /\ \E opened \in 0 .. now, limit \in Limits, requested \in AttemptTimeouts :
       Called(r, opened, limit, requested, 1)
  /\ ready' = FALSE
  /\ UNCHANGED now

\* The same by a request that is not in Requests: it takes the ready instance.
CallElsewhere == ready' = FALSE /\ UNCHANGED <<now, request>>

\* The inner service, between polls.
Answer(r) ==
  /\ request[r].answer = "none"
  /\ \E answer \in CASE request[r].pc = "calling" -> {"ok", "retry", "fatal"}
                     [] request[r].pc = "readying" -> {"ready", "error"}
                     [] OTHER -> {} :
       request' = [request EXCEPT ![r].answer = answer]
  /\ UNCHANGED <<now, ready>>

FirstPoll(r) ==
  /\ request[r].pc = "created"
  /\ Set(r, StartAttempt([request[r] EXCEPT !.started = now, !.attempt = 1]))
  /\ UNCHANGED <<now, ready>>

\* tokio::time::timeout polls the call before its timer: an answer that arrived
\* after the deadline, but before the poll, still counts.
Completed(r) ==
  /\ request[r].pc = "calling" /\ request[r].answer # "none"
  /\ LET q == request[r]
     IN IF q.answer = "ok" THEN Set(r, Ended(q, "Ok"))
        ELSE \E delay \in NextDelay(policy, q.attempt, now - q.started, q.answer = "retry") :
               Set(r, CallFailed(q, delay))
  /\ UNCHANGED <<now, ready>>

Due(q) == q.timer # Unlimited /\ q.timer <= now

TimedOut(r) ==
  /\ request[r].pc \in {"calling", "readying"}
  /\ request[r].answer = "none" /\ Due(request[r])
  /\ Set(r, Ended(request[r], request[r].stop))
  /\ UNCHANGED <<now, ready>>

Woken(r) ==
  /\ request[r].pc = "sleeping" /\ Due(request[r])
  /\ Set(r, Awaken(request[r]))
  /\ UNCHANGED <<now, ready>>

\* Readiness resolved: the loop starts over in the same poll.
Readied(r) ==
  /\ request[r].pc = "readying" /\ request[r].answer # "none"
  /\ LET q == request[r]
     IN Set(r, IF q.answer = "error" THEN Ended(q, "Readiness")
               ELSE StartAttempt([q EXCEPT !.permits = @ + 1]))
  /\ UNCHANGED <<now, ready>>

\* The caller drops the future; nothing was spawned that could outlive it.
Cancel(r) ==
  /\ request[r].pc \notin {"idle", "done"}
  /\ Set(r, Ended(request[r], "Cancelled"))
  /\ UNCHANGED <<now, ready>>

Poll(r) == FirstPoll(r) \/ Completed(r) \/ TimedOut(r) \/ Woken(r) \/ Readied(r)

Next ==
  \/ Tick
  \/ PollReady
  \/ CallElsewhere
  \/ \E r \in Requests : Call(r) \/ Answer(r) \/ Poll(r) \/ Cancel(r)

Spec == Init /\ [][Next]_vars

\* Time passes, and the executor polls a future whose wake-up is due.
FairSpec == Spec /\ WF_vars(Tick) /\ \A r \in Requests : WF_vars(Poll(r))

-----------------------------------------------------------------------------
Futures ==
  [pc : Places, opened : Nat, limit : Limits \cup {Unlimited},
   requested : AttemptTimeouts \cup {0}, started : Nat, attempt : 0 .. MaxAttempts,
   timer : Nat \cup {Unlimited}, stop : Stops, answer : Answers,
   result : Results \cup {"none"}, permits : 0 .. MaxAttempts, calls : 0 .. MaxAttempts]

\* The type invariant; no request attempts or calls more often than the policy allows.
TypeOK ==
  /\ now \in 0 .. Horizon
  /\ ready \in BOOLEAN
  /\ request \in [Requests -> Futures]

Bounded(q) == q.limit # Unlimited
Deadline(q) == q.opened + q.limit

\* Whatever a bounded request waits for ends by its deadline, and a backoff sleep
\* strictly before it and within max_elapsed, so that an attempt can follow.
WaitsWithinBudget ==
  \A r \in Requests :
    LET q == request[r]
    IN /\ Bounded(q) /\ q.pc \in {"calling", "sleeping", "readying"} =>
            q.timer # Unlimited /\ q.timer <= Deadline(q)
       /\ q.pc = "sleeping" =>
            /\ Bounded(q) => q.timer < Deadline(q)
            /\ Limiting(MaxElapsed) => q.timer <= q.started + MaxElapsed

\* No physical call is made at or after the logical deadline, however late the
\* executor wakes the future.
NoCallAfterDeadline ==
  [][\A r \in Requests :
       request'[r].calls > request[r].calls /\ Bounded(request'[r]) =>
         now < Deadline(request'[r])]_vars

\* Each physical call uses a readiness observed on the very instance it is made on,
\* once: mem::replace hands over the ready instance, and a retry polls again.
EveryCallReady == \A r \in Requests : request[r].calls <= request[r].permits

\* A stop reason is the truth: the logical deadline is blamed only once reached, and
\* a child's timeout only when it came first.
StopReasonTrue ==
  [][\A r \in Requests :
       LET q == request[r]
       IN /\ q.pc # "done" /\ request'[r].result = "LogicalDeadlineExceeded" =>
               Bounded(q) /\ now >= Deadline(q)
          /\ q.pc # "done" /\ request'[r].result = "ChildTimeout" /\ Bounded(q) =>
               q.timer < Deadline(q)]_vars

\* A request with a logical deadline ends, whatever its service does or does not do.
BoundedRequestsEnd ==
  \A r \in Requests :
    (request[r].pc # "idle" /\ Bounded(request[r])) ~> (request[r].pc = "done")
=============================================================================
