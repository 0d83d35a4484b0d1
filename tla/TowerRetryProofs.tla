--------------------------- MODULE TowerRetryProofs ---------------------------
(***************************************************************************)
(* Proofs about TowerRetry for any requests, limits, timeouts and policy,  *)
(* and without a bound on the clock.  A step moves one request or the      *)
(* clock, so the invariant is one of each future.                          *)
(***************************************************************************)
EXTENDS TowerRetry, TLAPS

\* Readiness, calls and attempts in step: a call for each readiness used, and an
\* attempt ahead only while its readiness is awaited.
Counted(q) ==
  /\ q.calls <= q.permits
  /\ q.pc = "created" => q.permits = 1 /\ q.calls = 0
  /\ q.pc \in {"calling", "sleeping"} => q.permits = q.attempt /\ q.calls = q.attempt
  /\ q.pc = "sleeping" => q.attempt < MaxAttempts
  /\ q.pc = "readying" => q.permits = q.attempt - 1 /\ q.calls = q.attempt - 1

\* What a future waits for ends in time.
InTime(q) ==
  /\ Bounded(q) /\ q.pc \in {"calling", "sleeping", "readying"} =>
       q.timer # Unlimited /\ q.timer <= Deadline(q)
  /\ q.pc = "sleeping" =>
       /\ Bounded(q) => q.timer < Deadline(q)
       /\ Limiting(MaxElapsed) => q.timer <= q.started + MaxElapsed

\* The reason a timer would give is the reason for its instant.
Truthful(q) ==
  /\ q.pc # "done" => q.result = "none"
  /\ q.pc \in {"calling", "readying"} /\ q.timer # Unlimited =>
       /\ q.stop = "LogicalDeadlineExceeded" => Bounded(q) /\ q.timer = Deadline(q)
       /\ q.stop = "ChildTimeout" /\ Bounded(q) => q.timer < Deadline(q)

Sound(q) == Counted(q) /\ InTime(q) /\ Truthful(q)

\* No future comes from later than now.
Past(q) == q.opened <= now /\ q.started <= now

Inv == TypeOK /\ \A r \in Requests : Sound(request[r]) /\ Past(request[r])

\* What the step of one future from q to p may and must do: NoCallAfterDeadline and
\* StopReasonTrue for that future, and the invariant for what it becomes.
Move(q, p) ==
  /\ p \in Futures /\ Sound(p) /\ Past(p)
  /\ p.calls > q.calls /\ Bounded(p) => now < Deadline(p)
  /\ p.result = "LogicalDeadlineExceeded" => Bounded(q) /\ now >= Deadline(q)
  /\ p.result = "ChildTimeout" /\ Bounded(q) => q.timer < Deadline(q)

-----------------------------------------------------------------------------
(* The operators.                                                          *)

\* What the fields of a future range over, in numbers.
LEMMA FutureTypes ==
  ASSUME NEW q \in Futures
  PROVE  /\ q.opened \in Nat /\ q.started \in Nat /\ q.requested \in Nat
         /\ q.limit \in Nat \cup {Unlimited} /\ q.timer \in Nat \cup {Unlimited}
         /\ q.attempt \in 0 .. MaxAttempts /\ q.permits \in 0 .. MaxAttempts
         /\ q.calls \in 0 .. MaxAttempts /\ MaxAttempts \in Nat
<1>1. /\ AttemptTimeouts \subseteq Nat /\ Limits \subseteq Nat \cup {Unlimited}
      /\ MaxAttempts \in Nat
  BY TowerAssumption
<1>2. AttemptTimeouts \cup {0} \subseteq Nat
  BY <1>1
<1>3. Limits \cup {Unlimited} \subseteq Nat \cup {Unlimited}
  BY <1>1
<1>4. /\ q.opened \in Nat /\ q.started \in Nat /\ q.requested \in AttemptTimeouts \cup {0}
      /\ q.limit \in Limits \cup {Unlimited} /\ q.timer \in Nat \cup {Unlimited}
      /\ q.attempt \in 0 .. MaxAttempts /\ q.permits \in 0 .. MaxAttempts
      /\ q.calls \in 0 .. MaxAttempts
  BY DEF Futures
<1> QED BY <1>1, <1>2, <1>3, <1>4, Zenon

\* A further attempt is admitted only to a retryable failure, below max_attempts, and
\* with a sleep that ends within max_elapsed.
LEMMA NextDelayBounds ==
  ASSUME NEW attempt \in Nat, NEW elapsed \in Int, NEW retryable \in BOOLEAN,
         NEW delay \in NextDelay(policy, attempt, elapsed, retryable), delay # None
  PROVE  /\ delay \in Nat
         /\ attempt < MaxAttempts
         /\ Limiting(MaxElapsed) => elapsed + delay <= MaxElapsed
<1>1. PICK cap : delay \in Delays(cap, policy.jitter)
  BY DEF NextDelay
<1>2. delay \in Nat
  BY <1>1 DEF Delays
<1>3. ~(attempt >= MaxAttempts)
  BY DEF NextDelay, policy
<1>4. Limiting(MaxElapsed) => ~(Plus(elapsed, delay) > MaxElapsed)
  BY DEF NextDelay, policy, Limiting
<1>5. ASSUME Limiting(MaxElapsed) PROVE elapsed + delay <= MaxElapsed
  <2>1. MaxElapsed \in Nat /\ MaxElapsed < DurationMax /\ DurationMax \in Nat
    BY <1>5, TowerAssumption, WidthAssumption DEF Limiting
  <2> QED BY <1>2, <1>4, <1>5, <2>1 DEF Plus, Least
<1> QED BY <1>2, <1>3, <1>5, TowerAssumption DEF Unlimited

\* A future that has ended waits for nothing; its result is the caller's to justify.
LEMMA EndedMove ==
  ASSUME NEW q \in Futures, NEW result \in Results, q.calls <= q.permits, Past(q),
         result = "LogicalDeadlineExceeded" => Bounded(q) /\ now >= Deadline(q),
         result = "ChildTimeout" /\ Bounded(q) => q.timer < Deadline(q)
  PROVE  Move(q, Ended(q, result))
<1> DEFINE p == Ended(q, result)
<1>1. p \in Futures
  BY DEF Ended, Futures, Results, Places, Answers, Unlimited
<1>2. /\ p.pc = "done" /\ p.calls = q.calls /\ p.permits = q.permits
      /\ p.result = result /\ p.opened = q.opened /\ p.started = q.started
  BY DEF Ended, Futures
<1> HIDE DEF p
<1>3. Sound(p)
  BY <1>1, <1>2 DEF Futures, Sound, Counted, InTime, Truthful
<1>4. Past(p)
  BY <1>2 DEF Past
<1>5. ~(p.calls > q.calls)
  BY <1>2, FutureTypes
<1> QED BY <1>1, <1>2, <1>3, <1>4, <1>5 DEF p, Move

\* What the three timeouts are made of.
LEMMA Clamped ==
  ASSUME NEW limit \in Nat, NEW elapsed \in Nat, NEW requested \in Nat, elapsed < limit
  PROVE  /\ Remaining(limit, elapsed) = limit - elapsed
         /\ ClampChild(limit, elapsed, requested) \in Nat
         /\ limit - elapsed <= requested =>
              ClampChild(limit, elapsed, requested) = limit - elapsed
         /\ requested < limit - elapsed => ClampChild(limit, elapsed, requested) = requested
BY DEF ClampChild, Remaining, Minus, Least, Unlimited

\* An attempt that starts has budget left, and its timer ends by the deadline.
LEMMA StartAttemptMove ==
  ASSUME NEW q \in Futures, now \in Nat, Past(q), q.attempt >= 1, q.permits = q.attempt,
         q.calls = q.attempt - 1, q.result = "none"
  PROVE  Move(q, StartAttempt(q))
<1> DEFINE e == Elapsed(q)
<1>1. /\ q.opened \in Nat /\ q.requested \in Nat /\ q.limit \in Nat \cup {Unlimited}
      /\ q.attempt \in 1 .. MaxAttempts /\ q.permits \in Nat /\ q.calls \in Nat
      /\ MaxAttempts \in Nat
  BY FutureTypes
<1>2. e = now - q.opened /\ e \in Nat
  BY <1>1 DEF Elapsed, Past
<1> HIDE DEF e
<1>3. CASE IsExhausted(q.limit, e)
  <2>1. q.calls <= q.permits /\ "LogicalDeadlineExceeded" \in Results
    BY <1>1 DEF Results, Stops
  <2>2. StartAttempt(q) = Ended(q, "LogicalDeadlineExceeded")
    BY <1>3 DEF StartAttempt, e
  <2>3. Bounded(q) /\ now >= Deadline(q)
    BY <1>1, <1>2, <1>3 DEF IsExhausted, Bounded, Deadline
  <2> QED BY <2>1, <2>2, <2>3, EndedMove
<1>4. CASE ~IsExhausted(q.limit, e)
  <2> DEFINE c == ClampChild(q.limit, e, q.requested)
             stop == StopReason(q)
             calls == q.calls + 1
             timer == now + c
             p == [q EXCEPT !.pc = "calling", !.answer = "none", !.calls = calls,
                            !.timer = timer, !.stop = stop]
  <2>1. StartAttempt(q) = p
    BY <1>4 DEF StartAttempt, e
  <2>2. /\ c \in Nat
        /\ stop \in {"LogicalDeadlineExceeded", "ChildTimeout"}
        /\ q.limit # Unlimited =>
             /\ c <= q.limit - e
             /\ stop = "LogicalDeadlineExceeded" => c = q.limit - e
             /\ stop = "ChildTimeout" => c < q.limit - e
        /\ q.limit = Unlimited => stop = "ChildTimeout"
    <3>1. CASE q.limit = Unlimited
      BY <1>1, <3>1 DEF ClampChild, StopReason
    <3>2. CASE q.limit # Unlimited
      <4>1. q.limit \in Nat /\ e < q.limit
        BY <1>1, <1>2, <1>4, <3>2 DEF IsExhausted
      <4>2. /\ Remaining(q.limit, e) = q.limit - e
            /\ c \in Nat
            /\ q.limit - e <= q.requested => c = q.limit - e
            /\ q.requested < q.limit - e => c = q.requested
        BY <1>1, <1>2, <4>1, Clamped, Zenon
      <4>3. stop = IF q.limit - e <= q.requested
                   THEN "LogicalDeadlineExceeded" ELSE "ChildTimeout"
        BY <3>2, <4>2 DEF StopReason, e
      <4> HIDE DEF c, stop
      <4> QED BY <1>1, <1>2, <3>2, <4>1, <4>2, <4>3
    <3> QED BY <3>1, <3>2
  <2>3. calls \in 0 .. MaxAttempts /\ calls = q.attempt /\ timer \in Nat /\ timer = now + c
    BY <1>1, <2>2
  <2> HIDE DEF c, stop, calls, timer
  <2>4. p \in Futures
    <3>1. "calling" \in Places /\ "none" \in Answers /\ stop \in Stops
      BY <2>2 DEF Places, Answers, Stops
    <3> QED BY <2>3, <3>1 DEF Futures
  <2>5. /\ p.pc = "calling" /\ p.calls = q.attempt /\ p.permits = q.attempt
        /\ p.attempt = q.attempt /\ p.timer = timer /\ p.stop = stop
        /\ p.limit = q.limit /\ p.opened = q.opened /\ p.started = q.started
        /\ p.result = q.result
    BY <2>3 DEF Futures
  <2> HIDE DEF p
  <2>6. Sound(p)
    <3>1. Counted(p)
      BY <1>1, <2>5 DEF Counted
    <3>2. /\ Bounded(p) <=> q.limit # Unlimited
          /\ Deadline(p) = q.opened + q.limit
      BY <2>5 DEF Bounded, Deadline
    <3>3. timer # Unlimited /\ (Bounded(p) => q.limit \in Nat)
      BY <1>1, <2>3, <3>2 DEF Unlimited
    <3>4. Bounded(p) => timer <= Deadline(p)
      BY <1>1, <1>2, <2>2, <2>3, <3>2, <3>3
    <3>5. InTime(p)
      BY <2>5, <3>3, <3>4 DEF InTime
    <3>6. /\ stop = "LogicalDeadlineExceeded" => Bounded(p) /\ timer = Deadline(p)
          /\ stop = "ChildTimeout" /\ Bounded(p) => timer < Deadline(p)
      BY <1>1, <1>2, <2>2, <2>3, <3>2, <3>3
    <3>7. Truthful(p)
      BY <2>5, <3>6 DEF Truthful
    <3> QED BY <3>1, <3>5, <3>7 DEF Sound
  <2>7. Past(p)
    BY <2>5 DEF Past
  <2>8. Bounded(p) => now < Deadline(p)
    BY <1>1, <1>2, <1>4, <2>5 DEF IsExhausted, Bounded, Deadline
  <2> QED BY <2>1, <2>4, <2>5, <2>6, <2>7, <2>8 DEF Move
<1> QED BY <1>3, <1>4

\* The sleep before a further attempt ends within the budget and max_elapsed.
LEMMA CallFailedMove ==
  ASSUME NEW q \in Futures, now \in Nat, Past(q), Sound(q), q.pc = "calling",
         NEW delay \in NextDelay(policy, q.attempt, now - q.started, q.answer = "retry")
  PROVE  Move(q, CallFailed(q, delay))
<1> DEFINE e == Elapsed(q)
<1>1. /\ q.opened \in Nat /\ q.started \in Nat /\ q.limit \in Nat \cup {Unlimited}
      /\ q.attempt \in Nat /\ q.permits \in Nat /\ q.calls \in Nat
  BY FutureTypes
<1>2. e = now - q.opened /\ e \in Nat
  BY <1>1 DEF Elapsed, Past
<1>3. q.permits = q.attempt /\ q.calls = q.attempt /\ q.result = "none"
  BY DEF Sound, Counted, Truthful
<1> HIDE DEF e
<1>4. CASE delay = None \/ ~CanWait(q.limit, e, delay)
  <2>1. \E result \in {"Call", "BackoffWouldExhaustBudget"} : CallFailed(q, delay) = Ended(q, result)
    BY <1>4 DEF CallFailed, e
  <2>2. q.calls <= q.permits
    BY <1>1, <1>3
  <2>3. \A result \in {"Call", "BackoffWouldExhaustBudget"} :
          /\ result \in Results
          /\ result # "LogicalDeadlineExceeded" /\ result # "ChildTimeout"
    BY DEF Results, Stops
  <2> QED BY <2>1, <2>2, <2>3, EndedMove
<1>5. CASE delay # None /\ CanWait(q.limit, e, delay)
  <2> DEFINE timer == now + delay
             p == [q EXCEPT !.pc = "sleeping", !.answer = "none", !.timer = timer]
  <2>1. CallFailed(q, delay) = p
    BY <1>5 DEF CallFailed, e
  <2>2. /\ delay \in Nat
        /\ q.attempt < MaxAttempts
        /\ Limiting(MaxElapsed) => (now - q.started) + delay <= MaxElapsed
    <3> DEFINE retryable == q.answer = "retry"
               elapsed == now - q.started
    <3>1. retryable \in BOOLEAN /\ elapsed \in Int
      BY <1>1
    <3>2. delay \in NextDelay(policy, q.attempt, elapsed, retryable)
      OBVIOUS
    <3> HIDE DEF retryable, elapsed
    <3>3. /\ delay \in Nat
          /\ q.attempt < MaxAttempts
          /\ Limiting(MaxElapsed) => elapsed + delay <= MaxElapsed
      BY <1>1, <1>5, <3>1, <3>2, NextDelayBounds
    <3> QED BY <3>3 DEF elapsed
  <2>3. timer \in Nat /\ timer = now + delay
    BY <2>2
  <2> HIDE DEF timer
  <2>4. p \in Futures
    <3>1. "sleeping" \in Places /\ "none" \in Answers
      BY DEF Places, Answers
    <3> QED BY <2>3, <3>1 DEF Futures
  <2>5. /\ p.pc = "sleeping" /\ p.calls = q.calls /\ p.permits = q.permits
        /\ p.attempt = q.attempt /\ p.timer = timer /\ p.limit = q.limit
        /\ p.opened = q.opened /\ p.started = q.started /\ p.result = q.result
    BY DEF Futures
  <2> HIDE DEF p
  <2>6. Counted(p)
    BY <1>1, <1>3, <2>2, <2>5 DEF Counted
  <2>7. Bounded(p) => timer < Deadline(p)
    <3> SUFFICES ASSUME Bounded(p) PROVE timer < Deadline(p)
      OBVIOUS
    <3>1. q.limit # Unlimited /\ q.limit \in Nat
      BY <1>1, <2>5 DEF Bounded
    <3>2. delay < Remaining(q.limit, e)
      BY <1>5, <3>1 DEF CanWait
    <3>3. delay < q.limit - e
      BY <1>2, <2>2, <3>1, <3>2 DEF Remaining, Minus
    <3> QED BY <1>1, <1>2, <2>2, <2>3, <2>5, <3>1, <3>3 DEF Deadline
  <2>8. timer # Unlimited
    BY <2>3 DEF Unlimited
  <2>9. Limiting(MaxElapsed) => timer <= q.started + MaxElapsed
    BY <1>1, <2>2, <2>3, TowerAssumption
  <2>10. InTime(p)
    BY <1>1, <2>3, <2>5, <2>7, <2>8, <2>9 DEF InTime, Deadline, Bounded
  <2>11. Truthful(p) /\ Past(p)
    BY <1>3, <2>5 DEF Truthful, Past
  <2>12. ~(p.calls > q.calls) /\ p.result = "none"
    BY <1>1, <1>3, <2>5
  <2> QED BY <2>1, <2>4, <2>6, <2>10, <2>11, <2>12 DEF Move, Sound
<1> QED BY <1>4, <1>5

\* Readiness after a sleep is awaited exactly to the deadline.
LEMMA AwakenMove ==
  ASSUME NEW q \in Futures, now \in Nat, Past(q), Sound(q), q.pc = "sleeping"
  PROVE  Move(q, Awaken(q))
<1> DEFINE e == Elapsed(q)
<1>1. /\ q.opened \in Nat /\ q.started \in Nat /\ q.limit \in Nat \cup {Unlimited}
      /\ q.attempt \in Nat /\ q.permits \in Nat /\ q.calls \in Nat /\ MaxAttempts \in Nat
  BY FutureTypes
<1>2. e = now - q.opened /\ e \in Nat
  BY <1>1 DEF Elapsed, Past
<1>3. /\ q.permits = q.attempt /\ q.calls = q.attempt /\ q.attempt < MaxAttempts
      /\ q.result = "none"
  BY DEF Sound, Counted, Truthful
<1> HIDE DEF e
<1>4. CASE IsExhausted(q.limit, e)
  <2>1. Awaken(q) = Ended(q, "LogicalDeadlineExceeded")
    BY <1>4 DEF Awaken, e
  <2>2. q.calls <= q.permits /\ "LogicalDeadlineExceeded" \in Results
    BY <1>1, <1>3 DEF Results, Stops
  <2>3. Bounded(q) /\ now >= Deadline(q)
    BY <1>1, <1>2, <1>4 DEF IsExhausted, Bounded, Deadline
  <2> QED BY <2>1, <2>2, <2>3, EndedMove
<1>5. CASE ~IsExhausted(q.limit, e)
  <2> DEFINE attempt == q.attempt + 1
             timer == IF q.limit = Unlimited THEN Unlimited ELSE now + Remaining(q.limit, e)
             p == [q EXCEPT !.pc = "readying", !.attempt = attempt, !.timer = timer,
                            !.stop = "LogicalDeadlineExceeded"]
  <2>1. Awaken(q) = p
    BY <1>5 DEF Awaken, e
  <2>2. attempt \in 0 .. MaxAttempts /\ attempt - 1 = q.attempt
    BY <1>1, <1>3
  <2>3. /\ timer \in Nat \cup {Unlimited}
        /\ q.limit = Unlimited => timer = Unlimited
        /\ q.limit # Unlimited =>
             q.limit \in Nat /\ timer # Unlimited /\ timer = q.opened + q.limit
    <3>1. CASE q.limit = Unlimited
      BY <3>1
    <3>2. CASE q.limit # Unlimited
      <4>1. q.limit \in Nat /\ e < q.limit
        BY <1>1, <1>2, <1>5, <3>2 DEF IsExhausted
      <4>2. timer = now + (q.limit - e)
        BY <1>2, <3>2, <4>1 DEF Remaining, Minus
      <4> QED BY <1>1, <1>2, <3>2, <4>1, <4>2 DEF Unlimited
    <3> QED BY <3>1, <3>2
  <2> HIDE DEF attempt, timer
  <2>4. p \in Futures
    <3>1. "readying" \in Places /\ "LogicalDeadlineExceeded" \in Stops
      BY DEF Places, Stops
    <3> QED BY <2>2, <2>3, <3>1 DEF Futures
  <2>5. /\ p.pc = "readying" /\ p.calls = q.calls /\ p.permits = q.permits
        /\ p.attempt = attempt /\ p.timer = timer /\ p.limit = q.limit
        /\ p.opened = q.opened /\ p.started = q.started /\ p.result = q.result
        /\ p.stop = "LogicalDeadlineExceeded"
    BY DEF Futures
  <2> HIDE DEF p
  <2>6. Counted(p)
    BY <1>1, <1>3, <2>2, <2>5 DEF Counted
  <2>7. /\ Bounded(p) <=> q.limit # Unlimited
        /\ Deadline(p) = q.opened + q.limit
    BY <2>5 DEF Bounded, Deadline
  <2>8. InTime(p)
    BY <1>1, <2>3, <2>5, <2>7 DEF InTime
  <2>9. Truthful(p) /\ Past(p)
    BY <1>3, <2>3, <2>5, <2>7 DEF Truthful, Past
  <2>10. ~(p.calls > q.calls) /\ p.result = "none"
    BY <1>1, <1>3, <2>5
  <2> QED BY <2>1, <2>4, <2>6, <2>8, <2>9, <2>10 DEF Move, Sound
<1> QED BY <1>4, <1>5

-----------------------------------------------------------------------------
(* The steps.                                                              *)

LEMMA InitInv == Init => Inv
<1> SUFFICES ASSUME Init PROVE Inv
  OBVIOUS
<1>1. NoRequest \in Futures
  <2>1. 0 \in 0 .. MaxAttempts
    BY TowerAssumption
  <2>2. /\ "idle" \in Places /\ "ChildTimeout" \in Stops /\ "none" \in Answers
        /\ "none" \in Results \cup {"none"}
    BY DEF Places, Stops, Answers
  <2> QED BY <2>1, <2>2 DEF NoRequest, Futures
<1>2. Sound(NoRequest)
  BY DEF NoRequest, Sound, Counted, InTime, Truthful
<1>3. now = 0 /\ Past(NoRequest)
  BY DEF Init, Past, NoRequest
<1>4. TypeOK
  <2>1. Horizon \in Nat
    BY TowerAssumption
  <2>2. now \in 0 .. Horizon
    BY <1>3, <2>1
  <2> QED BY <1>1, <2>2 DEF Init, TypeOK
<1> QED BY <1>2, <1>3, <1>4 DEF Inv, Init

\* Service::call: the future holds the one readiness it was given.
LEMMA CallMove ==
  ASSUME Inv, NEW r \in Requests, Call(r)
  PROVE  \E p : Move(request[r], p) /\ request' = [request EXCEPT ![r] = p]
<1>1. PICK opened \in 0 .. now, limit \in Limits, requested \in AttemptTimeouts :
        Called(r, opened, limit, requested, 1)
  BY DEF Call
<1> DEFINE p == [NoRequest EXCEPT !.pc = "created", !.opened = opened, !.limit = limit,
                                  !.requested = requested, !.permits = 1]
<1>2. request' = [request EXCEPT ![r] = p]
  BY <1>1 DEF Called, Set
<1>3. now \in Nat /\ opened \in Nat /\ opened <= now
  BY <1>1, TowerAssumption DEF Inv, TypeOK
<1>4. p \in Futures
  <2>1. 0 \in 0 .. MaxAttempts /\ 1 \in 0 .. MaxAttempts
    BY TowerAssumption
  <2>2. /\ "created" \in Places /\ "ChildTimeout" \in Stops /\ "none" \in Answers
        /\ "none" \in Results \cup {"none"}
    BY DEF Places, Stops, Answers
  <2> QED BY <1>3, <2>1, <2>2 DEF NoRequest, Futures
<1>5. /\ p.pc = "created" /\ p.permits = 1 /\ p.calls = 0 /\ p.opened = opened
      /\ p.started = 0 /\ p.result = "none"
  BY DEF NoRequest
<1> HIDE DEF p
<1>6. Sound(p) /\ Past(p)
  BY <1>3, <1>5 DEF Sound, Counted, InTime, Truthful, Past
<1>7. ~(p.calls > request[r].calls)
  <2>1. request[r] \in Futures
    BY DEF Inv, TypeOK
  <2>2. request[r].calls \in Nat
    BY <2>1, FutureTypes
  <2> QED BY <1>5, <2>2
<1>8. Move(request[r], p)
  BY <1>4, <1>5, <1>6, <1>7 DEF Move
<1> QED BY <1>2, <1>8

\* An answer is left for the next poll.
LEMMA AnswerMove ==
  ASSUME Inv, NEW r \in Requests, Answer(r)
  PROVE  \E p : Move(request[r], p) /\ request' = [request EXCEPT ![r] = p]
<1> DEFINE q == request[r]
<1>1. q \in Futures /\ Sound(q) /\ Past(q) /\ q.calls \in Nat
  BY FutureTypes DEF Inv, TypeOK
<1>2. PICK answer : /\ request' = [request EXCEPT ![r].answer = answer]
                    /\ answer \in Answers
                    /\ q.pc \in {"calling", "readying"}
  <2>1. CASE q.pc = "calling"
    <3>1. PICK answer \in {"ok", "retry", "fatal"} :
            request' = [request EXCEPT ![r].answer = answer]
      BY <2>1 DEF Answer
    <3> QED BY <2>1, <3>1 DEF Answers
  <2>2. CASE q.pc = "readying"
    <3>1. PICK answer \in {"ready", "error"} :
            request' = [request EXCEPT ![r].answer = answer]
      BY <2>2 DEF Answer
    <3> QED BY <2>2, <3>1 DEF Answers
  <2>3. CASE q.pc # "calling" /\ q.pc # "readying"
    BY <2>3 DEF Answer
  <2> QED BY <2>1, <2>2, <2>3
<1> DEFINE p == [q EXCEPT !.answer = answer]
<1>3. request' = [request EXCEPT ![r] = p]
  BY <1>2
<1> HIDE DEF q
<1>4. p \in Futures
  BY <1>1, <1>2 DEF Futures
<1>5. /\ p.pc = q.pc /\ p.calls = q.calls /\ p.permits = q.permits /\ p.attempt = q.attempt
      /\ p.timer = q.timer /\ p.limit = q.limit /\ p.opened = q.opened
      /\ p.started = q.started /\ p.result = q.result /\ p.stop = q.stop
  BY <1>1 DEF Futures
<1> HIDE DEF p
<1>6. Counted(p)
  BY <1>1, <1>5 DEF Sound, Counted
<1>7. InTime(p)
  BY <1>1, <1>5 DEF Sound, InTime, Bounded, Deadline
<1>8. Truthful(p)
  BY <1>1, <1>5 DEF Sound, Truthful, Bounded, Deadline
<1>9. Past(p) /\ ~(p.calls > q.calls) /\ p.result = "none"
  BY <1>1, <1>2, <1>5 DEF Past, Sound, Truthful
<1>10. Move(q, p)
  BY <1>4, <1>6, <1>7, <1>8, <1>9 DEF Move, Sound
<1> QED BY <1>3, <1>10 DEF q

LEMMA FirstPollMove ==
  ASSUME Inv, NEW r \in Requests, FirstPoll(r)
  PROVE  \E p : Move(request[r], p) /\ request' = [request EXCEPT ![r] = p]
<1> DEFINE q == request[r]
           s == [q EXCEPT !.started = now, !.attempt = 1]
<1>1. /\ q \in Futures /\ Sound(q) /\ Past(q) /\ q.pc = "created"
      /\ request' = [request EXCEPT ![r] = StartAttempt(s)]
  BY DEF Inv, TypeOK, FirstPoll, Set
<1>2. now \in Nat /\ 1 \in 0 .. MaxAttempts
  BY TowerAssumption DEF Inv, TypeOK
<1> HIDE DEF q
<1>3. s \in Futures
  BY <1>1, <1>2 DEF Futures
<1>4. /\ s.attempt = 1 /\ s.started = now /\ s.permits = q.permits /\ s.calls = q.calls
      /\ s.opened = q.opened /\ s.limit = q.limit /\ s.timer = q.timer /\ s.result = q.result
  BY <1>1 DEF Futures
<1> HIDE DEF s
<1>5. /\ s.permits = s.attempt /\ s.calls = s.attempt - 1 /\ s.attempt >= 1
      /\ s.result = "none"
  BY <1>1, <1>4 DEF Sound, Counted, Truthful
<1>6. Past(s)
  BY <1>1, <1>2, <1>4 DEF Past
<1>7. Move(s, StartAttempt(s))
  BY <1>2, <1>3, <1>5, <1>6, StartAttemptMove
<1>8. Move(q, StartAttempt(s))
  BY <1>4, <1>7 DEF Move, Bounded, Deadline
<1> QED BY <1>1, <1>8 DEF q

\* Readiness resolved: the loop starts over with one more readiness in hand.
LEMMA ReadiedMove ==
  ASSUME Inv, NEW r \in Requests, Readied(r)
  PROVE  \E p : Move(request[r], p) /\ request' = [request EXCEPT ![r] = p]
<1> DEFINE q == request[r]
           permits == q.permits + 1
           s == [q EXCEPT !.permits = permits]
<1>1. /\ q \in Futures /\ Sound(q) /\ Past(q) /\ q.pc = "readying"
      /\ request' = [request EXCEPT ![r] = IF q.answer = "error" THEN Ended(q, "Readiness")
                                            ELSE StartAttempt(s)]
  BY DEF Inv, TypeOK, Readied, Set
<1>2. now \in Nat
  BY TowerAssumption DEF Inv, TypeOK
<1> HIDE DEF q
<1>3. /\ q.attempt \in 0 .. MaxAttempts /\ q.permits \in Nat /\ q.calls \in Nat
      /\ MaxAttempts \in Nat
  BY <1>1, FutureTypes
<1>4. q.permits = q.attempt - 1 /\ q.calls = q.attempt - 1 /\ q.result = "none"
  BY <1>1 DEF Sound, Counted, Truthful
<1>5. CASE q.answer = "error"
  <2>1. q.calls <= q.permits /\ "Readiness" \in Results
    BY <1>3, <1>4 DEF Results
  <2>2. Move(q, Ended(q, "Readiness"))
    BY <1>1, <2>1, EndedMove
  <2> QED BY <1>1, <1>5, <2>2 DEF q
<1>6. CASE q.answer # "error"
  <2>1. permits \in 0 .. MaxAttempts /\ permits = q.attempt
    BY <1>3, <1>4
  <2> HIDE DEF permits
  <2>2. s \in Futures
    BY <1>1, <2>1 DEF Futures
  <2>3. /\ s.attempt = q.attempt /\ s.started = q.started /\ s.permits = permits
        /\ s.calls = q.calls /\ s.opened = q.opened /\ s.limit = q.limit
        /\ s.timer = q.timer /\ s.result = q.result
    BY <1>1, <2>1 DEF Futures
  <2> HIDE DEF s
  <2>4. s.permits = s.attempt /\ s.calls = s.attempt - 1 /\ s.attempt >= 1
    BY <1>3, <1>4, <2>1, <2>3
  <2>5. Past(s)
    BY <1>1, <2>3 DEF Past
  <2>6. Move(s, StartAttempt(s))
    BY <1>2, <1>4, <2>2, <2>3, <2>4, <2>5, StartAttemptMove
  <2>7. Move(q, StartAttempt(s))
    BY <2>3, <2>6 DEF Move, Bounded, Deadline
  <2> QED BY <1>1, <1>6, <2>7 DEF q
<1> QED BY <1>5, <1>6

LEMMA CompletedMove ==
  ASSUME Inv, NEW r \in Requests, Completed(r)
  PROVE  \E p : Move(request[r], p) /\ request' = [request EXCEPT ![r] = p]
<1> DEFINE q == request[r]
<1>1. /\ q \in Futures /\ Sound(q) /\ Past(q) /\ q.pc = "calling" /\ now \in Nat
      /\ q.calls \in Nat
  BY FutureTypes, TowerAssumption DEF Inv, TypeOK, Completed
<1>2. CASE q.answer = "ok"
  <2>1. request' = [request EXCEPT ![r] = Ended(q, "Ok")]
    BY <1>2 DEF Completed, Set
  <2> HIDE DEF q
  <2>2. q.calls <= q.permits /\ "Ok" \in Results
    BY <1>1 DEF Results, Sound, Counted
  <2>3. Move(q, Ended(q, "Ok"))
    BY <1>1, <2>2, EndedMove
  <2> QED BY <2>1, <2>3 DEF q
<1>3. CASE q.answer # "ok"
  <2>1. PICK delay \in NextDelay(policy, q.attempt, now - q.started, q.answer = "retry") :
          request' = [request EXCEPT ![r] = CallFailed(q, delay)]
    BY <1>3 DEF Completed, Set
  <2> HIDE DEF q
  <2>2. Move(q, CallFailed(q, delay))
    BY <1>1, CallFailedMove
  <2> QED BY <2>1, <2>2 DEF q
<1> QED BY <1>2, <1>3

\* An expiry is called what its timer was set for.
LEMMA TimedOutMove ==
  ASSUME Inv, NEW r \in Requests, TimedOut(r)
  PROVE  \E p : Move(request[r], p) /\ request' = [request EXCEPT ![r] = p]
<1> DEFINE q == request[r]
<1>1. /\ q \in Futures /\ Sound(q) /\ Past(q) /\ q.pc \in {"calling", "readying"}
      /\ Due(q) /\ request' = [request EXCEPT ![r] = Ended(q, q.stop)]
  BY DEF Inv, TypeOK, TimedOut, Set
<1> HIDE DEF q
<1>2. q.stop \in Results
  BY <1>1 DEF Futures, Results
<1>3. q.calls <= q.permits
  BY <1>1 DEF Sound, Counted
<1>4. q.stop = "LogicalDeadlineExceeded" => Bounded(q) /\ now >= Deadline(q)
  BY <1>1 DEF Sound, Truthful, Due
<1>5. q.stop = "ChildTimeout" /\ Bounded(q) => q.timer < Deadline(q)
  BY <1>1 DEF Sound, Truthful, Due
<1>6. Move(q, Ended(q, q.stop))
  BY <1>1, <1>2, <1>3, <1>4, <1>5, EndedMove
<1> QED BY <1>1, <1>6 DEF q

LEMMA WokenMove ==
  ASSUME Inv, NEW r \in Requests, Woken(r)
  PROVE  \E p : Move(request[r], p) /\ request' = [request EXCEPT ![r] = p]
<1>1. /\ request[r] \in Futures /\ Sound(request[r]) /\ Past(request[r])
      /\ request[r].pc = "sleeping" /\ request' = [request EXCEPT ![r] = Awaken(request[r])]
  BY DEF Inv, TypeOK, Woken, Set
<1>2. now \in Nat
  BY TowerAssumption DEF Inv, TypeOK
<1>3. Move(request[r], Awaken(request[r]))
  BY <1>1, <1>2, AwakenMove
<1> QED BY <1>1, <1>3

LEMMA CancelMove ==
  ASSUME Inv, NEW r \in Requests, Cancel(r)
  PROVE  \E p : Move(request[r], p) /\ request' = [request EXCEPT ![r] = p]
<1>1. /\ request[r] \in Futures /\ Sound(request[r]) /\ Past(request[r])
      /\ request' = [request EXCEPT ![r] = Ended(request[r], "Cancelled")]
  BY DEF Inv, TypeOK, Cancel, Set
<1>2. request[r].calls <= request[r].permits /\ "Cancelled" \in Results
  BY <1>1 DEF Results, Sound, Counted
<1>3. Move(request[r], Ended(request[r], "Cancelled"))
  BY <1>1, <1>2, EndedMove
<1> QED BY <1>1, <1>3

\* A step moves the clock or the handle, or one future at the same instant.
LEMMA NextMoves ==
  ASSUME Inv, [Next]_vars
  PROVE  \/ /\ now' \in 0 .. Horizon /\ now <= now' /\ ready' \in BOOLEAN
            /\ request' = request
         \/ /\ now' = now /\ ready' \in BOOLEAN
            /\ \E r \in Requests :
                 \E p : Move(request[r], p) /\ request' = [request EXCEPT ![r] = p]
<1>1. now \in 0 .. Horizon /\ Horizon \in Nat /\ ready \in BOOLEAN
  BY TowerAssumption DEF Inv, TypeOK
<1>2. CASE Tick
  BY <1>1, <1>2 DEF Tick
<1>3. CASE PollReady
  BY <1>1, <1>3 DEF PollReady
<1>4. CASE CallElsewhere
  <2>1. ready' = FALSE /\ now' = now /\ request' = request
    BY <1>4 DEF CallElsewhere
  <2>2. ready' \in BOOLEAN
    BY <2>1, Zenon
  <2> QED BY <1>1, <2>1, <2>2
<1>5. ASSUME NEW r \in Requests, Call(r)
      PROVE  now' = now /\ ready' \in BOOLEAN
  BY <1>5 DEF Call
<1>6. ASSUME NEW r \in Requests, Answer(r) \/ Poll(r) \/ Cancel(r)
      PROVE  now' = now /\ ready' = ready
  <2>1. ASSUME Answer(r) PROVE UNCHANGED <<now, ready>>
    BY <2>1, Zenon DEF Answer
  <2>2. ASSUME Poll(r) PROVE UNCHANGED <<now, ready>>
    BY <2>2 DEF Poll, FirstPoll, Completed, TimedOut, Woken, Readied
  <2>3. ASSUME Cancel(r) PROVE UNCHANGED <<now, ready>>
    BY <2>3 DEF Cancel
  <2> QED BY <1>6, <2>1, <2>2, <2>3
<1>7. ASSUME NEW r \in Requests, Call(r) \/ Answer(r) \/ Poll(r) \/ Cancel(r)
      PROVE  \E p : Move(request[r], p) /\ request' = [request EXCEPT ![r] = p]
  BY <1>7, CallMove, AnswerMove, FirstPollMove, CompletedMove, TimedOutMove, WokenMove,
     ReadiedMove, CancelMove DEF Poll
<1>8. CASE UNCHANGED vars
  BY <1>1, <1>8 DEF vars
<1> QED BY <1>1, <1>2, <1>3, <1>4, <1>5, <1>6, <1>7, <1>8 DEF Next

LEMMA NextInv ==
  ASSUME Inv, [Next]_vars
  PROVE  Inv'
<1>1. CASE /\ now' \in 0 .. Horizon /\ now <= now' /\ ready' \in BOOLEAN
           /\ request' = request
  <2>1. TypeOK'
    BY <1>1 DEF Inv, TypeOK
  <2>2. ASSUME NEW r \in Requests PROVE Sound(request[r])' /\ Past(request[r])'
    <3>1. Sound(request[r]) /\ Past(request[r]) /\ request[r] \in Futures
      BY DEF Inv, TypeOK
    <3>2. /\ request[r].opened \in Nat /\ request[r].started \in Nat
          /\ now \in Nat /\ now' \in Nat
      BY <1>1, <3>1, FutureTypes, TowerAssumption DEF Inv, TypeOK
    <3>3. Past(request[r])'
      BY <1>1, <3>1, <3>2 DEF Past
    <3>4. Sound(request[r])'
      BY <1>1, <3>1 DEF Sound, Counted, InTime, Truthful, Bounded, Deadline
    <3> QED BY <3>3, <3>4
  <2> QED BY <2>1, <2>2 DEF Inv
<1>2. ASSUME now' = now, ready' \in BOOLEAN, NEW r \in Requests, NEW p,
             Move(request[r], p), request' = [request EXCEPT ![r] = p]
      PROVE  Inv'
  <2>1. p \in Futures /\ Sound(p) /\ Past(p)
    BY <1>2 DEF Move
  <2>2. TypeOK'
    BY <1>2, <2>1 DEF Inv, TypeOK
  <2>3. ASSUME NEW o \in Requests PROVE Sound(request'[o]) /\ Past(request'[o])
    BY <1>2, <2>1 DEF Inv, TypeOK
  <2>4. ASSUME NEW o \in Requests PROVE Sound(request[o])' /\ Past(request[o])'
    BY <1>2, <2>3 DEF Sound, Counted, InTime, Truthful, Bounded, Deadline, Past
  <2> QED BY <2>2, <2>4 DEF Inv
<1> QED BY <1>1, <1>2, NextMoves

-----------------------------------------------------------------------------
(* The theorems.                                                           *)

THEOREM InvHolds == Spec => []Inv
BY InitInv, NextInv, PTL DEF Spec

\* No request attempts or calls more often than max_attempts, and every future keeps
\* its shape.
THEOREM TypeCorrect == Spec => []TypeOK
<1>1. Inv => TypeOK
  BY DEF Inv
<1> QED BY InvHolds, <1>1, PTL

\* Whatever a bounded future of TowerRetryService waits for ends by its logical
\* deadline, a backoff sleep before it and within max_elapsed.
THEOREM WithinBudget == Spec => []WaitsWithinBudget
<1>1. Inv => WaitsWithinBudget
  BY DEF Inv, Sound, InTime, WaitsWithinBudget
<1> QED BY InvHolds, <1>1, PTL

\* A physical call is only made on an instance that was ready for it.
THEOREM CallsReady == Spec => []EveryCallReady
<1>1. Inv => EveryCallReady
  BY DEF Inv, Sound, Counted, EveryCallReady
<1> QED BY InvHolds, <1>1, PTL

\* However late a future is polled, no call follows the logical deadline.
THEOREM CallsBeforeDeadline == Spec => NoCallAfterDeadline
<1> DEFINE A(r) == request'[r].calls > request[r].calls /\ Bounded(request'[r]) =>
                     now < Deadline(request'[r])
<1>1. ASSUME Inv, [Next]_vars PROVE \A r \in Requests : A(r)
  <2>1. ASSUME NEW r \in Requests, request'[r] = request[r] PROVE A(r)
    <3>1. request[r].calls \in Nat
      BY <1>1, FutureTypes DEF Inv, TypeOK
    <3> QED BY <2>1, <3>1
  <2>2. ASSUME NEW r \in Requests, Move(request[r], request'[r]) PROVE A(r)
    BY <2>2 DEF Move
  <2>3. ASSUME NEW r \in Requests
        PROVE  request'[r] = request[r] \/ Move(request[r], request'[r])
    BY <1>1, NextMoves DEF Inv, TypeOK
  <2> QED BY <2>1, <2>2, <2>3
<1> QED BY <1>1, InvHolds, PTL DEF Spec, NoCallAfterDeadline

\* The error a caller is given blames the deadline or the child's timeout rightly.
THEOREM ReasonsTrue == Spec => StopReasonTrue
<1> DEFINE A(r) ==
      LET q == request[r]
      IN /\ q.pc # "done" /\ request'[r].result = "LogicalDeadlineExceeded" =>
              Bounded(q) /\ now >= Deadline(q)
         /\ q.pc # "done" /\ request'[r].result = "ChildTimeout" /\ Bounded(q) =>
              q.timer < Deadline(q)
<1>1. ASSUME Inv, [Next]_vars PROVE \A r \in Requests : A(r)
  <2>1. ASSUME NEW r \in Requests, request'[r] = request[r] PROVE A(r)
    BY <1>1, <2>1 DEF Inv, Sound, Truthful
  <2>2. ASSUME NEW r \in Requests, Move(request[r], request'[r]) PROVE A(r)
    BY <2>2 DEF Move
  <2>3. ASSUME NEW r \in Requests
        PROVE  request'[r] = request[r] \/ Move(request[r], request'[r])
    BY <1>1, NextMoves DEF Inv, TypeOK
  <2> QED BY <2>1, <2>2, <2>3
<1> QED BY <1>1, InvHolds, PTL DEF Spec, StopReasonTrue

-----------------------------------------------------------------------------
(* What liveness rests on: a poll never goes back, there is only so far to go, *)
(* and after the deadline one poll is enough.                                  *)

\* How many of the awaits it may pass a future has passed: three an attempt.
Rank(q) ==
  CASE q.pc = "idle" -> 0
    [] q.pc = "created" -> 1
    [] q.pc = "readying" -> 3 * q.attempt - 2
    [] q.pc = "calling" -> 3 * q.attempt - 1
    [] q.pc = "sleeping" -> 3 * q.attempt
    [] q.pc = "done" -> 3 * MaxAttempts + 1

\* A step takes no future back, and a poll takes its future past at least one await.
PollsProgress ==
  [][\A r \in Requests :
       /\ Rank(request'[r]) \in Int /\ Rank(request'[r]) <= 3 * MaxAttempts + 1
       /\ Rank(request'[r]) >= Rank(request[r])
       /\ Poll(r) => Rank(request'[r]) > Rank(request[r])]_vars

\* A poll at or after the logical deadline is the last.
LatePollEnds ==
  [][\A r \in Requests :
       Poll(r) /\ Bounded(request[r]) /\ now >= Deadline(request[r]) =>
         request'[r].pc = "done"]_vars

\* At the logical deadline every timer a bounded future waits for has fired.
WokenByDeadline ==
  \A r \in Requests :
    LET q == request[r]
    IN Bounded(q) /\ now >= Deadline(q) /\ q.pc \in {"calling", "sleeping", "readying"} =>
         Due(q)

LEMMA RankBound ==
  ASSUME NEW q \in Futures
  PROVE  Rank(q) \in Int /\ Rank(q) <= 3 * MaxAttempts + 1
<1>1. q.attempt \in 0 .. MaxAttempts /\ MaxAttempts \in Nat /\ q.pc \in Places
  BY FutureTypes DEF Futures
<1> QED BY <1>1 DEF Rank, Places

\* What one poll may do to a future: end it, or take it one await further in time.
Further(q, p) ==
  \/ p.pc = "done"
  \/ /\ Bounded(q) => now < Deadline(q)
     /\ \/ q.pc = "created" /\ p.pc = "calling" /\ p.attempt = 1
        \/ q.pc = "calling" /\ p.pc = "sleeping" /\ p.attempt = q.attempt
        \/ q.pc = "sleeping" /\ p.pc = "readying" /\ p.attempt = q.attempt + 1
        \/ q.pc = "readying" /\ p.pc = "calling" /\ p.attempt = q.attempt

LEMMA FurtherRank ==
  ASSUME NEW q \in Futures, NEW p \in Futures, q.pc # "done", Further(q, p)
  PROVE  Rank(p) > Rank(q)
<1>1. /\ q.attempt \in 0 .. MaxAttempts /\ p.attempt \in 0 .. MaxAttempts
      /\ MaxAttempts \in Nat \ {0} /\ q.pc \in Places
  BY FutureTypes, TowerAssumption DEF Futures
<1>2. CASE p.pc = "done"
  BY <1>1, <1>2 DEF Rank, Places
<1>3. CASE p.pc # "done"
  BY <1>1, <1>3 DEF Rank, Further
<1> QED BY <1>2, <1>3

LEMMA StartAttemptFurther ==
  ASSUME NEW q \in Futures, now \in Nat, Past(q)
  PROVE  LET p == StartAttempt(q)
         IN \/ p.pc = "done"
            \/ /\ p.pc = "calling" /\ p.attempt = q.attempt
               /\ Bounded(q) => now < Deadline(q)
<1>1. q.opened \in Nat /\ q.limit \in Nat \cup {Unlimited}
  BY FutureTypes
<1>2. CASE IsExhausted(q.limit, Elapsed(q))
  BY <1>2 DEF StartAttempt, Ended, Futures
<1>3. CASE ~IsExhausted(q.limit, Elapsed(q))
  <2>1. StartAttempt(q).pc = "calling" /\ StartAttempt(q).attempt = q.attempt
    BY <1>3 DEF StartAttempt, Futures
  <2>2. Bounded(q) => now < Deadline(q)
    BY <1>1, <1>3 DEF IsExhausted, Elapsed, Bounded, Deadline
  <2> QED BY <2>1, <2>2
<1> QED BY <1>2, <1>3

LEMMA CallFailedFurther ==
  ASSUME NEW q \in Futures, now \in Nat, Past(q),
         NEW delay \in NextDelay(policy, q.attempt, now - q.started, q.answer = "retry")
  PROVE  LET p == CallFailed(q, delay)
         IN \/ p.pc = "done"
            \/ /\ p.pc = "sleeping" /\ p.attempt = q.attempt
               /\ Bounded(q) => now < Deadline(q)
<1> DEFINE e == Elapsed(q)
<1>1. q.opened \in Nat /\ q.limit \in Nat \cup {Unlimited} /\ e = now - q.opened /\ e \in Nat
  BY FutureTypes DEF Elapsed, Past
<1>2. CASE delay = None \/ ~CanWait(q.limit, e, delay)
  BY <1>2 DEF CallFailed, Ended, Futures
<1>3. CASE delay # None /\ CanWait(q.limit, e, delay)
  <2>1. CallFailed(q, delay).pc = "sleeping" /\ CallFailed(q, delay).attempt = q.attempt
    BY <1>3 DEF CallFailed, Futures
  <2>2. delay \in Nat
    <3>1. PICK cap : delay \in Delays(cap, policy.jitter)
      BY <1>3 DEF NextDelay
    <3> QED BY <3>1 DEF Delays
  <2> HIDE DEF e
  <2>3. ASSUME q.limit # Unlimited PROVE now < q.opened + q.limit
    <3>1. q.limit \in Nat /\ delay < Remaining(q.limit, e)
      BY <1>1, <1>3, <2>3 DEF CanWait
    <3>2. e < q.limit
      BY <1>1, <2>2, <3>1 DEF Remaining, Minus
    <3> QED BY <1>1, <3>1, <3>2
  <2> QED BY <2>1, <2>3 DEF Bounded, Deadline
<1> QED BY <1>2, <1>3

LEMMA AwakenFurther ==
  ASSUME NEW q \in Futures, now \in Nat, Past(q)
  PROVE  LET p == Awaken(q)
         IN \/ p.pc = "done"
            \/ /\ p.pc = "readying" /\ p.attempt = q.attempt + 1
               /\ Bounded(q) => now < Deadline(q)
<1>1. q.opened \in Nat /\ q.limit \in Nat \cup {Unlimited}
  BY FutureTypes
<1>2. CASE IsExhausted(q.limit, Elapsed(q))
  BY <1>2 DEF Awaken, Ended, Futures
<1>3. CASE ~IsExhausted(q.limit, Elapsed(q))
  <2>1. Awaken(q).pc = "readying" /\ Awaken(q).attempt = q.attempt + 1
    BY <1>3 DEF Awaken, Futures
  <2>2. Bounded(q) => now < Deadline(q)
    BY <1>1, <1>3 DEF IsExhausted, Elapsed, Bounded, Deadline
  <2> QED BY <2>1, <2>2
<1> QED BY <1>2, <1>3

LEMMA PollFurther ==
  ASSUME Inv, NEW r \in Requests, Poll(r)
  PROVE  Further(request[r], request'[r]) /\ request[r].pc # "done"
<1> DEFINE q == request[r]
<1>1. q \in Futures /\ Past(q) /\ Sound(q) /\ now \in Nat
      /\ request \in [Requests -> Futures]
  BY TowerAssumption DEF Inv, TypeOK
<1>2. CASE FirstPoll(r)
  <2> DEFINE s == [q EXCEPT !.started = now, !.attempt = 1]
  <2>1. q.pc = "created" /\ request'[r] = StartAttempt(s)
    BY <1>1, <1>2 DEF FirstPoll, Set
  <2>2. s \in Futures /\ s.attempt = 1 /\ s.opened = q.opened /\ s.limit = q.limit
        /\ s.started = now
    <3>1. 1 \in 0 .. MaxAttempts
      BY TowerAssumption
    <3> QED BY <1>1, <3>1 DEF Futures
  <2> HIDE DEF q, s
  <2>3. Past(s) /\ Bounded(s) = Bounded(q) /\ Deadline(s) = Deadline(q)
    BY <1>1, <2>2 DEF Past, Bounded, Deadline
  <2> QED BY <1>1, <2>1, <2>2, <2>3, StartAttemptFurther DEF Further, q
<1>3. CASE Completed(r)
  <2>1. q.pc = "calling"
    BY <1>3 DEF Completed
  <2>2. CASE q.answer = "ok"
    <3>1. request'[r] = Ended(q, "Ok")
      BY <1>1, <1>3, <2>2, Zenon DEF Completed, Set
    <3>2. request'[r].pc = "done"
      BY <1>1, <3>1 DEF Ended, Futures
    <3> QED BY <2>1, <3>2 DEF Further
  <2>3. CASE q.answer # "ok"
    <3>1. PICK delay \in NextDelay(policy, q.attempt, now - q.started, q.answer = "retry") :
            request'[r] = CallFailed(q, delay)
      BY <1>1, <1>3, <2>3 DEF Completed, Set
    <3> HIDE DEF q
    <3> QED BY <1>1, <2>1, <3>1, CallFailedFurther DEF Further, q
  <2> QED BY <2>2, <2>3
<1>4. CASE TimedOut(r)
  BY <1>1, <1>4 DEF TimedOut, Set, Ended, Further, Futures
<1>5. CASE Woken(r)
  <2>1. q.pc = "sleeping" /\ request'[r] = Awaken(q)
    BY <1>1, <1>5 DEF Woken, Set
  <2> HIDE DEF q
  <2> QED BY <1>1, <2>1, AwakenFurther DEF Further, q
<1>6. CASE Readied(r)
  <2> DEFINE permits == q.permits + 1
             s == [q EXCEPT !.permits = permits]
  <2>1. q.pc = "readying"
        /\ request'[r] = IF q.answer = "error" THEN Ended(q, "Readiness") ELSE StartAttempt(s)
    BY <1>1, <1>6 DEF Readied, Set
  <2>2. CASE q.answer = "error"
    BY <1>1, <2>1, <2>2 DEF Ended, Further, Futures
  <2>3. CASE q.answer # "error"
    <3>1. permits \in 0 .. MaxAttempts
      <4>1. q.permits = q.attempt - 1
        BY <1>1, <2>1 DEF Sound, Counted
      <4> QED BY <1>1, <4>1, FutureTypes
    <3> HIDE DEF permits
    <3>2. s \in Futures /\ s.attempt = q.attempt /\ s.opened = q.opened
          /\ s.limit = q.limit /\ s.started = q.started
      BY <1>1, <3>1 DEF Futures
    <3> HIDE DEF q, s
    <3>3. Past(s) /\ Bounded(s) = Bounded(q) /\ Deadline(s) = Deadline(q)
      BY <1>1, <3>2 DEF Past, Bounded, Deadline
    <3> QED BY <1>1, <2>1, <2>3, <3>2, <3>3, StartAttemptFurther DEF Further, q
  <2> QED BY <2>2, <2>3
<1> QED BY <1>2, <1>3, <1>4, <1>5, <1>6 DEF Poll

LEMMA WhoMoves ==
  ASSUME [Next]_vars, request \in [Requests -> Futures], NEW r \in Requests
  PROVE  request'[r] = request[r] \/ Poll(r) \/ Call(r) \/ Answer(r) \/ Cancel(r)
<1>1. CASE Tick \/ PollReady \/ CallElsewhere \/ UNCHANGED vars
  BY <1>1 DEF Tick, PollReady, CallElsewhere, vars
<1>2. ASSUME NEW o \in Requests, Call(o) \/ Answer(o) \/ Poll(o) \/ Cancel(o), o # r
      PROVE  request'[r] = request[r]
  <2>1. CASE Call(o)
    BY <1>2, <2>1 DEF Call, Called, Set
  <2>2. CASE Answer(o)
    BY <1>2, <2>2 DEF Answer
  <2>3. CASE Poll(o)
    BY <1>2, <2>3 DEF Poll, FirstPoll, Completed, TimedOut, Woken, Readied, Set
  <2>4. CASE Cancel(o)
    BY <1>2, <2>4 DEF Cancel, Set
  <2> QED BY <1>2, <2>1, <2>2, <2>3, <2>4
<1> QED BY <1>1, <1>2 DEF Next

LEMMA RestNoBack ==
  ASSUME Inv, NEW r \in Requests, Call(r) \/ Answer(r) \/ Cancel(r),
         request'[r] \in Futures
  PROVE  Rank(request'[r]) >= Rank(request[r])
<1>1. request \in [Requests -> Futures] /\ request[r] \in Futures
  BY DEF Inv, TypeOK
<1>2. /\ Rank(request[r]) \in Int /\ Rank(request[r]) <= 3 * MaxAttempts + 1
      /\ Rank(request'[r]) \in Int /\ MaxAttempts \in Nat
  BY <1>1, RankBound, FutureTypes
<1>3. CASE Call(r)
  <2>1. request[r].pc = "idle" /\ request'[r].pc = "created"
    BY <1>1, <1>3 DEF Call, Called, Set, NoRequest
  <2> QED BY <1>2, <2>1 DEF Rank
<1>4. CASE Answer(r)
  <2>1. PICK answer : request' = [request EXCEPT ![r].answer = answer]
    BY <1>4 DEF Answer
  <2>2. request'[r].pc = request[r].pc /\ request'[r].attempt = request[r].attempt
    BY <1>1, <2>1 DEF Futures
  <2>3. Rank(request'[r]) = Rank(request[r])
    BY <2>2 DEF Rank
  <2> QED BY <1>2, <2>3
<1>5. CASE Cancel(r)
  <2>1. request'[r] = Ended(request[r], "Cancelled")
    BY <1>1, <1>5 DEF Cancel, Set
  <2>2. request'[r].pc = "done"
    BY <1>1, <2>1 DEF Ended, Futures
  <2>3. Rank(request'[r]) = 3 * MaxAttempts + 1
    BY <2>2 DEF Rank
  <2> QED BY <1>2, <2>3
<1> QED BY <1>3, <1>4, <1>5

\* A future goes forward only, and every poll takes it past an await: so a future is
\* polled at most 3 * max_attempts + 1 times before it ends.
THEOREM PollsAdvance == Spec => PollsProgress
<1> DEFINE A(r) == /\ Rank(request'[r]) \in Int /\ Rank(request'[r]) <= 3 * MaxAttempts + 1
                   /\ Rank(request'[r]) >= Rank(request[r])
                   /\ Poll(r) => Rank(request'[r]) > Rank(request[r])
<1>1. ASSUME Inv, [Next]_vars, NEW r \in Requests PROVE A(r)
  <2>1. request \in [Requests -> Futures] /\ request'[r] \in Futures
    BY <1>1, NextInv DEF Inv, TypeOK
  <2>2. /\ Rank(request[r]) \in Int /\ Rank(request'[r]) \in Int
        /\ Rank(request'[r]) <= 3 * MaxAttempts + 1
    BY <2>1, RankBound
  <2>3. Poll(r) => Rank(request'[r]) > Rank(request[r])
    BY <1>1, <2>1, PollFurther, FurtherRank
  <2>4. CASE request'[r] = request[r]
    BY <2>2, <2>3, <2>4
  <2>5. CASE Poll(r)
    BY <2>2, <2>3, <2>5
  <2>6. CASE Call(r) \/ Answer(r) \/ Cancel(r)
    <3>1. Rank(request'[r]) >= Rank(request[r])
      BY <1>1, <2>1, <2>6, RestNoBack
    <3> QED BY <2>2, <2>3, <3>1
  <2>7. request'[r] = request[r] \/ Poll(r) \/ Call(r) \/ Answer(r) \/ Cancel(r)
    BY <1>1, <2>1, WhoMoves
  <2> HIDE DEF A
  <2> QED BY <2>4, <2>5, <2>6, <2>7
<1>2. ASSUME Inv, [Next]_vars PROVE \A r \in Requests : A(r)
  BY <1>1, <1>2
<1> QED BY <1>2, InvHolds, PTL DEF Spec, PollsProgress

\* One poll at or after the logical deadline ends the future, whatever it waited for.
THEOREM LatePoll == Spec => LatePollEnds
<1> DEFINE A(r) == Poll(r) /\ Bounded(request[r]) /\ now >= Deadline(request[r]) =>
                     request'[r].pc = "done"
<1>1. ASSUME Inv, [Next]_vars, NEW r \in Requests, Poll(r), Bounded(request[r]),
             now >= Deadline(request[r])
      PROVE  request'[r].pc = "done"
  <2>1. now \in Nat /\ Deadline(request[r]) \in Nat
    BY <1>1, FutureTypes, TowerAssumption DEF Inv, TypeOK, Deadline, Bounded
  <2>2. Further(request[r], request'[r])
    BY <1>1, PollFurther
  <2> QED BY <1>1, <2>1, <2>2 DEF Further
<1>2. ASSUME Inv, [Next]_vars PROVE \A r \in Requests : A(r)
  BY <1>1, <1>2
<1> QED BY <1>2, InvHolds, PTL DEF Spec, LatePollEnds

\* At the logical deadline the timer of every await of a bounded future has fired, so
\* that its poll is due even if the inner service never answers.
THEOREM DeadlineWakes == Spec => []WokenByDeadline
<1>1. ASSUME Inv, NEW r \in Requests, Bounded(request[r]), now >= Deadline(request[r]),
             request[r].pc \in {"calling", "sleeping", "readying"}
      PROVE  Due(request[r])
  <2>1. request[r] \in Futures /\ now \in Nat
    BY <1>1, TowerAssumption DEF Inv, TypeOK
  <2>2. request[r].timer # Unlimited /\ request[r].timer <= Deadline(request[r])
    BY <1>1 DEF Inv, Sound, InTime
  <2>3. Deadline(request[r]) \in Nat /\ request[r].timer \in Nat
    BY <1>1, <2>1, <2>2, FutureTypes DEF Deadline, Bounded
  <2> QED BY <1>1, <2>1, <2>2, <2>3 DEF Due
<1>2. Inv => WokenByDeadline
  BY <1>1 DEF WokenByDeadline
<1> QED BY InvHolds, <1>2, PTL
=============================================================================
