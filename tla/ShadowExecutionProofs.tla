----------------------- MODULE ShadowExecutionProofs -----------------------
(***************************************************************************)
(* Proofs about ShadowExecution for any number of shadows and slots, any   *)
(* policies, clocks and answers, and polls as late as the executor likes.  *)
(***************************************************************************)
EXTENDS ShadowExecution, FiniteSetTheorems, TLAPS

-----------------------------------------------------------------------------
(* The inductive invariant.                                                *)

\* The budget that a shadow opens ends within its own deadline and the primary's.
Bounded(q) ==
  q.pc \in {"created", "calling", "sleeping"} =>
    /\ q.opened <= now /\ q.limit <= q.deadline
    /\ primary # Unlimited /\ q.limit > 0 => q.opened + q.limit <= primary

\* Its timer runs from the first attempt to the end of the budget, and a sleep ends before.
Timed(q) ==
  IF q.pc \in {"calling", "sleeping"}
  THEN /\ q.limit > 0 /\ q.timer = q.opened + q.limit
       /\ q.pc = "sleeping" => q.wake # Unlimited /\ q.wake < q.timer
  ELSE q.timer = Unlimited

Sound(q) ==
  /\ Bounded(q) /\ Timed(q)
  /\ q.pc # "calling" => q.answer = "none"

Inv ==
  /\ TypeOK
  /\ \A s \in Shadows : Sound(shadow[s])
  /\ \A s \in cancelled : shadow[s].pc # "planned"
  /\ IsFiniteSet(Running) /\ Cardinality(Running) <= Capacity

\* What AttemptsWithinDeadline says of the step of one shadow from q to p.
InTime(q, p) ==
  /\ p.attempt > q.attempt =>
       /\ now < p.opened + p.deadline
       /\ primary # Unlimited => now < primary
  /\ p.pc \in {"calling", "sleeping"} =>
       /\ p.timer # Unlimited /\ p.timer <= p.opened + p.deadline
       /\ primary # Unlimited => p.timer <= primary
       /\ p.pc = "sleeping" => p.wake < p.timer

\* What OutcomesTrue says of a shadow s that ends with this outcome.
Truthful(s, q, outcome) ==
  /\ outcome = "Cancelled" <=> s \in cancelled
  /\ outcome = "DeadlineExceeded" => now >= Deadline(q)
  /\ outcome = "Overloaded" => Cardinality(Running) = Capacity
  /\ outcome = "Succeeded" => q.answer = "ok"
  /\ outcome = "Failed" => q.answer \in {"retry", "fatal"}

\* What shadow s may become in a step: a sound future, in a slot that it had or that is
\* free, for which both properties hold.
Move(s, p) ==
  /\ p \in Futures /\ Sound(p) /\ p.pc # "planned"
  /\ p.pc # "ended" => s \in Running \/ Cardinality(Running) < Capacity
  /\ p.attempt > shadow[s].attempt =>
       now < p.opened + p.deadline /\ (primary # Unlimited => now < primary)
  /\ shadow[s].pc # "ended" /\ p.pc = "ended" => Truthful(s, shadow[s], p.outcome)

-----------------------------------------------------------------------------
(* What the invariant says of one future.                                  *)

LEMMA FutureTypes ==
  ASSUME NEW q \in Futures
  PROVE  /\ q.deadline \in Nat /\ q.opened \in Nat /\ q.limit \in Nat /\ q.attempt \in Nat
         /\ q.timer \in Nat \cup {Unlimited} /\ q.wake \in Nat \cup {Unlimited}
         /\ q.policy \in RetryPolicies \cup {NoRetry}
BY DEF Futures

LEMMA Clock ==
  ASSUME TypeOK
  PROVE  now \in Nat /\ (primary # Unlimited => primary \in Nat)
<1>1. now \in 0 .. Horizon /\ primary \in PrimaryLimits
  BY DEF TypeOK
<1> QED BY <1>1, ShadowAssumption

\* The waits of a sound future end within both deadlines.
LEMMA TimersInTime ==
  ASSUME TypeOK, NEW q \in Futures, Sound(q), q.pc \in {"calling", "sleeping"}
  PROVE  /\ q.timer # Unlimited /\ q.timer <= q.opened + q.deadline
         /\ primary # Unlimited => q.timer <= primary
         /\ q.pc = "sleeping" => q.wake < q.timer
<1>1. /\ q.deadline \in Nat /\ q.opened \in Nat /\ q.limit \in Nat
      /\ q.limit <= q.deadline /\ q.limit > 0 /\ q.timer = q.opened + q.limit
      /\ q.pc = "sleeping" => q.wake < q.timer
      /\ primary # Unlimited => q.opened + q.limit <= primary
  BY FutureTypes DEF Sound, Bounded, Timed
<1> QED BY <1>1 DEF Unlimited

LEMMA EndedMove ==
  ASSUME NEW s, NEW q \in Futures, q = shadow[s], NEW outcome \in Outcomes,
         Truthful(s, q, outcome)
  PROVE  Move(s, Ended(q, outcome))
<1> DEFINE p == Ended(q, outcome)
<1>1. /\ p \in Futures /\ p.pc = "ended" /\ p.outcome = outcome /\ p.attempt = q.attempt
      /\ p.timer = Unlimited /\ p.answer = "none"
  BY DEF Ended, Futures
<1> HIDE DEF p
<1>2. Sound(p)
  BY <1>1 DEF Sound, Bounded, Timed
<1>3. ~(p.attempt > q.attempt)
  BY <1>1, FutureTypes
<1> QED BY <1>1, <1>2, <1>3 DEF Move, p

\* The step of one shadow keeps the invariant and has both properties.
Kept ==
  /\ Inv'
  /\ \A s \in Shadows : InTime(shadow[s], shadow'[s])
  /\ \A s \in Shadows : shadow[s].pc # "ended" /\ shadow'[s].pc = "ended" =>
       Truthful(s, shadow[s], shadow'[s].outcome)

LEMMA MoveKeeps ==
  ASSUME Inv, NEW s \in Shadows, NEW p, Move(s, p), Set(s, p),
         UNCHANGED <<now, primary, cancelled>>
  PROVE  Kept
<1>1. /\ shadow \in [Shadows -> Futures] /\ p \in Futures
      /\ shadow' = [shadow EXCEPT ![s] = p]
      /\ now' = now /\ primary' = primary /\ cancelled' = cancelled
  BY DEF Inv, TypeOK, Move, Set
<1>2. TypeOK'
  BY <1>1 DEF Inv, TypeOK
<1>3. ASSUME NEW t \in Shadows PROVE Sound(shadow[t])'
  <2>1. shadow'[t] = IF t = s THEN p ELSE shadow[t]
    BY <1>1
  <2>2. Sound(p) /\ Sound(shadow[t])
    BY DEF Inv, Move
  <2>3. Sound(shadow'[t])
    BY <2>1, <2>2
  <2> QED BY <1>1, <2>3 DEF Sound, Bounded, Timed
<1>4. ASSUME NEW t \in cancelled' PROVE shadow'[t].pc # "planned"
  <2>1. shadow[t].pc # "planned" /\ t \in Shadows
    BY <1>1 DEF Inv, TypeOK
  <2> QED BY <1>1, <2>1 DEF Move
<1>5. IsFiniteSet(Running') /\ Cardinality(Running') <= Capacity
  <2>1. /\ IsFiniteSet(Running) /\ Cardinality(Running) <= Capacity
        /\ Cardinality(Running) \in Nat /\ Capacity \in Nat
    BY FS_CardinalityType, ShadowAssumption DEF Inv
  <2>2. CASE Running' \subseteq Running
    <3>1. IsFiniteSet(Running') /\ Cardinality(Running') <= Cardinality(Running)
      BY <2>1, <2>2, FS_Subset
    <3>2. Cardinality(Running') \in Nat
      BY <3>1, FS_CardinalityType
    <3> QED BY <2>1, <3>1, <3>2
  <2>3. CASE ~(Running' \subseteq Running)
    <3>1. Running' \subseteq Running \cup {s}
      BY <1>1 DEF Running
    <3>2. p.pc # "ended" /\ s \notin Running
      BY <1>1, <2>3, <3>1 DEF Running
    <3>3. Cardinality(Running) < Capacity
      BY <3>2 DEF Move
    <3>4. PICK A : A = Running
      OBVIOUS
    <3>5. PICK B : B = Running \cup {s}
      OBVIOUS
    <3>6. IsFiniteSet(A \cup {s}) /\ Cardinality(A \cup {s}) = Cardinality(A) + 1
      BY <2>1, <3>2, <3>4, FS_AddElement
    <3>7. IsFiniteSet(B) /\ Cardinality(B) = Cardinality(Running) + 1 /\ Running' \subseteq B
      BY <3>1, <3>4, <3>5, <3>6
    <3>8. IsFiniteSet(Running') /\ Cardinality(Running') <= Cardinality(B)
      BY <3>7, FS_Subset
    <3>9. Cardinality(Running') \in Nat
      BY <3>8, FS_CardinalityType
    <3> QED BY <2>1, <3>3, <3>7, <3>8, <3>9
  <2> QED BY <2>2, <2>3
<1>6. Inv'
  BY <1>2, <1>3, <1>4, <1>5 DEF Inv
<1>7. ASSUME NEW t \in Shadows PROVE InTime(shadow[t], shadow'[t])
  <2>1. shadow'[t] = IF t = s THEN p ELSE shadow[t]
    BY <1>1
  <2>2. Sound(shadow'[t]) /\ shadow'[t] \in Futures /\ TypeOK
    BY <1>1, <2>1 DEF Inv, Move
  <2>3. shadow'[t].attempt > shadow[t].attempt =>
          /\ now < shadow'[t].opened + shadow'[t].deadline
          /\ primary # Unlimited => now < primary
    <3>1. CASE t = s
      BY <2>1, <3>1 DEF Move
    <3>2. CASE t # s
      BY <1>1, <2>1, <3>2, FutureTypes
    <3> QED BY <3>1, <3>2
  <2> QED BY <2>2, <2>3, TimersInTime DEF InTime
<1>8. ASSUME NEW t \in Shadows, shadow[t].pc # "ended", shadow'[t].pc = "ended"
      PROVE  Truthful(t, shadow[t], shadow'[t].outcome)
  BY <1>1, <1>8 DEF Move
<1> QED BY <1>6, <1>7, <1>8 DEF Kept

-----------------------------------------------------------------------------
(* The steps.                                                              *)

\* What is known of a shadow that is polled without having been cancelled.
LEMMA RunningShadow ==
  ASSUME Inv, NEW s \in Shadows, NEW q, q = shadow[s]
  PROVE  /\ q \in Futures /\ Sound(q) /\ TypeOK
         /\ q.pc \notin {"planned", "ended"} =>
              /\ s \in Running /\ q.opened <= now /\ q.limit <= q.deadline
              /\ primary # Unlimited /\ q.limit > 0 => q.opened + q.limit <= primary
<1>1. q \in Futures /\ Sound(q) /\ TypeOK
  BY DEF Inv, TypeOK
<1>2. q.pc \in {"planned", "created", "calling", "sleeping", "ended"}
  BY <1>1 DEF Futures
<1>3. q.pc \notin {"planned", "ended"} => s \in Running
  BY DEF Running
<1> QED BY <1>1, <1>2, <1>3 DEF Sound, Bounded

LEMMA DispatchKeeps ==
  ASSUME Inv, NEW s \in Shadows, Dispatch(s)
  PROVE  Kept
<1>1. PICK q : q = shadow[s]
  OBVIOUS
<1>2. /\ q \in Futures /\ q.pc = "planned" /\ s \notin cancelled /\ TypeOK
      /\ UNCHANGED <<now, primary, cancelled>>
  BY <1>1 DEF Dispatch, Inv, TypeOK
<1>3. Cardinality(Running) \in Nat /\ Cardinality(Running) <= Capacity /\ Capacity \in Nat
  BY FS_CardinalityType, ShadowAssumption DEF Inv
<1>4. CASE Cardinality(Running) >= Capacity /\ Set(s, Ended(q, "Overloaded"))
  <2>1. Cardinality(Running) = Capacity
    BY <1>3, <1>4
  <2>2. Truthful(s, q, "Overloaded") /\ "Overloaded" \in Outcomes
    BY <1>2, <2>1 DEF Truthful, Outcomes
  <2>3. PICK p : p = Ended(q, "Overloaded")
    OBVIOUS
  <2>4. Move(s, p)
    BY <1>1, <1>2, <2>2, <2>3, EndedMove
  <2> QED BY <1>2, <1>4, <2>3, <2>4, MoveKeeps
<1>5. ASSUME Cardinality(Running) < Capacity, NEW deadline \in ShadowDeadlines,
             NEW policy \in RetryPolicies, NEW limit,
             limit = EffectiveDeadline(deadline, IF primary = Unlimited THEN DurationMax
                                                 ELSE Remaining(primary, now)),
             Set(s, [q EXCEPT !.pc = "created", !.policy = policy, !.deadline = deadline,
                              !.opened = now, !.limit = limit])
      PROVE  Kept
  <2>1. /\ now \in Nat /\ (primary # Unlimited => primary \in Nat)
        /\ deadline \in Nat /\ DurationMax \in Nat
    BY <1>2, Clock, ShadowAssumption, WidthAssumption
  <2>2. /\ limit \in Nat /\ limit <= deadline
        /\ primary # Unlimited /\ limit > 0 => now + limit <= primary
    BY <1>5, <2>1 DEF EffectiveDeadline, Least, Remaining, Minus
  <2>3. PICK instant : instant = now
    OBVIOUS
  <2>4. PICK p : p = [q EXCEPT !.pc = "created", !.policy = policy, !.deadline = deadline,
                               !.opened = instant, !.limit = limit]
    OBVIOUS
  <2>5. policy \in RetryPolicies \cup {NoRetry} /\ instant \in Nat
    BY <2>1, <2>3
  <2>6. /\ p \in Futures /\ p.pc = "created" /\ p.deadline = deadline /\ p.opened = now
        /\ p.limit = limit /\ p.attempt = q.attempt /\ p.timer = q.timer /\ p.answer = q.answer
    BY <1>2, <2>1, <2>2, <2>3, <2>4, <2>5 DEF Futures
  <2>7. q.timer = Unlimited /\ q.answer = "none"
    BY <1>1, <1>2 DEF Inv, Sound, Timed
  <2>8. Sound(p)
    BY <2>1, <2>2, <2>6, <2>7 DEF Sound, Bounded, Timed
  <2>9. ~(p.attempt > q.attempt)
    BY <1>2, <2>6, FutureTypes
  <2>10. Move(s, p)
    BY <1>1, <1>5, <2>6, <2>8, <2>9 DEF Move
  <2> QED BY <1>2, <1>5, <2>3, <2>4, <2>10, MoveKeeps
<1>6. CASE Cardinality(Running) < Capacity
  <2>1. PICK deadline \in ShadowDeadlines, policy \in RetryPolicies :
          LET remaining == IF primary = Unlimited THEN DurationMax ELSE Remaining(primary, now)
          IN Set(s, [q EXCEPT !.pc = "created", !.policy = policy, !.deadline = deadline,
                              !.opened = now, !.limit = EffectiveDeadline(deadline, remaining)])
    <3>1. ~(Cardinality(Running) >= Capacity)
      BY <1>3, <1>6
    <3> QED BY <1>1, <3>1, Zenon DEF Dispatch
  <2>2. PICK limit : limit = EffectiveDeadline(deadline, IF primary = Unlimited THEN DurationMax
                                                         ELSE Remaining(primary, now))
    OBVIOUS
  <2> QED BY <1>5, <1>6, <2>1, <2>2
<1> QED BY <1>1, <1>3, <1>4, <1>6 DEF Dispatch

LEMMA CancelKeeps ==
  ASSUME Inv, NEW s \in Shadows, Cancel(s)
  PROVE  Kept
<1>1. /\ UNCHANGED <<now, primary, shadow>> /\ cancelled' = cancelled \cup {s}
      /\ shadow[s].pc # "planned"
  BY DEF Cancel, Running
<1>2. TypeOK' /\ Running' = Running
  BY <1>1 DEF Inv, TypeOK, Running
<1>3. \A t \in Shadows : Sound(shadow[t])'
  BY <1>1 DEF Inv, Sound, Bounded, Timed
<1>4. Inv'
  BY <1>1, <1>2, <1>3 DEF Inv
<1>5. ASSUME NEW t \in Shadows PROVE InTime(shadow[t], shadow'[t])
  <2>1. TypeOK /\ shadow[t] \in Futures /\ Sound(shadow[t])
    BY DEF Inv, TypeOK
  <2>2. ~(shadow[t].attempt > shadow[t].attempt)
    BY <2>1, FutureTypes
  <2> QED BY <1>1, <2>1, <2>2, TimersInTime DEF InTime
<1> QED BY <1>1, <1>4, <1>5 DEF Kept

LEMMA TickKeeps ==
  ASSUME Inv, Tick
  PROVE  Kept
<1>1. UNCHANGED <<primary, shadow, cancelled>> /\ now' = now + 1 /\ now < Horizon
  BY DEF Tick
<1>2. now \in Nat /\ Horizon \in Nat
  BY Clock, ShadowAssumption DEF Inv
<1>3. TypeOK' /\ Running' = Running
  BY <1>1, <1>2 DEF Inv, TypeOK, Running
<1>4. ASSUME NEW t \in Shadows PROVE Sound(shadow[t])'
  <2>1. shadow[t] \in Futures /\ Sound(shadow[t])
    BY DEF Inv, TypeOK
  <2>2. shadow[t].opened \in Nat
    BY <2>1, FutureTypes
  <2> QED BY <1>1, <1>2, <2>1, <2>2 DEF Sound, Bounded, Timed
<1>5. Inv'
  BY <1>1, <1>3, <1>4 DEF Inv
<1>6. ASSUME NEW t \in Shadows PROVE InTime(shadow[t], shadow'[t])
  <2>1. TypeOK /\ shadow[t] \in Futures /\ Sound(shadow[t])
    BY DEF Inv, TypeOK
  <2>2. ~(shadow[t].attempt > shadow[t].attempt)
    BY <2>1, FutureTypes
  <2> QED BY <1>1, <2>1, <2>2, TimersInTime DEF InTime
<1> QED BY <1>1, <1>5, <1>6 DEF Kept

LEMMA AnswerKeeps ==
  ASSUME Inv, NEW s \in Shadows, Answer(s)
  PROVE  Kept
<1>1. PICK q : q = shadow[s]
  OBVIOUS
<1>2. q \in Futures /\ Sound(q) /\ q.pc = "calling" /\ s \in Running
  BY <1>1, RunningShadow DEF Answer
<1>3. PICK answer \in {"ok", "retry", "fatal"} : Set(s, [q EXCEPT !.answer = answer])
  BY <1>1 DEF Answer
<1>4. PICK p : p = [q EXCEPT !.answer = answer]
  OBVIOUS
<1>5. /\ p \in Futures /\ p.pc = "calling" /\ p.opened = q.opened /\ p.limit = q.limit
      /\ p.deadline = q.deadline /\ p.timer = q.timer /\ p.attempt = q.attempt
  BY <1>2, <1>4 DEF Futures
<1>6. Sound(p)
  BY <1>2, <1>5 DEF Sound, Bounded, Timed
<1>7. ~(p.attempt > q.attempt)
  BY <1>2, <1>5, FutureTypes
<1>8. Move(s, p)
  BY <1>1, <1>2, <1>5, <1>6, <1>7 DEF Move
<1> QED BY <1>3, <1>4, <1>8, MoveKeeps DEF Answer

\* Each poll of a shadow, cancelled or not.
LEMMA CancelledKeeps ==
  ASSUME Inv, NEW s \in Shadows, Cancelled(s), UNCHANGED <<now, primary, cancelled>>
  PROVE  Kept
<1>1. PICK q : q = shadow[s]
  OBVIOUS
<1>2. q \in Futures /\ s \in cancelled
  BY <1>1, RunningShadow DEF Cancelled
<1>3. Truthful(s, q, "Cancelled") /\ "Cancelled" \in Outcomes
  BY <1>2 DEF Truthful, Outcomes
<1>4. PICK p : p = Ended(q, "Cancelled")
  OBVIOUS
<1>5. Move(s, p)
  BY <1>1, <1>2, <1>3, <1>4, EndedMove
<1> QED BY <1>1, <1>4, <1>5, MoveKeeps DEF Cancelled

\* A poll that finds the budget spent.
LEMMA ExhaustedKeeps ==
  ASSUME Inv, NEW s \in Shadows, s \notin cancelled, NEW q, q = shadow[s],
         UNCHANGED <<now, primary, cancelled>>, now >= Deadline(q),
         Set(s, Ended(q, "DeadlineExceeded"))
  PROVE  Kept
<1>1. q \in Futures
  BY RunningShadow
<1>2. Truthful(s, q, "DeadlineExceeded") /\ "DeadlineExceeded" \in Outcomes
  BY DEF Truthful, Outcomes
<1>3. PICK p : p = Ended(q, "DeadlineExceeded")
  OBVIOUS
<1>4. Move(s, p)
  BY <1>1, <1>2, <1>3, EndedMove
<1> QED BY <1>3, <1>4, MoveKeeps

LEMMA Exhaustion ==
  ASSUME TypeOK, NEW q \in Futures, q.opened <= now
  PROVE  /\ now - q.opened = Elapsed(q) /\ Elapsed(q) \in Nat
         /\ IsExhausted(q.limit, Elapsed(q)) => now >= Deadline(q)
         /\ ~IsExhausted(q.limit, Elapsed(q)) => now < q.opened + q.limit /\ q.limit > 0
<1>1. q.opened \in Nat /\ q.limit \in Nat /\ now \in Nat
  BY FutureTypes, Clock
<1> QED BY <1>1 DEF Elapsed, IsExhausted, Deadline, Unlimited

LEMMA StartKeeps ==
  ASSUME Inv, NEW s \in Shadows, Start(s), UNCHANGED <<now, primary, cancelled>>
  PROVE  Kept
<1>1. PICK q : q = shadow[s]
  OBVIOUS
<1>2. /\ q \in Futures /\ Sound(q) /\ TypeOK /\ q.pc = "created" /\ s \notin cancelled
      /\ s \in Running /\ q.opened <= now /\ q.limit <= q.deadline
      /\ primary # Unlimited /\ q.limit > 0 => q.opened + q.limit <= primary
  BY <1>1, RunningShadow DEF Start, Uncancelled
<1>3. CASE IsExhausted(q.limit, Elapsed(q))
  BY <1>1, <1>2, <1>3, Exhaustion, ExhaustedKeeps DEF Start
<1>4. CASE ~IsExhausted(q.limit, Elapsed(q))
  <2>1. PICK timer : timer = now + ClampChild(q.limit, Elapsed(q), q.deadline)
    OBVIOUS
  <2>2. /\ q.opened \in Nat /\ q.limit \in Nat /\ q.deadline \in Nat /\ now \in Nat
        /\ primary # Unlimited => primary \in Nat
    BY <1>2, FutureTypes, Clock
  <2>3. /\ now < q.opened + q.limit /\ q.limit > 0 /\ Elapsed(q) \in Nat
        /\ Elapsed(q) = now - q.opened
    BY <1>2, <1>4, Exhaustion
  <2>4. ClampChild(q.limit, Elapsed(q), q.deadline) = q.opened + q.limit - now
    BY <1>2, <2>2, <2>3 DEF ClampChild, Remaining, Minus, Least, Unlimited
  <2>5. timer = q.opened + q.limit /\ timer \in Nat
    BY <2>1, <2>2, <2>4
  <2>6. PICK p : p = [q EXCEPT !.pc = "calling", !.attempt = 1, !.timer = timer]
    OBVIOUS
  <2>7. /\ p \in Futures /\ p.pc = "calling" /\ p.opened = q.opened /\ p.limit = q.limit
        /\ p.deadline = q.deadline /\ p.timer = timer
    BY <1>2, <2>5, <2>6 DEF Futures
  <2>8. Sound(p)
    BY <1>2, <2>3, <2>5, <2>7 DEF Sound, Bounded, Timed
  <2>9. now < p.opened + p.deadline /\ (primary # Unlimited => now < primary)
    BY <1>2, <2>2, <2>3, <2>7
  <2>10. Move(s, p)
    BY <1>2, <2>7, <2>8, <2>9 DEF Move
  <2> QED BY <1>1, <1>4, <2>1, <2>6, <2>10, MoveKeeps DEF Start
<1> QED BY <1>3, <1>4

LEMMA TimedOutKeeps ==
  ASSUME Inv, NEW s \in Shadows, TimedOut(s), UNCHANGED <<now, primary, cancelled>>
  PROVE  Kept
<1>1. PICK q : q = shadow[s]
  OBVIOUS
<1>2. /\ q \in Futures /\ Sound(q) /\ s \notin cancelled /\ q.timer # Unlimited /\ q.timer <= now
      /\ TypeOK
  BY <1>1, RunningShadow DEF TimedOut, Uncancelled, Due
<1>3. q.timer = Deadline(q)
  BY <1>2 DEF Sound, Timed, Deadline
<1>4. q.opened \in Nat /\ q.limit \in Nat /\ now \in Nat
  BY <1>2, FutureTypes, Clock
<1>5. now >= Deadline(q)
  BY <1>2, <1>3, <1>4 DEF Deadline
<1> QED BY <1>1, <1>2, <1>5, ExhaustedKeeps DEF TimedOut

LEMMA WokenKeeps ==
  ASSUME Inv, NEW s \in Shadows, Woken(s), UNCHANGED <<now, primary, cancelled>>
  PROVE  Kept
<1>1. PICK q : q = shadow[s]
  OBVIOUS
<1>2. /\ q \in Futures /\ Sound(q) /\ TypeOK /\ q.pc = "sleeping" /\ s \notin cancelled
      /\ s \in Running /\ q.opened <= now /\ q.limit <= q.deadline
      /\ primary # Unlimited /\ q.limit > 0 => q.opened + q.limit <= primary
  BY <1>1, RunningShadow DEF Woken, Uncancelled
<1>3. CASE IsExhausted(q.limit, Elapsed(q))
  BY <1>1, <1>2, <1>3, Exhaustion, ExhaustedKeeps DEF Woken
<1>4. CASE ~IsExhausted(q.limit, Elapsed(q))
  <2>1. PICK attempt : attempt = q.attempt + 1
    OBVIOUS
  <2>2. /\ q.opened \in Nat /\ q.limit \in Nat /\ q.deadline \in Nat /\ now \in Nat
        /\ attempt \in Nat
        /\ primary # Unlimited => primary \in Nat
    BY <1>2, <2>1, FutureTypes, Clock
  <2>3. now < q.opened + q.limit /\ q.limit > 0
    BY <1>2, <1>4, Exhaustion
  <2>4. PICK p : p = [q EXCEPT !.pc = "calling", !.wake = Unlimited, !.attempt = attempt]
    OBVIOUS
  <2>5. /\ p \in Futures /\ p.pc = "calling" /\ p.opened = q.opened /\ p.limit = q.limit
        /\ p.deadline = q.deadline /\ p.timer = q.timer /\ p.answer = q.answer
    BY <1>2, <2>2, <2>4 DEF Futures
  <2>6. Sound(p)
    BY <1>2, <2>5 DEF Sound, Bounded, Timed
  <2>7. now < p.opened + p.deadline /\ (primary # Unlimited => now < primary)
    BY <1>2, <2>2, <2>3, <2>5
  <2>8. Move(s, p)
    BY <1>2, <2>5, <2>6, <2>7 DEF Move
  <2>9. p = [q EXCEPT !.pc = "calling", !.wake = Unlimited, !.attempt = @ + 1]
    BY <2>1, <2>4
  <2> QED BY <1>1, <1>4, <2>8, <2>9, MoveKeeps DEF Woken
<1> QED BY <1>3, <1>4

LEMMA AnsweredKeeps ==
  ASSUME Inv, NEW s \in Shadows, Answered(s), UNCHANGED <<now, primary, cancelled>>
  PROVE  Kept
<1>1. PICK q : q = shadow[s]
  OBVIOUS
<1>2. /\ q \in Futures /\ Sound(q) /\ TypeOK /\ q.answer # "none" /\ s \notin cancelled
      /\ s \in Running /\ q.opened <= now
      /\ q.pc = "calling" /\ q.answer \in {"ok", "retry", "fatal"}
  <2>1. q \in Futures /\ Sound(q) /\ TypeOK /\ q.answer # "none" /\ s \notin cancelled
    BY <1>1, RunningShadow DEF Answered, Uncancelled
  <2>2. q.pc = "calling" /\ q.answer \in {"ok", "retry", "fatal"}
    BY <2>1 DEF Sound, Futures
  <2> QED BY <1>1, <2>1, <2>2, RunningShadow
<1>3. ASSUME NEW outcome \in {"Succeeded", "Failed"}, Set(s, Ended(q, outcome)),
             outcome = "Succeeded" => q.answer = "ok", outcome = "Failed" => q.answer # "ok"
      PROVE  Kept
  <2>1. Truthful(s, q, outcome) /\ outcome \in Outcomes
    BY <1>2, <1>3 DEF Truthful, Outcomes
  <2>2. PICK p : p = Ended(q, outcome)
    OBVIOUS
  <2>3. Move(s, p)
    BY <1>1, <1>2, <2>1, <2>2, EndedMove
  <2> QED BY <1>3, <2>2, <2>3, MoveKeeps
<1>4. CASE q.answer = "ok"
  BY <1>1, <1>3, <1>4 DEF Answered
<1>5. CASE q.answer # "ok"
  <2>1. PICK delay \in NextRetryDelay(q, Elapsed(q), q.answer = "retry") :
          Set(s, IF delay = None \/ ~CanWait(q.limit, Elapsed(q), delay)
                 THEN Ended(q, "Failed")
                 ELSE [q EXCEPT !.pc = "sleeping", !.answer = "none", !.wake = now + delay])
    BY <1>1, <1>5 DEF Answered
  <2>2. CASE delay = None \/ ~CanWait(q.limit, Elapsed(q), delay)
    BY <1>3, <1>5, <2>1, <2>2
  <2>3. CASE delay # None /\ CanWait(q.limit, Elapsed(q), delay)
    <3>1. delay \in Nat
      <4>1. delay \in NextDelay(q.policy, q.attempt, Elapsed(q), q.answer = "retry")
        BY <2>1, <2>3, Zenon DEF NextRetryDelay
      <4>2. PICK cap : delay \in Delays(cap, q.policy.jitter)
        BY <2>3, <4>1 DEF NextDelay
      <4> QED BY <4>2 DEF Delays
    <3>2. q.opened \in Nat /\ q.limit \in Nat /\ now \in Nat /\ Elapsed(q) = now - q.opened
      BY <1>2, FutureTypes, Clock, Exhaustion
    <3>3. PICK wake : wake = now + delay
      OBVIOUS
    <3>4. wake \in Nat /\ wake < q.opened + q.limit
      BY <1>2, <2>3, <3>1, <3>2, <3>3 DEF CanWait, Remaining, Minus, Unlimited
    <3>5. PICK p : p = [q EXCEPT !.pc = "sleeping", !.answer = "none", !.wake = wake]
      OBVIOUS
    <3>6. /\ p \in Futures /\ p.pc = "sleeping" /\ p.opened = q.opened /\ p.limit = q.limit
          /\ p.deadline = q.deadline /\ p.timer = q.timer /\ p.answer = "none"
          /\ p.wake = wake /\ p.attempt = q.attempt
      BY <1>2, <3>4, <3>5 DEF Futures
    <3>7. Sound(p)
      BY <1>2, <3>4, <3>6 DEF Sound, Bounded, Timed, Unlimited
    <3>8. ~(p.attempt > q.attempt)
      BY <1>2, <3>6, FutureTypes
    <3>9. Move(s, p)
      BY <1>1, <1>2, <3>6, <3>7, <3>8 DEF Move
    <3> QED BY <2>1, <2>3, <3>3, <3>5, <3>9, MoveKeeps
  <2> QED BY <2>2, <2>3
<1> QED BY <1>4, <1>5

-----------------------------------------------------------------------------
(* The theorems.                                                           *)

LEMMA InitInv == Init => Inv
<1> SUFFICES ASSUME Init PROVE Inv
  OBVIOUS
<1>1. now = 0 /\ primary \in PrimaryLimits /\ cancelled = {}
      /\ shadow = [s \in Shadows |-> Planned]
  BY DEF Init
<1>2. /\ Planned \in Futures /\ Planned.pc = "planned" /\ Planned.timer = Unlimited
      /\ Planned.answer = "none"
  BY DEF Planned, Futures
<1>3. TypeOK
  BY <1>1, <1>2, ShadowAssumption DEF TypeOK
<1>4. \A s \in Shadows : Sound(shadow[s])
  BY <1>1, <1>2 DEF Sound, Bounded, Timed
<1>5. Running = {}
  BY <1>1, <1>2 DEF Running
<1>6. IsFiniteSet(Running) /\ Cardinality(Running) <= Capacity
  BY <1>5, FS_EmptySet, ShadowAssumption
<1> QED BY <1>1, <1>3, <1>4, <1>6 DEF Inv

LEMMA NextKept == Inv /\ Next => Kept
<1> SUFFICES ASSUME Inv, Next PROVE Kept
  OBVIOUS
<1>1. CASE Tick
  BY <1>1, TickKeeps
<1>2. ASSUME NEW s \in Shadows, Poll(s) PROVE Kept
  BY <1>2, CancelledKeeps, StartKeeps, AnsweredKeeps, WokenKeeps, TimedOutKeeps DEF Poll
<1> QED BY <1>1, <1>2, DispatchKeeps, CancelKeeps, AnswerKeeps DEF Next

LEMMA NextInv == Inv /\ [Next]_vars => Inv'
<1> SUFFICES ASSUME Inv, [Next]_vars PROVE Inv'
  OBVIOUS
<1>1. CASE Next
  BY <1>1, NextKept DEF Kept
<1>2. CASE UNCHANGED vars
  BY <1>2 DEF vars, Inv, TypeOK, Sound, Bounded, Timed, Running
<1> QED BY <1>1, <1>2

\* The inductive invariant: a shadow's timer runs to the end of the budget it opened, that
\* budget ends within both deadlines, and no more shadows run than there are slots.
THEOREM InvHolds == Spec => []Inv
  BY InitInv, NextInv, PTL DEF Spec

\* Every shadow's future has its type; in particular its budget is always bounded.
THEOREM TypeCorrect == Spec => []TypeOK
<1>1. Inv => TypeOK
  BY DEF Inv
<1> QED BY <1>1, InvHolds, PTL

\* No attempt begins, and no wait of a shadow ends, past its own deadline or the primary's.
THEOREM AttemptsInTime == Spec => AttemptsWithinDeadline
<1>1. Inv /\ [Next]_vars =>
        [\A s \in Shadows :
           LET q == shadow'[s]
           IN /\ q.attempt > shadow[s].attempt =>
                   /\ now < q.opened + q.deadline
                   /\ primary # Unlimited => now < primary
              /\ q.pc \in {"calling", "sleeping"} =>
                   /\ q.timer # Unlimited /\ q.timer <= q.opened + q.deadline
                   /\ primary # Unlimited => q.timer <= primary
                   /\ q.pc = "sleeping" => q.wake < q.timer]_vars
  BY NextKept DEF Kept, InTime
<1> QED BY <1>1, InvHolds, PTL DEF Spec, AttemptsWithinDeadline

\* A shadow's outcome is what happened to it, whatever was due in the same poll.
THEOREM TrueOutcomes == Spec => OutcomesTrue
<1>1. Inv /\ [Next]_vars =>
        [\A s \in Shadows :
           LET q == shadow[s]
               outcome == shadow'[s].outcome
           IN q.pc # "ended" /\ shadow'[s].pc = "ended" =>
                /\ outcome = "Cancelled" <=> s \in cancelled
                /\ outcome = "DeadlineExceeded" => now >= Deadline(q)
                /\ outcome = "Overloaded" => Cardinality(Running) = Capacity
                /\ outcome = "Succeeded" => q.answer = "ok"
                /\ outcome = "Failed" => q.answer \in {"retry", "fatal"}]_vars
  BY NextKept DEF Kept, Truthful
<1> QED BY <1>1, InvHolds, PTL DEF Spec, OutcomesTrue

-----------------------------------------------------------------------------
(* What ShadowsEnd rests on: a poll never goes back, there is only so far to  *)
(* go, and from the deadline on one poll is enough.                           *)

\* The attempts that a future's policy allows it; one without a policy has one.
Allowed(q) == IF q.policy.max_attempts > 1 THEN q.policy.max_attempts ELSE 1

\* No shadow attempts more often than its retry policy allows.
AttemptsWithinPolicy == \A s \in Shadows : shadow[s].attempt <= Allowed(shadow[s])

Counted(q) ==
  /\ q.pc \in {"planned", "created"} => q.attempt = 0
  /\ q.attempt <= Allowed(q)
  /\ q.pc = "sleeping" => q.attempt < Allowed(q)

\* The awaits a future has passed: two an attempt.
Rank(q) ==
  CASE q.pc = "planned" -> 0
    [] q.pc = "created" -> 1
    [] q.pc = "calling" -> 2 * q.attempt
    [] q.pc = "sleeping" -> 2 * q.attempt + 1
    [] q.pc = "ended" -> 2 * Allowed(q) + 1

\* A poll takes its future past at least one await, of those its policy allows.
PollsProgress ==
  [][\A s \in Shadows :
       Poll(s) => /\ Rank(shadow'[s]) > Rank(shadow[s])
                  /\ Rank(shadow'[s]) <= 2 * Allowed(shadow[s]) + 1]_vars

\* A poll at or after the end of the budget is the last, and at that time the timer of
\* a started future has fired.
LatePollEnds ==
  [][\A s \in Shadows :
       Poll(s) /\ now >= Deadline(shadow[s]) => shadow'[s].pc = "ended"]_vars

WokenByDeadline ==
  \A s \in Shadows :
    shadow[s].pc \in {"calling", "sleeping"} /\ now >= Deadline(shadow[s]) =>
      Due(shadow[s].timer)

\* What a poll of q makes of it: the end, or one await further within the budget.
Further(q, p) ==
  \/ p.pc = "ended" /\ p.attempt = q.attempt /\ p.outcome # "Overloaded"
  \/ /\ now < Deadline(q)
     /\ \/ q.pc = "created" /\ p.pc = "calling" /\ p.attempt = 1
        \/ /\ q.pc = "calling" /\ p.pc = "sleeping" /\ p.attempt = q.attempt
           /\ q.attempt < Allowed(q)
        \/ q.pc = "sleeping" /\ p.pc = "calling" /\ p.attempt = q.attempt + 1

LEMMA AllowedType ==
  ASSUME NEW q \in Futures
  PROVE  Allowed(q) \in Nat \ {0} /\ q.policy.max_attempts \in Nat
<1>1. \A policy \in RetryPolicies \cup {NoRetry} : policy.max_attempts \in Nat
  BY ShadowAssumption DEF NoRetry
<1>2. q.policy \in RetryPolicies \cup {NoRetry}
  BY FutureTypes
<1>3. q.policy.max_attempts \in Nat
  BY <1>1, <1>2
<1> QED BY <1>3 DEF Allowed

LEMMA EndedFields ==
  ASSUME NEW q \in Futures, NEW outcome
  PROVE  LET p == Ended(q, outcome)
         IN /\ p.pc = "ended" /\ p.outcome = outcome
            /\ p.attempt = q.attempt /\ p.policy = q.policy
BY DEF Ended, Futures

LEMMA AnsweredFurther ==
  ASSUME Inv, NEW s \in Shadows, Answered(s)
  PROVE  /\ Further(shadow[s], shadow'[s]) /\ shadow'[s].policy = shadow[s].policy
         /\ shadow[s].pc = "calling"
<1>1. PICK q : q = shadow[s]
  OBVIOUS
<1>2. /\ q \in Futures /\ Sound(q) /\ TypeOK /\ q.answer # "none" /\ q.pc = "calling"
      /\ s \in Running /\ q.opened <= now /\ shadow \in [Shadows -> Futures]
  <2>1. q \in Futures /\ Sound(q) /\ TypeOK /\ q.answer # "none"
    BY <1>1, RunningShadow DEF Answered
  <2>2. q.pc = "calling"
    BY <2>1 DEF Sound
  <2> QED BY <1>1, <2>1, <2>2, RunningShadow DEF TypeOK
<1>3. ASSUME NEW outcome, Set(s, Ended(q, outcome)), outcome # "Overloaded"
      PROVE  Further(q, shadow'[s]) /\ shadow'[s].policy = q.policy
  <2>1. shadow'[s] = Ended(q, outcome)
    BY <1>2, <1>3 DEF Set
  <2> QED BY <1>2, <1>3, <2>1, EndedFields DEF Further
<1>4. CASE q.answer = "ok"
  BY <1>1, <1>2, <1>3, <1>4 DEF Answered
<1>5. CASE q.answer # "ok"
  <2>1. PICK delay \in NextRetryDelay(q, Elapsed(q), q.answer = "retry") :
          Set(s, IF delay = None \/ ~CanWait(q.limit, Elapsed(q), delay)
                 THEN Ended(q, "Failed")
                 ELSE [q EXCEPT !.pc = "sleeping", !.answer = "none", !.wake = now + delay])
    BY <1>1, <1>5 DEF Answered
  <2>2. CASE delay = None \/ ~CanWait(q.limit, Elapsed(q), delay)
    BY <1>1, <1>2, <1>3, <2>1, <2>2
  <2>3. CASE delay # None /\ CanWait(q.limit, Elapsed(q), delay)
    <3>1. delay \in NextDelay(q.policy, q.attempt, Elapsed(q), q.answer = "retry")
      BY <2>1, <2>3, Zenon DEF NextRetryDelay
    <3>2. q.attempt < q.policy.max_attempts
      <4>1. ~(q.attempt >= q.policy.max_attempts)
        BY <2>3, <3>1 DEF NextDelay
      <4> QED BY <1>2, <4>1, FutureTypes, AllowedType
    <3>3. delay \in Nat
      <4>1. PICK cap : delay \in Delays(cap, q.policy.jitter)
        BY <2>3, <3>1 DEF NextDelay
      <4> QED BY <4>1 DEF Delays
    <3>4. q.opened \in Nat /\ q.limit \in Nat /\ now \in Nat /\ Elapsed(q) = now - q.opened
      BY <1>2, FutureTypes, Clock, Exhaustion
    <3>5. now < Deadline(q)
      BY <1>2, <2>3, <3>3, <3>4 DEF CanWait, Remaining, Minus, Unlimited, Deadline
    <3>6. q.attempt < Allowed(q)
      BY <1>2, <3>2, FutureTypes, AllowedType DEF Allowed
    <3>7. PICK wake : wake = now + delay
      OBVIOUS
    <3>8. shadow'[s] = [q EXCEPT !.pc = "sleeping", !.answer = "none", !.wake = wake]
      BY <1>2, <2>1, <2>3, <3>7 DEF Set
    <3>9. /\ shadow'[s].pc = "sleeping" /\ shadow'[s].attempt = q.attempt
          /\ shadow'[s].policy = q.policy
      BY <1>2, <3>8 DEF Futures
    <3> QED BY <1>1, <1>2, <3>5, <3>6, <3>9 DEF Further
  <2> QED BY <2>2, <2>3
<1> QED BY <1>1, <1>2, <1>4, <1>5

LEMMA PollFurther ==
  ASSUME Inv, NEW s \in Shadows, Poll(s)
  PROVE  /\ Further(shadow[s], shadow'[s]) /\ shadow'[s].policy = shadow[s].policy
         /\ shadow[s].pc \in {"created", "calling", "sleeping"}
<1>1. PICK q : q = shadow[s]
  OBVIOUS
<1>2. q \in Futures /\ Sound(q) /\ TypeOK /\ shadow \in [Shadows -> Futures]
  BY <1>1, RunningShadow DEF TypeOK
<1>3. s \in Running => q.pc \in {"created", "calling", "sleeping"} /\ q.opened <= now
  BY <1>1, <1>2, RunningShadow DEF Running, Futures
<1>4. ASSUME NEW outcome, Set(s, Ended(q, outcome)), outcome # "Overloaded"
      PROVE  Further(q, shadow'[s]) /\ shadow'[s].policy = q.policy
  <2>1. shadow'[s] = Ended(q, outcome)
    BY <1>2, <1>4 DEF Set
  <2> QED BY <1>2, <1>4, <2>1, EndedFields DEF Further
<1>5. ASSUME s \in Running, ~IsExhausted(q.limit, Elapsed(q))
      PROVE  now < Deadline(q)
  <2>1. now < q.opened + q.limit
    BY <1>2, <1>3, <1>5, Exhaustion
  <2> QED BY <2>1 DEF Deadline
<1>6. CASE Cancelled(s)
  BY <1>1, <1>3, <1>4, <1>6 DEF Cancelled
<1>7. CASE TimedOut(s)
  BY <1>1, <1>3, <1>4, <1>7 DEF TimedOut, Uncancelled
<1>8. CASE Answered(s)
  BY <1>8, AnsweredFurther
<1>9. CASE Start(s)
  <2>1. s \in Running /\ q.pc = "created"
    BY <1>1, <1>9 DEF Start, Uncancelled
  <2>2. CASE IsExhausted(q.limit, Elapsed(q))
    BY <1>1, <1>3, <1>4, <1>9, <2>1, <2>2 DEF Start
  <2>3. CASE ~IsExhausted(q.limit, Elapsed(q))
    <3>1. PICK timer : timer = now + ClampChild(q.limit, Elapsed(q), q.deadline)
      OBVIOUS
    <3>2. shadow'[s] = [q EXCEPT !.pc = "calling", !.attempt = 1, !.timer = timer]
      BY <1>1, <1>2, <1>9, <2>3, <3>1 DEF Start, Set
    <3>3. /\ shadow'[s].pc = "calling" /\ shadow'[s].attempt = 1
          /\ shadow'[s].policy = q.policy
      BY <1>2, <3>2 DEF Futures
    <3> QED BY <1>1, <1>5, <2>1, <2>3, <3>3 DEF Further
  <2> QED BY <2>2, <2>3
<1>10. CASE Woken(s)
  <2>1. s \in Running /\ q.pc = "sleeping"
    BY <1>1, <1>10 DEF Woken, Uncancelled
  <2>2. CASE IsExhausted(q.limit, Elapsed(q))
    BY <1>1, <1>3, <1>4, <1>10, <2>1, <2>2 DEF Woken
  <2>3. CASE ~IsExhausted(q.limit, Elapsed(q))
    <3>1. PICK attempt : attempt = q.attempt + 1
      OBVIOUS
    <3>2. shadow'[s] = [q EXCEPT !.pc = "calling", !.wake = Unlimited, !.attempt = attempt]
      BY <1>1, <1>2, <1>10, <2>3, <3>1 DEF Woken, Set
    <3>3. /\ shadow'[s].pc = "calling" /\ shadow'[s].attempt = q.attempt + 1
          /\ shadow'[s].policy = q.policy
      BY <1>2, <3>1, <3>2 DEF Futures
    <3> QED BY <1>1, <1>5, <2>1, <2>3, <3>3 DEF Further
  <2> QED BY <2>2, <2>3
<1> QED BY <1>6, <1>7, <1>8, <1>9, <1>10 DEF Poll

\* The count of attempts is kept by every step.
CountInv == \A s \in Shadows : Counted(shadow[s])

LEMMA WhoMoves ==
  ASSUME Inv, [Next]_vars, NEW s \in Shadows
  PROVE  \/ shadow'[s] = shadow[s]
         \/ Dispatch(s) \/ Answer(s) \/ Poll(s)
<1>1. shadow \in [Shadows -> Futures]
  BY DEF Inv, TypeOK
<1>2. ASSUME NEW o \in Shadows, o # s, NEW p, Set(o, p)
      PROVE  shadow'[s] = shadow[s]
  BY <1>1, <1>2 DEF Set
<1>3. ASSUME NEW o \in Shadows, o # s, Dispatch(o) \/ Answer(o) \/ Poll(o)
      PROVE  shadow'[s] = shadow[s]
  <2>1. CASE Dispatch(o)
    BY <1>2, <1>3, <2>1 DEF Dispatch
  <2>2. CASE Answer(o)
    BY <1>2, <1>3, <2>2 DEF Answer
  <2>3. CASE Cancelled(o)
    BY <1>2, <1>3, <2>3 DEF Cancelled
  <2>4. CASE Start(o)
    BY <1>2, <1>3, <2>4 DEF Start
  <2>5. CASE Answered(o)
    BY <1>2, <1>3, <2>5 DEF Answered
  <2>6. CASE Woken(o)
    BY <1>2, <1>3, <2>6 DEF Woken
  <2>7. CASE TimedOut(o)
    BY <1>2, <1>3, <2>7 DEF TimedOut
  <2> QED BY <1>3, <2>1, <2>2, <2>3, <2>4, <2>5, <2>6, <2>7 DEF Poll
<1>4. ASSUME Tick \/ (\E o \in Shadows : Cancel(o)) \/ UNCHANGED vars
      PROVE  shadow' = shadow
  BY <1>4 DEF Tick, Cancel, vars
<1> QED BY <1>3, <1>4 DEF Next

LEMMA DispatchCounted ==
  ASSUME Inv, NEW s \in Shadows, Dispatch(s), Counted(shadow[s])
  PROVE  Counted(shadow'[s])
<1>1. PICK q : q = shadow[s]
  OBVIOUS
<1>2. /\ q \in Futures /\ q.pc = "planned" /\ q.attempt = 0
      /\ shadow \in [Shadows -> Futures] /\ shadow' \in [Shadows -> Futures]
  BY <1>1, DispatchKeeps DEF Dispatch, Inv, TypeOK, Kept, Counted
<1>3. PICK p : p = shadow'[s]
  OBVIOUS
<1>4. p.attempt = 0 /\ p.pc \in {"ended", "created"}
  <2>1. CASE Set(s, Ended(q, "Overloaded"))
    BY <1>2, <1>3, <2>1 DEF Set, Ended, Futures
  <2>2. CASE \E limit, deadline, policy, opened :
               Set(s, [q EXCEPT !.pc = "created", !.policy = policy, !.deadline = deadline,
                                !.opened = opened, !.limit = limit])
    BY <1>2, <1>3, <2>2 DEF Set, Futures
  <2> QED BY <1>1, <2>1, <2>2 DEF Dispatch
<1>5. p \in Futures
  BY <1>2, <1>3
<1> QED BY <1>3, <1>4, <1>5, AllowedType DEF Counted

LEMMA PollCounted ==
  ASSUME Inv, NEW s \in Shadows, Poll(s), shadow'[s] \in Futures, Counted(shadow[s])
  PROVE  /\ Counted(shadow'[s])
         /\ Rank(shadow'[s]) > Rank(shadow[s])
         /\ Rank(shadow'[s]) <= 2 * Allowed(shadow[s]) + 1
<1>1. PICK q, p : q = shadow[s] /\ p = shadow'[s]
  OBVIOUS
<1>2. /\ q \in Futures /\ p \in Futures /\ Counted(q) /\ Further(q, p)
      /\ p.policy = q.policy /\ q.pc \in {"created", "calling", "sleeping"}
  BY <1>1, PollFurther DEF Inv, TypeOK
<1>3. Allowed(p) = Allowed(q)
  BY <1>2 DEF Allowed
<1>4. Allowed(q) \in Nat \ {0} /\ q.attempt \in Nat /\ p.attempt \in Nat
  BY <1>2, AllowedType, FutureTypes
<1>5. Counted(p)
  BY <1>2, <1>3, <1>4 DEF Counted, Further
<1>6. Rank(p) > Rank(q) /\ Rank(p) <= 2 * Allowed(q) + 1
  <2>1. CASE p.pc = "ended"
    <3>1. Rank(p) = 2 * Allowed(q) + 1
      BY <1>3, <2>1 DEF Rank
    <3>2. Rank(q) < 2 * Allowed(q) + 1
      BY <1>2, <1>4 DEF Counted, Rank
    <3> QED BY <1>4, <3>1, <3>2
  <2>2. CASE p.pc # "ended"
    <3>1. \/ q.pc = "created" /\ p.pc = "calling" /\ p.attempt = 1
          \/ q.pc = "calling" /\ p.pc = "sleeping" /\ p.attempt = q.attempt
          \/ q.pc = "sleeping" /\ p.pc = "calling" /\ p.attempt = q.attempt + 1
      BY <1>2, <2>2 DEF Further
    <3>2. Rank(p) > Rank(q)
      BY <1>4, <3>1 DEF Rank
    <3>3. p.attempt <= Allowed(q)
      BY <1>3, <1>5 DEF Counted
    <3>4. Rank(p) <= 2 * Allowed(q) + 1
      BY <1>4, <3>1, <3>3 DEF Rank
    <3> QED BY <3>2, <3>4
  <2> QED BY <2>1, <2>2
<1> QED BY <1>1, <1>5, <1>6

LEMMA CountStep ==
  ASSUME Inv, CountInv, [Next]_vars
  PROVE  CountInv'
<1>1. shadow' \in [Shadows -> Futures]
  BY NextInv DEF Inv, TypeOK
<1>2. ASSUME NEW s \in Shadows PROVE Counted(shadow'[s])
  <2>1. Counted(shadow[s]) /\ shadow[s] \in Futures /\ shadow'[s] \in Futures
    BY <1>1 DEF CountInv, Inv, TypeOK
  <2>2. CASE Answer(s)
    <3>1. PICK answer : Set(s, [shadow[s] EXCEPT !.answer = answer])
      BY <2>2 DEF Answer
    <3>2. /\ shadow'[s].pc = shadow[s].pc /\ shadow'[s].attempt = shadow[s].attempt
          /\ shadow'[s].policy = shadow[s].policy
      BY <2>1, <3>1 DEF Set, Futures, Inv, TypeOK
    <3> QED BY <2>1, <3>2 DEF Counted, Allowed
  <2> QED BY <2>1, <2>2, WhoMoves, DispatchCounted, PollCounted
<1>3. ASSUME NEW s \in Shadows PROVE Counted(shadow[s])'
  BY <1>2, <1>3 DEF Counted, Allowed
<1> QED BY <1>3 DEF CountInv

LEMMA CountHolds == Spec => []CountInv
<1>1. Init => CountInv
  BY DEF Init, CountInv, Counted, Planned, Allowed, NoRetry
<1> QED BY <1>1, CountStep, InvHolds, PTL DEF Spec

\* A shadow is attempted at most max_attempts times, or once if its policy has none.
THEOREM AttemptsBounded == Spec => []AttemptsWithinPolicy
<1>1. CountInv => AttemptsWithinPolicy
  BY DEF CountInv, Counted, AttemptsWithinPolicy
<1> QED BY <1>1, CountHolds, PTL

\* Every poll of a dispatched shadow takes it forward, and it has no more than
\* 2 * max_attempts + 1 awaits to pass: however polled, it cannot go on for ever.
THEOREM PollsAdvance == Spec => PollsProgress
<1> DEFINE A(s) == Poll(s) => /\ Rank(shadow'[s]) > Rank(shadow[s])
                              /\ Rank(shadow'[s]) <= 2 * Allowed(shadow[s]) + 1
<1>1. ASSUME Inv, CountInv, [Next]_vars PROVE \A s \in Shadows : A(s)
  <2>1. shadow' \in [Shadows -> Futures]
    BY <1>1, NextInv DEF Inv, TypeOK
  <2> QED BY <1>1, <2>1, PollCounted DEF CountInv
<1> QED BY <1>1, InvHolds, CountHolds, PTL DEF Spec, PollsProgress

\* One poll at or after the end of the budget ends the shadow, whatever it waited for.
THEOREM LatePoll == Spec => LatePollEnds
<1> DEFINE A(s) == Poll(s) /\ now >= Deadline(shadow[s]) => shadow'[s].pc = "ended"
<1>1. ASSUME Inv, NEW s \in Shadows, Poll(s), now >= Deadline(shadow[s])
      PROVE  shadow'[s].pc = "ended"
  <2>1. now \in Nat /\ Deadline(shadow[s]) \in Nat
    BY <1>1, Clock, FutureTypes DEF Inv, TypeOK, Deadline
  <2> QED BY <1>1, <2>1, PollFurther DEF Further
<1>2. ASSUME Inv, [Next]_vars PROVE \A s \in Shadows : A(s)
  BY <1>1, <1>2
<1> QED BY <1>2, InvHolds, PTL DEF Spec, LatePollEnds

\* At the end of its budget the timer of every started shadow has fired, so that its
\* poll is due even if the transport never answers.
THEOREM DeadlineWakes == Spec => []WokenByDeadline
<1>1. ASSUME Inv, NEW s \in Shadows, shadow[s].pc \in {"calling", "sleeping"},
             now >= Deadline(shadow[s])
      PROVE  Due(shadow[s].timer)
  <2>1. shadow[s] \in Futures /\ now \in Nat
    BY <1>1, Clock DEF Inv, TypeOK
  <2>2. shadow[s].timer = Deadline(shadow[s]) /\ Deadline(shadow[s]) \in Nat
    BY <1>1, <2>1, FutureTypes DEF Inv, Sound, Timed, Deadline
  <2> QED BY <1>1, <2>1, <2>2 DEF Due, Unlimited
<1>2. Inv => WokenByDeadline
  BY <1>1 DEF WokenByDeadline
<1> QED BY <1>2, InvHolds, PTL

-----------------------------------------------------------------------------
(* The slots of the shadow bulkhead.                                       *)

SlotOf(q) ==
  IF q.pc = "planned" THEN "idle"
  ELSE IF q.pc # "ended" THEN "granted"
  ELSE IF q.outcome = "Overloaded" THEN "refused" ELSE "idle"

Slots ==
  INSTANCE SlotPool WITH
    Threads <- Shadows, status <- [s \in Shadows |-> SlotOf(shadow[s])]

LEMMA SlotsTaken ==
  ASSUME TypeOK
  PROVE  Slots!Taken = Cardinality(Running)
<1>1. {s \in Shadows : [u \in Shadows |-> SlotOf(shadow[u])][s] = "granted"} = Running
  BY DEF Running, SlotOf
<1>2. \A S : Slots!Cardinality(S) = Cardinality(S)
  BY Zenon DEF Slots!Cardinality, Cardinality
<1> QED BY <1>1, <1>2 DEF Slots!Taken

LEMMA SlotMoves ==
  ASSUME Inv, Inv', [Next]_vars, NEW s \in Shadows, Dispatch(s) \/ Answer(s) \/ Poll(s)
  PROVE  \/ Dispatch(s) /\ (Slots!Refuse(s) \/ Slots!Grant(s))
         \/ Poll(s) /\ Slots!Return(s)
         \/ UNCHANGED [u \in Shadows |-> SlotOf(shadow[u])]
<1> DEFINE status == [u \in Shadows |-> SlotOf(shadow[u])]
<1>1. PICK p : Set(s, p)
  BY DEF Dispatch, Answer, Poll, Cancelled, Start, Answered, Woken, TimedOut
<1>2. PICK q : q = shadow[s]
  OBVIOUS
<1>3. /\ shadow \in [Shadows -> Futures] /\ q \in Futures
      /\ \A u \in Shadows : shadow'[u] = IF u = s THEN p ELSE shadow[u]
      /\ q.pc \in {"planned", "created", "calling", "sleeping", "ended"}
  BY <1>1, <1>2 DEF Inv, TypeOK, Set, Futures
<1>4. /\ \A u \in Shadows : SlotOf(shadow[u])' = IF u = s THEN SlotOf(p) ELSE SlotOf(shadow[u])
      /\ SlotOf(shadow[s]) = SlotOf(q)
  BY <1>2, <1>3 DEF SlotOf
<1>5. /\ status' = [status EXCEPT ![s] = SlotOf(p)] /\ status[s] = SlotOf(q)
      /\ SlotOf(p) = SlotOf(q) => status' = status
  BY <1>4
<1>6. Slots!Taken = Cardinality(Running)
  BY SlotsTaken DEF Inv
<1>7. CASE Dispatch(s)
  <2>1. SlotOf(q) = "idle"
    BY <1>2, <1>7 DEF Dispatch, SlotOf
  <2>2. CASE Cardinality(Running) >= Capacity /\ Set(s, Ended(q, "Overloaded"))
    <3>1. p = Ended(q, "Overloaded")
      BY <1>1, <1>3, <2>2 DEF Set
    <3>2. SlotOf(p) = "refused"
      BY <1>3, <3>1, EndedFields DEF SlotOf
    <3>3. Slots!Refuse(s)
      BY <1>5, <1>6, <2>1, <2>2, <3>2 DEF Slots!Refuse, Slots!Move
    <3> QED BY <1>7, <3>3
  <2>3. CASE /\ Cardinality(Running) < Capacity
             /\ \E limit, deadline, policy, opened :
                  Set(s, [q EXCEPT !.pc = "created", !.policy = policy, !.deadline = deadline,
                                   !.opened = opened, !.limit = limit])
    <3>1. p.pc = "created"
      BY <1>1, <1>3, <2>3 DEF Set, Futures
    <3>2. SlotOf(p) = "granted"
      BY <3>1 DEF SlotOf
    <3>3. Slots!Grant(s)
      BY <1>5, <1>6, <2>1, <2>3, <3>2 DEF Slots!Grant, Slots!Move
    <3> QED BY <1>7, <3>3
  <2> QED BY <1>2, <1>7, <2>2, <2>3 DEF Dispatch
<1>8. CASE Answer(s)
  <2>1. PICK answer : Set(s, [q EXCEPT !.answer = answer])
    BY <1>2, <1>8 DEF Answer
  <2>2. p.pc = q.pc /\ p.outcome = q.outcome
    BY <1>1, <1>3, <2>1 DEF Set, Futures
  <2> QED BY <1>5, <2>2 DEF SlotOf
<1>9. CASE Poll(s)
  <2>1. Further(q, p) /\ q.pc \in {"created", "calling", "sleeping"}
    BY <1>2, <1>3, <1>9, PollFurther
  <2>2. SlotOf(q) = "granted"
    BY <2>1 DEF SlotOf
  <2>3. SlotOf(p) \in {"granted", "idle"}
    BY <2>1 DEF Further, SlotOf
  <2>4. ASSUME SlotOf(p) = "idle" PROVE Slots!Return(s)
    BY <1>5, <2>2, <2>4 DEF Slots!Return, Slots!Move
  <2> QED BY <1>5, <1>9, <2>2, <2>3, <2>4
<1> QED BY <1>7, <1>8, <1>9

\* A dispatched shadow takes a slot of the shadow bulkhead or is refused because all are
\* taken, and whichever way it ends, one poll gives its slot back, once.
THEOREM ShadowsShareAPool == Spec => Slots!Spec
<1>1. Init => Slots!Init
  BY DEF Init, Slots!Init, SlotOf, Planned
<1>2. Inv /\ [Next]_vars => Slots!Next \/ UNCHANGED [s \in Shadows |-> SlotOf(shadow[s])]
  <2> SUFFICES ASSUME Inv, [Next]_vars
               PROVE  Slots!Next \/ UNCHANGED [s \in Shadows |-> SlotOf(shadow[s])]
    OBVIOUS
  <2>1. Inv'
    BY NextInv
  <2>2. CASE \E s \in Shadows : Dispatch(s) \/ Answer(s) \/ Poll(s)
    BY <2>1, <2>2, SlotMoves DEF Slots!Next
  <2>3. CASE UNCHANGED shadow
    BY <2>3
  <2>4. (\E s \in Shadows : Dispatch(s) \/ Answer(s) \/ Poll(s)) \/ UNCHANGED shadow
    BY DEF Next, Tick, Cancel, vars
  <2> QED BY <2>2, <2>3, <2>4
<1> QED BY <1>1, <1>2, InitInv, NextInv, PTL DEF Spec, Slots!Spec
=============================================================================
