------------------------ MODULE CircuitBreakerProofs ------------------------
(***************************************************************************)
(* Proofs about CircuitBreaker, for every set of callers, every thresholds *)
(* and timeout, with or without overflow of Instant.                       *)
(***************************************************************************)
EXTENDS CircuitBreakerRefinement, CircuitBreakerHistory, FiniteSetTheorems,
        TLAPS

-----------------------------------------------------------------------------
(* The pure steps on the fields behind the mutex keep their type. *)

LEMMA RefreshType ==
  ASSUME NEW s \in Shared, now \in Nat
  PROVE  /\ RefreshOpenState(s) \in Shared
         /\ \/ RefreshOpenState(s) = s
            \/ /\ s.mode = "Open"
               /\ now >= s.until
               /\ RefreshOpenState(s) = TransitionHalfOpen(s)
BY DEF RefreshOpenState, TransitionHalfOpen, Shared

LEMMA OutcomeType ==
  ASSUME NEW s \in Shared, NEW p \in Permit
  PROVE  /\ RecordSuccess(s, p) \in Shared
         /\ CountFailure(s, p) \in Shared
<1>1. RecordSuccess(s, p) \in Shared
  <2> DEFINE probed == [s EXCEPT !.in_flight = Decrement(@), !.successes = @ + 1]
  <2>0. Decrement(s.in_flight) \in Nat /\ s.successes + 1 \in Nat
    BY DEF Shared, Decrement
  <2>1. probed \in Shared
    BY <2>0 DEF Shared
  <2>2. [s EXCEPT !.consecutive_failures = 0] \in Shared
    BY DEF Shared
  <2>3. TransitionClosed(probed) \in Shared
    BY <2>1 DEF TransitionClosed, Shared
  <2> HIDE DEF probed
  <2> QED BY <2>1, <2>2, <2>3 DEF RecordSuccess, probed
<1>2. CountFailure(s, p) \in Shared
  BY DEF CountFailure, Shared, Permit, Counts, Decrement
<1> QED BY <1>1, <1>2

LEMMA OpenType ==
  ASSUME NEW s \in Shared, now \in Nat
  PROVE  TransitionOpen(s) \in Shared
BY ConfigAssumption DEF TransitionOpen, Shared

-----------------------------------------------------------------------------
(* TypeOK is inductive: each action writes fields of their type and only     *)
(* Tick moves the clock, within the Horizon.                                 *)
LEMMA TypeStep == TypeOK /\ [Next]_vars => TypeOK'
<1> SUFFICES ASSUME TypeOK, [Next]_vars PROVE TypeOK'
  OBVIOUS
<1> USE DEF TypeOK
<1>0. now \in Nat /\ NoPermit \in Permit
  BY ModelAssumption DEF NoPermit, Permit
<1>1. CASE Tick
  BY <1>1, ModelAssumption DEF Tick
<1>2. CASE State
  BY <1>2, <1>0, RefreshType DEF State
<1>3. ASSUME NEW c \in Callers, TryAcquire(c) PROVE TypeOK'
  <2> DEFINE s == RefreshOpenState(shared)
  <2>1. s \in Shared
    BY <1>0, RefreshType
  <2>2. [s EXCEPT !.in_flight = @ + 1] \in Shared
    BY <2>1 DEF Shared
  <2>3. shared' \in Shared /\ now' = now
    BY <1>3, <2>1, <2>2 DEF TryAcquire
  <2>4. permits' \in [Callers -> Permit]
    BY <1>3, <2>1 DEF TryAcquire, Permit, Shared
  <2> QED BY <2>3, <2>4
<1>4. ASSUME NEW c \in Callers, Success(c) PROVE TypeOK'
  BY <1>4, <1>0, OutcomeType DEF Success, Release
<1>5. ASSUME NEW c \in Callers, Failure(c) PROVE TypeOK'
  <2> DEFINE s == CountFailure(shared, permits[c])
  <2>1. s \in Shared
    BY OutcomeType
  <2>2. TransitionOpen(s) \in Shared /\ [s EXCEPT !.generation = @ + 1] \in Shared
    BY <1>0, <2>1, OpenType DEF Shared
  <2>3. shared' \in Shared /\ now' = now
    BY <1>5, <2>1, <2>2 DEF Failure
  <2>4. permits' \in [Callers -> Permit]
    BY <1>0, <1>5 DEF Failure, Release
  <2> QED BY <2>3, <2>4
<1>6. ASSUME NEW c \in Callers, Drop(c) PROVE TypeOK'
  BY <1>6, <1>0 DEF Drop, Release, Shared, Decrement
<1>7. CASE UNCHANGED vars
  BY <1>7 DEF vars
<1> QED BY <1>1, <1>2, <1>3, <1>4, <1>5, <1>6, <1>7 DEF Next

\* Every variable keeps its type.
THEOREM TypeCorrect == Spec => []TypeOK
<1>1. Init => TypeOK
  BY ModelAssumption DEF Init, TypeOK, Shared, Permit, NoPermit
<1> QED BY <1>1, TypeStep, PTL DEF Spec

-----------------------------------------------------------------------------
(* What a step does to the set of current probes: nothing but its own permit, *)
(* unless it starts a new generation, in which nobody is current.             *)

LEMMA ProbesFinite == IsFiniteSet(CurrentProbes)
<1>1. CurrentProbes \subseteq Callers
  BY DEF CurrentProbes
<1> QED BY <1>1, FS_Subset, ModelAssumption

LEMMA ProbeCount ==
  ASSUME NEW c \in Callers
  PROVE  /\ Cardinality(CurrentProbes) \in Nat
         /\ c \in CurrentProbes =>
              Cardinality(CurrentProbes \ {c}) = Cardinality(CurrentProbes) - 1
         /\ c \notin CurrentProbes =>
              /\ CurrentProbes \ {c} = CurrentProbes
              /\ Cardinality(CurrentProbes \cup {c}) = Cardinality(CurrentProbes) + 1
         /\ c \in CurrentProbes => Cardinality(CurrentProbes) > 0
<1>1. Cardinality(CurrentProbes) \in Nat
  BY ProbesFinite, FS_CardinalityType
<1>2. c \in CurrentProbes =>
        Cardinality(CurrentProbes \ {c}) = Cardinality(CurrentProbes) - 1
  BY ProbesFinite, FS_RemoveElement
<1>3. c \notin CurrentProbes =>
        Cardinality(CurrentProbes \cup {c}) = Cardinality(CurrentProbes) + 1
  BY ProbesFinite, FS_AddElement
<1>4. c \in CurrentProbes => Cardinality(CurrentProbes) > 0
  <2>1. CurrentProbes # {} => Cardinality(CurrentProbes) # 0
    BY ProbesFinite, FS_EmptySet
  <2> QED BY <2>1, <1>1
<1> QED BY <1>1, <1>2, <1>3, <1>4

LEMMA NewGeneration ==
  ASSUME TypeOK, CurrentPermitMatchesMode, shared' \in Shared,
         shared'.generation = shared.generation + 1,
         permits' \in [Callers -> Permit],
         \A c \in Callers : permits'[c] = permits[c] \/ permits'[c] = NoPermit
  PROVE  /\ CurrentPermitMatchesMode'
         /\ \A c \in Callers : ~Current(c)'
         /\ CurrentProbes' = {}
<1>1. ASSUME NEW c \in Callers
      PROVE  permits'[c].generation <= shared.generation /\ ~Current(c)'
  <2>1. permits[c].generation <= shared.generation /\ shared.generation \in Nat
    BY DEF CurrentPermitMatchesMode, TypeOK, Shared
  <2>2. permits'[c].generation <= shared.generation
    BY <2>1 DEF NoPermit, TypeOK, Shared
  <2>3. permits'[c].generation # shared'.generation
    BY <2>1, <2>2 DEF TypeOK, Shared, Permit
  <2> QED BY <2>2, <2>3 DEF Current
<1>2. CurrentPermitMatchesMode'
  BY <1>1 DEF CurrentPermitMatchesMode, TypeOK, Shared, Permit
<1> QED BY <1>1, <1>2 DEF CurrentProbes

LEMMA PermitReleased ==
  ASSUME TypeOK, CurrentPermitMatchesMode, NEW c \in Callers, Release(c),
         shared'.generation = shared.generation, shared'.mode = shared.mode
  PROVE  CurrentPermitMatchesMode' /\ CurrentProbes' = CurrentProbes \ {c}
<1>1. permits' = [permits EXCEPT ![c] = NoPermit] /\ shared.generation \in Nat
  BY DEF Release, TypeOK, Shared
<1>2. CurrentPermitMatchesMode'
  BY <1>1 DEF CurrentPermitMatchesMode, Current, NoPermit, TypeOK
<1>3. CurrentProbes' = CurrentProbes \ {c}
  BY <1>1 DEF CurrentProbes, Current, NoPermit, TypeOK
<1> QED BY <1>2, <1>3

-----------------------------------------------------------------------------
(* The shape of each operation's effect, with the arms the invariant shows   *)
(* dead left out.                                                            *)

Probed(s) == [s EXCEPT !.in_flight = Decrement(@), !.successes = @ + 1]

\* A permit counts exactly when it is current.
LEMMA CountsIffCurrent ==
  ASSUME TypeOK, CurrentPermitMatchesMode, NEW c \in Callers,
         permits[c] # NoPermit
  PROVE  /\ Counts(shared, permits[c], "HalfOpen") <=> c \in CurrentProbes
         /\ Counts(shared, permits[c], "Closed")
              <=> Current(c) /\ permits[c].kind = "Closed"
         /\ Counts(shared, permits[c], "Closed") => c \notin CurrentProbes
         /\ Current(c) => \/ Counts(shared, permits[c], "Closed")
                          \/ Counts(shared, permits[c], "HalfOpen")
<1>1. permits[c] \in Permit
  BY DEF TypeOK
<1>2. Current(c) => permits[c].kind = shared.mode
  BY DEF CurrentPermitMatchesMode
<1> QED BY <1>1, <1>2 DEF Counts, CurrentProbes, Current, Permit

LEMMA SuccessShape ==
  ASSUME TypeOK, CurrentPermitMatchesMode, NEW c \in Callers, Success(c)
  PROVE  \/ /\ c \notin CurrentProbes
            /\ \/ shared' = shared /\ ~Current(c)
               \/ /\ Current(c) /\ shared.mode = "Closed"
                  /\ shared' = [shared EXCEPT !.consecutive_failures = 0]
         \/ /\ c \in CurrentProbes /\ shared.mode = "HalfOpen"
            /\ shared.successes + 1 < HalfOpenSuccessThreshold
            /\ shared' = Probed(shared)
         \/ /\ c \in CurrentProbes /\ shared.mode = "HalfOpen"
            /\ shared.successes + 1 >= HalfOpenSuccessThreshold
            /\ shared' = TransitionClosed(shared)
<1> DEFINE p == permits[c]
<1>0. /\ p # NoPermit /\ shared' = RecordSuccess(shared, p)
      /\ shared \in Shared /\ p \in Permit
  BY DEF Success, TypeOK
<1>1. CASE Counts(shared, p, "Closed")
  <2>1. ~Counts(shared, p, "HalfOpen")
    BY <1>1 DEF Counts
  <2>2. shared' = [shared EXCEPT !.consecutive_failures = 0]
    BY <1>0, <1>1, <2>1 DEF RecordSuccess
  <2> QED BY <1>0, <1>1, <2>2, CountsIffCurrent DEF Counts
<1>2. CASE Counts(shared, p, "HalfOpen")
  <2>1. ~Counts(shared, p, "Closed")
    BY <1>2 DEF Counts
  <2>2. Probed(shared).successes = shared.successes + 1
    BY <1>0 DEF Probed, Shared
  <2>3. TransitionClosed(Probed(shared)) = TransitionClosed(shared)
    BY <1>0 DEF Probed, TransitionClosed, Shared
  <2>4. shared' = IF shared.successes + 1 >= HalfOpenSuccessThreshold
                    THEN TransitionClosed(shared) ELSE Probed(shared)
    <3> HIDE DEF p
    <3> QED BY <1>0, <1>2, <2>1, <2>2, <2>3 DEF RecordSuccess, Probed
  <2>5. c \in CurrentProbes /\ shared.mode = "HalfOpen"
    BY <1>0, <1>2, CountsIffCurrent DEF Counts
  <2>6. shared.successes + 1 \in Nat /\ HalfOpenSuccessThreshold \in Nat
    BY <1>0, ConfigAssumption DEF Shared
  <2>7. CASE shared.successes + 1 >= HalfOpenSuccessThreshold
    BY <2>4, <2>5, <2>7
  <2>8. CASE shared.successes + 1 < HalfOpenSuccessThreshold
    BY <2>4, <2>5, <2>6, <2>8
  <2> QED BY <2>6, <2>7, <2>8
<1>3. CASE ~Counts(shared, p, "Closed") /\ ~Counts(shared, p, "HalfOpen")
  <2>1. shared' = shared
    BY <1>0, <1>3 DEF RecordSuccess
  <2> QED BY <1>0, <1>3, <2>1, CountsIffCurrent
<1> QED BY <1>1, <1>2, <1>3

LEMMA FailureShape ==
  ASSUME TypeOK, CurrentPermitMatchesMode, NEW c \in Callers, Failure(c)
  PROVE  \/ /\ ~Current(c) /\ c \notin CurrentProbes
            /\ shared' = shared
         \/ /\ Current(c) /\ c \notin CurrentProbes /\ shared.mode = "Closed"
            /\ shared.consecutive_failures + 1 < FailureThreshold
            /\ shared' = [shared EXCEPT !.consecutive_failures = @ + 1]
         \/ /\ Current(c)
            /\ \/ /\ shared.mode = "Closed"
                  /\ shared.consecutive_failures + 1 >= FailureThreshold
               \/ shared.mode = "HalfOpen"
            /\ shared' = TransitionOpen(shared)
         \/ /\ Current(c)
            /\ now + OpenTimeout > MaxInstant
            /\ shared'.generation = shared.generation + 1
            /\ shared'.mode = shared.mode
            /\ shared'.in_flight <= shared.in_flight
            /\ shared'.successes = shared.successes
<1> DEFINE p == permits[c]
           s == CountFailure(shared, p)
<1>0. p # NoPermit /\ shared \in Shared /\ p \in Permit /\ s \in Shared
  BY OutcomeType DEF Failure, TypeOK
<1>1. CASE Counts(shared, p, "Closed")
  <2>1. ~Counts(shared, p, "HalfOpen")
    BY <1>1 DEF Counts
  <2>2. s = [shared EXCEPT !.consecutive_failures = @ + 1]
    BY <1>1, <2>1 DEF CountFailure
  <2>3. /\ s.generation = shared.generation /\ s.mode = shared.mode
        /\ s.in_flight = shared.in_flight /\ s.successes = shared.successes
        /\ s.consecutive_failures = shared.consecutive_failures + 1
    BY <1>0, <2>2 DEF Shared
  <2>4. ShouldOpen(s, p) <=> shared.consecutive_failures + 1 >= FailureThreshold
    BY <1>1, <2>1, <2>3 DEF ShouldOpen, Counts
  <2>5. c \notin CurrentProbes /\ Current(c) /\ shared.mode = "Closed"
    BY <1>0, <1>1, CountsIffCurrent DEF Counts
  <2>6. TransitionOpen(s) = TransitionOpen(shared)
    BY <2>3 DEF TransitionOpen
  <2>7. [s EXCEPT !.generation = @ + 1] =
          [shared EXCEPT !.generation = @ + 1, !.consecutive_failures = @ + 1]
    BY <1>0, <2>2 DEF Shared
  <2>8. /\ shared.consecutive_failures + 1 \in Nat /\ FailureThreshold \in Nat
        /\ shared.in_flight \in Nat
    BY <1>0, ConfigAssumption DEF Shared
  <2>9. \/ ~ShouldOpen(s, p) /\ shared' = s
        \/ ShouldOpen(s, p) /\ shared' = TransitionOpen(s)
        \/ /\ ShouldOpen(s, p) /\ now + OpenTimeout > MaxInstant
           /\ shared' = [s EXCEPT !.generation = @ + 1]
    BY DEF Failure
  <2>10. CASE ~ShouldOpen(s, p) /\ shared' = s
    <3>1. shared.consecutive_failures + 1 < FailureThreshold
      BY <2>4, <2>8, <2>10
    <3> QED BY <3>1, <2>2, <2>5, <2>10
  <2>11. CASE ShouldOpen(s, p) /\ shared' = TransitionOpen(s)
    BY <2>4, <2>5, <2>6, <2>11
  <2>12. CASE /\ ShouldOpen(s, p) /\ now + OpenTimeout > MaxInstant
              /\ shared' = [s EXCEPT !.generation = @ + 1]
    <3>1. /\ shared'.generation = shared.generation + 1
          /\ shared'.mode = shared.mode
          /\ shared'.in_flight <= shared.in_flight
          /\ shared'.successes = shared.successes
      BY <1>0, <2>3, <2>8, <2>12 DEF Shared
    <3> QED BY <3>1, <2>5, <2>12
  <2> QED BY <2>9, <2>10, <2>11, <2>12
<1>2. CASE Counts(shared, p, "HalfOpen")
  <2>1. ~Counts(shared, p, "Closed")
    BY <1>2 DEF Counts
  <2>2. s = [shared EXCEPT !.in_flight = Decrement(@)]
    BY <1>2, <2>1 DEF CountFailure
  <2>3. /\ s.generation = shared.generation /\ s.mode = shared.mode
        /\ s.in_flight <= shared.in_flight /\ s.successes = shared.successes
    BY <1>0, <2>2 DEF Shared, Decrement
  <2>4. ShouldOpen(s, p)
    BY <1>2, <2>3 DEF ShouldOpen, Counts
  <2>5. c \in CurrentProbes /\ Current(c) /\ shared.mode = "HalfOpen"
    BY <1>0, <1>2, CountsIffCurrent DEF Counts, CurrentProbes
  <2>6. TransitionOpen(s) = TransitionOpen(shared)
    BY <2>3 DEF TransitionOpen
  <2>9. \/ shared' = TransitionOpen(s)
        \/ /\ now + OpenTimeout > MaxInstant
           /\ shared' = [s EXCEPT !.generation = @ + 1]
    BY <2>4 DEF Failure
  <2>10. CASE shared' = TransitionOpen(s)
    BY <2>5, <2>6, <2>10
  <2>11. CASE /\ now + OpenTimeout > MaxInstant
              /\ shared' = [s EXCEPT !.generation = @ + 1]
    <3>1. /\ shared'.generation = shared.generation + 1
          /\ shared'.mode = shared.mode
          /\ shared'.in_flight <= shared.in_flight
          /\ shared'.successes = shared.successes
      BY <1>0, <2>3, <2>11 DEF Shared
    <3> QED BY <3>1, <2>5, <2>11
  <2> QED BY <2>9, <2>10, <2>11
<1>3. CASE ~Counts(shared, p, "Closed") /\ ~Counts(shared, p, "HalfOpen")
  <2>1. s = shared
    BY <1>3 DEF CountFailure
  <2>2. ~ShouldOpen(s, p)
    BY <1>3, <2>1 DEF ShouldOpen
  <2>3. shared' = shared
    BY <2>1, <2>2 DEF Failure
  <2> QED BY <1>0, <1>3, <2>3, CountsIffCurrent
<1> QED BY <1>1, <1>2, <1>3

LEMMA DropShape ==
  ASSUME TypeOK, CurrentPermitMatchesMode, NEW c \in Callers, Drop(c)
  PROVE  \/ c \notin CurrentProbes /\ shared' = shared
         \/ /\ c \in CurrentProbes /\ shared.mode = "HalfOpen"
            /\ shared' = [shared EXCEPT !.in_flight = Decrement(@)]
BY CountsIffCurrent DEF Drop, Counts

LEMMA TryAcquireShape ==
  ASSUME TypeOK, NEW c \in Callers, TryAcquire(c)
  PROVE  /\ permits[c] = NoPermit
         /\ \/ /\ shared' = shared /\ permits' = permits
            \/ /\ shared' = shared /\ shared.mode = "Closed"
               /\ permits' = [permits EXCEPT ![c] =
                    [kind |-> "Closed", generation |-> shared.generation]]
            \/ /\ shared.mode = "HalfOpen"
               /\ shared.in_flight < HalfOpenSuccessThreshold
               /\ shared' = [shared EXCEPT !.in_flight = @ + 1]
               /\ permits' = [permits EXCEPT ![c] =
                    [kind |-> "HalfOpen", generation |-> shared.generation]]
            \/ /\ shared.mode = "Open" /\ now >= shared.until
               /\ shared' = [TransitionHalfOpen(shared) EXCEPT !.in_flight = 1]
               /\ permits' = [permits EXCEPT ![c] =
                    [kind |-> "HalfOpen", generation |-> shared.generation + 1]]
<1> DEFINE s == RefreshOpenState(shared)
<1>0. shared \in Shared /\ now \in Nat /\ permits[c] = NoPermit
  BY ModelAssumption DEF TypeOK, TryAcquire
<1>1. CASE s = shared
  BY <1>0, <1>1 DEF TryAcquire, HasProbeSlot
<1>2. CASE /\ shared.mode = "Open" /\ now >= shared.until
           /\ s = TransitionHalfOpen(shared)
  <2>1. s.mode = "HalfOpen" /\ s.in_flight = 0 /\ s.generation = shared.generation + 1
    BY <1>2 DEF TransitionHalfOpen
  <2>2. HasProbeSlot(s)
    BY <2>1, ConfigAssumption DEF HasProbeSlot
  <2>3. shared' = [s EXCEPT !.in_flight = @ + 1]
    BY <2>1, <2>2 DEF TryAcquire
  <2>4. shared' = [TransitionHalfOpen(shared) EXCEPT !.in_flight = 1]
    BY <1>2, <2>3 DEF TransitionHalfOpen
  <2>5. permits' = [permits EXCEPT ![c] =
                     [kind |-> "HalfOpen", generation |-> shared.generation + 1]]
    BY <2>1, <2>2 DEF TryAcquire
  <2> QED BY <1>0, <1>2, <2>4, <2>5
<1> QED BY <1>0, <1>1, <1>2, RefreshType

\* An admission under the current generation adds its caller to the probes when
\* the permit is a probe's; the first probe of a generation is alone.
LEMMA PermitIssued ==
  ASSUME TypeOK, CurrentPermitMatchesMode, NEW c \in Callers, permits[c] = NoPermit,
         NEW kind \in {"Closed", "HalfOpen"}, shared.mode = kind,
         permits' = [permits EXCEPT ![c] =
                       [kind |-> kind, generation |-> shared.generation]],
         shared'.generation = shared.generation, shared'.mode = kind
  PROVE  /\ CurrentPermitMatchesMode'
         /\ c \notin CurrentProbes
         /\ CurrentProbes' = IF kind = "HalfOpen" THEN CurrentProbes \cup {c}
                                                 ELSE CurrentProbes
<1>1. shared.generation \in Nat
  BY DEF TypeOK, Shared
<1>2. CurrentPermitMatchesMode'
  BY <1>1 DEF CurrentPermitMatchesMode, Current, TypeOK
<1>3. c \notin CurrentProbes
  BY DEF CurrentProbes, NoPermit
<1>4. CurrentProbes' = IF kind = "HalfOpen" THEN CurrentProbes \cup {c}
                                            ELSE CurrentProbes
  BY <1>1 DEF CurrentProbes, Current, NoPermit, TypeOK
<1> QED BY <1>2, <1>3, <1>4

LEMMA FirstProbe ==
  ASSUME TypeOK, CurrentPermitMatchesMode, NEW c \in Callers,
         permits' = [permits EXCEPT ![c] =
                       [kind |-> "HalfOpen", generation |-> shared.generation + 1]],
         shared'.generation = shared.generation + 1, shared'.mode = "HalfOpen"
  PROVE  CurrentPermitMatchesMode' /\ CurrentProbes' = {c}
<1>1. shared.generation \in Nat
  BY DEF TypeOK, Shared
<1>2. \A d \in Callers : permits[d].generation < shared.generation + 1
  BY <1>1 DEF CurrentPermitMatchesMode, TypeOK, Permit
<1>3. CurrentPermitMatchesMode'
  BY <1>1, <1>2 DEF CurrentPermitMatchesMode, Current, TypeOK, Permit
<1>4. CurrentProbes' = {c}
  BY <1>1, <1>2 DEF CurrentProbes, Current, TypeOK, Permit
<1> QED BY <1>3, <1>4

-----------------------------------------------------------------------------
(* The inductive invariant.  ProbeLimit alone is not inductive: that a stale *)
(* permit returns no slot of a later era rests on CurrentPermitMatchesMode.  *)

Inv == TypeOK /\ CurrentPermitMatchesMode /\ ProbeLimit

LEMMA InvInit == Init => Inv
<1> SUFFICES ASSUME Init PROVE Inv
  OBVIOUS
<1>1. TypeOK /\ CurrentPermitMatchesMode
  BY ModelAssumption
  DEF Init, TypeOK, Shared, Permit, NoPermit, CurrentPermitMatchesMode, Current
<1>2. CurrentProbes = {}
  BY DEF Init, CurrentProbes, Current, NoPermit
<1>3. ProbeLimit
  BY <1>2, FS_EmptySet, ConfigAssumption DEF Init, ProbeLimit
<1> QED BY <1>1, <1>3 DEF Inv

\* The Slots part of a step that keeps the probes but for a released one.
LEMMA SlotReturned ==
  ASSUME TypeOK, CurrentPermitMatchesMode, ProbeLimit, NEW c \in Callers,
         Release(c), c \in CurrentProbes,
         shared'.generation = shared.generation, shared'.mode = shared.mode,
         shared'.in_flight = Decrement(shared.in_flight),
         shared'.successes < HalfOpenSuccessThreshold
  PROVE  ProbeLimit'
<1>1. CurrentProbes' = CurrentProbes \ {c}
  BY PermitReleased
<1>2. Cardinality(CurrentProbes') = Cardinality(CurrentProbes) - 1
  BY <1>1, ProbeCount
<1>3. /\ shared.in_flight \in Nat /\ HalfOpenSuccessThreshold \in Nat
      /\ Cardinality(CurrentProbes) \in Nat /\ Cardinality(CurrentProbes) > 0
  BY ProbeCount, ConfigAssumption DEF TypeOK, Shared
<1>4. /\ Cardinality(CurrentProbes) - 1 <= shared'.in_flight
      /\ shared'.in_flight <= HalfOpenSuccessThreshold
  BY <1>3 DEF ProbeLimit, Decrement
<1> QED BY <1>2, <1>4 DEF ProbeLimit

LEMMA InvStep == Inv /\ [Next]_vars => Inv'
<1> SUFFICES ASSUME Inv, [Next]_vars PROVE Inv'
  OBVIOUS
<1>0. /\ TypeOK /\ CurrentPermitMatchesMode /\ ProbeLimit /\ TypeOK'
      /\ shared \in Shared /\ shared' \in Shared
      /\ permits' \in [Callers -> Permit]
      /\ HalfOpenSuccessThreshold \in Nat \ {0} /\ now \in Nat
  BY TypeStep, ConfigAssumption, ModelAssumption DEF Inv, TypeOK
<1>1. CASE UNCHANGED <<shared, permits>>
  BY <1>0, <1>1 DEF Inv, CurrentPermitMatchesMode, Current, ProbeLimit, CurrentProbes
<1>2. CASE State
  <2>1. CASE shared' = shared
    BY <1>1, <1>2, <2>1 DEF State
  <2>2. CASE shared' = TransitionHalfOpen(shared)
    <3>1. /\ shared'.generation = shared.generation + 1 /\ shared'.mode = "HalfOpen"
          /\ shared'.in_flight = 0 /\ shared'.successes = 0 /\ permits' = permits
      BY <1>2, <2>2 DEF TransitionHalfOpen, State
    <3>2. CurrentPermitMatchesMode' /\ CurrentProbes' = {}
      BY <1>0, <3>1, NewGeneration
    <3> QED BY <1>0, <3>1, <3>2, FS_EmptySet DEF Inv, ProbeLimit
  <2> QED BY <1>0, <1>2, <2>1, <2>2, RefreshType DEF State
<1>3. ASSUME NEW c \in Callers, TryAcquire(c) PROVE Inv'
  <2>0. permits[c] = NoPermit
    BY <1>0, <1>3, TryAcquireShape
  <2>1. CASE shared' = shared /\ permits' = permits
    BY <1>1, <2>1
  <2>2. CASE /\ shared' = shared /\ shared.mode = "Closed"
             /\ permits' = [permits EXCEPT ![c] =
                  [kind |-> "Closed", generation |-> shared.generation]]
    <3>1. CurrentPermitMatchesMode' /\ CurrentProbes' = CurrentProbes
      BY <1>0, <2>0, <2>2, PermitIssued
    <3> QED BY <1>0, <2>2, <3>1 DEF Inv, ProbeLimit
  <2>3. CASE /\ shared.mode = "HalfOpen"
             /\ shared.in_flight < HalfOpenSuccessThreshold
             /\ shared' = [shared EXCEPT !.in_flight = @ + 1]
             /\ permits' = [permits EXCEPT ![c] =
                  [kind |-> "HalfOpen", generation |-> shared.generation]]
    <3>1. /\ shared'.generation = shared.generation /\ shared'.mode = "HalfOpen"
          /\ shared'.in_flight = shared.in_flight + 1
          /\ shared'.successes = shared.successes
      BY <1>0, <2>3 DEF Shared
    <3>2. /\ CurrentPermitMatchesMode' /\ c \notin CurrentProbes
          /\ CurrentProbes' = CurrentProbes \cup {c}
      BY <1>0, <2>0, <2>3, <3>1, PermitIssued
    <3>3. Cardinality(CurrentProbes') = Cardinality(CurrentProbes) + 1
      BY <3>2, ProbeCount
    <3>4. Cardinality(CurrentProbes) \in Nat /\ shared.in_flight \in Nat
      BY <1>0, ProbeCount DEF Shared
    <3>5. /\ Cardinality(CurrentProbes) + 1 <= shared'.in_flight
          /\ shared'.in_flight <= HalfOpenSuccessThreshold
      BY <1>0, <2>3, <3>1, <3>4 DEF ProbeLimit
    <3>6. ProbeLimit'
      BY <1>0, <3>1, <3>3, <3>5 DEF ProbeLimit
    <3> QED BY <1>0, <3>2, <3>6 DEF Inv
  <2>4. CASE /\ shared.mode = "Open" /\ now >= shared.until
             /\ shared' = [TransitionHalfOpen(shared) EXCEPT !.in_flight = 1]
             /\ permits' = [permits EXCEPT ![c] =
                  [kind |-> "HalfOpen", generation |-> shared.generation + 1]]
    <3>1. /\ shared'.generation = shared.generation + 1 /\ shared'.mode = "HalfOpen"
          /\ shared'.in_flight = 1 /\ shared'.successes = 0
      BY <2>4 DEF TransitionHalfOpen
    <3>2. CurrentPermitMatchesMode' /\ CurrentProbes' = {c}
      BY <1>0, <2>4, <3>1, FirstProbe
    <3>3. ProbeLimit'
      BY <1>0, <3>1, <3>2, FS_Singleton DEF ProbeLimit
    <3> QED BY <1>0, <3>2, <3>3 DEF Inv
  <2> QED BY <1>0, <1>3, <2>1, <2>2, <2>3, <2>4, TryAcquireShape
<1>4. ASSUME NEW c \in Callers, Release(c),
             shared'.generation = shared.generation + 1,
             shared'.in_flight <= shared.in_flight,
             shared'.successes <= shared.successes
      PROVE  Inv'
  <2>1. CurrentPermitMatchesMode' /\ CurrentProbes' = {}
    BY <1>0, <1>4, NewGeneration DEF Release, TypeOK
  <2>2. ProbeLimit'
    BY <1>0, <1>4, <2>1, FS_EmptySet DEF ProbeLimit, Shared
  <2> QED BY <1>0, <2>1, <2>2 DEF Inv
<1>5. ASSUME NEW c \in Callers, Release(c), c \notin CurrentProbes,
             shared'.generation = shared.generation, shared'.mode = shared.mode,
             shared'.in_flight = shared.in_flight,
             shared'.successes = shared.successes
      PROVE  Inv'
  <2>1. CurrentPermitMatchesMode' /\ CurrentProbes' = CurrentProbes
    BY <1>0, <1>5, PermitReleased, ProbeCount
  <2> QED BY <1>0, <1>5, <2>1 DEF Inv, ProbeLimit
<1>6. ASSUME NEW c \in Callers, Release(c), c \in CurrentProbes,
             shared'.generation = shared.generation, shared'.mode = shared.mode,
             shared'.in_flight = Decrement(shared.in_flight),
             shared'.successes < HalfOpenSuccessThreshold
      PROVE  Inv'
  BY <1>0, <1>6, PermitReleased, SlotReturned DEF Inv
<1>7. ASSUME NEW c \in Callers, Success(c) PROVE Inv'
  <2>0. Release(c)
    BY <1>7 DEF Success
  <2>1. CASE c \notin CurrentProbes /\ shared' = shared
    BY <1>5, <2>0, <2>1
  <2>2. CASE /\ c \notin CurrentProbes
             /\ shared' = [shared EXCEPT !.consecutive_failures = 0]
    BY <1>0, <1>5, <2>0, <2>2 DEF Shared
  <2>3. CASE /\ c \in CurrentProbes
             /\ shared.successes + 1 < HalfOpenSuccessThreshold
             /\ shared' = Probed(shared)
    BY <1>0, <1>6, <2>0, <2>3 DEF Probed, Shared
  <2>4. CASE shared' = TransitionClosed(shared)
    <3>1. /\ shared'.generation = shared.generation + 1
          /\ shared'.in_flight = 0 /\ shared'.successes = 0
      BY <2>4 DEF TransitionClosed
    <3> QED BY <1>0, <1>4, <2>0, <3>1 DEF Shared
  <2> QED BY <1>0, <1>7, <2>1, <2>2, <2>3, <2>4, SuccessShape
<1>8. ASSUME NEW c \in Callers, Failure(c) PROVE Inv'
  <2>0. Release(c)
    BY <1>8 DEF Failure
  <2>1. CASE c \notin CurrentProbes /\ shared' = shared
    BY <1>5, <2>0, <2>1
  <2>2. CASE /\ c \notin CurrentProbes
             /\ shared' = [shared EXCEPT !.consecutive_failures = @ + 1]
    BY <1>0, <1>5, <2>0, <2>2 DEF Shared
  <2>3. CASE shared' = TransitionOpen(shared)
    <3>1. /\ shared'.generation = shared.generation + 1
          /\ shared'.in_flight = 0 /\ shared'.successes = 0
      BY <2>3 DEF TransitionOpen
    <3> QED BY <1>0, <1>4, <2>0, <3>1 DEF Shared
  <2>4. CASE /\ shared'.generation = shared.generation + 1
             /\ shared'.in_flight <= shared.in_flight
             /\ shared'.successes = shared.successes
    BY <1>0, <1>4, <2>0, <2>4 DEF Shared
  <2> QED BY <1>0, <1>8, <2>1, <2>2, <2>3, <2>4, FailureShape
<1>9. ASSUME NEW c \in Callers, Drop(c) PROVE Inv'
  <2>0. Release(c)
    BY <1>9 DEF Drop
  <2>1. CASE c \notin CurrentProbes /\ shared' = shared
    BY <1>5, <2>0, <2>1
  <2>2. CASE /\ c \in CurrentProbes
             /\ shared' = [shared EXCEPT !.in_flight = Decrement(@)]
    BY <1>0, <1>6, <2>0, <2>2 DEF Shared, ProbeLimit
  <2> QED BY <1>0, <1>9, <2>1, <2>2, DropShape
<1> QED BY <1>1, <1>2, <1>3, <1>7, <1>8, <1>9 DEF Next, vars, Tick

LEMMA InvHolds == Spec => []Inv
BY InvInit, InvStep, PTL DEF Spec

\* Every permit of the current generation belongs to the current mode, so no
\* outcome of an older era can be mistaken for one of this era.
THEOREM PermitsMatchMode == Spec => []CurrentPermitMatchesMode
<1>1. Inv => CurrentPermitMatchesMode
  BY DEF Inv
<1> QED BY <1>1, InvHolds, PTL

\* No era has more unfinished probes than half_open_success_threshold, whatever
\* the interleaving, the timeout and the panics.
THEOREM ProbesLimited == Spec => []ProbeLimit
<1>1. Inv => ProbeLimit
  BY DEF Inv
<1> QED BY <1>1, InvHolds, PTL

-----------------------------------------------------------------------------
(* The generation of the code is a u64: it is the one here modulo 2^64.       *)

LEMMA Divided ==
  ASSUME NEW a \in Nat, NEW W \in Nat \ {0}
  PROVE  /\ a \div W \in Int /\ a % W \in 0 .. W - 1
         /\ a = W * (a \div W) + (a % W)
<1>1. a \div W \in Int
  OBVIOUS
<1>2. a % W \in 0 .. W - 1
  OBVIOUS
<1>3. a = W * (a \div W) + (a % W)
  BY SMTT(60)
<1> QED BY <1>1, <1>2, <1>3

\* Numbers less than W apart are told apart modulo W.
LEMMA ModuloTells ==
  ASSUME NEW W \in Nat \ {0}, NEW a \in Nat, NEW b \in Nat,
         b <= a, a - b < W, a % W = b % W
  PROVE  a = b
<1> DEFINE p == a \div W
           q == b \div W
           r == b % W
<1>1. /\ p \in Int /\ q \in Int /\ r \in Int
      /\ a = W * p + r /\ b = W * q + r
  BY Divided
<1> HIDE DEF p, q, r
<1>2. W * p = W * q + (a - b)
  BY <1>1
<1>3. ~(p > q)
  <2>1. SUFFICES ASSUME p > q PROVE FALSE
    OBVIOUS
  <2>2. p - q - 1 \in Nat
    BY <1>1, <2>1
  <2>3. W * (p - q - 1) \in Nat
    BY <2>2
  <2>4. W * p = W * q + W + W * (p - q - 1)
    BY <1>1
  <2> QED BY <1>1, <1>2, <2>3, <2>4
<1>4. ~(q > p)
  <2>1. SUFFICES ASSUME q > p PROVE FALSE
    OBVIOUS
  <2>2. q - p - 1 \in Nat
    BY <1>1, <2>1
  <2>3. W * (q - p - 1) \in Nat
    BY <2>2
  <2>4. W * q = W * p + W + W * (q - p - 1)
    BY <1>1
  <2> QED BY <1>1, <1>2, <2>3, <2>4
<1> QED BY <1>1, <1>3, <1>4

\* The comparison of a permit's generation with the breaker's, done on what is left of
\* them in W values, for a permit fewer than W transitions old.
WrapHarmless(W) ==
  \A c \in Callers :
    shared.generation - permits[c].generation < W =>
      (permits[c].generation % W = shared.generation % W <=>
         permits[c].generation = shared.generation)

\* wrapping_add in place of + 1 changes nothing for a permit that has not been held
\* across W transitions: W is 2^64 in the code.
THEOREM GenerationMayWrap ==
  ASSUME NEW W \in Nat \ {0}
  PROVE  Spec => []WrapHarmless(W)
<1>1. Inv => WrapHarmless(W)
  <2> SUFFICES ASSUME Inv, NEW c \in Callers,
                      shared.generation - permits[c].generation < W,
                      permits[c].generation % W = shared.generation % W
               PROVE  permits[c].generation = shared.generation
    BY DEF WrapHarmless
  <2>1. /\ permits[c].generation \in Nat /\ shared.generation \in Nat
        /\ permits[c].generation <= shared.generation
    BY DEF Inv, TypeOK, Shared, Permit, CurrentPermitMatchesMode
  <2> QED BY <2>1, ModuloTells
<1> QED BY <1>1, InvHolds, PTL

-----------------------------------------------------------------------------
(* A step that starts an era starts it with the counters of the mode at 0;   *)
(* one that moves the generation alone is an opening that panicked.          *)

LEMMA EraOrPanic ==
  ASSUME Inv, [Next]_vars
  PROVE  \/ shared'.generation = shared.generation /\ shared'.mode = shared.mode
         \/ /\ shared'.generation = shared.generation + 1
            /\ shared'.mode # shared.mode
            /\ shared'.consecutive_failures = 0 /\ shared'.successes = 0
         \/ /\ shared'.generation = shared.generation + 1
            /\ shared'.mode = shared.mode
            /\ now + OpenTimeout > MaxInstant
<1> DEFINE Same == shared'.generation = shared.generation /\ shared'.mode = shared.mode
           NewEra == /\ shared'.generation = shared.generation + 1
                     /\ shared'.mode # shared.mode
                     /\ shared'.consecutive_failures = 0 /\ shared'.successes = 0
           Panic == /\ shared'.generation = shared.generation + 1
                    /\ shared'.mode = shared.mode
                    /\ now + OpenTimeout > MaxInstant
<1> SUFFICES Same \/ NewEra \/ Panic
  OBVIOUS
<1>0. /\ TypeOK /\ CurrentPermitMatchesMode /\ shared \in Shared /\ now \in Nat
  BY ModelAssumption DEF Inv, TypeOK
<1>1. CASE UNCHANGED shared
  BY <1>1
<1>2. CASE State
  BY <1>0, <1>2, RefreshType DEF State, TransitionHalfOpen
<1>3. ASSUME NEW c \in Callers, TryAcquire(c) PROVE Same \/ NewEra
  <2>1. CASE shared' = shared
    BY <2>1
  <2>2. CASE shared' = [shared EXCEPT !.in_flight = @ + 1]
    BY <1>0, <2>2 DEF Shared
  <2>3. CASE /\ shared.mode = "Open"
             /\ shared' = [TransitionHalfOpen(shared) EXCEPT !.in_flight = 1]
    BY <2>3 DEF TransitionHalfOpen
  <2> QED BY <1>0, <1>3, <2>1, <2>2, <2>3, TryAcquireShape
<1>4. ASSUME NEW c \in Callers, Success(c) PROVE Same \/ NewEra
  <2>1. CASE shared' = shared
    BY <2>1
  <2>2. CASE \/ shared' = [shared EXCEPT !.consecutive_failures = 0]
             \/ shared' = Probed(shared)
    BY <1>0, <2>2 DEF Shared, Probed
  <2>3. CASE shared.mode = "HalfOpen" /\ shared' = TransitionClosed(shared)
    BY <2>3 DEF TransitionClosed
  <2> QED BY <1>0, <1>4, <2>1, <2>2, <2>3, SuccessShape
<1>5. ASSUME NEW c \in Callers, Failure(c) PROVE Same \/ NewEra \/ Panic
  <2>1. CASE shared' = shared
    BY <2>1
  <2>2. CASE shared' = [shared EXCEPT !.consecutive_failures = @ + 1]
    BY <1>0, <2>2 DEF Shared
  <2>3. CASE /\ shared.mode \in {"Closed", "HalfOpen"}
             /\ shared' = TransitionOpen(shared)
    BY <2>3 DEF TransitionOpen
  <2> QED BY <1>0, <1>5, <2>1, <2>2, <2>3, FailureShape
<1>6. ASSUME NEW c \in Callers, Drop(c) PROVE Same
  BY <1>0, <1>6, DropShape DEF Shared
<1> QED BY <1>1, <1>2, <1>3, <1>4, <1>5, <1>6 DEF Next, vars, Tick

-----------------------------------------------------------------------------
(* While no opening panics, the counters are exact.  Given Inv, this adds    *)
(* one inductive fact: the in_flight of a mode other than HalfOpen is 0,     *)
(* which ProbeAccounting says of it since no probe is current then.          *)

Exact == ProbeAccounting /\ ThresholdTripsBreaker

NoPanic == shared'.mode = shared.mode => shared'.generation = shared.generation

LEMMA ExactStep ==
  ASSUME Inv, Exact, [Next]_vars, NoPanic
  PROVE  Exact'
<1>0. /\ TypeOK /\ CurrentPermitMatchesMode /\ shared \in Shared
      /\ permits \in [Callers -> Permit] /\ permits' \in [Callers -> Permit]
      /\ shared' \in Shared
      /\ FailureThreshold \in Nat \ {0}
      /\ shared.in_flight = Cardinality(CurrentProbes)
  BY TypeStep, ConfigAssumption DEF Inv, TypeOK, Exact, ProbeAccounting
<1>1. CASE UNCHANGED <<shared, permits>>
  BY <1>1 DEF Exact, ProbeAccounting, ThresholdTripsBreaker, CurrentProbes, Current
<1>2. ASSUME shared'.generation = shared.generation + 1, shared'.in_flight = 0,
             shared'.consecutive_failures = 0,
             \A c \in Callers : permits'[c] = permits[c] \/ permits'[c] = NoPermit
      PROVE  Exact'
  <2>1. CurrentProbes' = {}
    BY <1>0, <1>2, NewGeneration
  <2> QED BY <1>0, <1>2, <2>1, FS_EmptySet
          DEF Exact, ProbeAccounting, ThresholdTripsBreaker
<1>3. ASSUME NEW c \in Callers, Release(c), c \notin CurrentProbes,
             shared'.generation = shared.generation, shared'.mode = shared.mode,
             shared'.in_flight = shared.in_flight,
             shared.mode = "Closed" =>
               shared'.consecutive_failures < FailureThreshold
      PROVE  Exact'
  <2>1. CurrentProbes' = CurrentProbes
    BY <1>0, <1>3, PermitReleased, ProbeCount
  <2> QED BY <1>0, <1>3, <2>1 DEF Exact, ProbeAccounting, ThresholdTripsBreaker
<1>4. ASSUME NEW c \in Callers, Release(c), c \in CurrentProbes,
             shared.mode = "HalfOpen",
             shared'.generation = shared.generation, shared'.mode = shared.mode,
             shared'.in_flight = Decrement(shared.in_flight)
      PROVE  Exact'
  <2>1. /\ CurrentProbes' = CurrentProbes \ {c}
        /\ Cardinality(CurrentProbes \ {c}) = Cardinality(CurrentProbes) - 1
        /\ Cardinality(CurrentProbes) > 0
    BY <1>0, <1>4, PermitReleased, ProbeCount
  <2>2. shared'.in_flight = Cardinality(CurrentProbes')
    BY <1>0, <1>4, <2>1 DEF Decrement
  <2> QED BY <1>4, <2>2 DEF Exact, ProbeAccounting, ThresholdTripsBreaker
<1>5. CASE State
  <2>1. CASE shared' = shared
    BY <1>1, <1>5, <2>1 DEF State
  <2>2. CASE shared' = TransitionHalfOpen(shared)
    <3>1. /\ shared'.generation = shared.generation + 1
          /\ shared'.in_flight = 0 /\ shared'.consecutive_failures = 0
      BY <2>2 DEF TransitionHalfOpen
    <3> QED BY <1>2, <1>5, <3>1 DEF State
  <2>3. now \in Nat
    BY <1>0, ModelAssumption DEF TypeOK
  <2> QED BY <1>0, <1>5, <2>1, <2>2, <2>3, RefreshType DEF State
<1>6. ASSUME NEW c \in Callers, TryAcquire(c) PROVE Exact'
  <2>0. permits[c] = NoPermit
    BY <1>0, <1>6, TryAcquireShape
  <2>1. CASE shared' = shared /\ permits' = permits
    BY <1>1, <2>1
  <2>2. CASE /\ shared' = shared /\ shared.mode = "Closed"
             /\ permits' = [permits EXCEPT ![c] =
                  [kind |-> "Closed", generation |-> shared.generation]]
    <3>1. CurrentProbes' = CurrentProbes
      BY <1>0, <2>0, <2>2, PermitIssued
    <3> QED BY <2>2, <3>1 DEF Exact, ProbeAccounting, ThresholdTripsBreaker
  <2>3. CASE /\ shared.mode = "HalfOpen"
             /\ shared.in_flight < HalfOpenSuccessThreshold
             /\ shared' = [shared EXCEPT !.in_flight = @ + 1]
             /\ permits' = [permits EXCEPT ![c] =
                  [kind |-> "HalfOpen", generation |-> shared.generation]]
    <3>1. /\ shared'.generation = shared.generation /\ shared'.mode = "HalfOpen"
          /\ shared'.in_flight = shared.in_flight + 1
      BY <1>0, <2>3 DEF Shared
    <3>2. c \notin CurrentProbes /\ CurrentProbes' = CurrentProbes \cup {c}
      BY <1>0, <2>0, <2>3, <3>1, PermitIssued
    <3>3. Cardinality(CurrentProbes') = shared'.in_flight
      BY <1>0, <3>1, <3>2, ProbeCount
    <3> QED BY <3>1, <3>3 DEF Exact, ProbeAccounting, ThresholdTripsBreaker
  <2>4. CASE /\ shared.mode = "Open" /\ now >= shared.until
             /\ shared' = [TransitionHalfOpen(shared) EXCEPT !.in_flight = 1]
             /\ permits' = [permits EXCEPT ![c] =
                  [kind |-> "HalfOpen", generation |-> shared.generation + 1]]
    <3>1. /\ shared'.generation = shared.generation + 1 /\ shared'.mode = "HalfOpen"
          /\ shared'.in_flight = 1
      BY <2>4 DEF TransitionHalfOpen
    <3>2. CurrentProbes' = {c}
      BY <1>0, <2>4, <3>1, FirstProbe
    <3> QED BY <3>1, <3>2, FS_Singleton
            DEF Exact, ProbeAccounting, ThresholdTripsBreaker
  <2> QED BY <1>0, <1>6, <2>1, <2>2, <2>3, <2>4, TryAcquireShape
<1>7. ASSUME NEW c \in Callers, Success(c) PROVE Exact'
  <2>0. Release(c)
    BY <1>7 DEF Success
  <2>1. CASE c \notin CurrentProbes /\ shared' = shared
    BY <1>3, <2>0, <2>1 DEF Exact, ThresholdTripsBreaker
  <2>2. CASE /\ c \notin CurrentProbes
             /\ shared' = [shared EXCEPT !.consecutive_failures = 0]
    BY <1>0, <1>3, <2>0, <2>2 DEF Shared
  <2>3. CASE /\ c \in CurrentProbes /\ shared.mode = "HalfOpen"
             /\ shared' = Probed(shared)
    BY <1>0, <1>4, <2>0, <2>3 DEF Probed, Shared
  <2>4. CASE shared' = TransitionClosed(shared)
    <3>1. /\ shared'.generation = shared.generation + 1
          /\ shared'.in_flight = 0 /\ shared'.consecutive_failures = 0
      BY <2>4 DEF TransitionClosed
    <3> QED BY <1>0, <1>2, <2>0, <3>1 DEF Release
  <2> QED BY <1>0, <1>7, <2>1, <2>2, <2>3, <2>4, SuccessShape
<1>8. ASSUME NEW c \in Callers, Failure(c) PROVE Exact'
  <2>0. Release(c)
    BY <1>8 DEF Failure
  <2>1. CASE c \notin CurrentProbes /\ shared' = shared
    BY <1>3, <2>0, <2>1 DEF Exact, ThresholdTripsBreaker
  <2>2. CASE /\ c \notin CurrentProbes
             /\ shared.consecutive_failures + 1 < FailureThreshold
             /\ shared' = [shared EXCEPT !.consecutive_failures = @ + 1]
    BY <1>0, <1>3, <2>0, <2>2 DEF Shared
  <2>3. CASE shared' = TransitionOpen(shared)
    <3>1. /\ shared'.generation = shared.generation + 1
          /\ shared'.in_flight = 0 /\ shared'.consecutive_failures = 0
      BY <2>3 DEF TransitionOpen
    <3> QED BY <1>0, <1>2, <2>0, <3>1 DEF Release
  <2>4. ~(shared'.generation = shared.generation + 1 /\ shared'.mode = shared.mode)
    BY <1>0 DEF NoPanic, Shared
  <2> QED BY <1>0, <1>8, <2>1, <2>2, <2>3, <2>4, FailureShape
<1>9. ASSUME NEW c \in Callers, Drop(c) PROVE Exact'
  <2>0. Release(c)
    BY <1>9 DEF Drop
  <2>1. CASE c \notin CurrentProbes /\ shared' = shared
    BY <1>3, <2>0, <2>1 DEF Exact, ThresholdTripsBreaker
  <2>2. CASE /\ c \in CurrentProbes /\ shared.mode = "HalfOpen"
             /\ shared' = [shared EXCEPT !.in_flight = Decrement(@)]
    BY <1>0, <1>4, <2>0, <2>2 DEF Shared
  <2> QED BY <1>0, <1>9, <2>1, <2>2, DropShape
<1> QED BY <1>1, <1>5, <1>6, <1>7, <1>8, <1>9 DEF Next, vars, Tick

LEMMA ExactHolds ==
  ASSUME NoOverflow
  PROVE  Spec => []Exact
<1>1. Init => Exact
  <2> SUFFICES ASSUME Init PROVE Exact
    OBVIOUS
  <2>1. CurrentProbes = {}
    BY DEF Init, CurrentProbes, Current, NoPermit
  <2> QED BY <2>1, FS_EmptySet, ConfigAssumption
          DEF Init, Exact, ProbeAccounting, ThresholdTripsBreaker
<1>2. Inv /\ Exact /\ [Next]_vars => Exact'
  <2> SUFFICES ASSUME Inv, Exact, [Next]_vars PROVE Exact'
    OBVIOUS
  <2>1. ~(now + OpenTimeout > MaxInstant)
    BY ModelAssumption, ConfigAssumption DEF Inv, TypeOK, NoOverflow
  <2>2. NoPanic
    BY <2>1, EraOrPanic DEF NoPanic
  <2> QED BY <2>2, ExactStep
<1> QED BY <1>1, <1>2, InvHolds, PTL DEF Spec

\* in_flight counts the unfinished probes of the era exactly: abandoned, failed,
\* successful and stale permits return one slot, once, or none.
THEOREM ProbesAccounted ==
  ASSUME NoOverflow
  PROVE  Spec => []ProbeAccounting
<1>1. Exact => ProbeAccounting
  BY DEF Exact
<1> QED BY <1>1, ExactHolds, PTL

\* A Closed breaker is always short of its failure threshold.
THEOREM ThresholdTrips ==
  ASSUME NoOverflow
  PROVE  Spec => []ThresholdTripsBreaker
<1>1. Exact => ThresholdTripsBreaker
  BY DEF Exact
<1> QED BY <1>1, ExactHolds, PTL

-----------------------------------------------------------------------------
\* Eras follow the transition diagram, each under a generation of its own in which
\* no permit issued before is current, and an Open era lasts until its deadline.
THEOREM ErasInOrder == Spec => ErasAdvance
<1> DEFINE Advance ==
      shared'.mode # shared.mode =>
        /\ <<shared.mode, shared'.mode>> \in
             {<<"Closed", "Open">>, <<"Open", "HalfOpen">>,
              <<"HalfOpen", "Open">>, <<"HalfOpen", "Closed">>}
        /\ shared'.generation = shared.generation + 1
        /\ \A c \in Callers : permits'[c] = permits[c] => ~Current(c)'
        /\ shared.mode = "Open" => now >= shared.until
<1>1. Inv /\ [Next]_vars => Advance
  <2> SUFFICES ASSUME Inv, [Next]_vars, shared'.mode # shared.mode PROVE Advance
    OBVIOUS
  <2>0. /\ TypeOK /\ CurrentPermitMatchesMode /\ shared \in Shared
        /\ shared.generation \in Nat /\ now \in Nat
        /\ \A c \in Callers : permits[c].generation <= shared.generation
    BY ModelAssumption DEF Inv, TypeOK, Shared, CurrentPermitMatchesMode
  <2>1. ASSUME shared'.generation = shared.generation + 1
        PROVE  \A c \in Callers : permits'[c] = permits[c] => ~Current(c)'
    <3>1. \A c \in Callers : permits[c].generation # shared.generation + 1
      BY <2>0 DEF TypeOK, Permit
    <3> QED BY <2>1, <3>1 DEF Current
  <2>2. CASE Tick \/ UNCHANGED vars
    BY <2>2 DEF Tick, vars
  <2>3. CASE State
    <3>1. shared.mode = "Open" /\ now >= shared.until
          /\ shared' = TransitionHalfOpen(shared)
      BY <2>0, <2>3, RefreshType DEF State
    <3> QED BY <2>1, <3>1 DEF TransitionHalfOpen
  <2>4. ASSUME NEW c \in Callers, TryAcquire(c) PROVE Advance
    <3>1. shared # [shared EXCEPT !.in_flight = @ + 1] =>
            [shared EXCEPT !.in_flight = @ + 1].mode = shared.mode
      BY <2>0 DEF Shared
    <3>2. shared.mode = "Open" /\ now >= shared.until
          /\ shared' = [TransitionHalfOpen(shared) EXCEPT !.in_flight = 1]
      BY <2>0, <2>4, <3>1, TryAcquireShape
    <3>3. shared'.mode = "HalfOpen" /\ shared'.generation = shared.generation + 1
      BY <3>2 DEF TransitionHalfOpen
    <3> QED BY <2>1, <3>2, <3>3
  <2>5. ASSUME NEW c \in Callers, Success(c) PROVE Advance
    <3>1. /\ [shared EXCEPT !.consecutive_failures = 0].mode = shared.mode
          /\ Probed(shared).mode = shared.mode
      BY <2>0 DEF Shared, Probed
    <3>2. shared.mode = "HalfOpen" /\ shared' = TransitionClosed(shared)
      BY <2>0, <2>5, <3>1, SuccessShape
    <3> QED BY <2>1, <3>2 DEF TransitionClosed
  <2>6. ASSUME NEW c \in Callers, Failure(c) PROVE Advance
    <3>1. [shared EXCEPT !.consecutive_failures = @ + 1].mode = shared.mode
      BY <2>0 DEF Shared
    <3>2. /\ shared.mode \in {"Closed", "HalfOpen"}
          /\ shared' = TransitionOpen(shared)
      BY <2>0, <2>6, <3>1, FailureShape
    <3> QED BY <2>1, <3>2 DEF TransitionOpen
  <2>7. ASSUME NEW c \in Callers, Drop(c) PROVE Advance
    <3>1. [shared EXCEPT !.in_flight = Decrement(@)].mode = shared.mode
      BY <2>0 DEF Shared
    <3> QED BY <2>0, <2>7, <3>1, DropShape
  <2> QED BY <2>2, <2>3, <2>4, <2>5, <2>6, <2>7 DEF Next
<1> QED BY <1>1, InvHolds, PTL DEF Spec, ErasAdvance

-----------------------------------------------------------------------------
(* The refinement.  Speakers is the contract's set of running calls of the    *)
(* era; in HalfOpen it is the set of probes, counted by in_flight.           *)

Speakers == {c \in Callers : Current(c)}

LEMMA MembersOfStep ==
  ASSUME TypeOK, CurrentPermitMatchesMode
  PROVE  /\ shared.mode = "HalfOpen" => Speakers = CurrentProbes
         /\ \A c \in Callers :
              /\ Release(c) /\ shared'.generation = shared.generation =>
                   Speakers' = Speakers \ {c}
              /\ \A kind \in {"Closed", "HalfOpen"} :
                   permits' = [permits EXCEPT ![c] =
                      [kind |-> kind, generation |-> shared.generation]]
                   /\ shared'.generation = shared.generation =>
                     Speakers' = Speakers \cup {c}
              /\ permits' = [permits EXCEPT ![c] =
                    [kind |-> "HalfOpen", generation |-> shared.generation + 1]]
                 /\ shared'.generation = shared.generation + 1 =>
                   Speakers' = {c}
<1>1. shared.mode = "HalfOpen" => Speakers = CurrentProbes
  BY DEF Speakers, CurrentProbes, CurrentPermitMatchesMode
<1>2. shared.generation \in Nat
  BY DEF TypeOK, Shared
<1>3. ASSUME NEW c \in Callers, Release(c), shared'.generation = shared.generation
      PROVE  Speakers' = Speakers \ {c}
  BY <1>3 DEF Release, Speakers, Current, NoPermit, TypeOK
<1>4. ASSUME NEW c \in Callers, NEW kind \in {"Closed", "HalfOpen"},
             permits' = [permits EXCEPT ![c] =
                [kind |-> kind, generation |-> shared.generation]],
             shared'.generation = shared.generation
      PROVE  Speakers' = Speakers \cup {c}
  BY <1>2, <1>4 DEF Speakers, Current, TypeOK
<1>5. ASSUME NEW c \in Callers,
             permits' = [permits EXCEPT ![c] =
                [kind |-> "HalfOpen", generation |-> shared.generation + 1]],
             shared'.generation = shared.generation + 1
      PROVE  Speakers' = {c}
  <2>1. \A d \in Callers : permits[d].generation # shared.generation + 1
    BY <1>2 DEF CurrentPermitMatchesMode, TypeOK, Permit
  <2> QED BY <1>2, <1>5, <2>1 DEF Speakers, Current, TypeOK
<1> QED BY <1>1, <1>3, <1>4, <1>5

\* The Cardinality of the instance is that of FiniteSets.
LEMMA SameCardinality ==
  ASSUME NEW S
  PROVE  Contract!Cardinality(S) = Cardinality(S)
BY Zenon DEF Contract!Cardinality, Cardinality

\* Each operation is a step of the contract, or none.
LEMMA StepRefines ==
  ASSUME NoOverflow, Inv, Exact, [Next]_vars
  PROVE  [Contract!Next]_(Contract!vars)
<1> USE DEF Contract!vars
<1>0. /\ TypeOK /\ CurrentPermitMatchesMode /\ shared \in Shared
      /\ shared' \in Shared /\ permits' \in [Callers -> Permit]
      /\ ProbeLimit /\ now \in Nat
      /\ FailureThreshold \in Nat \ {0} /\ HalfOpenSuccessThreshold \in Nat \ {0}
      /\ ~(now + OpenTimeout > MaxInstant)
      /\ shared.in_flight = Cardinality(CurrentProbes)
      /\ shared.mode = "Closed" => shared.consecutive_failures < FailureThreshold
  BY TypeStep, ConfigAssumption, ModelAssumption
  DEF Inv, TypeOK, NoOverflow, Exact, ProbeAccounting, ThresholdTripsBreaker
<1>a. Speakers = {c \in Callers : Current(c)}
      /\ Speakers' = {c \in Callers : Current(c)'}
  BY DEF Speakers
<1>1. CASE UNCHANGED <<shared, permits>> /\ now' = now
  BY <1>1 DEF Current
<1>2. CASE Tick
  <2>1. UNCHANGED <<shared, permits>> /\ now' = now + 1
    BY <1>2 DEF Tick
  <2>2. Contract!Pass
    BY <2>1 DEF Contract!Pass, Current
  <2> QED BY <2>2 DEF Contract!Next
<1>3. ASSUME shared' = TransitionHalfOpen(shared), permits' = permits, now' = now,
             shared.mode = "Open", now >= shared.until
      PROVE  Contract!Next
  <2>1. Speakers' = {}
    BY <1>0, <1>3, NewGeneration DEF TransitionHalfOpen, Speakers
  <2>2. Contract!Expire
    BY <1>a, <1>3, <2>1 DEF Contract!Expire, Contract!Enter, TransitionHalfOpen
  <2> QED BY <2>2 DEF Contract!Next
<1>4. CASE State
  <2>1. CASE shared' = shared
    BY <1>1, <1>4, <2>1 DEF State
  <2>2. CASE /\ shared' = TransitionHalfOpen(shared)
             /\ shared.mode = "Open" /\ now >= shared.until
    BY <1>3, <1>4, <2>2 DEF State
  <2> QED BY <1>0, <1>4, <2>1, <2>2, RefreshType DEF State
<1>5. ASSUME NEW c \in Callers, TryAcquire(c)
      PROVE  [Contract!Next]_(Contract!vars)
  <2>0. permits[c] = NoPermit /\ now' = now
    BY <1>0, <1>5, TryAcquireShape DEF TryAcquire
  <2>1. c \notin Speakers
    BY <2>0 DEF Speakers, Current, NoPermit
  <2>2. CASE shared' = shared /\ permits' = permits
    BY <1>1, <2>0, <2>2
  <2>3. CASE /\ shared' = shared /\ shared.mode = "Closed"
             /\ permits' = [permits EXCEPT ![c] =
                  [kind |-> "Closed", generation |-> shared.generation]]
    <3>1. Speakers' = Speakers \cup {c}
      BY <1>0, <2>3, MembersOfStep
    <3>2. Contract!Admit(c)
      BY <1>a, <2>0, <2>1, <2>3, <3>1 DEF Contract!Admit
    <3> QED BY <3>2 DEF Contract!Next
  <2>4. CASE /\ shared.mode = "HalfOpen"
             /\ shared.in_flight < HalfOpenSuccessThreshold
             /\ shared' = [shared EXCEPT !.in_flight = @ + 1]
             /\ permits' = [permits EXCEPT ![c] =
                  [kind |-> "HalfOpen", generation |-> shared.generation]]
    <3>1. /\ shared'.mode = shared.mode /\ shared'.until = shared.until
          /\ shared'.consecutive_failures = shared.consecutive_failures
          /\ shared'.successes = shared.successes
          /\ shared'.generation = shared.generation
      BY <1>0, <2>4 DEF Shared
    <3>2. Speakers' = Speakers \cup {c}
      BY <1>0, <2>4, <3>1, MembersOfStep
    <3>3. Contract!Cardinality(Speakers) < HalfOpenSuccessThreshold
      BY <1>0, <2>4, MembersOfStep, SameCardinality
    <3>4. Contract!Admit(c)
      BY <1>a, <2>0, <2>1, <2>4, <3>1, <3>2, <3>3 DEF Contract!Admit
    <3> QED BY <3>4 DEF Contract!Next
  <2>5. CASE /\ shared.mode = "Open" /\ now >= shared.until
             /\ shared' = [TransitionHalfOpen(shared) EXCEPT !.in_flight = 1]
             /\ permits' = [permits EXCEPT ![c] =
                  [kind |-> "HalfOpen", generation |-> shared.generation + 1]]
    <3>1. /\ shared'.mode = "HalfOpen" /\ shared'.until = 0
          /\ shared'.consecutive_failures = 0 /\ shared'.successes = 0
          /\ shared'.generation = shared.generation + 1
      BY <2>5 DEF TransitionHalfOpen
    <3>2. Speakers' = {c}
      BY <1>0, <2>5, <3>1, MembersOfStep
    <3>3. Contract!Enter("HalfOpen", {c})
      BY <1>a, <2>0, <3>1, <3>2 DEF Contract!Enter
    <3>4. Contract!Expire
      BY <2>5, <3>3 DEF Contract!Expire
    <3> QED BY <3>4 DEF Contract!Next
  <2> QED BY <1>0, <1>5, <2>2, <2>3, <2>4, <2>5, TryAcquireShape
<1>6. ASSUME NEW c \in Callers, Release(c), now' = now, shared' = shared,
             ~Current(c)
      PROVE  [Contract!Next]_(Contract!vars)
  <2>1. Speakers' = Speakers
    BY <1>0, <1>6, MembersOfStep DEF Speakers
  <2> QED BY <1>a, <1>6, <2>1
<1>7. ASSUME NEW c \in Callers, Success(c)
      PROVE  [Contract!Next]_(Contract!vars)
  <2>0. Release(c) /\ now' = now
    BY <1>7 DEF Success
  <2>1. CASE shared' = shared /\ ~Current(c)
    BY <1>6, <2>0, <2>1
  <2>2. CASE /\ Current(c) /\ shared.mode = "Closed"
             /\ shared' = [shared EXCEPT !.consecutive_failures = 0]
    <3>1. /\ shared'.mode = shared.mode /\ shared'.until = shared.until
          /\ shared'.consecutive_failures = 0
          /\ shared'.successes = shared.successes
          /\ shared'.generation = shared.generation
      BY <1>0, <2>2 DEF Shared
    <3>2. Speakers' = Speakers \ {c} /\ c \in Speakers
      BY <1>0, <2>0, <2>2, <3>1, MembersOfStep DEF Speakers
    <3>3. Contract!Succeed(c)
      BY <1>a, <2>0, <2>2, <3>1, <3>2 DEF Contract!Succeed
    <3> QED BY <3>3 DEF Contract!Next
  <2>3. CASE /\ c \in CurrentProbes /\ shared.mode = "HalfOpen"
             /\ shared.successes + 1 < HalfOpenSuccessThreshold
             /\ shared' = Probed(shared)
    <3>1. /\ shared'.mode = shared.mode /\ shared'.until = shared.until
          /\ shared'.consecutive_failures = shared.consecutive_failures
          /\ shared'.successes = shared.successes + 1
          /\ shared'.generation = shared.generation
      BY <1>0, <2>3 DEF Shared, Probed
    <3>2. Speakers' = Speakers \ {c} /\ c \in Speakers
      BY <1>0, <2>0, <2>3, <3>1, MembersOfStep DEF Speakers, CurrentProbes
    <3>3. Contract!Succeed(c)
      BY <1>a, <2>0, <2>3, <3>1, <3>2 DEF Contract!Succeed
    <3> QED BY <3>3 DEF Contract!Next
  <2>4. CASE /\ c \in CurrentProbes /\ shared.mode = "HalfOpen"
             /\ shared.successes + 1 >= HalfOpenSuccessThreshold
             /\ shared' = TransitionClosed(shared)
    <3>1. Speakers' = {}
      BY <1>0, <2>0, <2>4, NewGeneration DEF TransitionClosed, Speakers, Release, TypeOK
    <3>2. shared.successes + 1 = HalfOpenSuccessThreshold
      BY <1>0, <2>4 DEF ProbeLimit, Shared
    <3>3. c \in Speakers
      BY <2>4 DEF CurrentProbes, Speakers
    <3>4. Contract!Enter("Closed", {})
      BY <1>a, <2>0, <2>4, <3>1 DEF Contract!Enter, TransitionClosed
    <3>5. Contract!Succeed(c)
      BY <1>a, <2>4, <3>2, <3>3, <3>4 DEF Contract!Succeed
    <3> QED BY <3>5 DEF Contract!Next
  <2> QED BY <1>0, <1>7, <2>1, <2>2, <2>3, <2>4, SuccessShape
<1>8. ASSUME NEW c \in Callers, Failure(c)
      PROVE  [Contract!Next]_(Contract!vars)
  <2>0. Release(c) /\ now' = now
    BY <1>8 DEF Failure
  <2>1. CASE shared' = shared /\ ~Current(c)
    BY <1>6, <2>0, <2>1
  <2>2. CASE /\ Current(c) /\ shared.mode = "Closed"
             /\ shared.consecutive_failures + 1 < FailureThreshold
             /\ shared' = [shared EXCEPT !.consecutive_failures = @ + 1]
    <3>1. /\ shared'.mode = shared.mode /\ shared'.until = shared.until
          /\ shared'.consecutive_failures = shared.consecutive_failures + 1
          /\ shared'.successes = shared.successes
          /\ shared'.generation = shared.generation
      BY <1>0, <2>2 DEF Shared
    <3>2. Speakers' = Speakers \ {c} /\ c \in Speakers
      BY <1>0, <2>0, <2>2, <3>1, MembersOfStep DEF Speakers
    <3>3. Contract!Fail(c)
      BY <1>a, <2>0, <2>2, <3>1, <3>2 DEF Contract!Fail
    <3> QED BY <3>3 DEF Contract!Next
  <2>3. CASE /\ Current(c)
             /\ \/ /\ shared.mode = "Closed"
                   /\ shared.consecutive_failures + 1 >= FailureThreshold
                \/ shared.mode = "HalfOpen"
             /\ shared' = TransitionOpen(shared)
    <3>1. Speakers' = {}
      BY <1>0, <2>0, <2>3, NewGeneration DEF TransitionOpen, Speakers, Release, TypeOK
    <3>2. shared.mode = "Closed" =>
            shared.consecutive_failures + 1 = FailureThreshold
      BY <1>0, <2>3 DEF Shared
    <3>3. c \in Speakers
      BY <2>3 DEF Speakers
    <3>4. Contract!Enter("Open", {})
      BY <1>a, <2>0, <2>3, <3>1 DEF Contract!Enter, TransitionOpen
    <3>5. Contract!Fail(c)
      BY <1>a, <2>3, <3>2, <3>3, <3>4 DEF Contract!Fail
    <3> QED BY <3>5 DEF Contract!Next
  <2> QED BY <1>0, <1>8, <2>1, <2>2, <2>3, FailureShape
<1>9. ASSUME NEW c \in Callers, Drop(c)
      PROVE  [Contract!Next]_(Contract!vars)
  <2>0. Release(c) /\ now' = now
    BY <1>9 DEF Drop
  <2>1. /\ shared'.mode = shared.mode /\ shared'.until = shared.until
        /\ shared'.consecutive_failures = shared.consecutive_failures
        /\ shared'.successes = shared.successes
        /\ shared'.generation = shared.generation
    BY <1>0, <1>9, DropShape DEF Shared
  <2>2. Speakers' = Speakers \ {c}
    BY <1>0, <2>0, <2>1, MembersOfStep
  <2>3. CASE c \in Speakers
    <3>1. Contract!Leave(c)
      BY <1>a, <2>0, <2>1, <2>2, <2>3 DEF Contract!Leave
    <3> QED BY <3>1 DEF Contract!Next
  <2>4. CASE c \notin Speakers
    BY <1>a, <2>0, <2>1, <2>2, <2>4
  <2> QED BY <2>3, <2>4
<1> QED BY <1>1, <1>2, <1>4, <1>5, <1>7, <1>8, <1>9 DEF Next, vars

\* The breaker implements its contract: generations and a counter do the work of
\* the set of calls that may still speak for the era.
THEOREM BreakerImplementsContract ==
  ASSUME NoOverflow
  PROVE  Spec => ImplementsContract
<1>1. Init => Contract!Init
  BY DEF Init, Contract!Init, Current, NoPermit
<1>2. Inv /\ Exact /\ [Next]_vars => [Contract!Next]_(Contract!vars)
  BY StepRefines
<1> QED BY <1>1, <1>2, InvHolds, ExactHolds, PTL
        DEF Spec, ImplementsContract, Contract!Spec

-----------------------------------------------------------------------------
(* The log of an era and the run of failures that ends it.                   *)

Outcome == {"ok", "err"}

LEMMA LogLengthBounds ==
  /\ LogLength \in Nat
  /\ FailureThreshold <= LogLength
  /\ HalfOpenSuccessThreshold <= LogLength
BY ConfigAssumption DEF LogLength

\* A log within LogLength keeps all of it; one entry beyond drops the oldest.
LEMMA LatestFacts ==
  ASSUME NEW s \in Seq(Outcome), Len(s) <= LogLength + 1
  PROVE  /\ Len(s) <= LogLength => Latest(s) = s
         /\ Len(s) = LogLength + 1 =>
              /\ Len(Latest(s)) = LogLength
              /\ \A i \in 1 .. LogLength : Latest(s)[i] = s[i + 1]
         /\ Latest(s) \in Seq(Outcome)
         /\ Len(Latest(s)) <= LogLength
<1>0. LogLength \in Nat /\ Len(s) \in Nat
  BY LogLengthBounds
<1>1. ASSUME Len(s) <= LogLength PROVE Latest(s) = s
  <2>1. Latest(s) = SubSeq(s, 1, Len(s))
    BY <1>0, <1>1 DEF Latest
  <2> QED BY <2>1
<1>2. ASSUME Len(s) = LogLength + 1
      PROVE  /\ Len(Latest(s)) = LogLength
             /\ \A i \in 1 .. LogLength : Latest(s)[i] = s[i + 1]
             /\ Latest(s) \in Seq(Outcome)
  <2>1. Latest(s) = SubSeq(s, 2, Len(s))
    BY <1>0, <1>2 DEF Latest
  <2>2. Len(Latest(s)) = LogLength
    BY <1>0, <1>2, <2>1
  <2>3. \A i \in 1 .. LogLength : Latest(s)[i] = s[i + 1]
    BY <1>0, <1>2, <2>1
  <2>4. Latest(s) \in Seq(Outcome)
    BY <1>0, <1>2, <2>1
  <2> QED BY <2>2, <2>3, <2>4
<1> QED BY <1>0, <1>1, <1>2

LEMMA ErrorRunFinite ==
  ASSUME NEW s \in Seq(Outcome)
  PROVE  /\ ErrorRun(s) \subseteq 1 .. Len(s)
         /\ IsFiniteSet(ErrorRun(s))
         /\ TrailingErrors(s) \in Nat
<1>1. ErrorRun(s) \subseteq 1 .. Len(s)
  BY DEF ErrorRun
<1>2. IsFiniteSet(1 .. Len(s))
  BY FS_Interval
<1>3. IsFiniteSet(ErrorRun(s))
  BY <1>1, <1>2, FS_Subset
<1> QED BY <1>1, <1>3, FS_CardinalityType DEF TrailingErrors

\* A success ends the run.
LEMMA NoErrorsAfterSuccess ==
  ASSUME NEW s \in Seq(Outcome), Len(s) <= LogLength
  PROVE  TrailingErrors(Latest(Append(s, "ok"))) = 0
<1> DEFINE a == Append(s, "ok")
           t == Latest(a)
<1>0. /\ a \in Seq(Outcome) /\ Len(a) = Len(s) + 1 /\ a[Len(a)] = "ok"
      /\ Len(s) \in Nat /\ LogLength \in Nat \ {0}
  BY LogLengthBounds, ConfigAssumption DEF Outcome
<1>1. t \in Seq(Outcome) /\ Len(t) > 0 => t[Len(t)] = "ok"
  <2> HIDE DEF a
  <2>1. CASE Len(a) <= LogLength
    BY <1>0, <2>1, LatestFacts
  <2>2. CASE Len(a) = LogLength + 1
    BY <1>0, <2>2, LatestFacts
  <2> QED BY <1>0, <2>1, <2>2
<1>2. t \in Seq(Outcome)
  <2> HIDE DEF a
  <2> QED BY <1>0, LatestFacts
<1>3. ErrorRun(t) = {}
  <2> HIDE DEF t
  <2>1. ASSUME NEW i \in ErrorRun(t) PROVE FALSE
    <3>1. i \in 1 .. Len(t) /\ \A j \in i .. Len(t) : t[j] = "err"
      BY <1>2, <2>1 DEF ErrorRun
    <3>2. Len(t) \in i .. Len(t) /\ Len(t) > 0
      BY <1>2, <3>1
    <3> QED BY <1>1, <1>2, <3>1, <3>2
  <2> QED BY <2>1
<1> QED BY <1>3, FS_EmptySet DEF TrailingErrors

\* A failure lengthens the run by one, as long as the log is as long as the run.
LEMMA FailureLengthensRun ==
  ASSUME NEW s \in Seq(Outcome), Len(s) <= LogLength,
         TrailingErrors(s) < LogLength
  PROVE  TrailingErrors(Latest(Append(s, "err"))) = TrailingErrors(s) + 1
<1> DEFINE a == Append(s, "err")
           t == Latest(a)
           n == Len(s)
<1>0. /\ a \in Seq(Outcome) /\ Len(a) = n + 1 /\ a[n + 1] = "err"
      /\ \A i \in 1 .. n : a[i] = s[i]
      /\ n \in Nat /\ LogLength \in Nat
  BY LogLengthBounds DEF Outcome
<1>1. ErrorRun(a) = ErrorRun(s) \cup {n + 1}
  <2> HIDE DEF a, n
  <2>1. ASSUME NEW i \in ErrorRun(a), i # n + 1 PROVE i \in ErrorRun(s)
    <3>1. i \in 1 .. n /\ \A j \in i .. n + 1 : a[j] = "err"
      BY <1>0, <2>1 DEF ErrorRun
    <3>2. \A j \in i .. n : s[j] = "err"
      BY <1>0, <3>1
    <3> QED BY <3>1, <3>2 DEF ErrorRun, n
  <2>2. ASSUME NEW i \in ErrorRun(s) PROVE i \in ErrorRun(a)
    <3>1. i \in 1 .. n /\ \A j \in i .. n : s[j] = "err"
      BY <2>2 DEF ErrorRun, n
    <3>2. i \in 1 .. n + 1 /\ \A j \in i .. n + 1 : a[j] = "err"
      BY <1>0, <3>1
    <3> QED BY <1>0, <3>2 DEF ErrorRun
  <2>3. n + 1 \in ErrorRun(a)
    BY <1>0 DEF ErrorRun
  <2> QED BY <2>1, <2>2, <2>3
<1>2. TrailingErrors(a) = TrailingErrors(s) + 1
  <2>1. n + 1 \notin ErrorRun(s) /\ IsFiniteSet(ErrorRun(s))
    BY <1>0, ErrorRunFinite
  <2> HIDE DEF a, n
  <2> QED BY <1>1, <2>1, FS_AddElement DEF TrailingErrors
<1>3. CASE n < LogLength
  <2>1. t = a
    <3> HIDE DEF a
    <3> QED BY <1>0, <1>3, LatestFacts
  <2> QED BY <1>2, <2>1
<1>4. CASE n = LogLength
  <2> HIDE DEF a
  <2>1. /\ t \in Seq(Outcome) /\ Len(t) = n
        /\ \A i \in 1 .. n : t[i] = a[i + 1]
    BY <1>0, <1>4, LatestFacts
  <2> HIDE DEF t, n
  <2>2. 1 \notin ErrorRun(a)
    <3>1. SUFFICES ASSUME 1 \in ErrorRun(a) PROVE FALSE
      OBVIOUS
    <3>2. \A j \in 1 .. n + 1 : a[j] = "err"
      BY <1>0, <3>1 DEF ErrorRun
    <3>3. ErrorRun(s) = 1 .. n
      BY <1>0, <3>2 DEF ErrorRun, n
    <3>4. TrailingErrors(s) = n
      BY <1>0, <3>3, FS_Interval DEF TrailingErrors
    <3> QED BY <1>0, <1>4, <3>4
  <2> DEFINE f == [i \in ErrorRun(t) |-> i + 1]
  <2>3. ErrorRun(t) \subseteq 1 .. n /\ ErrorRun(a) \subseteq 1 .. n + 1
    BY <1>0, <2>1, ErrorRunFinite
  <2>4. \A i \in ErrorRun(t) : i + 1 \in ErrorRun(a)
    <3> SUFFICES ASSUME NEW i \in ErrorRun(t) PROVE i + 1 \in ErrorRun(a)
      OBVIOUS
    <3>1. i \in 1 .. n /\ \A j \in i .. n : t[j] = "err"
      BY <2>1 DEF ErrorRun
    <3>2. ASSUME NEW j \in (i + 1) .. n + 1 PROVE a[j] = "err"
      <4>1. j - 1 \in i .. n /\ j - 1 \in 1 .. n /\ (j - 1) + 1 = j
        BY <1>0, <3>1, <3>2
      <4> QED BY <2>1, <3>1, <4>1
    <3> QED BY <1>0, <3>1, <3>2 DEF ErrorRun
  <2>5. \A k \in ErrorRun(a) : k - 1 \in ErrorRun(t)
    <3> SUFFICES ASSUME NEW k \in ErrorRun(a) PROVE k - 1 \in ErrorRun(t)
      OBVIOUS
    <3>1. k \in 2 .. n + 1 /\ \A j \in k .. n + 1 : a[j] = "err"
      BY <1>0, <2>2 DEF ErrorRun
    <3>2. ASSUME NEW j \in (k - 1) .. n PROVE t[j] = "err"
      <4>1. j \in 1 .. n /\ j + 1 \in k .. n + 1
        BY <1>0, <3>1, <3>2
      <4> QED BY <2>1, <3>1, <4>1
    <3> QED BY <1>0, <2>1, <3>1, <3>2 DEF ErrorRun
  <2>6. f \in Bijection(ErrorRun(t), ErrorRun(a))
    <3>1. f \in [ErrorRun(t) -> ErrorRun(a)]
      BY <2>4
    <3>2. \A i, j \in ErrorRun(t) : i # j => f[i] # f[j]
      BY <1>0, <2>3
    <3>3. \A k \in ErrorRun(a) : \E i \in ErrorRun(t) : f[i] = k
      <4> SUFFICES ASSUME NEW k \in ErrorRun(a)
                   PROVE  \E i \in ErrorRun(t) : f[i] = k
        OBVIOUS
      <4>1. k - 1 \in ErrorRun(t) /\ f[k - 1] = k
        BY <1>0, <2>3, <2>5
      <4> QED BY <4>1
    <3> HIDE DEF f
    <3> QED BY <3>1, <3>2, <3>3 DEF Bijection, Injection, Surjection, IsInjective
  <2>7. IsFiniteSet(ErrorRun(t))
    BY <2>1, ErrorRunFinite
  <2>8. Cardinality(ErrorRun(t)) = Cardinality(ErrorRun(a))
    <3> HIDE DEF f
    <3> QED BY <2>6, <2>7, FS_Bijection DEF ExistsBijection
  <2> QED BY <1>2, <2>8 DEF TrailingErrors, t, a
<1> QED BY <1>0, <1>3, <1>4

-----------------------------------------------------------------------------
(* The breaker as its callers see it.  The invariant ties what they know,    *)
(* the era each was admitted in and the outcomes reported since it began, to *)
(* the generation and the counters.  It says nothing of the counters once an *)
(* opening has panicked; that era never runs ahead of the generation makes   *)
(* such a break final.                                                       *)

Held == \A c \in Callers : permits[c].kind = "None" => permits[c] = NoPermit

\* The generation in a permit is the era its caller was admitted in.
Honest ==
  \A c \in Callers : permits[c] # NoPermit => permits[c].generation = admitted[c]

LogOK == log \in Seq(Outcome) /\ Len(log) <= LogLength

HistoryInv ==
  /\ Inv
  /\ era \in Nat /\ admitted \in [Callers -> Nat] /\ LogOK
  /\ Held
  /\ era <= shared.generation
  /\ Unbroken => Honest /\ Exact
  /\ CountersMatchHistory
  /\ RejectionsHaveCause

LEMMA HistoryInit == HInit => HistoryInv
<1> SUFFICES ASSUME HInit PROVE HistoryInv
  OBVIOUS
<1>1. Inv
  BY InvInit DEF HInit
<1>2. /\ era = 0 /\ admitted = [c \in Callers |-> 0] /\ log = <<>> /\ rejected = {}
      /\ permits = [c \in Callers |-> NoPermit]
      /\ shared.generation = 0 /\ shared.mode = "Closed" /\ shared.in_flight = 0
      /\ shared.consecutive_failures = 0
  BY DEF HInit, Init
<1>3. LogOK
  BY <1>2, LogLengthBounds DEF LogOK, Outcome
<1>4. Held /\ Honest
  BY <1>2 DEF Held, Honest
<1>5. CurrentProbes = {} /\ ErrorRun(log) = {}
  BY <1>2 DEF CurrentProbes, Current, NoPermit, ErrorRun
<1>6. TrailingErrors(log) = 0
  BY <1>5, FS_EmptySet DEF TrailingErrors
<1>7. Exact /\ CountersMatchHistory
  BY <1>2, <1>5, <1>6, FS_EmptySet, ConfigAssumption
  DEF Exact, ProbeAccounting, ThresholdTripsBreaker, CountersMatchHistory
<1>8. RejectionsHaveCause
  BY <1>2 DEF RejectionsHaveCause
<1> QED BY <1>1, <1>2, <1>3, <1>4, <1>7, <1>8 DEF HistoryInv

\* The observer never slows the breaker down or hurries it.
LEMMA HistoryStepIsStep == [HNext]_allVars => [Next]_vars
BY DEF HNext, HTryAcquire, allVars, vars, Next

\* While unbroken, the members of the era are the holders of current permits.
LEMMA MemberIffCurrent ==
  ASSUME Unbroken, Held, Honest, NEW c \in Callers
  PROVE  c \in Members <=> Current(c)
BY DEF Unbroken, Held, Honest, Members, Current, NoPermit

\* The era follows the mode, and a new era starts with an empty log.
LEMMA EraStep ==
  ASSUME [HNext]_allVars, era \in Nat
  PROVE  /\ shared'.mode # shared.mode => era' = era + 1 /\ log' = <<>>
         /\ shared'.mode = shared.mode => era' = era
BY DEF HNext, HTryAcquire, HReport, Observe, allVars

\* A step after which no opening has panicked followed a state in which none had.
LEMMA UnbrokenStep ==
  ASSUME HistoryInv, [HNext]_allVars
  PROVE  /\ era' \in Nat /\ era' <= shared'.generation
         /\ Unbroken' => Unbroken /\ NoPanic
<1>1. shared.generation \in Nat /\ era \in Nat /\ era <= shared.generation /\ Inv
  BY DEF HistoryInv, Inv, TypeOK, Shared
<1>2. [Next]_vars
  BY HistoryStepIsStep
<1>3. /\ shared'.mode # shared.mode =>
           era' = era + 1 /\ shared'.generation = shared.generation + 1
      /\ shared'.mode = shared.mode =>
           /\ era' = era
           /\ \/ shared'.generation = shared.generation
              \/ shared'.generation = shared.generation + 1
  BY <1>1, <1>2, EraStep, EraOrPanic
<1> QED BY <1>1, <1>3 DEF Unbroken, NoPanic

\* What a caller holds after a step.
LEMMA PermitStep ==
  ASSUME TypeOK, [HNext]_allVars, admitted \in [Callers -> Nat], era' \in Nat
  PROVE  /\ admitted' \in [Callers -> Nat]
         /\ \A c \in Callers :
              \/ permits'[c] = permits[c] /\ admitted'[c] = admitted[c]
              \/ permits'[c] = NoPermit
              \/ /\ permits'[c].kind # "None" /\ admitted'[c] = era'
                 /\ permits'[c].generation = shared'.generation
<1>0. permits \in [Callers -> Permit] /\ shared \in Shared
  BY DEF TypeOK
<1>1. CASE permits' = permits /\ admitted' = admitted
  BY <1>1
<1>2. ASSUME NEW c \in Callers, Release(c), admitted' = admitted
      PROVE  /\ admitted' \in [Callers -> Nat]
             /\ \A d \in Callers :
                  \/ permits'[d] = permits[d] /\ admitted'[d] = admitted[d]
                  \/ permits'[d] = NoPermit
  BY <1>0, <1>2 DEF Release
<1>3. ASSUME NEW c \in Callers, HTryAcquire(c)
      PROVE  /\ admitted' \in [Callers -> Nat]
             /\ \A d \in Callers :
                  \/ permits'[d] = permits[d] /\ admitted'[d] = admitted[d]
                  \/ /\ permits'[d].kind # "None" /\ admitted'[d] = era'
                     /\ permits'[d].generation = shared'.generation
  <2>0. TryAcquire(c)
    BY <1>3 DEF HTryAcquire
  <2>1. CASE permits' = permits
    BY <1>3, <2>1 DEF HTryAcquire
  <2>2. ASSUME NEW kind \in {"Closed", "HalfOpen"}, NEW g \in Nat,
               permits' = [permits EXCEPT ![c] = [kind |-> kind, generation |-> g]],
               shared'.generation = g
        PROVE  /\ admitted' \in [Callers -> Nat]
               /\ \A d \in Callers :
                    \/ permits'[d] = permits[d] /\ admitted'[d] = admitted[d]
                    \/ /\ permits'[d].kind # "None" /\ admitted'[d] = era'
                       /\ permits'[d].generation = shared'.generation
    <3>1. permits'[c] # permits[c]
      BY <1>0, <2>0, <2>2 DEF TryAcquire, NoPermit
    <3>2. admitted' = [admitted EXCEPT ![c] = era']
      BY <1>3, <3>1 DEF HTryAcquire
    <3> QED BY <1>0, <2>2, <3>2
  <2>3. shared.generation \in Nat
    BY <1>0 DEF Shared
  <2>4. CASE /\ shared' = shared
             /\ permits' = [permits EXCEPT ![c] =
                  [kind |-> "Closed", generation |-> shared.generation]]
    BY <2>2, <2>3, <2>4
  <2>5. CASE /\ shared' = [shared EXCEPT !.in_flight = @ + 1]
             /\ permits' = [permits EXCEPT ![c] =
                  [kind |-> "HalfOpen", generation |-> shared.generation]]
    <3>1. shared'.generation = shared.generation
      BY <1>0, <2>5 DEF Shared
    <3> QED BY <2>2, <2>3, <2>5, <3>1
  <2>6. CASE /\ shared' = [TransitionHalfOpen(shared) EXCEPT !.in_flight = 1]
             /\ permits' = [permits EXCEPT ![c] =
                  [kind |-> "HalfOpen", generation |-> shared.generation + 1]]
    <3>1. /\ shared'.generation = shared.generation + 1
          /\ shared.generation + 1 \in Nat
      BY <2>3, <2>6 DEF TransitionHalfOpen
    <3> QED BY <2>2, <2>6, <3>1
  <2> QED BY <2>0, <2>1, <2>4, <2>5, <2>6, TryAcquireShape
<1>4. ASSUME Tick \/ State, UNCHANGED admitted
      PROVE  permits' = permits /\ admitted' = admitted
  BY <1>4 DEF Tick, State
<1>5. ASSUME NEW c \in Callers, Success(c) \/ Failure(c) \/ Drop(c),
             UNCHANGED admitted
      PROVE  Release(c) /\ admitted' = admitted
  BY <1>5 DEF Success, Failure, Drop
<1> QED BY <1>1, <1>2, <1>3, <1>4, <1>5 DEF HNext, HReport, allVars

\* How an observation extends the log of an era that goes on.
LEMMA LogStep ==
  ASSUME LogOK, NEW entry \in {<<>>, <<"ok">>, <<"err">>}, Observe(entry)
  PROVE  /\ LogOK'
         /\ shared'.mode = shared.mode =>
              /\ entry = <<>> => log' = log
              /\ entry = <<"ok">> => log' = Latest(Append(log, "ok"))
              /\ entry = <<"err">> => log' = Latest(Append(log, "err"))
<1>0. log \in Seq(Outcome) /\ Len(log) <= LogLength /\ LogLength \in Nat
  BY LogLengthBounds DEF LogOK
<1>1. CASE shared'.mode # shared.mode
  <2>1. log' = <<>>
    BY <1>1 DEF Observe
  <2> QED BY <1>0, <1>1, <2>1 DEF LogOK
<1>2. CASE shared'.mode = shared.mode
  <2>0. log' = Latest(log \o entry)
    BY <1>2 DEF Observe
  <2>1. CASE entry = <<>>
    <3>1. log \o entry = log
      BY <1>0, <2>1
    <3>2. log' = log
      BY <1>0, <2>0, <3>1, LatestFacts
    <3> QED BY <1>0, <2>1, <3>2 DEF LogOK
  <2>2. CASE entry = <<"ok">>
    <3>1. log \o entry = Append(log, "ok") /\ Append(log, "ok") \in Seq(Outcome)
          /\ Len(Append(log, "ok")) <= LogLength + 1
      BY <1>0, <2>2 DEF Outcome
    <3>2. LogOK'
      BY <2>0, <3>1, LatestFacts DEF LogOK
    <3> QED BY <2>0, <2>2, <3>1, <3>2
  <2>3. CASE entry = <<"err">>
    <3>1. log \o entry = Append(log, "err") /\ Append(log, "err") \in Seq(Outcome)
          /\ Len(Append(log, "err")) <= LogLength + 1
      BY <1>0, <2>3 DEF Outcome
    <3>2. LogOK'
      BY <2>0, <3>1, LatestFacts DEF LogOK
    <3> QED BY <2>0, <2>3, <3>1, <3>2
  <2> QED BY <2>1, <2>2, <2>3
<1> QED BY <1>1, <1>2

\* The log keeps its shape, and a call the era did not admit adds nothing to it.
LEMMA LogTyped ==
  ASSUME LogOK, [HNext]_allVars
  PROVE  LogOK'
<1>1. CASE UNCHANGED allVars
  BY <1>1 DEF allVars, LogOK
<1>2. CASE Observe(<<>>) \/ Observe(<<"ok">>) \/ Observe(<<"err">>)
  BY <1>2, LogStep
<1>3. HNext => Observe(<<>>) \/ Observe(<<"ok">>) \/ Observe(<<"err">>)
  BY DEF HNext, HTryAcquire, HReport
<1> QED BY <1>1, <1>2, <1>3

\* What a caller's report does to the counters of an era that goes on, and what is
\* logged for it.
LEMMA ReportStep ==
  ASSUME Inv, LogOK, Unbroken, Held, Honest, Exact, NoPanic,
         shared'.mode = shared.mode, NEW c \in Callers,
         \/ Success(c) /\ HReport(c, <<"ok">>)
         \/ Failure(c) /\ HReport(c, <<"err">>)
         \/ Drop(c) /\ HReport(c, <<>>)
  PROVE  \/ /\ shared'.consecutive_failures = shared.consecutive_failures
            /\ shared'.successes = shared.successes /\ log' = log
         \/ /\ shared.mode = "Closed"
            /\ shared'.consecutive_failures = 0
            /\ log' = Latest(Append(log, "ok"))
         \/ /\ shared.mode = "HalfOpen"
            /\ shared'.successes = shared.successes + 1
            /\ shared.successes + 1 < HalfOpenSuccessThreshold
            /\ log' = Latest(Append(log, "ok"))
         \/ /\ shared.mode = "Closed"
            /\ shared'.consecutive_failures = shared.consecutive_failures + 1
            /\ shared.consecutive_failures + 1 < FailureThreshold
            /\ log' = Latest(Append(log, "err"))
<1>0. TypeOK /\ CurrentPermitMatchesMode /\ shared \in Shared
      /\ shared.generation \in Nat
      /\ shared'.generation = shared.generation
  BY DEF Inv, TypeOK, Shared, NoPanic
<1>1. c \in Members <=> Current(c)
  BY MemberIffCurrent
<1>2. ASSUME HReport(c, <<>>) PROVE log' = log
  BY <1>2, LogStep DEF HReport
<1>3. ASSUME HReport(c, <<"ok">>)
      PROVE  /\ c \in Members => log' = Latest(Append(log, "ok"))
             /\ c \notin Members => log' = log
  BY <1>3, LogStep DEF HReport
<1>4. ASSUME HReport(c, <<"err">>)
      PROVE  /\ c \in Members => log' = Latest(Append(log, "err"))
             /\ c \notin Members => log' = log
  BY <1>4, LogStep DEF HReport
<1>5. CASE Success(c) /\ HReport(c, <<"ok">>)
  <2>1. CASE shared' = shared /\ ~Current(c)
    BY <1>1, <1>3, <1>5, <2>1
  <2>2. CASE /\ Current(c) /\ shared.mode = "Closed"
             /\ shared' = [shared EXCEPT !.consecutive_failures = 0]
    BY <1>0, <1>1, <1>3, <1>5, <2>2 DEF Shared
  <2>3. CASE /\ c \in CurrentProbes /\ shared.mode = "HalfOpen"
             /\ shared.successes + 1 < HalfOpenSuccessThreshold
             /\ shared' = Probed(shared)
    BY <1>0, <1>1, <1>3, <1>5, <2>3 DEF Shared, Probed, CurrentProbes
  <2>4. CASE shared' = TransitionClosed(shared)
    BY <1>0, <2>4 DEF TransitionClosed
  <2> QED BY <1>0, <1>5, <2>1, <2>2, <2>3, <2>4, SuccessShape
<1>6. CASE Failure(c) /\ HReport(c, <<"err">>)
  <2>1. CASE shared' = shared /\ ~Current(c)
    BY <1>1, <1>4, <1>6, <2>1
  <2>2. CASE /\ Current(c) /\ shared.mode = "Closed"
             /\ shared.consecutive_failures + 1 < FailureThreshold
             /\ shared' = [shared EXCEPT !.consecutive_failures = @ + 1]
    BY <1>0, <1>1, <1>4, <1>6, <2>2 DEF Shared
  <2>3. shared'.generation # shared.generation + 1
    BY <1>0
  <2>4. shared' # TransitionOpen(shared)
    BY <2>3 DEF TransitionOpen
  <2> QED BY <1>0, <1>6, <2>1, <2>2, <2>3, <2>4, FailureShape
<1>7. CASE Drop(c) /\ HReport(c, <<>>)
  BY <1>0, <1>2, <1>7, DropShape DEF Shared
<1> QED BY <1>5, <1>6, <1>7

LEMMA CountersStep ==
  ASSUME HistoryInv, [HNext]_allVars
  PROVE  CountersMatchHistory'
<1> SUFFICES ASSUME Unbroken'
             PROVE  CountersMatchHistory'
  BY DEF CountersMatchHistory
<1>0. /\ Inv /\ LogOK /\ Unbroken /\ Held /\ Honest /\ Exact /\ NoPanic
      /\ era \in Nat /\ shared \in Shared /\ TypeOK /\ now \in Nat
      /\ log \in Seq(Outcome) /\ Len(log) <= LogLength
      /\ [Next]_vars
  BY UnbrokenStep, HistoryStepIsStep, ModelAssumption
  DEF HistoryInv, LogOK, Inv, TypeOK
<1>1. /\ FailureThreshold \in Nat \ {0} /\ FailureThreshold <= LogLength
      /\ HalfOpenSuccessThreshold \in Nat /\ HalfOpenSuccessThreshold <= LogLength
      /\ LogLength \in Nat /\ TrailingErrors(log) \in Nat
      /\ shared.successes \in Nat
  BY <1>0, ConfigAssumption, LogLengthBounds, ErrorRunFinite DEF Shared
<1>2. /\ shared.mode = "Closed" =>
           /\ shared.consecutive_failures = TrailingErrors(log)
           /\ TrailingErrors(log) < FailureThreshold
      /\ shared.mode = "HalfOpen" =>
           /\ shared.successes = Len(log)
           /\ "err" \notin {log[i] : i \in DOMAIN log}
  BY <1>0 DEF HistoryInv, CountersMatchHistory
<1>3. CASE shared'.mode # shared.mode
  <2>1. log' = <<>> /\ shared'.consecutive_failures = 0 /\ shared'.successes = 0
    BY <1>0, <1>3, EraStep, EraOrPanic
  <2>2. ErrorRun(log') = {}
    BY <2>1 DEF ErrorRun
  <2>3. TrailingErrors(log') = 0
    BY <2>2, FS_EmptySet DEF TrailingErrors
  <2> QED BY <1>1, <2>1, <2>3 DEF CountersMatchHistory
<1>4. CASE shared'.mode = shared.mode
  <2>1. ASSUME shared'.consecutive_failures = shared.consecutive_failures,
               shared'.successes = shared.successes, log' = log
        PROVE  CountersMatchHistory'
    BY <1>2, <1>4, <2>1 DEF CountersMatchHistory
  <2>2. CASE UNCHANGED allVars
    BY <2>1, <2>2 DEF allVars
  <2>3. CASE (Tick \/ State) /\ Observe(<<>>)
    <3>1. log' = log
      BY <1>0, <1>4, <2>3, LogStep
    <3>2. shared' = shared
      BY <1>0, <1>4, <2>3, RefreshType DEF Tick, State, TransitionHalfOpen
    <3> QED BY <2>1, <3>1, <3>2
  <2>4. ASSUME NEW c \in Callers, HTryAcquire(c) PROVE CountersMatchHistory'
    <3>1. log' = log
      BY <1>0, <1>4, <2>4, LogStep DEF HTryAcquire
    <3>2. \/ shared' = shared \/ shared' = [shared EXCEPT !.in_flight = @ + 1]
      BY <1>0, <1>4, <2>4, TryAcquireShape DEF HTryAcquire, TransitionHalfOpen
    <3> QED BY <1>0, <2>1, <3>1, <3>2 DEF Shared
  <2>5. ASSUME NEW c \in Callers,
               \/ Success(c) /\ HReport(c, <<"ok">>)
               \/ Failure(c) /\ HReport(c, <<"err">>)
               \/ Drop(c) /\ HReport(c, <<>>)
        PROVE  CountersMatchHistory'
    <3>1. CASE /\ shared.mode = "Closed"
               /\ shared'.consecutive_failures = 0
               /\ log' = Latest(Append(log, "ok"))
      <4>1. TrailingErrors(log') = 0
        BY <1>0, <3>1, NoErrorsAfterSuccess
      <4> QED BY <1>1, <1>4, <3>1, <4>1 DEF CountersMatchHistory
    <3>2. CASE /\ shared.mode = "HalfOpen"
               /\ shared'.successes = shared.successes + 1
               /\ shared.successes + 1 < HalfOpenSuccessThreshold
               /\ log' = Latest(Append(log, "ok"))
      <4>1. /\ Append(log, "ok") \in Seq(Outcome)
            /\ Len(Append(log, "ok")) = Len(log) + 1
        BY <1>0 DEF Outcome
      <4>2. Len(log) + 1 <= LogLength
        BY <1>1, <1>2, <3>2
      <4>3. log' = Append(log, "ok")
        <5> DEFINE a == Append(log, "ok")
        <5>1. a \in Seq(Outcome) /\ Len(a) <= LogLength /\ Len(a) <= LogLength + 1
          BY <1>0, <1>1, <4>1, <4>2
        <5> HIDE DEF a
        <5>2. Latest(a) = a
          BY <5>1, LatestFacts
        <5> QED BY <3>2, <5>2 DEF a
      <4>4. \A i \in DOMAIN log' : log'[i] # "err"
        BY <1>0, <1>2, <3>2, <4>3
      <4> QED BY <1>2, <1>4, <3>2, <4>1, <4>3, <4>4 DEF CountersMatchHistory
    <3>3. CASE /\ shared.mode = "Closed"
               /\ shared'.consecutive_failures = shared.consecutive_failures + 1
               /\ shared.consecutive_failures + 1 < FailureThreshold
               /\ log' = Latest(Append(log, "err"))
      <4>1. TrailingErrors(log) < LogLength
        BY <1>1, <1>2, <3>3
      <4>2. TrailingErrors(log') = TrailingErrors(log) + 1
        BY <1>0, <3>3, <4>1, FailureLengthensRun
      <4> QED BY <1>2, <1>4, <3>3, <4>2 DEF CountersMatchHistory
    <3> QED BY <1>0, <1>4, <2>1, <2>5, <3>1, <3>2, <3>3, ReportStep
  <2> QED BY <2>2, <2>3, <2>4, <2>5 DEF HNext
<1> QED BY <1>3, <1>4

\* A rejected call found the breaker Open before its deadline, or every slot taken.
LEMMA RejectedShape ==
  ASSUME Inv, NEW c \in Callers, TryAcquire(c), permits' = permits
  PROVE  /\ shared' = shared
         /\ \/ shared.mode = "Open" /\ now < shared.until
            \/ /\ shared.mode = "HalfOpen"
               /\ shared.in_flight = HalfOpenSuccessThreshold
<1> DEFINE s == RefreshOpenState(shared)
<1>0. /\ shared \in Shared /\ permits \in [Callers -> Permit] /\ now \in Nat
      /\ shared.until \in Nat /\ shared.in_flight \in Nat
      /\ shared.in_flight <= HalfOpenSuccessThreshold
      /\ HalfOpenSuccessThreshold \in Nat \ {0}
      /\ permits[c] = NoPermit
  BY ModelAssumption, ConfigAssumption DEF Inv, TypeOK, Shared, ProbeLimit, TryAcquire
<1>1. ASSUME NEW kind \in {"Closed", "HalfOpen"}
      PROVE  permits' # [permits EXCEPT ![c] =
                           [kind |-> kind, generation |-> s.generation]]
  <2>1. permits'[c].kind = "None"
    BY <1>0 DEF NoPermit
  <2> QED BY <1>0, <2>1
<1>2. /\ shared' = s
      /\ \/ s.mode = "Open"
         \/ s.mode = "HalfOpen" /\ ~HasProbeSlot(s)
  <2> HIDE DEF s
  <2>1. \/ permits' = [permits EXCEPT ![c] =
                         [kind |-> "Closed", generation |-> s.generation]]
        \/ permits' = [permits EXCEPT ![c] =
                         [kind |-> "HalfOpen", generation |-> s.generation]]
        \/ /\ shared' = s
           /\ \/ s.mode = "Open"
              \/ s.mode = "HalfOpen" /\ ~HasProbeSlot(s)
    BY DEF TryAcquire, s
  <2> QED BY <1>1, <2>1
<1>3. s = shared
  <2>1. CASE s = TransitionHalfOpen(shared)
    <3>1. s.mode = "HalfOpen" /\ s.in_flight = 0
      BY <2>1 DEF TransitionHalfOpen
    <3> HIDE DEF s
    <3> QED BY <1>0, <1>2, <3>1 DEF HasProbeSlot
  <2> QED BY <1>0, <2>1, RefreshType
<1>4. shared.mode = "Open" => now < shared.until
  <2> SUFFICES ASSUME shared.mode = "Open", now >= shared.until PROVE FALSE
    BY <1>0
  <2>1. s.mode = "HalfOpen"
    BY DEF RefreshOpenState, TransitionHalfOpen
  <2> QED BY <1>3, <2>1
<1>5. ~HasProbeSlot(shared) => shared.in_flight = HalfOpenSuccessThreshold
  BY <1>0 DEF HasProbeSlot
<1> HIDE DEF s
<1> QED BY <1>2, <1>3, <1>4, <1>5

LEMMA RejectionsStep ==
  ASSUME HistoryInv, [HNext]_allVars
  PROVE  RejectionsHaveCause'
<1> SUFFICES ASSUME Unbroken', rejected' # {}
             PROVE  RejectionsHaveCause'
  BY DEF RejectionsHaveCause
<1>0. Inv /\ Unbroken /\ Held /\ Honest /\ Exact /\ era \in Nat
  BY UnbrokenStep DEF HistoryInv
<1>1. CASE UNCHANGED allVars
  BY <1>0, <1>1 DEF HistoryInv, RejectionsHaveCause, allVars, Members, Unbroken
<1>2. ASSUME NEW c \in Callers, HTryAcquire(c) PROVE RejectionsHaveCause'
  <2>1. TryAcquire(c) /\ permits' = permits /\ admitted' = admitted /\ now' = now
    BY <1>2 DEF HTryAcquire, TryAcquire
  <2>2. /\ shared' = shared
        /\ \/ shared.mode = "Open" /\ now < shared.until
           \/ /\ shared.mode = "HalfOpen"
              /\ shared.in_flight = HalfOpenSuccessThreshold
    BY <1>0, <2>1, RejectedShape
  <2>3. era' = era
    BY <1>0, <2>2, EraStep
  <2>4. Members' = Members
    BY <2>1, <2>3 DEF Members
  <2>5. shared.mode = "HalfOpen" => Members = CurrentProbes
    BY <1>0, MemberIffCurrent
    DEF Inv, CurrentPermitMatchesMode, CurrentProbes, Members
  <2> QED BY <1>0, <2>1, <2>2, <2>4, <2>5
          DEF RejectionsHaveCause, Exact, ProbeAccounting
<1> QED BY <1>1, <1>2 DEF HNext, HReport

LEMMA HistoryStep == HistoryInv /\ [HNext]_allVars => HistoryInv'
<1> SUFFICES ASSUME HistoryInv, [HNext]_allVars PROVE HistoryInv'
  OBVIOUS
<1>0. /\ Inv /\ TypeOK /\ era \in Nat /\ admitted \in [Callers -> Nat] /\ LogOK
      /\ Held /\ [Next]_vars
      /\ permits \in [Callers -> Permit] /\ permits' \in [Callers -> Permit]
  BY HistoryStepIsStep, TypeStep DEF HistoryInv, Inv, TypeOK
<1>1. Inv'
  BY <1>0, InvStep
<1>2. /\ era' \in Nat /\ era' <= shared'.generation
      /\ Unbroken' => Unbroken /\ NoPanic
  BY UnbrokenStep
<1>3. /\ admitted' \in [Callers -> Nat]
      /\ \A c \in Callers :
           \/ permits'[c] = permits[c] /\ admitted'[c] = admitted[c]
           \/ permits'[c] = NoPermit
           \/ /\ permits'[c].kind # "None" /\ admitted'[c] = era'
              /\ permits'[c].generation = shared'.generation
  BY <1>0, <1>2, PermitStep
<1>4. Held'
  BY <1>0, <1>3 DEF Held
<1>5. Unbroken' => Honest'
  BY <1>2, <1>3 DEF HistoryInv, Honest, Unbroken
<1>6. Unbroken' => Exact'
  BY <1>0, <1>2, ExactStep DEF HistoryInv
<1>7. LogOK'
  BY <1>0, LogTyped
<1>8. CountersMatchHistory'
  BY CountersStep
<1>9. RejectionsHaveCause'
  BY RejectionsStep
<1> QED BY <1>1, <1>2, <1>3, <1>4, <1>5, <1>6, <1>7, <1>8, <1>9 DEF HistoryInv

LEMMA HistoryHolds == HSpec => []HistoryInv
BY HistoryInit, HistoryStep, PTL DEF HSpec

\* Until an opening panics, the counters behind the mutex are the truth about what
\* the calls of this era reported: the run of failures that ends it in Closed, its
\* successful probes in HalfOpen.  Outcomes of earlier eras never mix in.
THEOREM CountersTrue == HSpec => []CountersMatchHistory
<1>1. HistoryInv => CountersMatchHistory
  BY DEF HistoryInv
<1> QED BY <1>1, HistoryHolds, PTL

\* No caller is turned away but by an Open breaker before its deadline or by a
\* HalfOpen one with every slot held by an unfinished probe of this era.
THEOREM RejectionsJustified == HSpec => []RejectionsHaveCause
<1>1. HistoryInv => RejectionsHaveCause
  BY DEF HistoryInv
<1> QED BY <1>1, HistoryHolds, PTL

\* Watching the breaker changes nothing of what it does.
THEOREM HistoryRefines == HSpec => Spec
<1>1. HInit => Init
  BY DEF HInit
<1> QED BY <1>1, HistoryStepIsStep, PTL DEF HSpec, Spec

\* Whatever opens or closes the breaker, callers of the era saw the reason for it:
\* the failure that completes the run, a failed probe, or the last success needed.
THEOREM TransitionsJustified == HSpec => TransitionsHaveEvidence
<1> DEFINE Evidence ==
      Unbroken =>
        /\ shared.mode = "Closed" /\ shared'.mode = "Open" =>
             \E c \in Members :
               Failure(c) /\ TrailingErrors(log) + 1 = FailureThreshold
        /\ shared.mode = "HalfOpen" /\ shared'.mode = "Open" =>
             \E c \in Members : Failure(c)
        /\ shared.mode = "HalfOpen" /\ shared'.mode = "Closed" =>
             \E c \in Members :
               Success(c) /\ Len(log) + 1 = HalfOpenSuccessThreshold
<1>1. HistoryInv /\ [HNext]_allVars => Evidence
  <2> SUFFICES ASSUME HistoryInv, [HNext]_allVars, Unbroken,
                      shared'.mode # shared.mode, shared.mode # "Open"
               PROVE  Evidence
    OBVIOUS
  <2>0. /\ Inv /\ TypeOK /\ CurrentPermitMatchesMode /\ ProbeLimit
        /\ Held /\ Honest /\ shared \in Shared /\ now \in Nat
        /\ log \in Seq(Outcome)
    BY ModelAssumption DEF HistoryInv, Inv, TypeOK, LogOK
  <2>1. /\ shared.mode = "Closed" =>
             /\ shared.consecutive_failures = TrailingErrors(log)
             /\ TrailingErrors(log) < FailureThreshold
        /\ shared.mode = "HalfOpen" => shared.successes = Len(log)
        /\ TrailingErrors(log) \in Nat /\ Len(log) \in Nat
        /\ FailureThreshold \in Nat /\ HalfOpenSuccessThreshold \in Nat
    BY <2>0, ErrorRunFinite, ConfigAssumption DEF HistoryInv, CountersMatchHistory
  <2>2. CASE UNCHANGED allVars \/ Tick
    BY <2>2 DEF allVars, Tick
  <2>3. CASE State
    BY <2>0, <2>3, RefreshType DEF State
  <2>4. ASSUME NEW c \in Callers, TryAcquire(c) PROVE FALSE
    <3>1. [shared EXCEPT !.in_flight = @ + 1].mode = shared.mode
      BY <2>0 DEF Shared
    <3> QED BY <2>0, <2>4, <3>1, TryAcquireShape
  <2>5. ASSUME NEW c \in Callers, Success(c) PROVE Evidence
    <3>1. /\ [shared EXCEPT !.consecutive_failures = 0].mode = shared.mode
          /\ Probed(shared).mode = shared.mode
      BY <2>0 DEF Shared, Probed
    <3>2. /\ c \in CurrentProbes /\ shared.mode = "HalfOpen"
          /\ shared.successes + 1 >= HalfOpenSuccessThreshold
          /\ shared' = TransitionClosed(shared)
      BY <2>0, <2>5, <3>1, SuccessShape
    <3>3. c \in Members
      BY <2>0, <3>2, MemberIffCurrent DEF CurrentProbes
    <3>4. Len(log) + 1 = HalfOpenSuccessThreshold
      BY <2>0, <2>1, <3>2 DEF ProbeLimit
    <3>5. shared'.mode = "Closed"
      BY <3>2 DEF TransitionClosed
    <3> QED BY <2>5, <3>2, <3>3, <3>4, <3>5
  <2>6. ASSUME NEW c \in Callers, Failure(c) PROVE Evidence
    <3>1. [shared EXCEPT !.consecutive_failures = @ + 1].mode = shared.mode
      BY <2>0 DEF Shared
    <3>2. /\ Current(c)
          /\ shared.mode = "Closed" =>
               shared.consecutive_failures + 1 >= FailureThreshold
          /\ shared' = TransitionOpen(shared)
      BY <2>0, <2>6, <3>1, FailureShape
    <3>3. c \in Members
      BY <2>0, <3>2, MemberIffCurrent
    <3>4. shared.mode = "Closed" => TrailingErrors(log) + 1 = FailureThreshold
      BY <2>1, <3>2
    <3>5. shared'.mode = "Open"
      BY <3>2 DEF TransitionOpen
    <3> QED BY <2>6, <3>3, <3>4, <3>5
  <2>7. ASSUME NEW c \in Callers, Drop(c) PROVE FALSE
    <3>1. [shared EXCEPT !.in_flight = Decrement(@)].mode = shared.mode
      BY <2>0 DEF Shared
    <3> QED BY <2>0, <2>7, <3>1, DropShape
  <2> HIDE DEF Evidence
  <2> QED BY <2>2, <2>3, <2>4, <2>5, <2>6, <2>7 DEF HNext, HTryAcquire
<1> QED BY <1>1, HistoryHolds, PTL DEF HSpec, TransitionsHaveEvidence

-----------------------------------------------------------------------------
(* The contract itself, of any state.                                       *)

VARIABLES anyNow, anyPhase, anyDeadline, anyStreak, anyWins, anyMembers

AnyBreaker ==
  INSTANCE BreakerContract WITH
    now <- anyNow, phase <- anyPhase, deadline <- anyDeadline,
    streak <- anyStreak, wins <- anyWins, members <- anyMembers

ContractInv ==
  /\ anyNow \in Nat /\ anyDeadline \in Nat /\ anyStreak \in Nat /\ anyWins \in Nat
  /\ anyPhase \in {"Closed", "Open", "HalfOpen"}
  /\ anyMembers \subseteq Callers
  /\ anyPhase = "HalfOpen" =>
       Cardinality(anyMembers) <= HalfOpenSuccessThreshold /\ anyWins < HalfOpenSuccessThreshold
  /\ anyPhase = "Closed" => anyStreak < FailureThreshold
  /\ anyPhase = "Open" => anyMembers = {} /\ anyDeadline <= anyNow + OpenTimeout

LEMMA ContractCardinality == \A S : AnyBreaker!Cardinality(S) = Cardinality(S)
BY Zenon DEF AnyBreaker!Cardinality, Cardinality

\* An era begins with nothing counted and at most the first probe.
LEMMA EnterSound ==
  ASSUME ContractInv, NEW next \in {"Closed", "Open", "HalfOpen"}, NEW joining,
         AnyBreaker!Enter(next, joining),
         joining = {} \/ (next = "HalfOpen" /\ \E c \in Callers : joining = {c})
  PROVE  ContractInv'
<1>1. /\ anyNow' = anyNow /\ anyPhase' = next /\ anyStreak' = 0 /\ anyWins' = 0
      /\ anyMembers' = joining
      /\ anyDeadline' = IF next = "Open" THEN anyNow + OpenTimeout ELSE 0
  BY DEF AnyBreaker!Enter
<1>2. /\ FailureThreshold \in Nat \ {0} /\ OpenTimeout \in Nat
      /\ HalfOpenSuccessThreshold \in Nat \ {0}
  BY ConfigAssumption
<1>3. joining \subseteq Callers /\ Cardinality(joining) \in 0 .. 1
  <2>1. CASE joining = {}
    BY <2>1, FS_EmptySet
  <2>2. ASSUME NEW c \in Callers, joining = {c}
        PROVE  joining \subseteq Callers /\ Cardinality(joining) \in 0 .. 1
    <3>1. Cardinality({c}) = 1
      BY FS_Singleton
    <3> QED BY <2>2, <3>1
  <2> QED BY <2>1, <2>2
<1> QED BY <1>1, <1>2, <1>3 DEF ContractInv

LEMMA LeaveSound ==
  ASSUME ContractInv, NEW c \in anyMembers, anyMembers' = anyMembers \ {c},
         UNCHANGED <<anyNow, anyPhase, anyDeadline>>,
         anyStreak' \in Nat, anyWins' \in Nat,
         anyPhase = "HalfOpen" => anyWins' < HalfOpenSuccessThreshold,
         anyPhase = "Closed" => anyStreak' < FailureThreshold
  PROVE  ContractInv'
<1>1. IsFiniteSet(anyMembers) /\ anyMembers' \subseteq anyMembers
  BY FS_Subset, ModelAssumption DEF ContractInv
<1>2. IsFiniteSet(anyMembers') /\ Cardinality(anyMembers') <= Cardinality(anyMembers)
  BY <1>1, FS_Subset
<1>3. Cardinality(anyMembers') \in Nat /\ Cardinality(anyMembers) \in Nat
  BY <1>1, <1>2, FS_CardinalityType
<1>4. HalfOpenSuccessThreshold \in Nat
  BY ConfigAssumption
<1> QED BY <1>1, <1>2, <1>3, <1>4 DEF ContractInv

LEMMA AdmitSound ==
  ASSUME ContractInv, NEW c \in Callers, AnyBreaker!Admit(c)
  PROVE  ContractInv'
<1>1. /\ c \notin anyMembers /\ anyMembers' = anyMembers \cup {c}
      /\ UNCHANGED <<anyNow, anyPhase, anyDeadline, anyStreak, anyWins>>
      /\ anyPhase = "HalfOpen" => Cardinality(anyMembers) < HalfOpenSuccessThreshold
      /\ anyPhase # "Open"
  BY ContractCardinality DEF AnyBreaker!Admit
<1>2. PICK A : A = anyMembers
  OBVIOUS
<1>3. IsFiniteSet(A) /\ Cardinality(A) \in Nat
  <2>1. IsFiniteSet(A)
    BY <1>2, FS_Subset, ModelAssumption DEF ContractInv
  <2> QED BY <2>1, FS_CardinalityType
<1>4. Cardinality(A \cup {c}) = Cardinality(A) + 1
  BY <1>1, <1>2, <1>3, FS_AddElement
<1>5. Cardinality(anyMembers') = Cardinality(anyMembers) + 1
  BY <1>1, <1>2, <1>4
<1>6. HalfOpenSuccessThreshold \in Nat
  BY ConfigAssumption
<1> QED BY <1>1, <1>2, <1>3, <1>5, <1>6 DEF ContractInv

LEMMA ContractStep ==
  ASSUME ContractInv, [AnyBreaker!Next]_(AnyBreaker!vars)
  PROVE  ContractInv'
<1>0. /\ FailureThreshold \in Nat \ {0} /\ OpenTimeout \in Nat
      /\ HalfOpenSuccessThreshold \in Nat \ {0}
      /\ anyNow \in Nat /\ anyStreak \in Nat /\ anyWins \in Nat
  BY ConfigAssumption DEF ContractInv
<1>1. CASE UNCHANGED AnyBreaker!vars
  BY <1>1 DEF AnyBreaker!vars, ContractInv
<1>2. CASE AnyBreaker!Pass
  BY <1>0, <1>2 DEF AnyBreaker!Pass, ContractInv
<1>3. CASE AnyBreaker!Expire
  BY <1>3, EnterSound DEF AnyBreaker!Expire
<1>4. ASSUME NEW c \in Callers, AnyBreaker!Leave(c) PROVE ContractInv'
  BY <1>0, <1>4, LeaveSound DEF AnyBreaker!Leave, ContractInv
<1>5. ASSUME NEW c \in Callers, AnyBreaker!Succeed(c) PROVE ContractInv'
  <2>1. CASE AnyBreaker!Enter("Closed", {})
    BY <2>1, EnterSound
  <2>2. CASE /\ c \in anyMembers /\ anyMembers' = anyMembers \ {c}
             /\ UNCHANGED <<anyNow, anyPhase, anyDeadline>>
             /\ \/ anyPhase = "Closed" /\ anyStreak' = 0 /\ UNCHANGED anyWins
                \/ /\ anyPhase = "HalfOpen" /\ anyWins + 1 < HalfOpenSuccessThreshold
                   /\ anyWins' = anyWins + 1 /\ UNCHANGED anyStreak
    BY <1>0, <2>2, LeaveSound
  <2> QED BY <1>5, <2>1, <2>2 DEF AnyBreaker!Succeed
<1>6. ASSUME NEW c \in Callers, AnyBreaker!Fail(c) PROVE ContractInv'
  <2>1. CASE AnyBreaker!Enter("Open", {})
    BY <2>1, EnterSound
  <2>2. CASE /\ c \in anyMembers /\ anyMembers' = anyMembers \ {c}
             /\ UNCHANGED <<anyNow, anyPhase, anyDeadline, anyWins>>
             /\ anyPhase = "Closed" /\ anyStreak + 1 < FailureThreshold
             /\ anyStreak' = anyStreak + 1
    BY <1>0, <2>2, LeaveSound
  <2> QED BY <1>6, <2>1, <2>2 DEF AnyBreaker!Fail
<1>7. ASSUME NEW c \in Callers, AnyBreaker!Admit(c) PROVE ContractInv'
  BY <1>7, AdmitSound
<1> QED BY <1>1, <1>2, <1>3, <1>4, <1>5, <1>6, <1>7 DEF AnyBreaker!Next

\* Whatever implements the contract keeps its eras sound: no more probes than a recovery
\* needs, counts that stop short of their thresholds, and nobody with a say while open.
THEOREM ContractKeepsErasSound == AnyBreaker!Spec => []AnyBreaker!EraSound
<1>1. AnyBreaker!Init => ContractInv
  BY ConfigAssumption DEF AnyBreaker!Init, ContractInv
<1>2. ContractInv => AnyBreaker!EraSound
  BY ContractCardinality DEF ContractInv, AnyBreaker!EraSound
<1>3. ContractInv /\ [AnyBreaker!Next]_(AnyBreaker!vars) => ContractInv'
  BY ContractStep
<1> QED BY <1>1, <1>2, <1>3, PTL DEF AnyBreaker!Spec
=============================================================================
