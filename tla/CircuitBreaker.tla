--------------------------- MODULE CircuitBreaker ---------------------------
(***************************************************************************)
(* The circuit breaker of circuit_breaker.rs.  Every operation takes the   *)
(* breaker's mutex once, so it is one action; what interleaves is the      *)
(* lifetime of the permits, which callers keep across era changes, and the *)
(* clock.  A caller holds at most one permit; a thread with several calls  *)
(* outstanding is several callers.                                         *)
(*                                                                         *)
(* `shared' flattens the enum Mode: the fields of the variants that are    *)
(* not the current one are 0.  A poisoned mutex is recovered by `lock', so *)
(* it behaves as an ordinary one and leaves no trace here.                 *)
(***************************************************************************)
EXTENDS Integers, FiniteSets

CONSTANTS
  Callers,                  \* concurrent holders of permits
  FailureThreshold,         \* CircuitBreakerConfig.failure_threshold
  OpenTimeout,              \* CircuitBreakerConfig.open_timeout, in ticks
  HalfOpenSuccessThreshold, \* CircuitBreakerConfig.half_open_success_threshold
  MaxInstant,               \* the greatest Instant the platform represents
  Horizon,                  \* bound: the clock stops here
  MaxGeneration             \* bound: a panicking failure stops bumping here

\* CircuitBreakerConfig::new refuses a zero in any of its three fields.
ASSUME ConfigAssumption ==
  /\ FailureThreshold \in Nat \ {0}
  /\ OpenTimeout \in Nat \ {0}
  /\ HalfOpenSuccessThreshold \in Nat \ {0}

ASSUME ModelAssumption ==
  /\ IsFiniteSet(Callers)
  /\ MaxInstant \in Nat
  /\ Horizon \in Nat
  /\ MaxGeneration \in Nat

VARIABLES
  now,      \* Instant::now()
  shared,   \* the fields behind Mutex<Shared>
  permits   \* the CircuitBreakerPermit each caller holds, or NoPermit

vars == <<now, shared, permits>>

NoPermit == [kind |-> "None", generation |-> 0]
Permit == [kind : {"None", "Closed", "HalfOpen"}, generation : Nat]

Shared ==
  [generation : Nat, mode : {"Closed", "Open", "HalfOpen"},
   consecutive_failures : Nat, until : Nat, in_flight : Nat, successes : Nat]

-----------------------------------------------------------------------------
(* An operator named Bad... is a plausible mistake in the definition after  *)
(* it; nothing uses it but the mutation runs.                               *)
(*                                                                          *)
(* Shared's transitions.  wrapping_add(1) on the u64 generation is + 1,     *)
(* which GenerationMayWrap in CircuitBreakerProofs shows to be the same for *)
(* every permit fewer than 2^64 transitions old.                            *)

BadTransitionClosed(s) ==  \* the generation stays
  [generation |-> s.generation, mode |-> "Closed",
   consecutive_failures |-> 0, until |-> 0, in_flight |-> 0, successes |-> 0]

TransitionClosed(s) ==
  [generation |-> s.generation + 1, mode |-> "Closed",
   consecutive_failures |-> 0, until |-> 0, in_flight |-> 0, successes |-> 0]

\* Only when Instant::now() + open_timeout does not overflow; see Failure.
TransitionOpen(s) ==
  [generation |-> s.generation + 1, mode |-> "Open",
   consecutive_failures |-> 0, until |-> now + OpenTimeout,
   in_flight |-> 0, successes |-> 0]

TransitionHalfOpen(s) ==
  [generation |-> s.generation + 1, mode |-> "HalfOpen",
   consecutive_failures |-> 0, until |-> 0, in_flight |-> 0, successes |-> 0]

BadRefreshEarly(s) ==  \* a tick before the deadline
  IF s.mode = "Open" /\ now + 1 >= s.until THEN TransitionHalfOpen(s) ELSE s

BadRefreshNever(s) == s

RefreshOpenState(s) ==
  IF s.mode = "Open" /\ now >= s.until THEN TransitionHalfOpen(s) ELSE s

\* u32::saturating_sub(1)
Decrement(n) == IF n > 0 THEN n - 1 ELSE 0

BadCounts(s, p, kind) == s.mode = kind /\ p.kind = kind  \* any generation

\* The state in which an outcome of permit p counts: same generation, and the
\* (mode, kind) pair is one the match in record_* has an arm for.
Counts(s, p, kind) ==
  s.generation = p.generation /\ s.mode = kind /\ p.kind = kind

-----------------------------------------------------------------------------
Init ==
  /\ now = 0
  /\ shared = [generation |-> 0, mode |-> "Closed", consecutive_failures |-> 0,
               until |-> 0, in_flight |-> 0, successes |-> 0]
  /\ permits = [c \in Callers |-> NoPermit]

\* Time passes between any two operations.
Tick ==
  /\ now < Horizon
  /\ now' = now + 1
  /\ UNCHANGED <<shared, permits>>

\* state(): reading the state refreshes it.
State ==
  /\ shared' = RefreshOpenState(shared)
  /\ UNCHANGED <<now, permits>>

BadHasProbeSlot(s) == s.in_flight <= HalfOpenSuccessThreshold

HasProbeSlot(s) == s.in_flight < HalfOpenSuccessThreshold

\* try_acquire(): refresh, then admit or reject by mode.  A rejected call
\* keeps the effect of the refresh and holds nothing.
TryAcquire(c) ==
  LET s == RefreshOpenState(shared)
      Admit(kind) == permits' =
        [permits EXCEPT ![c] = [kind |-> kind, generation |-> s.generation]]
  IN /\ permits[c] = NoPermit
     /\ \/ /\ s.mode = "Closed"
           /\ shared' = s
           /\ Admit("Closed")
        \/ /\ s.mode = "HalfOpen"
           /\ HasProbeSlot(s)
           /\ shared' = [s EXCEPT !.in_flight = @ + 1]
           /\ Admit("HalfOpen")
        \/ /\ \/ s.mode = "Open"
              \/ s.mode = "HalfOpen" /\ ~HasProbeSlot(s)
           /\ shared' = s
           /\ UNCHANGED permits
     /\ UNCHANGED now

BadRecordSuccessUnchecked(s, p) ==  \* stale results count, plain subtraction
  IF s.mode = "HalfOpen"
    THEN [s EXCEPT !.in_flight = @ - 1, !.successes = @ + 1]
    ELSE [s EXCEPT !.consecutive_failures = 0]

BadRecordSuccessNoReset(s, p) ==  \* a success in Closed leaves the streak
  LET probed == [s EXCEPT !.in_flight = Decrement(@), !.successes = @ + 1]
  IN CASE Counts(s, p, "HalfOpen") ->
            IF probed.successes >= HalfOpenSuccessThreshold
              THEN TransitionClosed(probed) ELSE probed
       [] OTHER -> s

\* What record_success leaves behind the mutex.
RecordSuccess(s, p) ==
  LET probed == [s EXCEPT !.in_flight = Decrement(@), !.successes = @ + 1]
  IN CASE Counts(s, p, "Closed") -> [s EXCEPT !.consecutive_failures = 0]
       [] Counts(s, p, "HalfOpen") ->
            IF probed.successes >= HalfOpenSuccessThreshold
              THEN TransitionClosed(probed) ELSE probed
       [] OTHER -> s

\* What record_failure leaves before it decides whether to open.
CountFailure(s, p) ==
  CASE Counts(s, p, "Closed") -> [s EXCEPT !.consecutive_failures = @ + 1]
    [] Counts(s, p, "HalfOpen") -> [s EXCEPT !.in_flight = Decrement(@)]
    [] OTHER -> s

BadShouldOpen(s, p) ==  \* one failure too late
  \/ Counts(s, p, "Closed") /\ s.consecutive_failures > FailureThreshold
  \/ Counts(s, p, "HalfOpen")

\* record_failure's should_open, in the state CountFailure leaves.
ShouldOpen(s, p) ==
  \/ Counts(s, p, "Closed") /\ s.consecutive_failures >= FailureThreshold
  \/ Counts(s, p, "HalfOpen")

Release(c) == permits' = [permits EXCEPT ![c] = NoPermit]

\* CircuitBreakerPermit::success()
Success(c) ==
  /\ permits[c] # NoPermit
  /\ shared' = RecordSuccess(shared, permits[c])
  /\ Release(c)
  /\ UNCHANGED now

\* CircuitBreakerPermit::failure().  transition_open bumps the generation and
\* then adds the timeout to Instant::now(), which panics on overflow: the mode
\* stays what it was, the panic unwinds into the permit's Drop, and the abandon
\* there finds the generation moved and changes nothing.
Failure(c) ==
  LET p == permits[c]
      s == CountFailure(shared, p)
  IN /\ p # NoPermit
     /\ \/ /\ ~ShouldOpen(s, p)
           /\ shared' = s
        \/ /\ ShouldOpen(s, p)
           /\ now + OpenTimeout <= MaxInstant
           /\ now + OpenTimeout <= Horizon
           /\ shared' = TransitionOpen(s)
        \/ /\ ShouldOpen(s, p)
           /\ now + OpenTimeout > MaxInstant
           /\ s.generation < MaxGeneration
           /\ shared' = [s EXCEPT !.generation = @ + 1]
     /\ Release(c)
     /\ UNCHANGED now

BadDrop(c) ==  \* the slot of an abandoned probe is not returned
  /\ permits[c] # NoPermit
  /\ Release(c)
  /\ UNCHANGED <<now, shared>>

\* Dropping a permit that reported nothing (an early return, a cancelled future
\* or a panicking operation under `call'): abandon().
Drop(c) ==
  /\ permits[c] # NoPermit
  /\ shared' = IF Counts(shared, permits[c], "HalfOpen")
                 THEN [shared EXCEPT !.in_flight = Decrement(@)]
                 ELSE shared
  /\ Release(c)
  /\ UNCHANGED now

Finish(c) == Success(c) \/ Failure(c) \/ Drop(c)

Next ==
  \/ Tick
  \/ State
  \/ \E c \in Callers : TryAcquire(c) \/ Success(c) \/ Failure(c) \/ Drop(c)

Spec == Init /\ [][Next]_vars

(* Time passes; somebody keeps asking for permits (an Open breaker has no   *)
(* timer, only a call moves it); and every caller eventually finishes or    *)
(* drops its call, which Rust's ownership guarantees unless the operation   *)
(* itself never returns.                                                    *)
Fairness ==
  /\ WF_vars(Tick)
  /\ WF_vars(\E c \in Callers : TryAcquire(c))
  /\ \A c \in Callers : WF_vars(Finish(c))

FairSpec == Spec /\ Fairness

-----------------------------------------------------------------------------
Current(c) ==
  permits[c].kind # "None" /\ permits[c].generation = shared.generation

CurrentProbes == {c \in Callers : Current(c) /\ permits[c].kind = "HalfOpen"}

\* No Instant::now() + open_timeout of the run overflows.
NoOverflow == Horizon + OpenTimeout <= MaxInstant

\* Every variable stays in its type and the clock within its bound.
TypeOK ==
  /\ now \in 0 .. Horizon
  /\ shared \in Shared
  /\ permits \in [Callers -> Permit]

\* A permit of the current generation was issued in the current mode, and none
\* is current while the breaker is Open, so the `_ => {}' arms of record_success
\* and record_failure are dead and a stale permit is recognised by its generation
\* alone.  No permit comes from a generation the breaker has not reached.
CurrentPermitMatchesMode ==
  \A c \in Callers :
    /\ permits[c].generation <= shared.generation
    /\ Current(c) => permits[c].kind = shared.mode

\* in_flight is exactly the number of unfinished probes of this HalfOpen era: no
\* path (success, failure, drop, stale outcome) leaks a slot or returns one twice,
\* and the saturating_sub never saturates.  Needs NoOverflow.
ProbeAccounting ==
  shared.in_flight = Cardinality(CurrentProbes)

\* An era never has more unfinished probes than slots taken, nor more slots taken
\* than half_open_success_threshold, and it ends before its successes reach the
\* threshold.  Holds even when opening panics.
ProbeLimit ==
  /\ Cardinality(CurrentProbes) <= shared.in_flight
  /\ shared.in_flight <= HalfOpenSuccessThreshold
  /\ shared.successes < HalfOpenSuccessThreshold

\* "`failure_threshold` consecutive failures transition Closed -> Open": the
\* breaker never rests in Closed with the threshold reached.  Needs NoOverflow.
ThresholdTripsBreaker ==
  shared.mode = "Closed" => shared.consecutive_failures < FailureThreshold

\* Every change of mode follows Closed -> Open -> HalfOpen -> {Open, Closed} and
\* moves the generation by one, so that no permit of the old era is current in
\* the new one; and an Open breaker is not left before its deadline.
ErasAdvance ==
  [][shared'.mode # shared.mode =>
       /\ <<shared.mode, shared'.mode>> \in
            {<<"Closed", "Open">>, <<"Open", "HalfOpen">>,
             <<"HalfOpen", "Open">>, <<"HalfOpen", "Closed">>}
       /\ shared'.generation = shared.generation + 1
       /\ \A c \in Callers : permits'[c] = permits[c] => ~Current(c)'
       /\ shared.mode = "Open" => now >= shared.until]_vars

\* What the code comment above try_acquire claims of all probes, whatever their
\* era: a HalfOpen breaker has at most half_open_success_threshold of them
\* outstanding.
ProbesInFlightBounded ==
  shared.mode = "HalfOpen" =>
    Cardinality({c \in Callers : permits[c].kind = "HalfOpen"})
      <= HalfOpenSuccessThreshold

\* An Open breaker that callers keep asking always gets to probe.
OpenEventuallyProbes == shared.mode = "Open" ~> shared.mode = "HalfOpen"

\* A HalfOpen breaker whose slots are all taken does not reject for ever: a slot
\* frees or the era ends, provided its probes finish one way or another.
ProbeSlotsFree ==
  []<>~(shared.mode = "HalfOpen"
        /\ shared.in_flight >= HalfOpenSuccessThreshold)
=============================================================================
