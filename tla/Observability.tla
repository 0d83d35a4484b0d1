---------------------------- MODULE Observability ----------------------------
(***************************************************************************)
(* The events of observability.rs and their translation by the two sinks:  *)
(* MetricsObserver (metrics_adapter.rs) into labelled series and           *)
(* TracingObserver (tracing_adapter.rs) into structured records.  Threads  *)
(* observe concurrently; the sinks keep nothing of their own, so what they *)
(* share is the metrics recorder and the trace subscriber behind them.     *)
(*                                                                         *)
(* An enum is the record of its variants' label strings: its DOMAIN are    *)
(* the variants.  An event is a record of its variant's fields.  The       *)
(* samples' values, seconds as f64, are left out.  An operator named Bad.. *)
(* is a plausible mistake in the definition after it.                      *)
(***************************************************************************)
EXTENDS Integers, Sequences, FiniteSets, Bags

CONSTANTS
  Threads,
  RouteIds, Ordinals, Generations, Durations,  \* what events may carry
  NanosPerMicro,  \* nanoseconds in a microsecond
  U64Max          \* the greatest u64

None == "<no route>"  \* Option::None of a route

\* RouteId::new refuses the empty string.
ASSUME EventAssumption ==
  /\ RouteIds \cap {"", None} = {}
  /\ (Ordinals \cup Generations \cup Durations) \subseteq Nat
  /\ NanosPerMicro \in Nat \ {0} /\ U64Max \in Nat

-----------------------------------------------------------------------------
TrafficRole == [Primary |-> "primary", Shadow |-> "shadow"]

RejectionReason ==
  [CircuitOpen |-> "circuit_open", BulkheadFull |-> "bulkhead_full",
   RetryBudgetExhausted |-> "retry_budget_exhausted",
   LogicalDeadlineExhausted |-> "logical_deadline_exhausted",
   RouteAttemptBudgetExhausted |-> "route_attempt_budget_exhausted",
   NoEligibleRoute |-> "no_eligible_route"]

RetrySuppressionReason ==
  [RetryPolicyExhausted |-> "retry_policy_exhausted",
   RetryBudgetExhausted |-> "retry_budget_exhausted",
   LogicalDeadlineExhausted |-> "logical_deadline_exhausted"]

OutcomeClass ==
  [Succeeded |-> "succeeded", Failed |-> "failed", Cancelled |-> "cancelled",
   DeadlineExceeded |-> "deadline_exceeded", Overloaded |-> "overloaded"]

BudgetStage ==
  [BeforeAttempt |-> "before_attempt", BeforeBackoff |-> "before_backoff",
   BeforeFailover |-> "before_failover", BeforeShadow |-> "before_shadow"]

ShadowSamplingOutcome == [Sampled |-> "sampled", NotSampled |-> "not_sampled"]

BadCircuitState == [Closed |-> "closed", Open |-> "open", HalfOpen |-> "open"]

circuit_state == [Closed |-> "closed", Open |-> "open", HalfOpen |-> "half_open"]

RouteFields == {"route_id", "from_route_id", "to_route_id"}
DurationFields == {"latency", "backoff"}

\* The events an application may hand to an observer.
ResilienceEvent ==
  LET Role == DOMAIN TrafficRole
      Outcome == DOMAIN OutcomeClass
      State == DOMAIN circuit_state
      Maybe == RouteIds \cup {None}
  IN UNION {
       [kind : {"AttemptAdmitted"}, role : Role, route_id : RouteIds,
        attempt_ordinal : Ordinals],
       [kind : {"AttemptRejected"}, role : Role, route_id : Maybe,
        reason : DOMAIN RejectionReason],
       [kind : {"AttemptCompleted"}, role : Role, route_id : RouteIds,
        attempt_ordinal : Ordinals, outcome : Outcome, latency : Durations],
       [kind : {"RetryScheduled"}, role : Role, route_id : RouteIds,
        retry_ordinal : Ordinals, backoff : Durations],
       [kind : {"RetrySuppressed"}, role : Role, route_id : RouteIds,
        retry_ordinal : Ordinals, reason : DOMAIN RetrySuppressionReason],
       [kind : {"BreakerTransition"}, role : Role, route_id : RouteIds,
        from : State, to : State],
       [kind : {"BulkheadAdmission"}, role : Role, route_id : RouteIds,
        admitted : BOOLEAN],
       [kind : {"RouteSelected"}, role : Role, generation : Generations,
        route_id : RouteIds],
       [kind : {"RouteFailover"}, generation : Generations,
        failover_ordinal : Ordinals, from_route_id : RouteIds, to_route_id : Maybe,
        outcome : Outcome],
       [kind : {"ShadowSampled"}, generation : Generations,
        outcome : DOMAIN ShadowSamplingOutcome],
       [kind : {"ShadowCompleted"}, generation : Generations, route_id : RouteIds,
        outcome : Outcome],
       [kind : {"LogicalDeadlineExhausted"}, role : Role, stage : DOMAIN BudgetStage]}

\* The label strings of the enum in field f of an event of this kind.
Labels(kind, f) ==
  CASE f = "role" -> TrafficRole
    [] f = "reason" ->
         IF kind = "AttemptRejected" THEN RejectionReason ELSE RetrySuppressionReason
    [] f = "outcome" ->
         IF kind = "ShadowSampled" THEN ShadowSamplingOutcome ELSE OutcomeClass
    [] f \in {"from", "to"} -> circuit_state
    [] f = "stage" -> BudgetStage

EnumFields == {"role", "reason", "outcome", "from", "to", "stage"}

-----------------------------------------------------------------------------
(* MetricsObserver.  The metric's name is one per kind of event, and stands  *)
(* for both the counter and, for a timed kind, the histogram.                *)

\* The fields that become labels.
Dimensions ==
  [AttemptAdmitted |-> {"role", "route_id"},
   AttemptRejected |-> {"role", "route_id", "reason"},
   AttemptCompleted |-> {"role", "route_id", "outcome"},
   RetryScheduled |-> {"role", "route_id"},
   RetrySuppressed |-> {"role", "route_id", "reason"},
   BreakerTransition |-> {"role", "route_id", "from", "to"},
   BulkheadAdmission |-> {"role", "route_id", "admitted"},
   RouteSelected |-> {"role", "route_id"},
   RouteFailover |-> {"from_route_id", "to_route_id", "outcome"},
   ShadowSampled |-> {"outcome"},
   ShadowCompleted |-> {"route_id", "outcome"},
   LogicalDeadlineExhausted |-> {"role", "stage"}]

\* route_label: an absent route gets a string that is also a possible RouteId.
route_label(route) == IF route = None THEN "none" ELSE route

bool_label(value) == IF value THEN "true" ELSE "false"

Series(e) ==
  [name |-> e.kind,
   labels |-> [f \in Dimensions[e.kind] |->
                 CASE f \in RouteFields -> route_label(e[f])
                   [] f = "admitted" -> bool_label(e[f])
                   [] f \in EnumFields -> Labels(e.kind, f)[e[f]]]]

Timed == {"AttemptCompleted", "RetryScheduled"}

-----------------------------------------------------------------------------
(* TracingObserver *)

\* duration_micros
Micros(d) == IF d \div NanosPerMicro > U64Max THEN U64Max ELSE d \div NanosPerMicro

BadRecord(e) ==  \* wraps where the code saturates
  [f \in DOMAIN e |->
     CASE f \in DurationFields -> (e[f] \div NanosPerMicro) % (U64Max + 1)
       [] f \in RouteFields -> IF e[f] = None THEN "" ELSE e[f]
       [] f \in EnumFields -> Labels(e.kind, f)[e[f]]
       [] OTHER -> e[f]]

\* Every field of the event is a field of the record.
Record(e) ==
  [f \in DOMAIN e |->
     CASE f \in DurationFields -> Micros(e[f])
       [] f \in RouteFields -> IF e[f] = None THEN "" ELSE e[f]
       [] f \in EnumFields -> Labels(e.kind, f)[e[f]]
       [] OTHER -> e[f]]

-----------------------------------------------------------------------------
VARIABLES
  counters,  \* the recorder's counters: a bag of series
  samples,   \* the series of the samples its histograms took: a bag
  trace,     \* the subscriber's records, in order
  observing, \* the event each thread observes
  stage      \* how far it is: "idle", "traced", "counted", "observed"

sinkVars == <<counters, samples, trace, observing, stage>>

SinkInit ==
  /\ counters = EmptyBag
  /\ samples = EmptyBag
  /\ trace = <<>>
  /\ observing = [t \in Threads |-> [kind |-> "none"]]
  /\ stage = [t \in Threads |-> "idle"]

\* TracingObserver::observe: one record.  Each thread observes one event.
Trace(t) ==
  /\ stage[t] = "idle"
  /\ \E e \in ResilienceEvent :
       /\ observing' = [observing EXCEPT ![t] = e]
       /\ trace' = Append(trace, [thread |-> t, record |-> Record(e)])
  /\ stage' = [stage EXCEPT ![t] = "traced"]
  /\ UNCHANGED <<counters, samples>>

\* MetricsObserver::observe: the counter, then the histogram of a timed event.
Count(t) ==
  /\ stage[t] = "traced"
  /\ counters' = counters (+) SetToBag({Series(observing[t])})
  /\ stage' = [stage EXCEPT ![t] =
                 IF observing[t].kind \in Timed THEN "counted" ELSE "observed"]
  /\ UNCHANGED <<samples, trace, observing>>

Sample(t) ==
  /\ stage[t] = "counted"
  /\ samples' = samples (+) SetToBag({Series(observing[t])})
  /\ stage' = [stage EXCEPT ![t] = "observed"]
  /\ UNCHANGED <<counters, trace, observing>>

SinkNext == \E t \in Threads : Trace(t) \/ Count(t) \/ Sample(t)

SinkSpec == SinkInit /\ [][SinkNext]_sinkVars

-----------------------------------------------------------------------------
\* What a label may depend on: routes and closed enums, never an ordinal, a
\* generation or a duration.
Bounded == RouteFields \cup EnumFields \cup {"admitted"}

SameDimensions(a, b) ==
  /\ a.kind = b.kind
  /\ \A f \in DOMAIN a \cap Bounded :
       a[f] = b[f] \/ (f \in RouteFields /\ {a[f], b[f]} = {None, "none"})

\* CopiesIn of module Bags, which the proof system's version of it lacks.
Copies(series, bag) == IF BagIn(series, bag) THEN bag[series] ELSE 0

\* Two events are counted in one series exactly when they are of one kind and agree
\* in every bounded dimension, a route called "none" being taken for an absent one;
\* each is counted once, and a histogram lags its counter only by the threads between
\* the two calls.
SeriesAreDimensions ==
  \A t \in Threads :
    LET Alike(stages) ==
          Cardinality({u \in Threads : /\ stage[u] \in stages
                                       /\ SameDimensions(observing[t], observing[u])})
    IN stage[t] \in {"counted", "observed"} =>
         /\ Copies(Series(observing[t]), counters) = Alike({"counted", "observed"})
         /\ Copies(Series(observing[t]), samples) =
              IF observing[t].kind \in Timed THEN Alike({"observed"}) ELSE 0

\* A trace loses nothing of an event but the fraction of a microsecond and what is
\* beyond u64 microseconds: events with the same record agree in all else.
TraceKeepsEvent ==
  \A i, j \in DOMAIN trace :
    LET a == observing[trace[i].thread]
        b == observing[trace[j].thread]
    IN trace[i].record = trace[j].record =>
         \A f \in DOMAIN a :
           \/ a[f] = b[f]
           \/ /\ f \in DurationFields
              /\ LET x == a[f] \div NanosPerMicro
                     y == b[f] \div NanosPerMicro
                 IN x = y \/ (x >= U64Max /\ y >= U64Max)
=============================================================================
