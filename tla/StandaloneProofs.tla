-------------------------- MODULE StandaloneProofs --------------------------
(***************************************************************************)
(* Proofs about the two components that no other one calls: RetryBudget,   *)
(* for any namespaces, capacities and widths, and Observability, for any   *)
(* threads, routes, numbers and durations an event may carry.              *)
(***************************************************************************)
EXTENDS RetryBudget, Observability, FiniteSetTheorems, TLAPS

-----------------------------------------------------------------------------
(* RetryBudget *)

TypeOK ==
  /\ available \in [Namespaces -> Nat]
  /\ admitted \in [Namespaces -> Nat]
  /\ reported \in [Namespaces -> Nat]
  /\ suppressed \subseteq Namespaces

Inv == TypeOK /\ RetriesPaidFor /\ TokensKept

LEMMA InvInit == Init => Inv
BY BudgetAssumption
DEF Init, Inv, TypeOK, RetriesPaidFor, TokensKept

\* Refilling a bucket neither overfills it nor takes from it.
LEMMA Refill ==
  ASSUME NEW n \in Namespaces, NEW a \in Nat, a <= Capacity[n]
  PROVE  LET r == Lesser(SaturatingAdd(a, Replenish[n]), Capacity[n])
         IN r \in Nat /\ a <= r /\ r <= Capacity[n] /\ r <= a + Replenish[n]
<1>1. Capacity[n] \in 1 .. U32Max /\ Replenish[n] \in 1 .. U32Max /\ U32Max \in Nat
  BY BudgetAssumption
<1> QED BY <1>1 DEF Lesser, SaturatingAdd

LEMMA OneMoreSuccess ==
  ASSUME NEW a \in Nat, NEW b \in Nat
  PROVE  a * (b + 1) = a * b + a /\ a * b \in Nat
OBVIOUS

\* What each call does to the account of its own namespace suffices for the rest.
LEMMA InvStep == Inv /\ [Next]_vars => Inv'
<1> SUFFICES ASSUME Inv, [Next]_vars PROVE Inv'
  OBVIOUS
<1>0. /\ available \in [Namespaces -> Nat] /\ admitted \in [Namespaces -> Nat]
      /\ reported \in [Namespaces -> Nat] /\ suppressed \subseteq Namespaces
      /\ \A n \in Namespaces :
           /\ Capacity[n] \in Nat \ {0} /\ Replenish[n] \in Nat
           /\ available[n] <= Capacity[n]
           /\ available[n] + admitted[n] <= Capacity[n] + Replenish[n] * reported[n]
           /\ Capacity[n] - admitted[n] <= available[n]
           /\ n \in suppressed => available[n] = 0
  BY BudgetAssumption
  DEF Inv, TypeOK, RetriesPaidFor, TokensKept
<1> HIDE DEF Inv
<1>1. ASSUME NEW n \in Namespaces, IsEmpty(n),
             suppressed' = suppressed \cup {n},
             UNCHANGED <<available, admitted, reported>>
      PROVE  Inv'
  BY <1>0, <1>1
  DEF IsEmpty, Inv, TypeOK, RetriesPaidFor, TokensKept
<1>2. ASSUME NEW n \in Namespaces, NEW a \in Nat, NEW d \in Nat, NEW r \in Nat,
             a <= Capacity[n], a + d <= Capacity[n] + Replenish[n] * r,
             Capacity[n] - d <= a,
             available' = [available EXCEPT ![n] = a],
             admitted' = [admitted EXCEPT ![n] = d],
             reported' = [reported EXCEPT ![n] = r],
             suppressed' = suppressed \ {n}
      PROVE  Inv'
  <2>1. TypeOK'
    BY <1>0, <1>2 DEF TypeOK
  <2>2. RetriesPaidFor'
    BY <1>0, <1>2 DEF RetriesPaidFor
  <2>3. TokensKept'
    BY <1>0, <1>2 DEF TokensKept
  <2> QED BY <2>1, <2>2, <2>3 DEF Inv
<1>3. ASSUME NEW n \in Namespaces, TryAcquireRetry(n) PROVE Inv'
  <2>1. CASE IsEmpty(n)
    BY <1>1, <1>3, <2>1 DEF TryAcquireRetry
  <2>2. CASE ~IsEmpty(n)
    <3>1. /\ available' = [available EXCEPT ![n] = available[n] - 1]
          /\ admitted' = [admitted EXCEPT ![n] = admitted[n] + 1]
          /\ reported' = [reported EXCEPT ![n] = reported[n]]
          /\ suppressed' = suppressed \ {n}
      BY <1>0, <1>3, <2>2 DEF TryAcquireRetry, Spend
    <3>2. available[n] \in Nat /\ available[n] # 0 /\ admitted[n] \in Nat
          /\ reported[n] \in Nat /\ Capacity[n] \in Nat
          /\ Replenish[n] * reported[n] \in Nat
      BY <1>0, <2>2, OneMoreSuccess DEF IsEmpty
    <3>3. /\ available[n] - 1 \in Nat /\ admitted[n] + 1 \in Nat
          /\ (available[n] - 1) + (admitted[n] + 1) = available[n] + admitted[n]
          /\ available[n] <= Capacity[n] => available[n] - 1 <= Capacity[n]
          /\ Capacity[n] - admitted[n] <= available[n] =>
               Capacity[n] - (admitted[n] + 1) <= available[n] - 1
      BY <3>2
    <3> QED BY <1>0, <1>2, <3>1, <3>2, <3>3
  <2> QED BY <2>1, <2>2
<1>4. ASSUME NEW n \in Namespaces, RecordSuccess(n) PROVE Inv'
  <2> DEFINE a == Lesser(SaturatingAdd(available[n], Replenish[n]), Capacity[n])
  <2>1. available[n] \in Nat /\ available[n] <= Capacity[n]
    BY <1>0
  <2>2. /\ a \in Nat /\ available[n] <= a /\ a <= Capacity[n]
        /\ a <= available[n] + Replenish[n]
    BY <2>1, Refill
  <2>3. /\ available' = [available EXCEPT ![n] = a]
        /\ admitted' = [admitted EXCEPT ![n] = admitted[n]]
        /\ reported' = [reported EXCEPT ![n] = reported[n] + 1]
        /\ suppressed' = suppressed \ {n}
    BY <1>0, <1>4 DEF RecordSuccess
  <2> HIDE DEF a
  <2>4. /\ Replenish[n] * (reported[n] + 1) = Replenish[n] * reported[n] + Replenish[n]
        /\ Replenish[n] * reported[n] \in Nat
    BY <1>0, OneMoreSuccess
  <2>5. /\ Capacity[n] \in Nat /\ Replenish[n] \in Nat /\ admitted[n] \in Nat
        /\ reported[n] + 1 \in Nat
        /\ available[n] + admitted[n] <= Capacity[n] + Replenish[n] * reported[n]
        /\ Capacity[n] - admitted[n] <= available[n]
    BY <1>0
  <2>6. a + admitted[n] <= Capacity[n] + Replenish[n] * (reported[n] + 1)
    BY <2>1, <2>2, <2>4, <2>5
  <2>7. Capacity[n] - admitted[n] <= a
    BY <2>1, <2>2, <2>5
  <2> QED BY <1>2, <2>2, <2>3, <2>5, <2>6, <2>7
<1>5. CASE UNCHANGED vars
  BY <1>0, <1>5
  DEF vars, Inv, TypeOK, RetriesPaidFor, TokensKept
<1> QED BY <1>3, <1>4, <1>5 DEF Next

LEMMA InvHolds == Spec => []Inv
BY InvInit, InvStep, PTL DEF Spec

\* However retries and successes interleave, admitted retries are paid for by the
\* capacity and the reported successes of their own namespace.
THEOREM StormBound == Spec => []RetriesPaidFor
<1>1. Inv => RetriesPaidFor
  BY DEF Inv
<1> QED BY <1>1, InvHolds, PTL

\* No token disappears, and none is withheld.
THEOREM NoTokenLost == Spec => []TokensKept
<1>1. Inv => TokensKept
  BY DEF Inv
<1> QED BY <1>1, InvHolds, PTL

-----------------------------------------------------------------------------
(* Observability.  First the events: what the fields of each kind hold. *)

\* A field of an event is of exactly the sort its name says, and the dimensions of its
\* kind are its bounded fields.
WellFormed(e) ==
  /\ "kind" \in DOMAIN e /\ e.kind \in DOMAIN Dimensions
  /\ Dimensions[e.kind] = DOMAIN e \cap Bounded
  /\ \A f \in DOMAIN e :
       /\ f \in DurationFields => e[f] \in Durations
       /\ f \in RouteFields => e[f] \in RouteIds \cup {None}
       /\ f \in EnumFields => e[f] \in DOMAIN Labels(e.kind, f)
       /\ f = "admitted" => e[f] \in BOOLEAN

LEMMA EventsWellFormed ==
  ASSUME NEW e \in ResilienceEvent PROVE WellFormed(e)
<1> USE DEF WellFormed, Dimensions, Bounded, DurationFields, RouteFields, EnumFields,
        Labels
<1>1. CASE e \in [kind : {"AttemptAdmitted"}, role : DOMAIN TrafficRole,
                  route_id : RouteIds, attempt_ordinal : Ordinals]
  BY <1>1
<1>2. CASE e \in [kind : {"AttemptRejected"}, role : DOMAIN TrafficRole,
                  route_id : RouteIds \cup {None}, reason : DOMAIN RejectionReason]
  BY <1>2
<1>3. CASE e \in [kind : {"AttemptCompleted"}, role : DOMAIN TrafficRole,
                  route_id : RouteIds, attempt_ordinal : Ordinals,
                  outcome : DOMAIN OutcomeClass, latency : Durations]
  BY <1>3
<1>4. CASE e \in [kind : {"RetryScheduled"}, role : DOMAIN TrafficRole,
                  route_id : RouteIds, retry_ordinal : Ordinals, backoff : Durations]
  BY <1>4
<1>5. CASE e \in [kind : {"RetrySuppressed"}, role : DOMAIN TrafficRole,
                  route_id : RouteIds, retry_ordinal : Ordinals,
                  reason : DOMAIN RetrySuppressionReason]
  BY <1>5
<1>6. CASE e \in [kind : {"BreakerTransition"}, role : DOMAIN TrafficRole,
                  route_id : RouteIds, from : DOMAIN circuit_state,
                  to : DOMAIN circuit_state]
  BY <1>6
<1>7. CASE e \in [kind : {"BulkheadAdmission"}, role : DOMAIN TrafficRole,
                  route_id : RouteIds, admitted : BOOLEAN]
  BY <1>7
<1>8. CASE e \in [kind : {"RouteSelected"}, role : DOMAIN TrafficRole,
                  generation : Generations, route_id : RouteIds]
  BY <1>8
<1>9. CASE e \in [kind : {"RouteFailover"}, generation : Generations,
                  failover_ordinal : Ordinals, from_route_id : RouteIds,
                  to_route_id : RouteIds \cup {None}, outcome : DOMAIN OutcomeClass]
  BY <1>9
<1>10. CASE e \in [kind : {"ShadowSampled"}, generation : Generations,
                   outcome : DOMAIN ShadowSamplingOutcome]
  BY <1>10
<1>11. CASE e \in [kind : {"ShadowCompleted"}, generation : Generations,
                   route_id : RouteIds, outcome : DOMAIN OutcomeClass]
  BY <1>11
<1>12. CASE e \in [kind : {"LogicalDeadlineExhausted"}, role : DOMAIN TrafficRole,
                   stage : DOMAIN BudgetStage]
  BY <1>12
<1> QED
  BY <1>1, <1>2, <1>3, <1>4, <1>5, <1>6, <1>7, <1>8, <1>9, <1>10, <1>11, <1>12
  DEF ResilienceEvent

\* No two variants of an enum have one label.
LEMMA LabelsInjective ==
  ASSUME NEW kind, NEW f \in EnumFields,
         NEW x \in DOMAIN Labels(kind, f), NEW y \in DOMAIN Labels(kind, f),
         Labels(kind, f)[x] = Labels(kind, f)[y]
  PROVE  x = y
<1> DEFINE Injective(table) ==
      \A a, b \in DOMAIN table : table[a] = table[b] => a = b
<1>1. Injective(TrafficRole) /\ Injective(ShadowSamplingOutcome)
  BY DEF TrafficRole, ShadowSamplingOutcome
<1>2. Injective(RejectionReason)
  BY DEF RejectionReason
<1>3. Injective(RetrySuppressionReason) /\ Injective(circuit_state)
  BY DEF RetrySuppressionReason, circuit_state
<1>4. Injective(OutcomeClass)
  BY DEF OutcomeClass
<1>5. Injective(BudgetStage)
  BY DEF BudgetStage
<1>6. Labels(kind, f) \in {TrafficRole, RejectionReason, RetrySuppressionReason,
                          OutcomeClass, BudgetStage, ShadowSamplingOutcome,
                          circuit_state}
  BY DEF Labels, EnumFields
<1>7. Injective(Labels(kind, f))
  BY <1>1, <1>2, <1>3, <1>4, <1>5, <1>6
<1> QED BY <1>7

\* Two events fall into one series exactly when they have the same dimensions.
LEMMA DimensionsDecideSeries ==
  ASSUME NEW a \in ResilienceEvent, NEW b \in ResilienceEvent
  PROVE  Series(a) = Series(b) <=> SameDimensions(a, b)
<1> DEFINE Label(e, f) ==
      CASE f \in RouteFields -> route_label(e[f])
        [] f = "admitted" -> bool_label(e[f])
        [] f \in EnumFields -> Labels(e.kind, f)[e[f]]
<1>1. WellFormed(a) /\ WellFormed(b)
  BY EventsWellFormed
<1>2. Series(a) = Series(b) <=>
        /\ a.kind = b.kind
        /\ [f \in Dimensions[a.kind] |-> Label(a, f)] =
             [f \in Dimensions[b.kind] |-> Label(b, f)]
  BY DEF Series
<1>3. SUFFICES ASSUME a.kind = b.kind
               PROVE  (\A f \in Dimensions[a.kind] : Label(a, f) = Label(b, f)) <=>
                        SameDimensions(a, b)
  <2> HIDE DEF Label
  <2> QED BY <1>2, <1>3 DEF SameDimensions
<1>4. ASSUME NEW f \in Dimensions[a.kind]
      PROVE  Label(a, f) = Label(b, f) <=>
               a[f] = b[f] \/ (f \in RouteFields /\ {a[f], b[f]} = {None, "none"})
  <2>1. f \in DOMAIN a /\ f \in DOMAIN b /\ f \in Bounded
    BY <1>1, <1>3 DEF WellFormed
  <2>2. CASE f \in RouteFields
    <3>1. Label(a, f) = route_label(a[f]) /\ Label(b, f) = route_label(b[f])
      BY <2>2 DEF RouteFields, EnumFields
    <3>2. None # "none"
      BY DEF None
    <3>3. route_label(a[f]) = route_label(b[f]) <=>
            a[f] = b[f] \/ {a[f], b[f]} = {None, "none"}
      <4> DEFINE x == a[f]
                 y == b[f]
      <4> HIDE DEF x, y
      <4>1. route_label(x) = route_label(y) <=>
              x = y \/ (x = None /\ y = "none") \/ (x = "none" /\ y = None)
        BY <3>2 DEF route_label
      <4>2. {x, y} = {None, "none"} <=>
              (x = None /\ y = "none") \/ (x = "none" /\ y = None)
        BY <3>2
      <4> QED BY <4>1, <4>2 DEF x, y
    <3> HIDE DEF Label
    <3> QED BY <2>2, <3>1, <3>3
  <2>3. CASE f = "admitted"
    <3>1. Label(a, f) = bool_label(a[f]) /\ Label(b, f) = bool_label(b[f])
      BY <2>3 DEF RouteFields, EnumFields
    <3>2. a[f] \in BOOLEAN /\ b[f] \in BOOLEAN
      BY <1>1, <2>1, <2>3 DEF WellFormed
    <3> QED BY <2>3, <3>1, <3>2 DEF bool_label, RouteFields
  <2>4. CASE f \in EnumFields
    <3>1. f \notin RouteFields /\ f # "admitted"
      BY <2>4 DEF EnumFields, RouteFields
    <3>2. Label(a, f) = Labels(a.kind, f)[a[f]] /\ Label(b, f) = Labels(a.kind, f)[b[f]]
      BY <1>3, <2>4, <3>1
    <3>3. a[f] \in DOMAIN Labels(a.kind, f) /\ b[f] \in DOMAIN Labels(a.kind, f)
      BY <1>1, <1>3, <2>1, <2>4 DEF WellFormed
    <3> HIDE DEF Label
    <3> QED BY <2>4, <3>1, <3>2, <3>3, LabelsInjective
  <2> QED BY <2>1, <2>2, <2>3, <2>4 DEF Bounded
<1>5. Dimensions[a.kind] = DOMAIN a \cap Bounded
  BY <1>1 DEF WellFormed
<1> HIDE DEF Label
<1> QED BY <1>3, <1>4, <1>5 DEF SameDimensions

\* A record keeps all of an event but what Micros drops.
LEMMA RecordKeeps ==
  ASSUME NEW a \in ResilienceEvent, NEW b \in ResilienceEvent, Record(a) = Record(b),
         NEW f \in DOMAIN a
  PROVE  \/ a[f] = b[f]
         \/ /\ f \in DurationFields
            /\ LET x == a[f] \div NanosPerMicro
                   y == b[f] \div NanosPerMicro
               IN x = y \/ (x >= U64Max /\ y >= U64Max)
<1> DEFINE Field(e, g) ==
      CASE g \in DurationFields -> Micros(e[g])
        [] g \in RouteFields -> IF e[g] = None THEN "" ELSE e[g]
        [] g \in EnumFields -> Labels(e.kind, g)[e[g]]
        [] OTHER -> e[g]
<1>1. WellFormed(a) /\ WellFormed(b)
  BY EventsWellFormed
<1>2. /\ Record(a) = [g \in DOMAIN a |-> Field(a, g)]
      /\ Record(b) = [g \in DOMAIN b |-> Field(b, g)]
  BY DEF Record
<1>3. DOMAIN a = DOMAIN b /\ \A g \in DOMAIN a : Field(a, g) = Field(b, g)
  <2> HIDE DEF Field
  <2>1. DOMAIN Record(a) = DOMAIN a /\ DOMAIN Record(b) = DOMAIN b
    BY <1>2
  <2>2. \A g \in DOMAIN a : Record(a)[g] = Field(a, g)
    BY <1>2
  <2>3. \A g \in DOMAIN b : Record(b)[g] = Field(b, g)
    BY <1>2
  <2> QED BY <2>1, <2>2, <2>3
<1>4. a.kind = b.kind
  <2>1. Field(a, "kind") = a.kind /\ Field(b, "kind") = b.kind
    BY DEF DurationFields, RouteFields, EnumFields
  <2> HIDE DEF Field
  <2> QED BY <1>1, <1>3, <2>1 DEF WellFormed
<1>5. CASE f \in DurationFields
  <2>1. Micros(a[f]) = Micros(b[f])
    BY <1>3, <1>5 DEF DurationFields, RouteFields, EnumFields
  <2>2. a[f] \in Nat /\ b[f] \in Nat /\ NanosPerMicro \in Nat \ {0} /\ U64Max \in Nat
    BY <1>1, <1>3, <1>5, EventAssumption DEF WellFormed
  <2> DEFINE x == a[f] \div NanosPerMicro
             y == b[f] \div NanosPerMicro
  <2>3. x \in Int /\ y \in Int
    BY <2>2
  <2>4. Micros(a[f]) = IF x > U64Max THEN U64Max ELSE x
    BY DEF Micros
  <2>5. Micros(b[f]) = IF y > U64Max THEN U64Max ELSE y
    BY DEF Micros
  <2> HIDE DEF x, y
  <2>6. (IF x > U64Max THEN U64Max ELSE x) = (IF y > U64Max THEN U64Max ELSE y)
    BY <2>1, <2>4, <2>5
  <2>7. x = y \/ (x >= U64Max /\ y >= U64Max)
    BY <2>2, <2>3, <2>6
  <2> QED BY <1>5, <2>7 DEF x, y
<1>6. CASE f \in RouteFields
  <2>1. (IF a[f] = None THEN "" ELSE a[f]) = (IF b[f] = None THEN "" ELSE b[f])
    BY <1>3, <1>6 DEF DurationFields, RouteFields, EnumFields
  <2>2. a[f] \in RouteIds \cup {None} /\ b[f] \in RouteIds \cup {None}
    BY <1>1, <1>3, <1>6 DEF WellFormed
  <2> QED BY <2>1, <2>2, EventAssumption
<1>7. CASE f \in EnumFields
  <2>1. f \notin DurationFields /\ f \notin RouteFields
    BY <1>7 DEF DurationFields, RouteFields, EnumFields
  <2>2. Labels(a.kind, f)[a[f]] = Labels(a.kind, f)[b[f]]
    BY <1>3, <1>4, <1>7, <2>1
  <2>3. a[f] \in DOMAIN Labels(a.kind, f) /\ b[f] \in DOMAIN Labels(a.kind, f)
    BY <1>1, <1>3, <1>4, <1>7 DEF WellFormed
  <2> QED BY <1>7, <2>2, <2>3, LabelsInjective
<1>8. CASE f \notin DurationFields \cup RouteFields \cup EnumFields
  BY <1>3, <1>8
<1> QED BY <1>5, <1>6, <1>7, <1>8

-----------------------------------------------------------------------------
(* What the recorder and the subscriber hold, in terms of what the threads have *)
(* observed so far.                                                             *)

AllSeries == {Series(e) : e \in ResilienceEvent}
Busy == {t \in Threads : stage[t] # "idle"}
CountedIn(s) ==
  {t \in Threads : stage[t] \in {"counted", "observed"} /\ Series(observing[t]) = s}
SampledIn(s) ==
  {t \in Threads : /\ stage[t] = "observed" /\ observing[t].kind \in Timed
                   /\ Series(observing[t]) = s}

\* Only a thread with a timed event is between the counter and the histogram.
SinkTypeOK ==
  /\ stage \in [Threads -> {"idle", "traced", "counted", "observed"}]
  /\ observing \in [Threads -> ResilienceEvent \cup {[kind |-> "none"]}]
  /\ trace \in Seq([thread : Threads, record : {Record(e) : e \in ResilienceEvent}])
  /\ IsFiniteSet(Busy)
  /\ \A t \in Busy : observing[t] \in ResilienceEvent
  /\ \A t \in Threads : stage[t] = "counted" => observing[t].kind \in Timed

CountersInStep == \A s \in AllSeries : Copies(s, counters) = Cardinality(CountedIn(s))
SamplesInStep == \A s \in AllSeries : Copies(s, samples) = Cardinality(SampledIn(s))
RecordsInStep ==
  \A i \in DOMAIN trace :
    trace[i].thread \in Busy /\ trace[i].record = Record(observing[trace[i].thread])

SinkInv == SinkTypeOK /\ CountersInStep /\ SamplesInStep /\ RecordsInStep

LEMMA OneMoreCopy ==
  ASSUME NEW bag, NEW x, NEW s, Copies(s, bag) \in Nat
  PROVE  Copies(s, bag (+) SetToBag({x})) =
           IF s = x THEN Copies(s, bag) + 1 ELSE Copies(s, bag)
<1>1. /\ DOMAIN SetToBag({x}) = {x}
      /\ SetToBag({x})[x] = 1
  BY DEF SetToBag
<1> DEFINE one == SetToBag({x})
           sum == bag (+) one
<1> HIDE DEF one
<1>2. /\ DOMAIN sum = DOMAIN bag \cup {x}
      /\ \A e \in DOMAIN sum :
           sum[e] = (IF e \in DOMAIN bag THEN bag[e] ELSE 0)
                      + (IF e \in {x} THEN one[e] ELSE 0)
  BY <1>1 DEF (+), one
<1> HIDE DEF sum
<1>3. Copies(s, sum) = IF s \in DOMAIN sum THEN sum[s] ELSE 0
  BY DEF Copies, BagIn, BagToSet
<1>4. Copies(s, bag) = IF s \in DOMAIN bag THEN bag[s] ELSE 0
  BY DEF Copies, BagIn, BagToSet
<1>5. one[x] = 1
  BY <1>1 DEF one
<1>6. s = x => Copies(s, sum) = Copies(s, bag) + 1
  BY <1>2, <1>3, <1>4, <1>5
<1>7. s # x => Copies(s, sum) = Copies(s, bag)
  BY <1>2, <1>3, <1>4
<1> QED BY <1>6, <1>7 DEF sum, one

LEMMA ThreadsCountable ==
  ASSUME IsFiniteSet(Busy), NEW s
  PROVE  IsFiniteSet(CountedIn(s)) /\ IsFiniteSet(SampledIn(s))
<1>1. CountedIn(s) \subseteq Busy /\ SampledIn(s) \subseteq Busy
  BY DEF CountedIn, SampledIn, Busy
<1> QED BY <1>1, FS_Subset

LEMMA SinkInvInit == SinkInit => SinkInv
<1> SUFFICES ASSUME SinkInit PROVE SinkInv
  OBVIOUS
<1>1. Busy = {} /\ IsFiniteSet({}) /\ Cardinality({}) = 0
  BY FS_EmptySet DEF SinkInit, Busy
<1>2. SinkTypeOK
  BY <1>1 DEF SinkInit, SinkTypeOK
<1>3. \A s : Copies(s, EmptyBag) = 0
  BY DEF Copies, BagIn, BagToSet, EmptyBag, SetToBag
<1>4. \A s : CountedIn(s) = {} /\ SampledIn(s) = {}
  BY DEF SinkInit, CountedIn, SampledIn
<1>5. CountersInStep /\ SamplesInStep
  BY <1>1, <1>3, <1>4 DEF SinkInit, CountersInStep, SamplesInStep
<1> QED BY <1>2, <1>5 DEF SinkInv, SinkInit, RecordsInStep

\* A thread that moves on with its event adds itself to the sets it now belongs to.
LEMMA SinkInvStep == SinkInv /\ [SinkNext]_sinkVars => SinkInv'
<1> SUFFICES ASSUME SinkInv, [SinkNext]_sinkVars PROVE SinkInv'
  OBVIOUS
<1> USE DEF SinkInv
<1>0. \A s \in AllSeries :
        /\ IsFiniteSet(CountedIn(s)) /\ IsFiniteSet(SampledIn(s))
        /\ Cardinality(CountedIn(s)) \in Nat /\ Cardinality(SampledIn(s)) \in Nat
        /\ Copies(s, counters) \in Nat /\ Copies(s, samples) \in Nat
  BY ThreadsCountable, FS_CardinalityType
  DEF SinkTypeOK, CountersInStep, SamplesInStep
<1>1. ASSUME NEW t \in Threads, Trace(t) PROVE SinkInv'
  <2>1. PICK e \in ResilienceEvent :
          /\ observing' = [observing EXCEPT ![t] = e]
          /\ trace' = Append(trace, [thread |-> t, record |-> Record(e)])
    BY <1>1 DEF Trace
  <2>2. stage[t] = "idle" /\ stage' = [stage EXCEPT ![t] = "traced"]
        /\ counters' = counters /\ samples' = samples
    BY <1>1 DEF Trace
  <2>3. Busy' = Busy \cup {t}
    BY <2>2 DEF Busy, SinkTypeOK
  <2>4. IsFiniteSet(Busy')
    BY <2>3, FS_AddElement DEF SinkTypeOK
  <2> DEFINE entry == [thread |-> t, record |-> Record(e)]
             Entries == [thread : Threads, record : {Record(x) : x \in ResilienceEvent}]
  <2>5. entry \in Entries
    OBVIOUS
  <2>6. trace \in Seq(Entries)
    BY DEF SinkTypeOK
  <2>7. trace' = Append(trace, entry)
    BY <2>1
  <2> HIDE DEF entry, Entries
  <2>8. /\ trace' \in Seq(Entries)
        /\ \A i \in DOMAIN trace' :
             trace'[i] = entry \/ (i \in DOMAIN trace /\ trace'[i] = trace[i])
    BY <2>5, <2>6, <2>7
  <2>9. SinkTypeOK'
    <3>1. trace' \in Seq([thread : Threads, record : {Record(x) : x \in ResilienceEvent}])
      BY <2>8 DEF Entries
    <3>2. /\ stage' \in [Threads -> {"idle", "traced", "counted", "observed"}]
          /\ observing' \in [Threads -> ResilienceEvent \cup {[kind |-> "none"]}]
      BY <2>1, <2>2 DEF SinkTypeOK
    <3>3. \A u \in Busy' : observing'[u] \in ResilienceEvent
      BY <2>1, <2>2, <2>3 DEF SinkTypeOK, Busy
    <3>4. \A u \in Threads : stage'[u] = "counted" => observing'[u].kind \in Timed
      BY <2>1, <2>2 DEF SinkTypeOK
    <3> QED BY <3>1, <3>2, <3>3, <3>4, <2>4 DEF SinkTypeOK
  <2>10. \A s : CountedIn(s)' = CountedIn(s) /\ SampledIn(s)' = SampledIn(s)
    BY <2>1, <2>2 DEF CountedIn, SampledIn, SinkTypeOK
  <2>11. CountersInStep' /\ SamplesInStep'
    BY <2>2, <2>10 DEF CountersInStep, SamplesInStep
  <2>12. RecordsInStep'
    <3> SUFFICES ASSUME NEW i \in DOMAIN trace'
                 PROVE  /\ trace'[i].thread \in Busy'
                        /\ trace'[i].record = Record(observing'[trace'[i].thread])
      BY DEF RecordsInStep
    <3>1. CASE trace'[i] = entry
      BY <3>1, <2>1, <2>3 DEF entry, SinkTypeOK
    <3>2. CASE i \in DOMAIN trace /\ trace'[i] = trace[i]
      <4>1. trace[i].thread \in Busy /\ trace[i].thread # t
        BY <2>2, <3>2 DEF RecordsInStep, Busy
      <4>2. observing'[trace[i].thread] = observing[trace[i].thread]
        BY <2>1, <4>1 DEF SinkTypeOK, Busy
      <4> QED BY <2>3, <3>2, <4>1, <4>2 DEF RecordsInStep
    <3> QED BY <2>8, <3>1, <3>2
  <2> QED BY <2>9, <2>11, <2>12
<1>2. ASSUME NEW t \in Threads, Count(t) PROVE SinkInv'
  <2> DEFINE e == observing[t]
             next == IF e.kind \in Timed THEN "counted" ELSE "observed"
  <2>1. /\ stage[t] = "traced" /\ stage' = [stage EXCEPT ![t] = next]
        /\ counters' = counters (+) SetToBag({Series(e)})
        /\ samples' = samples /\ trace' = trace /\ observing' = observing
    BY <1>2 DEF Count
  <2>2. e \in ResilienceEvent /\ Series(e) \in AllSeries
    BY <2>1 DEF SinkTypeOK, Busy, AllSeries
  <2>3. next \in {"counted", "observed"} /\ (next = "counted" <=> e.kind \in Timed)
    OBVIOUS
  <2> HIDE DEF next
  <2>4. stage'[t] = next /\ \A u \in Threads \ {t} : stage'[u] = stage[u]
    BY <2>1 DEF SinkTypeOK
  <2>5. Busy' = Busy
    BY <2>1, <2>3, <2>4 DEF Busy
  <2>6. SinkTypeOK'
    BY <2>1, <2>3, <2>4, <2>5 DEF SinkTypeOK
  <2>7. ASSUME NEW s \in AllSeries
        PROVE  /\ Copies(s, counters)' = Cardinality(CountedIn(s))'
               /\ Copies(s, samples)' = Cardinality(SampledIn(s))'
    <3>1. Copies(s, counters)' =
            IF s = Series(e) THEN Copies(s, counters) + 1 ELSE Copies(s, counters)
      BY <1>0, <2>1, OneMoreCopy DEF Copies
    <3>2. t \notin CountedIn(s)
          /\ CountedIn(s)' = IF s = Series(e) THEN CountedIn(s) \cup {t} ELSE CountedIn(s)
      BY <2>1, <2>3, <2>4 DEF CountedIn
    <3>3. Cardinality(CountedIn(s) \cup {t}) = Cardinality(CountedIn(s)) + 1
      BY <1>0, <3>2, FS_AddElement
    <3>4. SampledIn(s)' = SampledIn(s)
      BY <2>1, <2>3, <2>4 DEF SampledIn
    <3> QED BY <2>1, <3>1, <3>2, <3>3, <3>4 DEF CountersInStep, SamplesInStep
  <2>8. RecordsInStep'
    BY <2>1, <2>5 DEF RecordsInStep
  <2> QED BY <2>6, <2>7, <2>8 DEF CountersInStep, SamplesInStep
<1>3. ASSUME NEW t \in Threads, Sample(t) PROVE SinkInv'
  <2> DEFINE e == observing[t]
  <2>1. /\ stage[t] = "counted" /\ stage' = [stage EXCEPT ![t] = "observed"]
        /\ samples' = samples (+) SetToBag({Series(e)})
        /\ counters' = counters /\ trace' = trace /\ observing' = observing
    BY <1>3 DEF Sample
  <2>2. e.kind \in Timed
    BY <2>1 DEF SinkTypeOK
  <2>3. stage'[t] = "observed" /\ \A u \in Threads \ {t} : stage'[u] = stage[u]
    BY <2>1 DEF SinkTypeOK
  <2>4. Busy' = Busy
    BY <2>1, <2>3 DEF Busy
  <2>5. SinkTypeOK'
    BY <2>1, <2>3, <2>4 DEF SinkTypeOK
  <2>6. ASSUME NEW s \in AllSeries
        PROVE  /\ Copies(s, counters)' = Cardinality(CountedIn(s))'
               /\ Copies(s, samples)' = Cardinality(SampledIn(s))'
    <3>1. Copies(s, samples)' =
            IF s = Series(e) THEN Copies(s, samples) + 1 ELSE Copies(s, samples)
      BY <1>0, <2>1, OneMoreCopy DEF Copies
    <3>2. t \notin SampledIn(s)
          /\ SampledIn(s)' = IF s = Series(e) THEN SampledIn(s) \cup {t} ELSE SampledIn(s)
      BY <2>1, <2>2, <2>3 DEF SampledIn
    <3>3. Cardinality(SampledIn(s) \cup {t}) = Cardinality(SampledIn(s)) + 1
      BY <1>0, <3>2, FS_AddElement
    <3>4. CountedIn(s)' = CountedIn(s)
      BY <2>1, <2>3 DEF CountedIn
    <3> QED BY <2>1, <3>1, <3>2, <3>3, <3>4 DEF CountersInStep, SamplesInStep
  <2>7. RecordsInStep'
    BY <2>1, <2>4 DEF RecordsInStep
  <2> QED BY <2>5, <2>6, <2>7 DEF CountersInStep, SamplesInStep
<1>4. CASE UNCHANGED sinkVars
  <2>1. Busy' = Busy
    BY <1>4 DEF sinkVars, Busy
  <2>2. \A s : CountedIn(s)' = CountedIn(s) /\ SampledIn(s)' = SampledIn(s)
    BY <1>4 DEF sinkVars, CountedIn, SampledIn
  <2> QED
    BY <1>4, <2>1, <2>2
    DEF sinkVars, SinkTypeOK, CountersInStep, SamplesInStep, RecordsInStep
<1> QED BY <1>1, <1>2, <1>3, <1>4 DEF SinkNext

LEMMA SinkInvHolds == SinkSpec => []SinkInv
BY SinkInvInit, SinkInvStep, PTL DEF SinkSpec

\* However observers interleave, and whatever events they see, a series counts just the
\* events that agree in its bounded dimensions, each of them once.
THEOREM SeriesCountDimensions == SinkSpec => []SeriesAreDimensions
<1>1. SinkInv => SeriesAreDimensions
  <2> SUFFICES ASSUME SinkInv, NEW t \in Threads, stage[t] \in {"counted", "observed"}
               PROVE  LET s == Series(observing[t])
                          Alike(stages) ==
                            Cardinality({u \in Threads :
                               /\ stage[u] \in stages
                               /\ SameDimensions(observing[t], observing[u])})
                      IN  /\ Copies(s, counters) = Alike({"counted", "observed"})
                          /\ Copies(s, samples) =
                               IF observing[t].kind \in Timed
                               THEN Alike({"observed"}) ELSE 0
    BY DEF SeriesAreDimensions
  <2> DEFINE s == Series(observing[t])
  <2>1. /\ \A u \in Threads : stage[u] \in {"counted", "observed"} =>
             observing[u] \in ResilienceEvent
        /\ observing[t] \in ResilienceEvent /\ s \in AllSeries
    BY DEF SinkInv, SinkTypeOK, Busy, AllSeries
  <2>2. \A u \in Threads : stage[u] \in {"counted", "observed"} =>
          (SameDimensions(observing[t], observing[u]) <=> Series(observing[u]) = s)
    BY <2>1, DimensionsDecideSeries
  <2>3. {u \in Threads : /\ stage[u] \in {"counted", "observed"}
                         /\ SameDimensions(observing[t], observing[u])} = CountedIn(s)
    BY <2>2 DEF CountedIn
  <2>4. ASSUME observing[t].kind \in Timed
        PROVE  {u \in Threads : /\ stage[u] \in {"observed"}
                                /\ SameDimensions(observing[t], observing[u])} =
                 SampledIn(s)
    BY <2>2, <2>4 DEF SampledIn, SameDimensions
  <2>5. ASSUME observing[t].kind \notin Timed PROVE SampledIn(s) = {}
    BY <2>2, <2>5 DEF SampledIn, SameDimensions
  <2>6. Cardinality({}) = 0
    BY FS_EmptySet
  <2>7. Copies(s, counters) = Cardinality(CountedIn(s))
        /\ Copies(s, samples) = Cardinality(SampledIn(s))
    BY <2>1 DEF SinkInv, CountersInStep, SamplesInStep
  <2> HIDE DEF s
  <2> QED BY <2>3, <2>4, <2>5, <2>6, <2>7 DEF s
<1> QED BY <1>1, SinkInvHolds, PTL

\* Any two records that are equal tell of events equal in all but what Micros drops.
THEOREM TraceIsFaithful == SinkSpec => []TraceKeepsEvent
<1>1. SinkInv => TraceKeepsEvent
  <2> SUFFICES ASSUME SinkInv, NEW i \in DOMAIN trace, NEW j \in DOMAIN trace,
                      trace[i].record = trace[j].record,
                      NEW f \in DOMAIN observing[trace[i].thread]
               PROVE  LET a == observing[trace[i].thread]
                          b == observing[trace[j].thread]
                          x == a[f] \div NanosPerMicro
                          y == b[f] \div NanosPerMicro
                      IN  \/ a[f] = b[f]
                          \/ /\ f \in DurationFields
                             /\ x = y \/ (x >= U64Max /\ y >= U64Max)
    BY DEF TraceKeepsEvent
  <2>1. PICK a \in ResilienceEvent : a = observing[trace[i].thread]
    BY DEF SinkInv, SinkTypeOK, RecordsInStep
  <2>2. PICK b \in ResilienceEvent : b = observing[trace[j].thread]
    BY DEF SinkInv, SinkTypeOK, RecordsInStep
  <2>3. Record(a) = Record(b)
    BY <2>1, <2>2 DEF SinkInv, RecordsInStep
  <2>4. f \in DOMAIN a
    BY <2>1
  <2> QED BY <2>1, <2>2, <2>3, <2>4, RecordKeeps
<1> QED BY <1>1, SinkInvHolds, PTL
=============================================================================
