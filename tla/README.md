# svc-resilience-rs: a TLA+ verification of the resilience kernel

The crate (`src/src/*.rs`; tests and specifications in `src/tests`, `src/docs`) is a kernel of
small, independent resilience components. Nothing is persisted and no thread or task is spawned:
callers drive everything, from many threads or tasks at once. The modules beside this file model
the components, TLC checks them on small instances, and TLAPS proves their safety for every value
of the constants.

## Inventory

| Component | State | Operations | Hard behaviour | What makes it correct |
|---|---|---|---|---|
| circuit breaker `circuit_breaker.rs` | `Shared` behind a mutex: mode, its counters, `generation`; a permit per admitted call | `state`, `try_acquire`, permit `success` / `failure` / `Drop`, `call` | permits outlive the era that issued them; probe slots come back by three paths; `Open` has no timer; `Instant` overflow in the middle of a transition | stale outcomes count for nothing; slots are neither leaked nor returned twice; every transition has its evidence; an Open breaker probes again |
| bulkhead `bulkhead.rs` | one `AtomicUsize` | `try_acquire`, `release(self)`, `Drop`, `call` | compare-exchange loop with spurious failures; release followed by drop | never above capacity; one slot per permit, once; linearizable |
| retry budget `retry_budget.rs` | `available` behind a mutex, one per namespace | `try_acquire_retry`, `record_success` | retries racing for the last token; `u32` limits | retries are paid for; namespaces do not share; nothing wraps |
| retry policy and backoff `retry.rs` | none; `retry`, `retry_async` keep an attempt number and a start | `delay_after`, `next_delay`, the two loops | saturating arithmetic; equality at both limits; time that passes during the operation | the documented curve; attempts and sleeps within their limits; giving up only with a cause |
| logical deadline `deadline.rs`, `tokio_runtime.rs` | limit and start instant | `remaining`, `is_exhausted`, `clamp_child`, `can_wait`, `timeout`, `sleep_backoff`, `timeout_or_cancel` | a wake-up may come late; an answer and a timer may be ready together | nothing starts after the deadline; stop reasons are true |
| Tower adapter `tower_adapter.rs` | the handle's inner service and its readiness; the locals of each call's future | `poll_ready`, `call`, the retry loop | readiness belongs to one instance; deadline checks between awaits; cancellation at any await | no call without readiness; no wait beyond the deadline; bounded requests end |
| route tables `routing.rs` | immutable `RouteTable`; `RouteTableStore`: the current snapshot behind a lock | `RouteTable::new`, `select`, store `snapshot`, `replace` | concurrent replacement against readers that keep old snapshots | generations rise; every snapshot is valid |
| eligibility `eligibility.rs` | a set of eligible routes and the generation they were chosen from | `all`, `from_predicate`, weighted selection among them | used with a table other than the one it was made for | only eligible routes are chosen, at their weights |
| failover `failover.rs` | per request: a snapshot, an eligibility decision, the routes attempted and the current one | `new_with`, `from_primary_eligibility`, `classify_with` | the request crosses snapshot generations | no route twice, at most the budget |
| shadow planning `shadow.rs` | none | sampling, both planners, the shadow's selection | an error of the shadow's selection must not fail the primary's | primary and shadow are two routes of one table |
| shadow policy `shadow_policy.rs` | deadline, optional retry policy | `effective_deadline`, `next_retry_delay` | two deadlines, of which `next_retry_delay` knows one; late polls; cancellation next to an answer and a timer | no attempt beyond the primary's time; true outcomes; slots come back |
| shadow outcomes `shadow_outcome.rs` | none | `ShadowOutcome`, `ShadowObservation::from_plan` | the observation outlives the snapshot | it names a route of its generation's table |
| resource registry `resource_registry.rs` | map from route to breakers, bulkheads and retry budgets of both namespaces, behind an `RwLock` | `get`, `get_or_create`, `retire` | check under the read lock, re-check under the write lock; handles and permits outlive the registration | one set of resources per registration, and its capacity |
| observability `observability.rs`, sinks `metrics_adapter.rs`, `tracing_adapter.rs` | none of their own; the recorder and the subscriber behind them | `observe` | counter and histogram are two calls; absent routes; `u64` microseconds | series depend on bounded labels alone; records keep the event |

Interactions. A caller composes the parts as `docs/specs/0001` and `0002` prescribe: logical
deadline, route plan, bulkhead, retry loop, breaker per physical attempt, attempt timeout. In the
code itself the couplings are: the Tower adapter calls the retry policy and the Tokio budget, the
Tokio budget calls the logical deadline, the registry owns a breaker, a bulkhead and a retry budget per route and namespace, the shadow policy calls a retry policy, and
failover, eligibility and shadow planning read route tables by generation.

## Modules

| Module | Contents |
|---|---|
| `CircuitBreaker` | The breaker. `shared` is the `Shared` behind the mutex, `permits[c]` the `CircuitBreakerPermit` of caller `c`, `now` the monotonic clock. One action per operation: `State`, `TryAcquire`, `Success`, `Failure`, `Drop`, and `Tick`. The whole body of each operation runs under the lock, so each is one step, with the refresh of an expired `Open` included. |
| `BreakerContract` | What a breaker promises, without generations or a slot counter: an era is a set of members, outcomes of non-members do nothing. |
| `CircuitBreakerRefinement` | The mapping: members are the holders of permits of the current generation. |
| `CircuitBreakerHistory` | The breaker with ghosts (era numbers, a log of reports and rejections) that the code does not keep. |
| `Bulkhead` | One step per access to the atomic (`Load`, `Reserve`, `Observe` for a failed or spurious exchange, `Release`, `Drop`). |
| `SlotPool`, `BulkheadRefinement` | An atomic pool, and the linearization points of the bulkhead. |
| `RetryBudget` | The buckets of both namespaces. |
| `Backoff` | Operators: `delay_after`, `next_delay`, and the arithmetic of `LogicalRequestBudget`. |
| `RetryLoop` | `retry` and `retry_async` over an operation that takes any time. |
| `TowerRetry` | The adapter: `ready` is the readiness held by the handle, `request[r]` the future of request `r` (`pc`, the armed timer, the answer of the inner service that waits to be polled). A poll is one step from await to await, as on the executor; `Answer` is the environment. |
| `Routing` | Operators: `RouteTable::new`, weighted selection, eligibility decisions, sampling, the shadow's selection. A draw is any number its caller may supply. |
| `FailoverWalk` | What one request may expect of failover: a walk over distinct members of a fixed set, within its budget, stopped only with a cause. `RouteRequest` maps to it by `Walk(r)`. |
| `RouteRequest` | `current` is the store's table, `request[r]` what one request holds: its snapshot, eligibility decision, plan and failover. Each call of the API is one step, so that the table changes between any two and a decision may be older than the snapshot it is used with. |
| `TwoStores` | `select_with` on tables of several stores: `tables[s]` is the table of store `s`, `snapshot` and `decision` what one caller holds, from any of them. Each store counts its generations from a number of its own, so that they coincide. |
| `ResourceRegistry` | `routes` is the map behind the `RwLock`, `handle[t]` the `Arc` of thread `t`. `Miss` ends the first lookup of `get_or_create`, `Insert` is the part under the write lock, so that other threads register or retire between them. |
| `ResourceMap`, `ResourceRegistryRefinement` | A registry without locks, and the instants at which a call of the real one takes effect. |
| `RouteResources` | The registry composed with the bulkheads it hands out: `in_flight` of each set and namespace, `permits[t]` the set each permit came from. `Acquire` goes through the handle, `Finish` through the permit's own reference. The compare-exchange loop is replaced by the atomic pool it implements. |
| `ShadowExecution` | Shadow futures under `ShadowExecutionPolicy`, `timeout_or_cancel`, `timeout` and `sleep_backoff`, poll by poll, competing for the shadow bulkhead and ending in a `ShadowOutcome`. `cancelled` are the shadows whose owner has signalled. |
| `Observability` | The enums with their label strings, all events, `Series` (metrics) and `Record` (tracing), and threads that observe: `Trace`, `Count`, `Sample`. |
| `CircuitBreakerProofs` | Theorems about the breaker, its history, its refinement of `BreakerContract`, and the contract by itself. |
| `BulkheadProofs` | Theorems about the bulkhead and its refinement of `SlotPool`. |
| `TowerRetryProofs` | Theorems about the Tower adapter. |
| `ShadowExecutionProofs` | Theorems about shadow futures and their refinement of `SlotPool`. |
| `StandaloneProofs` | Theorems about the two components that no other one calls: `RetryBudget` and `Observability`. |
| `RetryLoopProofs` | Theorems about the loop and about `Backoff`: its saturating arithmetic, and that delays never shrink. |
| `RouteRequestProofs` | Theorems about sums of weights, weighted selection, requests, the refinement of `FailoverWalk`, the walk by itself, and `TwoStores`. |
| `ResourceRegistryProofs` | Theorems about the registry, its refinement of `ResourceMap`, the map by itself, and `RouteResources`, each of whose bulkheads is a `SlotPool`. |
| `MC*` | Constants for TLC. |

Definitions named `Bad...` are plausible mistakes in the code. They take no part in any
specification; putting one in place of its original must break a property, which shows that the
property says something.

## Runs

| Run | Question | Bounds |
|---|---|---|
| breaker | Types, meaning of generations, slot accounting, thresholds, order of eras, the contract; does an Open breaker probe, does a saturated HalfOpen one free a slot? | 4 callers, thresholds 2 and 2, openings until `Horizon` |
| breaker_history | Do counters, transitions and rejections agree with a log of what callers reported, and what survives the panic of `transition_open`? | 3 callers; thresholds 3 and 2; openings at `MaxInstant` overflow; `MaxGeneration` bounds the panics |
| breaker_never_opens | Finding 1 below | every opening overflows |
| breaker_herd | Finding 2 below | 3 callers, opening after one failure |
| bulkhead | Capacity, accounting, linearizability; slots come back | 4 threads, 2 slots |
| retry_loop | Curve, jitter, limits, causes of giving up | 216 policies; `U32Max` = 7, so that 2^3 and 3^2 saturate; `max_elapsed` none, 0, 4 and `DurationMax` |
| tower_retry | Deadline, stop reasons, a readiness per call, ends of bounded requests | limits none, 0, 3, 5; attempt timeouts 0, 2, 5; 3 attempts; others use the handle too |
| route_request | Stale decisions, selection, observations; failover implements `FailoverWalk` while tables are replaced. Is the generation test exact in one store; what can a decision of another store select? | 1 request, `U64Max` = 5, first generation 3, `Million` = 3; 2 stores with first generations 3 and 4 |
| foreign_decision | Finding 3 below | the two stores of route_request |
| resource_registry | One set of resources per registration; linearizability; the capacity of a registration | 3 threads, 2 routes, 2 sets, capacities 2 and 1 |
| shadow | No shadow attempt out of time, true outcomes, every shadow ends | 2 shadows for 1 slot; primary limits none, 0 and 3; shadow deadlines 2 and 4; without retries or with three attempts |
| standalone | Retry budgets: tokens paid for, kept, withheld only when spent. Sinks: which events share a series, what a record keeps | one small bucket, one at `U32Max`; 2 threads, every pair of events, routes include one called "none", a `u64` that saturates |

`route_request` and `standalone` each check two specifications that share no variable, by properties
that each speak of one of them. Only one of the two moves in a behaviour; interleaving them would
show each property nothing it does not see already.

Why the bounds are enough. Four callers against a threshold of two give two probes of an old era
next to a full new one; two successes and two failures per threshold make the counters pass through
an intermediate value. `Horizon` ends the clock after several openings. Two bulkhead slots and four
threads let two threads hold, one lose its exchange and one find the pool full. `MaxSuccesses` caps
the ghost count of the budget well above its capacity. In the breaker and in `TowerRetry` the clock
stops at `Horizon`; `LatestCall` leaves every bounded request time to reach its deadline before.
A `u64` that ends at 5 lets the generation run
out after two replacements and a table's weights fill the width exactly; the lists passed to
`replace` include a duplicate, an overflow, an empty one and one without weight, and share routes
between generations. One request is enough there: requests share only the store, which the other
callers of `replace` change at any time. The two stores meet in the generations 4 and 5
with routes that are enabled in one and disabled, of weight zero, absent or of another weight in the
other. Two sets of resources let a route be retired and created
again while a thread still holds the old set and another is between the two locks, and let permits of
both sets be out at once; with three sets (3.3 million states) the same properties hold. Two threads
are enough for the sinks, whose properties compare two events at a time. Two shadows and one slot
make one wait for nothing or be refused, and the slot come back.
In `RetryLoop`, `LatestWork` is the last instant at which the operation itself takes time. With a delay
it takes the sum of times past `DurationMax`, so that a `max_elapsed` of `Duration::MAX`, which refuses
nothing because `next_delay` adds with saturation, meets sums that an unsaturated one would refuse.

Fairness. Only what callers and the runtime owe: time passes; a permit ends (its owner returns,
unwinds or is cancelled, and `Drop` runs); for `OpenEventuallyProbes` some caller keeps asking; the
executor polls a future whose wake-up is due. Nothing is assumed of the inner service of a Tower
request or of the transport of a shadow. `CHECK_DEADLOCK FALSE` appears only where callers may stop asking or all requests end.

## Findings

1. `breaker_never_opens`: `transition_open` increments `generation` and then evaluates
   `Instant::now() + timeout`, which panics on overflow. The configuration accepts every non-zero
   timeout. With `Duration::MAX` the failure that should open the breaker panics in its caller and
   leaves the breaker Closed at its threshold, admitting calls; the specification says that the
   threshold opens it.
2. `breaker_herd`: the limit of probes holds per HalfOpen era. Probes left over from an era that
   ended in re-opening still run while the next era admits a full set, so more than
   `half_open_success_threshold` probes are in flight, against the comment at `try_acquire`.
3. `foreign_decision`: a `RouteEligibility` is tied to a generation, not to a table or a store. A
   decision made for another table of the same generation passes the test; the routes it names may be
   disabled here, whose weights the check of `RouteTable::new` leaves out, and their sum overflows:
   `select_with` panics at the `expect` that says an eligible subset of a validated table cannot.

## Proofs

The proofs assume only the named assumptions on constants: what the constructors of the
configurations refuse (zero thresholds, timeouts, capacities, factors; a maximum delay below the
initial one), the machine types (weights within a `u64`, non-empty widths), and what `RouteId` is.
Refinement of the breaker's contract, `ProbesAccounted` and `ThresholdTrips` also assume
`NoOverflow`: every opening's deadline is representable. Finding 1 shows why they must. Bounds such
as `Horizon` are arbitrary numbers in the proofs.

- Breaker. `Inv` is `TypeOK`, `CurrentPermitMatchesMode` and `ProbeLimit`. The properties alone are
  not inductive: that a stale outcome is recognised by its generation needs to know that a permit of
  the current generation was issued in the current mode, and that no permit is ahead of the
  generation. Without a panic, `ProbeAccounting` and the thresholds join it, which gives the
  refinement: each step of the breaker is a step of `BreakerContract` or leaves it unchanged.
- Breaker as observed (`HistoryInv`). Callers know the era that admitted them and what they reported.
  As long as no opening has panicked (`Unbroken`), the generation in a permit is that era (`Honest`),
  so the members of an era are the holders of current permits and the counters are functions of
  its log: the errors that end it, or its length. That the log can be cut to `LogLength` entries
  rests on a lemma about the run of errors that ends a sequence (`FailureLengthensRun`). A panic moves
  the generation past the era for good, which is why the condition never becomes true again. These
  theorems need no `NoOverflow`: they hold up to the first panic.
- Wrapping. The model counts generations without end, the code modulo 2^64. `GenerationMayWrap` says
  that this makes no difference to any permit issued fewer than W transitions ago, for every width W: the
  comparison of what is left of the two generations is the comparison of the generations. It rests
  on `CurrentPermitMatchesMode`, by which no permit is ahead.
- Bulkhead. `TypeOK` and `SlotAccounting` carry each other: `fetch_sub` does not underflow because
  the permit released is counted, and the exchange stays below the capacity because it succeeds
  only on the value loaded. Hence `SlotPool` is implemented, with `Observe` of a full pool as the
  linearization point of a rejection.
- Contracts by themselves. A user of a component may reason from its contract alone:
  `ContractKeepsErasSound` (an era's members and counters fit its phase), `MapKeepsApart` (no two
  routes share a set of resources), `WalkVisitsOnce` and `WalkRefusalStands` (each allowed route at
  most once, within the budget; no failover right after a refusal) are about any behaviour of
  `BreakerContract`, `ResourceMap` and `FailoverWalk`, whatever implements it. For that the proof
  modules instantiate the contracts with variables of their own (`anyPhase`, `anyRegistered`, ...).
- Retry budget. The bucket's capacity and both accounts are inductive together: tokens
  plus admitted retries never exceed capacity plus what successes brought, nor fall below capacity.
- Retry policy and loop. `SaturatingPowIsPower`: multiplying with saturation n times is the power cut
  at the width. The proof is an induction on the exponent through the least counterexample, which the
  well-foundedness of `<` on `Nat` provides. With it the code's delay is the ideal curve, and the loop's
  limits follow from `RetriesAllowed` itself, given that a sleeping loop has an attempt left.
  `BackoffNeverShrinks`: a later attempt never waits less, since every factor is at least one.
- Tower adapter. `Sound` says of each future that readiness, calls and attempts are in step
  (`Counted`), that what it waits for ends in time (`InTime`) and that a timer's reason is the reason
  for its instant (`Truthful`). `EveryCallReady` and `StopReasonTrue` alone are not inductive: the
  former breaks between the readiness and the call of a retry, the latter speaks only of the poll
  that reports and needs to know how the timer was chosen an await earlier. `NoCallAfterDeadline` holds
  because every call is guarded, in the step that makes it, by the check of the deadline.
  Three more theorems are the safety behind `BoundedRequestsEnd`: `PollsAdvance` (every poll raises
  `Rank`, which is at most 3 * max_attempts + 1), `LatePoll` (a poll at or after the deadline is the
  last) and `DeadlineWakes` (at the deadline every timer a bounded future waits for has fired). What
  fairness adds is that time passes and that a due poll happens.
- Routes. A table's weights are summed by a fold over a finite set. Its equations are proved from a
  function that exists for every finite set (by the library's theorems and a least counterexample), and
  from them `ChosenShare` and `DrawsFacts`: a draw ends at the route whose stretch of the total holds it,
  so that each route has as many draws as its weight and `unreachable!` is never reached.
  The inductive invariant ties every decision, plan and failover to the table of its generation
  (`PlanSound`, `WalkSound`) instead of the request's snapshot, which may be newer; with
  `GenerationNamesTable` this is what makes a comparison of generations enough. `FailoverWalks` maps
  every step of a request to a step of its walk or to none.
- Several stores. `StoresInv` says that the snapshot and what the decision was derived from are tables
  their stores have published, so that within one store equal generations mean one table, and that a
  decision names routes its table could select. `OwnDecisions` then gives the generation test its
  meaning in one store: a decision made for another table is refused, and one made for this table
  sums part of a total that `RouteTable::new` has checked. `ForeignDecisions` is what remains across
  stores. Both hold for any number of stores, tables and predicates.
- Shadows. `Bounded` and `Timed` place every timer within the shadow's deadline and the primary's;
  an answer waits only in a future that is calling, and the running set is finite and within the
  capacity. `AttemptsWithinDeadline` and `OutcomesTrue` are then facts about one step. `CountInv` adds
  the attempts a policy allows (`AttemptsBounded`) and with it the same three facts as for the Tower
  adapter, the safety behind `ShadowsEnd`. `ShadowsShareAPool`: shadows are users of one `SlotPool`.
- Resource registry. `OneSetPerRegistration` needs three companions: a ticket is never ahead of its
  route's retirements (`TicketsPast`), what is registered has been handed out (`RegisteredIsIssued`),
  and no ticket of the present registration names anything else (`RegisteredIsShared`). Then a
  lookup issues nothing new, and an insertion uses a number and a registration no ticket has. With
  `TypeOK` the same invariant gives the refinement of `ResourceMap`. `RegistrationCapacity` adds the
  count of permits out of every bulkhead (`Accounted`): a registration is one set, so its permits
  are those of one bulkhead, whatever other sets are still in use. `EachBulkheadIsAPool`: seen through
  the permits of one set and namespace, the threads use a `SlotPool` of that bulkhead's capacity,
  across retirement and creation of the route anew.
- Observability. `SinkInv` keeps three things in step with the events observed: counters, samples and
  records. That series are exactly the label dimensions then needs the labels of every enum to be
  injective, which is proved label by label, but for the route "none" (see Abstractions); that a
  record gives its event back needs the saturation of microseconds named, which is the only loss.

Only model-checked: the five properties under fairness, `OpenEventuallyProbes`, `ProbeSlotsFree`,
`SlotsComeBack`, `BoundedRequestsEnd` and `ShadowsEnd`. Fairness and ENABLED are out of the prover's
reach; the safety the last two rest on is proved, as described above.

## Abstractions

- Durations and instants are ticks. `random_duration` may return every value up to its maximum.
- A mutex-protected body is one step; a poisoned mutex is recovered by the code and is so here.
- The single atomic of the bulkhead has a total modification order, so its memory orderings do not
  matter to the count.
- The breaker's `u64` generation does not wrap. By `GenerationMayWrap` that matters only to a permit
  held across 2^64 transitions.
- The routes of a table are records of an identity, a weight and the enabled flag; targets are left
  out. In `ResourceRegistry` a set of resources is a number; `RouteResources` gives it its bulkheads,
  and the breakers and retry budgets of a set are modelled by their own modules.
- The loop that ties a shadow's policy, budget and bulkhead together belongs to an adapter outside
  the crate; `ShadowExecution` follows what the documentation of `ShadowExecutionPolicy` and
  `timeout_or_cancel` asks of it, and its `Dispatch`, `Answer` and `Cancel` are external.
- The values of histogram samples are left out, so that a series is all a sample shows. An absent
  route is labelled "none" by the metrics sink; a route of that name shares its series, and
  `SeriesAreDimensions` says so rather than hiding it.
- The Tower loop reads both the std clock (`max_elapsed`) and the Tokio clock; they are one here.
  They differ only under Tokio's paused test clock.

## Not modelled

- Planning and failover with a decision of another store: they call the selection that `TwoStores`
  models, and `RouteRequest` has a single store.
- Formatting (`Display`, `Debug`), accessors and `len`, which change nothing; `NoopObserver`.
- A breaker's permit held across 2^64 transitions, whose generation would be current again.

## Plan

What is left:

1. Planning and failover with decisions of another store: `RouteRequest` composed with `TwoStores`, to
   state what a plan and a walk keep when only the selection's `ForeignChoiceLimited` holds.
2. Proofs of the five properties under fairness, once the prover handles ENABLED.
