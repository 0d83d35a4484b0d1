------------------------ MODULE CircuitBreakerHistory ------------------------
(***************************************************************************)
(* CircuitBreaker observed from outside: the history variables record what *)
(* callers were told and reported, and use neither the generation nor any  *)
(* counter of the code.  An era is a stay in one mode.                     *)
(***************************************************************************)
EXTENDS CircuitBreaker, Sequences

VARIABLES
  era,       \* number of mode changes so far
  admitted,  \* the era in which each caller was last admitted
  log,       \* the latest outcomes reported in this era by calls it admitted
  rejected   \* the callers whose try_acquire was the last step, and failed

allVars == <<now, shared, permits, era, admitted, log, rejected>>

\* Outcomes older than these cannot matter to either threshold.
LogLength ==
  IF FailureThreshold > HalfOpenSuccessThreshold
    THEN FailureThreshold ELSE HalfOpenSuccessThreshold

Latest(s) == SubSeq(s, IF Len(s) > LogLength THEN 2 ELSE 1, Len(s))

\* The run of failures that ends a log.
ErrorRun(s) == {i \in DOMAIN s : \A j \in i .. Len(s) : s[j] = "err"}

TrailingErrors(s) == Cardinality(ErrorRun(s))

Members == {c \in Callers : permits[c] # NoPermit /\ admitted[c] = era}

HInit ==
  /\ Init
  /\ era = 0
  /\ admitted = [c \in Callers |-> 0]
  /\ log = <<>>
  /\ rejected = {}

\* The end of an era starts an empty log; `entry' is what the step reports.
Observe(entry) ==
  IF shared'.mode # shared.mode
    THEN era' = era + 1 /\ log' = <<>>
    ELSE era' = era /\ log' = Latest(log \o entry)

HTryAcquire(c) ==
  /\ TryAcquire(c)
  /\ Observe(<<>>)
  /\ admitted' = IF permits' = permits THEN admitted
                                       ELSE [admitted EXCEPT ![c] = era']
  /\ rejected' = IF permits' = permits THEN {c} ELSE {}

\* What a caller reports counts if this era admitted it.
HReport(c, outcome) ==
  /\ Observe(IF c \in Members THEN outcome ELSE <<>>)
  /\ rejected' = {}
  /\ UNCHANGED admitted

HNext ==
  \/ /\ Tick \/ State
     /\ Observe(<<>>)
     /\ rejected' = {}
     /\ UNCHANGED admitted
  \/ \E c \in Callers :
       \/ HTryAcquire(c)
       \/ Success(c) /\ HReport(c, <<"ok">>)
       \/ Failure(c) /\ HReport(c, <<"err">>)
       \/ Drop(c) /\ HReport(c, <<>>)

HSpec == HInit /\ [][HNext]_allVars

-----------------------------------------------------------------------------
\* No opening has panicked so far: every mode change moves the generation by
\* one, and a panicking transition_open moves the generation alone, which makes
\* every outstanding permit stale without a new era.
Unbroken == era = shared.generation

\* The counters tell the truth about what was reported: in Closed, the length of
\* the run of failures that ends the log, always short of the threshold; in
\* HalfOpen, the number of probes of this era that succeeded, none having failed.
CountersMatchHistory ==
  Unbroken =>
    /\ shared.mode = "Closed" =>
         /\ shared.consecutive_failures = TrailingErrors(log)
         /\ TrailingErrors(log) < FailureThreshold
    /\ shared.mode = "HalfOpen" =>
         /\ shared.successes = Len(log)
         /\ "err" \notin {log[i] : i \in DOMAIN log}

\* The breaker opens only on the failure of a call of this era that completes
\* failure_threshold failures in a row, or of any probe of this era; it closes
\* only on the success of a probe of this era that is the
\* half_open_success_threshold-th.
TransitionsHaveEvidence ==
  [][Unbroken =>
     /\ shared.mode = "Closed" /\ shared'.mode = "Open" =>
          \E c \in Members :
            Failure(c) /\ TrailingErrors(log) + 1 = FailureThreshold
     /\ shared.mode = "HalfOpen" /\ shared'.mode = "Open" =>
          \E c \in Members : Failure(c)
     /\ shared.mode = "HalfOpen" /\ shared'.mode = "Closed" =>
          \E c \in Members :
            Success(c) /\ Len(log) + 1 = HalfOpenSuccessThreshold]_allVars

\* Nobody is rejected without cause: the breaker is Open and its timeout still
\* runs, or it is HalfOpen with half_open_success_threshold probes of this era
\* unfinished.
RejectionsHaveCause ==
  rejected # {} /\ Unbroken =>
    \/ shared.mode = "Open" /\ now < shared.until
    \/ /\ shared.mode = "HalfOpen"
       /\ Cardinality(Members) = HalfOpenSuccessThreshold
=============================================================================
