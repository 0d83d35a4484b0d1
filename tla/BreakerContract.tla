--------------------------- MODULE BreakerContract ---------------------------
(***************************************************************************)
(* What the circuit breaker promises, with neither generations nor slot    *)
(* counters: an era (a stay in one phase) has a set of members, the calls  *)
(* it admitted and that are still running; only members have a say, and    *)
(* the end of an era dismisses them all.                                   *)
(***************************************************************************)
EXTENDS Integers, FiniteSets

CONSTANTS Callers, FailureThreshold, OpenTimeout, HalfOpenSuccessThreshold

VARIABLES
  now,       \* the clock
  phase,     \* "Closed", "Open" or "HalfOpen"
  deadline,  \* when an Open era may end
  streak,    \* consecutive failures reported in a Closed era
  wins,      \* successful probes of a HalfOpen era
  members    \* calls of this era still running

vars == <<now, phase, deadline, streak, wins, members>>

Init ==
  /\ now = 0 /\ phase = "Closed" /\ deadline = 0
  /\ streak = 0 /\ wins = 0 /\ members = {}

Enter(next, admitted) ==
  /\ phase' = next
  /\ deadline' = IF next = "Open" THEN now + OpenTimeout ELSE 0
  /\ streak' = 0
  /\ wins' = 0
  /\ members' = admitted
  /\ UNCHANGED now

Pass ==
  /\ now' = now + 1
  /\ UNCHANGED <<phase, deadline, streak, wins, members>>

\* An Open era ends after its deadline, and the call that ends it may be
\* the first probe.
Expire ==
  /\ phase = "Open" /\ now >= deadline
  /\ \/ Enter("HalfOpen", {})
     \/ \E c \in Callers : Enter("HalfOpen", {c})

Admit(c) ==
  /\ c \notin members
  /\ \/ phase = "Closed"
     \/ phase = "HalfOpen" /\ Cardinality(members) < HalfOpenSuccessThreshold
  /\ members' = members \cup {c}
  /\ UNCHANGED <<now, phase, deadline, streak, wins>>

Leave(c) ==
  /\ c \in members
  /\ members' = members \ {c}
  /\ UNCHANGED <<now, phase, deadline, streak, wins>>

Succeed(c) ==
  /\ c \in members
  /\ \/ /\ phase = "Closed"
        /\ streak' = 0
        /\ members' = members \ {c}
        /\ UNCHANGED <<now, phase, deadline, wins>>
     \/ /\ phase = "HalfOpen" /\ wins + 1 < HalfOpenSuccessThreshold
        /\ wins' = wins + 1
        /\ members' = members \ {c}
        /\ UNCHANGED <<now, phase, deadline, streak>>
     \/ /\ phase = "HalfOpen" /\ wins + 1 = HalfOpenSuccessThreshold
        /\ Enter("Closed", {})

Fail(c) ==
  /\ c \in members
  /\ \/ /\ phase = "Closed" /\ streak + 1 < FailureThreshold
        /\ streak' = streak + 1
        /\ members' = members \ {c}
        /\ UNCHANGED <<now, phase, deadline, wins>>
     \/ /\ \/ phase = "Closed" /\ streak + 1 = FailureThreshold
           \/ phase = "HalfOpen"
        /\ Enter("Open", {})

Next ==
  \/ Pass
  \/ Expire
  \/ \E c \in Callers : Admit(c) \/ Leave(c) \/ Succeed(c) \/ Fail(c)

Spec == Init /\ [][Next]_vars

\* A recovery runs no more probes than it needs successes and is not decided yet; while
\* the breaker is closed its streak is not yet a reason to open; while it is open nobody
\* has a say and the wait is no longer than configured.
EraSound ==
  /\ phase = "HalfOpen" =>
       Cardinality(members) <= HalfOpenSuccessThreshold /\ wins < HalfOpenSuccessThreshold
  /\ phase = "Closed" => streak < FailureThreshold
  /\ phase = "Open" => members = {} /\ deadline <= now + OpenTimeout
=============================================================================
