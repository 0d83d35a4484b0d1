---------------------------- MODULE FailoverWalk ----------------------------
(***************************************************************************)
(* What one logical request may expect of failover, without tables, draws  *)
(* or generations: it walks over distinct members of a set fixed when the  *)
(* walk begins, never further than its budget, and is told to stop only    *)
(* with the budget used up or nobody left.                                 *)
(***************************************************************************)
EXTENDS Integers, Sequences, Functions

CONSTANT Nowhere  \* the answer before the first verdict

VARIABLES
  allowed,  \* the routes this walk may visit
  budget,
  walked,   \* the routes visited, in order; <<>> before the walk begins
  answer    \* the answer to the caller's latest verdict

vars == <<allowed, budget, walked, answer>>

Visited == Range(walked)

Init == walked = <<>> /\ answer = Nowhere

\* A new walk, from any member of a new set; its budget admits the first route.
Begin ==
  /\ \E first \in allowed' : walked' = <<first>>
  /\ budget' \in Nat \ {0}
  /\ answer' = Nowhere

Step ==
  /\ walked # <<>> /\ Len(walked) < budget
  /\ \E next \in allowed \ Visited : walked' = Append(walked, next)
  /\ answer' = "Failover"
  /\ UNCHANGED <<allowed, budget>>

\* The caller's own verdicts move nothing; a refusal to fail over has its cause.
Stay ==
  /\ walked # <<>>
  /\ \/ answer' \in {"Complete", "RetryCurrent", "CallerTerminal"}
     \/ answer' = "RouteAttemptBudgetExhausted" /\ Len(walked) = budget
     \/ answer' = "NoRemainingEligibleRoute" /\ allowed \subseteq Visited
  /\ UNCHANGED <<allowed, budget, walked>>

Next == Begin \/ Step \/ Stay

Spec == Init /\ [][Next]_vars

\* A walk visits allowed routes, each once and no more than its budget.
VisitsOnce ==
  walked # <<>> =>
    /\ Len(walked) <= budget /\ Visited \subseteq allowed
    /\ \A i, j \in DOMAIN walked : walked[i] = walked[j] => i = j

\* A walk that has refused to fail over does not do so at the next verdict.
RefusalStands ==
  [][(answer \in {"RouteAttemptBudgetExhausted", "NoRemainingEligibleRoute"})
       => answer' # "Failover"]_vars
=============================================================================
