---------------------------- MODULE ResourceMap ----------------------------
(***************************************************************************)
(* A registry without locks: a request is answered in one step, between    *)
(* its call and its return, with the registered set or a fresh one.        *)
(***************************************************************************)
EXTENDS Integers

CONSTANTS Routes, Threads, None, MaxResources

VARIABLES registered, made, waiting, held

vars == <<registered, made, waiting, held>>

Init ==
  /\ registered = [r \in Routes |-> None]
  /\ made = 0
  /\ waiting = {}
  /\ held = [t \in Threads |-> None]

Hand(t, resources) ==
  /\ held[t] = None
  /\ held' = [held EXCEPT ![t] = resources]
  /\ waiting' = waiting \ {t}

Ask(t) ==
  /\ held[t] = None
  /\ waiting' = waiting \cup {t}
  /\ UNCHANGED <<registered, made, held>>

Share(t, r) ==
  /\ registered[r] # None
  /\ Hand(t, registered[r])
  /\ UNCHANGED <<registered, made>>

\* Only a request that has waited may find nobody else has registered the route.
Register(t, r) ==
  /\ t \in waiting
  /\ registered[r] = None
  /\ made < MaxResources
  /\ made' = made + 1
  /\ registered' = [registered EXCEPT ![r] = made']
  /\ Hand(t, made')

Unregister(r) ==
  /\ registered[r] # None
  /\ registered' = [registered EXCEPT ![r] = None]
  /\ UNCHANGED <<made, waiting, held>>

Drop(t) ==
  /\ held[t] # None
  /\ held' = [held EXCEPT ![t] = None]
  /\ UNCHANGED <<registered, made, waiting>>

Next ==
  \/ \E t \in Threads : Ask(t) \/ Drop(t)
  \/ \E t \in Threads, r \in Routes : Share(t, r) \/ Register(t, r)
  \/ \E r \in Routes : Unregister(r)

Spec == Init /\ [][Next]_vars

\* No two routes share a set, and whatever is registered or held has been made.
SetsApart ==
  /\ \A r, s \in Routes : registered[r] # None /\ registered[r] = registered[s] => r = s
  /\ \A r \in Routes, t \in Threads : registered[r] <= made /\ held[t] <= made
=============================================================================
