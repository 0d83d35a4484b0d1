--------------------------- MODULE RouteResources ---------------------------
(***************************************************************************)
(* The registry composed with what its sets are for: each set holds one    *)
(* bulkhead for primary and one for shadow work (resource_registry.rs).    *)
(* A call takes its permit through the handle it holds; the permit has a   *)
(* reference of its own, so it outlives handle, retirement and successor.  *)
(* The bulkhead is the atomic pool that Bulkhead is shown to implement.    *)
(***************************************************************************)
EXTENDS ResourceRegistryRefinement

CONSTANTS PrimaryCapacity, ShadowCapacity

ASSUME CapacityAssumption == {PrimaryCapacity, ShadowCapacity} \subseteq Nat \ {0}

VARIABLES
  in_flight,  \* of each set and role, the bulkhead's counter
  permits,    \* of each thread and role, the set its permit is from, or None
  refused     \* the set and role that refused a permit in the step just taken

allVars == <<routes, created, pc, asked, handle, epoch, issued, in_flight, permits, refused>>

Roles == {"Primary", "Shadow"}

\* RouteResourcePolicy, of each namespace.
RouteResourcePolicy ==
  [Primary |-> [bulkhead_capacity |-> PrimaryCapacity],
   Shadow |-> [bulkhead_capacity |-> ShadowCapacity]]

\* The bulkheads of a set that was just built: one per role, empty.
Fresh == [role \in Roles |-> 0]

RInit ==
  /\ Init
  /\ in_flight = [s \in Resources |-> Fresh]
  /\ permits = [t \in Threads |-> [role \in Roles |-> None]]
  /\ refused = {}

\* primary().bulkhead() and shadow().bulkhead()
Bulkhead(s, role) == in_flight[s][role]

\* try_acquire() on the bulkhead of the role, through the handle.
Acquire(t, role) ==
  /\ pc[t] = "holding" /\ permits[t][role] = None
  /\ \/ /\ Bulkhead(handle[t], role) < RouteResourcePolicy[role].bulkhead_capacity
        /\ in_flight' = [in_flight EXCEPT ![handle[t]][role] = @ + 1]
        /\ permits' = [permits EXCEPT ![t][role] = handle[t]]
        /\ refused' = {}
     \/ /\ Bulkhead(handle[t], role) >= RouteResourcePolicy[role].bulkhead_capacity
        /\ refused' = {<<handle[t], role>>}
        /\ UNCHANGED <<in_flight, permits>>
  /\ UNCHANGED vars

BadFinish(t, role) ==  \* the slot goes back through the handle, wherever it points now
  /\ permits[t][role] # None
  /\ in_flight' = IF handle[t] = None THEN in_flight
                  ELSE [in_flight EXCEPT ![handle[t]][role] = @ - 1]
  /\ permits' = [permits EXCEPT ![t][role] = None]
  /\ refused' = {}
  /\ UNCHANGED vars

\* The permit's Drop returns the slot to the bulkhead it was taken from.
Finish(t, role) ==
  /\ permits[t][role] # None
  /\ in_flight' = [in_flight EXCEPT ![permits[t][role]][role] = @ - 1]
  /\ permits' = [permits EXCEPT ![t][role] = None]
  /\ refused' = {}
  /\ UNCHANGED vars

RNext ==
  \/ Next /\ refused' = {} /\ UNCHANGED <<in_flight, permits>>
  \/ \E t \in Threads, role \in Roles : Acquire(t, role) \/ Finish(t, role)

RSpec == RInit /\ [][RNext]_allVars

-----------------------------------------------------------------------------
\* Between two retirements a route has the capacity of one bulkhead per role, however
\* its handles were obtained: never more permits of that role are out, whatever
\* happens to handles and route meanwhile, and a call is refused only if exactly that
\* many are, so that neither the other role nor a predecessor's leftovers count.
CapacityPerRegistration ==
  \A i \in issued, role \in Roles :
    LET siblings == {j.resources : j \in {k \in issued : k.route = i.route
                                                       /\ k.epoch = i.epoch}}
        out == Cardinality({t \in Threads : permits[t][role] \in siblings})
    IN /\ out <= RouteResourcePolicy[role].bulkhead_capacity
       /\ <<i.resources, role>> \in refused =>
            out = RouteResourcePolicy[role].bulkhead_capacity
=============================================================================
