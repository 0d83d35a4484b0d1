--------------------------- MODULE MCRouteRequest ---------------------------
(***************************************************************************)
(* Tables for TLC with U64Max = 5: one whose weights fill the width, one   *)
(* in which the same routes are disabled, heavier or of no weight, and a   *)
(* list for each error of RouteTable::new.  The caller of several stores   *)
(* shares nothing with a request, and each property speaks of one of the   *)
(* two: it is enough that either moves while the other has not begun.      *)
(***************************************************************************)
EXTENDS RouteRequest, MCTwoStores

MCInitialRoutes == <<Route("a", 1), Route("b", 2), Route("c", 2)>>

MCRouteLists ==
  {<<Route("c", 4), Disabled(Route("b", 5)), Route("a", 0), Route("d", 1)>>,
   <<Route("a", 3), Route("b", 3)>>,
   <<Route("a", 1), Route("a", 1)>>,
   <<Route("a", 0), Disabled(Route("b", 1))>>,
   <<>>}

StoresAtRest == StoresInit /\ snapshot.store = "left"

RoutingInit == Init /\ StoresAtRest

RoutingNext ==
  \/ StoresAtRest /\ Next /\ UNCHANGED storesVars
  \/ Init /\ StoresNext /\ UNCHANGED vars

RoutingSpec == RoutingInit /\ [][RoutingNext]_<<vars, storesVars>>
=============================================================================
