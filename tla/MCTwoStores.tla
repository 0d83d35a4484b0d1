---------------------------- MODULE MCTwoStores -----------------------------
(***************************************************************************)
(* Two stores for TLC with U64Max = 5.  The second begins a generation     *)
(* later; it gives the routes of the first other weights and disables      *)
(* them, within the width or beyond it.                                    *)
(***************************************************************************)
EXTENDS TwoStores

MCFirstRoutes ==
  [left |-> <<Route("a", 1), Route("b", 2), Route("c", 2)>>,
   right |-> <<Route("b", 4), Disabled(Route("c", 5)), Route("a", 0)>>]

MCFirstGeneration == [left |-> 3, right |-> 4]

MCNextRoutes ==
  [left |-> {<<Route("b", 1), Route("c", 1), Route("a", 1)>>, <<Route("a", 3), Route("b", 3)>>},
   right |-> {<<Route("d", 2), Disabled(Route("a", 1)), Route("c", 1)>>, <<>>}]
=============================================================================
