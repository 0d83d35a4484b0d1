--------------------- MODULE ResourceRegistryRefinement ---------------------
(***************************************************************************)
(* The registry implements ResourceMap: a call takes effect where it finds *)
(* the route, under the read lock or the write lock, or inserts it.        *)
(***************************************************************************)
EXTENDS ResourceRegistry

Map == INSTANCE ResourceMap WITH
  registered <- routes, made <- created, held <- handle,
  waiting <- {t \in Threads : pc[t] = "missed"}

\* Double-checked creation is linearizable: each get_or_create() is one atomic lookup
\* or insertion, although the lock is released in its middle.
ImplementsMap == Map!Spec
=============================================================================
