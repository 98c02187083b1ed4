--------------------------- MODULE MCStripedCache ---------------------------
(***************************************************************************)
(* The striped cache for TLC: keys are numbers, routed to the stripes in   *)
(* turn.  batch_get is called with the first three keys.                   *)
(***************************************************************************)
EXTENDS StripedCache, TLC

MCRoute == [k \in Keys |-> k % NumStripes]

MCBatches == {{k \in Keys : k < 3}}

\* The state without what the last operation was asked, handed on and returned,
\* on which no step depends.
NoReport == <<total_capacity, map, slab_free, threadVars, failed>>

Symmetry == Permutations(Threads) \cup Permutations(Values)
=============================================================================
