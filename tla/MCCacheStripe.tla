--------------------------- MODULE MCCacheStripe ---------------------------
(***************************************************************************)
(* A stripe for TLC.  Slots are interchangeable: no operation depends on   *)
(* which free slot the slab returns.  Keys are not, because of Hash, which *)
(* makes three of them share one counter and two of them the other.        *)
(***************************************************************************)
EXTENDS CacheStripe, TLC

CONSTANTS k1, k2, k3, k4, k5, v1, v2

\* Every key is put with the same value, and k1 also with another one.
MCWrites == (Keys \X {v1}) \cup {<<k1, v2>>}

MCHash == [k \in Keys |-> [r \in Rows |-> IF k \in {k3, k4} THEN 1 ELSE 0]]

\* The state without what the last operation reported, on which no step depends.
NoReport ==
    <<total_capacity, index_map, node, free, others, lists, counters, ops_since_decay, demotion_queue>>

SlotSymmetry == Permutations(Slots)
=============================================================================
