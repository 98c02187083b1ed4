--------------------------- MODULE MCCacheEngine ---------------------------
(* The engine for TLC: keys, values and clients are interchangeable. *)
EXTENDS CacheEngine, TLC

OneStripe == [k \in Keys |-> 0]

Symmetry == Permutations(Keys) \cup Permutations(Values) \cup Permutations(Clients)
=============================================================================
