--------------------------- MODULE MCEngineStats ---------------------------
(***************************************************************************)
(* Two threads for TLC.  Visits of L2 may take no measurable time; totals  *)
(* fall into every bucket, on its edge and inside.                         *)
(***************************************************************************)
EXTENDS EngineStats, TLC

MCDurations == [layer \in {"l1", "l2", "backend"} |->
    CASE layer = "l1" -> {1} [] layer = "l2" -> {0, 2} [] OTHER -> {14}]

\* The hit rates are read in the shorter benchmark only.
MCBenchmarks == {[ops_per_thread |-> 2, watched |-> FALSE], [ops_per_thread |-> 1, watched |-> TRUE]}

Symmetry == Permutations(Threads)
=============================================================================
