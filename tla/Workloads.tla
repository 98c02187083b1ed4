----------------------------- MODULE Workloads -----------------------------
(***************************************************************************)
(* The two sources of a benchmark's operations: a trace file that is       *)
(* loaded, or a generator that is asked for a batch.                       *)
(***************************************************************************)
EXTENDS TraceReader, WorkloadGenerator

VARIABLE source

workloadVars == <<source, traceVars, genVars>>

\* The source that is not used stays as it is constructed.
TraceOnly == source = "trace" /\ TraceNext /\ UNCHANGED <<source, genVars>>

GeneratorOnly == source = "generator" /\ GenNext /\ UNCHANGED <<source, traceVars>>

UnusedFile == file = <<>> /\ max_ops = 0

UnusedConfig == config = CHOOSE c \in Configs : TRUE

WorkloadInit ==
    /\ source \in {"trace", "generator"}
    /\ TraceInit /\ GenInit
    /\ IF source = "trace" THEN UnusedConfig ELSE UnusedFile

WorkloadNext == TraceOnly \/ GeneratorOnly

WorkloadSpec == WorkloadInit /\ [][WorkloadNext]_workloadVars
=============================================================================
