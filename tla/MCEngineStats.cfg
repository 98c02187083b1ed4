CONSTANTS
    Edge = 2
    NumBuckets = 4
    Threads = {t1, t2}
    NumStripes = 2
    Durations <- MCDurations
    Benchmarks <- MCBenchmarks
SPECIFICATION Spec
SYMMETRY Symmetry
INVARIANTS PathsMatchCounters PercentileWithinBucket MergedIsWhole RateErrorBounded
CHECK_DEADLOCK FALSE
