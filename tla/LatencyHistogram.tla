-------------------------- MODULE LatencyHistogram -------------------------
(***************************************************************************)
(* The histogram of durations and the tracker that keeps one per path and  *)
(* part of an operation (include/latency_instrumentation.h).  Bucket 0     *)
(* holds the durations below Edge, every next one those below twice the    *)
(* edge before it that are in no earlier bucket, and the last all the rest. *)
(*                                                                         *)
(* The parts an operation spends inside L1 (lock_wait_ns, lookup_ns,       *)
(* slab_ns, admission_ns, eviction_ns) are left out: they are recorded     *)
(* like the others and no counter is compared with them.                   *)
(***************************************************************************)
EXTENDS Integers, FiniteSetsExt, Functions

CONSTANTS
    Edge,         \* 100 ns in the code
    NumBuckets    \* kNumBuckets, 64

ASSUME HistogramAssumption == Edge \in Nat \ {0} /\ NumBuckets \in Nat /\ NumBuckets >= 2

Buckets == 0 .. NumBuckets - 1

EmptyHistogram == [counts |-> [b \in Buckets |-> 0], total_count |-> 0, total_sum |-> 0]

\* threshold in record, doubled from bucket to bucket, for durations whose
\* threshold does not overflow.
UpperEdge[b \in Buckets] == IF b = 0 THEN Edge ELSE 2 * UpperEdge[b - 1]

\* Faulty: a duration on the edge stays in the lower bucket.
BucketInclusive(ns) == Min({b \in Buckets : b = NumBuckets - 1 \/ ns <= UpperEdge[b]})

\* The bucket where the loop of record stops.
Bucket(ns) == Min({b \in Buckets : b = NumBuckets - 1 \/ ns < UpperEdge[b]})

Record(h, ns) ==
    [counts |-> [h.counts EXCEPT ![Bucket(ns)] = @ + 1],
     total_count |-> h.total_count + 1,
     total_sum |-> h.total_sum + ns]

\* Faulty: the sum is taken over instead of added.
MergeSumOver(h, other) ==
    [counts |-> [b \in Buckets |-> h.counts[b] + other.counts[b]],
     total_count |-> h.total_count + other.total_count,
     total_sum |-> other.total_sum]

Merge(h, other) ==
    [counts |-> [b \in Buckets |-> h.counts[b] + other.counts[b]],
     total_count |-> h.total_count + other.total_count,
     total_sum |-> h.total_sum + other.total_sum]

\* Samples in the buckets up to b: cumulative in percentile_us.
UpTo(h, b) == SumFunctionOnSet(h.counts, 0 .. b)

\* target in percentile_us(permille / 1000).
Target(h, permille) == (permille * h.total_count) \div 1000

\* Twice percentile_us(permille / 1000), in nanoseconds: the sum of the edges of
\* the first bucket that takes the running count above the target, or the
\* value past the end when none does.
TwicePercentile(h, permille) ==
    LET above == {b \in Buckets : UpTo(h, b) > Target(h, permille)}
    IN IF h.total_count = 0 THEN 0
       ELSE IF above = {} THEN 2 * UpperEdge[NumBuckets - 2]
       ELSE IF Min(above) = 0 THEN Edge
       ELSE UpperEdge[Min(above) - 1] + UpperEdge[Min(above)]

-----------------------------------------------------------------------------
(* PathLatencyTracker *)

Paths == {"L1_HIT", "L2_HIT", "BACKEND_HIT", "MISS"}

Histograms == {"total", "l2", "backend"} \cup Paths

EmptyTracker == [h \in Histograms |-> EmptyHistogram]

\* A default-constructed LatencyBreakdown.
NoBreakdown == [total_ns |-> 0, l2_ns |-> 0, backend_ns |-> 0, path |-> "MISS"]

\* The duration that PathLatencyTracker::record puts into the histogram h, and
\* whether it does: the total always and under its path, a part only when it is
\* not zero.
Duration(bd, h) ==
    CASE h = "l2" -> bd.l2_ns [] h = "backend" -> bd.backend_ns [] OTHER -> bd.total_ns

Records(bd, h) ==
    \/ h = "total" \/ h = bd.path
    \/ h \in {"l2", "backend"} /\ Duration(bd, h) > 0

RecordBreakdown(tracker, bd) ==
    [h \in DOMAIN tracker |->
        IF Records(bd, h) THEN Record(tracker[h], Duration(bd, h)) ELSE tracker[h]]

MergeTrackers(tracker, other) == [h \in DOMAIN tracker |-> Merge(tracker[h], other[h])]
=============================================================================
