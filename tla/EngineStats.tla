---------------------------- MODULE EngineStats ----------------------------
(***************************************************************************)
(* The statistics of the engine under a multi-threaded benchmark: the      *)
(* counters of the L1 stripes, of L2 and of the backend, which every       *)
(* thread bumps on its way through get and put (src/cache_engine.cpp), the *)
(* latency tracker of each thread, and a monitor that computes the hit     *)
(* rates from the counters while they change, one load at a time.  What    *)
(* the layers answer is arbitrary here; CacheEngine says what it is.       *)
(*                                                                         *)
(* A duration is the number of ticks a thread spends in a layer.  The time *)
(* an operation takes is the sum of its visits.                            *)
(***************************************************************************)
EXTENDS LatencyHistogram, FiniteSets, Sequences, Bags

CONSTANTS
    Threads,
    NumStripes,     \* kNumStripes of L1
    Durations,      \* the durations a visit of each layer may take
    Benchmarks      \* the benchmarks to run: ops_per_thread, and whether hit rates are read meanwhile

Stripes == 0 .. NumStripes - 1

ASSUME StatsAssumption ==
    /\ IsFiniteSet(Threads) /\ NumStripes \in Nat \ {0}
    /\ \A m \in Benchmarks : m.ops_per_thread \in Nat /\ m.watched \in BOOLEAN
    /\ Durations \in [{"l1", "l2", "backend"} -> SUBSET Nat]

VARIABLES
    benchmark,  \* the one that runs
    at,         \* the layer each thread visits next
    bd,         \* the breakdown of its operation
    done,       \* the operations it has finished
    tracker,    \* its latency tracker
    l1_hits, l1_misses,             \* per stripe
    l2_hits, l2_misses, backend_reads, backend_writes,
    merged,     \* the trackers merged after all threads were joined
    monitor,    \* the thread that computes the hit rates
    samples     \* auxiliary: the breakdowns recorded so far, as a bag

counterVars == <<l1_hits, l1_misses, l2_hits, l2_misses, backend_reads, backend_writes>>
threadVars == <<at, bd, done, tracker, samples>>
vars == <<benchmark, threadVars, counterVars, merged, monitor>>

Hits == SumFunction(l1_hits)
Misses == SumFunction(l1_misses)

NoMonitor == [begun |-> FALSE, plan |-> <<>>, total |-> 0, hits |-> 0, start |-> [hits |-> 0, total |-> 0]]

Init ==
    /\ benchmark \in Benchmarks
    /\ at = [t \in Threads |-> "idle"]
    /\ bd = [t \in Threads |-> NoBreakdown]
    /\ done = [t \in Threads |-> 0]
    /\ tracker = [t \in Threads |-> EmptyTracker]
    /\ l1_hits = [s \in Stripes |-> 0] /\ l1_misses = [s \in Stripes |-> 0]
    /\ l2_hits = 0 /\ l2_misses = 0 /\ backend_reads = 0 /\ backend_writes = 0
    /\ merged = EmptyTracker
    /\ monitor = NoMonitor
    /\ samples = EmptyBag

-----------------------------------------------------------------------------
(* get and put, one step per layer visited *)

\* The thread leaves a layer after d ticks, for the next one.
Goto(t, layer, b) ==
    /\ at' = [at EXCEPT ![t] = layer]
    /\ bd' = [bd EXCEPT ![t] = b]
    /\ UNCHANGED <<done, tracker, samples, merged, monitor>>

\* The operation returns and the benchmark records its breakdown.
Finish(t, b) ==
    /\ at' = [at EXCEPT ![t] = "idle"]
    /\ bd' = [bd EXCEPT ![t] = NoBreakdown]
    /\ done' = [done EXCEPT ![t] = @ + 1]
    /\ tracker' = [tracker EXCEPT ![t] = RecordBreakdown(@, b)]
    /\ samples' = samples (+) SetToBag({b})
    /\ UNCHANGED <<merged, monitor>>

Spend(b, d) == [b EXCEPT !.total_ns = @ + d]

Begin(t) == at[t] = "idle" /\ done[t] < benchmark.ops_per_thread

GetL1Hit(t, s) ==
    /\ Begin(t)
    /\ l1_hits' = [l1_hits EXCEPT ![s] = @ + 1]
    /\ \E d \in Durations["l1"] : Finish(t, [Spend(bd[t], d) EXCEPT !.path = "L1_HIT"])
    /\ UNCHANGED <<l1_misses, l2_hits, l2_misses, backend_reads, backend_writes>>

\* Faulty: the miss is left to be counted by the layer below.
GetL1MissUncounted(t, s) ==
    /\ Begin(t)
    /\ \E d \in Durations["l1"] : Goto(t, "l2", Spend(bd[t], d))
    /\ UNCHANGED counterVars

GetL1Miss(t, s) ==
    /\ Begin(t)
    /\ l1_misses' = [l1_misses EXCEPT ![s] = @ + 1]
    /\ \E d \in Durations["l1"] : Goto(t, "l2", Spend(bd[t], d))
    /\ UNCHANGED <<l1_hits, l2_hits, l2_misses, backend_reads, backend_writes>>

GetL2Hit(t) ==
    /\ at[t] = "l2"
    /\ l2_hits' = l2_hits + 1
    /\ \E d \in Durations["l2"] :
          Goto(t, "fill", [Spend(bd[t], d) EXCEPT !.l2_ns = d, !.path = "L2_HIT"])
    /\ UNCHANGED <<l1_hits, l1_misses, l2_misses, backend_reads, backend_writes>>

GetL2Miss(t) ==
    /\ at[t] = "l2"
    /\ l2_misses' = l2_misses + 1
    /\ \E d \in Durations["l2"] : Goto(t, "backend", [Spend(bd[t], d) EXCEPT !.l2_ns = d])
    /\ UNCHANGED <<l1_hits, l1_misses, l2_hits, backend_reads, backend_writes>>

Backend(t, d, path) == [Spend(bd[t], d) EXCEPT !.backend_ns = d, !.path = path]

GetBackendHit(t) ==
    /\ at[t] = "backend"
    /\ backend_reads' = backend_reads + 1
    /\ \E d \in Durations["backend"] : Goto(t, "fill", Backend(t, d, "BACKEND_HIT"))
    /\ UNCHANGED <<l1_hits, l1_misses, l2_hits, l2_misses, backend_writes>>

GetBackendMiss(t) ==
    /\ at[t] = "backend"
    /\ backend_reads' = backend_reads + 1
    /\ \E d \in Durations["backend"] : Finish(t, Backend(t, d, "MISS"))
    /\ UNCHANGED <<l1_hits, l1_misses, l2_hits, l2_misses, backend_writes>>

\* The put into L1 that ends a get from below, and a put.  Its path stays what
\* it was, and that of a put is the default, MISS.
PutL1(t) ==
    /\ at[t] = "fill"
    /\ \E d \in Durations["l1"] : Finish(t, Spend(bd[t], d))
    /\ UNCHANGED counterVars

\* engine.put writes the backend, without a breakdown of its own.
PutBackend(t) ==
    /\ Begin(t)
    /\ backend_writes' = backend_writes + 1
    /\ \E d \in Durations["backend"] : Goto(t, "fill", Spend(bd[t], d))
    /\ UNCHANGED <<l1_hits, l1_misses, l2_hits, l2_misses, backend_reads>>

\* The benchmark joins its threads and merges their trackers.
Join ==
    /\ \A t \in Threads : done[t] = benchmark.ops_per_thread
    /\ merged = EmptyTracker
    /\ merged' = FoldFunction(LAMBDA own, all : MergeTrackers(all, own), EmptyTracker, tracker)
    /\ UNCHANGED <<threadVars, counterVars, monitor>>

-----------------------------------------------------------------------------
(* overall_hit_rate: total_hits() + total_misses(), then total_hits() +    *)
(* l2_hits(), every total a loop over the stripes' counters.  C++ leaves   *)
(* open which operand of a sum is evaluated first.  l1_hit_rate is the     *)
(* same without l2_hits().                                                 *)

Load(counter, s, into) == [counter |-> counter, stripe |-> s, into |-> into]

\* Faulty: the last stripe is left out.
LoopShort(counter, into) == [n \in 1 .. NumStripes - 1 |-> Load(counter, n - 1, into)]

\* StripedCache::total_hits and total_misses.
Loop(counter, into) == [n \in 1 .. NumStripes |-> Load(counter, n - 1, into)]

Either(p, q) == {p \o q, q \o p}

Plans ==
    {total \o rate : total \in Either(Loop("hits", "total"), Loop("misses", "total")),
                     rate \in Either(Loop("hits", "hits"), <<Load("l2", 0, "hits")>>)}

MonitorBegin(plan) ==
    /\ benchmark.watched /\ ~ monitor.begun
    /\ monitor' = [monitor EXCEPT !.begun = TRUE, !.plan = plan,
                                  !.start = [hits |-> Hits + l2_hits, total |-> Hits + Misses]]
    /\ UNCHANGED <<threadVars, counterVars, merged>>

Value(load) ==
    CASE load.counter = "hits" -> l1_hits[load.stripe]
      [] load.counter = "misses" -> l1_misses[load.stripe]
      [] OTHER -> l2_hits

MonitorLoad ==
    LET load == Head(monitor.plan)
    IN /\ monitor.plan # <<>>
       /\ load.into = "hits" => monitor.total > 0
       /\ monitor' = [monitor EXCEPT ![load.into] = @ + Value(load), !.plan = Tail(@)]
       /\ UNCHANGED <<threadVars, counterVars, merged>>

\* A total of 0 is not divided by: the rate is 0.
MonitorZero ==
    /\ monitor.plan # <<>>
    /\ Head(monitor.plan).into = "hits" /\ monitor.total = 0
    /\ monitor' = [monitor EXCEPT !.plan = <<>>]
    /\ UNCHANGED <<threadVars, counterVars, merged>>

Next ==
    /\ UNCHANGED benchmark
    /\ \/ \E t \in Threads :
             \/ \E s \in Stripes : GetL1Hit(t, s) \/ GetL1Miss(t, s)
             \/ GetL2Hit(t) \/ GetL2Miss(t) \/ GetBackendHit(t) \/ GetBackendMiss(t)
             \/ PutBackend(t) \/ PutL1(t)
       \/ Join
       \/ \E plan \in Plans : MonitorBegin(plan)
       \/ MonitorLoad \/ MonitorZero

Spec == Init /\ [][Next]_vars

-----------------------------------------------------------------------------
(* Properties *)

Counted(h) == SumFunction([t \in Threads |-> tracker[t][h].total_count])

\* Between operations the counters of the layers and the paths the threads have
\* recorded tell the same story, whatever their interleaving: every miss of L1
\* is a hit or a miss of L2, every miss of L2 a read of the backend, and every
\* operation is recorded under one path.  A put is recorded as a miss, so the
\* misses recorded exceed those of the backend by the writes.
PathsMatchCounters ==
    (\A t \in Threads : at[t] = "idle") =>
        /\ Counted("L1_HIT") = Hits
        /\ Counted("L2_HIT") = l2_hits
        /\ Misses = l2_hits + l2_misses
        /\ l2_misses = backend_reads
        /\ Counted("BACKEND_HIT") + Counted("MISS") = backend_reads + backend_writes
        /\ Counted("total") = SumFunction(done)

Recording(h, D) == {b \in DOMAIN samples : Records(b, h) /\ Duration(b, h) \in D}

\* How many recorded operations have put a duration of the set D into h.
Recorded(h, D) == SumFunctionOnSet(samples, Recording(h, D))

\* The durations of a bucket.
BucketRange(b) ==
    {ns \in Nat : (b > 0 => UpperEdge[b - 1] <= ns) /\ (b < NumBuckets - 1 => ns < UpperEdge[b])}

\* Merging the trackers of the threads loses and invents nothing: every merged
\* histogram is the one of all samples, bucket by bucket, with their sum.
MergedIsWhole ==
    merged # EmptyTracker =>
        \A h \in DOMAIN merged :
            /\ merged[h].total_count = Recorded(h, Nat)
            /\ merged[h].total_sum =
                  SumFunctionOnSet([b \in DOMAIN samples |-> samples[b] * Duration(b, h)],
                                   Recording(h, Nat))
            /\ \A b \in Buckets : merged[h].counts[b] = Recorded(h, BucketRange(b))

\* The percentiles that benchmark_result.h reports, in thousandths.
Permilles == {500, 950, 990, 999}

\* The sample of rank r, counted from the smallest.
Ranked(h, r) ==
    Min({ns \in {Duration(b, h) : b \in Recording(h, Nat)} : Recorded(h, 0 .. ns) >= r})

\* A percentile the benchmark reports is the true one within a bucket's width,
\* when that lies within the buckets' range: more than three quarters and at
\* most three halves of it, and a constant below the first edge.
PercentileWithinBucket ==
    \A h \in DOMAIN merged, p \in Permilles :
        LET n == merged[h].total_count
            exact == Ranked(h, (p * n) \div 1000 + 1)
            twice == TwicePercentile(merged[h], p)
        IN n > 0 =>
             /\ exact < Edge => twice = Edge
             /\ Edge <= exact /\ exact < UpperEdge[NumBuckets - 1] =>
                    3 * exact < 2 * twice /\ twice <= 3 * exact
             /\ exact >= UpperEdge[NumBuckets - 1] => twice < 2 * exact

\* A hit rate computed while the counters change is off by no more than what was
\* counted meanwhile: it exceeds 1 only by the hits since the monitor began, it
\* misses none that came before, and it is exact when nothing was counted.
RateErrorBounded ==
    LET since == Hits + l2_hits - monitor.start.hits
        ended == monitor.begun /\ monitor.plan = <<>> /\ monitor.total > 0
    IN ended =>
         /\ monitor.hits <= monitor.total + since
         /\ monitor.hits >= monitor.start.hits /\ monitor.total >= monitor.start.total
         /\ since = 0 /\ Hits + Misses = monitor.start.total =>
                monitor.hits = Hits + l2_hits /\ monitor.total = Hits + Misses
=============================================================================
