# A TLA+ model of walde

walde is a two-layer in-memory cache in C++. This directory holds TLA+ modules
that model it, TLC configurations that check them on small instances, and TLAPS
proofs of what holds for every instance. `PROJECT.json` lists the components,
the runs, the source lines behind every definition, the hazards of the code and
the theorems. Paths below are relative to the repository.

    tlc -workers 2 -config MCSlabAllocator.cfg SlabAllocator     # a run
    tlapm SlabAllocatorProofs.tla                                # a proof

## The system

    client ── get/put/remove ──> CacheEngine ──> StripedCache (L1) ──> CacheStripe x 64
                                   │   │                              ├─ IntrusiveLRU x 3
                                   │   │                              ├─ CountMinSketch
                                   │   │                              └─ SlabAllocator (one for all)
                                   │   └──> StorageBackend
                                   │                    victims of the admission gate
                                   └──> L2 <── DemotionDrainer <── DemotionQueue <── CacheStripe

| component | state | operations | concurrency |
|---|---|---|---|
| SlabAllocator (`src/slab_allocator.cpp`) | nodes, free list in `free_next_`, tagged `head_`, `free_count_` | allocate, deallocate, node | lock-free, shared by all stripes |
| IntrusiveLRU (`src/lru_list.cpp`) | head, tail, size; links inside the slab's nodes | push_front, remove, pop_back, move_to_front | under the stripe's lock |
| CountMinSketch (`src/count_min_sketch.cpp`) | rows of 32-bit counters | increment, estimate, decay, reset | under the stripe's lock |
| CacheStripe (`src/cache_stripe.cpp`) | index, three lists, sketch, operation counter, statistics | get, put, remove, set_demotion_queue | one mutex per stripe |
| StripedCache (`src/striped_cache.cpp`) | 64 stripes, the slab | get, put, remove, batch_get | stripes run in parallel |
| DemotionQueue (`src/demotion_queue.cpp`) | ring buffer, two positions | try_push, try_pop, try_pop_batch | one mutex |
| DemotionDrainer (`src/demotion_drainer.cpp`) | thread, `running_`, `drained_` | run, stop, notify | own thread, condition variable |
| CacheEngine (`src/cache_engine.cpp`) | L1, 16 L2 stripes, queue, drainer, backend | get, put, remove, l2_put_batch | a lock per layer, none across layers |
| InMemoryBackend (`src/storage_backend.cpp`) | a map | get, put, remove | one shared mutex |
| LatencyInstrumentation (`include/latency_instrumentation.h`) | histograms per path and part | record, merge, percentile_us | a tracker per benchmark thread |
| TraceLoader (`src/trace_loader.cpp`) | position in a file, its format, counters | next, load_trace_file, stream_trace_file | none |
| WorkloadGenerator (`src/workload_generator.cpp`) | a Zipf table, the burst under way | next, generate_batch | none |

The last two feed the benchmarks (`benchmarks/`), which drive the engine from
several threads and merge the latency trackers at the end.

What is hard here: the lock-free free list (ABA, retries, a counter that lags);
operations of the engine that visit several layers without a common lock; the
asynchronous path of demoted items, which may arrive after the key was
overwritten or removed; the shutdown of the drainer with a notification that can
be lost; the many places a slot is recorded in a stripe (a list, a segment
mark, the index, the slab), which every operation must change together; counters
of several layers that are read while they move; and the boundary cases of sizes,
buckets, file formats and bursts. The list of hazards in `PROJECT.json` says
where each of these bites.

What makes the components correct: a slot has one holder, always; lists, index
and slab agree; window, protected and the main segments together stay within
their capacities, so the shared slab is large enough; only a key with a higher estimate displaces another; estimates never
fall below the counts; the queue is a FIFO that drops instead of blocking; what
the queue accepts reaches L2, also through a stop; counters, recorded paths and
percentiles describe the operations that happened; a trace is read as it is
written and the generator keeps its configured mix; and a get returns what was
last put. The last one does not hold: see the findings.

## Modules

| module | models | role |
|---|---|---|
| `AbstractSlab` | what callers of the slab rely on | abstract specification |
| `SlabAllocator` | the lock-free slab, one step per shared-memory access | implements `AbstractSlab` |
| `SlabAllocatorProofs` | | theorems about `SlabAllocator` |
| `LruList` | the doubly linked lists and their shared links | shows that lists are sequences |
| `Sketch` | the operations on a table of counters | operators, used by the next two |
| `CountMinSketch` | the sketch beside exact counts | |
| `StripePartsProofs` | | theorems about `LruList` and `CountMinSketch` |
| `L1Cache` | what the engine relies on: a map that forgets | abstract specification |
| `CacheStripe` | one stripe, one step per operation | implements `L1Cache` |
| `CacheStripeProofs` | | theorems about `CacheStripe` |
| `StripedCache` | all stripes on one slab, batch_get | implements `L1Cache` |
| `StripedCacheProofs` | | theorems about `StripedCache` |
| `BoundedFifo` | what the queue's users rely on | abstract specification |
| `DemotionQueue` | the ring buffer and the rounding of its size | implements `BoundedFifo` |
| `DemotionQueueProofs` | | theorems about `DemotionQueue` |
| `DemotionDrainer` | the thread, its wait and its shutdown | uses `BoundedFifo` |
| `DemotionDrainerProofs` | | theorems about `DemotionDrainer` |
| `CacheEngine` | clients, L1, queue, drainer, L2, backend | uses `L1Cache` and `BoundedFifo` |
| `CacheEngineProofs` | | theorems about `CacheEngine` |
| `LatencyHistogram` | histograms and trackers | operators, used by the next |
| `EngineStats` | the engine's counters, breakdowns and hit rates under a benchmark | |
| `TraceReader` | the reader of trace files and its two loops | |
| `WorkloadGenerator` | the Zipf table and the mix of operations and bursts | |
| `Workloads` | the two sources of operations | composes the two before it |
| `BenchmarkProofs` | | theorems about `EngineStats` and `Workloads` |

`MC*.tla`, where a configuration file alone cannot, give constants their values
for TLC, a symmetry and, where said, a view. Operators marked *Faulty* are
variants of the operator that follows them, with a plausible mistake. `PROJECT.json` pairs each property of a run with one
of them: with the variant in place of the original TLC finds the property
violated, so no property holds by the shape of the model alone.

How state and actions correspond to the code:

- **SlabAllocator.** `head`, `free_next`, `free_count` and `pool` are the
  members; `old`, `nxt`, `arg` and `pc` are the local variables and the position
  of each thread. `AllocLoad`, `AllocReadNext`, `AllocCas`/`AllocRetry`,
  `AllocReset`, `AllocCount` are allocate() line by line, the `Dealloc` actions
  are deallocate(). A retry may follow a compare-exchange whose head matched,
  because `compare_exchange_weak` may fail spuriously. `owned` is what callers
  hold: deallocate is called once, by the holder, as the stripes do. `stack` is
  an auxiliary variable, the free slots in order. Memory is sequentially
  consistent; `free_next_` is read unsynchronised, and an aligned 32-bit read
  returns the old or the new value, which is what interleaving gives.
- **LruList.** `mem` holds the links of all nodes and head, tail and size of
  three lists; the list operations are functions of it, so that pop_back and
  move_to_front are compositions as in the code.
- **CacheStripe.** An operation holds the mutex throughout, so it is one action;
  put of a new key is split by outcome (`PutIntoWindow`, `PutAdmitFree`,
  `PutAdmitEvict`, `PutReject`, `PutNoSlot`). Probation has no limit of its own, as
  in the code: it takes what protected leaves of the main segments. The lists are sequences (justified
  by `LruList`), the slab is the set of its free slots (justified by
  `AbstractSlab`); `OthersAllocate` and `OthersDeallocate` are the other stripes
  using the same slab. `out` is what the last operation was asked, returned, handed
  to the queue and counted. The instrumented paths of get and put change the
  same state as the plain ones.
- **StripedCache.** A put takes a slot in one step and inserts, evicts and gives
  a slot back in the next, holding its stripe's lock between the two. A full
  stripe gives up one key (`CacheStripe` shows that it is one).
- **DemotionQueue.** A word is the set of its one bits in `NextPowerOf2`, so that
  the code's shifts are shifts and its final increment overflows. `Pow2` is a
  recursive function because the prover has no theory of `^`. `requested` is
  the constructor's argument; a ring of 0 cells or of 1 has threshold 0.
- **DemotionDrainer.** `SleepTest` evaluates the predicate of `wait_for`, `Block`
  goes to sleep: a notification between the two is lost.
- **CacheEngine.** Each visit to a layer is a step. `suspect` is an auxiliary
  set: the keys that were ever demoted, or written (by a put or remove) while
  another client was using them. Gets beside each other make no key suspect.
- **EngineStats.** The same visits to the layers as in `CacheEngine`, with free
  answers; each bumps the layer's counter and adds its duration to the thread's
  breakdown. The monitor is any thread that asks for a hit rate: it loads one
  counter per step, in either order of the operands that C++ leaves open. The
  counters are relaxed atomics; the model interleaves them, in which a monitor
  sees no counter go back. L2's 16 pairs of counters are one pair. `samples` is
  an auxiliary bag of the breakdowns recorded so far, which the histograms are
  compared with; `Recorded` counts those whose duration lies in a set.
- **TraceReader.** `next()` is a step per line: blank and comment lines, the
  format decided by the first data line, the header, the two parsers. Lines are
  words or fields of the kinds that the code tells apart. What a file means as a
  whole (`Meaning`) is said without the reader's flags, by the numbers of the
  lines that stand for operations, in their order.
- **WorkloadGenerator.** A draw of the random source is a choice. The draws that
  decide on bursts are one full cycle, each outcome as often as its probability
  says, in any order, so that a share can be stated exactly. `planned` is an
  auxiliary sequence, the operations that the draws so far stand for.

Data is abstract: keys and values are model values, hash functions are constant
functions, percentages and probabilities are integers (the percentiles' are
thousandths, the Zipf table's are rounded to the nearest as a double is), and a
duration is a number of ticks. Logging is left out. Counters are kept where a property is about them:
in `EngineStats`, not beside the data they count.

## Runs

| run | instance | what it shows |
|---|---|---|
| `slab` | 2 threads, 2 slots, tags mod 4 | list shape, single ownership, no leak, refinement of `AbstractSlab`, lock freedom |
| `stripe_parts` | 3 lists, 5 slots; 3 keys, 2x2 counters mod 6 | links, head, tail and size agree with the sequences; the sketch's error is one-sided until a counter wraps and comes from collisions only |
| `stripe` | capacity 3 and 4, 5 keys, 2 values, 5 slots | agreement of index, lists and slab; capacities; gate; refinement of `L1Cache` |
| `striped` | 2 stripes, 8 keys, 2 values, 2 threads, total capacity 2 or 6 | the slab's headroom is enough if every stripe's share is at least 3; refinement of `L1Cache` also where puts find no slot |
| `queue` | every 4-bit size, positions mod 16 | the size is rounded up or overflows to 0; refinement of `BoundedFifo` through wraps |
| `drainer` | 5 items, batches of 2, 2 stoppers | nothing lost, stop ends, stop delivers |
| `engine` | 2 clients, 3 keys, 2 values, 5 operations | where stale values can and cannot come from |
| `workloads` | files of up to 3 lines of 15 kinds; 5 generators with 3 keys | files in the documented formats are read whole; keys exist, bursts are whole, scans have their share |
| `stats` | 2 threads, 2 stripes of counters, 4 buckets | counters and paths agree; merged histograms are those of all samples; percentiles and concurrent hit rates have a bounded error |

Three more runs end in a counterexample, each to a claim of a document or a test:
`engine_stale`, `engine_removed` and `engine_exclusive`. See the findings.

Bounds. Two threads and two slots suffice for ABA on the slab, which needs a
pop, a pop and a push between a load and its compare-exchange; tags modulo 4
leave room for those three updates within the tag window (modulo 3 would not).
What is said of safety is proved for every instance (see Proofs): the
bounds matter for what is only model-checked and for the mutants. A stripe of capacity 4 has all
three segments non-empty and, with five keys, every outcome of the gate; one of
capacity 3, the least the code accepts, has a window of capacity 0. One key is
put with two values (`Writes`), which is enough to tell an old from a new one.
`MaxFreq` bounds the counters and decays keep them moving; `MaxOthers` slots at
most are in the hands of other stripes, so that puts find the slab exhausted. In
`striped` both stripes can be full with a put under way in each. In `engine`, L2
and the queue hold one item each so that dropping and L2 eviction happen, and
five operations are enough for its three counterexamples. `DecayInterval` is a
constant of the model (5 x capacity in the code), small so that decays happen.
Four-bit sizes give the queue 0, 1, 2, 4 and 8 cells; the queue's threshold,
80 % rounded down, is exact for capacities below 2^24, above which the code's
32-bit float rounds differently. Three lines are a header or a first row, a data
line and one more, in every order, with skipped lines anywhere; the limits of 1
and 2 operations fall before, on and after the last one. The five generators
have shares of scans of 0, a third, a half, two thirds and 1, and bursts of one
to three keys; their table is in eighths, in which the rounded probabilities of
the three keys add up to 7 of 8, so that the forced last entry matters (a sum
above 1 is covered by the theorem). In `stats` two benchmarks run: two operations per thread without a
monitor, which gives four samples in any buckets, and one operation per thread
under the monitor, which is enough to push a rate above 1. Durations put totals
into every bucket, on an edge and beyond the last one.
`stripe` and `striped` use a view that leaves out the report
of the last operation, and `queue` one without the drop counter, on which no step
depends: the properties that mention it are about steps, and every step is still
checked. Slots of a stripe, threads and
values of the striped cache, threads in `stats` and, in `engine`, keys, values
and clients are interchangeable and used as symmetry sets, in runs without liveness.

The tag window. With a finite tag ABA is possible in principle: a thread that
sleeps between its load and its compare-exchange while the head changes exactly
a multiple of 2^32 times is fooled. `TagWindow` is the assumption that this does
not happen, stated as a guard of the two successful compare-exchanges and only
for threads in allocate(); deallocate() does not need it, and neither model nor
proof assumes anything else about timing.

Fairness. `slab`: a call that has begun is scheduled again (weak
fairness per thread, the operating system's), and if matching compare-exchanges
keep being attempted one of them succeeds (strong fairness of the disjunction,
no spurious failure for ever). No thread is promised success. `drainer`: weak
fairness of the drainer thread, whose wait ends by its time-out, and of a
stopper that has begun. Producers, notify(), spurious wake-ups and the decision
to stop are not assumed to happen.

## Findings

Each is a run whose property TLC refutes. The first two are errors of the code,
the third a disagreement of the code with its documents.

- `engine_stale`: put does not invalidate older copies in L2 or in the queue. A
  single client can read a value older than its last put.
- `engine_removed`: remove does not reach the queue or the drainer's batch. A
  removed key can come back.
- `engine_exclusive`: put, the backend path of get and the drainer do not look for
  a copy in the other layer, so L1 and L2 can hold the same key, which
  `docs/architecture.md:57` excludes.

Other disagreements, met while modelling and without a run of their own:

- An overflow of the protected segment goes to the front of probation
  (`Promote`); `README.md:107` says tail.
- `probation_capacity_` only serves to compute `protected_capacity_`. Admission
  compares both main segments with their common capacity, so probation outgrows
  the share that `docs/architecture.md:66` and `include/cache_stripe.h:23` give
  it: with capacity 4 it reaches 3 slots against 1, and in a new stripe it takes
  all of main. `WithinCapacity` states the limits that do hold.
- With a total capacity below 3 per stripe the slab is smaller than its stripes
  and a put can fail; `docs/architecture.md:58` promises headroom.
  `HeadroomSuffices` states for which capacities it is enough, and the run
  includes one of each kind.
- A counter of the sketch wraps to 0, after 2^32 increments in the code (possible
  under reads, which never trigger a decay), and the estimate falls below the
  count; `tests/test_cms.cpp:61` says never. `NeverUnderestimates` states it
  until the first wrap.
- A stripe of capacity 3 has a window of 0 and main segments of 3
  (`WindowCapacity`); `tests/test_cache_stripe.cpp:235` says 1, 1 and 1.
- batch_get locks a stripe once per key (`BatchGet`);
  `include/striped_cache.h:34` says once per stripe.
- The comment at `src/cache_stripe.cpp:293` speaks of a margin of 2; the gate is
  strictly greater, as all other documents say.
- `include/cache_stripe.h:51` says that get does not use the sketch; it counts
  hits.
- The queue drops *at* 80 %, not above it (`README.md:151`).
- A candidate that loses at the gate is dropped (`PutReject`); `README.md:104`
  sends it to the demotion queue.
- SET, UPDATE and INSERT are writes to the parser of a CSV row but unknown to the
  format detection, so a CSV file without header that begins with such a row is
  read as a list of keys (`ReadsWholeFile` states
  what the code does, `DocumentedFormatsRead` what the documented formats give).
- A put is recorded under the path MISS, the default, so the misses of a latency
  report include the writes (`PathsMatchCounters`).

## Proofs

Every theorem is about the specification the runs check, for all values of its
constants that satisfy the named assumptions; bounds such as `MaxOps`, `MaxFreq`
or `MaxItems` are constants like the others, so they are arbitrary. For each
component there is an inductive invariant, a lemma that the initial states satisfy
it, one that every action preserves it, and the theorems that follow.

**`SlabAllocatorProofs`**: any finite set of threads, capacity above 0, tag
modulus above 1, counter modulus above the capacity; timing as in `TagWindow`.

- `Safety`: `Spec => []IInv`. Ownership alone is not inductive: that a pop takes
  the right slot depends on the shape of the list (`ListIsStack`), that it
  installs the right link depends on the tag still vouching for the link read
  earlier (`FreshNext`), and that a push does depends on the link having been
  stored after the last reload (`LinkReady`). `IInv` is the conjunction of these
  with the types, ownership and the reset of free nodes. The lemmas `Pop` and
  `Push` hold the reasoning on sequences.
- `Ownership`, `SlabListIsStack`, `SlabNoLeak`, `SlabFreshNext`,
  `SlabFreeNodesReset`: the parts a reader asks for.
- `Refinement`: the taken slots are those not on the free list
  (`TakenIsNotFree`), so each successful compare-exchange is a step of the
  abstract pool and every other step but a failed allocate() is a stutter.
- `SlabCountAccounting`: `free_count` is the list's length plus the calls that
  have popped and minus those that have pushed without counting, modulo the
  counter. It needs the number of threads at a label to be finite, hence
  `ThreadsAssumption`; the rest is arithmetic of remainders.

**`StripePartsProofs`**, lists: any set of lists and slots. `LruLinksAgree` rests on `Sound`:
the links agree and no slot is in two places. The second half is what makes the
first inductive: relinking the neighbours of a slot may touch no other list.
`PushSound` and `RemoveSound` are about push_front and remove as functions of the
memory, so pop_back and move_to_front are their compositions.

**`StripePartsProofs`**, sketch: any keys, table shape, hash and counter modulus.
`SketchNeverUnderestimates` and `SketchNeverExceedsTotal` follow from `Covers`,
which says the same of each counter; the minimum inherits it. For
`SketchExactWithoutCollision` the strengthening `OwnCounters` follows a counter
that only one key hits.

**`CacheStripeProofs`**: any keys, values, slots, capacities of at least 3 (what the
striped cache passes), percentages from 0 to 100 and sketch, and any use of the slab by other
stripes. `StripeInv` is the types with `SlotsPlaced`, `IndexAgrees`,
`WithinCapacity` and `ValuesKept`; none is inductive alone, because a slot is
found through the index, unlinked from the list its mark names, and freed. The
moves between lists are lemmas (a hit, an overflow of protected, an eviction, a
rejection), shared by the actions that make them.

- `StripeSlotsPlaced`, `StripeIndexAgrees`, `StripeWithinCapacity`: its parts. The
  last bounds the window, protected (by one slot when its capacity is 0, which a
  probation share of 100 % gives) and the main segments together, and says that a
  full main cache has a victim; that follows because protected is always smaller
  than main. It does not bound probation, which the code does not either.
- `StripeEvictsOnlyUnderPressure`, `StripeGateIsStrict`: action properties.
- `StripeImplementsL1Cache`: every operation is one step of the forgetful map.

**`StripedCacheProofs`**: any number of stripes, threads and keys, any routing and
capacity; keys and threads need not be finite. `StripedInv`: a put under way is
for an uncached key and alone in its stripe, no stripe exceeds its share, and the
slots add up.

- `StripedSlotsAccounted`: the last part.
- `StripedHeadroomSuffices`: the cached keys are at most stripes times share
  (`FirstStripes`, by the least number of stripes that would break it), and the
  puts under way are fewer than the stripes while one is unlocked
  (`HoldingBounded`, by the pigeonhole principle), so a slot is left (`SlotLeft`).
- `StripedImplementsL1Cache`: a put takes effect when its key enters the stripe.

**`DemotionQueueProofs`**: any word of 1 to 32 bits (the five shifts of the code
reach no further), any batch, and any modulus of the positions that the word's
modulus divides (2^64 and 2^32 in the code).

- `QueueCapacityRounded`: `CapacityInv` says that the capacity is the rounding of
  the size asked for, so what is proved is what the constructor computes. Each of
  the five shifts doubles the distance to which a one is copied down, so `Smear`
  fills every bit below the highest one (`SmearIsDown`); the word of k ones has the
  value `Pow2[k] - 1` (`ValueOfLow`, by induction on k), and one more is a power of
  two or overflows to 0. That `v - 1` lies between the powers around its highest
  one is `Highest`, by induction from the top bit down.
- `QueueImplementsFifo`: `RingInv` bounds the distance of the positions by the
  threshold, which is below the capacity, so the cells from the read position on
  are distinct (`CellsApart`); that a wrapped position indexes the same cell needs
  the capacity to divide the modulus (`ModInner`), which follows from the rounding
  (`CapacityDivides`).

**`DemotionDrainerProofs`**: any threshold, batch size, number of items and of
concurrent stop() calls. `DrainInv` adds to `NothingLost` where a batch can be
non-empty, what the drained counter stands for, the order of the steps of stop()
(`StopOrder`) and that the thread leaves only after the queue was seen empty with
the flag down (`ExitDrained`).

- `DrainerNothingLost`, `DrainerStopDelivers`, `DrainerNoDeliveryAfterJoin`.

**`CacheEngineProofs`**: any number of clients, keys, L2 stripes and operations, and
any sizes. `EngineInv` is `L2WellFormed` and, for keys that are not suspect, that
nothing of them is below L1 (`BelowSuspect`), that a client that writes one is
alone with it (`OneWriter`), that L1 agrees with the backend unless someone is
writing (`QuietCoherent`), and what a client knows at each label (`HeldCoherent`):
a value to be filled into L1 is the backend's, after the backend was written the
same value is about to go to L1, after L1 was erased it stays so until the end of
remove. `KeyStep` reduces every step of a client to its own key.

- `EngineL2WellFormed`, `EngineCoherentUnlessSuspect`.
- `EngineUnsuspectReadsAreFresh`: the action property, from the same invariant.

**`BenchmarkProofs`**, induction. The theorems below are about sums, counts and
tables of any size. The library's induction theorems take an operator, which the
provers do not instantiate, so the module has its own for sets: a set of naturals
has a least element (`LeastNat`, from the well-foundedness of <), hence a set with
0 that is closed under successor has all naturals (`NatGrow`), and a set of
subsets that grows by one element has every finite set (`SetGrow`). Each use
names the set of the numbers, or of the subsets, for which the claim holds.
That a recursive definition has a function that satisfies it is shown the same way
(`SumExists`, `EdgesExist`; `RecursionExists` in `DemotionQueueProofs`), and a sum
over a finite set is shown to change by the element that is added, removed or
updated.

**`BenchmarkProofs`**, statistics: any finite set of threads, any number of
stripes, any sets of durations and benchmarks, any first edge and number of
buckets from 2.

- `StatsPathsMatchCounters`: `StatsTyped` adds to the types of threads and
  counters the equations `Accounted`, which hold in the middle of operations too:
  each counter equals the recorded ones plus the operations that have passed it
  and are still under way, so when all threads are idle the difference is 0.
- `StatsRateErrorBounded`: `RateInv` adds what the monitor can know: what it has
  loaded so far and what its plan still has to load lie between the counters at
  its start and the counters now (`InBetween`).
- `StatsMergedIsWhole`: `MergeInv` says of the trackers what the property says of
  their merge (`Ledger`), before and after the join. The merge is a fold over the
  threads, shown to be the sum whatever the order.
- `StatsPercentileWithinBucket`, from the same invariant: the first bucket whose
  running count exceeds the target is the bucket of the sample with that rank,
  and the middle of a bucket is within the stated ratio of its members.

**`BenchmarkProofs`**, sources: any lines, words, limits and length of a file; any
number of keys, weights, shares, burst lengths and offsets.

- `WorkloadKeysExist`, `WorkloadBurstsAreWhole`, `WorkloadScanShareIsTarget`:
  `GenInv` has the types, `PlanFollowed` (what is generated is a prefix of the plan,
  and the rest of the burst under way is what the plan still has),
  `ValuesFresh` (the values written are numbered by the operations generated) and
  `ShareCounted` (every draw that triggered a scan has added a burst, every other
  one an operation).
- `WorkloadReadsWholeFile`: `TraceInv` relates the flags to the first data line
  (`FlagsFollow`), the counters to the lines (`LinesCounted`) and the operations
  to the lines read so far (`Aligned`): the k-th operation is the meaning of the
  k-th line that stands for one.
- `WorkloadDocumentedFormatsRead`: for a file in a documented format the lines
  that stand for operations are all data lines, or all but the header, so the
  whole-file meaning is what the document says. It needs `WordsAssumption`: plain
  words are not keywords, which is what plain means.

The inductive invariants of stripe, striped cache, drainer, engine and trace
reader, and `Accounted` and `InBetween` of the statistics, were checked with TLC on the instances of their runs before
they were proved; the proof of the drainer showed that a CASE of `PopBatch` had
overlapping guards, which is now an IF.

Every invariant, action property and refinement that a passing run checks is
stated by a theorem. Only model-checked are `LockFree`, `StopReturns` and
`EventuallyDelivered`: liveness under fairness is outside the prover's reach.

## Not modelled

- The baseline caches (`benchmarks/`: LRU and W-TinyLFU) are what the
  measurements compare with; nothing in the cache uses them.
- The rest of the benchmarks times and prints.
- `ScopedTimer` and the parts of a breakdown measured inside L1 (lock, lookup,
  slab, admission, eviction): durations that are recorded like those of the
  other parts.
- The percentile for p = 1 and thresholds of buckets beyond 2^64 ns: no caller
  asks for the first and no duration reaches the second.
- A generator with `scan_length` 0, whose next() never returns, and scans whose
  offset overflows 32 bits; a trace file that cannot be opened, which gives no
  operations; blanks around the fields of a CSV line, which trim removes.
- The weak memory orders of the slab and of the counters: every access is
  sequentially consistent.
- The growth of the sketch's counters under reads only, which never trigger a
  decay: the model bounds the counters. Their wrap is in `CountMinSketch`.
- The engine's constructor and destructor are not steps: the drainer's shutdown
  is in `DemotionDrainer`, and operations that race with the destructor are
  misuse.

## Plan

Done, in this order: slab, its abstract pool and proofs; sketch and its proof;
stripe and the forgetful map; queue and its size; drainer; engine; striped cache;
lists; trace reader and generator; histograms and the engine's statistics. The
model covers the cache; what is left out is listed above.

Proved since: all safety invariants, action properties and refinements of slab,
lists, sketch, stripe, striped cache, queue, drainer and engine, and those of the
statistics, the trace reader and the generator.

Next: a shorter proof of the stripe, whose lemmas on moves between lists overlap,
and of the sums in the statistics, which repeat one argument per counter.
