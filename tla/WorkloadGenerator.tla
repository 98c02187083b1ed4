------------------------- MODULE WorkloadGenerator -------------------------
(***************************************************************************)
(* The synthetic workload (src/workload_generator.cpp): reads and writes   *)
(* of Zipf-distributed keys, interrupted by bursts of sequential reads.    *)
(* Probabilities are integers out of a whole: One stands for 1.0 in the    *)
(* table of the distribution, whose terms are rounded to the nearest, as a *)
(* double is, so that their sum may miss One on either side, and a scan    *)
(* starts on trigger out of cycle draws.  The draws that decide on scans   *)
(* are one full cycle, every outcome once, in any order: what they produce *)
(* is what is expected of independent draws.                               *)
(***************************************************************************)
EXTENDS Integers, SequencesExt

CONSTANTS
    NumKeys,     \* num_keys
    Weight,      \* 1 / i^alpha for the i-th key, scaled to an integer
    One,         \* 1.0
    Configs,     \* scan_probability = part / whole, and scan_length
    Offsets      \* the offsets a scan may start from

ASSUME GeneratorAssumption ==
    /\ NumKeys \in Nat \ {0} /\ One \in Nat \ {0}
    /\ Weight \in [1 .. NumKeys -> Nat \ {0}]
    /\ Offsets \subseteq Nat
    /\ \A c \in Configs :
          /\ c.part \in Nat /\ c.whole \in Nat \ {0} /\ c.part <= c.whole
          /\ c.scan_length \in Nat \ {0}

VARIABLES
    config,
    draws,            \* the draws left in the cycle: how many trigger a scan, how many do not
    scan_remaining, scan_offset, ops_generated,
    generated,        \* what generate_batch returns
    planned           \* auxiliary: the operations that the draws stand for, in their order

genVars == <<config, draws, scan_remaining, scan_offset, ops_generated, generated, planned>>

-----------------------------------------------------------------------------
(* ZipfianGenerator *)

Harmonic[i \in 0 .. NumKeys] == IF i = 0 THEN 0 ELSE Harmonic[i - 1] + Weight[i]

\* The probability of the i-th key, to the nearest.
Probability(i) == (2 * One * Weight[i] + Harmonic[NumKeys]) \div (2 * Harmonic[NumKeys])

Cumulative[i \in 0 .. NumKeys] == IF i = 0 THEN 0 ELSE Cumulative[i - 1] + Probability(i)

\* Faulty: the last entry is left as it was computed.
CdfAsComputed(i) == Cumulative[i + 1]

\* cdf_[i]; the last entry is set to exactly 1.0.
Cdf(i) == IF i = NumKeys - 1 THEN One ELSE Cumulative[i + 1]

\* next_index for the draw u: lower_bound in cdf_, the first entry that is not
\* less than u, and NumKeys for past the end.
NextIndex(u) ==
    LET reached == {i \in 0 .. NumKeys - 1 : ~ Cdf(i) < u}
    IN IF reached = {} THEN NumKeys ELSE Min(reached)

-----------------------------------------------------------------------------
(* WorkloadGenerator *)

\* Faulty: scan_probability is used as the probability of a burst.
UncorrectedScanDraws(c) == [trigger |-> c.part, cycle |-> c.whole]

\* actual_scan_prob_ as trigger out of cycle: R / (S * (1 - R) + R) when R is
\* between 0 and 1, and R itself otherwise.
ScanDraws(c) ==
    IF 0 < c.part /\ c.part < c.whole
    THEN [trigger |-> c.part, cycle |-> c.scan_length * (c.whole - c.part) + c.part]
    ELSE [trigger |-> c.part, cycle |-> c.whole]

GenInit ==
    /\ config \in Configs
    /\ draws = [scan |-> ScanDraws(config).trigger,
                op |-> ScanDraws(config).cycle - ScanDraws(config).trigger]
    /\ scan_remaining = 0 /\ scan_offset = 0 /\ ops_generated = 0
    /\ generated = <<>> /\ planned = <<>>

ScanKey(n) == [type |-> "GET", kind |-> "scan", key |-> n, value |-> 0]

\* next() in the middle of a burst: the keys come in descending order.
NextScan ==
    /\ scan_remaining > 0
    /\ ops_generated' = ops_generated + 1
    /\ scan_remaining' = scan_remaining - 1
    /\ generated' = Append(generated, ScanKey(scan_offset + scan_remaining - 1))
    /\ UNCHANGED <<config, draws, scan_offset, planned>>

Burst(offset) ==
    [n \in 1 .. config.scan_length |-> ScanKey(offset + config.scan_length - n)]

\* Faulty: the first key of a burst is not counted.
NextStartsScanOneMore(offset) ==
    /\ scan_remaining = 0
    /\ draws.scan > 0
    /\ draws' = [draws EXCEPT !.scan = @ - 1]
    /\ ops_generated' = ops_generated + 2
    /\ scan_remaining' = config.scan_length
    /\ scan_offset' = offset
    /\ generated' = Append(generated, ScanKey(offset + config.scan_length - 1))
    /\ planned' = planned \o Burst(offset)
    /\ UNCHANGED config

\* next() starts a burst and calls itself for the first key, so it counts twice.
NextStartsScan(offset) ==
    /\ scan_remaining = 0
    /\ draws.scan > 0
    /\ draws' = [draws EXCEPT !.scan = @ - 1]
    /\ ops_generated' = ops_generated + 2
    /\ scan_remaining' = config.scan_length - 1
    /\ scan_offset' = offset
    /\ generated' = Append(generated, ScanKey(offset + config.scan_length - 1))
    /\ planned' = planned \o Burst(offset)
    /\ UNCHANGED config

\* next() outside a burst: a read, or a write of a value named after the count.
NextOp(u, type) ==
    LET op == [type |-> type, kind |-> "key", key |-> NextIndex(u),
               value |-> IF type = "PUT" THEN ops_generated + 1 ELSE 0]
    IN /\ scan_remaining = 0
       /\ draws.op > 0
       /\ draws' = [draws EXCEPT !.op = @ - 1]
       /\ ops_generated' = ops_generated + 1
       /\ generated' = Append(generated, op)
       /\ planned' = Append(planned, op)
       /\ UNCHANGED <<config, scan_remaining, scan_offset>>

GenNext ==
    \/ NextScan
    \/ \E offset \in Offsets : NextStartsScan(offset)
    \/ \E u \in 0 .. One, type \in {"GET", "PUT"} : NextOp(u, type)

-----------------------------------------------------------------------------
(* Properties *)

\* Every draw of the Zipfian generator, 1.0 included, finds a key that exists,
\* although the rounded probabilities need not add up to 1: the engine's
\* backend is filled with the keys below num_keys only.
GeneratedKeysExist ==
    \A n \in DOMAIN generated : generated[n].kind = "key" => generated[n].key \in 0 .. NumKeys - 1

\* A burst is never cut short, run over or interleaved with other operations:
\* the output is the draws' operations one after the other, each burst with
\* every one of its scan_length consecutive keys once, of which the part still
\* to come is scan_remaining.  No two writes carry the same value.
BurstsAreWhole ==
    /\ IsPrefix(generated, planned)
    /\ Len(generated) + scan_remaining = Len(planned)
    /\ \A m, n \in DOMAIN generated :
          generated[m].type = "PUT" /\ generated[m].value = generated[n].value => m = n

Scans == {n \in DOMAIN generated : generated[n].kind = "scan"}

\* "scan_probability is the TARGET fraction of total ops that are scan ops"
\* (workload_generator.h): after a full cycle of draws it is the exact fraction,
\* for every burst length, because the constructor corrects the probability for
\* the length and next() emits the whole burst.
ScanShareIsTarget ==
    draws = [scan |-> 0, op |-> 0] /\ scan_remaining = 0 =>
        config.whole * Cardinality(Scans) = config.part * Len(generated)
=============================================================================
