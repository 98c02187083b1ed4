------------------------------- MODULE Sketch -------------------------------
(***************************************************************************)
(* The frequency sketch of a stripe (src/count_min_sketch.cpp): depth rows *)
(* of width counters.  These are the operations on a table of counters;    *)
(* CountMinSketch puts them in motion and CacheStripe keeps such a table   *)
(* as the state of its own sketch.                                         *)
(***************************************************************************)
EXTENDS Integers, FiniteSetsExt

CONSTANTS
    Keys,
    Rows,        \* 0 .. depth_ - 1
    Cols,        \* 0 .. width_ - 1
    Hash,        \* Hash[k][r]: XXH32 of the key with the row's seed, modulo width_
    CounterMod   \* counters wrap modulo this (2^32 in the code)

ASSUME ShapeAssumption == Rows # {} /\ Cols # {}
ASSUME HashAssumption == Hash \in [Keys -> [Rows -> Cols]]
ASSUME CounterAssumption == CounterMod \in Nat \ {0}

Table == [Rows -> [Cols -> 0 .. CounterMod - 1]]

ZeroTable == [r \in Rows |-> [c \in Cols |-> 0]]

\* Faulty: only the first row is updated.
IncrementOneRow(table, k) ==
    [r \in Rows |-> [c \in Cols |->
        IF c = Hash[k][r] /\ r = CHOOSE q \in Rows : TRUE
        THEN (table[r][c] + 1) % CounterMod ELSE table[r][c]]]

Increment(table, k) ==
    [r \in Rows |-> [c \in Cols |->
        IF c = Hash[k][r] THEN (table[r][c] + 1) % CounterMod ELSE table[r][c]]]

\* Faulty: takes the largest of the key's counters.
EstimateLargest(table, k) == Max({table[r][Hash[k][r]] : r \in Rows})

Estimate(table, k) == Min({table[r][Hash[k][r]] : r \in Rows})

Decay(table) == [r \in Rows |-> [c \in Cols |-> table[r][c] \div 2]]
=============================================================================
