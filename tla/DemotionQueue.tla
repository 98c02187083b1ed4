--------------------------- MODULE DemotionQueue ---------------------------
(***************************************************************************)
(* The queue between L1 and the drainer (src/demotion_queue.cpp): a ring   *)
(* buffer under one mutex, so every operation is one step.  The positions  *)
(* are 64-bit counters that only grow and wrap; the index into the buffer  *)
(* is their remainder modulo the capacity, which the constructor rounds up *)
(* to a power of two.                                                      *)
(***************************************************************************)
EXTENDS Integers, Sequences

CONSTANTS
    Items,
    NoItem,      \* what an empty or moved-from cell holds
    Width,       \* bits of the capacity's type (32 in the code)
    PosMod,      \* positions wrap modulo this (2^64 in the code)
    BatchMax     \* max_count of try_pop_batch

\* 2^n, as a function so that it can be reasoned about.
Pow2[n \in 0 .. Width] == IF n = 0 THEN 1 ELSE 2 * Pow2[n - 1]

\* The shifts of the rounding reach the bits of words of up to 32 bits.
ASSUME RingAssumption ==
    /\ Width \in 1 .. 32 /\ PosMod \in Nat \ {0} /\ BatchMax \in Nat \ {0}
    /\ PosMod % Pow2[Width] = 0

VARIABLES
    requested,   \* the size the queue was asked for
    capacity,    \* capacity_
    buffer, write_pos, read_pos,
    drops,       \* drops_, a 64-bit counter like the positions
    io           \* what the last operation put in and what it took out

ring == <<requested, capacity>>
vars == <<ring, buffer, write_pos, read_pos, drops, io>>

IO(in, out) == [in |-> in, out |-> out]

-----------------------------------------------------------------------------
(* The rounding of the size, on words as sets of the positions of their ones *)

Word == 0 .. Pow2[Width] - 1

Ones(v) == {b \in 0 .. Width - 1 : (v \div Pow2[b]) % 2 = 1}

Value(ones) ==
    LET below[n \in 0 .. Width] ==
            IF n = 0 THEN 0 ELSE below[n - 1] + (IF n - 1 \in ones THEN Pow2[n - 1] ELSE 0)
    IN below[Width]

\* v |= v >> n
OrShifted(ones, n) == ones \cup {b - n : b \in {c \in ones : c >= n}}

\* Every bit below the highest one is set.
Smear(ones) == OrShifted(OrShifted(OrShifted(OrShifted(OrShifted(ones, 1), 2), 4), 8), 16)

\* Faulty: the word is smeared without the decrement.
NextPowerOf2TooLate(v) == IF v = 0 THEN 1 ELSE (Value(Smear(Ones(v))) + 1) % Pow2[Width]

NextPowerOf2(v) == IF v = 0 THEN 1 ELSE (Value(Smear(Ones(v - 1))) + 1) % Pow2[Width]

-----------------------------------------------------------------------------
Cell(pos) == pos % capacity

\* Faulty: the positions are compared as if they never wrapped.
UnlockedSizeNoWrap == IF write_pos >= read_pos THEN write_pos - read_pos ELSE 0

\* write_pos_ - read_pos_ in unsigned arithmetic.
UnlockedSize == (write_pos - read_pos) % PosMod

\* static_cast<uint64_t>(capacity_ * pressure_threshold_): 0.80f as 80 hundredths,
\* which rounds alike for capacities below 2^24.
Threshold == (capacity * 80) \div 100

Init ==
    /\ requested \in Word
    /\ capacity = NextPowerOf2(requested)
    /\ buffer = [c \in 0 .. capacity - 1 |-> NoItem]
    /\ write_pos = 0 /\ read_pos = 0 /\ drops = 0
    /\ io = IO(<<>>, <<>>)

TryPush(item) ==
    /\ UnlockedSize < Threshold
    /\ UnlockedSize < capacity
    /\ buffer' = [buffer EXCEPT ![Cell(write_pos)] = item]
    /\ write_pos' = (write_pos + 1) % PosMod
    /\ io' = IO(<<item>>, <<>>)
    /\ UNCHANGED <<ring, read_pos, drops>>

\* The item is dropped under pressure (and would be when the ring is full).
TryPushDropped ==
    /\ UnlockedSize >= Threshold \/ UnlockedSize >= capacity
    /\ drops' = (drops + 1) % PosMod
    /\ io' = IO(<<>>, <<>>)
    /\ UNCHANGED <<ring, buffer, write_pos, read_pos>>

\* n items are moved out of the buffer, leaving their cells empty.
Pop(n) ==
    /\ io' = IO(<<>>, [m \in 1 .. n |-> buffer[Cell(read_pos + m - 1)]])
    /\ buffer' = [c \in DOMAIN buffer |->
                    IF \E m \in 1 .. n : c = Cell(read_pos + m - 1) THEN NoItem ELSE buffer[c]]
    /\ read_pos' = (read_pos + n) % PosMod
    /\ UNCHANGED <<ring, write_pos, drops>>

TryPop == Pop(IF read_pos = write_pos THEN 0 ELSE 1)

TryPopBatch == Pop(IF UnlockedSize < BatchMax THEN UnlockedSize ELSE BatchMax)

Next == (\E item \in Items : TryPush(item)) \/ TryPushDropped \/ TryPop \/ TryPopBatch

Spec == Init /\ [][Next]_vars

-----------------------------------------------------------------------------
\* Every variable of the ring has its type, and a pop never yields an empty cell.
TypeOK ==
    /\ requested \in Word /\ capacity \in Word
    /\ buffer \in [0 .. capacity - 1 -> Items \cup {NoItem}]
    /\ write_pos \in 0 .. PosMod - 1 /\ read_pos \in 0 .. PosMod - 1
    /\ drops \in 0 .. PosMod - 1
    /\ io \in [in : Seq(Items), out : Seq(Items)]

\* The constructor's rounding: the ring has the smallest power of two that is
\* not below the size asked for, as long as that fits the type, and no cell at
\* all otherwise; and it is under pressure from the start, so that every item
\* is dropped, exactly for the sizes 0 and 1 and the ones that do not fit.
CapacityRounded ==
    /\ IF requested <= Pow2[Width - 1]
       THEN /\ \E n \in 0 .. Width - 1 : capacity = Pow2[n]
            /\ requested <= capacity
            /\ capacity > 1 => capacity < 2 * requested
       ELSE capacity = 0
    /\ Threshold = 0 <=> requested \notin 2 .. Pow2[Width - 1]

Waiting == [m \in 1 .. UnlockedSize |-> buffer[Cell(read_pos + m - 1)]]

Fifo == INSTANCE BoundedFifo WITH queue <- Waiting, threshold <- Threshold

\* The ring is a first-in first-out queue that drops at the pressure threshold,
\* for every size it can be asked for and also when the positions wrap.
ImplementsFifo == Fifo!Spec
=============================================================================
