---------------------------- MODULE AbstractSlab ----------------------------
(***************************************************************************)
(* What SlabAllocator promises its callers (include/slab_allocator.h): a   *)
(* fixed pool of slots, each of which is free or taken by one caller.      *)
(* allocate() takes one free slot, deallocate() gives one back, and        *)
(* allocate() reports exhaustion (kInvalidIndex) only when every slot is   *)
(* taken.  The order in which slots are reused is not promised.            *)
(***************************************************************************)
EXTENDS Integers

CONSTANT Index

VARIABLES
    taken,      \* the slots that are not available to allocate()
    failures    \* parity of the number of allocate() calls that found no slot

vars == <<taken, failures>>

Init == taken = {} /\ failures = 0

Allocate(i) ==
    /\ i \notin taken
    /\ taken' = taken \cup {i}
    /\ UNCHANGED failures

Exhausted ==
    /\ taken = Index
    /\ failures' = 1 - failures
    /\ UNCHANGED taken

Deallocate(i) ==
    /\ i \in taken
    /\ taken' = taken \ {i}
    /\ UNCHANGED failures

Next == Exhausted \/ \E i \in Index : Allocate(i) \/ Deallocate(i)

Spec == Init /\ [][Next]_vars
=============================================================================
