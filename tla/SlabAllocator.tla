---------------------------- MODULE SlabAllocator ----------------------------
(***************************************************************************)
(* The lock-free slab of cache nodes (src/slab_allocator.cpp): a Treiber   *)
(* stack of free indices threaded through free_next_, whose head is one    *)
(* 64-bit word holding an index and a tag that every successful            *)
(* compare-exchange increments.  Each access to shared memory is a step of *)
(* its own, so that threads interleave between the load of head_, the      *)
(* plain read of free_next_ and the compare-exchange.                      *)
(*                                                                         *)
(* Memory is sequentially consistent here.  free_next_ is read without     *)
(* synchronisation while another thread may be writing the same word; the  *)
(* word is aligned and 32 bits wide, the reader depends on the value of    *)
(* head_ it has just loaded, so the read returns the old or the new value, *)
(* which is what the interleaving gives.                                   *)
(***************************************************************************)
EXTENDS Integers, Sequences, FiniteSets

CONSTANTS
    Threads,         \* callers of allocate and deallocate
    Capacity,        \* capacity_
    kInvalidIndex,   \* the end-of-list mark, not a slot (types.h)
    TagMod,          \* tags are counted modulo this (2^32 in the code)
    CountMod         \* free_count_ is counted modulo this (2^32 in the code)

Index == 0 .. Capacity - 1

ASSUME CapacityAssumption == Capacity \in Nat \ {0}
ASSUME InvalidAssumption == kInvalidIndex \notin Index
ASSUME TagAssumption == TagMod \in Nat /\ TagMod > 1
ASSUME CountAssumption == CountMod \in Nat /\ CountMod > Capacity
ASSUME ThreadsAssumption == IsFiniteSet(Threads)

VARIABLES
    head,        \* head_: [index, tag]
    free_next,   \* free_next_
    free_count,  \* free_count_
    pool,        \* pool_[i]: "reset" or "used"
    owned,       \* slots that callers hold between allocate and deallocate
    failures,    \* parity of the number of allocate() calls that returned kInvalidIndex
    pc,          \* where each thread is
    old,         \* old_packed of each thread
    nxt,         \* new_index of each thread in allocate
    arg,         \* the argument of each thread in deallocate
    stack        \* auxiliary: the free slots in list order, top first

vars == <<head, free_next, free_count, pool, owned, failures, pc, old, nxt, arg, stack>>

Link == Index \cup {kInvalidIndex}
Packed == [index : Link, tag : 0 .. TagMod - 1]

\* pack(index, tag + 1): a 32-bit tag wraps.
Bump(link, packed) == [index |-> link, tag |-> (packed.tag + 1) % TagMod]

Init ==
    /\ head = [index |-> 0, tag |-> 0]
    /\ free_next = [i \in Index |-> IF i = Capacity - 1 THEN kInvalidIndex ELSE i + 1]
    /\ free_count = Capacity
    /\ pool = [i \in Index |-> "reset"]
    /\ owned = {}
    /\ failures = 0
    /\ pc = [t \in Threads |-> "idle"]
    /\ old = [t \in Threads |-> [index |-> 0, tag |-> 0]]
    /\ nxt = [t \in Threads |-> kInvalidIndex]
    /\ arg = [t \in Threads |-> 0]
    /\ stack = [i \in 1 .. Capacity |-> i - 1]

Goto(t, label) == pc' = [pc EXCEPT ![t] = label]

(***************************************************************************)
(* The timing assumption under which a 32-bit tag is enough.  A thread     *)
(* whose allocate() holds a loaded head reads free_next_ and attempts its  *)
(* compare-exchange before head_ is updated TagMod times, so no update may *)
(* bring the tag back to the one it holds.  deallocate() needs no such     *)
(* assumption: the link it publishes does not depend on the old head's     *)
(* contents.                                                               *)
(***************************************************************************)
TagWindow(t, new) ==
    \A u \in Threads \ {t} :
        pc[u] \in {"alloc_read", "alloc_cas"} => old[u].tag # new.tag

-----------------------------------------------------------------------------
(* uint32_t allocate() *)

\* Faulty: gives up on any empty or changed list.
AllocSeesGivesUp(t) ==
    /\ old' = [old EXCEPT ![t] = head]
    /\ IF head.index = kInvalidIndex \/ pc[t] = "alloc_cas"
       THEN Goto(t, "idle") /\ failures' = 1 - failures
       ELSE Goto(t, "alloc_read") /\ UNCHANGED failures

\* What each pass of the loop starts with, after the first load as after a
\* failed compare-exchange: an empty list makes allocate return kInvalidIndex.
AllocSees(t) ==
    /\ old' = [old EXCEPT ![t] = head]
    /\ IF head.index = kInvalidIndex
       THEN Goto(t, "idle") /\ failures' = 1 - failures
       ELSE Goto(t, "alloc_read") /\ UNCHANGED failures

AllocLoad(t) ==
    /\ pc[t] = "idle"
    /\ AllocSees(t)
    /\ UNCHANGED <<head, free_next, free_count, pool, owned, nxt, arg, stack>>

AllocReadNext(t) ==
    /\ pc[t] = "alloc_read"
    /\ nxt' = [nxt EXCEPT ![t] = free_next[old[t].index]]
    /\ Goto(t, "alloc_cas")
    /\ UNCHANGED <<head, free_next, free_count, pool, owned, failures, old, arg, stack>>

\* Faulty: compares the index only, as if the word had no tag.
CasMatchesIndexOnly(t) == head.index = old[t].index

\* The condition under which the compare-exchange may succeed.
CasMatches(t) == head = old[t]

AllocCas(t) ==
    /\ pc[t] = "alloc_cas"
    /\ CasMatches(t)
    /\ head' = Bump(nxt[t], old[t])
    /\ TagWindow(t, head')
    /\ stack' = Tail(stack)
    /\ Goto(t, "alloc_reset")
    /\ UNCHANGED <<free_next, free_count, pool, owned, failures, old, nxt, arg>>

\* Faulty: the retry goes on with the head loaded before.
AllocRetryStale(t) ==
    /\ pc[t] = "alloc_cas"
    /\ head # old[t]
    /\ Goto(t, "alloc_read")
    /\ UNCHANGED <<head, free_next, free_count, pool, owned, failures, old, nxt, arg, stack>>

\* Faulty: the result of the compare-exchange is not looked at.
AllocRetryIgnored(t) ==
    /\ pc[t] = "alloc_cas"
    /\ Goto(t, "alloc_reset")
    /\ UNCHANGED <<head, free_next, free_count, pool, owned, failures, old, nxt, arg, stack>>

\* compare_exchange_weak may also fail when the head is unchanged.  On
\* failure it stores the head it saw in old_packed.
AllocRetry(t) ==
    /\ pc[t] = "alloc_cas"
    /\ AllocSees(t)
    /\ UNCHANGED <<head, free_next, free_count, pool, owned, nxt, arg, stack>>

AllocReset(t) ==
    /\ pc[t] = "alloc_reset"
    /\ pool' = [pool EXCEPT ![old[t].index] = "reset"]
    /\ Goto(t, "alloc_count")
    /\ UNCHANGED <<head, free_next, free_count, owned, failures, old, nxt, arg, stack>>

\* Faulty: returns without counting.
AllocUncounted(t) ==
    /\ pc[t] = "alloc_count"
    /\ owned' = owned \cup {old[t].index}
    /\ Goto(t, "idle")
    /\ UNCHANGED <<head, free_next, free_count, pool, failures, old, nxt, arg, stack>>

AllocCount(t) ==
    /\ pc[t] = "alloc_count"
    /\ free_count' = (free_count + CountMod - 1) % CountMod
    /\ owned' = owned \cup {old[t].index}
    /\ Goto(t, "idle")
    /\ UNCHANGED <<head, free_next, pool, failures, old, nxt, arg, stack>>

-----------------------------------------------------------------------------
(* void deallocate(uint32_t index): called once for a slot its caller owns *)

\* Faulty: the node is not reset.
DeallocWithoutReset(t, i) ==
    /\ pc[t] = "idle"
    /\ i \in owned
    /\ owned' = owned \ {i}
    /\ arg' = [arg EXCEPT ![t] = i]
    /\ Goto(t, "dealloc_load")
    /\ UNCHANGED <<head, free_next, free_count, pool, failures, old, nxt, stack>>

DeallocReset(t, i) ==
    /\ pc[t] = "idle"
    /\ i \in owned
    /\ owned' = owned \ {i}
    /\ arg' = [arg EXCEPT ![t] = i]
    /\ pool' = [pool EXCEPT ![i] = "reset"]
    /\ Goto(t, "dealloc_load")
    /\ UNCHANGED <<head, free_next, free_count, failures, old, nxt, stack>>

DeallocLoad(t) ==
    /\ pc[t] = "dealloc_load"
    /\ old' = [old EXCEPT ![t] = head]
    /\ Goto(t, "dealloc_link")
    /\ UNCHANGED <<head, free_next, free_count, pool, owned, failures, nxt, arg, stack>>

DeallocLink(t) ==
    /\ pc[t] = "dealloc_link"
    /\ free_next' = [free_next EXCEPT ![arg[t]] = old[t].index]
    /\ Goto(t, "dealloc_cas")
    /\ UNCHANGED <<head, free_count, pool, owned, failures, old, nxt, arg, stack>>

\* Faulty: the push leaves the tag alone.
DeallocCasSameTag(t) ==
    /\ pc[t] = "dealloc_cas"
    /\ CasMatches(t)
    /\ head' = [index |-> arg[t], tag |-> old[t].tag]
    /\ TagWindow(t, Bump(arg[t], old[t]))
    /\ stack' = <<arg[t]>> \o stack
    /\ Goto(t, "dealloc_count")
    /\ UNCHANGED <<free_next, free_count, pool, owned, failures, old, nxt, arg>>

DeallocCas(t) ==
    /\ pc[t] = "dealloc_cas"
    /\ CasMatches(t)
    /\ head' = Bump(arg[t], old[t])
    /\ TagWindow(t, head')
    /\ stack' = <<arg[t]>> \o stack
    /\ Goto(t, "dealloc_count")
    /\ UNCHANGED <<free_next, free_count, pool, owned, failures, old, nxt, arg>>

\* Faulty: a push that fails is not tried again.
DeallocRetryGivesUp(t) ==
    /\ pc[t] = "dealloc_cas"
    /\ Goto(t, "dealloc_count")
    /\ UNCHANGED <<head, free_next, free_count, pool, owned, failures, old, nxt, arg, stack>>

DeallocRetry(t) ==
    /\ pc[t] = "dealloc_cas"
    /\ old' = [old EXCEPT ![t] = head]
    /\ Goto(t, "dealloc_link")
    /\ UNCHANGED <<head, free_next, free_count, pool, owned, failures, nxt, arg, stack>>

DeallocCount(t) ==
    /\ pc[t] = "dealloc_count"
    /\ free_count' = (free_count + 1) % CountMod
    /\ Goto(t, "idle")
    /\ UNCHANGED <<head, free_next, pool, owned, failures, old, nxt, arg, stack>>

-----------------------------------------------------------------------------
\* A caller writes the node of a slot it owns, through node(index).
Use(i) ==
    /\ i \in owned
    /\ pool' = [pool EXCEPT ![i] = "used"]
    /\ UNCHANGED <<head, free_next, free_count, owned, failures, pc, old, nxt, arg, stack>>

\* The steps of a call that has begun.
Proceed(t) ==
    \/ AllocReadNext(t) \/ AllocCas(t) \/ AllocRetry(t) \/ AllocReset(t) \/ AllocCount(t)
    \/ DeallocLoad(t) \/ DeallocLink(t) \/ DeallocCas(t) \/ DeallocRetry(t) \/ DeallocCount(t)

Next ==
    \/ \E t \in Threads :
          AllocLoad(t) \/ Proceed(t) \/ \E i \in Index : DeallocReset(t, i)
    \/ \E i \in Index : Use(i)

Spec == Init /\ [][Next]_vars

(***************************************************************************)
(* Threads are scheduled by the operating system, so a call that has begun *)
(* goes on.  A compare-exchange that matches may fail spuriously, but not  *)
(* for ever everywhere: if matching attempts keep coming, some succeed.    *)
(* No single thread is promised success.                                   *)
(***************************************************************************)
Fairness ==
    /\ \A t \in Threads : WF_vars(Proceed(t))
    /\ SF_vars(\E t \in Threads : AllocCas(t) \/ DeallocCas(t))

FairSpec == Spec /\ Fairness

-----------------------------------------------------------------------------
(* Properties *)

Labels == {"idle", "alloc_read", "alloc_cas", "alloc_reset", "alloc_count",
           "dealloc_load", "dealloc_link", "dealloc_cas", "dealloc_count"}

\* Every variable of the allocator has its type.
TypeOK ==
    /\ head \in Packed
    /\ free_next \in [Index -> Link]
    /\ free_count \in 0 .. CountMod - 1
    /\ pool \in [Index -> {"reset", "used"}]
    /\ owned \subseteq Index
    /\ failures \in {0, 1}
    /\ pc \in [Threads -> Labels]
    /\ old \in [Threads -> Packed]
    /\ nxt \in [Threads -> Link]
    /\ arg \in [Threads -> Index]
    /\ stack \in Seq(Index)

Free == {stack[n] : n \in 1 .. Len(stack)}

Allocating(t) == pc[t] \in {"alloc_reset", "alloc_count"}

Deallocating(t) == pc[t] \in {"dealloc_load", "dealloc_link", "dealloc_cas"}

\* The slot a call in progress has popped, or has yet to push.
HeldBy(t) ==
    IF Allocating(t) THEN {old[t].index}
    ELSE IF Deallocating(t) THEN {arg[t]} ELSE {}

\* The list that starts at head_ and follows free_next_ is, slot by slot,
\* the stack of free slots, visits no slot twice and ends in kInvalidIndex.
ListIsStack ==
    /\ head.index = IF stack = <<>> THEN kInvalidIndex ELSE stack[1]
    /\ \A n \in 1 .. Len(stack) :
          free_next[stack[n]] = IF n = Len(stack) THEN kInvalidIndex ELSE stack[n + 1]
    /\ \A m, n \in 1 .. Len(stack) : stack[m] = stack[n] => m = n

\* No slot is in two hands: free, owned by a caller, being handed out by an
\* allocate() or being returned by a deallocate() exclude each other, and no
\* two calls in progress hold the same slot.
NoDoubleAllocation ==
    /\ owned \cap Free = {}
    /\ \A t \in Threads : HeldBy(t) \cap (owned \cup Free) = {}
    /\ \A t, u \in Threads : t # u => HeldBy(t) \cap HeldBy(u) = {}

\* No slot is lost: whatever the threads do, a slot is free, owned or held by
\* a call that is still in progress.
NoLeak ==
    \A i \in Index : i \in Free \/ i \in owned \/ \E t \in Threads : i \in HeldBy(t)

\* What makes the compare-exchange of allocate() safe although free_next_ was
\* read earlier: as long as head_ still carries the tag the thread loaded,
\* the whole head is the one it loaded and the link it read is still the
\* link of the top slot.
FreshNext ==
    \A t \in Threads :
        /\ pc[t] \in {"alloc_read", "alloc_cas"} =>
              /\ old[t].index # kInvalidIndex
              /\ old[t].tag = head.tag => old[t] = head
        /\ pc[t] = "alloc_cas" /\ old[t].tag = head.tag =>
              nxt[t] = free_next[head.index]

\* A call in progress holds a real slot, and a push that may still win its
\* compare-exchange has stored the head it will be compared with as the link
\* of its slot, after every retry too.
LinkReady ==
    \A t \in Threads :
        /\ Allocating(t) => old[t].index # kInvalidIndex
        /\ pc[t] = "dealloc_cas" => free_next[arg[t]] = old[t].index

\* A slot on the free list, or on its way to it, holds no trace of its last
\* use, whoever used it: deallocate() resets the node before it publishes it.
FreeNodesReset ==
    /\ \A i \in Free : pool[i] = "reset"
    /\ \A t \in Threads : Deallocating(t) => pool[arg[t]] = "reset"

\* free_count_ lags the list by exactly the calls between their
\* compare-exchange and their counter update.  It is a 32-bit counter: an
\* allocate() that takes a slot whose deallocate() has not counted it yet
\* makes available() wrap below zero until that deallocate() goes on.
CountAccounting ==
    LET Popped == {t \in Threads : Allocating(t)}
        Pushed == {t \in Threads : pc[t] = "dealloc_count"}
    IN free_count = (Len(stack) + Cardinality(Popped) - Cardinality(Pushed)) % CountMod

\* No thread spins for nothing: one that never again leaves its call is
\* overtaken by successful compare-exchanges for ever.
LockFree ==
    \A t \in Threads : []<>(pc[t] = "idle") \/ []<><<head' # head>>_head

Taken == owned \cup UNION {HeldBy(t) : t \in Threads}

Abstract == INSTANCE AbstractSlab WITH taken <- Taken

\* The allocator implements the abstract pool: a compare-exchange that
\* succeeds takes one slot nobody has or returns one slot its caller had, and
\* allocate() fails only at an instant when every slot is taken.
ImplementsAbstractSlab == Abstract!Spec

=============================================================================
