---------------------------- MODULE StripedCache ----------------------------
(***************************************************************************)
(* The L1 cache as a whole (src/striped_cache.cpp): stripes with a lock    *)
(* each, one slab for all of them, and a hash that routes every key to one *)
(* stripe.  A stripe is what CacheStripe implements: it holds at most      *)
(* per_stripe keys, and a put of a new key into a full stripe costs it one *)
(* key.  A put takes its slot from the slab before it gives one back, so   *)
(* every stripe may hold one slot too many for a moment; the slot is taken *)
(* in a step of its own, since the slab knows nothing of stripe locks.     *)
(***************************************************************************)
EXTENDS Integers, FiniteSets

CONSTANTS
    Keys, Values, NoValue, NoItem, NoKey,
    Threads,
    NumStripes,      \* kNumStripes (64 in the code)
    Capacities,      \* the values of config.total_capacity
    Route,           \* route: XXH64 of the key, modulo kNumStripes
    Batches          \* the sets of keys batch_get is called with

Stripes == 0 .. NumStripes - 1

ASSUME StripesAssumption == NumStripes \in Nat \ {0} /\ Capacities \subseteq Nat
ASSUME RouteAssumption == Route \in [Keys -> Stripes]
ASSUME BatchesAssumption == Batches \subseteq SUBSET Keys
ASSUME MarksAssumption == NoKey \notin Keys /\ NoValue \notin Values

VARIABLES
    total_capacity,  \* the configuration, chosen once
    map,          \* the keys of all stripes and their values
    slab_free,    \* free slots of the slab
    put,          \* each thread's put: the key and value it holds a slot for
    pending,      \* each thread's batch_get: the keys still to read
    request,      \* the key, and the value for a put, of the last operation
    handed,       \* the item the last operation handed to the demotion queue
    returned,     \* the value the last operation returned
    failed        \* whether the last put found no free slot

threadVars == <<put, pending>>
vars == <<total_capacity, map, slab_free, threadVars, request, handed, returned, failed>>

\* Faulty: the overshoot of the windows is not provided for.
SlabSizeTight == total_capacity

\* The slab the constructor makes, and the share of each stripe.
SlabSize == total_capacity + NumStripes
PerStripe == IF total_capacity \div NumStripes < 3 THEN 3 ELSE total_capacity \div NumStripes

NoPut == [key |-> NoKey, value |-> NoValue]

Init ==
    /\ total_capacity \in Capacities
    /\ map = [k \in Keys |-> NoValue]
    /\ slab_free = SlabSize
    /\ put = [t \in Threads |-> NoPut]
    /\ pending = [t \in Threads |-> {}]
    /\ request = NoItem /\ handed = NoItem /\ returned = NoValue /\ failed = FALSE

In(s) == {k \in Keys : Route[k] = s /\ map[k] # NoValue}

Idle(t) == put[t] = NoPut /\ pending[t] = {}

\* The mutex of k's stripe is held by a put between its two steps.
Locked(k) == \E t \in Threads : put[t] # NoPut /\ Route[put[t].key] = Route[k]

Item(k, v) == [key |-> k, value |-> v]

\* What an operation was asked, hands on, returns and reports.
Report(asked, item, value, no_slot) ==
    request' = asked /\ handed' = item /\ returned' = value /\ failed' = no_slot

-----------------------------------------------------------------------------
Get(t, k) ==
    /\ Idle(t) /\ ~ Locked(k)
    /\ Report(Item(k, NoValue), NoItem, map[k], FALSE)
    /\ UNCHANGED <<map, slab_free, threadVars>>

PutUpdate(t, k, v) ==
    /\ Idle(t) /\ ~ Locked(k)
    /\ map[k] # NoValue
    /\ map' = [map EXCEPT ![k] = v]
    /\ Report(Item(k, v), NoItem, NoValue, FALSE)
    /\ UNCHANGED <<slab_free, threadVars>>

\* The slab is exhausted: put returns false.
PutNoSlot(t, k, v) ==
    /\ Idle(t) /\ ~ Locked(k)
    /\ map[k] = NoValue
    /\ slab_free = 0
    /\ Report(Item(k, v), NoItem, NoValue, TRUE)
    /\ UNCHANGED <<map, slab_free, threadVars>>

\* The slot is taken, and the stripe stays locked.
PutAllocate(t, k, v) ==
    /\ Idle(t) /\ ~ Locked(k)
    /\ map[k] = NoValue
    /\ slab_free > 0
    /\ slab_free' = slab_free - 1
    /\ put' = [put EXCEPT ![t] = Item(k, v)]
    /\ UNCHANGED <<map, pending, request, handed, returned, failed>>

\* Faulty: the slot of the key that goes is not given back.
PutInsertLeaks(t) ==
    LET k == put[t].key
        v == put[t].value
    IN /\ put[t] # NoPut
       /\ put' = [put EXCEPT ![t] = NoPut]
       /\ IF Cardinality(In(Route[k])) < PerStripe
          THEN map' = [map EXCEPT ![k] = v] /\ Report(Item(k, v), NoItem, NoValue, FALSE)
          ELSE \E j \in In(Route[k]) :
                  /\ map' = [map EXCEPT ![k] = v, ![j] = NoValue]
                  /\ Report(Item(k, v), NoItem, NoValue, FALSE)
       /\ UNCHANGED <<slab_free, pending>>

\* Faulty: the key that goes is handed on with the new key's value.
PutInsertHandsNew(t) ==
    LET k == put[t].key
        v == put[t].value
    IN /\ put[t] # NoPut
       /\ put' = [put EXCEPT ![t] = NoPut]
       /\ IF Cardinality(In(Route[k])) < PerStripe
          THEN /\ map' = [map EXCEPT ![k] = v]
               /\ Report(Item(k, v), NoItem, NoValue, FALSE)
               /\ UNCHANGED slab_free
          ELSE \E j \in In(Route[k]) :
                  /\ map' = [map EXCEPT ![k] = v, ![j] = NoValue]
                  /\ Report(Item(k, v), Item(j, v), NoValue, FALSE)
                  /\ slab_free' = slab_free + 1
       /\ UNCHANGED pending

\* The key enters its stripe.  A full stripe gives up one key, another one or
\* the new one, and its slot; only a key that was in the main segments is
\* handed to the demotion queue, so a victim may go without being handed on.
PutInsert(t) ==
    LET k == put[t].key
        v == put[t].value
        after == [map EXCEPT ![k] = v]
    IN /\ put[t] # NoPut
       /\ put' = [put EXCEPT ![t] = NoPut]
       /\ IF Cardinality(In(Route[k])) < PerStripe
          THEN /\ map' = after
               /\ Report(Item(k, v), NoItem, NoValue, FALSE)
               /\ UNCHANGED slab_free
          ELSE \E j \in In(Route[k]) \cup {k} :
                  /\ map' = [after EXCEPT ![j] = NoValue]
                  /\ \/ Report(Item(k, v), NoItem, NoValue, FALSE)
                     \/ j # k /\ Report(Item(k, v), Item(j, map[j]), NoValue, FALSE)
                  /\ slab_free' = slab_free + 1
       /\ UNCHANGED pending

Remove(t, k) ==
    /\ Idle(t) /\ ~ Locked(k)
    /\ map[k] # NoValue
    /\ map' = [map EXCEPT ![k] = NoValue]
    /\ slab_free' = slab_free + 1
    /\ Report(Item(k, NoValue), NoItem, NoValue, FALSE)
    /\ UNCHANGED threadVars

-----------------------------------------------------------------------------
(* batch_get: the keys are grouped by stripe, then read one get at a time *)

BatchBegin(t, batch) ==
    /\ Idle(t)
    /\ pending' = [pending EXCEPT ![t] = batch]
    /\ UNCHANGED <<map, slab_free, put, request, handed, returned, failed>>

\* The next key of the first stripe that has one: its get locks the stripe
\* and unlocks it again.  The last one completes the batch.
BatchGet(t, k) ==
    /\ k \in pending[t]
    /\ \A j \in pending[t] : Route[k] <= Route[j]
    /\ ~ Locked(k)
    /\ pending' = [pending EXCEPT ![t] = @ \ {k}]
    /\ Report(Item(k, NoValue), NoItem, map[k], FALSE)
    /\ UNCHANGED <<map, slab_free, put>>

Step(t) ==
    \/ PutInsert(t)
    \/ \E k \in Keys :
          \/ Get(t, k) \/ Remove(t, k) \/ BatchGet(t, k)
          \/ \E v \in Values :
                PutUpdate(t, k, v) \/ PutNoSlot(t, k, v) \/ PutAllocate(t, k, v)
    \/ \E batch \in Batches : BatchBegin(t, batch)

Next == (\E t \in Threads : Step(t)) /\ UNCHANGED total_capacity

Spec == Init /\ [][Next]_vars

-----------------------------------------------------------------------------
(* Properties *)

Cached == {k \in Keys : map[k] # NoValue}

Holding == {t \in Threads : put[t] # NoPut}

\* The slots of the shared slab are accounted for across all stripes: every one
\* is free, holds a cached key or is in the hands of a put under way.
SlotsAccounted == slab_free + Cardinality(Cached) + Cardinality(Holding) = SlabSize

\* The slab's headroom of one slot per stripe is enough: when the stripes'
\* shares fit into the total capacity no put fails for want of a slot, even if
\* every stripe is full and has a put under way at once.  The shares do not fit
\* when the constructor has raised them to 3.
HeadroomSuffices == NumStripes * PerStripe <= total_capacity => ~ failed

L1 == INSTANCE L1Cache

\* Stripes, shared slab and batch_get together are still the forgetful map that
\* a single stripe is, which is what the engine relies on.
ImplementsL1Cache == L1!Spec
=============================================================================
