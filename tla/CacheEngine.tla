---------------------------- MODULE CacheEngine ----------------------------
(***************************************************************************)
(* The engine (src/cache_engine.cpp): get, put and remove of concurrent    *)
(* clients over L1, L2 and the backend, and the drainer that moves demoted *)
(* items from the queue into L2.  An operation holds a lock only while it  *)
(* is inside one layer, so each visit to a layer is a step and anything    *)
(* may happen between two visits.                                          *)
(*                                                                         *)
(* L1 is the forgetful map that CacheStripe implements (L1Cache), the      *)
(* queue is the bounded FIFO that DemotionQueue implements (BoundedFifo).  *)
(***************************************************************************)
EXTENDS Integers, SequencesExt

CONSTANTS
    Keys, Values, NoValue,
    NoKey, NoItem,
    Clients,
    L2Stripes,       \* kNumL2Stripes stripes
    L2Stripe,        \* get_l2_stripe_index: Keys -> L2Stripes
    L2Capacity,      \* l2_capacity_per_stripe_
    QueueThreshold,  \* items the demotion queue accepts
    BatchMax,        \* items the drainer pops at once
    MaxOps           \* bound of the model: operations begun in all

ASSUME EngineAssumption ==
    /\ L2Stripe \in [Keys -> L2Stripes]
    /\ L2Capacity \in Nat \ {0} /\ BatchMax \in Nat \ {0}
    /\ QueueThreshold \in Nat /\ MaxOps \in Nat
    /\ NoValue \notin Values /\ NoKey \notin Keys

VARIABLES
    l1, request, handed, returned,  \* L1, and its last operation: what it was asked, handed on, returned
    queue, io,              \* the demotion queue, and what its last operation moved
    batch,                  \* the drainer's batch, items not yet in L2
    l2,                     \* each L2 stripe: its items, most recently used first
    backend,                \* store_
    client,                 \* each client: where it is, its key and its local value
    answer,                 \* what the step completed: the key and value of a get
    ops,                    \* operations begun
    suspect                 \* auxiliary: keys that were demoted, or written while another client used them

l1Vars == <<l1, request, handed, returned>>
queueVars == <<queue, io>>
vars == <<l1Vars, queueVars, batch, l2, backend, client, answer, ops, suspect>>

L1 == INSTANCE L1Cache WITH map <- l1
Q == INSTANCE BoundedFifo WITH Items <- [key : Keys, value : Values], threshold <- QueueThreshold

Idle == [at |-> "idle", key |-> NoKey, value |-> NoValue]

NoAnswer == [key |-> NoKey, value |-> NoValue]

Init ==
    /\ L1!Init /\ Q!Init
    /\ batch = <<>>
    /\ l2 = [s \in L2Stripes |-> <<>>]
    /\ backend = [k \in Keys |-> NoValue]
    /\ client = [c \in Clients |-> Idle]
    /\ answer = NoAnswer
    /\ ops = 0
    /\ suspect = {}

-----------------------------------------------------------------------------
(* L2 *)

L2Has(k) == \E n \in DOMAIN l2[L2Stripe[k]] : l2[L2Stripe[k]][n].key = k

L2Pos(k) == CHOOSE n \in DOMAIN l2[L2Stripe[k]] : l2[L2Stripe[k]][n].key = k

L2Without(k) == RemoveAt(l2[L2Stripe[k]], L2Pos(k))

L2Erase(k) ==
    l2' = IF L2Has(k) THEN [l2 EXCEPT ![L2Stripe[k]] = L2Without(k)] ELSE l2

\* Faulty: makes room one item too late.
L2InsertLate(item) ==
    LET s == L2Stripe[item.key]
        rest == IF L2Has(item.key) THEN L2Without(item.key)
                ELSE IF Len(l2[s]) > L2Capacity THEN Front(l2[s])
                ELSE l2[s]
    IN l2' = [l2 EXCEPT ![s] = <<item>> \o rest]

\* One item of l2_put_batch: refresh it, or make room and insert it.
L2Insert(item) ==
    LET s == L2Stripe[item.key]
        rest == IF L2Has(item.key) THEN L2Without(item.key)
                ELSE IF Len(l2[s]) >= L2Capacity THEN Front(l2[s])
                ELSE l2[s]
    IN l2' = [l2 EXCEPT ![s] = <<item>> \o rest]

-----------------------------------------------------------------------------
(* What the steps of an operation have in common *)

At(c, label) == client[c].at = label

\* The operation goes on at the label with a value in hand.
Continue(c, label, k, v) ==
    /\ client' = [client EXCEPT ![c] = [at |-> label, key |-> k, value |-> v]]
    /\ answer' = NoAnswer

Return(c, a) ==
    /\ client' = [client EXCEPT ![c] = Idle]
    /\ answer' = a

Busy(k) == \E c \in Clients : client[c].key = k

ReadLabels == {"get_l2", "get_backend", "get_fill"}
WriteLabels == {"put_l1", "remove_l2", "remove_backend"}

Writing(k) == \E c \in Clients : client[c].key = k /\ client[c].at \in WriteLabels

\* The keys that become suspect in a step of an operation on k: the key L1
\* demotes, and k when two operations on it overlap of which one writes.
Suspect(demoted, overlap) == suspect' = suspect \cup demoted \cup overlap

ReadOverlap(k) == IF Writing(k) THEN {k} ELSE {}
WriteOverlap(k) == IF Busy(k) THEN {k} ELSE {}

Begin(c) == At(c, "idle") /\ ops < MaxOps /\ ops' = ops + 1

\* l1_.put: L1 stores, refuses or replaces, and a victim goes to the queue,
\* which takes it or drops it.
L1Put(k, v, overlap) ==
    /\ L1!Put(k, v)
    /\ IF handed' = NoItem
       THEN Suspect({}, overlap) /\ UNCHANGED queueVars
       ELSE Suspect({handed'.key}, overlap) /\ (Q!Accept(handed') \/ Q!Drop)

-----------------------------------------------------------------------------
(* get *)

GetL1(c, k) ==
    /\ Begin(c)
    /\ L1!Get(k)
    /\ IF l1[k] # NoValue
       THEN Return(c, [key |-> k, value |-> l1[k]])
       ELSE Continue(c, "get_l2", k, NoValue)
    /\ Suspect({}, ReadOverlap(k))
    /\ UNCHANGED <<queueVars, batch, l2, backend>>

\* l2_get: a hit takes the item out of L2.
GetL2(c) ==
    LET k == client[c].key
    IN /\ At(c, "get_l2")
       /\ L2Erase(k)
       /\ IF L2Has(k)
          THEN Continue(c, "get_fill", k, l2[L2Stripe[k]][L2Pos(k)].value)
          ELSE Continue(c, "get_backend", k, NoValue)
       /\ UNCHANGED <<l1Vars, queueVars, batch, backend, ops, suspect>>

GetBackend(c) ==
    LET k == client[c].key
    IN /\ At(c, "get_backend")
       /\ IF backend[k] # NoValue
          THEN Continue(c, "get_fill", k, backend[k])
          ELSE Return(c, [key |-> k, value |-> NoValue])
       /\ UNCHANGED <<l1Vars, queueVars, batch, l2, backend, ops, suspect>>

\* The value found below goes into L1 and is returned.
GetFill(c) ==
    LET k == client[c].key
        v == client[c].value
    IN /\ At(c, "get_fill")
       /\ L1Put(k, v, {})
       /\ Return(c, [key |-> k, value |-> v])
       /\ UNCHANGED <<batch, l2, backend, ops>>

-----------------------------------------------------------------------------
(* put *)

\* Faulty: the value is written to L1 only.
PutBackendSkipped(c, k, v) ==
    /\ Begin(c)
    /\ Continue(c, "put_l1", k, v)
    /\ Suspect({}, WriteOverlap(k))
    /\ UNCHANGED <<l1Vars, queueVars, batch, l2, backend>>

PutBackend(c, k, v) ==
    /\ Begin(c)
    /\ backend' = [backend EXCEPT ![k] = v]
    /\ Continue(c, "put_l1", k, v)
    /\ Suspect({}, WriteOverlap(k))
    /\ UNCHANGED <<l1Vars, queueVars, batch, l2>>

PutL1(c) ==
    /\ At(c, "put_l1")
    /\ L1Put(client[c].key, client[c].value, {})
    /\ Return(c, NoAnswer)
    /\ UNCHANGED <<batch, l2, backend, ops>>

-----------------------------------------------------------------------------
(* remove *)

\* Faulty: L1 keeps the key.
RemoveL1Skipped(c, k) ==
    /\ Begin(c)
    /\ Continue(c, "remove_l2", k, NoValue)
    /\ Suspect({}, WriteOverlap(k))
    /\ UNCHANGED <<l1Vars, queueVars, batch, l2, backend>>

RemoveL1(c, k) ==
    /\ Begin(c)
    /\ L1!Remove(k)
    /\ Continue(c, "remove_l2", k, NoValue)
    /\ Suspect({}, WriteOverlap(k))
    /\ UNCHANGED <<queueVars, batch, l2, backend>>

RemoveL2(c) ==
    /\ At(c, "remove_l2")
    /\ L2Erase(client[c].key)
    /\ Continue(c, "remove_backend", client[c].key, NoValue)
    /\ UNCHANGED <<l1Vars, queueVars, batch, backend, ops, suspect>>

RemoveBackend(c) ==
    /\ At(c, "remove_backend")
    /\ backend' = [backend EXCEPT ![client[c].key] = NoValue]
    /\ Return(c, NoAnswer)
    /\ UNCHANGED <<l1Vars, queueVars, batch, l2, ops, suspect>>

-----------------------------------------------------------------------------
(* The drainer: pop a batch, then put its items into L2 one lock at a time *)

DrainPop ==
    /\ batch = <<>> /\ queue # <<>>
    /\ Q!Take(IF Len(queue) < BatchMax THEN Len(queue) ELSE BatchMax)
    /\ batch' = io'.out
    /\ answer' = NoAnswer
    /\ UNCHANGED <<l1Vars, l2, backend, client, ops, suspect>>

DrainInsert ==
    /\ batch # <<>>
    /\ L2Insert(Head(batch))
    /\ batch' = Tail(batch)
    /\ answer' = NoAnswer
    /\ UNCHANGED <<l1Vars, queueVars, backend, client, ops, suspect>>

Step(c) ==
    \/ GetL2(c) \/ GetBackend(c) \/ GetFill(c) \/ PutL1(c) \/ RemoveL2(c) \/ RemoveBackend(c)

Next ==
    \/ \E c \in Clients :
          \/ Step(c)
          \/ \E k \in Keys :
                GetL1(c, k) \/ RemoveL1(c, k) \/ \E v \in Values : PutBackend(c, k, v)
    \/ DrainPop \/ DrainInsert

Spec == Init /\ [][Next]_vars

-----------------------------------------------------------------------------
(* Properties *)

MaybeValue == Values \cup {NoValue}
ItemSet == [key : Keys, value : Values]
Labels == {"idle"} \cup ReadLabels \cup WriteLabels

\* Every variable of the engine has its type.
TypeOK ==
    /\ l1 \in [Keys -> MaybeValue] /\ returned \in MaybeValue
    /\ request \in [key : Keys, value : MaybeValue] \cup {NoItem}
    /\ handed \in ItemSet \cup {NoItem}
    /\ queue \in Seq(ItemSet) /\ io \in [in : Seq(ItemSet), out : Seq(ItemSet)] /\ batch \in Seq(ItemSet)
    /\ l2 \in [L2Stripes -> Seq(ItemSet)]
    /\ backend \in [Keys -> MaybeValue]
    /\ client \in [Clients -> [at : Labels, key : Keys \cup {NoKey}, value : MaybeValue]]
    /\ answer \in [key : Keys \cup {NoKey}, value : MaybeValue]
    /\ ops \in 0 .. MaxOps
    /\ suspect \subseteq Keys

\* Each L2 stripe is an LRU list of distinct keys that hash to it, within its
\* capacity, whatever the order in which gets, removes and the drainer visit it.
L2WellFormed ==
    \A s \in L2Stripes :
        /\ Len(l2[s]) <= L2Capacity
        /\ \A n \in DOMAIN l2[s] : L2Stripe[l2[s][n].key] = s
        /\ \A m, n \in DOMAIN l2[s] : l2[s][m].key = l2[s][n].key => m = n

\* Where stale values come from: a key that was never demoted and never written
\* while another client used it is in no lower layer, and L1 has the backend's
\* value or none unless a put or remove of it is under way, however many
\* clients are reading it and filling L1.
CoherentUnlessSuspect ==
    \A k \in Keys \ suspect :
        /\ ~ L2Has(k)
        /\ ~ Writing(k) => l1[k] \in {NoValue, backend[k]}

\* A get of such a key returns what the backend has, also beside other gets.
UnsuspectReadsAreFresh ==
    [][answer' # NoAnswer /\ answer'.key \notin suspect' =>
          answer'.value = backend[answer'.key]]_vars

\* A put followed by a get of the same client returns the value put: with a
\* single client a get returns what the backend has.
GetReturnsLastPut ==
    [][answer' # NoAnswer => answer'.value = backend[answer'.key]]_vars

\* L1 and L2 are exclusive, as docs/architecture.md lists among the invariants:
\* no key has a copy in both.
LayersExclusive == \A k \in Keys : l1[k] = NoValue \/ ~ L2Has(k)

\* A removed key stays removed: with a single client a get never finds a value
\* for a key the backend does not have.
RemovedStaysRemoved ==
    [][answer' # NoAnswer /\ backend[answer'.key] = NoValue => answer'.value = NoValue]_vars
=============================================================================
