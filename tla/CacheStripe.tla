---------------------------- MODULE CacheStripe ----------------------------
(***************************************************************************)
(* One shard of the L1 cache (src/cache_stripe.cpp): a window LRU in front *)
(* of a segmented main LRU, with an admission gate between them that       *)
(* compares frequency estimates.  Every operation holds the stripe's mutex *)
(* from its first to its last access to this state, so each is one step.   *)
(* The lists are sequences of slab slots, front first.  The slab is the    *)
(* set of its free slots (AbstractSlab): allocate() returns any free slot  *)
(* and fails only when there is none.  Other stripes take slots from the   *)
(* same slab and give them back at any time.                               *)
(***************************************************************************)
EXTENDS Sketch, SequencesExt

CONSTANTS
    Values,
    Writes,         \* bound of the model: the pairs of a key and a value that put is called with
    Slots,          \* the slab's slots
    NoSlot,         \* kInvalidIndex, or no entry in index_map_
    NoKey, NoValue, \* the cleared fields of a node
    NoItem,         \* nothing handed to the demotion queue
    Capacities,     \* the total capacities a stripe may be built with
    WindowPct,      \* window_pct and probation_pct, in percent
    ProbationPct,
    DecayInterval,  \* decay_interval_ (5 * capacity in the code)
    MaxOthers,      \* bound of the model: slots other stripes hold at once
    MaxFreq         \* bound of the model: no counter of the sketch grows beyond this

ASSUME CapacityAssumption == \A c \in Capacities : c \in Nat /\ c >= 3
ASSUME WritesAssumption == Writes \subseteq Keys \X Values
ASSUME PctAssumption == WindowPct \in 0 .. 100 /\ ProbationPct \in 0 .. 100
ASSUME BoundAssumption == MaxOthers \in Nat /\ MaxFreq \in Nat
ASSUME DecayAssumption == DecayInterval \in Nat \ {0}
ASSUME DistinctAssumption == NoSlot \notin Slots /\ NoKey \notin Keys /\ NoValue \notin Values

VARIABLES
    total_capacity, \* total_capacity_
    index_map,      \* index_map_: Keys -> Slots \cup {NoSlot}
    node,           \* the slab's nodes: key, value, segment
    free,           \* the slab's free slots
    others,         \* the slots that other stripes hold
    window, probation, protected,
    counters,       \* cms_
    ops_since_decay,
    demotion_queue, \* whether a demotion queue is attached
    out             \* what the last step returned, counted and handed on

lists == <<window, probation, protected>>
vars == <<total_capacity, index_map, node, free, others, lists, counters, ops_since_decay, demotion_queue, out>>

\* The constructor's split of the capacity.
WindowCapacity ==
    LET w == Max({3, (total_capacity * WindowPct) \div 100})
    IN IF w >= total_capacity - 2 THEN total_capacity \div 4 ELSE w
MainCapacity == total_capacity - WindowCapacity
ProbationCapacity == Max({1, (MainCapacity * ProbationPct) \div 100})
ProtectedCapacity == MainCapacity - ProbationCapacity

\* What promote_to_protected lets the protected segment hold: it makes room
\* before it links, so one slot even when protected_capacity_ is 0.
ProtectedMost == Max({1, ProtectedCapacity})

Segments == {"Free", "Window", "Probation", "Protected"}

ResetNode == [key |-> NoKey, value |-> NoValue, segment |-> "Free"]

\* What an operation with this request returns, demotes and counts, unless it
\* says otherwise: nothing.
Quiet(request) ==
    [request |-> request, ret |-> NoValue, demoted |-> NoItem,
     hits |-> 0, misses |-> 0, evictions |-> 0, admissions |-> 0, rejections |-> 0]

Item(k, v) == [key |-> k, value |-> v]

Init ==
    /\ total_capacity \in Capacities
    /\ index_map = [k \in Keys |-> NoSlot]
    /\ node = [i \in Slots |-> ResetNode]
    /\ free = Slots /\ others = {}
    /\ window = <<>> /\ probation = <<>> /\ protected = <<>>
    /\ counters = ZeroTable
    /\ ops_since_decay = 0
    /\ demotion_queue = FALSE
    /\ out = Quiet(NoItem)

Cached(k) == index_map[k] # NoSlot

\* IntrusiveLRU::remove.
Unlink(list, i) == RemoveAt(list, CHOOSE n \in DOMAIN list : list[n] = i)

MoveToFront(list, i) == <<i>> \o Unlink(list, i)

-----------------------------------------------------------------------------
(* Touching a cached node: what get and put do to the lists on a hit *)

TouchWindow(i) ==
    /\ node[i].segment = "Window"
    /\ window' = MoveToFront(window, i)
    /\ UNCHANGED <<probation, protected>>

TouchProtected(i) ==
    /\ node[i].segment = "Protected"
    /\ protected' = MoveToFront(protected, i)
    /\ UNCHANGED <<window, probation>>

\* Faulty: the protected segment is never full.
PromoteUnbounded(i, with) ==
    /\ node[i].segment = "Probation"
    /\ protected' = <<i>> \o protected
    /\ probation' = Unlink(probation, i)
    /\ node' = [with EXCEPT ![i].segment = "Protected"]
    /\ UNCHANGED window

\* Faulty: the slot given back keeps its old segment mark.
PromoteKeepsMark(i, with) ==
    /\ node[i].segment = "Probation"
    /\ IF Len(protected) >= ProtectedCapacity /\ protected # <<>>
       THEN /\ protected' = <<i>> \o Front(protected)
            /\ probation' = <<Last(protected)>> \o Unlink(probation, i)
       ELSE /\ protected' = <<i>> \o protected
            /\ probation' = Unlink(probation, i)
    /\ node' = [with EXCEPT ![i].segment = "Protected"]
    /\ UNCHANGED window

\* promote_to_protected.  A full protected segment gives its least recently
\* used slot back to probation; with(...) is the nodes after the operation's
\* own change to node i.
Promote(i, with) ==
    /\ node[i].segment = "Probation"
    /\ IF Len(protected) >= ProtectedCapacity /\ protected # <<>>
       THEN /\ protected' = <<i>> \o Front(protected)
            /\ probation' = <<Last(protected)>> \o Unlink(probation, i)
            /\ node' = [with EXCEPT ![i].segment = "Protected",
                                    ![Last(protected)].segment = "Probation"]
       ELSE /\ protected' = <<i>> \o protected
            /\ probation' = Unlink(probation, i)
            /\ node' = [with EXCEPT ![i].segment = "Protected"]
    /\ UNCHANGED window

\* Node i becomes with[i] and moves as a hit moves it.
Touch(i, with) ==
    \/ TouchWindow(i) /\ node' = with
    \/ TouchProtected(i) /\ node' = with
    \/ Promote(i, with)

-----------------------------------------------------------------------------
\* The sketch can count k once more within the bound of the model.
Countable(k) == \A r \in Rows : counters[r][Hash[k][r]] < MaxFreq

GetMiss(k) ==
    /\ ~ Cached(k)
    /\ out' = [Quiet(Item(k, NoValue)) EXCEPT !.misses = 1]
    /\ UNCHANGED <<index_map, node, free, lists, counters, ops_since_decay, demotion_queue, others>>

GetHit(k) ==
    /\ Cached(k)
    /\ Countable(k)
    /\ counters' = Increment(counters, k)
    /\ Touch(index_map[k], node)
    /\ out' = [Quiet(Item(k, NoValue)) EXCEPT !.ret = node[index_map[k]].value, !.hits = 1]
    /\ UNCHANGED <<index_map, free, ops_since_decay, demotion_queue, others>>

\* The sketch after the increment of put and maybe_decay_cms.
CountPut(k) ==
    /\ Countable(k)
    /\ IF ops_since_decay + 1 >= DecayInterval
       THEN counters' = Decay(Increment(counters, k)) /\ ops_since_decay' = 0
       ELSE counters' = Increment(counters, k) /\ ops_since_decay' = ops_since_decay + 1

\* Faulty: the value is left as it was.
PutUpdateListsOnly(k, v) ==
    /\ Cached(k)
    /\ CountPut(k)
    /\ Touch(index_map[k], node)
    /\ out' = Quiet(Item(k, v))
    /\ UNCHANGED <<index_map, free, demotion_queue, others>>

\* put of a cached key replaces its value and counts as a hit for the lists.
PutUpdate(k, v) ==
    /\ Cached(k)
    /\ CountPut(k)
    /\ Touch(index_map[k], [node EXCEPT ![index_map[k]].value = v])
    /\ out' = Quiet(Item(k, v))
    /\ UNCHANGED <<index_map, free, demotion_queue, others>>

\* put without a free slot gives up, after the sketch has counted the key.
PutNoSlot(k, v) ==
    /\ ~ Cached(k)
    /\ free = {}
    /\ CountPut(k)
    /\ out' = Quiet(Item(k, v))
    /\ UNCHANGED <<index_map, node, free, lists, demotion_queue, others>>

-----------------------------------------------------------------------------
(* put of a new key that gets slot i: insert_into_window, and when the     *)
(* window overflows try_admit_from_window for its least recently used      *)
(* slot.  The loop of insert_into_window runs at most once, because the    *)
(* window is within its capacity before every put (WithinCapacity).        *)

Inserted(k, v, i) ==
    [node EXCEPT ![i] = [key |-> k, value |-> v, segment |-> "Window"]]

Overfull(i) == Len(<<i>> \o window) > WindowCapacity

Candidate(i) == Last(<<i>> \o window)

MainSize == Len(probation) + Len(protected)

\* Faulty: one slot of the main segments is never used.
MainFullEarly == MainSize + 1 >= MainCapacity

MainFull == MainSize >= MainCapacity

\* Faulty: the entry of the key that goes stays in the index.
ReindexedKeepsEntry(k, i, gone) == [index_map EXCEPT ![k] = i]

\* The index once k has slot i and the key that is displaced is erased.
Reindexed(k, i, gone) == [[index_map EXCEPT ![k] = i] EXCEPT ![gone] = NoSlot]

Fresh(k, i) == ~ Cached(k) /\ i \in free /\ CountPut(k) /\ UNCHANGED <<demotion_queue, others>>

PutIntoWindow(k, v, i) ==
    /\ Fresh(k, i)
    /\ ~ Overfull(i)
    /\ window' = <<i>> \o window
    /\ index_map' = [index_map EXCEPT ![k] = i]
    /\ node' = Inserted(k, v, i)
    /\ free' = free \ {i}
    /\ out' = Quiet(Item(k, v))
    /\ UNCHANGED <<probation, protected>>

\* Room in the main segments: the candidate enters probation unopposed.
PutAdmitFree(k, v, i) ==
    /\ Fresh(k, i)
    /\ Overfull(i)
    /\ ~ MainFull
    /\ window' = Front(<<i>> \o window)
    /\ probation' = <<Candidate(i)>> \o probation
    /\ index_map' = [index_map EXCEPT ![k] = i]
    /\ node' = [Inserted(k, v, i) EXCEPT ![Candidate(i)].segment = "Probation"]
    /\ free' = free \ {i}
    /\ out' = [Quiet(Item(k, v)) EXCEPT !.admissions = 1]
    /\ UNCHANGED protected

\* Faulty: a tie admits the candidate.
BeatsOrTies(candidate, victim, nodes) ==
    Estimate(counters', nodes[candidate].key) >= Estimate(counters', nodes[victim].key)

\* The gate: the candidate's estimate against the estimate of probation's
\* least recently used slot, both after this put was counted.
Beats(candidate, victim, nodes) ==
    Estimate(counters', nodes[candidate].key) > Estimate(counters', nodes[victim].key)

\* What demote_victim hands on and the gate counts when the victim goes.
Demotion(k, v, victim) ==
    [Quiet(Item(k, v)) EXCEPT
        !.demoted = IF demotion_queue
                    THEN [key |-> victim.key, value |-> victim.value,
                          frequency |-> Estimate(counters', victim.key)]
                    ELSE NoItem,
        !.admissions = 1, !.evictions = 1]

\* The candidate wins: the victim leaves for the demotion queue, if there is
\* one, with its frequency (demote_victim).
PutAdmitEvict(k, v, i) ==
    LET candidate == Candidate(i)
        victim == Last(probation)
        nodes == Inserted(k, v, i)
    IN /\ Fresh(k, i)
       /\ Overfull(i)
       /\ MainFull
       /\ probation # <<>>
       /\ Beats(candidate, victim, nodes)
       /\ window' = Front(<<i>> \o window)
       /\ probation' = <<candidate>> \o Front(probation)
       /\ index_map' = Reindexed(k, i, nodes[victim].key)
       /\ node' = [nodes EXCEPT ![candidate].segment = "Probation", ![victim] = ResetNode]
       /\ free' = (free \ {i}) \cup {victim}
       /\ out' = Demotion(k, v, nodes[victim])
       /\ UNCHANGED protected

\* The candidate loses, or there is no victim to compare it with: it is
\* dropped without a trace.
PutReject(k, v, i) ==
    LET candidate == Candidate(i)
        nodes == Inserted(k, v, i)
    IN /\ Fresh(k, i)
       /\ Overfull(i)
       /\ MainFull
       /\ probation = <<>> \/ ~ Beats(candidate, Last(probation), nodes)
       /\ window' = Front(<<i>> \o window)
       /\ index_map' = Reindexed(k, i, nodes[candidate].key)
       /\ node' = [nodes EXCEPT ![candidate] = ResetNode]
       /\ free' = (free \ {i}) \cup {candidate}
       /\ out' = [Quiet(Item(k, v)) EXCEPT !.rejections = 1]
       /\ UNCHANGED <<probation, protected>>

-----------------------------------------------------------------------------
RemoveKey(k) ==
    LET i == index_map[k]
    IN /\ Cached(k)
       /\ window' = IF node[i].segment = "Window" THEN Unlink(window, i) ELSE window
       /\ probation' = IF node[i].segment = "Probation" THEN Unlink(probation, i) ELSE probation
       /\ protected' = IF node[i].segment = "Protected" THEN Unlink(protected, i) ELSE protected
       /\ index_map' = [index_map EXCEPT ![k] = NoSlot]
       /\ node' = [node EXCEPT ![i] = ResetNode]
       /\ free' = free \cup {i}
       /\ out' = Quiet(Item(k, NoValue))
       /\ UNCHANGED <<counters, ops_since_decay, demotion_queue, others>>

\* The engine attaches the queue when it starts and detaches it when it stops.
SetDemotionQueue ==
    /\ demotion_queue' = ~ demotion_queue
    /\ out' = Quiet(NoItem)
    /\ UNCHANGED <<index_map, node, free, others, lists, counters, ops_since_decay>>

\* Another stripe allocates a slot of the shared slab, or gives one back.  What
\* it keeps in the node meanwhile is not modelled: no stripe looks at the nodes
\* of another.
OthersAllocate(i) ==
    /\ i \in free
    /\ Cardinality(others) < MaxOthers
    /\ free' = free \ {i}
    /\ others' = others \cup {i}
    /\ out' = Quiet(NoItem)
    /\ UNCHANGED <<index_map, node, lists, counters, ops_since_decay, demotion_queue>>

OthersDeallocate(i) ==
    /\ i \in others
    /\ free' = free \cup {i}
    /\ others' = others \ {i}
    /\ out' = Quiet(NoItem)
    /\ UNCHANGED <<index_map, node, lists, counters, ops_since_decay, demotion_queue>>

PutNew(k, v, i) ==
    \/ PutIntoWindow(k, v, i) \/ PutAdmitFree(k, v, i)
    \/ PutAdmitEvict(k, v, i) \/ PutReject(k, v, i)

Put(k, v) == PutUpdate(k, v) \/ PutNoSlot(k, v) \/ \E i \in Slots : PutNew(k, v, i)

\* The capacity is fixed when the stripe is built.
Next ==
    /\ UNCHANGED total_capacity
    /\ \/ \E k \in Keys : GetMiss(k) \/ GetHit(k) \/ RemoveKey(k)
       \/ \E w \in Writes : Put(w[1], w[2])
       \/ SetDemotionQueue
       \/ \E i \in Slots : OthersAllocate(i) \/ OthersDeallocate(i)

Spec == Init /\ [][Next]_vars

-----------------------------------------------------------------------------
(* Properties *)

\* Every variable of the stripe has its type.
TypeOK ==
    /\ total_capacity \in Capacities
    /\ index_map \in [Keys -> Slots \cup {NoSlot}]
    /\ node \in [Slots -> [key : Keys \cup {NoKey}, value : Values \cup {NoValue}, segment : Segments]]
    /\ free \subseteq Slots /\ others \subseteq Slots
    /\ window \in Seq(Slots) /\ probation \in Seq(Slots) /\ protected \in Seq(Slots)
    /\ counters \in Table
    /\ ops_since_decay \in 0 .. DecayInterval - 1
    /\ demotion_queue \in BOOLEAN

Elements(list) == {list[n] : n \in 1 .. Len(list)}

NoRepeats(list) == \A m, n \in 1 .. Len(list) : list[m] = list[n] => m = n

\* The three lists and the slab agree: a slot is linked in the one list its
\* node's segment names, once, and is free or another stripe's otherwise.  No
\* slot leaks and none is in two lists, through promotions, demotions,
\* evictions, rejections and removals.
SlotsPlaced ==
    /\ NoRepeats(window) /\ NoRepeats(probation) /\ NoRepeats(protected)
    /\ \A i \in Slots :
          /\ i \in Elements(window) <=> node[i].segment = "Window"
          /\ i \in Elements(probation) <=> node[i].segment = "Probation"
          /\ i \in Elements(protected) <=> node[i].segment = "Protected"
          /\ i \in free \cup others <=> node[i].segment = "Free"
    /\ free \cap others = {}

\* The hash index and the nodes agree in both directions: a lookup finds the
\* node of its key, and every linked node is found by its own key.
IndexAgrees ==
    /\ \A k \in Keys : Cached(k) => index_map[k] \notin free \cup others /\ node[index_map[k]].key = k
    /\ \A i \in Slots \ (free \cup others) : node[i].key \in Keys /\ index_map[node[i].key] = i

\* Between operations the window and protected are within their capacities and
\* the main segments together within theirs, so the window's overshoot is gone
\* when put returns and a stripe never keeps more than total_capacity_ slots of
\* the slab it shares with the other stripes.  Probation has no bound of its
\* own: probation_capacity_ is never compared with it, and it takes what
\* protected leaves of main.  When the gate is reached there
\* is a victim: the code's branch for an empty probation segment is never
\* taken, so a candidate is never dropped unheard.
WithinCapacity ==
    /\ Len(window) <= WindowCapacity
    /\ Len(protected) <= ProtectedMost
    /\ MainSize <= MainCapacity
    /\ MainFull => probation # <<>>

Listed == {k \in Keys : Cached(k)}

\* A key leaves the cache without having been removed only when the main
\* segments are full, one at a time, and never out of the protected segment.
EvictsOnlyUnderPressure ==
    [][LET lost == Listed \ Listed'
       IN \A k \in lost :
            ~ RemoveKey(k) =>
                /\ lost = {k}
                /\ MainSize = MainCapacity
                /\ node[index_map[k]].segment # "Protected"]_vars

\* A probation key gives way only to a window key with a strictly greater
\* estimate at that instant, and what is handed to the demotion queue is that
\* victim's key, its value and its estimate.
GateIsStrict ==
    [][\A k \in Listed \ Listed' :
          ~ RemoveKey(k) /\ node[index_map[k]].segment = "Probation" =>
              /\ \E j \in Listed' :
                    /\ node'[index_map'[j]].segment = "Probation"
                    /\ ~ Cached(j) \/ node[index_map[j]].segment = "Window"
                    /\ Estimate(counters', j) > Estimate(counters', k)
              /\ demotion_queue =>
                    out'.demoted = [key |-> k, value |-> node[index_map[k]].value,
                                    frequency |-> Estimate(counters', k)]]_vars

Contents == [k \in Keys |-> IF Cached(k) THEN node[index_map[k]].value ELSE NoValue]

Handed ==
    IF out.demoted = NoItem THEN NoItem
    ELSE [key |-> out.demoted.key, value |-> out.demoted.value]

L1 == INSTANCE L1Cache WITH map <- Contents, request <- out.request, handed <- Handed, returned <- out.ret

\* A stripe is a forgetful map: gets return the value last put for a key that
\* is still cached, a put loses at most one other key, and only a key that
\* leaves the map is handed to the demotion queue, with its last value.
ImplementsL1Cache == L1!Spec
=============================================================================
