------------------------------ MODULE L1Cache ------------------------------
(***************************************************************************)
(* What a stripe of the L1 cache promises the rest of the engine: a        *)
(* partial map from keys to values that forgets.  A get never changes the  *)
(* map.  A put of a cached key replaces its value; a put of a new key      *)
(* inserts it, at the price of at most one other key, or leaves the map    *)
(* alone.  A key that is pushed out may be handed to the demotion queue    *)
(* together with its value, or is simply dropped.                          *)
(***************************************************************************)
CONSTANTS
    Keys,
    Values,
    NoValue,    \* a key without a value
    NoItem      \* no item for the demotion queue

VARIABLES
    map,        \* Keys -> Values \cup {NoValue}
    request,    \* the key, and the value for a put, of the last operation
    handed,     \* the item the last operation handed to the demotion queue
    returned    \* the value the last operation returned

Item(k, v) == [key |-> k, value |-> v]

Init ==
    /\ map = [k \in Keys |-> NoValue]
    /\ request = NoItem /\ handed = NoItem
    /\ returned = NoValue

Get(k) ==
    /\ request' = Item(k, NoValue)
    /\ returned' = map[k]
    /\ handed' = NoItem
    /\ UNCHANGED map

\* put(k, v) stores the value, over an older one or beside the other keys.
Store(k, v) ==
    /\ map' = [map EXCEPT ![k] = v]
    /\ handed' = NoItem

\* put(k, v) of a new key costs the cache the key j.
Replace(k, v, j) ==
    /\ map[k] = NoValue /\ j # k /\ map[j] # NoValue
    /\ map' = [map EXCEPT ![k] = v, ![j] = NoValue]
    /\ handed' \in {NoItem, Item(j, map[j])}

\* put(k, v) of a new key finds no slot, or loses at the admission gate.
Refuse(k) ==
    /\ map[k] = NoValue
    /\ handed' = NoItem
    /\ UNCHANGED map

Put(k, v) ==
    /\ request' = Item(k, v)
    /\ Store(k, v) \/ Refuse(k) \/ \E j \in Keys : Replace(k, v, j)
    /\ returned' = NoValue

Remove(k) ==
    /\ request' = Item(k, NoValue)
    /\ map' = [map EXCEPT ![k] = NoValue]
    /\ handed' = NoItem
    /\ returned' = NoValue

\* The stripe is told whether there is a demotion queue.
Attach ==
    /\ request' = NoItem /\ handed' = NoItem
    /\ returned' = NoValue
    /\ UNCHANGED map

Next ==
    \/ \E k \in Keys : Get(k) \/ Remove(k) \/ \E v \in Values : Put(k, v)
    \/ Attach

Spec == Init /\ [][Next]_<<map, request, handed, returned>>
=============================================================================
