------------------------------ MODULE LruList ------------------------------
(***************************************************************************)
(* The intrusive lists of a stripe (src/lru_list.cpp).  The links prev and *)
(* next are fields of the slab's nodes, so all lists of a stripe share     *)
(* them and a slot can be in one list at a time.  The operations are       *)
(* functions of the memory, as push_front and remove are called from       *)
(* pop_back and move_to_front.  lists is what they stand for: CacheStripe  *)
(* uses the sequences.                                                     *)
(***************************************************************************)
EXTENDS Integers, Sequences

Seqs == INSTANCE SequencesExt

CONSTANTS
    Slots,
    Lists,           \* window_, probation_ and protected_
    kInvalidIndex

ASSUME SlotsAssumption == kInvalidIndex \notin Slots

VARIABLES
    mem,     \* the links of the nodes, and head_, tail_ and size_ of each list
    lists    \* auxiliary: the slots of each list, front first

vars == <<mem, lists>>

Empty ==
    [prev |-> [i \in Slots |-> kInvalidIndex],
     next |-> [i \in Slots |-> kInvalidIndex],
     head |-> [l \in Lists |-> kInvalidIndex],
     tail |-> [l \in Lists |-> kInvalidIndex],
     size |-> [l \in Lists |-> 0]]

\* Faulty: the old front keeps its prev.
PushFrontOneWay(m, l, i) ==
    [m EXCEPT !.prev[i] = kInvalidIndex,
              !.next[i] = m.head[l],
              !.tail[l] = IF m.head[l] = kInvalidIndex THEN i ELSE @,
              !.head[l] = i,
              !.size[l] = @ + 1]

PushFront(m, l, i) ==
    LET old == m.head[l]
        linked == [m EXCEPT !.prev[i] = kInvalidIndex, !.next[i] = old,
                            !.head[l] = i, !.size[l] = @ + 1]
    IN IF old # kInvalidIndex
       THEN [linked EXCEPT !.prev[old] = i]
       ELSE [linked EXCEPT !.tail[l] = i]

Remove(m, l, i) ==
    LET p == m.prev[i]
        n == m.next[i]
        before == IF p # kInvalidIndex THEN [m EXCEPT !.next[p] = n] ELSE [m EXCEPT !.head[l] = n]
        after == IF n # kInvalidIndex THEN [before EXCEPT !.prev[n] = p] ELSE [before EXCEPT !.tail[l] = p]
    IN [after EXCEPT !.prev[i] = kInvalidIndex, !.next[i] = kInvalidIndex, !.size[l] = @ - 1]

PopBack(m, l) == IF m.tail[l] = kInvalidIndex THEN m ELSE Remove(m, l, m.tail[l])

MoveToFront(m, l, i) == IF i = m.head[l] THEN m ELSE PushFront(Remove(m, l, i), l, i)

-----------------------------------------------------------------------------
Init ==
    /\ mem = Empty
    /\ lists = [l \in Lists |-> <<>>]

Unlink(list, i) == Seqs!RemoveAt(list, CHOOSE n \in DOMAIN list : list[n] = i)

In(l, i) == \E n \in DOMAIN lists[l] : lists[l][n] = i

\* The callers push a slot that is in no list, and remove or move one that is.
DoPushFront(l, i) ==
    /\ \A k \in Lists : ~ In(k, i)
    /\ mem' = PushFront(mem, l, i)
    /\ lists' = [lists EXCEPT ![l] = <<i>> \o @]

DoRemove(l, i) ==
    /\ In(l, i)
    /\ mem' = Remove(mem, l, i)
    /\ lists' = [lists EXCEPT ![l] = Unlink(@, i)]

\* pop_back of any list, an empty one too.  It returns tail_, the last slot.
DoPopBack(l) ==
    /\ mem' = PopBack(mem, l)
    /\ lists' = IF lists[l] = <<>> THEN lists ELSE [lists EXCEPT ![l] = Seqs!Front(@)]

DoMoveToFront(l, i) ==
    /\ In(l, i)
    /\ mem' = MoveToFront(mem, l, i)
    /\ lists' = [lists EXCEPT ![l] = <<i>> \o Unlink(@, i)]

Next ==
    \E l \in Lists :
        \/ DoPopBack(l)
        \/ \E i \in Slots : DoPushFront(l, i) \/ DoRemove(l, i) \/ DoMoveToFront(l, i)

Spec == Init /\ [][Next]_vars

-----------------------------------------------------------------------------
\* Every link is a slot or kInvalidIndex, and no size_ has wrapped below zero.
TypeOK ==
    LET Link == Slots \cup {kInvalidIndex}
    IN mem \in [prev : [Slots -> Link], next : [Slots -> Link],
                head : [Lists -> Link], tail : [Lists -> Link], size : [Lists -> Nat]]

\* The links of the shared nodes, head_, tail_ and size_ describe each list
\* completely in both directions, and an operation on one list never bends a
\* link of another one.
LinksAgree ==
    \A l \in Lists :
        LET list == lists[l]
            At(n) == IF n \in DOMAIN list THEN list[n] ELSE kInvalidIndex
        IN /\ mem.head[l] = At(1)
           /\ mem.tail[l] = At(Len(list))
           /\ mem.size[l] = Len(list)
           /\ \A n \in DOMAIN list :
                 /\ mem.next[list[n]] = At(n + 1)
                 /\ mem.prev[list[n]] = At(n - 1)
=============================================================================
