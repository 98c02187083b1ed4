-------------------------- MODULE StripePartsProofs --------------------------
(***************************************************************************)
(* Proofs about the parts of a stripe that stand on their own: the         *)
(* intrusive lists, for any slab and any number of lists in it, and the    *)
(* sketch, for any keys, any shape of the table and any hash functions.    *)
(***************************************************************************)
EXTENDS LruList, CountMinSketch, SequenceTheorems, WellFoundedInduction, TLAPS

-----------------------------------------------------------------------------
(* The intrusive lists *)

\* A slot is at one position of one list at most.
OnePlace(ls) ==
    \A k, l \in Lists : \A m \in 1 .. Len(ls[k]), n \in 1 .. Len(ls[l]) :
        ls[k][m] = ls[l][n] => k = l /\ m = n

\* The slot at a position, or the end-of-list mark.
AtPos(list, n) == IF n \in 1 .. Len(list) THEN list[n] ELSE kInvalidIndex

\* LinksAgree of any memory m and lists ls.
Linked(m, ls) ==
    \A l \in Lists :
        /\ m.head[l] = AtPos(ls[l], 1)
        /\ m.tail[l] = AtPos(ls[l], Len(ls[l]))
        /\ m.size[l] = Len(ls[l])
        /\ \A n \in 1 .. Len(ls[l]) :
              /\ m.next[ls[l][n]] = AtPos(ls[l], n + 1)
              /\ m.prev[ls[l][n]] = AtPos(ls[l], n - 1)

Links == Slots \cup {kInvalidIndex}

Memory == [prev : [Slots -> Links], next : [Slots -> Links],
           head : [Lists -> Links], tail : [Lists -> Links], size : [Lists -> Nat]]

SlotLists == [Lists -> Seq(Slots)]

\* The inductive invariant: LinksAgree needs that no slot is in two places, as
\* otherwise an operation on one list would bend the links of another one.
Sound(m, ls) == m \in Memory /\ ls \in SlotLists /\ OnePlace(ls) /\ Linked(m, ls)

\* What is fixed of the memory's fields when push_front has run.
LEMMA PushFrontFields ==
    ASSUME NEW m \in Memory, NEW l \in Lists, NEW i \in Slots, m.head[l] # i
    PROVE  LET r == PushFront(m, l, i)
               old == m.head[l]
           IN /\ r \in Memory
              /\ \A k \in Lists : /\ r.head[k] = IF k = l THEN i ELSE m.head[k]
                                  /\ r.tail[k] = IF k = l /\ old = kInvalidIndex THEN i ELSE m.tail[k]
                                  /\ r.size[k] = IF k = l THEN m.size[k] + 1 ELSE m.size[k]
              /\ \A j \in Slots : /\ r.next[j] = IF j = i THEN old ELSE m.next[j]
                                  /\ r.prev[j] = IF j = i THEN kInvalidIndex
                                                 ELSE IF j = old THEN i ELSE m.prev[j]
<1> DEFINE old == m.head[l]
           x == [m EXCEPT !.prev[i] = kInvalidIndex, !.next[i] = old,
                          !.head[l] = i, !.size[l] = @ + 1]
<1>1. old \in Links /\ m.size[l] + 1 \in Nat
  BY DEF Memory
<1>2. /\ x \in Memory
      /\ x.prev = [m.prev EXCEPT ![i] = kInvalidIndex] /\ x.next = [m.next EXCEPT ![i] = old]
      /\ x.head = [m.head EXCEPT ![l] = i] /\ x.tail = m.tail
      /\ x.size = [m.size EXCEPT ![l] = m.size[l] + 1]
  BY <1>1 DEF Memory, Links
<1>3. CASE old = kInvalidIndex
  <2> DEFINE r == [x EXCEPT !.tail[l] = i]
  <2>1. PushFront(m, l, i) = r
    BY <1>3 DEF PushFront
  <2> HIDE DEF x, old
  <2>2. /\ r \in Memory /\ r.prev = x.prev /\ r.next = x.next /\ r.head = x.head /\ r.size = x.size
        /\ r.tail = [x.tail EXCEPT ![l] = i]
    BY <1>2 DEF Memory, Links
  <2> HIDE DEF r
  <2> QED BY <1>1, <1>2, <1>3, <2>1, <2>2, SlotsAssumption DEF Memory, Links, old
<1>4. CASE old # kInvalidIndex
  <2> DEFINE r == [x EXCEPT !.prev[old] = i]
  <2>1. PushFront(m, l, i) = r
    BY <1>4 DEF PushFront
  <2> HIDE DEF x, old
  <2>2. /\ r \in Memory /\ r.tail = x.tail /\ r.next = x.next /\ r.head = x.head /\ r.size = x.size
        /\ r.prev = [x.prev EXCEPT ![old] = i]
    BY <1>1, <1>2, <1>4 DEF Memory, Links
  <2> HIDE DEF r
  <2> QED BY <1>1, <1>2, <1>4, <2>1, <2>2, SlotsAssumption DEF Memory, Links, old
<1> QED BY <1>3, <1>4

\* What is fixed of them when remove has run.
LEMMA RemoveFields ==
    ASSUME NEW m \in Memory, NEW l \in Lists, NEW i \in Slots,
           m.prev[i] # i, m.next[i] # i, m.size[l] # 0
    PROVE  LET r == Remove(m, l, i)
               p == m.prev[i]
               n == m.next[i]
           IN /\ r \in Memory
              /\ \A k \in Lists : /\ r.head[k] = IF k = l /\ p = kInvalidIndex THEN n ELSE m.head[k]
                                  /\ r.tail[k] = IF k = l /\ n = kInvalidIndex THEN p ELSE m.tail[k]
                                  /\ r.size[k] = IF k = l THEN m.size[k] - 1 ELSE m.size[k]
              /\ \A j \in Slots : /\ r.next[j] = IF j = i THEN kInvalidIndex
                                                 ELSE IF j = p THEN n ELSE m.next[j]
                                  /\ r.prev[j] = IF j = i THEN kInvalidIndex
                                                 ELSE IF j = n THEN p ELSE m.prev[j]
<1> DEFINE p == m.prev[i]
           n == m.next[i]
           x == IF p # kInvalidIndex THEN [m EXCEPT !.next[p] = n] ELSE [m EXCEPT !.head[l] = n]
           y == IF n # kInvalidIndex THEN [x EXCEPT !.prev[n] = p] ELSE [x EXCEPT !.tail[l] = p]
           r == [y EXCEPT !.prev[i] = kInvalidIndex, !.next[i] = kInvalidIndex, !.size[l] = @ - 1]
<1>1. p \in Links /\ n \in Links /\ p # i /\ n # i /\ m.size[l] - 1 \in Nat
  BY DEF Memory
<1>2. Remove(m, l, i) = r
  BY DEF Remove
<1> HIDE DEF p, n
<1>3. /\ x \in Memory /\ x.prev = m.prev /\ x.tail = m.tail /\ x.size = m.size
      /\ \A k \in Lists : x.head[k] = IF k = l /\ p = kInvalidIndex THEN n ELSE m.head[k]
      /\ \A j \in Slots : x.next[j] = IF j = p THEN n ELSE m.next[j]
  <2>1. CASE p # kInvalidIndex
    BY <1>1, <2>1, SlotsAssumption DEF Memory, Links
  <2>2. CASE p = kInvalidIndex
    BY <1>1, <2>2, SlotsAssumption DEF Memory, Links
  <2> QED BY <2>1, <2>2
<1> HIDE DEF x
<1>4. /\ y \in Memory /\ y.next = x.next /\ y.head = x.head /\ y.size = x.size
      /\ \A k \in Lists : y.tail[k] = IF k = l /\ n = kInvalidIndex THEN p ELSE x.tail[k]
      /\ \A j \in Slots : y.prev[j] = IF j = n THEN p ELSE x.prev[j]
  <2>1. CASE n # kInvalidIndex
    BY <1>1, <1>3, <2>1, SlotsAssumption DEF Memory, Links
  <2>2. CASE n = kInvalidIndex
    BY <1>1, <1>3, <2>2, SlotsAssumption DEF Memory, Links
  <2> QED BY <2>1, <2>2
<1> HIDE DEF y
<1>5. /\ r \in Memory /\ r.head = y.head /\ r.tail = y.tail
      /\ r.next = [y.next EXCEPT ![i] = kInvalidIndex]
      /\ r.prev = [y.prev EXCEPT ![i] = kInvalidIndex]
      /\ r.size = [y.size EXCEPT ![l] = y.size[l] - 1]
  BY <1>1, <1>3, <1>4 DEF Memory, Links
<1> HIDE DEF r
<1>6. /\ \A k \in Lists : r.size[k] = IF k = l THEN m.size[k] - 1 ELSE m.size[k]
      /\ \A j \in Slots : /\ r.next[j] = IF j = i THEN kInvalidIndex ELSE y.next[j]
                          /\ r.prev[j] = IF j = i THEN kInvalidIndex ELSE y.prev[j]
  BY <1>3, <1>4, <1>5 DEF Memory
<1>7. /\ r \in Memory
      /\ \A k \in Lists : /\ r.head[k] = IF k = l /\ p = kInvalidIndex THEN n ELSE m.head[k]
                          /\ r.tail[k] = IF k = l /\ n = kInvalidIndex THEN p ELSE m.tail[k]
                          /\ r.size[k] = IF k = l THEN m.size[k] - 1 ELSE m.size[k]
      /\ \A j \in Slots : /\ r.next[j] = IF j = i THEN kInvalidIndex
                                         ELSE IF j = p THEN n ELSE m.next[j]
                          /\ r.prev[j] = IF j = i THEN kInvalidIndex
                                         ELSE IF j = n THEN p ELSE m.prev[j]
  BY <1>3, <1>4, <1>5, <1>6
<1> QED BY <1>2, <1>7 DEF p, n

\* A slot put in front of a list.
LEMMA FrontPositions ==
    ASSUME NEW list \in Seq(Slots), NEW i \in Slots
    PROVE  /\ <<i>> \o list \in Seq(Slots) /\ Len(<<i>> \o list) = Len(list) + 1
           /\ \A n \in 1 .. Len(list) + 1 : (<<i>> \o list)[n] = IF n = 1 THEN i ELSE list[n - 1]
OBVIOUS

\* push_front of a slot in no list.
LEMMA PushSound ==
    ASSUME NEW m, NEW ls, Sound(m, ls), NEW l \in Lists, NEW i \in Slots,
           \A k \in Lists : \A n \in 1 .. Len(ls[k]) : ls[k][n] # i
    PROVE  Sound(PushFront(m, l, i), [ls EXCEPT ![l] = <<i>> \o ls[l]])
<1> DEFINE p == ls[l]
           q == <<i>> \o p
           r == PushFront(m, l, i)
           rs == [ls EXCEPT ![l] = q]
           old == m.head[l]
<1>1. /\ m \in Memory /\ \A k \in Lists : ls[k] \in Seq(Slots) /\ Len(ls[k]) \in Nat
      /\ ls \in SlotLists
  BY DEF Sound, SlotLists
<1>2. OnePlace(ls) /\ Linked(m, ls)
  BY DEF Sound
<1>3. q \in Seq(Slots) /\ Len(q) = Len(p) + 1
      /\ \A n \in 1 .. Len(p) + 1 : q[n] = IF n = 1 THEN i ELSE p[n - 1]
  <2>1. p \in Seq(Slots)
    BY <1>1
  <2> QED BY <2>1, FrontPositions
<1>p. p \in Seq(Slots) /\ Len(p) \in Nat /\ \A n \in 1 .. Len(p) : p[n] # i /\ p[n] \in Slots
  BY <1>1
<1>o. old = AtPos(p, 1)
  BY <1>2 DEF Linked
<1>n. kInvalidIndex \notin Slots
  BY SlotsAssumption
<1>h. old # i
  BY <1>p, <1>o, <1>n DEF AtPos
<1>4. /\ r \in Memory
      /\ \A k \in Lists : /\ r.head[k] = IF k = l THEN i ELSE m.head[k]
                          /\ r.tail[k] = IF k = l /\ old = kInvalidIndex THEN i ELSE m.tail[k]
                          /\ r.size[k] = IF k = l THEN m.size[k] + 1 ELSE m.size[k]
      /\ \A j \in Slots : /\ r.next[j] = IF j = i THEN old ELSE m.next[j]
                          /\ r.prev[j] = IF j = i THEN kInvalidIndex
                                         ELSE IF j = old THEN i ELSE m.prev[j]
  BY <1>1, <1>h, PushFrontFields
<1> HIDE DEF q, r
<1>5. rs \in SlotLists /\ \A k \in Lists : rs[k] = IF k = l THEN q ELSE ls[k]
  BY <1>1, <1>3 DEF SlotLists
<1> HIDE DEF rs
<1>6. OnePlace(rs)
  <2> SUFFICES ASSUME NEW a \in Lists, NEW b \in Lists,
                      NEW x \in 1 .. Len(rs[a]), NEW y \in 1 .. Len(rs[b]), rs[a][x] = rs[b][y]
               PROVE  a = b /\ x = y
    BY DEF OnePlace
  <2>i. \A k \in Lists : \A n \in 1 .. Len(ls[k]) : ls[k][n] # i
    OBVIOUS
  <2>q. ASSUME NEW n \in 1 .. Len(q)
        PROVE  \/ n = 1 /\ q[n] = i
               \/ n # 1 /\ n - 1 \in 1 .. Len(ls[l]) /\ q[n] = ls[l][n - 1]
    BY ONLY <1>3, <1>p, n \in 1 .. Len(q)
  <2>1. CASE a # l /\ b # l
    BY <1>2, <1>5, <2>1 DEF OnePlace
  <2>2. CASE a = l /\ b = l
    <3>1. x \in 1 .. Len(q) /\ y \in 1 .. Len(q) /\ q[x] = q[y]
      BY <1>5, <2>2
    <3>2. CASE x = 1 \/ y = 1
      <4>1. \A n \in 1 .. Len(q) : n = 1 <=> q[n] = i
        BY <2>i, <2>q
      <4> QED BY <2>2, <3>1, <3>2, <4>1
    <3>3. CASE x # 1 /\ y # 1
      <4>a. PICK u \in 1 .. Len(ls[l]) : u = x - 1 /\ q[x] = ls[l][u]
        BY <2>q, <3>1, <3>3
      <4>b. PICK v \in 1 .. Len(ls[l]) : v = y - 1 /\ q[y] = ls[l][v]
        BY <2>q, <3>1, <3>3
      <4>1. u = v
        <5>1. ls[l][u] = ls[l][v]
          BY <3>1, <4>a, <4>b
        <5>2. OnePlace(ls)
          BY <1>2
        <5>3. \A a1, b1 \in 1 .. Len(ls[l]) : ls[l][a1] = ls[l][b1] => a1 = b1
          BY ONLY <5>2, l \in Lists DEF OnePlace
        <5> QED BY <5>1, <5>3
      <4>2. Len(q) \in Nat
        BY <1>3, <1>p
      <4>4. x - 1 = y - 1
        BY <4>1, <4>a, <4>b, Zenon
      <4>3. x = y
        BY ONLY <3>1, <4>2, <4>4
      <4> QED BY <2>2, <4>3
    <3> QED BY <3>2, <3>3
  <2>3. CASE a = l /\ b # l
    <3>1. x \in 1 .. Len(q) /\ y \in 1 .. Len(ls[b]) /\ q[x] = ls[b][y]
      BY <1>5, <2>3
    <3>2. PICK u \in 1 .. Len(ls[l]) : q[x] = ls[l][u]
      <4>1. q[x] # i
        BY <2>i, <3>1
      <4>2. \/ x = 1 /\ q[x] = i
            \/ x # 1 /\ x - 1 \in 1 .. Len(ls[l]) /\ q[x] = ls[l][x - 1]
        BY <2>q, <3>1
      <4>3. x - 1 \in 1 .. Len(ls[l]) /\ q[x] = ls[l][x - 1]
        BY ONLY <4>1, <4>2, Zenon
      <4> QED BY ONLY <4>3, Zenon
    <3>3. OnePlace(ls) /\ l \in Lists /\ b \in Lists /\ u \in 1 .. Len(ls[l])
      BY <1>2
    <3>4. l = b
      <4>1. ls[l][u] = ls[b][y] /\ y \in 1 .. Len(ls[b])
        BY ONLY <3>1, <3>2, Zenon
      <4> QED BY ONLY <3>3, <4>1, Zenon DEF OnePlace
    <3> QED BY <2>3, <3>4
  <2>4. CASE a # l /\ b = l
    <3>1. y \in 1 .. Len(q) /\ x \in 1 .. Len(ls[a]) /\ q[y] = ls[a][x]
      BY <1>5, <2>4
    <3>2. PICK u \in 1 .. Len(ls[l]) : q[y] = ls[l][u]
      <4>1. q[y] # i
        BY <2>i, <3>1
      <4>2. \/ y = 1 /\ q[y] = i
            \/ y # 1 /\ y - 1 \in 1 .. Len(ls[l]) /\ q[y] = ls[l][y - 1]
        BY <2>q, <3>1
      <4>3. y - 1 \in 1 .. Len(ls[l]) /\ q[y] = ls[l][y - 1]
        BY ONLY <4>1, <4>2, Zenon
      <4> QED BY ONLY <4>3, Zenon
    <3>3. OnePlace(ls) /\ l \in Lists /\ a \in Lists /\ u \in 1 .. Len(ls[l])
      BY <1>2
    <3>4. l = a
      <4>1. ls[l][u] = ls[a][x] /\ x \in 1 .. Len(ls[a])
        BY ONLY <3>1, <3>2, Zenon
      <4> QED BY ONLY <3>3, <4>1, Zenon DEF OnePlace
    <3> QED BY <2>4, <3>4
  <2> QED BY <2>1, <2>2, <2>3, <2>4
<1>7. ASSUME NEW k \in Lists, k # l
      PROVE  /\ r.head[k] = AtPos(ls[k], 1)
             /\ r.tail[k] = AtPos(ls[k], Len(ls[k]))
             /\ r.size[k] = Len(ls[k])
             /\ \A n \in 1 .. Len(ls[k]) :
                   /\ r.next[ls[k][n]] = AtPos(ls[k], n + 1)
                   /\ r.prev[ls[k][n]] = AtPos(ls[k], n - 1)
  <2>1. /\ r.head[k] = AtPos(ls[k], 1) /\ r.tail[k] = AtPos(ls[k], Len(ls[k]))
        /\ r.size[k] = Len(ls[k])
    BY <1>2, <1>4, <1>7 DEF Linked
  <2>2. ASSUME NEW n \in 1 .. Len(ls[k]) PROVE ls[k][n] # old /\ ls[k][n] # i /\ ls[k][n] \in Slots
    <3>1. ls[k][n] \in Slots /\ ls[k][n] # i
      BY <1>1
    <3>2. CASE old = kInvalidIndex
      BY <1>n, <3>1, <3>2
    <3>3. CASE old # kInvalidIndex
      <4>1. 1 \in 1 .. Len(ls[l]) /\ old = ls[l][1]
        BY <1>o, <3>3 DEF AtPos
      <4> QED BY <1>2, <1>7, <3>1, <4>1 DEF OnePlace
    <3> QED BY <3>2, <3>3
  <2>3. ASSUME NEW n \in 1 .. Len(ls[k])
        PROVE  r.next[ls[k][n]] = AtPos(ls[k], n + 1) /\ r.prev[ls[k][n]] = AtPos(ls[k], n - 1)
    <3>1. ls[k][n] # old /\ ls[k][n] # i /\ ls[k][n] \in Slots
      BY <2>2
    <3>2. r.next[ls[k][n]] = m.next[ls[k][n]] /\ r.prev[ls[k][n]] = m.prev[ls[k][n]]
      BY ONLY <1>4, <3>1
    <3>3. m.next[ls[k][n]] = AtPos(ls[k], n + 1) /\ m.prev[ls[k][n]] = AtPos(ls[k], n - 1)
      BY <1>2 DEF Linked
    <3> QED BY ONLY <3>2, <3>3
  <2> QED BY <2>1, <2>3
<1>8. /\ r.head[l] = AtPos(q, 1)
      /\ r.tail[l] = AtPos(q, Len(q))
      /\ r.size[l] = Len(q)
  <2>1. m.tail[l] = AtPos(p, Len(p)) /\ m.size[l] = Len(p)
    BY <1>2 DEF Linked
  <2>2. old = kInvalidIndex <=> Len(p) = 0
    BY <1>n, <1>o, <1>p DEF AtPos
  <2> HIDE DEF p, old
  <2>3. 1 \in 1 .. Len(q) /\ Len(q) \in 1 .. Len(q) /\ q[1] = i
    BY <1>3, <1>p
  <2>4. r.tail[l] = AtPos(q, Len(q))
    <3>1. CASE Len(p) = 0
      BY <1>3, <1>4, <2>2, <2>3, <3>1 DEF AtPos
    <3>2. CASE Len(p) # 0
      <4>1. q[Len(q)] = p[Len(p)] /\ Len(p) \in 1 .. Len(p)
        BY <1>3, <1>p, <3>2
      <4> QED BY <1>4, <2>1, <2>2, <2>3, <3>2, <4>1 DEF AtPos
    <3> QED BY <3>1, <3>2
  <2> QED BY <1>3, <1>4, <2>1, <2>3, <2>4 DEF AtPos
<1>9. ASSUME NEW n \in 1 .. Len(q)
      PROVE  r.next[q[n]] = AtPos(q, n + 1) /\ r.prev[q[n]] = AtPos(q, n - 1)
  <2>0. /\ \A x \in 1 .. Len(p) : m.next[p[x]] = AtPos(p, x + 1) /\ m.prev[p[x]] = AtPos(p, x - 1)
        /\ \A x, y \in 1 .. Len(p) : p[x] = p[y] => x = y
    BY <1>2 DEF Linked, OnePlace
  <2> HIDE DEF p, old
  <2>1. CASE n = 1
    <3>1. q[n] = i /\ r.next[i] = old /\ r.prev[i] = kInvalidIndex
      BY <1>3, <1>4, <2>1
    <3>2. AtPos(q, 0) = kInvalidIndex
      BY <1>3, <1>p DEF AtPos
    <3>3. AtPos(q, 2) = AtPos(p, 1)
      BY <1>3, <1>p DEF AtPos
    <3> QED BY <1>o, <2>1, <3>1, <3>2, <3>3
  <2>2. CASE n # 1
    <3> DEFINE x == n - 1
    <3>1. x \in 1 .. Len(p) /\ q[n] = p[x] /\ p[x] # i /\ p[x] \in Slots
      BY <1>3, <1>p, <2>2
    <3>2. r.next[q[n]] = AtPos(p, x + 1)
      <4>1. PICK j \in Slots : j = q[n] /\ j = p[x] /\ j # i
        BY <3>1
      <4>2. r.next[j] = m.next[j]
        BY <1>4, <4>1
      <4>3. m.next[p[x]] = AtPos(p, x + 1)
        BY <2>0, <3>1
      <4> QED BY ONLY <4>1, <4>2, <4>3
    <3>3. AtPos(q, n + 1) = AtPos(p, x + 1)
      BY <1>3, <1>p, <3>1 DEF AtPos
    <3>4. CASE x = 1
      <4>1. q[n] = old /\ r.prev[old] = i
        BY <1>4, <1>o, <3>1, <3>4 DEF AtPos
      <4>2. AtPos(q, n - 1) = i
        BY <1>3, <1>p, <3>4 DEF AtPos
      <4> QED BY <3>2, <3>3, <4>1, <4>2
    <3>5. CASE x # 1
      <4>1. p[x] # old
        <5>1. 1 \in 1 .. Len(p) /\ old = p[1]
          BY <1>o, <1>p, <3>1 DEF AtPos
        <5> QED BY <2>0, <3>1, <3>5, <5>1
      <4>2. r.prev[q[n]] = AtPos(p, x - 1)
        <5>1. PICK j \in Slots : j = q[n] /\ j = p[x] /\ j # i /\ j # old
          BY <3>1, <4>1
        <5>2. r.prev[j] = m.prev[j]
          BY <1>4, <5>1
        <5>3. m.prev[p[x]] = AtPos(p, x - 1)
          BY <2>0, <3>1
        <5> QED BY ONLY <5>1, <5>2, <5>3
      <4>3. AtPos(q, n - 1) = AtPos(p, x - 1)
        BY <1>3, <1>p, <3>1, <3>5 DEF AtPos
      <4> QED BY <3>2, <3>3, <4>2, <4>3
    <3> QED BY <3>4, <3>5
  <2> QED BY <2>1, <2>2
<1>10. Linked(r, rs)
  <2> SUFFICES ASSUME NEW k \in Lists
               PROVE  /\ r.head[k] = AtPos(rs[k], 1)
                      /\ r.tail[k] = AtPos(rs[k], Len(rs[k]))
                      /\ r.size[k] = Len(rs[k])
                      /\ \A n \in 1 .. Len(rs[k]) :
                            /\ r.next[rs[k][n]] = AtPos(rs[k], n + 1)
                            /\ r.prev[rs[k][n]] = AtPos(rs[k], n - 1)
    BY DEF Linked
  <2>1. CASE k = l
    BY <1>5, <1>8, <1>9, <2>1
  <2>2. CASE k # l
    BY <1>5, <1>7, <2>2
  <2> QED BY <2>1, <2>2
<1> QED BY <1>4, <1>5, <1>6, <1>10 DEF Sound, r, rs, q
\* The part of a sequence before one of its positions.
LEMMA BeforePositions ==
    ASSUME NEW S, NEW s \in Seq(S), NEW m \in 1 .. Len(s)
    PROVE  /\ SubSeq(s, 1, m - 1) \in Seq(S) /\ Len(SubSeq(s, 1, m - 1)) = m - 1
           /\ \A n \in 1 .. m - 1 : SubSeq(s, 1, m - 1)[n] = s[n]
OBVIOUS

\* What SequencesExt!RemoveAt does to the positions.
LEMMA RemoveAtPositions ==
    ASSUME NEW S, NEW s \in Seq(S), NEW m \in 1 .. Len(s)
    PROVE  /\ Seqs!RemoveAt(s, m) \in Seq(S)
           /\ Len(Seqs!RemoveAt(s, m)) = Len(s) - 1
           /\ \A n \in 1 .. Len(s) - 1 : Seqs!RemoveAt(s, m)[n] = IF n < m THEN s[n] ELSE s[n + 1]
<1> DEFINE p == SubSeq(s, 1, m - 1)
           q == SubSeq(s, m + 1, Len(s))
<1>1. /\ p \in Seq(S) /\ Len(p) = m - 1
      /\ \A n \in 1 .. m - 1 : p[n] = s[n]
  BY BeforePositions
<1>2. /\ q \in Seq(S) /\ Len(q) = Len(s) - m
      /\ \A n \in 1 .. Len(s) - m : q[n] = s[m + n]
  OBVIOUS
<1>3. Seqs!RemoveAt(s, m) = p \o q
  BY DEF Seqs!RemoveAt
<1> HIDE DEF p, q
<1>4. p \o q \in Seq(S) /\ Len(p \o q) = Len(p) + Len(q)
  <2>1. p \in Seq(S) /\ q \in Seq(S)
    BY <1>1, <1>2
  <2> QED BY ONLY <2>1
<1>5. Len(p \o q) = Len(s) - 1
  BY <1>1, <1>2, <1>4
<1>6. ASSUME NEW n \in 1 .. Len(s) - 1
      PROVE  (p \o q)[n] = IF n < m THEN p[n] ELSE q[n - (m - 1)]
  <2>1. n \in 1 .. Len(p) + Len(q)
    BY <1>1, <1>2
  <2>2. (p \o q)[n] = IF n <= Len(p) THEN p[n] ELSE q[n - Len(p)]
    BY <1>1, <1>2, <2>1
  <2> QED BY <1>1, <2>2
<1>7. ASSUME NEW n \in 1 .. Len(s) - 1, ~ n < m PROVE q[n - (m - 1)] = s[n + 1]
  <2>1. n - (m - 1) \in 1 .. Len(s) - m /\ m + (n - (m - 1)) = n + 1
    BY <1>7
  <2> QED BY <1>2, <2>1
<1> QED BY <1>1, <1>3, <1>4, <1>5, <1>6, <1>7

\* remove of the slot at position x of list l: the list closes the gap, and the
\* slot is in no list any more.
LEMMA RemoveSound ==
    ASSUME NEW m, NEW ls, Sound(m, ls), NEW l \in Lists, NEW x \in 1 .. Len(ls[l])
    PROVE  LET r == Remove(m, l, ls[l][x])
               rs == [ls EXCEPT ![l] = Seqs!RemoveAt(ls[l], x)]
           IN /\ Sound(r, rs)
              /\ \A k \in Lists : \A n \in 1 .. Len(rs[k]) : rs[k][n] # ls[l][x]
<1> DEFINE p == ls[l]
           i == p[x]
           q == Seqs!RemoveAt(p, x)
           r == Remove(m, l, i)
           rs == [ls EXCEPT ![l] = q]
           before == AtPos(p, x - 1)
           after == AtPos(p, x + 1)
<1>1. /\ m \in Memory /\ \A k \in Lists : ls[k] \in Seq(Slots) /\ Len(ls[k]) \in Nat
      /\ ls \in SlotLists
  BY DEF Sound, SlotLists
<1>2. OnePlace(ls) /\ Linked(m, ls)
  BY DEF Sound
<1>n. kInvalidIndex \notin Slots
  BY SlotsAssumption
<1>p. /\ p \in Seq(Slots) /\ Len(p) \in Nat /\ x \in 1 .. Len(p)
      /\ \A n \in 1 .. Len(p) : p[n] \in Slots
  BY <1>1
<1>d. \A a, b \in 1 .. Len(p) : p[a] = p[b] => a = b
  BY ONLY <1>2, l \in Lists DEF OnePlace
<1>o. \A k \in Lists : k # l => \A n \in 1 .. Len(ls[k]) : \A a \in 1 .. Len(p) : ls[k][n] # p[a]
  BY ONLY <1>2, l \in Lists DEF OnePlace
<1>3. /\ q \in Seq(Slots) /\ Len(q) = Len(p) - 1
      /\ \A n \in 1 .. Len(p) - 1 : q[n] = IF n < x THEN p[n] ELSE p[n + 1]
  BY <1>p, RemoveAtPositions
<1>l. /\ m.head[l] = AtPos(p, 1) /\ m.tail[l] = AtPos(p, Len(p)) /\ m.size[l] = Len(p)
      /\ \A n \in 1 .. Len(p) : m.next[p[n]] = AtPos(p, n + 1) /\ m.prev[p[n]] = AtPos(p, n - 1)
  BY <1>2 DEF Linked
<1>f. m.prev[i] = before /\ m.next[i] = after /\ i \in Slots
  BY <1>l, <1>p
<1> HIDE DEF p, q
<1>a. before = IF x = 1 THEN kInvalidIndex ELSE p[x - 1]
  BY <1>p DEF AtPos
<1>b. after = IF x = Len(p) THEN kInvalidIndex ELSE p[x + 1]
  BY <1>p DEF AtPos
<1>c. before # i /\ after # i /\ m.size[l] # 0
  <2>1. before # i
    BY <1>a, <1>d, <1>n, <1>p
  <2>2. after # i
    BY <1>b, <1>d, <1>n, <1>p
  <2> QED BY <1>l, <1>p, <2>1, <2>2
<1>4. /\ r \in Memory
      /\ \A k \in Lists : /\ r.head[k] = IF k = l /\ before = kInvalidIndex THEN after ELSE m.head[k]
                          /\ r.tail[k] = IF k = l /\ after = kInvalidIndex THEN before ELSE m.tail[k]
                          /\ r.size[k] = IF k = l THEN m.size[k] - 1 ELSE m.size[k]
      /\ \A j \in Slots : /\ r.next[j] = IF j = i THEN kInvalidIndex
                                         ELSE IF j = before THEN after ELSE m.next[j]
                          /\ r.prev[j] = IF j = i THEN kInvalidIndex
                                         ELSE IF j = after THEN before ELSE m.prev[j]
  <2> HIDE DEF before, after, i
  <2> QED BY <1>1, <1>f, <1>c, RemoveFields
<1> HIDE DEF r
<1>5. rs \in SlotLists /\ \A k \in Lists : rs[k] = IF k = l THEN q ELSE ls[k]
  BY <1>1, <1>3 DEF SlotLists
<1> HIDE DEF rs
<1>q. ASSUME NEW n \in 1 .. Len(q)
      PROVE  \/ n < x /\ n \in 1 .. Len(p) /\ q[n] = p[n]
             \/ n >= x /\ n + 1 \in 1 .. Len(p) /\ q[n] = p[n + 1]
  BY <1>3, <1>p
<1>s. \A n \in 1 .. Len(q) : \E a \in 1 .. Len(p) : a = (IF n < x THEN n ELSE n + 1) /\ a # x /\ q[n] = p[a]
  BY <1>q, <1>p, <1>3
<1>6. \A k \in Lists : \A n \in 1 .. Len(rs[k]) : rs[k][n] # i
  <2>1. \A n \in 1 .. Len(q) : q[n] # i
    BY <1>d, <1>p, <1>s
  <2>2. \A k \in Lists : k # l => \A n \in 1 .. Len(ls[k]) : ls[k][n] # i
    BY <1>o, <1>p
  <2> QED BY <1>5, <2>1, <2>2
<1>7. OnePlace(rs)
  <2> SUFFICES ASSUME NEW a \in Lists, NEW b \in Lists,
                      NEW y \in 1 .. Len(rs[a]), NEW z \in 1 .. Len(rs[b]), rs[a][y] = rs[b][z]
               PROVE  a = b /\ y = z
    BY DEF OnePlace
  <2>1. CASE a # l /\ b # l
    BY <1>2, <1>5, <2>1 DEF OnePlace
  <2>2. CASE a = l /\ b = l
    <3>1. y \in 1 .. Len(q) /\ z \in 1 .. Len(q) /\ q[y] = q[z]
      BY <1>5, <2>2
    <3>2. PICK u \in 1 .. Len(p) : u = (IF y < x THEN y ELSE y + 1) /\ u # x /\ q[y] = p[u]
      BY <1>s, <3>1
    <3>3. PICK v \in 1 .. Len(p) : v = (IF z < x THEN z ELSE z + 1) /\ v # x /\ q[z] = p[v]
      BY <1>s, <3>1
    <3>4. u = v
      BY <1>d, <3>1, <3>2, <3>3
    <3>5. Len(q) \in Nat /\ x \in Nat
      BY <1>3, <1>p
    <3>6. y = z
      BY ONLY <3>1, <3>2, <3>3, <3>4, <3>5
    <3> QED BY <2>2, <3>6
  <2>3. CASE a = l /\ b # l
    <3>1. y \in 1 .. Len(q) /\ z \in 1 .. Len(ls[b]) /\ q[y] = ls[b][z]
      BY <1>5, <2>3
    <3>2. PICK u \in 1 .. Len(p) : q[y] = p[u]
      BY <1>s, <3>1
    <3> QED BY ONLY <1>o, <2>3, <3>1, <3>2, b \in Lists
  <2>4. CASE a # l /\ b = l
    <3>1. z \in 1 .. Len(q) /\ y \in 1 .. Len(ls[a]) /\ q[z] = ls[a][y]
      BY <1>5, <2>4
    <3>2. PICK u \in 1 .. Len(p) : q[z] = p[u]
      BY <1>s, <3>1
    <3> QED BY ONLY <1>o, <2>4, <3>1, <3>2, a \in Lists
  <2> QED BY <2>1, <2>2, <2>3, <2>4
<1>8. ASSUME NEW k \in Lists, k # l
      PROVE  /\ r.head[k] = AtPos(ls[k], 1)
             /\ r.tail[k] = AtPos(ls[k], Len(ls[k]))
             /\ r.size[k] = Len(ls[k])
             /\ \A n \in 1 .. Len(ls[k]) :
                   /\ r.next[ls[k][n]] = AtPos(ls[k], n + 1)
                   /\ r.prev[ls[k][n]] = AtPos(ls[k], n - 1)
  <2>1. /\ r.head[k] = AtPos(ls[k], 1) /\ r.tail[k] = AtPos(ls[k], Len(ls[k]))
        /\ r.size[k] = Len(ls[k])
    BY <1>2, <1>4, <1>8 DEF Linked
  <2>2. ASSUME NEW n \in 1 .. Len(ls[k])
        PROVE  ls[k][n] # before /\ ls[k][n] # after /\ ls[k][n] # i /\ ls[k][n] \in Slots
    <3>1. ls[k][n] \in Slots /\ \A a \in 1 .. Len(p) : ls[k][n] # p[a]
      BY <1>1, <1>8, <1>o
    <3>2. ls[k][n] # before
      BY <1>a, <1>n, <1>p, <3>1
    <3>3. ls[k][n] # after
      BY <1>b, <1>n, <1>p, <3>1
    <3> QED BY <1>p, <3>1, <3>2, <3>3
  <2> HIDE DEF before, after, i
  <2>3. ASSUME NEW n \in 1 .. Len(ls[k])
        PROVE  r.next[ls[k][n]] = AtPos(ls[k], n + 1) /\ r.prev[ls[k][n]] = AtPos(ls[k], n - 1)
    <3>1. PICK j \in Slots : j = ls[k][n] /\ j # before /\ j # after /\ j # i
      BY <2>2
    <3>2. r.next[j] = m.next[j] /\ r.prev[j] = m.prev[j]
      BY <1>4, <3>1
    <3>3. m.next[ls[k][n]] = AtPos(ls[k], n + 1) /\ m.prev[ls[k][n]] = AtPos(ls[k], n - 1)
      BY <1>2 DEF Linked
    <3> QED BY ONLY <3>1, <3>2, <3>3
  <2> QED BY <2>1, <2>3
<1>9. /\ r.head[l] = AtPos(q, 1)
      /\ r.tail[l] = AtPos(q, Len(q))
      /\ r.size[l] = Len(q)
  <2>1. before = kInvalidIndex <=> x = 1
    BY <1>a, <1>n, <1>p
  <2>2. after = kInvalidIndex <=> x = Len(p)
    BY <1>b, <1>n, <1>p
  <2>f. /\ r.head[l] = IF before = kInvalidIndex THEN after ELSE m.head[l]
        /\ r.tail[l] = IF after = kInvalidIndex THEN before ELSE m.tail[l]
        /\ r.size[l] = m.size[l] - 1
    BY <1>4
  <2> HIDE DEF before, after, i
  <2>3. r.head[l] = AtPos(q, 1)
    <3>1. CASE x = 1
      <4>1. AtPos(q, 1) = IF Len(p) = 1 THEN kInvalidIndex ELSE p[2]
        BY <1>3, <1>p, <3>1 DEF AtPos
      <4> QED BY <1>b, <2>1, <2>f, <3>1, <4>1
    <3>2. CASE x # 1
      <4>1. AtPos(q, 1) = p[1] /\ AtPos(p, 1) = p[1]
        BY <1>3, <1>p, <3>2 DEF AtPos
      <4> QED BY <1>l, <2>1, <2>f, <3>2, <4>1
    <3> QED BY <3>1, <3>2
  <2>4. r.tail[l] = AtPos(q, Len(q))
    <3>1. CASE x = Len(p)
      <4>1. AtPos(q, Len(q)) = IF x = 1 THEN kInvalidIndex ELSE p[x - 1]
        BY <1>3, <1>p, <3>1 DEF AtPos
      <4> QED BY <1>a, <2>2, <2>f, <3>1, <4>1
    <3>2. CASE x # Len(p)
      <4>1. AtPos(q, Len(q)) = p[Len(p)] /\ AtPos(p, Len(p)) = p[Len(p)]
        BY <1>3, <1>p, <3>2 DEF AtPos
      <4> QED BY <1>l, <2>2, <2>f, <3>2, <4>1
    <3> QED BY <3>1, <3>2
  <2> QED BY <1>3, <1>l, <2>f, <2>3, <2>4
<1>10. ASSUME NEW n \in 1 .. Len(q)
       PROVE  r.next[q[n]] = AtPos(q, n + 1) /\ r.prev[q[n]] = AtPos(q, n - 1)
  <2>1. PICK a \in 1 .. Len(p) : a = (IF n < x THEN n ELSE n + 1) /\ a # x /\ q[n] = p[a]
    BY <1>s
  <2>t. n \in Nat /\ x \in Nat /\ Len(p) \in Nat /\ Len(q) = Len(p) - 1 /\ n >= 1 /\ n <= Len(p) - 1
        /\ x >= 1 /\ x <= Len(p)
    BY <1>3, <1>p
  <2>2. q[n] # i /\ q[n] \in Slots
    BY <1>d, <1>p, <2>1
  <2>3. /\ r.next[q[n]] = IF q[n] = before THEN after ELSE AtPos(p, a + 1)
        /\ r.prev[q[n]] = IF q[n] = after THEN before ELSE AtPos(p, a - 1)
    <3>1. m.next[q[n]] = AtPos(p, a + 1) /\ m.prev[q[n]] = AtPos(p, a - 1)
      BY <1>l, <2>1
    <3> HIDE DEF before, after, i
    <3> QED BY <1>4, <2>2, <3>1
  <2>4. q[n] = before <=> a = x - 1
    BY <1>a, <1>d, <1>n, <1>p, <2>1, <2>2
  <2>5. q[n] = after <=> a = x + 1
    BY <1>b, <1>d, <1>n, <1>p, <2>1, <2>2
  <2> HIDE DEF before, after, i
  <2>6. AtPos(q, n + 1) = IF a = x - 1 THEN after ELSE AtPos(p, a + 1)
    <3>1. CASE a = x - 1
      BY <1>3, <1>b, <2>1, <2>t, <3>1 DEF AtPos
    <3>2. CASE a < x - 1
      BY <1>3, <2>1, <2>t, <3>2 DEF AtPos
    <3>3. CASE a > x
      <4>1. a = n + 1 /\ a # x - 1
        BY ONLY <2>1, <2>t, <3>3
      <4>2. CASE n + 1 \in 1 .. Len(q)
        <5>1. a + 1 \in 1 .. Len(p) /\ q[n + 1] = p[a + 1]
          BY <1>3, <2>t, <3>3, <4>1, <4>2
        <5> QED BY <4>1, <4>2, <5>1 DEF AtPos
      <4>3. CASE n + 1 \notin 1 .. Len(q)
        <5>1. a + 1 \notin 1 .. Len(p)
          BY <2>t, <4>1, <4>3
        <5> QED BY <4>1, <4>3, <5>1 DEF AtPos
      <4> QED BY <4>2, <4>3
    <3> QED BY <2>1, <2>t, <3>1, <3>2, <3>3
  <2>7. AtPos(q, n - 1) = IF a = x + 1 THEN before ELSE AtPos(p, a - 1)
    <3>1. CASE a = x + 1
      BY <1>3, <1>a, <2>1, <2>t, <3>1 DEF AtPos
    <3>2. CASE a < x
      BY <1>3, <2>1, <2>t, <3>2 DEF AtPos
    <3>3. CASE a > x + 1
      BY <1>3, <2>1, <2>t, <3>3 DEF AtPos
    <3> QED BY <2>1, <2>t, <3>1, <3>2, <3>3
  <2> QED BY <2>3, <2>4, <2>5, <2>6, <2>7
<1>11. Linked(r, rs)
  <2> SUFFICES ASSUME NEW k \in Lists
               PROVE  /\ r.head[k] = AtPos(rs[k], 1)
                      /\ r.tail[k] = AtPos(rs[k], Len(rs[k]))
                      /\ r.size[k] = Len(rs[k])
                      /\ \A n \in 1 .. Len(rs[k]) :
                            /\ r.next[rs[k][n]] = AtPos(rs[k], n + 1)
                            /\ r.prev[rs[k][n]] = AtPos(rs[k], n - 1)
    BY DEF Linked
  <2>1. CASE k = l
    BY <1>5, <1>9, <1>10, <2>1
  <2>2. CASE k # l
    BY <1>5, <1>8, <2>2
  <2> QED BY <2>1, <2>2
<1> QED BY <1>4, <1>5, <1>6, <1>7, <1>11 DEF Sound, r, rs, q, p

\* Removing the last position is what Front does.
LEMMA RemoveLastIsFront ==
    ASSUME NEW S, NEW s \in Seq(S), s # <<>>
    PROVE  Len(s) \in 1 .. Len(s) /\ Seqs!RemoveAt(s, Len(s)) = Seqs!Front(s)
<1> DEFINE a == Seqs!RemoveAt(s, Len(s))
           b == Seqs!Front(s)
<1>1. Len(s) \in 1 .. Len(s)
  OBVIOUS
<1>2. /\ a \in Seq(S) /\ Len(a) = Len(s) - 1
      /\ \A n \in 1 .. Len(s) - 1 : a[n] = IF n < Len(s) THEN s[n] ELSE s[n + 1]
  BY <1>1, RemoveAtPositions
<1>3. b = SubSeq(s, 1, Len(s) - 1)
  BY DEF Seqs!Front
<1>4. /\ b \in Seq(S) /\ Len(b) = Len(s) - 1
      /\ \A n \in 1 .. Len(s) - 1 : b[n] = s[n]
  BY <1>1, <1>3, BeforePositions
<1> HIDE DEF a, b
<1>5. \A n \in 1 .. Len(a) : a[n] = b[n]
  BY <1>1, <1>2, <1>4
<1>6. a = b
  BY <1>2, <1>4, <1>5, SeqEqual
<1> QED BY <1>1, <1>6 DEF a, b

\* Moving the front of a list to its front changes nothing.
LEMMA MoveFirst ==
    ASSUME NEW S, NEW s \in Seq(S), s # <<>>
    PROVE  <<s[1]>> \o Seqs!RemoveAt(s, 1) = s
<1> DEFINE a == Seqs!RemoveAt(s, 1)
           b == <<s[1]>> \o a
<1>1. 1 \in 1 .. Len(s) /\ s[1] \in S /\ Len(s) \in Nat
  OBVIOUS
<1>2. /\ a \in Seq(S) /\ Len(a) = Len(s) - 1
      /\ \A n \in 1 .. Len(s) - 1 : a[n] = IF n < 1 THEN s[n] ELSE s[n + 1]
  BY <1>1, RemoveAtPositions
<1> HIDE DEF a
<1>3. /\ b \in Seq(S) /\ Len(b) = Len(a) + 1
      /\ \A n \in 1 .. Len(a) + 1 : b[n] = IF n = 1 THEN s[1] ELSE a[n - 1]
  <2>1. a \in Seq(S) /\ s[1] \in S
    BY <1>1, <1>2
  <2> QED BY ONLY <2>1
<1> HIDE DEF b
<1>4. ASSUME NEW n \in 1 .. Len(b) PROVE b[n] = s[n]
  <2>1. n \in 1 .. Len(s) /\ Len(a) + 1 = Len(s)
    BY <1>1, <1>2, <1>3
  <2>2. CASE n = 1
    BY <1>3, <2>1, <2>2
  <2>3. CASE n # 1
    <3>1. n - 1 \in 1 .. Len(s) - 1 /\ ~ n - 1 < 1 /\ (n - 1) + 1 = n
      BY <1>1, <2>1, <2>3
    <3>2. a[n - 1] = s[n]
      BY <1>2, <3>1
    <3> QED BY <1>3, <2>1, <2>3, <3>2
  <2> QED BY <2>2, <2>3
<1>5. b = s
  BY <1>1, <1>2, <1>3, <1>4, SeqEqual
<1> QED BY <1>5 DEF a, b

-----------------------------------------------------------------------------
(* The specification *)

LruInv == Sound(mem, lists)

LEMMA InitLruInv == Init => LruInv
<1> SUFFICES ASSUME Init PROVE Sound(mem, lists)
  BY DEF LruInv
<1>1. mem = Empty /\ lists = [l \in Lists |-> <<>>]
  BY DEF Init
<1>2. mem \in Memory
  BY <1>1 DEF Empty, Memory, Links
<1>3. \A l \in Lists : lists[l] = <<>> /\ Len(lists[l]) = 0
  BY <1>1
<1>4. lists \in SlotLists
  BY <1>1 DEF SlotLists
<1>5. OnePlace(lists)
  BY <1>3 DEF OnePlace
<1>6. Linked(mem, lists)
  <2>1. \A l \in Lists : mem.head[l] = kInvalidIndex /\ mem.tail[l] = kInvalidIndex /\ mem.size[l] = 0
    BY <1>1 DEF Empty
  <2> QED BY <1>3, <2>1 DEF Linked, AtPos
<1> QED BY <1>2, <1>4, <1>5, <1>6 DEF Sound

LEMMA StepLruInv == LruInv /\ [Next]_vars => LruInv'
<1> SUFFICES ASSUME LruInv, [Next]_vars PROVE Sound(mem, lists)'
  BY DEF LruInv
<1>1. Sound(mem, lists) /\ Linked(mem, lists)
  BY DEF LruInv, Sound
<1>2. \A l \in Lists : /\ lists[l] \in Seq(Slots) /\ Len(lists[l]) \in Nat
                       /\ DOMAIN lists[l] = 1 .. Len(lists[l])
  BY <1>1 DEF Sound, SlotLists
<1>3. ASSUME NEW l \in Lists, NEW i \in Slots, In(l, i)
      PROVE  \E x \in 1 .. Len(lists[l]) : /\ lists[l][x] = i
                                           /\ Unlink(lists[l], i) = Seqs!RemoveAt(lists[l], x)
  <2> DEFINE x == CHOOSE n \in DOMAIN lists[l] : lists[l][n] = i
  <2>1. x \in DOMAIN lists[l] /\ lists[l][x] = i
    BY <1>3 DEF In
  <2>2. Unlink(lists[l], i) = Seqs!RemoveAt(lists[l], x)
    BY DEF Unlink
  <2> HIDE DEF x
  <2> QED BY <1>2, <2>1, <2>2
<1>4. ASSUME NEW l \in Lists, NEW i \in Slots, DoPushFront(l, i) PROVE Sound(mem, lists)'
  <2>1. \A k \in Lists : \A n \in 1 .. Len(lists[k]) : lists[k][n] # i
    BY <1>2, <1>4 DEF DoPushFront, In
  <2>2. mem' = PushFront(mem, l, i) /\ lists' = [lists EXCEPT ![l] = <<i>> \o lists[l]]
    BY <1>4 DEF DoPushFront
  <2> QED BY <1>1, <2>1, <2>2, PushSound
<1>5. ASSUME NEW l \in Lists, NEW i \in Slots, DoRemove(l, i) PROVE Sound(mem, lists)'
  <2>1. PICK x \in 1 .. Len(lists[l]) : /\ lists[l][x] = i
                                        /\ Unlink(lists[l], i) = Seqs!RemoveAt(lists[l], x)
    BY <1>3, <1>5 DEF DoRemove
  <2>2. /\ mem' = Remove(mem, l, lists[l][x])
        /\ lists' = [lists EXCEPT ![l] = Seqs!RemoveAt(lists[l], x)]
    BY <1>5, <2>1 DEF DoRemove
  <2> QED BY <1>1, <2>2, RemoveSound
<1>6. ASSUME NEW l \in Lists, DoPopBack(l) PROVE Sound(mem, lists)'
  <2>1. mem.tail[l] = AtPos(lists[l], Len(lists[l]))
    BY <1>1 DEF Linked
  <2>2. CASE lists[l] = <<>>
    <3>1. mem.tail[l] = kInvalidIndex
      BY <2>1, <2>2 DEF AtPos
    <3> QED BY <1>1, <1>6, <2>2, <3>1 DEF DoPopBack, PopBack
  <2>3. CASE lists[l] # <<>>
    <3> DEFINE x == Len(lists[l])
    <3>1. x \in 1 .. Len(lists[l]) /\ Seqs!RemoveAt(lists[l], x) = Seqs!Front(lists[l])
      BY <1>2, <2>3, RemoveLastIsFront
    <3>2. mem.tail[l] = lists[l][x] /\ lists[l][x] \in Slots
      BY <1>2, <2>1, <3>1 DEF AtPos
    <3>3. mem.tail[l] # kInvalidIndex
      BY <3>2, SlotsAssumption
    <3>4. mem' = Remove(mem, l, lists[l][x])
      BY <1>6, <3>2, <3>3 DEF DoPopBack, PopBack
    <3>5. lists' = [lists EXCEPT ![l] = Seqs!RemoveAt(lists[l], x)]
      BY <1>6, <2>3, <3>1 DEF DoPopBack
    <3> HIDE DEF x
    <3> QED BY <1>1, <3>1, <3>4, <3>5, RemoveSound
  <2> QED BY <2>2, <2>3
<1>7. ASSUME NEW l \in Lists, NEW i \in Slots, DoMoveToFront(l, i) PROVE Sound(mem, lists)'
  <2>1. PICK x \in 1 .. Len(lists[l]) : /\ lists[l][x] = i
                                        /\ Unlink(lists[l], i) = Seqs!RemoveAt(lists[l], x)
    BY <1>3, <1>7 DEF DoMoveToFront
  <2>2. lists' = [lists EXCEPT ![l] = <<i>> \o Seqs!RemoveAt(lists[l], x)]
    BY <1>7, <2>1 DEF DoMoveToFront
  <2>3. CASE i = mem.head[l]
    <3>1. mem' = mem
      BY <1>7, <2>3 DEF DoMoveToFront, MoveToFront
    <3>2. lists[l] # <<>> /\ 1 \in 1 .. Len(lists[l])
      BY <1>2, <2>1
    <3>3. i = lists[l][1]
      BY <1>1, <2>3, <3>2 DEF Linked, AtPos
    <3>4. x = 1
      <4>1. OnePlace(lists) /\ l \in Lists
        BY <1>1 DEF Sound
      <4>2. \A a, b \in 1 .. Len(lists[l]) : lists[l][a] = lists[l][b] => a = b
        BY ONLY <4>1 DEF OnePlace
      <4> QED BY <2>1, <3>2, <3>3, <4>2
    <3>5. <<i>> \o Seqs!RemoveAt(lists[l], x) = lists[l]
      BY <1>2, <3>2, <3>3, <3>4, MoveFirst
    <3>6. lists' = lists
      BY <1>1, <2>2, <3>5 DEF Sound, SlotLists
    <3> QED BY <1>1, <3>1, <3>6
  <2>4. CASE i # mem.head[l]
    <3> DEFINE m == Remove(mem, l, lists[l][x])
               ls == [lists EXCEPT ![l] = Seqs!RemoveAt(lists[l], x)]
    <3>1. /\ Sound(m, ls)
          /\ \A k \in Lists : \A n \in 1 .. Len(ls[k]) : ls[k][n] # lists[l][x]
      BY <1>1, RemoveSound
    <3>2. mem' = PushFront(m, l, i)
      BY <1>7, <2>1, <2>4 DEF DoMoveToFront, MoveToFront
    <3>3. ls[l] = Seqs!RemoveAt(lists[l], x) /\ lists' = [ls EXCEPT ![l] = <<i>> \o ls[l]]
      BY <1>1, <2>2 DEF Sound, SlotLists
    <3> HIDE DEF m, ls
    <3> QED BY <2>1, <3>1, <3>2, <3>3, PushSound
  <2> QED BY <2>3, <2>4
<1>8. CASE UNCHANGED vars
  BY <1>1, <1>8 DEF vars
<1> QED BY <1>4, <1>5, <1>6, <1>7, <1>8 DEF Next

LEMMA LruInvariant == Spec => []LruInv
BY InitLruInv, StepLruInv, PTL DEF Spec

\* push_front, remove, pop_back and move_to_front keep head_, tail_, size_ and
\* the links of every list of the stripe consistent in both directions, however
\* long the lists and however the operations follow each other.
THEOREM LruLinksAgree == Spec => []LinksAgree
<1>1. LruInv => LinksAgree
  <2> SUFFICES ASSUME LruInv, NEW l \in Lists
               PROVE  LET list == lists[l]
                          At(n) == IF n \in DOMAIN list THEN list[n] ELSE kInvalidIndex
                      IN /\ mem.head[l] = At(1)
                         /\ mem.tail[l] = At(Len(list))
                         /\ mem.size[l] = Len(list)
                         /\ \A n \in DOMAIN list :
                               /\ mem.next[list[n]] = At(n + 1)
                               /\ mem.prev[list[n]] = At(n - 1)
    BY DEF LinksAgree
  <2>1. Linked(mem, lists) /\ DOMAIN lists[l] = 1 .. Len(lists[l])
    BY DEF LruInv, Sound, SlotLists
  <2> QED BY <2>1 DEF Linked, AtPos
<1> QED BY <1>1, LruInvariant, PTL

-----------------------------------------------------------------------------
(* The sketch *)

\* Every nonempty set of naturals has a least element, which is what Min picks.
LEMMA LeastNatural ==
    ASSUME NEW T, T \subseteq Nat, T # {}
    PROVE  \E x \in T : \A y \in T : x =< y
<1> DEFINE R == OpToRel(<, Nat)
<1>1. IsWellFoundedOn(R, Nat)
  BY NatLessThanWellFounded
<1>2. \E x \in T : \A y \in T : ~ (<<y, x>> \in R)
  <2> HIDE DEF R
  <2> QED BY <1>1, WFMin
<1>3. \A x, y \in Nat : <<y, x>> \in R <=> y < x
  BY DEF OpToRel
<1> HIDE DEF R
<1>4. PICK x \in T : \A y \in T : ~ (<<y, x>> \in R)
  BY <1>2
<1>5. ASSUME NEW y \in T PROVE x =< y
  <2>1. x \in Nat /\ y \in Nat /\ ~ (y < x)
    BY <1>3, <1>4
  <2> QED BY <2>1
<1> QED BY <1>5

\* The estimate is the value of one of the key's counters and no larger than
\* any of them.
LEMMA EstimateIsLeast ==
    ASSUME NEW table \in Table, NEW k \in Keys
    PROVE  /\ \E r \in Rows : Estimate(table, k) = table[r][Hash[k][r]]
           /\ \A r \in Rows : Estimate(table, k) =< table[r][Hash[k][r]]
           /\ Estimate(table, k) \in Nat
<1> DEFINE T == {table[r][Hash[k][r]] : r \in Rows}
<1>1. \A r \in Rows : table[r][Hash[k][r]] \in Nat
  BY HashAssumption, CounterAssumption DEF Table
<1>2. T \subseteq Nat /\ T # {}
  BY <1>1, ShapeAssumption
<1>3. \E x \in T : \A y \in T : x =< y
  <2> HIDE DEF T
  <2> QED BY <1>2, LeastNatural
<1>4. Estimate(table, k) \in T /\ \A y \in T : Estimate(table, k) =< y
  BY <1>3 DEF Estimate, Min
<1> QED BY <1>1, <1>4

\* The inductive invariant: each counter is between the count of every key
\* that hashes to it and the number of all increments.
Covers ==
    /\ CmsTypeOK
    /\ \A r \in Rows, c \in Cols : counters[r][c] =< total_increments
    /\ total_increments < CounterMod =>
          \A k \in Keys, r \in Rows : exact[k] =< counters[r][Hash[k][r]]

\* Increments, decays and resets preserve the invariant.
LEMMA CoversInductive == Covers /\ [CmsNext]_cmsVars => Covers'
<1> SUFFICES ASSUME Covers, [CmsNext]_cmsVars PROVE Covers'
  OBVIOUS
<1> USE CounterAssumption, HashAssumption
<1>1. ASSUME NEW k \in Keys, CmsIncrement(k) PROVE Covers'
  <2>1. /\ counters' = Increment(counters, k)
        /\ total_increments' = total_increments + 1
        /\ exact' = [exact EXCEPT ![k] = exact[k] + 1]
        /\ total_increments \in Nat /\ exact \in [Keys -> Nat]
        /\ counters \in Table
    BY <1>1 DEF CmsIncrement, Covers, CmsTypeOK
  <2>2. ASSUME NEW r \in Rows, NEW c \in Cols
        PROVE  /\ counters'[r][c] \in 0 .. CounterMod - 1
               /\ counters[r][c] \in 0 .. CounterMod - 1
               /\ counters[r][c] + 1 < CounterMod =>
                     counters'[r][c] = IF c = Hash[k][r] THEN counters[r][c] + 1 ELSE counters[r][c]
               /\ counters'[r][c] =< counters[r][c] + 1
    <3>1. counters[r][c] \in 0 .. CounterMod - 1
      BY <2>1 DEF Table
    <3>2. counters'[r][c] = IF c = Hash[k][r] THEN (counters[r][c] + 1) % CounterMod ELSE counters[r][c]
      BY <2>1 DEF Increment
    <3>3. CASE counters[r][c] + 1 < CounterMod
      BY <3>1, <3>2, <3>3
    <3>4. CASE counters[r][c] + 1 = CounterMod
      BY <3>1, <3>2, <3>4
    <3> QED BY <3>1, <3>3, <3>4
  <2>3. counters' \in Table
    <3>1. counters' = [r \in Rows |-> [c \in Cols |-> counters'[r][c]]]
      BY <2>1 DEF Increment
    <3>2. \A r \in Rows : \A c \in Cols : counters'[r][c] \in 0 .. CounterMod - 1
      BY <2>2
    <3> QED BY <3>1, <3>2, Zenon DEF Table
  <2>4. CmsTypeOK'
    BY <2>1, <2>3 DEF CmsTypeOK
  <2>5. \A r \in Rows, c \in Cols : counters'[r][c] =< total_increments'
    BY <2>1, <2>2 DEF Covers
  <2>6. ASSUME total_increments' < CounterMod, NEW j \in Keys, NEW r \in Rows
        PROVE  exact'[j] =< counters'[r][Hash[j][r]]
    <3>1. Hash[j][r] \in Cols /\ Hash[k][r] \in Cols
      OBVIOUS
    <3>2. exact[j] =< counters[r][Hash[j][r]] /\ counters[r][Hash[j][r]] =< total_increments
      BY <2>1, <2>6, <3>1 DEF Covers
    <3>3. counters[r][Hash[j][r]] + 1 < CounterMod
      BY <2>1, <2>2, <2>6, <3>1, <3>2
    <3>4. counters'[r][Hash[j][r]] = IF Hash[j][r] = Hash[k][r] THEN counters[r][Hash[j][r]] + 1 ELSE counters[r][Hash[j][r]]
      BY <2>2, <3>1, <3>3
    <3>5. exact'[j] = IF j = k THEN exact[j] + 1 ELSE exact[j]
      BY <2>1
    <3> QED BY <2>1, <2>2, <3>1, <3>2, <3>4, <3>5
  <2> QED BY <2>4, <2>5, <2>6 DEF Covers
<1>2. CASE CmsDecay
  <2>1. /\ counters' = Decay(counters)
        /\ total_increments' = total_increments
        /\ exact' = [k \in Keys |-> exact[k] \div 2]
        /\ total_increments \in Nat /\ exact \in [Keys -> Nat]
        /\ counters \in Table
    BY <1>2 DEF CmsDecay, Covers, CmsTypeOK
  <2>2. ASSUME NEW r \in Rows, NEW c \in Cols
        PROVE  /\ counters[r][c] \in 0 .. CounterMod - 1
               /\ counters'[r][c] = counters[r][c] \div 2
               /\ counters'[r][c] \in 0 .. CounterMod - 1
               /\ counters'[r][c] =< counters[r][c]
    <3>1. counters[r][c] \in 0 .. CounterMod - 1
      BY <2>1 DEF Table
    <3>2. counters'[r][c] = counters[r][c] \div 2
      BY <2>1 DEF Decay
    <3> QED BY <3>1, <3>2
  <2>3. counters' \in Table
    <3>1. counters' = [r \in Rows |-> [c \in Cols |-> counters'[r][c]]]
      BY <2>1 DEF Decay
    <3>2. \A r \in Rows : \A c \in Cols : counters'[r][c] \in 0 .. CounterMod - 1
      BY <2>2
    <3> QED BY <3>1, <3>2, Zenon DEF Table
  <2>4. \A k \in Keys : exact[k] \in Nat /\ exact'[k] = exact[k] \div 2 /\ exact'[k] \in Nat
    BY <2>1
  <2>5. CmsTypeOK'
    BY <2>1, <2>3, <2>4 DEF CmsTypeOK
  <2>6. \A r \in Rows, c \in Cols : counters'[r][c] =< total_increments'
    BY <2>1, <2>2 DEF Covers
  <2>7. ASSUME total_increments' < CounterMod, NEW j \in Keys, NEW r \in Rows
        PROVE  exact'[j] =< counters'[r][Hash[j][r]]
    <3>1. Hash[j][r] \in Cols
      OBVIOUS
    <3>2. exact[j] =< counters[r][Hash[j][r]]
      BY <2>1, <2>7 DEF Covers
    <3> QED BY <2>2, <2>4, <3>1, <3>2
  <2> QED BY <2>5, <2>6, <2>7 DEF Covers
<1>3. CASE CmsReset
  BY <1>3 DEF CmsReset, Covers, CmsTypeOK, ZeroTable, Table
<1>4. CASE UNCHANGED cmsVars
  BY <1>4 DEF cmsVars, Covers, CmsTypeOK
<1> QED BY <1>1, <1>2, <1>3, <1>4 DEF CmsNext

\* The invariant implies the properties of the estimates.
LEMMA CoversImplies == Covers => CmsTypeOK /\ NeverUnderestimates /\ NeverExceedsTotal
<1> SUFFICES ASSUME Covers PROVE NeverUnderestimates /\ NeverExceedsTotal
  BY DEF Covers
<1>1. ASSUME NEW k \in Keys
      PROVE  \E r \in Rows : /\ Hash[k][r] \in Cols
                             /\ Estimate(counters, k) = counters[r][Hash[k][r]]
  BY EstimateIsLeast, HashAssumption DEF Covers, CmsTypeOK
<1> QED BY <1>1 DEF Covers, NeverUnderestimates, NeverExceedsTotal, CmsTypeOK

LEMMA InitCovers == CmsInit => Covers
BY CounterAssumption, HashAssumption DEF CmsInit, Covers, CmsTypeOK, ZeroTable, Table

LEMMA SketchInvariant == CmsSpec => []Covers
BY InitCovers, CoversInductive, PTL DEF CmsSpec

\* For every shape of the table and every hash: while no counter can have
\* wrapped the sketch never underestimates a key, through any mix of
\* increments, decays and resets.
THEOREM SketchNeverUnderestimates == CmsSpec => []NeverUnderestimates
BY SketchInvariant, CoversImplies, PTL

\* Collisions never inflate an estimate beyond the number of increments since
\* the last reset, wrapped counters or not.
THEOREM SketchNeverExceedsTotal == CmsSpec => []NeverExceedsTotal
BY SketchInvariant, CoversImplies, PTL

-----------------------------------------------------------------------------
(* A key with a counter of its own *)

\* No other key hits the column of k in row r.
Alone(k, r) == \A j \in Keys \ {k} : Hash[j][r] # Hash[k][r]

\* Such a counter is the key's count: what makes ExactWithoutCollision inductive.
OwnCounters ==
    total_increments < CounterMod =>
        \A k \in Keys, r \in Rows : Alone(k, r) => counters[r][Hash[k][r]] = exact[k]

LEMMA OwnCountersInductive == Covers /\ OwnCounters /\ [CmsNext]_cmsVars => OwnCounters'
<1> SUFFICES ASSUME Covers, OwnCounters, [CmsNext]_cmsVars,
                    total_increments' < CounterMod,
                    NEW k \in Keys, NEW r \in Rows, Alone(k, r)
             PROVE  counters'[r][Hash[k][r]] = exact'[k]
  BY DEF OwnCounters, Alone
<1> DEFINE c == Hash[k][r]
<1>0. /\ c \in Cols /\ counters \in Table /\ exact \in [Keys -> Nat]
      /\ total_increments \in Nat /\ counters[r][c] =< total_increments
      /\ counters[r][c] \in 0 .. CounterMod - 1
  BY HashAssumption DEF Covers, CmsTypeOK, Table
<1>c. CounterMod \in Nat \ {0}
  BY CounterAssumption
<1>1. ASSUME NEW j \in Keys, CmsIncrement(j) PROVE counters'[r][c] = exact'[k]
  <2>1. /\ total_increments' = total_increments + 1
        /\ exact' = [exact EXCEPT ![j] = exact[j] + 1]
        /\ counters' = Increment(counters, j)
    BY <1>1 DEF CmsIncrement
  <2>2. counters'[r][c] = IF c = Hash[j][r] THEN (counters[r][c] + 1) % CounterMod ELSE counters[r][c]
    BY <1>0, <2>1 DEF Increment
  <2>3. counters[r][c] = exact[k]
    BY <1>0, <1>c, <2>1 DEF OwnCounters
  <2>4. CASE j = k
    <3>1. counters[r][c] + 1 < CounterMod
      BY <1>0, <1>c, <2>1
    <3>2. (counters[r][c] + 1) % CounterMod = counters[r][c] + 1
      BY <1>0, <1>c, <3>1
    <3> QED BY <1>0, <2>1, <2>2, <2>3, <2>4, <3>2
  <2>5. CASE j # k
    <3>1. c # Hash[j][r]
      BY <2>5 DEF Alone
    <3> QED BY <1>0, <2>1, <2>2, <2>3, <2>5, <3>1
  <2> QED BY <2>4, <2>5
<1>2. CASE CmsDecay
  <2>1. counters[r][c] = exact[k]
    BY <1>2 DEF OwnCounters, CmsDecay
  <2>2. counters'[r][c] = counters[r][c] \div 2 /\ exact'[k] = exact[k] \div 2
    BY <1>0, <1>2 DEF CmsDecay, Decay
  <2> QED BY <2>1, <2>2
<1>3. CASE CmsReset
  BY <1>0, <1>3 DEF CmsReset, ZeroTable
<1>4. CASE UNCHANGED cmsVars
  BY <1>4 DEF cmsVars, OwnCounters
<1> QED BY <1>1, <1>2, <1>3, <1>4 DEF CmsNext

LEMMA OwnCountersImplies == Covers /\ OwnCounters => ExactWithoutCollision
<1> SUFFICES ASSUME Covers, OwnCounters, total_increments < CounterMod,
                    NEW k \in Keys, NEW r \in Rows, Alone(k, r)
             PROVE  Estimate(counters, k) = exact[k]
  BY DEF ExactWithoutCollision, Alone
<1>1. counters \in Table /\ exact[k] \in Nat
  BY DEF Covers, CmsTypeOK
<1>2. Estimate(counters, k) =< counters[r][Hash[k][r]] /\ Estimate(counters, k) \in Nat
  BY <1>1, EstimateIsLeast
<1>3. counters[r][Hash[k][r]] = exact[k]
  BY DEF OwnCounters
<1>4. Estimate(counters, k) >= exact[k]
  BY CoversImplies DEF NeverUnderestimates
<1> QED BY <1>1, <1>2, <1>3, <1>4

\* One row in which no other key hits its counter makes a key's estimate exact,
\* whatever happens in the other rows, until a counter can have wrapped.
THEOREM SketchExactWithoutCollision == CmsSpec => []ExactWithoutCollision
<1>1. CmsInit => OwnCounters
  BY HashAssumption DEF CmsInit, OwnCounters, ZeroTable
<1>2. CmsSpec => []OwnCounters
  BY <1>1, SketchInvariant, OwnCountersInductive, PTL DEF CmsSpec
<1> QED BY <1>2, SketchInvariant, OwnCountersImplies, PTL
=============================================================================
