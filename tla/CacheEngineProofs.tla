------------------------- MODULE CacheEngineProofs -------------------------
(***************************************************************************)
(* Proofs about the engine for any number of clients, keys, L2 stripes and *)
(* operations, and any size of the queue, the batches and L2.              *)
(***************************************************************************)
EXTENDS CacheEngine, TLAPS

\* A client has a key while an operation is under way, and a value where the
\* operation needs one.
ClientOK ==
    \A c \in Clients :
        /\ client[c].at = "idle" <=> client[c].key = NoKey
        /\ client[c].at \in {"get_fill", "put_l1"} => client[c].value \in Values

\* While a key that is not suspect is written, nobody else uses it.
OneWriter ==
    \A k \in Keys \ suspect : \A c, d \in Clients :
        client[c].key = k /\ client[d].key = k /\ client[c].at \in WriteLabels => c = d

\* Whatever is on its way to L2 or in it was demoted.
BelowSuspect ==
    /\ \A n \in 1 .. Len(queue) : queue[n].key \in suspect
    /\ \A n \in 1 .. Len(batch) : batch[n].key \in suspect
    /\ \A s \in L2Stripes : \A n \in 1 .. Len(l2[s]) : l2[s][n].key \in suspect

\* What a client inside an operation knows of its key, with l in L1 and b in
\* the backend.
Held(st, l, b) ==
    /\ st.at \in {"get_fill", "put_l1"} => st.value = b
    /\ st.at \in {"remove_l2", "remove_backend"} => l = NoValue

\* This is so for every client whose key is not suspect.
HeldCoherent ==
    \A c \in Clients : client[c].key \in Keys \ suspect =>
        Held(client[c], l1[client[c].key], backend[client[c].key])

\* L1 has the backend's value, or none, of a key that no one is writing.
QuietCoherent == \A k \in Keys \ suspect : ~ Writing(k) => l1[k] \in {NoValue, backend[k]}

Coherent == ClientOK /\ OneWriter /\ HeldCoherent /\ QuietCoherent

EngineInv == TypeOK /\ L2WellFormed /\ BelowSuspect /\ Coherent

-----------------------------------------------------------------------------
(* L2 *)

\* The part of a sequence before one of its positions.
LEMMA BeforePositions ==
    ASSUME NEW S, NEW s \in Seq(S), NEW m \in 1 .. Len(s)
    PROVE  /\ SubSeq(s, 1, m - 1) \in Seq(S) /\ Len(SubSeq(s, 1, m - 1)) = m - 1
           /\ \A n \in 1 .. m - 1 : SubSeq(s, 1, m - 1)[n] = s[n]
OBVIOUS

\* What SequencesExt!RemoveAt does to the positions.
LEMMA RemoveAtPositions ==
    ASSUME NEW S, NEW s \in Seq(S), NEW m \in 1 .. Len(s)
    PROVE  /\ RemoveAt(s, m) \in Seq(S)
           /\ Len(RemoveAt(s, m)) = Len(s) - 1
           /\ \A n \in 1 .. Len(s) - 1 : RemoveAt(s, m)[n] = IF n < m THEN s[n] ELSE s[n + 1]
<1> DEFINE p == SubSeq(s, 1, m - 1)
           q == SubSeq(s, m + 1, Len(s))
<1>1. /\ p \in Seq(S) /\ Len(p) = m - 1
      /\ \A n \in 1 .. m - 1 : p[n] = s[n]
  BY BeforePositions
<1>2. /\ q \in Seq(S) /\ Len(q) = Len(s) - m
      /\ \A n \in 1 .. Len(s) - m : q[n] = s[m + n]
  OBVIOUS
<1>3. RemoveAt(s, m) = p \o q
  BY DEF RemoveAt
<1> HIDE DEF p, q
<1>4. p \o q \in Seq(S) /\ Len(p \o q) = Len(p) + Len(q)
  <2>1. p \in Seq(S) /\ q \in Seq(S)
    BY <1>1, <1>2
  <2> QED BY ONLY <2>1
<1>5. Len(p \o q) = Len(s) - 1
  BY <1>1, <1>2, <1>4
<1>6. ASSUME NEW n \in 1 .. Len(s) - 1
      PROVE  (p \o q)[n] = IF n < m THEN p[n] ELSE q[n - (m - 1)]
  <2>1. n \in 1 .. Len(p) + Len(q)
    BY <1>1, <1>2
  <2>2. (p \o q)[n] = IF n <= Len(p) THEN p[n] ELSE q[n - Len(p)]
    BY <1>1, <1>2, <2>1
  <2> QED BY <1>1, <2>2
<1>7. ASSUME NEW n \in 1 .. Len(s) - 1, ~ n < m PROVE q[n - (m - 1)] = s[n + 1]
  <2>1. n - (m - 1) \in 1 .. Len(s) - m /\ m + (n - (m - 1)) = n + 1
    BY <1>7
  <2> QED BY <1>2, <2>1
<1> QED BY <1>1, <1>3, <1>4, <1>5, <1>6, <1>7

\* An LRU list of stripe s: distinct keys that hash to s.
ListOK(list, s) ==
    /\ list \in Seq(ItemSet)
    /\ \A n \in 1 .. Len(list) : L2Stripe[list[n].key] = s
    /\ \A m, n \in 1 .. Len(list) : list[m].key = list[n].key => m = n

\* Part of a list, in which every item is one of the list's.
Within(part, list) ==
    \A n \in 1 .. Len(part) : \E m \in 1 .. Len(list) : part[n] = list[m]

LEMMA RemoveAtOK ==
    ASSUME NEW s, NEW list, ListOK(list, s), NEW m \in 1 .. Len(list)
    PROVE  /\ ListOK(RemoveAt(list, m), s) /\ Within(RemoveAt(list, m), list)
           /\ Len(RemoveAt(list, m)) = Len(list) - 1
           /\ \A n \in 1 .. Len(RemoveAt(list, m)) : RemoveAt(list, m)[n].key # list[m].key
<1> DEFINE r == RemoveAt(list, m)
<1>1. /\ list \in Seq(ItemSet) /\ Len(list) \in Nat
      /\ \A n \in 1 .. Len(list) : L2Stripe[list[n].key] = s
      /\ \A a, b \in 1 .. Len(list) : list[a].key = list[b].key => a = b
  BY DEF ListOK
<1>2. /\ r \in Seq(ItemSet) /\ Len(r) = Len(list) - 1
      /\ \A n \in 1 .. Len(list) - 1 : r[n] = IF n < m THEN list[n] ELSE list[n + 1]
  BY <1>1, RemoveAtPositions
<1> HIDE DEF r
<1>3. ASSUME NEW n \in 1 .. Len(r)
      PROVE  /\ \E a \in 1 .. Len(list) : r[n] = list[a]
             /\ L2Stripe[r[n].key] = s /\ r[n].key # list[m].key
  <2>1. n \in 1 .. Len(list) /\ n + 1 \in 1 .. Len(list) /\ n \in 1 .. Len(list) - 1
    BY <1>1, <1>2
  <2>2. PICK a \in 1 .. Len(list) : r[n] = list[a] /\ a # m
    BY <1>2, <2>1
  <2> QED BY <1>1, <2>2
<1>4. ASSUME NEW a \in 1 .. Len(r), NEW b \in 1 .. Len(r), r[a].key = r[b].key PROVE a = b
  <2>1. /\ a \in 1 .. Len(list) /\ a + 1 \in 1 .. Len(list)
        /\ b \in 1 .. Len(list) /\ b + 1 \in 1 .. Len(list)
        /\ a \in 1 .. Len(list) - 1 /\ b \in 1 .. Len(list) - 1
    BY <1>1, <1>2
  <2>2. PICK x \in 1 .. Len(list) : r[a] = list[x] /\ x = IF a < m THEN a ELSE a + 1
    BY <1>2, <2>1
  <2>3. PICK y \in 1 .. Len(list) : r[b] = list[y] /\ y = IF b < m THEN b ELSE b + 1
    BY <1>2, <2>1
  <2>4. x = y
    <3>1. list[x].key = list[y].key
      BY <1>4, <2>2, <2>3
    <3> QED BY <1>1, <3>1
  <2>5. m \in Int /\ a \in Int /\ b \in Int
    BY <2>1
  <2> QED BY ONLY <2>2, <2>3, <2>4, <2>5
<1>5. ListOK(r, s)
  BY <1>2, <1>3, <1>4 DEF ListOK
<1>6. Within(r, list)
  BY <1>3 DEF Within
<1> QED BY <1>2, <1>3, <1>5, <1>6 DEF r

LEMMA FrontOK ==
    ASSUME NEW s, NEW list, ListOK(list, s), list # <<>>
    PROVE  /\ ListOK(Front(list), s) /\ Within(Front(list), list)
           /\ Len(Front(list)) = Len(list) - 1
<1> DEFINE r == Front(list)
<1>1. /\ list \in Seq(ItemSet) /\ Len(list) \in Nat /\ Len(list) > 0
      /\ \A n \in 1 .. Len(list) : L2Stripe[list[n].key] = s
      /\ \A a, b \in 1 .. Len(list) : list[a].key = list[b].key => a = b
  BY DEF ListOK
<1>2. /\ r \in Seq(ItemSet) /\ Len(r) = Len(list) - 1
      /\ \A n \in 1 .. Len(list) - 1 : r[n] = list[n]
  <2>1. r = SubSeq(list, 1, Len(list) - 1)
    BY DEF Front
  <2>2. Len(list) \in 1 .. Len(list) /\ list \in Seq(ItemSet)
    BY <1>1
  <2>3. /\ SubSeq(list, 1, Len(list) - 1) \in Seq(ItemSet)
        /\ Len(SubSeq(list, 1, Len(list) - 1)) = Len(list) - 1
        /\ \A n \in 1 .. Len(list) - 1 : SubSeq(list, 1, Len(list) - 1)[n] = list[n]
    BY <2>2, BeforePositions
  <2> QED BY <2>1, <2>3
<1> HIDE DEF r
<1>3. ListOK(r, s)
  <2>1. \A n \in 1 .. Len(r) : n \in 1 .. Len(list) /\ r[n] = list[n]
    BY <1>1, <1>2
  <2>2. \A n \in 1 .. Len(r) : L2Stripe[r[n].key] = s
    BY <1>1, <2>1
  <2>3. \A a, b \in 1 .. Len(r) : r[a].key = r[b].key => a = b
    BY <1>1, <2>1
  <2> QED BY <1>2, <2>2, <2>3 DEF ListOK
<1>4. Within(r, list)
  BY <1>1, <1>2 DEF Within
<1> QED BY <1>2, <1>3, <1>4 DEF r

LEMMA PushOK ==
    ASSUME NEW s, NEW list, ListOK(list, s), NEW item \in ItemSet, L2Stripe[item.key] = s,
           \A n \in 1 .. Len(list) : list[n].key # item.key
    PROVE  /\ ListOK(<<item>> \o list, s)
           /\ Len(<<item>> \o list) = Len(list) + 1
           /\ \A n \in 1 .. Len(<<item>> \o list) :
                 (<<item>> \o list)[n] = item \/ \E m \in 1 .. Len(list) : (<<item>> \o list)[n] = list[m]
<1> DEFINE r == <<item>> \o list
<1>1. /\ list \in Seq(ItemSet) /\ Len(list) \in Nat
      /\ \A n \in 1 .. Len(list) : L2Stripe[list[n].key] = s
      /\ \A a, b \in 1 .. Len(list) : list[a].key = list[b].key => a = b
  BY DEF ListOK
<1>2. /\ r \in Seq(ItemSet) /\ Len(r) = Len(list) + 1 /\ r[1] = item
      /\ \A n \in 2 .. Len(list) + 1 : r[n] = list[n - 1]
  <2>1. list \in Seq(ItemSet) /\ item \in ItemSet
    BY <1>1
  <2> QED BY ONLY <2>1
<1> HIDE DEF r
<1>3. ASSUME NEW n \in 1 .. Len(r)
      PROVE  (n = 1 /\ r[n] = item) \/ (n - 1 \in 1 .. Len(list) /\ r[n] = list[n - 1])
  BY <1>1, <1>2
<1>4. ASSUME NEW a \in 1 .. Len(r), NEW b \in 1 .. Len(r), r[a].key = r[b].key PROVE a = b
  <2>1. CASE a = 1 \/ b = 1
    <3>1. ASSUME NEW n \in 1 .. Len(r), n # 1 PROVE r[n].key # item.key
      BY <1>3, <3>1
    <3>2. r[1].key = item.key
      BY <1>2
    <3> QED BY <1>4, <2>1, <3>1, <3>2
  <2>2. CASE a # 1 /\ b # 1
    <3>1. a - 1 = b - 1
      <4>1. /\ a - 1 \in 1 .. Len(list) /\ r[a] = list[a - 1]
            /\ b - 1 \in 1 .. Len(list) /\ r[b] = list[b - 1]
        BY <1>3, <2>2
      <4>2. list[a - 1].key = list[b - 1].key
        BY <1>4, <4>1
      <4> QED BY <1>1, <4>1, <4>2
    <3> QED BY <1>1, <1>2, <3>1
  <2> QED BY <2>1, <2>2
<1>5. ListOK(r, s)
  <2>1. \A n \in 1 .. Len(r) : L2Stripe[r[n].key] = s
    BY <1>1, <1>3
  <2> QED BY <1>2, <1>4, <2>1 DEF ListOK
<1> QED BY <1>2, <1>3, <1>5 DEF r

L2Type == l2 \in [L2Stripes -> Seq(ItemSet)]

\* L2WellFormed, stripe by stripe.
LEMMA L2Lists ==
    ASSUME L2Type
    PROVE  L2WellFormed <=> \A s \in L2Stripes : ListOK(l2[s], s) /\ Len(l2[s]) <= L2Capacity
<1>1. \A s \in L2Stripes : l2[s] \in Seq(ItemSet) /\ DOMAIN l2[s] = 1 .. Len(l2[s])
  BY DEF L2Type
<1> QED BY <1>1 DEF L2WellFormed, ListOK

LEMMA L2ListsNext ==
    ASSUME L2Type', \A s \in L2Stripes : ListOK(l2'[s], s) /\ Len(l2'[s]) <= L2Capacity
    PROVE  L2WellFormed'
<1> SUFFICES ASSUME NEW s \in L2Stripes
             PROVE  /\ Len(l2'[s]) <= L2Capacity
                    /\ \A n \in DOMAIN l2'[s] : L2Stripe[l2'[s][n].key] = s
                    /\ \A m, n \in DOMAIN l2'[s] : l2'[s][m].key = l2'[s][n].key => m = n
  BY DEF L2WellFormed
<1>1. l2'[s] \in Seq(ItemSet) /\ DOMAIN l2'[s] = 1 .. Len(l2'[s])
  BY DEF L2Type
<1>2. ListOK(l2'[s], s) /\ Len(l2'[s]) <= L2Capacity
  OBVIOUS
<1> QED BY <1>1, <1>2 DEF ListOK

\* A key that L2 has is at one position of its stripe.
LEMMA L2PosOK ==
    ASSUME L2Type, NEW k \in Keys, L2Has(k)
    PROVE  /\ L2Stripe[k] \in L2Stripes
           /\ L2Pos(k) \in 1 .. Len(l2[L2Stripe[k]])
           /\ l2[L2Stripe[k]][L2Pos(k)] \in ItemSet
           /\ l2[L2Stripe[k]][L2Pos(k)].key = k
<1>1. L2Stripe[k] \in L2Stripes
  BY EngineAssumption
<1>2. l2[L2Stripe[k]] \in Seq(ItemSet)
  BY <1>1 DEF L2Type
<1>3. L2Pos(k) \in DOMAIN l2[L2Stripe[k]] /\ l2[L2Stripe[k]][L2Pos(k)].key = k
  BY DEF L2Has, L2Pos
<1> QED BY <1>1, <1>2, <1>3

\* l2_get and l2_remove take the key's item, if there is one, and nothing else.
LEMMA L2EraseOK ==
    ASSUME L2Type, L2WellFormed, NEW k \in Keys, L2Erase(k)
    PROVE  /\ L2Type' /\ L2WellFormed'
           /\ \A s \in L2Stripes : Within(l2'[s], l2[s])
<1> DEFINE t == L2Stripe[k]
<1>t. t \in L2Stripes
  BY EngineAssumption
<1>0. \A s \in L2Stripes : /\ l2[s] \in Seq(ItemSet) /\ Len(l2[s]) \in Nat
                           /\ ListOK(l2[s], s) /\ Len(l2[s]) <= L2Capacity
  BY L2Lists DEF L2Type
<1>1. CASE ~ L2Has(k)
  <2>1. l2' = l2
    BY <1>1 DEF L2Erase
  <2>2. \A s \in L2Stripes : Within(l2[s], l2[s])
    BY DEF Within
  <2> QED BY <2>1, <2>2 DEF L2Type, L2WellFormed
<1>2. CASE L2Has(k)
  <2> DEFINE r == RemoveAt(l2[t], L2Pos(k))
  <2>1. l2' = [l2 EXCEPT ![t] = r]
    BY <1>2 DEF L2Erase, L2Without
  <2>2. L2Pos(k) \in 1 .. Len(l2[t])
    BY <1>2, L2PosOK
  <2>3. ListOK(r, t) /\ Within(r, l2[t]) /\ Len(r) = Len(l2[t]) - 1
    BY <1>t, <1>0, <2>2, RemoveAtOK
  <2> HIDE DEF r, t
  <2>4. /\ L2Type'
        /\ \A s \in L2Stripes : l2'[s] = IF s = t THEN r ELSE l2[s]
    BY <1>t, <2>1, <2>3 DEF L2Type, ListOK
  <2>5. \A s \in L2Stripes : ListOK(l2'[s], s) /\ Len(l2'[s]) <= L2Capacity
    <3>1. Len(r) <= L2Capacity
      BY <1>t, <1>0, <2>3, EngineAssumption
    <3> QED BY <1>0, <2>3, <2>4, <3>1
  <2>6. L2WellFormed'
    BY <2>4, <2>5, L2ListsNext
  <2>7. \A s \in L2Stripes : Within(l2[s], l2[s])
    BY DEF Within
  <2> QED BY <2>3, <2>4, <2>6, <2>7
<1> QED BY <1>1, <1>2

\* One item of l2_put_batch enters its stripe; the others were there before.
LEMMA L2InsertOK ==
    ASSUME L2Type, L2WellFormed, NEW item \in ItemSet, L2Insert(item)
    PROVE  /\ L2Type' /\ L2WellFormed'
           /\ \A s \in L2Stripes : \A n \in 1 .. Len(l2'[s]) :
                 l2'[s][n] = item \/ \E m \in 1 .. Len(l2[s]) : l2'[s][n] = l2[s][m]
<1> DEFINE k == item.key
           t == L2Stripe[k]
           rest == IF L2Has(k) THEN L2Without(k)
                   ELSE IF Len(l2[t]) >= L2Capacity THEN Front(l2[t])
                   ELSE l2[t]
<1>k. k \in Keys
  BY DEF ItemSet
<1>t. t \in L2Stripes
  BY <1>k, EngineAssumption
<1>i. l2' = [l2 EXCEPT ![t] = <<item>> \o rest]
  BY DEF L2Insert
<1>0. \A s \in L2Stripes : /\ l2[s] \in Seq(ItemSet) /\ Len(l2[s]) \in Nat
                           /\ ListOK(l2[s], s) /\ Len(l2[s]) <= L2Capacity
  BY L2Lists DEF L2Type
<1>c. L2Capacity \in Nat /\ L2Capacity >= 1
  BY EngineAssumption
<1>1. /\ ListOK(rest, t) /\ Within(rest, l2[t]) /\ Len(rest) + 1 <= L2Capacity
      /\ \A n \in 1 .. Len(rest) : rest[n].key # k
  <2>1. CASE L2Has(k)
    <3>1. L2Pos(k) \in 1 .. Len(l2[t]) /\ l2[t][L2Pos(k)].key = k
      BY <1>k, <2>1, L2PosOK
    <3>2. rest = RemoveAt(l2[t], L2Pos(k))
      BY <2>1 DEF L2Without
    <3>0. ListOK(l2[t], t)
      BY <1>t, <1>0
    <3> HIDE DEF rest, t, k
    <3>3. /\ ListOK(rest, t) /\ Within(rest, l2[t]) /\ Len(rest) = Len(l2[t]) - 1
          /\ \A n \in 1 .. Len(rest) : rest[n].key # l2[t][L2Pos(k)].key
      BY <3>0, <3>1, <3>2, RemoveAtOK
    <3>4. Len(l2[t]) \in Nat /\ Len(l2[t]) <= L2Capacity
      BY <1>t, <1>0
    <3>5. Len(rest) + 1 <= L2Capacity
      BY <1>c, <3>3, <3>4
    <3>6. \A n \in 1 .. Len(rest) : rest[n].key # k
      BY <3>1, <3>3
    <3> QED BY <3>3, <3>5, <3>6
  <2>2. CASE ~ L2Has(k)
    <3>1. \A n \in 1 .. Len(l2[t]) : l2[t][n].key # k
      <4>1. DOMAIN l2[t] = 1 .. Len(l2[t])
        BY <1>t, <1>0
      <4> QED BY <2>2, <4>1 DEF L2Has
    <3>2. CASE Len(l2[t]) >= L2Capacity
      <4>1. rest = Front(l2[t]) /\ l2[t] # <<>>
        BY <1>t, <1>0, <1>c, <2>2, <3>2
      <4>0. ListOK(l2[t], t)
        BY <1>t, <1>0
      <4> HIDE DEF rest, t, k
      <4>2. ListOK(rest, t) /\ Within(rest, l2[t]) /\ Len(rest) = Len(l2[t]) - 1
        BY <4>0, <4>1, FrontOK
      <4>3. Len(l2[t]) \in Nat /\ Len(l2[t]) <= L2Capacity
        BY <1>t, <1>0
      <4>4. \A n \in 1 .. Len(rest) : rest[n].key # k
        BY <3>1, <4>2 DEF Within
      <4>5. Len(rest) + 1 <= L2Capacity
        BY <1>c, <4>2, <4>3
      <4> QED BY <4>2, <4>4, <4>5
    <3>3. CASE ~ Len(l2[t]) >= L2Capacity
      <4>1. rest = l2[t]
        BY <2>2, <3>3
      <4>2. Within(l2[t], l2[t])
        BY DEF Within
      <4>3. ListOK(l2[t], t) /\ Len(l2[t]) \in Nat
        BY <1>t, <1>0
      <4> HIDE DEF rest, t, k
      <4>4. Len(l2[t]) + 1 <= L2Capacity
        BY <1>c, <3>3, <4>3
      <4> QED BY <3>1, <4>1, <4>2, <4>3, <4>4
    <3> QED BY <3>2, <3>3
  <2> QED BY <2>1, <2>2
<1> DEFINE r == <<item>> \o rest
<1>2. /\ ListOK(r, t) /\ Len(r) = Len(rest) + 1
      /\ \A n \in 1 .. Len(r) : r[n] = item \/ \E m \in 1 .. Len(rest) : r[n] = rest[m]
  <2>1. L2Stripe[item.key] = t
    OBVIOUS
  <2>2. \A n \in 1 .. Len(rest) : rest[n].key # item.key
    BY <1>1
  <2> HIDE DEF t, rest
  <2> QED BY <1>1, <2>1, <2>2, PushOK
<1>3. l2' = [l2 EXCEPT ![t] = r]
  BY <1>i
<1> HIDE DEF rest, t, k, r
<1>4. /\ L2Type'
      /\ \A s \in L2Stripes : l2'[s] = IF s = t THEN r ELSE l2[s]
  BY <1>t, <1>2, <1>3 DEF L2Type, ListOK
<1>5. \A s \in L2Stripes : ListOK(l2'[s], s) /\ Len(l2'[s]) <= L2Capacity
  BY <1>0, <1>1, <1>2, <1>4
<1>6. L2WellFormed'
  BY <1>4, <1>5, L2ListsNext
<1>7. ASSUME NEW s \in L2Stripes, NEW n \in 1 .. Len(l2'[s])
      PROVE  l2'[s][n] = item \/ \E m \in 1 .. Len(l2[s]) : l2'[s][n] = l2[s][m]
  <2>1. CASE s = t
    <3>1. l2'[s] = r
      BY <1>4, <2>1
    <3>2. ASSUME r[n] # item PROVE \E m \in 1 .. Len(l2[s]) : r[n] = l2[s][m]
      <4>1. PICK a \in 1 .. Len(rest) : r[n] = rest[a]
        BY <1>2, <3>1, <3>2
      <4> QED BY <1>1, <2>1, <4>1 DEF Within
    <3> QED BY <3>1, <3>2
  <2>2. CASE s # t
    BY <1>4, <2>2
  <2> QED BY <2>1, <2>2
<1> QED BY <1>4, <1>6, <1>7

-----------------------------------------------------------------------------
(* L1 and the queue *)

\* What a put into L1, with the victim's way into the queue, does to the layers:
\* k has the value v or is refused, other keys may be lost, and whatever enters
\* the queue is suspect.
LEMMA L1PutOK ==
    ASSUME TypeOK, BelowSuspect, NEW k \in Keys, NEW v \in Values, L1Put(k, v, {})
    PROVE  /\ l1' \in [Keys -> MaybeValue] /\ returned' \in MaybeValue
           /\ request' \in [key : Keys, value : MaybeValue] \cup {NoItem}
           /\ handed' \in ItemSet \cup {NoItem}
           /\ queue' \in Seq(ItemSet) /\ io' \in [in : Seq(ItemSet), out : Seq(ItemSet)]
           /\ suspect' \subseteq Keys /\ suspect \subseteq suspect'
           /\ \A n \in 1 .. Len(queue') : queue'[n].key \in suspect'
           /\ l1'[k] = v \/ (l1'[k] = NoValue /\ l1[k] = NoValue)
           /\ \A j \in Keys \ {k} : l1'[j] \in {l1[j], NoValue}
<1>t. /\ l1 \in [Keys -> MaybeValue] /\ queue \in Seq(ItemSet)
      /\ io \in [in : Seq(ItemSet), out : Seq(ItemSet)] /\ suspect \subseteq Keys
      /\ handed \in ItemSet \cup {NoItem}
  BY DEF TypeOK
<1>m. v \in MaybeValue /\ NoValue \in MaybeValue /\ NoValue \notin Values
  BY EngineAssumption DEF MaybeValue
<1>1. /\ request' = [key |-> k, value |-> v] /\ returned' = NoValue
      /\ L1!Store(k, v) \/ L1!Refuse(k) \/ \E j \in Keys : L1!Replace(k, v, j)
  BY DEF L1Put, L1!Put, L1!Item
<1>2. /\ l1' \in [Keys -> MaybeValue]
      /\ handed' \in ItemSet \cup {NoItem}
      /\ l1'[k] = v \/ (l1'[k] = NoValue /\ l1[k] = NoValue)
      /\ \A j \in Keys \ {k} : l1'[j] \in {l1[j], NoValue}
  <2>1. CASE L1!Store(k, v)
    BY <1>t, <1>m, <2>1 DEF L1!Store
  <2>2. CASE L1!Refuse(k)
    BY <1>t, <1>m, <2>2 DEF L1!Refuse
  <2>3. ASSUME NEW g \in Keys, L1!Replace(k, v, g)
        PROVE  /\ l1' \in [Keys -> MaybeValue]
               /\ handed' \in ItemSet \cup {NoItem}
               /\ l1'[k] = v \/ (l1'[k] = NoValue /\ l1[k] = NoValue)
               /\ \A j \in Keys \ {k} : l1'[j] \in {l1[j], NoValue}
    <3>1. /\ g # k /\ l1[g] # NoValue
          /\ l1' = [l1 EXCEPT ![k] = v, ![g] = NoValue]
          /\ handed' \in {NoItem, [key |-> g, value |-> l1[g]]}
      BY <2>3 DEF L1!Replace, L1!Item
    <3>2. l1[g] \in Values
      BY <1>t, <3>1 DEF MaybeValue
    <3>3. handed' \in ItemSet \cup {NoItem}
      BY <3>1, <3>2 DEF ItemSet
    <3>4. /\ l1' \in [Keys -> MaybeValue]
          /\ l1'[k] = v
          /\ \A j \in Keys \ {k} : l1'[j] \in {l1[j], NoValue}
      BY <1>t, <1>m, <3>1
    <3> QED BY <3>3, <3>4
  <2> QED BY <1>1, <2>1, <2>2, <2>3
<1>b. \A n \in 1 .. Len(queue) : queue[n].key \in suspect
  BY DEF BelowSuspect
<1>3. /\ queue' \in Seq(ItemSet) /\ io' \in [in : Seq(ItemSet), out : Seq(ItemSet)]
      /\ suspect' \subseteq Keys /\ suspect \subseteq suspect'
      /\ \A n \in 1 .. Len(queue') : queue'[n].key \in suspect'
  <2>1. CASE handed' = NoItem
    <3>1. queue' = queue /\ io' = io /\ suspect' = suspect
      BY <2>1 DEF L1Put, Suspect, queueVars
    <3> QED BY <1>t, <1>b, <3>1
  <2>2. CASE handed' # NoItem
    <3> DEFINE h == handed'
    <3>1. h \in ItemSet /\ h.key \in Keys
      BY <1>2, <2>2 DEF ItemSet
    <3>2. suspect' = suspect \cup {h.key} /\ (Q!Accept(h) \/ Q!Drop)
      BY <2>2 DEF L1Put, Suspect
    <3>3. /\ queue' = Append(queue, h) \/ queue' = queue
          /\ io' = [in |-> <<h>>, out |-> <<>>] \/ io' = [in |-> <<>>, out |-> <<>>]
      BY <3>2 DEF Q!Accept, Q!Drop, Q!IO
    <3> HIDE DEF h
    <3>4. io' \in [in : Seq(ItemSet), out : Seq(ItemSet)]
      <4>1. <<h>> \in Seq(ItemSet) /\ <<>> \in Seq(ItemSet)
        BY ONLY <3>1
      <4>2. CASE io' = [in |-> <<h>>, out |-> <<>>]
        BY <4>1, <4>2
      <4>3. CASE io' = [in |-> <<>>, out |-> <<>>]
        BY <4>1, <4>3
      <4> QED BY <3>3, <4>2, <4>3
    <3>5. /\ Append(queue, h) \in Seq(ItemSet)
          /\ Len(Append(queue, h)) = Len(queue) + 1
          /\ \A n \in 1 .. Len(queue) + 1 :
                Append(queue, h)[n] = IF n <= Len(queue) THEN queue[n] ELSE h
      <4>1. queue \in Seq(ItemSet)
        BY <1>t
      <4> QED BY ONLY <3>1, <4>1
    <3>6. \A n \in 1 .. Len(queue') : queue'[n].key \in suspect'
      <4>1. Len(queue) \in Nat
        BY <1>t
      <4>2. CASE queue' = queue
        BY <1>b, <3>2, <4>2
      <4>3. CASE queue' = Append(queue, h)
        BY <1>b, <3>2, <3>5, <4>1, <4>3
      <4> QED BY <3>3, <4>2, <4>3
    <3> QED BY <1>t, <3>1, <3>2, <3>3, <3>4, <3>5, <3>6
  <2> QED BY <2>1, <2>2
<1> QED BY <1>1, <1>2, <1>3, <1>m

-----------------------------------------------------------------------------
(* Coherence *)

ClientState == [at : Labels, key : Keys \cup {NoKey}, value : MaybeValue]

\* Where a client may be at the end of a step on the key k: done with it, or
\* still holding it.
Ends(st, k, l, b) ==
    /\ st = Idle \/ (st.key = k /\ st.at # "idle" /\ Held(st, l, b))
    /\ st.at \notin WriteLabels => l \in {NoValue, b}

\* Whoever else uses k while the client c goes to the state st only reads it,
\* and c does not write it, unless k is suspect.
Beside(c, k, st) ==
    \A d \in Clients \ {c} : client[d].key = k /\ k \notin suspect' =>
        client[d].at \in ReadLabels /\ st.at \notin WriteLabels /\ backend'[k] = backend[k]

\* A step of the client c on the key k keeps every other key coherent, so that
\* only k has to be looked at, and only while k is not suspect.
LEMMA KeyStep ==
    ASSUME client \in [Clients -> ClientState], client' \in [Clients -> ClientState],
           Coherent, NEW c \in Clients, NEW k \in Keys, NEW st \in ClientState,
           client' = [client EXCEPT ![c] = st],
           st = Idle \/ (st.key = k /\ st.at # "idle"),
           st.at \in {"get_fill", "put_l1"} => st.value \in Values,
           client[c].key \in {k, NoKey}, Beside(c, k, st),
           suspect \subseteq suspect',
           \A j \in Keys \ {k} : backend'[j] = backend[j] /\ l1'[j] \in {l1[j], NoValue},
           k \notin suspect' => Ends(st, k, l1'[k], backend'[k])
    PROVE  Coherent'
<1>n. NoKey \notin Keys
  BY EngineAssumption
<1>0. ClientOK /\ OneWriter /\ HeldCoherent /\ QuietCoherent
  BY DEF Coherent
<1>1. \A d \in Clients : client'[d] = IF d = c THEN st ELSE client[d]
  OBVIOUS
<1>i. st = Idle => st.at = "idle" /\ st.key = NoKey
  BY DEF Idle
<1>2. ClientOK'
  BY <1>n, <1>0, <1>1, <1>i DEF ClientOK
<1>3. ASSUME NEW d \in Clients, d # c, client[d].key = k, k \notin suspect'
      PROVE  /\ client[d].at \in ReadLabels /\ client[d].at \notin WriteLabels
             /\ st.at \notin WriteLabels /\ backend'[k] = backend[k]
  BY <1>3 DEF Beside, ReadLabels, WriteLabels
<1>4. OneWriter'
  <2> SUFFICES ASSUME NEW j \in Keys \ suspect', NEW d \in Clients, NEW e \in Clients,
                      client'[d].key = j, client'[e].key = j, client'[d].at \in WriteLabels, d # e
               PROVE  FALSE
    BY DEF OneWriter
  <2>1. CASE d # c /\ e # c
    BY <1>0, <1>1, <2>1 DEF OneWriter
  <2>2. CASE d = c
    BY <1>1, <1>3, <1>i, <1>n, <2>2
  <2>3. CASE e = c
    BY <1>1, <1>3, <1>i, <1>n, <2>3
  <2> QED BY <2>1, <2>2, <2>3
<1>5. HeldCoherent'
  <2> SUFFICES ASSUME NEW d \in Clients, client'[d].key \in Keys \ suspect'
               PROVE  Held(client'[d], l1'[client'[d].key], backend'[client'[d].key])
    BY DEF HeldCoherent
  <2>1. CASE d = c
    <3>1. client'[d] = st /\ st.key = k /\ st # Idle
      BY <1>1, <1>i, <1>n, <2>1
    <3> QED BY <3>1 DEF Ends
  <2>2. CASE d # c
    <3> DEFINE j == client[d].key
    <3>1. client'[d] = client[d] /\ j \in Keys \ suspect
      BY <1>1, <2>2
    <3>2. Held(client[d], l1[j], backend[j])
      BY <1>0, <3>1 DEF HeldCoherent
    <3>3. CASE j # k
      <4>1. backend'[j] = backend[j] /\ l1'[j] \in {l1[j], NoValue}
        BY <3>1, <3>3
      <4> HIDE DEF j
      <4>2. Held(client[d], l1'[j], backend'[j])
        BY <3>2, <4>1 DEF Held
      <4> QED BY <3>1, <4>2 DEF j
    <3>4. CASE j = k
      <4>1. client[d].at \in ReadLabels /\ backend'[j] = backend[j]
        BY <1>1, <1>3, <2>2, <3>4
      <4> HIDE DEF j
      <4>2. Held(client[d], l1'[j], backend'[j])
        BY <3>2, <4>1 DEF Held, ReadLabels
      <4> QED BY <3>1, <4>2 DEF j
    <3> QED BY <3>3, <3>4
  <2> QED BY <2>1, <2>2
<1>6. QuietCoherent'
  <2> SUFFICES ASSUME NEW j \in Keys \ suspect', ~ Writing(j)'
               PROVE  l1'[j] \in {NoValue, backend'[j]}
    BY DEF QuietCoherent
  <2>1. \A d \in Clients : ~ (client'[d].key = j /\ client'[d].at \in WriteLabels)
    BY DEF Writing
  <2>2. CASE j = k
    <3>1. st.at \notin WriteLabels
      BY <1>1, <1>i, <2>1, <2>2 DEF WriteLabels
    <3> QED BY <2>2, <3>1 DEF Ends
  <2>3. CASE j # k
    <3>1. \A d \in Clients : ~ (client[d].key = j /\ client[d].at \in WriteLabels)
      BY <1>1, <1>n, <2>1, <2>3
    <3>2. l1[j] \in {NoValue, backend[j]}
      BY <1>0, <3>1 DEF QuietCoherent, Writing
    <3> QED BY <2>3, <3>2
  <2> QED BY <2>2, <2>3
<1> QED BY <1>2, <1>4, <1>5, <1>6 DEF Coherent
-----------------------------------------------------------------------------
(* The steps *)

LEMMA BelowKept ==
    ASSUME BelowSuspect, suspect \subseteq suspect', queue' = queue, batch' = batch,
           l2' = l2 \/ \A s \in L2Stripes : Within(l2'[s], l2[s])
    PROVE  BelowSuspect'
<1>1. ASSUME NEW s \in L2Stripes, NEW n \in 1 .. Len(l2'[s]) PROVE l2'[s][n].key \in suspect'
  BY <1>1 DEF BelowSuspect, Within
<1>2. /\ \A n \in 1 .. Len(queue') : queue'[n].key \in suspect'
      /\ \A n \in 1 .. Len(batch') : batch'[n].key \in suspect'
  BY DEF BelowSuspect
<1> QED BY <1>1, <1>2 DEF BelowSuspect

\* A client that has a key is inside a read or a write.
LEMMA UsesKey ==
    ASSUME TypeOK, Coherent, NEW d \in Clients, client[d].key \in Keys
    PROVE  client[d].at \in ReadLabels \cup WriteLabels
<1>1. client[d].at \in Labels /\ client[d].key # NoKey
  BY EngineAssumption DEF TypeOK
<1> QED BY <1>1 DEF Coherent, ClientOK, Labels

\* A client begins an operation on k, with what it makes suspect.
LEMMA BeginOK ==
    ASSUME TypeOK, Coherent, NEW c \in Clients, NEW k \in Keys, Begin(c),
           Suspect({}, ReadOverlap(k)) \/ Suspect({}, WriteOverlap(k))
    PROVE  /\ client[c].key = NoKey /\ ops' \in 0 .. MaxOps
           /\ suspect \subseteq suspect' /\ suspect' \subseteq Keys
           /\ k \notin suspect' => l1[k] \in {NoValue, backend[k]}
<1>1. client[c].key = NoKey
  BY DEF Begin, At, Coherent, ClientOK
<1>2. ops' \in 0 .. MaxOps
  BY EngineAssumption DEF TypeOK, Begin
<1>3. /\ suspect' = suspect \cup ReadOverlap(k) \/ suspect' = suspect \cup WriteOverlap(k)
      /\ suspect \subseteq Keys
  BY DEF Suspect, TypeOK
<1>4. /\ suspect \subseteq suspect' /\ suspect' \subseteq Keys
      /\ Writing(k) => k \in suspect'
  BY <1>3 DEF ReadOverlap, WriteOverlap, Writing, Busy
<1>5. k \notin suspect' => l1[k] \in {NoValue, backend[k]}
  BY <1>4 DEF Coherent, QuietCoherent
<1> QED BY <1>1, <1>2, <1>4, <1>5

\* A get that begins finds readers beside it, or makes its key suspect.
LEMMA BeginRead ==
    ASSUME TypeOK, Coherent, NEW c \in Clients, NEW k \in Keys, NEW st,
           Suspect({}, ReadOverlap(k)), st.at \notin WriteLabels, backend' = backend
    PROVE  Beside(c, k, st)
<1>1. Writing(k) => k \in suspect'
  BY DEF Suspect, ReadOverlap
<1>2. ASSUME NEW d \in Clients, client[d].key = k, k \notin suspect' PROVE client[d].at \in ReadLabels
  BY <1>1, <1>2, UsesKey DEF Writing
<1> QED BY <1>2 DEF Beside

\* A put or remove that begins is alone, or makes its key suspect.
LEMMA BeginWrite ==
    ASSUME NEW c \in Clients, NEW k \in Keys, NEW st, Suspect({}, WriteOverlap(k))
    PROVE  Beside(c, k, st)
BY DEF Suspect, WriteOverlap, Busy, Beside

\* A client inside an operation has its key, and knows what Held says of it.
LEMMA InsideOK ==
    ASSUME TypeOK, Coherent, NEW c \in Clients, client[c].at # "idle"
    PROVE  /\ client[c].key \in Keys
           /\ client[c].at \in {"get_fill", "put_l1"} => client[c].value \in Values
           /\ client[c].key \notin suspect =>
                 Held(client[c], l1[client[c].key], backend[client[c].key])
<1>1. client[c].key \in Keys \cup {NoKey}
  BY DEF TypeOK
<1>2. client[c].key \in Keys
  BY <1>1 DEF Coherent, ClientOK
<1> QED BY <1>2 DEF Coherent, ClientOK, HeldCoherent

\* Beside a get that goes on there are other gets only, and L1 has the
\* backend's value or none, unless the key is suspect.
LEMMA InsideRead ==
    ASSUME TypeOK, Coherent, NEW c \in Clients, client[c].at \in ReadLabels, NEW st,
           st.at \notin WriteLabels, backend' = backend, suspect \subseteq suspect'
    PROVE  /\ Beside(c, client[c].key, st)
           /\ client[c].key \notin suspect => l1[client[c].key] \in {NoValue, backend[client[c].key]}
<1> DEFINE k == client[c].key
<1>1. k \in Keys /\ client[c].at \notin WriteLabels
  BY InsideOK DEF ReadLabels, WriteLabels
<1>2. ASSUME NEW d \in Clients, client[d].key = k, k \notin suspect
      PROVE  client[d].at \in ReadLabels /\ client[d].at \notin WriteLabels
  <2>1. client[d].at \notin WriteLabels
    BY <1>1, <1>2 DEF Coherent, OneWriter
  <2> QED BY <1>1, <1>2, <2>1, UsesKey
<1>3. k \notin suspect => l1[k] \in {NoValue, backend[k]}
  BY <1>1, <1>2 DEF Coherent, QuietCoherent, Writing
<1>4. Beside(c, k, st)
  BY <1>2 DEF Beside
<1> QED BY <1>3, <1>4

\* A put or remove that goes on is alone, unless its key is suspect.
LEMMA InsideWrite ==
    ASSUME TypeOK, Coherent, NEW c \in Clients, client[c].at \in WriteLabels, NEW st,
           suspect \subseteq suspect'
    PROVE  Beside(c, client[c].key, st)
<1>1. client[c].key \in Keys
  BY InsideOK DEF WriteLabels
<1>2. ASSUME NEW d \in Clients \ {c}, client[d].key = client[c].key PROVE client[c].key \in suspect
  BY <1>1, <1>2 DEF Coherent, OneWriter
<1> QED BY <1>2 DEF Beside

\* The parts of EngineInv that most steps leave alone.
LEMMA EngineParts ==
    ASSUME EngineInv
    PROVE  /\ TypeOK /\ L2WellFormed /\ BelowSuspect /\ Coherent /\ L2Type
           /\ client \in [Clients -> ClientState] /\ NoValue \in MaybeValue
           /\ l1 \in [Keys -> MaybeValue] /\ backend \in [Keys -> MaybeValue]
           /\ suspect \subseteq Keys
BY DEF EngineInv, TypeOK, L2Type, ClientState, MaybeValue

LEMMA StateTypes ==
    /\ Idle \in ClientState /\ NoAnswer \in [key : Keys \cup {NoKey}, value : MaybeValue]
    /\ \A k \in Keys, v \in MaybeValue, at \in Labels :
          /\ [at |-> at, key |-> k, value |-> v] \in ClientState
          /\ [key |-> k, value |-> v] \in [key : Keys \cup {NoKey}, value : MaybeValue]
BY DEF Idle, NoAnswer, ClientState, Labels, MaybeValue

LEMMA GetL1Inv ==
    ASSUME EngineInv, NEW c \in Clients, NEW k \in Keys, GetL1(c, k)
    PROVE  EngineInv'
<1> DEFINE st == IF l1[k] # NoValue THEN Idle ELSE [at |-> "get_l2", key |-> k, value |-> NoValue]
<1>p. /\ TypeOK /\ L2WellFormed /\ BelowSuspect /\ Coherent /\ L2Type
      /\ client \in [Clients -> ClientState] /\ NoValue \in MaybeValue
      /\ l1 \in [Keys -> MaybeValue] /\ backend \in [Keys -> MaybeValue]
  BY EngineParts
<1>1. /\ client' = [client EXCEPT ![c] = st]
      /\ answer' \in [key : Keys \cup {NoKey}, value : MaybeValue]
  BY <1>p, StateTypes DEF GetL1, Return, Continue
<1>2. st \in ClientState
  BY <1>p, StateTypes DEF Labels, ReadLabels, WriteLabels
<1>3. Begin(c) /\ Suspect({}, ReadOverlap(k))
  BY DEF GetL1
<1>4. /\ client[c].key = NoKey /\ ops' \in 0 .. MaxOps
      /\ suspect \subseteq suspect' /\ suspect' \subseteq Keys
      /\ k \notin suspect' => l1[k] \in {NoValue, backend[k]}
  BY <1>p, <1>3, BeginOK
<1>5. /\ l1' = l1 /\ queue' = queue /\ io' = io /\ batch' = batch /\ l2' = l2 /\ backend' = backend
      /\ request' = [key |-> k, value |-> NoValue] /\ returned' = l1[k] /\ handed' = NoItem
  BY DEF GetL1, L1!Get, L1!Item, queueVars
<1>6. client' \in [Clients -> ClientState]
  BY <1>p, <1>1, <1>2
<1>7. /\ st = Idle \/ (st.key = k /\ st.at # "idle")
      /\ st.at \in {"get_fill", "put_l1"} => st.value \in Values
      /\ k \notin suspect' => Ends(st, k, l1'[k], backend'[k])
  BY <1>4, <1>5 DEF Idle, Ends, Held, WriteLabels
<1>b. Beside(c, k, st)
  <2>1. st.at \notin WriteLabels
    BY DEF WriteLabels, Idle
  <2> HIDE DEF st
  <2> QED BY <1>p, <1>3, <1>5, <2>1, BeginRead
<1> HIDE DEF st
<1>8. Coherent'
  <2>1. \A j \in Keys \ {k} : backend'[j] = backend[j] /\ l1'[j] \in {l1[j], NoValue}
    BY <1>5
  <2> QED BY <1>p, <1>1, <1>2, <1>4, <1>6, <1>7, <1>b, <2>1, KeyStep
<1>9. BelowSuspect'
  BY <1>p, <1>4, <1>5, BelowKept
<1>10. TypeOK'
  BY <1>p, <1>1, <1>4, <1>5, <1>6 DEF TypeOK, ClientState
<1>11. L2WellFormed'
  BY <1>p, <1>5 DEF L2WellFormed
<1> QED BY <1>8, <1>9, <1>10, <1>11 DEF EngineInv
LEMMA PutBackendInv ==
    ASSUME EngineInv, NEW c \in Clients, NEW k \in Keys, NEW v \in Values, PutBackend(c, k, v)
    PROVE  EngineInv'
<1> DEFINE st == [at |-> "put_l1", key |-> k, value |-> v]
<1>p. /\ TypeOK /\ L2WellFormed /\ BelowSuspect /\ Coherent /\ L2Type
      /\ client \in [Clients -> ClientState] /\ NoValue \in MaybeValue
      /\ l1 \in [Keys -> MaybeValue] /\ backend \in [Keys -> MaybeValue]
  BY EngineParts
<1>1. client' = [client EXCEPT ![c] = st] /\ answer' = NoAnswer
  BY DEF PutBackend, Continue
<1>2. st \in ClientState /\ NoAnswer \in [key : Keys \cup {NoKey}, value : MaybeValue]
  BY <1>p, StateTypes DEF Labels, ReadLabels, WriteLabels, MaybeValue
<1>3. Begin(c) /\ Suspect({}, WriteOverlap(k))
  BY DEF PutBackend
<1>4. /\ client[c].key = NoKey /\ ops' \in 0 .. MaxOps
      /\ suspect \subseteq suspect' /\ suspect' \subseteq Keys
      /\ k \notin suspect' => l1[k] \in {NoValue, backend[k]}
  BY <1>p, <1>3, BeginOK
<1>5. /\ l1' = l1 /\ queue' = queue /\ io' = io /\ batch' = batch /\ l2' = l2
      /\ request' = request /\ returned' = returned /\ handed' = handed
      /\ backend' = [backend EXCEPT ![k] = v]
  BY DEF PutBackend, queueVars, l1Vars
<1>6. client' \in [Clients -> ClientState]
  BY <1>p, <1>1, <1>2
<1>7. /\ st = Idle \/ (st.key = k /\ st.at # "idle")
      /\ st.at \in {"get_fill", "put_l1"} => st.value \in Values
      /\ k \notin suspect' => Ends(st, k, l1'[k], backend'[k])
  BY <1>p, <1>4, <1>5 DEF Idle, Ends, Held, WriteLabels
<1> HIDE DEF st
<1>b. Beside(c, k, st)
  BY <1>3, BeginWrite
<1>8. Coherent'
  <2>1. \A j \in Keys \ {k} : backend'[j] = backend[j] /\ l1'[j] \in {l1[j], NoValue}
    BY <1>p, <1>5
  <2> QED BY <1>p, <1>1, <1>2, <1>4, <1>6, <1>7, <1>b, <2>1, KeyStep
<1>9. BelowSuspect'
  BY <1>p, <1>4, <1>5, BelowKept
<1>10. TypeOK'
  BY <1>p, <1>1, <1>2, <1>4, <1>5, <1>6 DEF TypeOK, ClientState, MaybeValue
<1>11. L2WellFormed'
  BY <1>p, <1>5 DEF L2WellFormed
<1> QED BY <1>8, <1>9, <1>10, <1>11 DEF EngineInv

LEMMA RemoveL1Inv ==
    ASSUME EngineInv, NEW c \in Clients, NEW k \in Keys, RemoveL1(c, k)
    PROVE  EngineInv'
<1> DEFINE st == [at |-> "remove_l2", key |-> k, value |-> NoValue]
<1>p. /\ TypeOK /\ L2WellFormed /\ BelowSuspect /\ Coherent /\ L2Type
      /\ client \in [Clients -> ClientState] /\ NoValue \in MaybeValue
      /\ l1 \in [Keys -> MaybeValue] /\ backend \in [Keys -> MaybeValue]
  BY EngineParts
<1>1. client' = [client EXCEPT ![c] = st] /\ answer' = NoAnswer
  BY DEF RemoveL1, Continue
<1>2. st \in ClientState /\ NoAnswer \in [key : Keys \cup {NoKey}, value : MaybeValue]
  BY <1>p, StateTypes DEF Labels, ReadLabels, WriteLabels, MaybeValue
<1>3. Begin(c) /\ Suspect({}, WriteOverlap(k))
  BY DEF RemoveL1
<1>4. /\ client[c].key = NoKey /\ ops' \in 0 .. MaxOps
      /\ suspect \subseteq suspect' /\ suspect' \subseteq Keys
      /\ k \notin suspect' => l1[k] \in {NoValue, backend[k]}
  BY <1>p, <1>3, BeginOK
<1>5. /\ l1' = [l1 EXCEPT ![k] = NoValue] /\ queue' = queue /\ io' = io /\ batch' = batch /\ l2' = l2
      /\ request' = [key |-> k, value |-> NoValue] /\ returned' = NoValue /\ handed' = NoItem
      /\ backend' = backend
  BY DEF RemoveL1, L1!Remove, L1!Item, queueVars
<1>6. client' \in [Clients -> ClientState]
  BY <1>p, <1>1, <1>2
<1>7. /\ st = Idle \/ (st.key = k /\ st.at # "idle")
      /\ st.at \in {"get_fill", "put_l1"} => st.value \in Values
      /\ k \notin suspect' => Ends(st, k, l1'[k], backend'[k])
  BY <1>p, <1>4, <1>5 DEF Idle, Ends, Held, WriteLabels
<1> HIDE DEF st
<1>b. Beside(c, k, st)
  BY <1>3, BeginWrite
<1>8. Coherent'
  <2>1. \A j \in Keys \ {k} : backend'[j] = backend[j] /\ l1'[j] \in {l1[j], NoValue}
    BY <1>p, <1>5
  <2> QED BY <1>p, <1>1, <1>2, <1>4, <1>6, <1>7, <1>b, <2>1, KeyStep
<1>9. BelowSuspect'
  BY <1>p, <1>4, <1>5, BelowKept
<1>10. TypeOK'
  BY <1>p, <1>1, <1>2, <1>4, <1>5, <1>6 DEF TypeOK, ClientState
<1>11. L2WellFormed'
  BY <1>p, <1>5 DEF L2WellFormed
<1> QED BY <1>8, <1>9, <1>10, <1>11 DEF EngineInv

LEMMA GetL2Inv ==
    ASSUME EngineInv, NEW c \in Clients, GetL2(c)
    PROVE  EngineInv'
<1> DEFINE k == client[c].key
           st == IF L2Has(k)
                 THEN [at |-> "get_fill", key |-> k, value |-> l2[L2Stripe[k]][L2Pos(k)].value]
                 ELSE [at |-> "get_backend", key |-> k, value |-> NoValue]
<1>p. /\ TypeOK /\ L2WellFormed /\ BelowSuspect /\ Coherent /\ L2Type
      /\ client \in [Clients -> ClientState] /\ NoValue \in MaybeValue
      /\ l1 \in [Keys -> MaybeValue] /\ backend \in [Keys -> MaybeValue]
  BY EngineParts
<1>3. client[c].at = "get_l2"
  BY DEF GetL2, At
<1>4. /\ k \in Keys
      /\ client[c].at \in {"get_fill", "put_l1"} => client[c].value \in Values
      /\ k \notin suspect => Held(client[c], l1[k], backend[k])
  BY <1>p, <1>3, InsideOK
<1>h. L2Has(k) => k \in suspect /\ l2[L2Stripe[k]][L2Pos(k)].value \in Values
  <2> SUFFICES ASSUME L2Has(k)
               PROVE  k \in suspect /\ l2[L2Stripe[k]][L2Pos(k)].value \in Values
    OBVIOUS
  <2>1. /\ L2Stripe[k] \in L2Stripes
        /\ L2Pos(k) \in 1 .. Len(l2[L2Stripe[k]])
        /\ l2[L2Stripe[k]][L2Pos(k)] \in ItemSet
        /\ l2[L2Stripe[k]][L2Pos(k)].key = k
    BY <1>p, <1>4, L2PosOK
  <2> HIDE DEF k
  <2> QED BY <1>p, <2>1 DEF BelowSuspect, ItemSet
<1>1. client' = [client EXCEPT ![c] = st] /\ answer' = NoAnswer
  BY DEF GetL2, Continue
<1>2. st \in ClientState /\ NoAnswer \in [key : Keys \cup {NoKey}, value : MaybeValue]
  BY <1>p, <1>4, <1>h, StateTypes DEF Labels, ReadLabels, WriteLabels, MaybeValue
<1>5. /\ l1' = l1 /\ request' = request /\ returned' = returned /\ handed' = handed
      /\ queue' = queue /\ io' = io /\ batch' = batch /\ backend' = backend
      /\ ops' = ops /\ suspect' = suspect
  BY DEF GetL2, l1Vars, queueVars
<1>e. /\ L2Type' /\ L2WellFormed'
      /\ \A s \in L2Stripes : Within(l2'[s], l2[s])
  <2>1. L2Erase(k)
    BY DEF GetL2
  <2> QED BY <1>p, <1>4, <2>1, L2EraseOK
<1>6. client' \in [Clients -> ClientState]
  BY <1>p, <1>1, <1>2
<1>b. Beside(c, k, st) /\ st.at \notin WriteLabels /\ (k \notin suspect => l1[k] \in {NoValue, backend[k]})
  <2>1. client[c].at \in ReadLabels
    BY <1>3 DEF ReadLabels
  <2>2. st.at \notin WriteLabels
    BY DEF WriteLabels, Idle
  <2>3. suspect \subseteq suspect'
    BY <1>5
  <2> HIDE DEF st
  <2> QED BY <1>p, <1>5, <2>1, <2>2, <2>3, InsideRead
<1>7. /\ st = Idle \/ (st.key = k /\ st.at # "idle")
      /\ st.at \in {"get_fill", "put_l1"} => st.value \in Values
      /\ k \notin suspect' => Ends(st, k, l1'[k], backend'[k])
  BY <1>h, <1>3, <1>4, <1>5, <1>b DEF Idle, Ends, Held
<1> HIDE DEF st
<1>8. Coherent'
  <2>1. \A j \in Keys \ {k} : backend'[j] = backend[j] /\ l1'[j] \in {l1[j], NoValue}
    BY <1>p, <1>5
  <2>2. suspect \subseteq suspect'
    BY <1>5
  <2> QED BY <1>p, <1>1, <1>2, <1>4, <1>6, <1>7, <1>b, <2>1, <2>2, KeyStep
<1>9. BelowSuspect'
  BY <1>p, <1>5, <1>e, BelowKept
<1>10. TypeOK'
  BY <1>p, <1>1, <1>2, <1>4, <1>5, <1>6, <1>e DEF TypeOK, ClientState, L2Type
<1> QED BY <1>8, <1>9, <1>10, <1>e DEF EngineInv

LEMMA GetBackendInv ==
    ASSUME EngineInv, NEW c \in Clients, GetBackend(c)
    PROVE  EngineInv'
<1> DEFINE k == client[c].key
           st == IF backend[k] # NoValue
                 THEN [at |-> "get_fill", key |-> k, value |-> backend[k]]
                 ELSE Idle
<1>p. /\ TypeOK /\ L2WellFormed /\ BelowSuspect /\ Coherent /\ L2Type
      /\ client \in [Clients -> ClientState] /\ NoValue \in MaybeValue
      /\ l1 \in [Keys -> MaybeValue] /\ backend \in [Keys -> MaybeValue]
  BY EngineParts
<1>3. client[c].at = "get_backend"
  BY DEF GetBackend, At
<1>4. /\ k \in Keys
      /\ client[c].at \in {"get_fill", "put_l1"} => client[c].value \in Values
      /\ k \notin suspect => Held(client[c], l1[k], backend[k])
  BY <1>p, <1>3, InsideOK
<1>1. /\ client' = [client EXCEPT ![c] = st]
      /\ answer' \in [key : Keys \cup {NoKey}, value : MaybeValue]
  BY <1>p, <1>4, StateTypes DEF GetBackend, Continue, Return
<1>2. st \in ClientState
  BY <1>p, <1>4, StateTypes DEF Labels, ReadLabels, WriteLabels
<1>5. /\ l1' = l1 /\ request' = request /\ returned' = returned /\ handed' = handed
      /\ queue' = queue /\ io' = io /\ batch' = batch /\ l2' = l2 /\ backend' = backend
      /\ ops' = ops /\ suspect' = suspect
  BY DEF GetBackend, l1Vars, queueVars
<1>6. client' \in [Clients -> ClientState]
  BY <1>p, <1>1, <1>2
<1>b. Beside(c, k, st) /\ st.at \notin WriteLabels /\ (k \notin suspect => l1[k] \in {NoValue, backend[k]})
  <2>1. client[c].at \in ReadLabels
    BY <1>3 DEF ReadLabels
  <2>2. st.at \notin WriteLabels
    BY DEF WriteLabels, Idle
  <2>3. suspect \subseteq suspect'
    BY <1>5
  <2> HIDE DEF st
  <2> QED BY <1>p, <1>5, <2>1, <2>2, <2>3, InsideRead
<1>7. /\ st = Idle \/ (st.key = k /\ st.at # "idle")
      /\ st.at \in {"get_fill", "put_l1"} => st.value \in Values
      /\ k \notin suspect' => Ends(st, k, l1'[k], backend'[k])
  BY <1>p, <1>3, <1>4, <1>5, <1>b DEF MaybeValue, Idle, Ends, Held
<1> HIDE DEF st
<1>8. Coherent'
  <2>1. \A j \in Keys \ {k} : backend'[j] = backend[j] /\ l1'[j] \in {l1[j], NoValue}
    BY <1>p, <1>5
  <2>2. suspect \subseteq suspect'
    BY <1>5
  <2> QED BY <1>p, <1>1, <1>2, <1>4, <1>6, <1>7, <1>b, <2>1, <2>2, KeyStep
<1>9. BelowSuspect'
  BY <1>p, <1>5, BelowKept
<1>10. TypeOK'
  BY <1>p, <1>1, <1>2, <1>4, <1>5, <1>6 DEF TypeOK, ClientState
<1>11. L2WellFormed'
  BY <1>p, <1>5 DEF L2WellFormed
<1> QED BY <1>8, <1>9, <1>10, <1>11 DEF EngineInv

LEMMA RemoveL2Inv ==
    ASSUME EngineInv, NEW c \in Clients, RemoveL2(c)
    PROVE  EngineInv'
<1> DEFINE k == client[c].key
           st == [at |-> "remove_backend", key |-> k, value |-> NoValue]
<1>p. /\ TypeOK /\ L2WellFormed /\ BelowSuspect /\ Coherent /\ L2Type
      /\ client \in [Clients -> ClientState] /\ NoValue \in MaybeValue
      /\ l1 \in [Keys -> MaybeValue] /\ backend \in [Keys -> MaybeValue]
  BY EngineParts
<1>3. client[c].at = "remove_l2"
  BY DEF RemoveL2, At
<1>4. /\ k \in Keys
      /\ client[c].at \in {"get_fill", "put_l1"} => client[c].value \in Values
      /\ k \notin suspect => Held(client[c], l1[k], backend[k])
  BY <1>p, <1>3, InsideOK
<1>1. client' = [client EXCEPT ![c] = st] /\ answer' = NoAnswer
  BY DEF RemoveL2, Continue
<1>2. st \in ClientState /\ NoAnswer \in [key : Keys \cup {NoKey}, value : MaybeValue]
  BY <1>p, <1>4, StateTypes DEF Labels, ReadLabels, WriteLabels
<1>5. /\ l1' = l1 /\ request' = request /\ returned' = returned /\ handed' = handed
      /\ queue' = queue /\ io' = io /\ batch' = batch /\ backend' = backend
      /\ ops' = ops /\ suspect' = suspect
  BY DEF RemoveL2, l1Vars, queueVars
<1>e. /\ L2Type' /\ L2WellFormed'
      /\ \A s \in L2Stripes : Within(l2'[s], l2[s])
  <2>1. L2Erase(k)
    BY DEF RemoveL2
  <2> QED BY <1>p, <1>4, <2>1, L2EraseOK
<1>6. client' \in [Clients -> ClientState]
  BY <1>p, <1>1, <1>2
<1>7. /\ st = Idle \/ (st.key = k /\ st.at # "idle")
      /\ st.at \in {"get_fill", "put_l1"} => st.value \in Values
      /\ k \notin suspect' => Ends(st, k, l1'[k], backend'[k])
  BY <1>p, <1>3, <1>4, <1>5 DEF Idle, Ends, Held, WriteLabels
<1> HIDE DEF st
<1>b. Beside(c, k, st)
  <2>1. client[c].at \in WriteLabels /\ suspect \subseteq suspect'
    BY <1>3, <1>5 DEF WriteLabels
  <2> QED BY <1>p, <2>1, InsideWrite
<1>8. Coherent'
  <2>1. \A j \in Keys \ {k} : backend'[j] = backend[j] /\ l1'[j] \in {l1[j], NoValue}
    BY <1>p, <1>5
  <2>2. suspect \subseteq suspect'
    BY <1>5
  <2> QED BY <1>p, <1>1, <1>2, <1>4, <1>6, <1>7, <1>b, <2>1, <2>2, KeyStep
<1>9. BelowSuspect'
  BY <1>p, <1>5, <1>e, BelowKept
<1>10. TypeOK'
  BY <1>p, <1>1, <1>2, <1>4, <1>5, <1>6, <1>e DEF TypeOK, ClientState, L2Type
<1> QED BY <1>8, <1>9, <1>10, <1>e DEF EngineInv

LEMMA RemoveBackendInv ==
    ASSUME EngineInv, NEW c \in Clients, RemoveBackend(c)
    PROVE  EngineInv'
<1> DEFINE k == client[c].key
           st == Idle
<1>p. /\ TypeOK /\ L2WellFormed /\ BelowSuspect /\ Coherent /\ L2Type
      /\ client \in [Clients -> ClientState] /\ NoValue \in MaybeValue
      /\ l1 \in [Keys -> MaybeValue] /\ backend \in [Keys -> MaybeValue]
  BY EngineParts
<1>3. client[c].at = "remove_backend"
  BY DEF RemoveBackend, At
<1>4. /\ k \in Keys
      /\ client[c].at \in {"get_fill", "put_l1"} => client[c].value \in Values
      /\ k \notin suspect => Held(client[c], l1[k], backend[k])
  BY <1>p, <1>3, InsideOK
<1>1. client' = [client EXCEPT ![c] = st] /\ answer' = NoAnswer
  BY DEF RemoveBackend, Return
<1>2. st \in ClientState /\ NoAnswer \in [key : Keys \cup {NoKey}, value : MaybeValue]
  BY <1>p, <1>4, StateTypes DEF Labels
<1>5. /\ l1' = l1 /\ request' = request /\ returned' = returned /\ handed' = handed
      /\ queue' = queue /\ io' = io /\ batch' = batch /\ l2' = l2
      /\ backend' = [backend EXCEPT ![k] = NoValue]
      /\ ops' = ops /\ suspect' = suspect
  BY DEF RemoveBackend, l1Vars, queueVars
<1>6. client' \in [Clients -> ClientState]
  BY <1>p, <1>1, <1>2
<1>7. /\ st = Idle \/ (st.key = k /\ st.at # "idle")
      /\ st.at \in {"get_fill", "put_l1"} => st.value \in Values
      /\ k \notin suspect' => Ends(st, k, l1'[k], backend'[k])
  BY <1>p, <1>3, <1>4, <1>5 DEF Idle, Ends, Held, WriteLabels
<1> HIDE DEF st
<1>b. Beside(c, k, st)
  <2>1. client[c].at \in WriteLabels /\ suspect \subseteq suspect'
    BY <1>3, <1>5 DEF WriteLabels
  <2> QED BY <1>p, <2>1, InsideWrite
<1>8. Coherent'
  <2>1. \A j \in Keys \ {k} : backend'[j] = backend[j] /\ l1'[j] \in {l1[j], NoValue}
    BY <1>p, <1>5
  <2>2. suspect \subseteq suspect'
    BY <1>5
  <2> QED BY <1>p, <1>1, <1>2, <1>4, <1>6, <1>7, <1>b, <2>1, <2>2, KeyStep
<1>9. BelowSuspect'
  BY <1>p, <1>5, BelowKept
<1>10. TypeOK'
  BY <1>p, <1>1, <1>2, <1>4, <1>5, <1>6 DEF TypeOK, ClientState
<1>11. L2WellFormed'
  BY <1>p, <1>5 DEF L2WellFormed
<1> QED BY <1>8, <1>9, <1>10, <1>11 DEF EngineInv
LEMMA GetFillInv ==
    ASSUME EngineInv, NEW c \in Clients, GetFill(c)
    PROVE  EngineInv'
<1> DEFINE k == client[c].key
           v == client[c].value
<1>p. /\ TypeOK /\ L2WellFormed /\ BelowSuspect /\ Coherent /\ L2Type
      /\ client \in [Clients -> ClientState] /\ NoValue \in MaybeValue
      /\ l1 \in [Keys -> MaybeValue] /\ backend \in [Keys -> MaybeValue]
  BY EngineParts
<1>3. client[c].at = "get_fill"
  BY DEF GetFill, At
<1>4. /\ k \in Keys /\ v \in Values
      /\ k \notin suspect => Held(client[c], l1[k], backend[k])
  BY <1>p, <1>3, InsideOK
<1>1. /\ client' = [client EXCEPT ![c] = Idle]
      /\ answer' \in [key : Keys \cup {NoKey}, value : MaybeValue]
  BY <1>p, <1>4, StateTypes DEF GetFill, Return, MaybeValue
<1>2. Idle \in ClientState
  BY StateTypes
<1>5. batch' = batch /\ l2' = l2 /\ backend' = backend /\ ops' = ops /\ L1Put(k, v, {})
  BY DEF GetFill
<1> HIDE DEF k, v
<1>a. /\ l1' \in [Keys -> MaybeValue] /\ returned' \in MaybeValue
      /\ request' \in [key : Keys, value : MaybeValue] \cup {NoItem}
      /\ handed' \in ItemSet \cup {NoItem}
      /\ queue' \in Seq(ItemSet) /\ io' \in [in : Seq(ItemSet), out : Seq(ItemSet)]
      /\ suspect' \subseteq Keys /\ suspect \subseteq suspect'
      /\ \A n \in 1 .. Len(queue') : queue'[n].key \in suspect'
      /\ l1'[k] = v \/ (l1'[k] = NoValue /\ l1[k] = NoValue)
      /\ \A j \in Keys \ {k} : l1'[j] \in {l1[j], NoValue}
  BY <1>p, <1>4, <1>5, L1PutOK
<1>6. client' \in [Clients -> ClientState]
  BY <1>p, <1>1, <1>2
<1>b. Beside(c, k, Idle) /\ (k \notin suspect => l1[k] \in {NoValue, backend[k]})
  <2>1. client[c].at \in ReadLabels /\ Idle.at \notin WriteLabels
    BY <1>3 DEF ReadLabels, WriteLabels, Idle
  <2> QED BY <1>p, <1>5, <1>a, <2>1, InsideRead DEF k
<1>7. k \notin suspect' => Ends(Idle, k, l1'[k], backend'[k])
  BY <1>3, <1>4, <1>5, <1>a DEF Ends, Held, v
<1>8. Coherent'
  <2>1. \A j \in Keys \ {k} : backend'[j] = backend[j] /\ l1'[j] \in {l1[j], NoValue}
    BY <1>5, <1>a
  <2>2. Idle.at \in {"get_fill", "put_l1"} => Idle.value \in Values
    BY DEF Idle
  <2>3. client[c].key = k /\ suspect \subseteq suspect'
    BY <1>a DEF k
  <2> QED BY <1>p, <1>1, <1>2, <1>4, <1>6, <1>7, <1>b, <2>1, <2>2, <2>3, KeyStep
<1>9. BelowSuspect'
  <2>1. /\ \A n \in 1 .. Len(batch) : batch[n].key \in suspect
        /\ \A s \in L2Stripes : \A n \in 1 .. Len(l2[s]) : l2[s][n].key \in suspect
    BY <1>p DEF BelowSuspect
  <2> QED BY <1>5, <1>a, <2>1 DEF BelowSuspect
<1>10. TypeOK'
  BY <1>p, <1>1, <1>5, <1>6, <1>a DEF TypeOK, ClientState
<1>11. L2WellFormed'
  BY <1>p, <1>5 DEF L2WellFormed
<1> QED BY <1>8, <1>9, <1>10, <1>11 DEF EngineInv

LEMMA PutL1Inv ==
    ASSUME EngineInv, NEW c \in Clients, PutL1(c)
    PROVE  EngineInv'
<1> DEFINE k == client[c].key
           v == client[c].value
<1>p. /\ TypeOK /\ L2WellFormed /\ BelowSuspect /\ Coherent /\ L2Type
      /\ client \in [Clients -> ClientState] /\ NoValue \in MaybeValue
      /\ l1 \in [Keys -> MaybeValue] /\ backend \in [Keys -> MaybeValue]
  BY EngineParts
<1>3. client[c].at = "put_l1"
  BY DEF PutL1, At
<1>4. /\ k \in Keys /\ v \in Values
      /\ k \notin suspect => Held(client[c], l1[k], backend[k])
  BY <1>p, <1>3, InsideOK
<1>1. /\ client' = [client EXCEPT ![c] = Idle]
      /\ answer' \in [key : Keys \cup {NoKey}, value : MaybeValue]
  BY <1>p, <1>4, StateTypes DEF PutL1, Return, MaybeValue
<1>2. Idle \in ClientState
  BY StateTypes
<1>5. batch' = batch /\ l2' = l2 /\ backend' = backend /\ ops' = ops /\ L1Put(k, v, {})
  BY DEF PutL1
<1> HIDE DEF k, v
<1>a. /\ l1' \in [Keys -> MaybeValue] /\ returned' \in MaybeValue
      /\ request' \in [key : Keys, value : MaybeValue] \cup {NoItem}
      /\ handed' \in ItemSet \cup {NoItem}
      /\ queue' \in Seq(ItemSet) /\ io' \in [in : Seq(ItemSet), out : Seq(ItemSet)]
      /\ suspect' \subseteq Keys /\ suspect \subseteq suspect'
      /\ \A n \in 1 .. Len(queue') : queue'[n].key \in suspect'
      /\ l1'[k] = v \/ (l1'[k] = NoValue /\ l1[k] = NoValue)
      /\ \A j \in Keys \ {k} : l1'[j] \in {l1[j], NoValue}
  BY <1>p, <1>4, <1>5, L1PutOK
<1>6. client' \in [Clients -> ClientState]
  BY <1>p, <1>1, <1>2
<1>b. Beside(c, k, Idle)
  <2>1. client[c].at \in WriteLabels
    BY <1>3 DEF WriteLabels
  <2> QED BY <1>p, <1>a, <2>1, InsideWrite DEF k
<1>7. k \notin suspect' => Ends(Idle, k, l1'[k], backend'[k])
  BY <1>3, <1>4, <1>5, <1>a DEF Ends, Held, v
<1>8. Coherent'
  <2>1. \A j \in Keys \ {k} : backend'[j] = backend[j] /\ l1'[j] \in {l1[j], NoValue}
    BY <1>5, <1>a
  <2>2. Idle.at \in {"get_fill", "put_l1"} => Idle.value \in Values
    BY DEF Idle
  <2>3. client[c].key = k /\ suspect \subseteq suspect'
    BY <1>a DEF k
  <2> QED BY <1>p, <1>1, <1>2, <1>4, <1>6, <1>7, <1>b, <2>1, <2>2, <2>3, KeyStep
<1>9. BelowSuspect'
  <2>1. /\ \A n \in 1 .. Len(batch) : batch[n].key \in suspect
        /\ \A s \in L2Stripes : \A n \in 1 .. Len(l2[s]) : l2[s][n].key \in suspect
    BY <1>p DEF BelowSuspect
  <2> QED BY <1>5, <1>a, <2>1 DEF BelowSuspect
<1>10. TypeOK'
  BY <1>p, <1>1, <1>5, <1>6, <1>a DEF TypeOK, ClientState
<1>11. L2WellFormed'
  BY <1>p, <1>5 DEF L2WellFormed
<1> QED BY <1>8, <1>9, <1>10, <1>11 DEF EngineInv

\* The drainer touches neither L1 nor the backend nor a client.
LEMMA DrainCoherent ==
    ASSUME Coherent, l1' = l1, backend' = backend, client' = client, suspect' = suspect
    PROVE  Coherent'
BY DEF Coherent, ClientOK, OneWriter, HeldCoherent, Held, QuietCoherent, Writing

LEMMA DrainPopInv ==
    ASSUME EngineInv, DrainPop
    PROVE  EngineInv'
<1> DEFINE m == IF Len(queue) < BatchMax THEN Len(queue) ELSE BatchMax
<1>p. /\ TypeOK /\ L2WellFormed /\ BelowSuspect /\ Coherent /\ L2Type
      /\ client \in [Clients -> ClientState] /\ NoValue \in MaybeValue
      /\ l1 \in [Keys -> MaybeValue] /\ backend \in [Keys -> MaybeValue]
  BY EngineParts
<1>1. /\ l1' = l1 /\ request' = request /\ returned' = returned /\ handed' = handed
      /\ l2' = l2 /\ backend' = backend /\ client' = client /\ ops' = ops /\ suspect' = suspect
      /\ answer' = NoAnswer /\ NoAnswer \in [key : Keys \cup {NoKey}, value : MaybeValue]
  BY StateTypes DEF DrainPop, l1Vars
<1>2. /\ io' = [in |-> <<>>, out |-> SubSeq(queue, 1, m)]
      /\ queue' = SubSeq(queue, m + 1, Len(queue))
      /\ batch' = SubSeq(queue, 1, m)
  BY DEF DrainPop, Q!Take, Q!IO
<1>3. queue \in Seq(ItemSet) /\ Len(queue) \in Nat /\ m \in 0 .. Len(queue)
  BY EngineAssumption DEF EngineInv, TypeOK
<1> HIDE DEF m
<1>4. /\ SubSeq(queue, 1, m) \in Seq(ItemSet) /\ Len(SubSeq(queue, 1, m)) = m
      /\ \A n \in 1 .. m : SubSeq(queue, 1, m)[n] = queue[n]
  BY ONLY <1>3
<1>5. /\ SubSeq(queue, m + 1, Len(queue)) \in Seq(ItemSet)
      /\ Len(SubSeq(queue, m + 1, Len(queue))) = Len(queue) - m
      /\ \A n \in 1 .. Len(queue) - m : SubSeq(queue, m + 1, Len(queue))[n] = queue[m + n]
  BY ONLY <1>3
<1>6. BelowSuspect'
  <2>1. \A n \in 1 .. Len(queue) : queue[n].key \in suspect
    BY <1>p DEF BelowSuspect
  <2>2. \A n \in 1 .. m : n \in 1 .. Len(queue)
    BY <1>3
  <2>3. \A n \in 1 .. Len(queue) - m : m + n \in 1 .. Len(queue)
    BY <1>3
  <2>4. /\ \A n \in 1 .. Len(batch') : batch'[n].key \in suspect'
        /\ \A n \in 1 .. Len(queue') : queue'[n].key \in suspect'
    BY <1>1, <1>2, <1>4, <1>5, <2>1, <2>2, <2>3
  <2>5. \A s \in L2Stripes : \A n \in 1 .. Len(l2'[s]) : l2'[s][n].key \in suspect'
    BY <1>p, <1>1 DEF BelowSuspect
  <2> QED BY <2>4, <2>5 DEF BelowSuspect
<1>7. TypeOK'
  <2>1. <<>> \in Seq(ItemSet)
    OBVIOUS
  <2>2. io' \in [in : Seq(ItemSet), out : Seq(ItemSet)]
    BY <1>2, <1>4, <2>1
  <2>3. queue' \in Seq(ItemSet) /\ batch' \in Seq(ItemSet)
    BY <1>2, <1>4, <1>5
  <2> QED BY <1>p, <1>1, <2>2, <2>3 DEF TypeOK
<1>8. Coherent' /\ L2WellFormed'
  BY <1>p, <1>1, DrainCoherent DEF L2WellFormed
<1> QED BY <1>6, <1>7, <1>8 DEF EngineInv

LEMMA DrainInsertInv ==
    ASSUME EngineInv, DrainInsert
    PROVE  EngineInv'
<1>p. /\ TypeOK /\ L2WellFormed /\ BelowSuspect /\ Coherent /\ L2Type
      /\ client \in [Clients -> ClientState] /\ NoValue \in MaybeValue
      /\ l1 \in [Keys -> MaybeValue] /\ backend \in [Keys -> MaybeValue]
  BY EngineParts
<1>1. /\ l1' = l1 /\ request' = request /\ returned' = returned /\ handed' = handed
      /\ queue' = queue /\ io' = io
      /\ backend' = backend /\ client' = client /\ ops' = ops /\ suspect' = suspect
      /\ answer' = NoAnswer /\ NoAnswer \in [key : Keys \cup {NoKey}, value : MaybeValue]
  BY StateTypes DEF DrainInsert, l1Vars, queueVars
<1>2. batch \in Seq(ItemSet) /\ batch # <<>>
  BY DEF EngineInv, TypeOK, DrainInsert
<1>3. /\ Head(batch) = batch[1] /\ batch[1] \in ItemSet /\ 1 \in 1 .. Len(batch)
      /\ Tail(batch) \in Seq(ItemSet) /\ Len(Tail(batch)) = Len(batch) - 1
      /\ \A n \in 1 .. Len(batch) - 1 : Tail(batch)[n] = batch[n + 1] /\ n + 1 \in 1 .. Len(batch)
  BY ONLY <1>2
<1>4. L2Insert(batch[1]) /\ batch' = Tail(batch)
  BY <1>3 DEF DrainInsert
<1>5. /\ L2Type' /\ L2WellFormed'
      /\ \A s \in L2Stripes : \A n \in 1 .. Len(l2'[s]) :
            l2'[s][n] = batch[1] \/ \E m \in 1 .. Len(l2[s]) : l2'[s][n] = l2[s][m]
  BY <1>p, <1>3, <1>4, L2InsertOK
<1>6. BelowSuspect'
  <2>1. /\ \A n \in 1 .. Len(queue) : queue[n].key \in suspect
        /\ \A n \in 1 .. Len(batch) : batch[n].key \in suspect
        /\ \A s \in L2Stripes : \A n \in 1 .. Len(l2[s]) : l2[s][n].key \in suspect
    BY <1>p DEF BelowSuspect
  <2>2. \A n \in 1 .. Len(batch') : batch'[n].key \in suspect'
    BY <1>1, <1>3, <1>4, <2>1
  <2>3. ASSUME NEW s \in L2Stripes, NEW n \in 1 .. Len(l2'[s]) PROVE l2'[s][n].key \in suspect'
    <3>1. batch[1].key \in suspect
      BY <1>3, <2>1
    <3> QED BY <1>1, <1>5, <2>1, <3>1
  <2>4. \A n \in 1 .. Len(queue') : queue'[n].key \in suspect'
    BY <1>1, <2>1
  <2> QED BY <2>2, <2>3, <2>4 DEF BelowSuspect
<1>7. TypeOK'
  BY <1>p, <1>1, <1>3, <1>4, <1>5 DEF TypeOK, L2Type
<1>8. Coherent'
  BY <1>p, <1>1, DrainCoherent
<1> QED BY <1>5, <1>6, <1>7, <1>8 DEF EngineInv
-----------------------------------------------------------------------------
(* The theorems *)

LEMMA InitEngineInv == Init => EngineInv
<1> SUFFICES ASSUME Init PROVE EngineInv
  OBVIOUS
<1>1. /\ l1 = [k \in Keys |-> NoValue] /\ request = NoItem /\ handed = NoItem /\ returned = NoValue
      /\ queue = <<>> /\ io = [in |-> <<>>, out |-> <<>>] /\ batch = <<>>
      /\ l2 = [s \in L2Stripes |-> <<>>] /\ backend = [k \in Keys |-> NoValue]
      /\ client = [c \in Clients |-> Idle] /\ answer = NoAnswer /\ ops = 0 /\ suspect = {}
  BY DEF Init, L1!Init, Q!Init, Q!IO
<1>2. <<>> \in Seq(ItemSet) /\ Len(<<>>) = 0 /\ DOMAIN <<>> = {}
  OBVIOUS
<1>3. TypeOK
  <2>1. /\ NoValue \in MaybeValue /\ Idle \in ClientState
        /\ NoAnswer \in [key : Keys \cup {NoKey}, value : MaybeValue]
    BY StateTypes DEF MaybeValue
  <2>2. 0 \in 0 .. MaxOps
    BY EngineAssumption
  <2> QED BY <1>1, <1>2, <2>1, <2>2 DEF TypeOK, ClientState
<1>4. L2WellFormed
  BY <1>1, <1>2, EngineAssumption DEF L2WellFormed
<1>5. BelowSuspect
  BY <1>1, <1>2 DEF BelowSuspect
<1>6. Coherent
  BY <1>1, EngineAssumption DEF Coherent, ClientOK, OneWriter, HeldCoherent, QuietCoherent, Idle
<1> QED BY <1>3, <1>4, <1>5, <1>6 DEF EngineInv

LEMMA StutterEngineInv ==
    ASSUME EngineInv, UNCHANGED vars
    PROVE  EngineInv'
<1>1. /\ l1' = l1 /\ request' = request /\ returned' = returned /\ handed' = handed
      /\ queue' = queue /\ io' = io /\ batch' = batch /\ l2' = l2 /\ backend' = backend
      /\ client' = client /\ answer' = answer /\ ops' = ops /\ suspect' = suspect
  BY DEF vars, l1Vars, queueVars
<1>2. TypeOK /\ L2WellFormed /\ BelowSuspect /\ Coherent
  BY DEF EngineInv
<1>3. TypeOK' /\ L2WellFormed' /\ BelowSuspect'
  BY <1>1, <1>2 DEF TypeOK, L2WellFormed, BelowSuspect
<1>4. Coherent'
  BY <1>1, <1>2, DrainCoherent
<1> QED BY <1>3, <1>4 DEF EngineInv

LEMMA StepEngineInv == EngineInv /\ [Next]_vars => EngineInv'
<1> SUFFICES ASSUME EngineInv, [Next]_vars PROVE EngineInv'
  OBVIOUS
<1>1. ASSUME NEW c \in Clients, Step(c) PROVE EngineInv'
  BY <1>1, GetL2Inv, GetBackendInv, GetFillInv, PutL1Inv, RemoveL2Inv, RemoveBackendInv DEF Step
<1>2. ASSUME NEW c \in Clients, NEW k \in Keys, GetL1(c, k) PROVE EngineInv'
  BY <1>2, GetL1Inv
<1>3. ASSUME NEW c \in Clients, NEW k \in Keys, RemoveL1(c, k) PROVE EngineInv'
  BY <1>3, RemoveL1Inv
<1>4. ASSUME NEW c \in Clients, NEW k \in Keys, NEW v \in Values, PutBackend(c, k, v)
      PROVE  EngineInv'
  BY <1>4, PutBackendInv
<1>5. DrainPop => EngineInv'
  BY DrainPopInv
<1>6. DrainInsert => EngineInv'
  BY DrainInsertInv
<1>7. UNCHANGED vars => EngineInv'
  BY StutterEngineInv
<1> QED BY <1>1, <1>2, <1>3, <1>4, <1>5, <1>6, <1>7 DEF Next

LEMMA EngineInvariant == Spec => []EngineInv
BY InitEngineInv, StepEngineInv, PTL DEF Spec

\* Gets, removes and the drainer visit the L2 stripes under one lock at a time
\* and in any order; every stripe stays an LRU list of distinct keys that hash
\* to it, within its capacity (cache_engine.cpp, l2_get and l2_put_batch).
THEOREM EngineL2WellFormed == Spec => []L2WellFormed
<1>1. EngineInv => L2WellFormed
  BY DEF EngineInv
<1> QED BY <1>1, EngineInvariant, PTL

\* For any number of clients: a key that was never demoted and never written
\* while another client used it is not in L2, and L1 has the backend's value of
\* it or none unless a put or remove of it is under way, whoever reads it.
THEOREM EngineCoherentUnlessSuspect == Spec => []CoherentUnlessSuspect
<1>1. EngineInv => CoherentUnlessSuspect
  <2> SUFFICES ASSUME EngineInv, NEW k \in Keys \ suspect
               PROVE  ~ L2Has(k) /\ (~ Writing(k) => l1[k] \in {NoValue, backend[k]})
    BY DEF CoherentUnlessSuspect
  <2>1. ~ L2Has(k)
    <3> SUFFICES ASSUME L2Has(k) PROVE FALSE
      OBVIOUS
    <3>1. /\ L2Stripe[k] \in L2Stripes
          /\ L2Pos(k) \in 1 .. Len(l2[L2Stripe[k]])
          /\ l2[L2Stripe[k]][L2Pos(k)].key = k
      BY EngineParts, L2PosOK
    <3> QED BY <3>1 DEF EngineInv, BelowSuspect
  <2>2. ~ Writing(k) => l1[k] \in {NoValue, backend[k]}
    BY DEF EngineInv, Coherent, QuietCoherent
  <2> QED BY <2>1, <2>2
<1> QED BY <1>1, EngineInvariant, PTL

\* Fresh of a step's answer: the value is the one the backend has.
FreshAnswer == answer' # NoAnswer /\ answer'.key \notin suspect' => answer'.value = backend[answer'.key]

\* A get of such a key returns the backend's value at the step in which it
\* returns, from whichever layer it was served and beside any number of gets.
THEOREM EngineUnsuspectReadsAreFresh == Spec => UnsuspectReadsAreFresh
<1>1. EngineInv /\ [Next]_vars => [FreshAnswer]_vars
  <2> SUFFICES ASSUME EngineInv, Next PROVE FreshAnswer
    OBVIOUS
  <2>p. TypeOK /\ Coherent
    BY DEF EngineInv
  <2>1. ASSUME NEW c \in Clients, NEW k \in Keys, GetL1(c, k) PROVE FreshAnswer
    <3>1. Begin(c) /\ Suspect({}, ReadOverlap(k))
      BY <2>1 DEF GetL1
    <3>2. k \notin suspect' => l1[k] \in {NoValue, backend[k]}
      BY <2>p, <3>1, BeginOK
    <3>3. CASE l1[k] # NoValue
      <4>1. answer' = [key |-> k, value |-> l1[k]]
        BY <2>1, <3>3 DEF GetL1, Return
      <4> QED BY <3>2, <3>3, <4>1 DEF FreshAnswer
    <3>4. CASE l1[k] = NoValue
      BY <2>1, <3>4 DEF GetL1, Continue, FreshAnswer
    <3> QED BY <3>3, <3>4
  <2>2. ASSUME NEW c \in Clients, GetBackend(c) PROVE FreshAnswer
    <3>1. answer' = NoAnswer \/ (answer' = [key |-> client[c].key, value |-> NoValue]
                                  /\ backend[client[c].key] = NoValue)
      BY <2>2 DEF GetBackend, Continue, Return
    <3> QED BY <3>1 DEF FreshAnswer
  <2>3. ASSUME NEW c \in Clients, GetFill(c) PROVE FreshAnswer
    <3>1. /\ client[c].at = "get_fill"
          /\ answer' = [key |-> client[c].key, value |-> client[c].value]
          /\ L1Put(client[c].key, client[c].value, {})
      BY <2>3 DEF GetFill, Return, At
    <3>2. suspect \subseteq suspect'
      BY <3>1 DEF L1Put, Suspect
    <3>3. client[c].key \notin suspect => client[c].value = backend[client[c].key]
      BY <2>p, <3>1, InsideOK DEF Held
    <3> QED BY <3>1, <3>2, <3>3 DEF FreshAnswer
  <2>4. CASE answer' = NoAnswer
    BY <2>4 DEF FreshAnswer
  <2>5. ASSUME NEW c \in Clients, GetL2(c) \/ PutL1(c) \/ RemoveL2(c) \/ RemoveBackend(c)
        PROVE  answer' = NoAnswer
    BY <2>5 DEF GetL2, PutL1, RemoveL2, RemoveBackend, Continue, Return
  <2>6. ASSUME NEW c \in Clients, NEW k \in Keys,
               RemoveL1(c, k) \/ \E v \in Values : PutBackend(c, k, v)
        PROVE  answer' = NoAnswer
    BY <2>6 DEF RemoveL1, PutBackend, Continue
  <2>7. DrainPop \/ DrainInsert => answer' = NoAnswer
    BY DEF DrainPop, DrainInsert
  <2> QED BY <2>1, <2>2, <2>3, <2>4, <2>5, <2>6, <2>7 DEF Next, Step
<1> QED BY <1>1, EngineInvariant, PTL DEF Spec, UnsuspectReadsAreFresh, FreshAnswer
=============================================================================
