------------------------- MODULE StripedCacheProofs -------------------------
(***************************************************************************)
(* Proofs about the L1 cache for any number of stripes, threads and keys,  *)
(* any routing of the keys and any capacity.  Keys and threads need not be *)
(* finite in number: what is counted is finite because it grows by one at  *)
(* a time.                                                                 *)
(***************************************************************************)
EXTENDS StripedCache, FiniteSetTheorems, WellFoundedInduction, TLAPS

MaybeValue == Values \cup {NoValue}

PutState == [key : Keys, value : Values] \cup {NoPut}

CacheTypes ==
    /\ total_capacity \in Nat
    /\ map \in [Keys -> MaybeValue]
    /\ slab_free \in Nat
    /\ put \in [Threads -> PutState]

\* A put that holds a slot is for a key that is not cached, and no other put
\* is under way in its stripe.
PutsApart ==
    /\ \A t \in Threads : put[t] # NoPut => map[put[t].key] = NoValue
    /\ \A t, u \in Threads :
          put[t] # NoPut /\ put[u] # NoPut /\ Route[put[t].key] = Route[put[u].key] => t = u

\* No stripe holds more than its share.
StripesBounded == \A s \in Stripes : Cardinality(In(s)) <= PerStripe

\* The inductive invariant.  HeadroomSuffices needs the bound on each stripe and
\* on the puts under way; SlotsAccounted ties both to the free slots.
StripedInv ==
    /\ CacheTypes
    /\ IsFiniteSet(Cached) /\ IsFiniteSet(Holding)
    /\ PutsApart
    /\ SlotsAccounted
    /\ StripesBounded

-----------------------------------------------------------------------------
(* Counting *)

\* A finite set with one more or one less.
LEMMA CountOne ==
    ASSUME NEW S, IsFiniteSet(S), NEW x
    PROVE  /\ Cardinality(S) \in Nat
           /\ IsFiniteSet(S \cup {x}) /\ IsFiniteSet(S \ {x})
           /\ x \notin S => Cardinality(S \cup {x}) = Cardinality(S) + 1
           /\ x \in S => Cardinality(S \ {x}) = Cardinality(S) - 1
<1>1. Cardinality(S) \in Nat
  BY FS_CardinalityType
<1>2. IsFiniteSet(S \cup {x}) /\ IsFiniteSet(S \ {x})
  BY FS_AddElement, FS_RemoveElement
<1>3. x \notin S => Cardinality(S \cup {x}) = Cardinality(S) + 1
  BY FS_AddElement
<1>4. x \in S => Cardinality(S \ {x}) = Cardinality(S) - 1
  BY FS_RemoveElement
<1> QED BY <1>1, <1>2, <1>3, <1>4

\* A finite set in which y takes the place of x.
LEMMA CountSwap ==
    ASSUME NEW S, IsFiniteSet(S), NEW x, NEW y, x \notin S, y \in S \cup {x}
    PROVE  /\ IsFiniteSet((S \cup {x}) \ {y})
           /\ Cardinality((S \cup {x}) \ {y}) = Cardinality(S)
<1> DEFINE T == S \cup {x}
<1>1. Cardinality(S) \in Nat /\ IsFiniteSet(T) /\ Cardinality(T) = Cardinality(S) + 1
  BY CountOne
<1>2. IsFiniteSet(T \ {y}) /\ Cardinality(T \ {y}) = Cardinality(T) - 1
  <2>1. y \in T
    OBVIOUS
  <2> HIDE DEF T
  <2> QED BY <1>1, <2>1, CountOne
<1> QED BY <1>1, <1>2

LEMMA PerStripeType == total_capacity \in Nat => PerStripe \in Nat /\ SlabSize \in Nat
<1> SUFFICES ASSUME total_capacity \in Nat PROVE PerStripe \in Nat /\ SlabSize \in Nat
  OBVIOUS
<1>1. NumStripes \in Nat /\ NumStripes > 0
  BY StripesAssumption
<1>2. total_capacity \div NumStripes \in Int
  BY <1>1
<1> QED BY <1>1, <1>2 DEF PerStripe, SlabSize

\* The stripes' shares add up: n stripes hold at most n times the share.
LEMMA FirstStripes ==
    ASSUME StripedInv
    PROVE  Cardinality(Cached) <= NumStripes * PerStripe
<1> DEFINE C(n) == {k \in Cached : Route[k] < n}
           P == PerStripe
           T == {n \in Nat : n <= NumStripes /\ ~ Cardinality(C(n)) <= n * P}
<1>0. NumStripes \in Nat /\ NumStripes > 0 /\ P \in Nat /\ Stripes = 0 .. NumStripes - 1
  BY StripesAssumption, PerStripeType DEF StripedInv, CacheTypes, Stripes
<1>r. \A k \in Cached : k \in Keys /\ Route[k] \in Stripes
  BY RouteAssumption DEF Cached
<1>f. IsFiniteSet(Cached)
  BY DEF StripedInv
<1> HIDE DEF P
<1>1. ASSUME NEW n PROVE IsFiniteSet(C(n)) /\ Cardinality(C(n)) \in Nat
  <2>1. C(n) \in SUBSET Cached
    OBVIOUS
  <2> HIDE DEF C
  <2>2. IsFiniteSet(C(n))
    BY <1>f, <2>1, FS_Subset
  <2> QED BY <2>2, FS_CardinalityType
<1>2. T = {}
  <2> SUFFICES ASSUME T # {} PROVE FALSE
    OBVIOUS
  <2>1. PICK n \in T : \A y \in T : ~ (<<y, n>> \in OpToRel(<, Nat))
    <3>1. IsWellFoundedOn(OpToRel(<, Nat), Nat) /\ T \subseteq Nat
      BY NatLessThanWellFounded
    <3> HIDE DEF T
    <3> QED BY <3>1, WFMin
  <2>2. n \in Nat /\ n <= NumStripes /\ ~ Cardinality(C(n)) <= n * P
    OBVIOUS
  <2>3. n # 0
    <3>1. C(0) = {}
      BY <1>0, <1>r
    <3>2. Cardinality(C(0)) = 0
      BY <3>1, FS_EmptySet
    <3> HIDE DEF C
    <3> QED BY <1>0, <2>2, <3>2
  <2> DEFINE m == n - 1
  <2>4. m \in Nat /\ m < n /\ m \in Stripes
    BY <1>0, <2>2, <2>3
  <2>5. m \notin T
    <3>1. <<m, n>> \in OpToRel(<, Nat)
      BY <2>2, <2>4 DEF OpToRel
    <3> HIDE DEF T
    <3> QED BY <2>1, <3>1
  <2>6. Cardinality(C(m)) <= m * P
    <3> HIDE DEF C
    <3> QED BY <1>0, <2>2, <2>4, <2>5
  <2>7. C(n) = C(m) \cup In(m)
    <3>1. In(m) = {k \in Cached : Route[k] = m}
      BY DEF In, Cached
    <3>2. \A k \in Cached : Route[k] \in Int
      BY <1>0, <1>r
    <3> QED BY <2>2, <2>4, <3>1, <3>2
  <2>8. IsFiniteSet(In(m)) /\ Cardinality(In(m)) \in Nat /\ Cardinality(In(m)) <= P
    <3>1. In(m) \in SUBSET Cached
      BY DEF In, Cached
    <3>2. IsFiniteSet(In(m))
      BY <1>f, <3>1, FS_Subset
    <3>3. Cardinality(In(m)) <= P
      BY <2>4 DEF StripedInv, StripesBounded, P
    <3> QED BY <3>2, <3>3, FS_CardinalityType
  <2> HIDE DEF C, m, T
  <2>9. Cardinality(C(n)) <= Cardinality(C(m)) + Cardinality(In(m))
    <3>1. IsFiniteSet(C(m)) /\ Cardinality(C(m)) \in Nat
      BY <1>1
    <3>2. Cardinality(C(n)) = Cardinality(C(m)) + Cardinality(In(m)) - Cardinality(C(m) \cap In(m))
      BY <2>7, <2>8, <3>1, FS_Union
    <3>3. Cardinality(C(m) \cap In(m)) \in Nat
      <4>1. C(m) \cap In(m) \in SUBSET In(m)
        OBVIOUS
      <4>2. IsFiniteSet(C(m) \cap In(m))
        BY <2>8, <4>1, FS_Subset
      <4> QED BY <4>2, FS_CardinalityType
    <3> QED BY <2>8, <3>1, <3>2, <3>3
  <2>10. n * P = m * P + P /\ m * P \in Nat /\ n * P \in Nat
    <3>1. n = m + 1 /\ m \in Nat /\ P \in Nat
      BY <1>0, <2>2, <2>4 DEF m
    <3>2. (m + 1) * P = m * P + P /\ m * P \in Nat /\ (m + 1) * P \in Nat
      BY ONLY <3>1
    <3> QED BY <3>1, <3>2
  <2>11. Cardinality(C(n)) \in Nat /\ Cardinality(C(m)) \in Nat
    BY <1>1
  <2> QED BY <1>0, <2>2, <2>6, <2>8, <2>9, <2>10, <2>11
<1>3. C(NumStripes) = Cached
  BY <1>0, <1>r
<1>4. Cardinality(C(NumStripes)) <= NumStripes * P
  <2> HIDE DEF C
  <2> QED BY <1>0, <1>2
<1> QED BY <1>3, <1>4 DEF P

\* As long as one stripe is not locked, fewer puts hold a slot than there are
\* stripes.
LEMMA HoldingBounded ==
    ASSUME StripedInv, NEW k \in Keys, ~ Locked(k)
    PROVE  Cardinality(Holding) <= NumStripes - 1 /\ Cardinality(Holding) \in Nat
<1> DEFINE S == Stripes \ {Route[k]}
<1>0. NumStripes \in Nat /\ NumStripes > 0 /\ Stripes = 0 .. NumStripes - 1 /\ Route[k] \in Stripes
  BY StripesAssumption, RouteAssumption DEF Stripes
<1>1. IsFiniteSet(Stripes) /\ Cardinality(Stripes) = NumStripes
  <2>1. 0 \in Int /\ NumStripes - 1 \in Int /\ ~ 0 > NumStripes - 1
    BY <1>0
  <2>2. IsFiniteSet(0 .. NumStripes - 1) /\ Cardinality(0 .. NumStripes - 1) = NumStripes - 1 - 0 + 1
    BY <2>1, FS_Interval
  <2> QED BY <1>0, <2>2
<1>2. IsFiniteSet(S) /\ Cardinality(S) = NumStripes - 1
  BY <1>0, <1>1, CountOne
<1>3. IsFiniteSet(Holding) /\ Cardinality(Holding) \in Nat
  BY FS_CardinalityType DEF StripedInv
<1>4. ASSUME Cardinality(S) < Cardinality(Holding) PROVE FALSE
  <2> DEFINE f == [t \in Holding |-> Route[put[t].key]]
  <2>1. f \in [Holding -> S]
    <3>1. ASSUME NEW t \in Holding PROVE Route[put[t].key] \in S
      <4>1. put[t] # NoPut /\ t \in Threads
        BY DEF Holding
      <4>2. put[t].key \in Keys
        BY <4>1 DEF StripedInv, CacheTypes, PutState
      <4> QED BY <4>1, <4>2, RouteAssumption DEF Locked
    <3> QED BY <3>1
  <2>2. \E t, u \in Holding : t # u /\ f[t] = f[u]
    <3> HIDE DEF f, S
    <3> QED BY <1>2, <1>3, <1>4, <2>1, FS_PigeonHole
  <2> QED BY <2>2 DEF Holding, StripedInv, PutsApart
<1> HIDE DEF S
<1> QED BY <1>0, <1>2, <1>3, <1>4

-----------------------------------------------------------------------------
(* The steps *)

LEMMA InitStripedInv == Init => StripedInv
<1> SUFFICES ASSUME Init PROVE StripedInv
  OBVIOUS
<1>1. /\ total_capacity \in Nat /\ map = [k \in Keys |-> NoValue] /\ slab_free = SlabSize
      /\ put = [t \in Threads |-> NoPut]
  BY StripesAssumption DEF Init
<1>2. SlabSize \in Nat /\ PerStripe \in Nat
  BY <1>1, PerStripeType
<1>3. CacheTypes
  BY <1>1, <1>2 DEF CacheTypes, MaybeValue, PutState
<1>4. Cached = {} /\ Holding = {} /\ \A s \in Stripes : In(s) = {}
  BY <1>1 DEF Cached, Holding, In
<1>5. IsFiniteSet({}) /\ Cardinality({}) = 0
  BY FS_EmptySet
<1>6. SlotsAccounted
  BY <1>1, <1>2, <1>4, <1>5 DEF SlotsAccounted
<1>7. StripesBounded
  BY <1>2, <1>4, <1>5 DEF StripesBounded
<1>8. PutsApart
  BY <1>1 DEF PutsApart
<1> QED BY <1>3, <1>4, <1>5, <1>6, <1>7, <1>8 DEF StripedInv

\* A step that leaves the cached keys and the slots alone.
LEMMA SameSlots ==
    ASSUME StripedInv, total_capacity' = total_capacity, slab_free' = slab_free, put' = put,
           map' \in [Keys -> MaybeValue], \A k \in Keys : map'[k] = NoValue <=> map[k] = NoValue
    PROVE  StripedInv'
<1>1. Cached' = Cached /\ Holding' = Holding /\ \A s : In(s)' = In(s)
  BY DEF Cached, Holding, In
<1>2. SlabSize' = SlabSize /\ PerStripe' = PerStripe
  BY DEF SlabSize, PerStripe
<1>3. CacheTypes'
  BY DEF StripedInv, CacheTypes
<1>4. SlotsAccounted'
  BY <1>1, <1>2 DEF StripedInv, SlotsAccounted
<1>5. StripesBounded'
  BY <1>1, <1>2 DEF StripedInv, StripesBounded
<1>6. PutsApart'
  <2>1. \A t \in Threads : put[t] # NoPut => put[t].key \in Keys
    BY DEF StripedInv, CacheTypes, PutState
  <2> QED BY <2>1 DEF StripedInv, PutsApart
<1>7. IsFiniteSet(Cached') /\ IsFiniteSet(Holding')
  BY <1>1 DEF StripedInv
<1> QED BY <1>3, <1>4, <1>5, <1>6, <1>7 DEF StripedInv

LEMMA PutAllocateInv ==
    ASSUME StripedInv, NEW t \in Threads, NEW k \in Keys, NEW v \in Values,
           PutAllocate(t, k, v), total_capacity' = total_capacity
    PROVE  StripedInv'
<1>1. /\ put[t] = NoPut /\ ~ Locked(k) /\ map[k] = NoValue /\ slab_free > 0
      /\ slab_free' = slab_free - 1 /\ map' = map
      /\ put' = [put EXCEPT ![t] = [key |-> k, value |-> v]]
  BY DEF PutAllocate, Idle, Item
<1>n. [key |-> k, value |-> v] # NoPut /\ [key |-> k, value |-> v] \in PutState
  BY MarksAssumption DEF NoPut, PutState
<1>t. put \in [Threads -> PutState] /\ slab_free \in Nat
  BY DEF StripedInv, CacheTypes
<1>2. \A u \in Threads : put'[u] = IF u = t THEN [key |-> k, value |-> v] ELSE put[u]
  BY <1>1, <1>t
<1>3. Cached' = Cached /\ \A s : In(s)' = In(s)
  BY <1>1 DEF Cached, In
<1>4. Holding' = Holding \cup {t} /\ t \notin Holding
  BY <1>1, <1>2, <1>n DEF Holding
<1>5. SlabSize' = SlabSize /\ PerStripe' = PerStripe
  BY DEF SlabSize, PerStripe
<1>6. /\ IsFiniteSet(Holding) /\ IsFiniteSet(Holding') /\ Cardinality(Holding) \in Nat
      /\ Cardinality(Holding') = Cardinality(Holding) + 1
  BY <1>4, CountOne DEF StripedInv
<1>7. IsFiniteSet(Cached') /\ Cardinality(Cached) \in Nat /\ SlabSize \in Nat
  BY <1>3, FS_CardinalityType, PerStripeType DEF StripedInv, CacheTypes
<1>8. SlotsAccounted'
  <2>1. slab_free + Cardinality(Cached) + Cardinality(Holding) = SlabSize
    BY DEF StripedInv, SlotsAccounted
  <2>2. slab_free' + Cardinality(Cached') + Cardinality(Holding') = SlabSize'
    BY <1>1, <1>3, <1>5, <1>6, <1>7, <1>t, <2>1
  <2> QED BY <2>2 DEF SlotsAccounted
<1>9. StripesBounded'
  BY <1>3, <1>5 DEF StripedInv, StripesBounded
<1>10. CacheTypes'
  <2>1. slab_free' \in Nat
    BY <1>1, <1>t
  <2>2. put' \in [Threads -> PutState]
    BY <1>1, <1>n, <1>t
  <2> QED BY <1>1, <2>1, <2>2 DEF StripedInv, CacheTypes
<1>11. PutsApart'
  <2>1. \A u \in Threads : put[u] # NoPut => Route[put[u].key] # Route[k]
    BY <1>1 DEF Locked
  <2> QED BY <1>1, <1>2, <2>1 DEF StripedInv, PutsApart
<1> QED BY <1>6, <1>7, <1>8, <1>9, <1>10, <1>11 DEF StripedInv

LEMMA RemoveInv ==
    ASSUME StripedInv, NEW t \in Threads, NEW k \in Keys,
           Remove(t, k), total_capacity' = total_capacity
    PROVE  StripedInv'
<1>1. /\ map[k] # NoValue /\ map' = [map EXCEPT ![k] = NoValue]
      /\ slab_free' = slab_free + 1 /\ put' = put
  BY DEF Remove, threadVars
<1>t. map \in [Keys -> MaybeValue] /\ slab_free \in Nat
  BY DEF StripedInv, CacheTypes
<1>2. \A j \in Keys : map'[j] = IF j = k THEN NoValue ELSE map[j]
  BY <1>1, <1>t
<1>3. /\ Cached' = Cached \ {k} /\ k \in Cached
      /\ \A s : In(s)' = In(s) \ {k}
  BY <1>1, <1>2 DEF Cached, In
<1>4. Holding' = Holding
  BY <1>1 DEF Holding
<1>5. SlabSize' = SlabSize /\ PerStripe' = PerStripe
  BY DEF SlabSize, PerStripe
<1>6. /\ IsFiniteSet(Cached') /\ Cardinality(Cached) \in Nat
      /\ Cardinality(Cached') = Cardinality(Cached) - 1
  BY <1>3, CountOne DEF StripedInv
<1>7. /\ IsFiniteSet(Holding') /\ Cardinality(Holding) \in Nat
      /\ SlabSize \in Nat /\ PerStripe \in Nat
  BY <1>4, FS_CardinalityType, PerStripeType DEF StripedInv, CacheTypes
<1>8. SlotsAccounted'
  <2>1. slab_free + Cardinality(Cached) + Cardinality(Holding) = SlabSize
    BY DEF StripedInv, SlotsAccounted
  <2>2. slab_free' + Cardinality(Cached') + Cardinality(Holding') = SlabSize'
    BY <1>1, <1>4, <1>5, <1>6, <1>7, <1>t, <2>1
  <2> QED BY <2>2 DEF SlotsAccounted
<1>9. StripesBounded'
  <2> SUFFICES ASSUME NEW s \in Stripes PROVE Cardinality(In(s)') <= PerStripe'
    BY DEF StripesBounded
  <2>1. In(s) \in SUBSET Cached /\ In(s) \ {k} \in SUBSET In(s)
    BY DEF In, Cached
  <2>2. IsFiniteSet(In(s))
    BY <2>1, FS_Subset DEF StripedInv
  <2>3. Cardinality(In(s) \ {k}) <= Cardinality(In(s)) /\ IsFiniteSet(In(s) \ {k})
    BY <2>1, <2>2, FS_Subset
  <2>4. Cardinality(In(s)) \in Nat /\ Cardinality(In(s) \ {k}) \in Nat
    BY <2>2, <2>3, FS_CardinalityType
  <2>5. Cardinality(In(s)) <= PerStripe
    BY DEF StripedInv, StripesBounded
  <2>6. Cardinality(In(s) \ {k}) <= PerStripe
    BY <1>7, <2>3, <2>4, <2>5
  <2> QED BY <1>3, <1>5, <2>6
<1>10. CacheTypes'
  <2>1. slab_free' \in Nat /\ map' \in [Keys -> MaybeValue]
    BY <1>1, <1>t DEF MaybeValue
  <2> QED BY <1>1, <2>1 DEF StripedInv, CacheTypes
<1>11. PutsApart'
  <2>1. \A u \in Threads : put[u] # NoPut => put[u].key \in Keys
    BY DEF StripedInv, CacheTypes, PutState
  <2> QED BY <1>1, <1>2, <2>1 DEF StripedInv, PutsApart
<1> QED BY <1>6, <1>7, <1>8, <1>9, <1>10, <1>11 DEF StripedInv

\* The key k of a put enters a stripe, and the key j of that stripe goes: no
\* key goes when j is NoKey.
PutInsertEffect(t, k, v, j) ==
    /\ put' = [put EXCEPT ![t] = NoPut]
    /\ map' \in [Keys -> MaybeValue]
    /\ \A i \in Keys : map'[i] = IF i = j THEN NoValue ELSE IF i = k THEN v ELSE map[i]
    /\ \/ j = NoKey /\ slab_free' = slab_free /\ Cardinality(In(Route[k])) < PerStripe
       \/ j \in In(Route[k]) \cup {k} /\ slab_free' = slab_free + 1

\* What is known of a put that holds a slot.
LEMMA PutUnderWay ==
    ASSUME StripedInv, NEW t \in Threads, put[t] # NoPut
    PROVE  /\ put[t].key \in Keys /\ put[t].value \in Values
           /\ map[put[t].key] = NoValue
  BY DEF StripedInv, CacheTypes, PutState, PutsApart

LEMMA PutInsertCases ==
    ASSUME StripedInv, NEW t \in Threads, PutInsert(t)
    PROVE  \E j : PutInsertEffect(t, put[t].key, put[t].value, j)
<1> DEFINE k == put[t].key
           v == put[t].value
<1>1. put[t] # NoPut /\ put' = [put EXCEPT ![t] = NoPut]
  BY DEF PutInsert
<1>2. k \in Keys /\ v \in Values /\ map \in [Keys -> MaybeValue]
  BY <1>1, PutUnderWay DEF StripedInv, CacheTypes
<1>3. CASE Cardinality(In(Route[k])) < PerStripe
  <2>1. map' = [map EXCEPT ![k] = v] /\ slab_free' = slab_free
    BY <1>3 DEF PutInsert
  <2>2. map' \in [Keys -> MaybeValue]
    BY <1>2, <2>1 DEF MaybeValue
  <2>3. \A i \in Keys : map'[i] = IF i = NoKey THEN NoValue ELSE IF i = k THEN v ELSE map[i]
    BY <1>2, <2>1, MarksAssumption
  <2> HIDE DEF k, v
  <2>4. PutInsertEffect(t, k, v, NoKey)
    BY <1>1, <1>3, <2>1, <2>2, <2>3 DEF PutInsertEffect
  <2> QED BY <2>4 DEF k, v
<1>4. CASE ~ Cardinality(In(Route[k])) < PerStripe
  <2>1. PICK j \in In(Route[k]) \cup {k} :
           /\ map' = [[map EXCEPT ![k] = v] EXCEPT ![j] = NoValue]
           /\ slab_free' = slab_free + 1
    BY <1>4 DEF PutInsert
  <2>2. map' \in [Keys -> MaybeValue]
    BY <1>2, <2>1 DEF MaybeValue
  <2>3. \A i \in Keys : map'[i] = IF i = j THEN NoValue ELSE IF i = k THEN v ELSE map[i]
    BY <1>2, <2>1
  <2> HIDE DEF k, v
  <2>4. PutInsertEffect(t, k, v, j)
    BY <1>1, <2>1, <2>2, <2>3 DEF PutInsertEffect
  <2> QED BY <2>4 DEF k, v
<1> QED BY <1>3, <1>4

LEMMA PutInsertInv ==
    ASSUME StripedInv, NEW t \in Threads, PutInsert(t), total_capacity' = total_capacity
    PROVE  StripedInv'
<1>0. PICK k, v, j : k = put[t].key /\ v = put[t].value /\ PutInsertEffect(t, k, v, j)
  BY PutInsertCases
<1>1. /\ put[t] # NoPut /\ put' = [put EXCEPT ![t] = NoPut]
      /\ k \in Keys /\ v \in Values /\ map[k] = NoValue
  BY <1>0, PutUnderWay DEF PutInsert
<1>t. /\ map' \in [Keys -> MaybeValue] /\ slab_free \in Nat
      /\ put \in [Threads -> PutState]
  BY <1>0 DEF StripedInv, CacheTypes, PutInsertEffect
<1>m. \A i \in Keys : map'[i] = IF i = j THEN NoValue ELSE IF i = k THEN v ELSE map[i]
  BY <1>0 DEF PutInsertEffect
<1>p. \A u \in Threads : put'[u] = IF u = t THEN NoPut ELSE put[u]
  BY <1>1, <1>t
<1>v. v # NoValue
  BY <1>1, MarksAssumption
<1>2. Holding' = Holding \ {t} /\ t \in Holding
  BY <1>1, <1>p DEF Holding
<1>3. Cached' = (Cached \cup {k}) \ {j} /\ k \notin Cached
  BY <1>1, <1>m, <1>v DEF Cached
<1>4. /\ In(Route[k])' = (In(Route[k]) \cup {k}) \ {j} /\ k \notin In(Route[k])
      /\ \A s \in Stripes : s # Route[k] => In(s)' = In(s) \ {j}
  BY <1>1, <1>m, <1>v DEF In
<1>5. SlabSize' = SlabSize /\ PerStripe' = PerStripe
  BY DEF SlabSize, PerStripe
<1>6. /\ IsFiniteSet(Holding') /\ Cardinality(Holding) \in Nat
      /\ Cardinality(Holding') = Cardinality(Holding) - 1
  BY <1>2, CountOne DEF StripedInv
<1>7. Cardinality(Cached) \in Nat /\ SlabSize \in Nat /\ PerStripe \in Nat
  BY FS_CardinalityType, PerStripeType DEF StripedInv, CacheTypes
<1>8. \A s \in Stripes : /\ IsFiniteSet(In(s)) /\ Cardinality(In(s)) \in Nat
                         /\ Cardinality(In(s)) <= PerStripe
  <2> SUFFICES ASSUME NEW s \in Stripes
               PROVE  IsFiniteSet(In(s)) /\ Cardinality(In(s)) \in Nat
    BY DEF StripedInv, StripesBounded
  <2>1. In(s) \in SUBSET Cached
    BY DEF In, Cached
  <2>2. IsFiniteSet(In(s))
    BY <2>1, FS_Subset DEF StripedInv
  <2> QED BY <2>2, FS_CardinalityType
<1>9. Route[k] \in Stripes
  BY <1>1, RouteAssumption
<1>10. /\ IsFiniteSet(Cached') /\ slab_free' \in Nat
       /\ slab_free' + Cardinality(Cached') = slab_free + Cardinality(Cached) + 1
       /\ Cardinality(In(Route[k])') <= PerStripe
  <2>1. CASE j = NoKey /\ slab_free' = slab_free /\ Cardinality(In(Route[k])) < PerStripe
    <3>1. Cached' = Cached \cup {k} /\ In(Route[k])' = In(Route[k]) \cup {k}
      <4>1. j \notin Keys
        BY <2>1, MarksAssumption
      <4> QED BY <1>1, <1>3, <1>4, <4>1 DEF Cached, In
    <3>2. IsFiniteSet(Cached') /\ Cardinality(Cached') = Cardinality(Cached) + 1
      BY <1>3, <3>1, CountOne DEF StripedInv
    <3>3. Cardinality(In(Route[k])') = Cardinality(In(Route[k])) + 1
      BY <1>4, <1>8, <1>9, <3>1, CountOne
    <3>4. Cardinality(In(Route[k])) \in Nat
      BY <1>8, <1>9
    <3> QED BY <1>7, <1>t, <2>1, <3>2, <3>3, <3>4
  <2>2. CASE j \in In(Route[k]) \cup {k} /\ slab_free' = slab_free + 1
    <3>1. j \in Cached \cup {k}
      BY <2>2 DEF In, Cached
    <3>2. IsFiniteSet(Cached') /\ Cardinality(Cached') = Cardinality(Cached)
      BY <1>3, <3>1, CountSwap DEF StripedInv
    <3>3. Cardinality(In(Route[k])') = Cardinality(In(Route[k]))
      BY <1>4, <1>8, <1>9, <2>2, CountSwap
    <3> QED BY <1>7, <1>8, <1>9, <1>t, <2>2, <3>2, <3>3
  <2> QED BY <1>0, <2>1, <2>2 DEF PutInsertEffect
<1>11. SlotsAccounted'
  <2>1. slab_free + Cardinality(Cached) + Cardinality(Holding) = SlabSize
    BY DEF StripedInv, SlotsAccounted
  <2>2. Cardinality(Cached') \in Nat
    BY <1>10, FS_CardinalityType
  <2>3. slab_free' + Cardinality(Cached') + Cardinality(Holding') = SlabSize'
    BY <1>5, <1>6, <1>7, <1>10, <1>t, <2>1, <2>2
  <2> QED BY <2>3 DEF SlotsAccounted
<1>12. StripesBounded'
  <2> SUFFICES ASSUME NEW s \in Stripes, s # Route[k]
               PROVE  Cardinality(In(s)') <= PerStripe
    BY <1>5, <1>10 DEF StripesBounded
  <2>1. In(s) \ {j} \in SUBSET In(s) /\ IsFiniteSet(In(s))
    BY <1>8
  <2>2. Cardinality(In(s) \ {j}) <= Cardinality(In(s)) /\ IsFiniteSet(In(s) \ {j})
    BY <2>1, FS_Subset
  <2>3. Cardinality(In(s) \ {j}) \in Nat
    BY <2>2, FS_CardinalityType
  <2>4. Cardinality(In(s) \ {j}) <= PerStripe
    BY <1>7, <1>8, <2>2, <2>3
  <2> QED BY <1>4, <2>4
<1>13. CacheTypes'
  <2>1. put' \in [Threads -> PutState]
    BY <1>1, <1>t DEF PutState
  <2> QED BY <1>10, <1>t, <2>1 DEF StripedInv, CacheTypes
<1>14. PutsApart'
  <2>1. \A u \in Threads : put[u] # NoPut => put[u].key \in Keys
    BY DEF StripedInv, CacheTypes, PutState
  <2>2. \A u \in Threads : put'[u] # NoPut => u # t /\ put'[u] = put[u] /\ put[u].key # k
    BY <1>0, <1>1, <1>p DEF StripedInv, PutsApart
  <2>3. \A i \in Keys : i # k /\ map[i] = NoValue => map'[i] = NoValue
    BY <1>m
  <2> QED BY <2>1, <2>2, <2>3 DEF StripedInv, PutsApart
<1> QED BY <1>6, <1>10, <1>11, <1>12, <1>13, <1>14 DEF StripedInv

LEMMA StepStripedInv == StripedInv /\ [Next]_vars => StripedInv'
<1> SUFFICES ASSUME StripedInv, [Next]_vars PROVE StripedInv'
  OBVIOUS
<1>m. map \in [Keys -> MaybeValue]
  BY DEF StripedInv, CacheTypes
<1>1. CASE UNCHANGED vars
  BY <1>1, <1>m, SameSlots DEF vars, threadVars
<1>2. ASSUME NEW t \in Threads, Step(t), total_capacity' = total_capacity PROVE StripedInv'
  <2>1. CASE PutInsert(t)
    BY <1>2, <2>1, PutInsertInv
  <2>2. ASSUME NEW k \in Keys, Get(t, k) PROVE StripedInv'
    BY <1>2, <1>m, <2>2, SameSlots DEF Get, threadVars
  <2>3. ASSUME NEW k \in Keys, Remove(t, k) PROVE StripedInv'
    BY <1>2, <2>3, RemoveInv
  <2>4. ASSUME NEW k \in Keys, BatchGet(t, k) PROVE StripedInv'
    BY <1>2, <1>m, <2>4, SameSlots DEF BatchGet
  <2>5. ASSUME NEW k \in Keys, NEW v \in Values, PutUpdate(t, k, v) PROVE StripedInv'
    <3>1. /\ map[k] # NoValue /\ map' = [map EXCEPT ![k] = v]
          /\ slab_free' = slab_free /\ put' = put
      BY <2>5 DEF PutUpdate, threadVars
    <3>2. map' \in [Keys -> MaybeValue]
      BY <1>m, <3>1 DEF MaybeValue
    <3>3. \A i \in Keys : map'[i] = NoValue <=> map[i] = NoValue
      BY <1>m, <3>1, MarksAssumption
    <3> QED BY <1>2, <3>1, <3>2, <3>3, SameSlots
  <2>6. ASSUME NEW k \in Keys, NEW v \in Values, PutNoSlot(t, k, v) PROVE StripedInv'
    BY <1>2, <1>m, <2>6, SameSlots DEF PutNoSlot, threadVars
  <2>7. ASSUME NEW k \in Keys, NEW v \in Values, PutAllocate(t, k, v) PROVE StripedInv'
    BY <1>2, <2>7, PutAllocateInv
  <2>8. ASSUME NEW batch \in Batches, BatchBegin(t, batch) PROVE StripedInv'
    BY <1>2, <1>m, <2>8, SameSlots DEF BatchBegin
  <2> QED BY <1>2, <2>1, <2>2, <2>3, <2>4, <2>5, <2>6, <2>7, <2>8 DEF Step
<1> QED BY <1>1, <1>2 DEF Next

LEMMA SpecStripedInv == Spec => []StripedInv
<1>1. StripedInv /\ [Next]_vars => StripedInv'
  BY StepStripedInv
<1> QED BY InitStripedInv, <1>1, PTL DEF Spec

-----------------------------------------------------------------------------
(* Theorems *)

\* No slot of the slab that all stripes share is lost or counted twice, however
\* the puts of the stripes interleave: every one is free, holds a cached key or
\* is in the hands of a put that has allocated it and not yet inserted its key.
THEOREM StripedSlotsAccounted == Spec => []SlotsAccounted
<1>1. StripedInv => SlotsAccounted
  BY DEF StripedInv
<1> QED BY SpecStripedInv, <1>1, PTL

\* A put that reaches the slab while its stripe is not locked finds a free slot
\* when the shares fit into the capacity: the cached keys take at most the
\* shares, and of the one extra slot per stripe its own is still there.
LEMMA SlotLeft ==
    ASSUME StripedInv, NEW k \in Keys, ~ Locked(k), NumStripes * PerStripe <= total_capacity
    PROVE  slab_free > 0
<1>1. Cardinality(Cached) <= NumStripes * PerStripe
  BY FirstStripes
<1>2. Cardinality(Holding) <= NumStripes - 1 /\ Cardinality(Holding) \in Nat
  BY HoldingBounded
<1>3. slab_free + Cardinality(Cached) + Cardinality(Holding) = total_capacity + NumStripes
  BY DEF StripedInv, SlotsAccounted, SlabSize
<1>4. Cardinality(Cached) \in Nat
  BY FS_CardinalityType DEF StripedInv
<1>5. slab_free \in Nat /\ total_capacity \in Nat
  BY DEF StripedInv, CacheTypes
<1>6. PICK shares : shares = NumStripes * PerStripe /\ shares \in Nat
  <2>1. NumStripes \in Nat /\ PerStripe \in Nat
    BY <1>5, StripesAssumption, PerStripeType
  <2>2. NumStripes * PerStripe \in Nat
    BY ONLY <2>1
  <2> QED BY <2>2
<1>7. NumStripes \in Nat /\ Cardinality(Cached) <= shares /\ shares <= total_capacity
  BY <1>1, <1>6, StripesAssumption
<1> QED BY ONLY <1>2, <1>3, <1>4, <1>5, <1>6, <1>7

LEMMA StepHeadroom == StripedInv /\ HeadroomSuffices /\ [Next]_vars => HeadroomSuffices'
<1> SUFFICES ASSUME StripedInv, HeadroomSuffices, [Next]_vars PROVE HeadroomSuffices'
  OBVIOUS
<1> DEFINE Fits == NumStripes * PerStripe <= total_capacity
<1>1. Fits' <=> Fits
  <2>1. total_capacity' = total_capacity
    BY DEF Next, vars
  <2> QED BY <2>1 DEF PerStripe
<1>2. ASSUME Fits PROVE failed' = failed \/ failed' = FALSE
  <2>1. CASE UNCHANGED vars
    BY <2>1 DEF vars
  <2>2. ASSUME NEW t \in Threads, Step(t) PROVE failed' = failed \/ failed' = FALSE
    <3>1. CASE PutInsert(t)
      BY <3>1 DEF PutInsert, Report
    <3>2. ASSUME NEW k \in Keys, Get(t, k) \/ Remove(t, k) \/ BatchGet(t, k)
          PROVE  failed' = FALSE
      BY <3>2 DEF Get, Remove, BatchGet, Report
    <3>3. ASSUME NEW k \in Keys, NEW v \in Values, PutUpdate(t, k, v) \/ PutAllocate(t, k, v)
          PROVE  failed' = failed \/ failed' = FALSE
      BY <3>3 DEF PutUpdate, PutAllocate, Report
    <3>4. ASSUME NEW k \in Keys, NEW v \in Values, PutNoSlot(t, k, v)
          PROVE  FALSE
      <4>1. slab_free = 0 /\ ~ Locked(k)
        BY <3>4 DEF PutNoSlot
      <4> QED BY <1>2, <4>1, SlotLeft
    <3>5. ASSUME NEW batch \in Batches, BatchBegin(t, batch) PROVE failed' = failed
      BY <3>5 DEF BatchBegin
    <3> QED BY <2>2, <3>1, <3>2, <3>3, <3>4, <3>5 DEF Step
  <2> QED BY <2>1, <2>2 DEF Next
<1> QED BY <1>1, <1>2 DEF HeadroomSuffices

\* The constructor's one extra slot per stripe is enough for any number of
\* stripes, threads and keys and any routing: when the shares fit into the
\* capacity, no put fails for want of a slot.
THEOREM StripedHeadroomSuffices == Spec => []HeadroomSuffices
<1>1. Init => HeadroomSuffices
  BY DEF Init, HeadroomSuffices
<1> QED BY SpecStripedInv, <1>1, StepHeadroom, PTL DEF Spec

\* What one step does to the map, in the terms of the abstract cache.
LEMMA StepImplementsL1 ==
    ASSUME StripedInv, [Next]_vars
    PROVE  [L1!Next]_<<map, request, handed, returned>>
<1> DEFINE Abstract == [L1!Next]_<<map, request, handed, returned>>
<1>m. map \in [Keys -> MaybeValue]
  BY DEF StripedInv, CacheTypes
<1>1. CASE UNCHANGED vars
  BY <1>1 DEF vars
<1>2. ASSUME NEW t \in Threads, Step(t) PROVE Abstract
  <2>1. CASE PutInsert(t)
    <3>0. PICK k, v : k = put[t].key /\ v = put[t].value
      OBVIOUS
    <3>1. k \in Keys /\ v \in Values /\ map[k] = NoValue
      BY <2>1, <3>0, PutUnderWay DEF PutInsert
    <3>2. request' = L1!Item(k, v) /\ returned' = NoValue
      BY <2>1, <3>0 DEF PutInsert, Report, Item, L1!Item
    <3>3. L1!Store(k, v) \/ L1!Refuse(k) \/ \E j \in Keys : L1!Replace(k, v, j)
      <4>1. CASE Cardinality(In(Route[k])) < PerStripe
        BY <2>1, <3>0, <4>1 DEF PutInsert, Report, L1!Store
      <4>2. CASE ~ Cardinality(In(Route[k])) < PerStripe
        <5>1. PICK j \in In(Route[k]) \cup {k} :
                 /\ map' = [[map EXCEPT ![k] = v] EXCEPT ![j] = NoValue]
                 /\ \/ handed' = NoItem
                    \/ j # k /\ handed' = Item(j, map[j])
          BY <2>1, <3>0, <4>2 DEF PutInsert, Report
        <5>2. CASE j = k
          <6>1. map' = map
            BY <1>m, <3>1, <5>1, <5>2
          <6> QED BY <3>1, <5>1, <5>2, <6>1 DEF L1!Refuse
        <5>3. CASE j # k
          <6>1. j \in Keys /\ map[j] # NoValue
            BY <5>1, <5>3 DEF In
          <6>2. L1!Replace(k, v, j)
            BY <3>1, <5>1, <5>3, <6>1 DEF L1!Replace, L1!Item, Item
          <6> QED BY <6>1, <6>2
        <5> QED BY <5>2, <5>3
      <4> QED BY <4>1, <4>2
    <3>4. L1!Put(k, v)
      BY <3>2, <3>3 DEF L1!Put
    <3> QED BY <3>1, <3>4 DEF L1!Next
  <2>2. ASSUME NEW k \in Keys, Get(t, k) \/ BatchGet(t, k) PROVE Abstract
    <3>1. L1!Get(k)
      BY <2>2 DEF Get, BatchGet, Report, Item, L1!Get, L1!Item
    <3> QED BY <3>1 DEF L1!Next
  <2>3. ASSUME NEW k \in Keys, Remove(t, k) PROVE Abstract
    <3>1. L1!Remove(k)
      BY <2>3 DEF Remove, Report, Item, L1!Remove, L1!Item
    <3> QED BY <3>1 DEF L1!Next
  <2>4. ASSUME NEW k \in Keys, NEW v \in Values, PutUpdate(t, k, v) PROVE Abstract
    <3>1. L1!Put(k, v)
      BY <2>4 DEF PutUpdate, Report, Item, L1!Put, L1!Store, L1!Item
    <3> QED BY <3>1 DEF L1!Next
  <2>5. ASSUME NEW k \in Keys, NEW v \in Values, PutNoSlot(t, k, v) PROVE Abstract
    <3>1. L1!Put(k, v)
      BY <2>5 DEF PutNoSlot, Report, Item, L1!Put, L1!Refuse, L1!Item
    <3> QED BY <3>1 DEF L1!Next
  <2>6. ASSUME NEW k \in Keys, NEW v \in Values, PutAllocate(t, k, v) PROVE Abstract
    BY <2>6 DEF PutAllocate
  <2>7. ASSUME NEW batch \in Batches, BatchBegin(t, batch) PROVE Abstract
    BY <2>7 DEF BatchBegin
  <2> QED BY <1>2, <2>1, <2>2, <2>3, <2>4, <2>5, <2>6, <2>7 DEF Step
<1> QED BY <1>1, <1>2 DEF Next

\* The striped cache, with its shared slab, its puts in two steps and its batch
\* reads, is the forgetful map the engine is written against: a put is seen
\* when its key enters the stripe, and allocating the slot changes nothing.
THEOREM StripedImplementsL1Cache == Spec => ImplementsL1Cache
<1>1. Init => L1!Init
  BY DEF Init, L1!Init
<1>2. StripedInv /\ [Next]_vars => [L1!Next]_<<map, request, handed, returned>>
  BY StepImplementsL1
<1> QED BY SpecStripedInv, <1>1, <1>2, PTL DEF Spec, ImplementsL1Cache, L1!Spec
=============================================================================
