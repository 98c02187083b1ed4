---------------------------- MODULE BenchmarkProofs ----------------------------
(***************************************************************************)
(* Proofs about what the benchmarks run and report: the statistics of the  *)
(* engine and their histograms, for any number of threads and samples, and *)
(* the two sources of operations, for files of any length and any          *)
(* configuration of the generator.  What they have in common is induction  *)
(* over the naturals and over finite sets, by their least elements.        *)
(***************************************************************************)
EXTENDS EngineStats, Workloads, FiniteSetTheorems, NaturalsInduction,
        WellFoundedInduction, SequenceTheorems, TLAPS

-----------------------------------------------------------------------------
(* Induction, and sums over finite sets *)

\* A non-empty set of naturals has a least element.
LEMMA LeastNat ==
    ASSUME NEW T, T \subseteq Nat, T # {}
    PROVE  \E n \in T : \A m \in T : n <= m
<1>1. PICK n \in T : \A m \in T : ~ (<<m, n>> \in OpToRel(<, Nat))
  <2>1. IsWellFoundedOn(OpToRel(<, Nat), Nat)
    BY NatLessThanWellFounded
  <2> QED BY <2>1, WFMin
<1>2. ASSUME NEW m \in T PROVE n <= m
  <2>1. n \in Nat /\ m \in Nat
    OBVIOUS
  <2>2. ~ (m < n)
    BY <1>1, <2>1 DEF OpToRel
  <2> QED BY ONLY <2>1, <2>2
<1> QED BY <1>2

\* Induction on the naturals, for a set of numbers.
LEMMA NatGrow ==
    ASSUME NEW G, 0 \in G, \A n \in Nat : n \in G => n + 1 \in G
    PROVE  Nat \subseteq G
<1> DEFINE T == Nat \ G
<1> SUFFICES ASSUME T # {} PROVE FALSE
  OBVIOUS
<1>1. PICK n \in T : \A m \in T : n <= m
  BY LeastNat
<1>2. PICK m \in Nat : n = m + 1
  <2>1. n \in Nat /\ n # 0
    OBVIOUS
  <2>2. n - 1 \in Nat /\ n = (n - 1) + 1
    BY ONLY <2>1
  <2> QED BY <2>2
<1>3. m \in G
  BY <1>1, <1>2
<1> QED BY <1>2, <1>3

\* Induction on the subsets of a finite set, for a set of them.
LEMMA SetGrow ==
    ASSUME NEW S, IsFiniteSet(S), NEW G, {} \in G,
           \A s \in SUBSET S : \A x \in s : s \ {x} \in G => s \in G
    PROVE  S \in G
<1> DEFINE N == {n \in Nat : \A s \in SUBSET S : Cardinality(s) = n => s \in G}
<1>0. \A s \in SUBSET S : IsFiniteSet(s) /\ Cardinality(s) \in Nat
  BY FS_Subset, FS_CardinalityType
<1>1. 0 \in N
  BY <1>0, FS_EmptySet
<1>2. ASSUME NEW n \in Nat, n \in N PROVE n + 1 \in N
  <2> SUFFICES ASSUME NEW s \in SUBSET S, Cardinality(s) = n + 1 PROVE s \in G
    OBVIOUS
  <2>1. s # {}
    <3>1. Cardinality({}) = 0 /\ n + 1 # 0
      BY FS_EmptySet
    <3> QED BY ONLY <3>1, Cardinality(s) = n + 1
  <2>2. PICK x \in s : TRUE
    BY <2>1
  <2>3. Cardinality(s \ {x}) = Cardinality(s) - 1
    BY <1>0, FS_RemoveElement
  <2>4. Cardinality(s \ {x}) = n /\ s \ {x} \in SUBSET S
    BY <2>3
  <2>5. s \ {x} \in G
    BY <1>2, <2>4
  <2> QED BY <2>5
<1>3. Nat \subseteq N
  <2> HIDE DEF N
  <2> QED BY <1>1, <1>2, NatGrow
<1> QED BY <1>0, <1>3

\* The element a sum takes first, and what is left.
First(s) == CHOOSE x \in s : TRUE
Rest(s) == s \ {First(s)}

LEMMA RestFacts ==
    ASSUME NEW s, IsFiniteSet(s), s # {}
    PROVE  /\ First(s) \in s /\ Rest(s) \subseteq s /\ IsFiniteSet(Rest(s))
           /\ Cardinality(s) \in Nat /\ Cardinality(Rest(s)) \in Nat
           /\ Cardinality(Rest(s)) = Cardinality(s) - 1
<1>1. First(s) \in s
  BY DEF First
<1>2. IsFiniteSet(s \ {First(s)}) /\ Cardinality(s \ {First(s)}) = Cardinality(s) - 1
  BY <1>1, FS_RemoveElement
<1>3. Cardinality(s) \in Nat /\ Cardinality(s \ {First(s)}) \in Nat
  BY <1>2, FS_CardinalityType
<1> QED BY <1>1, <1>2, <1>3 DEF Rest

\* One step of the sum of f over s, given the sums over smaller sets.
SumStep(f, it, s) == IF s = {} THEN 0 ELSE f[First(s)] + it[Rest(s)]

IsSum(f, S, it) == it = [s \in SUBSET S |-> SumStep(f, it, s)]

\* The recursive function behind a sum exists.
LEMMA SumExists ==
    ASSUME NEW f, NEW S, IsFiniteSet(S)
    PROVE  \E it : IsSum(f, S, it)
<1> DEFINE Upto(n, g) == \A s \in SUBSET S : Cardinality(s) <= n => g[s] = SumStep(f, g, s)
           T == {n \in Nat : ~ \E g : Upto(n, g)}
<1>0. \A s \in SUBSET S : IsFiniteSet(s) /\ Cardinality(s) \in Nat /\ Cardinality(s) <= Cardinality(S)
  BY FS_Subset, FS_CardinalityType
<1>1. T = {}
  <2> SUFFICES ASSUME T # {} PROVE FALSE
    OBVIOUS
  <2>1. PICK n \in T : \A m \in T : n <= m
    <3>1. T \subseteq Nat
      OBVIOUS
    <3> HIDE DEF T
    <3> QED BY <3>1, LeastNat
  <2>2. CASE n = 0
    <3> DEFINE g == [s \in SUBSET S |-> 0]
    <3>1. ASSUME NEW s \in SUBSET S, Cardinality(s) <= 0 PROVE s = {}
      <4>1. IsFiniteSet(s) /\ Cardinality(s) = 0
        BY <1>0, <3>1
      <4> QED BY <4>1, FS_EmptySet
    <3>2. Upto(0, g)
      BY <3>1 DEF SumStep
    <3> QED BY <2>2, <3>2
  <2>3. CASE n # 0
    <3>1. PICK m \in Nat : m = n - 1 /\ n \in Nat
      BY <2>3
    <3>2. m \notin T
      BY <2>1, <3>1
    <3>3. PICK g : Upto(m, g)
      BY <3>2
    <3> DEFINE h == [s \in SUBSET S |-> SumStep(f, g, s)]
    <3>4. ASSUME NEW s \in SUBSET S, Cardinality(s) <= n PROVE h[s] = SumStep(f, h, s)
      <4>1. CASE s = {}
        BY <4>1 DEF SumStep
      <4>2. CASE s # {}
        <5>1. Rest(s) \in SUBSET S /\ Cardinality(Rest(s)) <= m
          BY <1>0, <3>1, <3>4, <4>2, RestFacts
        <5>2. g[Rest(s)] = h[Rest(s)]
          BY <3>3, <5>1
        <5>3. h[s] = SumStep(f, g, s)
          OBVIOUS
        <5> HIDE DEF h
        <5> QED BY <5>2, <5>3 DEF SumStep
      <4> QED BY <4>1, <4>2
    <3>5. Upto(n, h)
      BY <3>4
    <3> QED BY <3>5
  <2> QED BY <2>2, <2>3
<1>2. PICK g : Upto(Cardinality(S), g)
  BY <1>1, FS_CardinalityType
<1> DEFINE it == [s \in SUBSET S |-> g[s]]
<1>3. ASSUME NEW s \in SUBSET S PROVE it[s] = SumStep(f, it, s)
  <2>1. g[s] = SumStep(f, g, s)
    BY <1>0, <1>2
  <2>2. CASE s = {}
    BY <2>1, <2>2 DEF SumStep
  <2>3. CASE s # {}
    <3>1. Rest(s) \in SUBSET S
      BY DEF Rest
    <3> QED BY <2>1, <3>1 DEF SumStep
  <2> QED BY <2>2, <2>3
<1>4. IsSum(f, S, it)
  BY <1>3 DEF IsSum
<1> QED BY <1>4

\* Two sums of functions that agree, over sets that contain s, agree on s.
LEMMA SumAgree ==
    ASSUME NEW f, NEW g, NEW S, NEW R, NEW a, NEW b, IsSum(f, S, a), IsSum(g, R, b),
           NEW s, s \subseteq S, s \subseteq R, IsFiniteSet(s), \A x \in s : f[x] = g[x]
    PROVE  a[s] = b[s]
<1> DEFINE T == {n \in Nat : \E u \in SUBSET s : Cardinality(u) = n /\ a[u] # b[u]}
<1>0. \A u \in SUBSET s : IsFiniteSet(u) /\ Cardinality(u) \in Nat
  BY FS_Subset, FS_CardinalityType
<1>1. T = {}
  <2> SUFFICES ASSUME T # {} PROVE FALSE
    OBVIOUS
  <2>1. PICK n \in T : \A m \in T : n <= m
    <3>1. T \subseteq Nat
      OBVIOUS
    <3> HIDE DEF T
    <3> QED BY <3>1, LeastNat
  <2>2. PICK u \in SUBSET s : Cardinality(u) = n /\ a[u] # b[u]
    OBVIOUS
  <2>3. a[u] = SumStep(f, a, u) /\ b[u] = SumStep(g, b, u)
    BY DEF IsSum
  <2>4. u # {}
    BY <2>2, <2>3 DEF SumStep
  <2>5. /\ First(u) \in s /\ Rest(u) \in SUBSET s /\ Cardinality(Rest(u)) \in Nat
        /\ Cardinality(Rest(u)) < n
    BY <1>0, <2>2, <2>4, RestFacts
  <2>6. a[Rest(u)] = b[Rest(u)]
    BY <2>1, <2>5
  <2> QED BY <2>2, <2>3, <2>4, <2>5, <2>6 DEF SumStep
<1>2. Cardinality(s) \notin T /\ Cardinality(s) \in Nat
  BY <1>0, <1>1
<1> QED BY <1>2

\* A sum is an application of the recursive function behind it.
LEMMA SumIsSum ==
    ASSUME NEW f, NEW S, IsFiniteSet(S)
    PROVE  \E it : IsSum(f, S, it) /\ SumFunctionOnSet(f, S) = it[S]
<1>1. SumFunctionOnSet(f, S) = (CHOOSE it : IsSum(f, S, it))[S]
  BY Zenon DEF SumFunctionOnSet, FoldFunctionOnSet, MapThenFoldSet, IsSum, SumStep, First, Rest
<1>2. IsSum(f, S, CHOOSE it : IsSum(f, S, it))
  BY SumExists
<1> QED BY <1>1, <1>2

LEMMA SumEmpty == ASSUME NEW f PROVE SumFunctionOnSet(f, {}) = 0
<1>1. PICK it : IsSum(f, {}, it) /\ SumFunctionOnSet(f, {}) = it[{}]
  BY SumIsSum, FS_EmptySet
<1> QED BY <1>1 DEF IsSum, SumStep

LEMMA SumUnfold ==
    ASSUME NEW f, NEW S, IsFiniteSet(S), S # {}
    PROVE  SumFunctionOnSet(f, S) = f[First(S)] + SumFunctionOnSet(f, Rest(S))
<1>0. Rest(S) \subseteq S /\ IsFiniteSet(Rest(S))
  BY RestFacts
<1>1. PICK a : IsSum(f, S, a) /\ SumFunctionOnSet(f, S) = a[S]
  BY SumIsSum
<1>2. PICK b : IsSum(f, Rest(S), b) /\ SumFunctionOnSet(f, Rest(S)) = b[Rest(S)]
  BY <1>0, SumIsSum
<1>3. a[Rest(S)] = b[Rest(S)]
  BY <1>0, <1>1, <1>2, SumAgree
<1>4. a[S] = SumStep(f, a, S)
  BY <1>1 DEF IsSum
<1> QED BY <1>1, <1>2, <1>3, <1>4 DEF SumStep

\* Only the values on the set matter.
LEMMA SumSame ==
    ASSUME NEW f, NEW g, NEW S, IsFiniteSet(S), \A x \in S : f[x] = g[x]
    PROVE  SumFunctionOnSet(f, S) = SumFunctionOnSet(g, S)
<1>1. PICK a : IsSum(f, S, a) /\ SumFunctionOnSet(f, S) = a[S]
  BY SumIsSum
<1>2. PICK b : IsSum(g, S, b) /\ SumFunctionOnSet(g, S) = b[S]
  BY SumIsSum
<1>3. a[S] = b[S]
  BY <1>1, <1>2, SumAgree
<1> QED BY <1>1, <1>2, <1>3

\* Which element a sum takes first does not matter.
LEMMA SumSplit ==
    ASSUME NEW f, NEW S, IsFiniteSet(S), \A x \in S : f[x] \in Int
    PROVE  /\ SumFunctionOnSet(f, S) \in Int
           /\ \A x \in S : SumFunctionOnSet(f, S) = f[x] + SumFunctionOnSet(f, S \ {x})
<1> DEFINE Good(s) == /\ SumFunctionOnSet(f, s) \in Int
                      /\ \A x \in s : SumFunctionOnSet(f, s) = f[x] + SumFunctionOnSet(f, s \ {x})
           T == {n \in Nat : \E s \in SUBSET S : Cardinality(s) = n /\ ~ Good(s)}
<1>0. \A s \in SUBSET S : IsFiniteSet(s) /\ Cardinality(s) \in Nat
  BY FS_Subset, FS_CardinalityType
<1>1. T = {}
  <2> SUFFICES ASSUME T # {} PROVE FALSE
    OBVIOUS
  <2>1. PICK n \in T : \A m \in T : n <= m
    <3>1. T \subseteq Nat
      OBVIOUS
    <3> HIDE DEF T
    <3> QED BY <3>1, LeastNat
  <2>2. PICK s \in SUBSET S : Cardinality(s) = n /\ ~ Good(s)
    OBVIOUS
  <2>3. s # {}
    BY <2>2, SumEmpty
  <2>s. ASSUME NEW r \in SUBSET S, Cardinality(r) < n PROVE Good(r)
    <3>1. Cardinality(r) \in Nat /\ Cardinality(r) \notin T
      BY <1>0, <2>1, <2>s
    <3> HIDE DEF Good
    <3> QED BY <3>1
  <2> DEFINE c == First(s)
  <2>4. /\ c \in s /\ s \ {c} \in SUBSET S /\ Cardinality(s \ {c}) < n
        /\ SumFunctionOnSet(f, s) = f[c] + SumFunctionOnSet(f, s \ {c})
    BY <1>0, <2>2, <2>3, RestFacts, SumUnfold DEF Rest
  <2> HIDE DEF c
  <2>5. Good(s \ {c}) /\ f[c] \in Int
    BY <2>4, <2>s
  <2>6. ASSUME NEW x \in s, x # c
        PROVE  SumFunctionOnSet(f, s) = f[x] + SumFunctionOnSet(f, s \ {x})
    <3>1. s \ {x} \in SUBSET S /\ Cardinality(s \ {x}) < n /\ f[x] \in Int
      <4>1. Cardinality(s \ {x}) = Cardinality(s) - 1
        BY <1>0, FS_RemoveElement
      <4> QED BY <1>0, <2>2, <4>1
    <3>2. Good(s \ {x})
      BY <3>1, <2>s
    <3>3. PICK r : r = (s \ {c}) \ {x} /\ r = (s \ {x}) \ {c}
      OBVIOUS
    <3>4. SumFunctionOnSet(f, s \ {c}) = f[x] + SumFunctionOnSet(f, r)
      BY <2>5, <2>6, <3>3
    <3>5. SumFunctionOnSet(f, s \ {x}) = f[c] + SumFunctionOnSet(f, r)
      BY <2>4, <2>6, <3>2, <3>3
    <3>6. SumFunctionOnSet(f, r) \in Int
      <4>1. r \in SUBSET S /\ Cardinality(r) < n
        <5>1. r \in SUBSET (s \ {c})
          BY <3>3
        <5>2. Cardinality(r) <= Cardinality(s \ {c}) /\ Cardinality(r) \in Nat
          BY <1>0, <2>4, <5>1, FS_Subset, FS_CardinalityType
        <5> QED BY <1>0, <2>2, <2>4, <5>1, <5>2
      <4> QED BY <4>1, <2>s
    <3> QED BY ONLY <2>4, <2>5, <3>1, <3>4, <3>5, <3>6
  <2>7. SumFunctionOnSet(f, s) \in Int
    <3>1. SumFunctionOnSet(f, s \ {c}) \in Int
      BY <2>5
    <3> QED BY ONLY <2>4, <2>5, <3>1
  <2>8. ASSUME NEW x \in s PROVE SumFunctionOnSet(f, s) = f[x] + SumFunctionOnSet(f, s \ {x})
    <3>1. CASE x = c
      BY ONLY <2>4, <3>1
    <3>2. CASE x # c
      BY <2>6, <3>2
    <3> QED BY <3>1, <3>2
  <2>9. Good(s)
    BY <2>7, <2>8
  <2> QED BY <2>2, <2>9
<1>2. Good(S)
  <2>1. Cardinality(S) \in Nat /\ S \in SUBSET S /\ Cardinality(S) \notin T
    BY <1>0, <1>1
  <2> HIDE DEF Good
  <2> QED BY <2>1
<1> QED BY <1>2

\* A sum over two sets without a common element.
LEMMA SumUnion ==
    ASSUME NEW f, NEW S, NEW R, IsFiniteSet(S), IsFiniteSet(R), S \cap R = {},
           \A x \in S \cup R : f[x] \in Int
    PROVE  SumFunctionOnSet(f, S \cup R) = SumFunctionOnSet(f, S) + SumFunctionOnSet(f, R)
<1> DEFINE Good(s) == SumFunctionOnSet(f, s \cup R) = SumFunctionOnSet(f, s) + SumFunctionOnSet(f, R)
           G == {s \in SUBSET S : Good(s)}
<1>1. \A s \in SUBSET S : /\ IsFiniteSet(s) /\ IsFiniteSet(s \cup R)
                          /\ SumFunctionOnSet(f, s) \in Int /\ SumFunctionOnSet(f, s \cup R) \in Int
  <2> TAKE s \in SUBSET S
  <2>1. IsFiniteSet(s) /\ IsFiniteSet(s \cup R)
    BY FS_Subset, FS_Union
  <2> QED BY <2>1, SumSplit
<1>2. SumFunctionOnSet(f, R) \in Int
  BY SumSplit
<1>3. {} \in G
  <2>1. {} \cup R = R
    OBVIOUS
  <2>2. Good({})
    BY ONLY <1>2, <2>1, SumEmpty
  <2> QED BY <2>2
<1>4. ASSUME NEW s \in SUBSET S, NEW x \in s, s \ {x} \in G PROVE s \in G
  <2>1. PICK r \in SUBSET S : r = s \ {x}
    OBVIOUS
  <2>2. SumFunctionOnSet(f, s) = f[x] + SumFunctionOnSet(f, r)
    <3>1. IsFiniteSet(s) /\ \A y \in s : f[y] \in Int
      BY <1>1
    <3> QED BY ONLY <2>1, <3>1, SumSplit
  <2>3. SumFunctionOnSet(f, s \cup R) = f[x] + SumFunctionOnSet(f, r \cup R)
    <3>1. (s \cup R) \ {x} = r \cup R
      BY <2>1
    <3>2. IsFiniteSet(s \cup R) /\ x \in s \cup R /\ \A y \in s \cup R : f[y] \in Int
      BY <1>1
    <3>3. SumFunctionOnSet(f, s \cup R) = f[x] + SumFunctionOnSet(f, (s \cup R) \ {x})
      BY ONLY <3>2, SumSplit
    <3> QED BY ONLY <3>1, <3>3
  <2>4. f[x] \in Int /\ SumFunctionOnSet(f, r) \in Int /\ SumFunctionOnSet(f, r \cup R) \in Int
    BY <1>1
  <2>5. Good(r)
    BY <1>4, <2>1
  <2>6. Good(s)
    BY ONLY <1>2, <2>2, <2>3, <2>4, <2>5
  <2> QED BY <2>6
<1>5. S \in G
  <2> HIDE DEF G
  <2> QED BY <1>3, <1>4, SetGrow
<1> QED BY <1>5

\* Where one value grows by d, so does the sum.
LEMMA SumBump ==
    ASSUME NEW f, NEW g, NEW S, IsFiniteSet(S), \A x \in S : f[x] \in Int,
           NEW c \in S, NEW d \in Int, g[c] = f[c] + d, \A x \in S \ {c} : g[x] = f[x]
    PROVE  SumFunctionOnSet(g, S) = SumFunctionOnSet(f, S) + d
<1>1. IsFiniteSet(S \ {c})
  BY FS_Subset
<1>2. SumFunctionOnSet(g, S \ {c}) = SumFunctionOnSet(f, S \ {c})
  BY <1>1, SumSame
<1>3. \A x \in S : g[x] \in Int
  <2> TAKE x \in S
  <2> QED BY f[x] \in Int, f[c] \in Int
<1>4. SumFunctionOnSet(f, S) = f[c] + SumFunctionOnSet(f, S \ {c})
  BY SumSplit
<1>5. SumFunctionOnSet(g, S) = g[c] + SumFunctionOnSet(g, S \ {c})
  BY <1>3, SumSplit
<1>6. f[c] \in Int /\ SumFunctionOnSet(f, S \ {c}) \in Int
  BY <1>1, SumSplit
<1> QED BY ONLY <1>2, <1>4, <1>5, <1>6, g[c] = f[c] + d, d \in Int

\* Larger values, larger sum.
LEMMA SumMono ==
    ASSUME NEW f, NEW g, NEW S, IsFiniteSet(S),
           \A x \in S : f[x] \in Int /\ g[x] \in Int /\ f[x] <= g[x]
    PROVE  SumFunctionOnSet(f, S) <= SumFunctionOnSet(g, S)
<1> DEFINE Good(s) == SumFunctionOnSet(f, s) <= SumFunctionOnSet(g, s)
           G == {s \in SUBSET S : Good(s)}
<1>1. \A s \in SUBSET S : IsFiniteSet(s) /\ SumFunctionOnSet(f, s) \in Int /\ SumFunctionOnSet(g, s) \in Int
  <2> TAKE s \in SUBSET S
  <2>1. IsFiniteSet(s)
    BY FS_Subset
  <2> QED BY <2>1, SumSplit
<1>2. {} \in G
  <2>1. Good({})
    BY ONLY SumEmpty
  <2> QED BY <2>1
<1>3. ASSUME NEW s \in SUBSET S, NEW x \in s, s \ {x} \in G PROVE s \in G
  <2>1. PICK r \in SUBSET S : r = s \ {x}
    OBVIOUS
  <2>2. SumFunctionOnSet(f, s) = f[x] + SumFunctionOnSet(f, r)
    BY ONLY <1>1, <2>1, SumSplit, s \in SUBSET S, x \in s, \A y \in S : f[y] \in Int /\ g[y] \in Int
  <2>3. SumFunctionOnSet(g, s) = g[x] + SumFunctionOnSet(g, r)
    BY ONLY <1>1, <2>1, SumSplit, s \in SUBSET S, x \in s, \A y \in S : f[y] \in Int /\ g[y] \in Int
  <2>5. f[x] \in Int /\ g[x] \in Int /\ f[x] <= g[x]
    OBVIOUS
  <2>6. SumFunctionOnSet(f, r) \in Int /\ SumFunctionOnSet(g, r) \in Int
    BY <1>1
  <2>7. Good(r)
    BY <1>3, <2>1
  <2>8. Good(s)
    BY ONLY <2>2, <2>3, <2>5, <2>6, <2>7
  <2> QED BY <2>8
<1>4. S \in G
  <2> HIDE DEF G
  <2> QED BY <1>2, <1>3, SetGrow
<1> QED BY <1>4

LEMMA SumZero ==
    ASSUME NEW f, NEW S, IsFiniteSet(S), \A x \in S : f[x] = 0
    PROVE  SumFunctionOnSet(f, S) = 0
<1> DEFINE Good(s) == SumFunctionOnSet(f, s) = 0
           G == {s \in SUBSET S : Good(s)}
<1>1. \A s \in SUBSET S : IsFiniteSet(s) /\ SumFunctionOnSet(f, s) \in Int
  <2> TAKE s \in SUBSET S
  <2>1. IsFiniteSet(s)
    BY FS_Subset
  <2> QED BY <2>1, SumSplit
<1>2. {} \in G
  <2>1. Good({})
    BY ONLY SumEmpty
  <2> QED BY <2>1
<1>3. ASSUME NEW s \in SUBSET S, NEW x \in s, s \ {x} \in G PROVE s \in G
  <2>1. PICK r \in SUBSET S : r = s \ {x}
    OBVIOUS
  <2>2. SumFunctionOnSet(f, s) = f[x] + SumFunctionOnSet(f, r)
    BY ONLY <1>1, <2>1, SumSplit, s \in SUBSET S, x \in s, \A y \in S : f[y] = 0
  <2>5. f[x] = 0
    OBVIOUS
  <2>6. SumFunctionOnSet(f, r) \in Int
    BY <1>1
  <2>7. Good(r)
    BY <1>3, <2>1
  <2>8. Good(s)
    BY ONLY <2>2, <2>5, <2>6, <2>7
  <2> QED BY <2>8
<1>4. S \in G
  <2> HIDE DEF G
  <2> QED BY <1>2, <1>3, SetGrow
<1> QED BY <1>4

LEMMA SumNat ==
    ASSUME NEW f, NEW S, IsFiniteSet(S), \A x \in S : f[x] \in Nat
    PROVE  SumFunctionOnSet(f, S) \in Nat
<1> DEFINE z == [x \in S |-> 0]
<1>1. SumFunctionOnSet(z, S) = 0
  BY SumZero
<1>2. SumFunctionOnSet(z, S) <= SumFunctionOnSet(f, S)
  <2>1. \A x \in S : z[x] \in Int /\ f[x] \in Int /\ z[x] <= f[x]
    OBVIOUS
  <2> HIDE DEF z
  <2> QED BY <2>1, SumMono
<1>3. SumFunctionOnSet(f, S) \in Int
  BY SumSplit
<1> HIDE DEF z
<1> QED BY ONLY <1>1, <1>2, <1>3

\* The sum of a sum of functions.
LEMMA SumPlus ==
    ASSUME NEW f, NEW g, NEW h, NEW S, IsFiniteSet(S),
           \A x \in S : f[x] \in Int /\ g[x] \in Int /\ h[x] = f[x] + g[x]
    PROVE  SumFunctionOnSet(h, S) = SumFunctionOnSet(f, S) + SumFunctionOnSet(g, S)
<1> DEFINE Good(s) == SumFunctionOnSet(h, s) = SumFunctionOnSet(f, s) + SumFunctionOnSet(g, s)
           G == {s \in SUBSET S : Good(s)}
<1>0. \A x \in S : h[x] \in Int
  <2> TAKE x \in S
  <2> QED BY f[x] \in Int, g[x] \in Int, h[x] = f[x] + g[x]
<1>1. \A s \in SUBSET S : IsFiniteSet(s) /\ SumFunctionOnSet(f, s) \in Int /\ SumFunctionOnSet(g, s) \in Int
  <2> TAKE s \in SUBSET S
  <2>1. IsFiniteSet(s)
    BY FS_Subset
  <2> QED BY <2>1, SumSplit
<1>2. {} \in G
  <2>1. Good({})
    BY ONLY SumEmpty
  <2> QED BY <2>1
<1>3. ASSUME NEW s \in SUBSET S, NEW x \in s, s \ {x} \in G PROVE s \in G
  <2>1. PICK r \in SUBSET S : r = s \ {x}
    OBVIOUS
  <2>2. SumFunctionOnSet(f, s) = f[x] + SumFunctionOnSet(f, r)
    BY ONLY <1>1, <2>1, SumSplit, s \in SUBSET S, x \in s, \A y \in S : f[y] \in Int /\ g[y] \in Int
  <2>3. SumFunctionOnSet(g, s) = g[x] + SumFunctionOnSet(g, r)
    BY ONLY <1>1, <2>1, SumSplit, s \in SUBSET S, x \in s, \A y \in S : f[y] \in Int /\ g[y] \in Int
  <2>4. SumFunctionOnSet(h, s) = h[x] + SumFunctionOnSet(h, r)
    BY ONLY <1>1, <2>1, SumSplit, s \in SUBSET S, x \in s, <1>0
  <2>5. f[x] \in Int /\ g[x] \in Int /\ h[x] = f[x] + g[x]
    OBVIOUS
  <2>6. SumFunctionOnSet(f, r) \in Int /\ SumFunctionOnSet(g, r) \in Int
    BY <1>1
  <2>7. Good(r)
    BY <1>3, <2>1
  <2>8. Good(s)
    BY ONLY <2>2, <2>3, <2>4, <2>5, <2>6, <2>7
  <2> QED BY <2>8
<1>4. S \in G
  <2> HIDE DEF G
  <2> QED BY <1>2, <1>3, SetGrow
<1> QED BY <1>4

LEMMA SumWhole ==
    ASSUME NEW f
    PROVE  SumFunction(f) = SumFunctionOnSet(f, DOMAIN f)
BY DEF SumFunction

-----------------------------------------------------------------------------
(* EngineStats: types *)

Histogram == [counts : [Buckets -> Nat], total_count : Nat, total_sum : Nat]
Breakdown == [total_ns : Nat, l2_ns : Nat, backend_ns : Nat, path : Paths]

\* The threads' own state.
ThreadsTyped ==
    /\ at \in [Threads -> {"idle", "l2", "backend", "fill"}]
    /\ bd \in [Threads -> Breakdown]
    /\ done \in [Threads -> Nat]
    /\ tracker \in [Threads -> [Histograms -> Histogram]]
    /\ \A t \in Threads : /\ at[t] # "fill" => bd[t].path = "MISS"
                          /\ at[t] = "fill" => bd[t].path # "L1_HIT"
                          /\ tracker[t]["total"].total_count = done[t]

CountersTyped ==
    /\ l1_hits \in [Stripes -> Nat] /\ l1_misses \in [Stripes -> Nat]
    /\ l2_hits \in Nat /\ l2_misses \in Nat /\ backend_reads \in Nat /\ backend_writes \in Nat

LEMMA MinFacts ==
    ASSUME NEW S, S \subseteq Nat, S # {}
    PROVE  Min(S) \in S /\ \A x \in S : Min(S) <= x
<1>1. \E x \in S : \A y \in S : x =< y
  BY LeastNat
<1> QED BY <1>1 DEF Min

LEMMA BucketType ==
    ASSUME NEW ns \in Nat
    PROVE  Bucket(ns) \in Buckets
<1> DEFINE S == {b \in Buckets : b = NumBuckets - 1 \/ ns < UpperEdge[b]}
<1>1. S \subseteq Nat /\ NumBuckets - 1 \in S
  BY HistogramAssumption DEF Buckets
<1>2. Min(S) \in S
  <2> HIDE DEF S
  <2> QED BY <1>1, MinFacts
<1> QED BY <1>2 DEF Bucket

LEMMA RecordType ==
    ASSUME NEW h \in Histogram, NEW ns \in Nat
    PROVE  Record(h, ns) \in Histogram /\ Record(h, ns).total_count = h.total_count + 1
<1>1. Bucket(ns) \in Buckets
  BY BucketType
<1> QED BY <1>1 DEF Record, Histogram

LEMMA DurationType ==
    ASSUME NEW b \in Breakdown, NEW h
    PROVE  Duration(b, h) \in Nat
BY DEF Breakdown, Duration

LEMMA RecordBreakdownFacts ==
    ASSUME NEW own \in [Histograms -> Histogram], NEW b \in Breakdown
    PROVE  /\ RecordBreakdown(own, b) \in [Histograms -> Histogram]
           /\ \A h \in Histograms :
                 RecordBreakdown(own, b)[h].total_count =
                     own[h].total_count + (IF Records(b, h) THEN 1 ELSE 0)
<1>1. ASSUME NEW h \in Histograms
      PROVE  /\ Record(own[h], Duration(b, h)) \in Histogram
             /\ Record(own[h], Duration(b, h)).total_count = own[h].total_count + 1
             /\ own[h] \in Histogram /\ own[h].total_count \in Nat
  <2>1. own[h] \in Histogram
    OBVIOUS
  <2> QED BY <2>1, RecordType, DurationType DEF Histogram
<1>2. RecordBreakdown(own, b) \in [Histograms -> Histogram]
  BY <1>1 DEF RecordBreakdown
<1>3. ASSUME NEW h \in Histograms
      PROVE  RecordBreakdown(own, b)[h].total_count =
                 own[h].total_count + (IF Records(b, h) THEN 1 ELSE 0)
  <2>1. RecordBreakdown(own, b)[h] = IF Records(b, h) THEN Record(own[h], Duration(b, h)) ELSE own[h]
    BY DEF RecordBreakdown
  <2> QED BY ONLY <1>1, <2>1, h \in Histograms
<1> QED BY <1>2, <1>3

LEMMA RecordsPath ==
    ASSUME NEW b \in Breakdown
    PROVE  /\ Records(b, "total")
           /\ \A h \in Paths : Records(b, h) <=> b.path = h
BY DEF Records, Paths, Breakdown

LEMMA SpendType ==
    ASSUME NEW b \in Breakdown, NEW d \in Nat, NEW p \in Paths
    PROVE  /\ Spend(b, d) \in Breakdown /\ Spend(b, d).path = b.path
           /\ [Spend(b, d) EXCEPT !.path = p] \in Breakdown
           /\ [Spend(b, d) EXCEPT !.path = p].path = p
           /\ [Spend(b, d) EXCEPT !.l2_ns = d, !.path = p] \in Breakdown
           /\ [Spend(b, d) EXCEPT !.l2_ns = d, !.path = p].path = p
           /\ [Spend(b, d) EXCEPT !.l2_ns = d] \in Breakdown
           /\ [Spend(b, d) EXCEPT !.l2_ns = d].path = b.path
           /\ [Spend(b, d) EXCEPT !.backend_ns = d, !.path = p] \in Breakdown
           /\ [Spend(b, d) EXCEPT !.backend_ns = d, !.path = p].path = p
<1> DEFINE c == Spend(b, d)
<1>1. c \in Breakdown /\ c.path = b.path
  BY DEF Spend, Breakdown
<1> HIDE DEF c
<1>2. /\ [c EXCEPT !.path = p] \in Breakdown
      /\ [c EXCEPT !.path = p].path = p
  BY <1>1 DEF Breakdown
<1>3. [c EXCEPT !.l2_ns = d] \in Breakdown /\ [c EXCEPT !.l2_ns = d].path = b.path
  BY <1>1 DEF Breakdown
<1>4. [c EXCEPT !.backend_ns = d] \in Breakdown
  BY <1>1 DEF Breakdown
<1>5. /\ [c EXCEPT !.l2_ns = d, !.path = p] \in Breakdown
      /\ [c EXCEPT !.l2_ns = d, !.path = p].path = p
  BY <1>3 DEF Breakdown
<1>6. /\ [c EXCEPT !.backend_ns = d, !.path = p] \in Breakdown
      /\ [c EXCEPT !.backend_ns = d, !.path = p].path = p
  BY <1>4 DEF Breakdown
<1> QED BY <1>1, <1>2, <1>3, <1>5, <1>6 DEF c

-----------------------------------------------------------------------------
(* EngineStats: what the threads have counted and are about to count *)

Bit(cond) == IF cond THEN 1 ELSE 0

OwnL1Hits == [t \in Threads |-> tracker[t]["L1_HIT"].total_count]

\* A hit of L2 is recorded when the fill of L1 ends.
OwnL2Hits == [t \in Threads |-> tracker[t]["L2_HIT"].total_count +
                                Bit(at[t] = "fill" /\ bd[t].path = "L2_HIT")]

OwnL2 == [t \in Threads |-> Bit(at[t] = "l2")]

OwnBackend == [t \in Threads |-> Bit(at[t] = "backend")]

\* So is an operation that read or wrote the backend.
OwnBelow == [t \in Threads |-> tracker[t]["BACKEND_HIT"].total_count +
                               tracker[t]["MISS"].total_count +
                               Bit(at[t] = "fill" /\ bd[t].path # "L2_HIT")]

\* What PathsMatchCounters becomes in the middle of operations.
Accounted ==
    /\ SumFunctionOnSet(OwnL1Hits, Threads) = Hits
    /\ SumFunctionOnSet(OwnL2Hits, Threads) = l2_hits
    /\ SumFunctionOnSet(OwnL2, Threads) + l2_hits + l2_misses = Misses
    /\ SumFunctionOnSet(OwnBackend, Threads) + backend_reads = l2_misses
    /\ SumFunctionOnSet(OwnBelow, Threads) = backend_reads + backend_writes

LEMMA OwnTypes ==
    ASSUME ThreadsTyped
    PROVE  /\ \A t \in Threads : /\ OwnL1Hits[t] \in Nat /\ OwnL2Hits[t] \in Nat
                                 /\ OwnL2[t] \in Nat /\ OwnBackend[t] \in Nat /\ OwnBelow[t] \in Nat
           /\ SumFunctionOnSet(OwnL1Hits, Threads) \in Nat
           /\ SumFunctionOnSet(OwnL2Hits, Threads) \in Nat
           /\ SumFunctionOnSet(OwnL2, Threads) \in Nat
           /\ SumFunctionOnSet(OwnBackend, Threads) \in Nat
           /\ SumFunctionOnSet(OwnBelow, Threads) \in Nat
<1>1. ASSUME NEW t \in Threads
      PROVE  /\ OwnL1Hits[t] \in Nat /\ OwnL2Hits[t] \in Nat
             /\ OwnL2[t] \in Nat /\ OwnBackend[t] \in Nat /\ OwnBelow[t] \in Nat
  <2>1. \A h \in Paths : tracker[t][h].total_count \in Nat
    BY DEF ThreadsTyped, Histogram, Histograms
  <2> QED BY ONLY <2>1, t \in Threads DEF OwnL1Hits, OwnL2Hits, OwnL2, OwnBackend, OwnBelow, Bit, Paths
<1>2. IsFiniteSet(Threads)
  BY StatsAssumption
<1> QED BY <1>1, <1>2, SumNat

\* When one thread moves, each sum moves by what that thread's own value does.
LEMMA OwnMoves ==
    ASSUME ThreadsTyped, ThreadsTyped', NEW t \in Threads,
           \A u \in Threads \ {t} : at'[u] = at[u] /\ bd'[u] = bd[u] /\ tracker'[u] = tracker[u]
    PROVE  /\ SumFunctionOnSet(OwnL1Hits', Threads) =
                 SumFunctionOnSet(OwnL1Hits, Threads) + (OwnL1Hits'[t] - OwnL1Hits[t])
           /\ SumFunctionOnSet(OwnL2Hits', Threads) =
                 SumFunctionOnSet(OwnL2Hits, Threads) + (OwnL2Hits'[t] - OwnL2Hits[t])
           /\ SumFunctionOnSet(OwnL2', Threads) =
                 SumFunctionOnSet(OwnL2, Threads) + (OwnL2'[t] - OwnL2[t])
           /\ SumFunctionOnSet(OwnBackend', Threads) =
                 SumFunctionOnSet(OwnBackend, Threads) + (OwnBackend'[t] - OwnBackend[t])
           /\ SumFunctionOnSet(OwnBelow', Threads) =
                 SumFunctionOnSet(OwnBelow, Threads) + (OwnBelow'[t] - OwnBelow[t])
<1>1. /\ OwnL1Hits[t] \in Nat /\ OwnL2Hits[t] \in Nat
      /\ OwnL2[t] \in Nat /\ OwnBackend[t] \in Nat /\ OwnBelow[t] \in Nat
  BY OwnTypes
<1>2. /\ OwnL1Hits'[t] \in Nat /\ OwnL2Hits'[t] \in Nat
      /\ OwnL2'[t] \in Nat /\ OwnBackend'[t] \in Nat /\ OwnBelow'[t] \in Nat
  <2>1. \A h \in Paths : tracker'[t][h].total_count \in Nat
    BY DEF ThreadsTyped, Histogram, Histograms
  <2> QED BY ONLY <2>1, t \in Threads DEF OwnL1Hits, OwnL2Hits, OwnL2, OwnBackend, OwnBelow, Bit, Paths
<1>3. ASSUME NEW u \in Threads \ {t}
      PROVE  /\ OwnL1Hits'[u] = OwnL1Hits[u] /\ OwnL2Hits'[u] = OwnL2Hits[u]
             /\ OwnL2'[u] = OwnL2[u] /\ OwnBackend'[u] = OwnBackend[u] /\ OwnBelow'[u] = OwnBelow[u]
  BY Zenon DEF OwnL1Hits, OwnL2Hits, OwnL2, OwnBackend, OwnBelow, Bit
<1>4. ASSUME NEW f, NEW g, \A u \in Threads : f[u] \in Nat, g[t] \in Nat,
             \A u \in Threads \ {t} : g[u] = f[u]
      PROVE  SumFunctionOnSet(g, Threads) = SumFunctionOnSet(f, Threads) + (g[t] - f[t])
  <2>1. IsFiniteSet(Threads)
    BY StatsAssumption
  <2>2. g[t] - f[t] \in Int /\ g[t] = f[t] + (g[t] - f[t])
    BY ONLY <1>4, t \in Threads
  <2>3. \A u \in Threads : f[u] \in Int
    BY <1>4
  <2> QED BY ONLY <1>4, <2>1, <2>2, <2>3, SumBump, t \in Threads
<1>5. \A u \in Threads : /\ OwnL1Hits[u] \in Nat /\ OwnL2Hits[u] \in Nat
                         /\ OwnL2[u] \in Nat /\ OwnBackend[u] \in Nat /\ OwnBelow[u] \in Nat
  BY OwnTypes
<1>6. SumFunctionOnSet(OwnL1Hits', Threads) =
                 SumFunctionOnSet(OwnL1Hits, Threads) + (OwnL1Hits'[t] - OwnL1Hits[t])
  BY ONLY <1>2, <1>3, <1>4, <1>5
<1>7. SumFunctionOnSet(OwnL2Hits', Threads) =
                 SumFunctionOnSet(OwnL2Hits, Threads) + (OwnL2Hits'[t] - OwnL2Hits[t])
  BY ONLY <1>2, <1>3, <1>4, <1>5
<1>8. SumFunctionOnSet(OwnL2', Threads) =
                 SumFunctionOnSet(OwnL2, Threads) + (OwnL2'[t] - OwnL2[t])
  BY ONLY <1>2, <1>3, <1>4, <1>5
<1>9. SumFunctionOnSet(OwnBackend', Threads) =
                 SumFunctionOnSet(OwnBackend, Threads) + (OwnBackend'[t] - OwnBackend[t])
  BY ONLY <1>2, <1>3, <1>4, <1>5
<1>10. SumFunctionOnSet(OwnBelow', Threads) =
                 SumFunctionOnSet(OwnBelow, Threads) + (OwnBelow'[t] - OwnBelow[t])
  BY ONLY <1>2, <1>3, <1>4, <1>5
<1> QED BY ONLY <1>6, <1>7, <1>8, <1>9, <1>10

-----------------------------------------------------------------------------
(* EngineStats: the two ways a thread's visit ends *)

LEMMA GotoEffect ==
    ASSUME ThreadsTyped, NEW t \in Threads, NEW layer \in {"l2", "backend", "fill"},
           NEW b \in Breakdown, Goto(t, layer, b),
           layer # "fill" => b.path = "MISS", layer = "fill" => b.path # "L1_HIT"
    PROVE  /\ ThreadsTyped'
           /\ \A u \in Threads \ {t} : at'[u] = at[u] /\ bd'[u] = bd[u] /\ tracker'[u] = tracker[u]
           /\ OwnL1Hits'[t] = tracker[t]["L1_HIT"].total_count
           /\ OwnL2Hits'[t] = tracker[t]["L2_HIT"].total_count + Bit(layer = "fill" /\ b.path = "L2_HIT")
           /\ OwnL2'[t] = Bit(layer = "l2") /\ OwnBackend'[t] = Bit(layer = "backend")
           /\ OwnBelow'[t] = tracker[t]["BACKEND_HIT"].total_count + tracker[t]["MISS"].total_count +
                             Bit(layer = "fill" /\ b.path # "L2_HIT")
<1>1. /\ at' = [at EXCEPT ![t] = layer] /\ bd' = [bd EXCEPT ![t] = b]
      /\ done' = done /\ tracker' = tracker
  BY DEF Goto
<1>2. /\ at' \in [Threads -> {"idle", "l2", "backend", "fill"}]
      /\ bd' \in [Threads -> Breakdown]
      /\ at'[t] = layer /\ bd'[t] = b
      /\ \A u \in Threads \ {t} : at'[u] = at[u] /\ bd'[u] = bd[u]
  BY ONLY <1>1, ThreadsTyped, t \in Threads, b \in Breakdown, layer \in {"l2", "backend", "fill"}
     DEF ThreadsTyped
<1>3. ThreadsTyped'
  <2>1. ASSUME NEW u \in Threads
        PROVE  /\ at'[u] # "fill" => bd'[u].path = "MISS"
               /\ at'[u] = "fill" => bd'[u].path # "L1_HIT"
               /\ tracker'[u]["total"].total_count = done'[u]
    <3>1. CASE u = t
      BY <1>1, <1>2, <3>1 DEF ThreadsTyped
    <3>2. CASE u # t
      BY <1>1, <1>2, <3>2 DEF ThreadsTyped
    <3> QED BY <3>1, <3>2
  <2>2. done' \in [Threads -> Nat] /\ tracker' \in [Threads -> [Histograms -> Histogram]]
    BY <1>1 DEF ThreadsTyped
  <2> QED BY ONLY <1>2, <2>1, <2>2 DEF ThreadsTyped
<1>4. \A u \in Threads : tracker'[u] = tracker[u]
  BY <1>1
<1> QED BY ONLY <1>2, <1>3, <1>4, t \in Threads DEF OwnL1Hits, OwnL2Hits, OwnL2, OwnBackend, OwnBelow, Bit

LEMMA FinishEffect ==
    ASSUME ThreadsTyped, NEW t \in Threads, NEW b \in Breakdown, Finish(t, b)
    PROVE  /\ ThreadsTyped'
           /\ \A u \in Threads \ {t} : at'[u] = at[u] /\ bd'[u] = bd[u] /\ tracker'[u] = tracker[u]
           /\ OwnL1Hits'[t] = tracker[t]["L1_HIT"].total_count + Bit(b.path = "L1_HIT")
           /\ OwnL2Hits'[t] = tracker[t]["L2_HIT"].total_count + Bit(b.path = "L2_HIT")
           /\ OwnL2'[t] = 0 /\ OwnBackend'[t] = 0
           /\ OwnBelow'[t] = tracker[t]["BACKEND_HIT"].total_count + tracker[t]["MISS"].total_count +
                             Bit(b.path \in {"BACKEND_HIT", "MISS"})
<1>1. /\ at' = [at EXCEPT ![t] = "idle"] /\ bd' = [bd EXCEPT ![t] = NoBreakdown]
      /\ done' = [done EXCEPT ![t] = @ + 1]
      /\ tracker' = [tracker EXCEPT ![t] = RecordBreakdown(@, b)]
  BY DEF Finish
<1> DEFINE own == RecordBreakdown(tracker[t], b)
<1>2. /\ own \in [Histograms -> Histogram]
      /\ \A h \in Histograms :
            own[h].total_count = tracker[t][h].total_count + (IF Records(b, h) THEN 1 ELSE 0)
  BY RecordBreakdownFacts DEF ThreadsTyped
<1>3. NoBreakdown \in Breakdown /\ NoBreakdown.path = "MISS"
  BY DEF NoBreakdown, Breakdown, Paths
<1>4. /\ at' \in [Threads -> {"idle", "l2", "backend", "fill"}]
      /\ bd' \in [Threads -> Breakdown]
      /\ at'[t] = "idle" /\ bd'[t] = NoBreakdown
      /\ \A u \in Threads \ {t} : at'[u] = at[u] /\ bd'[u] = bd[u]
  BY ONLY <1>1, <1>3, ThreadsTyped, t \in Threads DEF ThreadsTyped
<1> HIDE DEF own
<1>5. /\ done' \in [Threads -> Nat] /\ tracker' \in [Threads -> [Histograms -> Histogram]]
      /\ done'[t] = done[t] + 1 /\ tracker'[t] = own
      /\ \A u \in Threads \ {t} : done'[u] = done[u] /\ tracker'[u] = tracker[u]
  <2>1. tracker' = [tracker EXCEPT ![t] = own]
    BY <1>1 DEF own
  <2> QED BY ONLY <1>1, <2>1, <1>2, ThreadsTyped, t \in Threads DEF ThreadsTyped
<1>6. /\ own["total"].total_count = tracker[t]["total"].total_count + 1
      /\ \A h \in Paths : own[h].total_count = tracker[t][h].total_count + Bit(b.path = h)
  <2>1. Paths \subseteq Histograms /\ "total" \in Histograms
    BY DEF Histograms
  <2> QED BY ONLY <1>2, <2>1, RecordsPath, b \in Breakdown DEF Bit
<1>7. ThreadsTyped'
  <2>1. ASSUME NEW u \in Threads
        PROVE  /\ at'[u] # "fill" => bd'[u].path = "MISS"
               /\ at'[u] = "fill" => bd'[u].path # "L1_HIT"
               /\ tracker'[u]["total"].total_count = done'[u]
    <3>1. CASE u = t
      <4>1. tracker[t]["total"].total_count = done[t]
        BY DEF ThreadsTyped
      <4> QED BY ONLY <1>3, <1>4, <1>5, <1>6, <3>1, <4>1
    <3>2. CASE u # t
      BY <1>4, <1>5, <3>2 DEF ThreadsTyped
    <3> QED BY <3>1, <3>2
  <2> QED BY ONLY <1>4, <1>5, <2>1 DEF ThreadsTyped
<1>8. \A h \in Paths : tracker[t][h].total_count \in Nat
  BY DEF ThreadsTyped, Histogram, Histograms
<1>9. /\ OwnL1Hits'[t] = own["L1_HIT"].total_count
      /\ OwnL2Hits'[t] = own["L2_HIT"].total_count + 0
      /\ OwnL2'[t] = 0 /\ OwnBackend'[t] = 0
      /\ OwnBelow'[t] = own["BACKEND_HIT"].total_count + own["MISS"].total_count + 0
  BY ONLY <1>4, <1>5, t \in Threads DEF OwnL1Hits, OwnL2Hits, OwnL2, OwnBackend, OwnBelow, Bit
<1>10. OwnL1Hits'[t] = tracker[t]["L1_HIT"].total_count + Bit(b.path = "L1_HIT")
  BY ONLY <1>6, <1>9 DEF Paths
<1>11. OwnL2Hits'[t] = tracker[t]["L2_HIT"].total_count + Bit(b.path = "L2_HIT")
  BY ONLY <1>6, <1>8, <1>9 DEF Paths, Bit
<1>12. OwnBelow'[t] = tracker[t]["BACKEND_HIT"].total_count + tracker[t]["MISS"].total_count +
                             Bit(b.path \in {"BACKEND_HIT", "MISS"})
  BY ONLY <1>6, <1>8, <1>9 DEF Paths, Bit
<1>13. \A u \in Threads \ {t} : at'[u] = at[u] /\ bd'[u] = bd[u] /\ tracker'[u] = tracker[u]
  BY ONLY <1>4, <1>5
<1> QED BY ONLY <1>7, <1>9, <1>10, <1>11, <1>12, <1>13

\* The own values of a thread, and of its counts, as they are.
LEMMA OwnValues ==
    ASSUME NEW t \in Threads, ThreadsTyped
    PROVE  /\ OwnL1Hits[t] = tracker[t]["L1_HIT"].total_count
           /\ OwnL2Hits[t] = tracker[t]["L2_HIT"].total_count + Bit(at[t] = "fill" /\ bd[t].path = "L2_HIT")
           /\ OwnL2[t] = Bit(at[t] = "l2") /\ OwnBackend[t] = Bit(at[t] = "backend")
           /\ OwnBelow[t] = tracker[t]["BACKEND_HIT"].total_count + tracker[t]["MISS"].total_count +
                            Bit(at[t] = "fill" /\ bd[t].path # "L2_HIT")
           /\ \A h \in Paths : tracker[t][h].total_count \in Nat
           /\ bd[t] \in Breakdown
<1>1. \A h \in Paths : tracker[t][h].total_count \in Nat
  BY DEF ThreadsTyped, Histogram, Histograms
<1>2. bd[t] \in Breakdown
  BY DEF ThreadsTyped
<1> QED BY <1>1, <1>2 DEF OwnL1Hits, OwnL2Hits, OwnL2, OwnBackend, OwnBelow

\* Adding up the stripes' counters.
LEMMA StripeSums ==
    ASSUME NEW f \in [Stripes -> Nat]
    PROVE  /\ SumFunction(f) = SumFunctionOnSet(f, Stripes) /\ SumFunction(f) \in Nat
           /\ \A s \in Stripes : SumFunction([f EXCEPT ![s] = @ + 1]) = SumFunction(f) + 1
<1>1. IsFiniteSet(Stripes)
  BY StatsAssumption, FS_Interval DEF Stripes
<1>2. SumFunction(f) = SumFunctionOnSet(f, Stripes)
  BY DEF SumFunction
<1>3. SumFunction(f) \in Nat
  BY <1>1, <1>2, SumNat
<1>4. ASSUME NEW s \in Stripes PROVE SumFunction([f EXCEPT ![s] = @ + 1]) = SumFunction(f) + 1
  <2> DEFINE g == [f EXCEPT ![s] = @ + 1]
  <2>1. DOMAIN g = Stripes /\ g[s] = f[s] + 1 /\ \A x \in Stripes \ {s} : g[x] = f[x]
    OBVIOUS
  <2> HIDE DEF g
  <2>2. SumFunction(g) = SumFunctionOnSet(g, Stripes)
    BY <2>1 DEF SumFunction
  <2>3. \A x \in Stripes : f[x] \in Int
    OBVIOUS
  <2>4. SumFunctionOnSet(g, Stripes) = SumFunctionOnSet(f, Stripes) + 1
    BY ONLY <1>1, <2>1, <2>3, SumBump, s \in Stripes, 1 \in Int
  <2>5. SumFunction(g) = SumFunction(f) + 1
    BY ONLY <1>2, <2>2, <2>4
  <2> QED BY <2>5 DEF g
<1> QED BY <1>2, <1>3, <1>4

StatsTyped == ThreadsTyped /\ CountersTyped /\ Accounted

\* A step of one thread, in terms of what it adds to the sums and the counters.
LEMMA AccountedStep ==
    ASSUME StatsTyped, ThreadsTyped', CountersTyped', NEW t \in Threads,
           \A u \in Threads \ {t} : at'[u] = at[u] /\ bd'[u] = bd[u] /\ tracker'[u] = tracker[u],
           OwnL1Hits'[t] - OwnL1Hits[t] = Hits' - Hits,
           OwnL2Hits'[t] - OwnL2Hits[t] = l2_hits' - l2_hits,
           (OwnL2'[t] - OwnL2[t]) + (l2_hits' - l2_hits) + (l2_misses' - l2_misses) = Misses' - Misses,
           (OwnBackend'[t] - OwnBackend[t]) + (backend_reads' - backend_reads) = l2_misses' - l2_misses,
           OwnBelow'[t] - OwnBelow[t] =
               (backend_reads' - backend_reads) + (backend_writes' - backend_writes)
    PROVE  StatsTyped'
<1>1. /\ Hits \in Nat /\ Misses \in Nat /\ Hits' \in Nat /\ Misses' \in Nat
  BY StripeSums DEF StatsTyped, CountersTyped, Hits, Misses
<1>2. /\ SumFunctionOnSet(OwnL1Hits', Threads) =
             SumFunctionOnSet(OwnL1Hits, Threads) + (OwnL1Hits'[t] - OwnL1Hits[t])
      /\ SumFunctionOnSet(OwnL2Hits', Threads) =
             SumFunctionOnSet(OwnL2Hits, Threads) + (OwnL2Hits'[t] - OwnL2Hits[t])
      /\ SumFunctionOnSet(OwnL2', Threads) =
             SumFunctionOnSet(OwnL2, Threads) + (OwnL2'[t] - OwnL2[t])
      /\ SumFunctionOnSet(OwnBackend', Threads) =
             SumFunctionOnSet(OwnBackend, Threads) + (OwnBackend'[t] - OwnBackend[t])
      /\ SumFunctionOnSet(OwnBelow', Threads) =
             SumFunctionOnSet(OwnBelow, Threads) + (OwnBelow'[t] - OwnBelow[t])
  BY OwnMoves DEF StatsTyped
<1>3. /\ SumFunctionOnSet(OwnL1Hits, Threads) \in Nat /\ SumFunctionOnSet(OwnL2Hits, Threads) \in Nat
      /\ SumFunctionOnSet(OwnL2, Threads) \in Nat /\ SumFunctionOnSet(OwnBackend, Threads) \in Nat
      /\ SumFunctionOnSet(OwnBelow, Threads) \in Nat
      /\ OwnL1Hits[t] \in Nat /\ OwnL2Hits[t] \in Nat
      /\ OwnL2[t] \in Nat /\ OwnBackend[t] \in Nat /\ OwnBelow[t] \in Nat
  BY OwnTypes DEF StatsTyped
<1>4. /\ l2_hits \in Nat /\ l2_misses \in Nat /\ backend_reads \in Nat /\ backend_writes \in Nat
      /\ l2_hits' \in Nat /\ l2_misses' \in Nat /\ backend_reads' \in Nat /\ backend_writes' \in Nat
  BY DEF StatsTyped, CountersTyped
<1>5. Accounted
  BY DEF StatsTyped
<1>6. SumFunctionOnSet(OwnL1Hits', Threads) = Hits'
  BY ONLY <1>1, <1>2, <1>3, <1>5, OwnL1Hits'[t] - OwnL1Hits[t] = Hits' - Hits DEF Accounted
<1>7. SumFunctionOnSet(OwnL2Hits', Threads) = l2_hits'
  BY ONLY <1>2, <1>3, <1>4, <1>5, OwnL2Hits'[t] - OwnL2Hits[t] = l2_hits' - l2_hits DEF Accounted
<1>8. OwnL2'[t] \in Int /\ OwnBackend'[t] \in Int
  BY DEF OwnL2, OwnBackend, Bit
<1>9. SumFunctionOnSet(OwnL2', Threads) + l2_hits' + l2_misses' = Misses'
  <2>1. ASSUME NEW x \in Int, NEW y \in Int, NEW a \in Int, NEW b \in Int, NEW c \in Int, NEW d \in Int,
               NEW e \in Int, NEW f \in Int, NEW m \in Int, NEW n \in Int, NEW z,
               x + a + b = m, z = x + (e - f), (e - f) + (c - a) + (d - b) = n - m
        PROVE  z + c + d = n
    BY ONLY <2>1
  <2>2. SumFunctionOnSet(OwnL2, Threads) + l2_hits + l2_misses = Misses
    BY <1>5 DEF Accounted
  <2> QED BY ONLY <1>1, <1>2, <1>3, <1>4, <1>8, <2>1, <2>2,
     (OwnL2'[t] - OwnL2[t]) + (l2_hits' - l2_hits) + (l2_misses' - l2_misses) = Misses' - Misses
<1>10. SumFunctionOnSet(OwnBackend', Threads) + backend_reads' = l2_misses'
  BY ONLY <1>2, <1>3, <1>4, <1>5, <1>8,
     (OwnBackend'[t] - OwnBackend[t]) + (backend_reads' - backend_reads) = l2_misses' - l2_misses
     DEF Accounted
<1>11. SumFunctionOnSet(OwnBelow', Threads) = backend_reads' + backend_writes'
  BY ONLY <1>2, <1>3, <1>4, <1>5,
     OwnBelow'[t] - OwnBelow[t] =
               (backend_reads' - backend_reads) + (backend_writes' - backend_writes)
     DEF Accounted
<1>12. Accounted'
  BY ONLY <1>6, <1>7, <1>9, <1>10, <1>11 DEF Accounted
<1> QED BY <1>12 DEF StatsTyped

\* The types of a thread's step's parts.
LEMMA StepTypes ==
    /\ \A l \in {"l1", "l2", "backend"} : Durations[l] \subseteq Nat
    /\ \A p \in {"L1_HIT", "L2_HIT", "BACKEND_HIT", "MISS"} : p \in Paths
BY StatsAssumption DEF Paths

LEMMA HitsMove ==
    ASSUME CountersTyped
    PROVE  /\ Hits \in Nat /\ Misses \in Nat
           /\ \A s \in Stripes : /\ l1_hits' = [l1_hits EXCEPT ![s] = @ + 1] => Hits' = Hits + 1
                                 /\ l1_misses' = [l1_misses EXCEPT ![s] = @ + 1] => Misses' = Misses + 1
           /\ l1_hits' = l1_hits => Hits' = Hits
           /\ l1_misses' = l1_misses => Misses' = Misses
<1>1. l1_hits \in [Stripes -> Nat] /\ l1_misses \in [Stripes -> Nat]
  BY DEF CountersTyped
<1>2. Hits \in Nat /\ Misses \in Nat
  BY <1>1, StripeSums DEF Hits, Misses
<1>3. ASSUME NEW s \in Stripes, l1_hits' = [l1_hits EXCEPT ![s] = @ + 1] PROVE Hits' = Hits + 1
  BY <1>1, <1>3, StripeSums DEF Hits
<1>4. ASSUME NEW s \in Stripes, l1_misses' = [l1_misses EXCEPT ![s] = @ + 1] PROVE Misses' = Misses + 1
  BY <1>1, <1>4, StripeSums DEF Misses
<1> QED BY <1>2, <1>3, <1>4 DEF Hits, Misses

LEMMA L1HitStep ==
    ASSUME StatsTyped, NEW t \in Threads, NEW s \in Stripes, GetL1Hit(t, s)
    PROVE  StatsTyped'
<1>0. bd[t] \in Breakdown /\ CountersTyped /\ ThreadsTyped
  BY OwnValues DEF StatsTyped
<1>1. PICK d \in Durations["l1"] : Finish(t, [Spend(bd[t], d) EXCEPT !.path = "L1_HIT"])
  BY DEF GetL1Hit
<1> DEFINE b == [Spend(bd[t], d) EXCEPT !.path = "L1_HIT"]
<1>2. b \in Breakdown /\ b.path = "L1_HIT"
  <2>1. d \in Nat
    BY StepTypes
  <2> DEFINE c == Spend(bd[t], d)
  <2>2. c \in Breakdown
    BY <1>0, <2>1, StepTypes, SpendType
  <2> HIDE DEF c
  <2>3. [c EXCEPT !.path = "L1_HIT"] \in Breakdown /\ [c EXCEPT !.path = "L1_HIT"].path = "L1_HIT"
    BY <2>1, <2>2 DEF Breakdown, Paths
  <2> QED BY <2>3 DEF c
<1> HIDE DEF b
<1>3. Finish(t, b) /\ at[t] = "idle"
  BY <1>0, <1>1 DEF b, GetL1Hit, Begin
<1>4. /\ ThreadsTyped'
      /\ \A u \in Threads \ {t} : at'[u] = at[u] /\ bd'[u] = bd[u] /\ tracker'[u] = tracker[u]
      /\ OwnL1Hits'[t] = tracker[t]["L1_HIT"].total_count + 1
      /\ OwnL2Hits'[t] = tracker[t]["L2_HIT"].total_count + 0
      /\ OwnL2'[t] = 0 /\ OwnBackend'[t] = 0
      /\ OwnBelow'[t] = tracker[t]["BACKEND_HIT"].total_count + tracker[t]["MISS"].total_count + 0
  BY <1>0, <1>2, <1>3, FinishEffect DEF Bit
<1>5. /\ OwnL1Hits[t] = tracker[t]["L1_HIT"].total_count
      /\ OwnL2Hits[t] = tracker[t]["L2_HIT"].total_count + 0
      /\ OwnL2[t] = 0 /\ OwnBackend[t] = 0
      /\ OwnBelow[t] = tracker[t]["BACKEND_HIT"].total_count + tracker[t]["MISS"].total_count + 0
      /\ \A h \in Paths : tracker[t][h].total_count \in Nat
  BY <1>0, <1>3, OwnValues DEF Bit
<1>6. /\ Hits' = Hits + 1 /\ Misses' = Misses /\ Hits \in Nat /\ Misses \in Nat
      /\ l2_hits' = l2_hits /\ l2_misses' = l2_misses
      /\ backend_reads' = backend_reads /\ backend_writes' = backend_writes
  <2>1. /\ l1_hits' = [l1_hits EXCEPT ![s] = @ + 1] /\ l1_misses' = l1_misses
        /\ l2_hits' = l2_hits /\ l2_misses' = l2_misses
        /\ backend_reads' = backend_reads /\ backend_writes' = backend_writes
    BY DEF GetL1Hit
  <2> QED BY ONLY <1>0, <2>1, HitsMove, s \in Stripes
<1>7. CountersTyped'
  <2>1. /\ l1_hits' = [l1_hits EXCEPT ![s] = @ + 1] /\ l1_misses' = l1_misses
        /\ l2_hits' = l2_hits /\ l2_misses' = l2_misses
        /\ backend_reads' = backend_reads /\ backend_writes' = backend_writes
    BY DEF GetL1Hit
  <2> QED BY ONLY <1>0, <2>1, s \in Stripes DEF CountersTyped
<1>8. l2_hits \in Nat /\ l2_misses \in Nat /\ backend_reads \in Nat /\ backend_writes \in Nat
  BY <1>0 DEF CountersTyped
<1>9. /\ OwnL1Hits'[t] - OwnL1Hits[t] = Hits' - Hits
      /\ OwnL2Hits'[t] - OwnL2Hits[t] = l2_hits' - l2_hits
      /\ (OwnL2'[t] - OwnL2[t]) + (l2_hits' - l2_hits) + (l2_misses' - l2_misses) = Misses' - Misses
      /\ (OwnBackend'[t] - OwnBackend[t]) + (backend_reads' - backend_reads) = l2_misses' - l2_misses
      /\ OwnBelow'[t] - OwnBelow[t] =
             (backend_reads' - backend_reads) + (backend_writes' - backend_writes)
  BY ONLY <1>4, <1>5, <1>6, <1>8 DEF Paths
<1> QED BY <1>4, <1>7, <1>9, AccountedStep

LEMMA L1MissStep ==
    ASSUME StatsTyped, NEW t \in Threads, NEW s \in Stripes, GetL1Miss(t, s)
    PROVE  StatsTyped'
<1>0. bd[t] \in Breakdown /\ CountersTyped /\ ThreadsTyped
  BY OwnValues DEF StatsTyped
<1>1. PICK d \in Durations["l1"] : Goto(t, "l2", Spend(bd[t], d))
  BY DEF GetL1Miss
<1> DEFINE b == Spend(bd[t], d)
<1>2. b \in Breakdown /\ b.path = "MISS"
  <2>1. d \in Nat
    BY StepTypes
  <2>2. bd[t].path = "MISS"
    BY <1>0 DEF ThreadsTyped, GetL1Miss, Begin
  <2> QED BY <1>0, <2>1, <2>2, SpendType, StepTypes
<1> HIDE DEF b
<1>3. Goto(t, "l2", b) /\ at[t] = "idle"
  BY <1>0, <1>1 DEF b, GetL1Miss, Begin
<1>4. /\ ThreadsTyped'
      /\ \A u \in Threads \ {t} : at'[u] = at[u] /\ bd'[u] = bd[u] /\ tracker'[u] = tracker[u]
      /\ OwnL1Hits'[t] = tracker[t]["L1_HIT"].total_count + 0
      /\ OwnL2Hits'[t] = tracker[t]["L2_HIT"].total_count + 0
      /\ OwnL2'[t] = 1 /\ OwnBackend'[t] = 0
      /\ OwnBelow'[t] = tracker[t]["BACKEND_HIT"].total_count + tracker[t]["MISS"].total_count + 0
  <2>1. "l2" \in {"l2", "backend", "fill"} /\ Goto(t, "l2", b)
    BY <1>3
  <2>2. ("l2" # "fill" => b.path = "MISS") /\ ("l2" = "fill" => b.path # "L1_HIT")
    BY <1>2
  <2>3. /\ ThreadsTyped'
        /\ \A u \in Threads \ {t} : at'[u] = at[u] /\ bd'[u] = bd[u] /\ tracker'[u] = tracker[u]
        /\ OwnL1Hits'[t] = tracker[t]["L1_HIT"].total_count
        /\ OwnL2Hits'[t] = tracker[t]["L2_HIT"].total_count + Bit("l2" = "fill" /\ b.path = "L2_HIT")
        /\ OwnL2'[t] = Bit("l2" = "l2") /\ OwnBackend'[t] = Bit("l2" = "backend")
        /\ OwnBelow'[t] = tracker[t]["BACKEND_HIT"].total_count + tracker[t]["MISS"].total_count +
                          Bit("l2" = "fill" /\ b.path # "L2_HIT")
    BY ONLY <1>0, <1>2, <2>1, <2>2, GotoEffect, t \in Threads, Zenon
  <2>4. \A h \in Paths : tracker[t][h].total_count \in Nat
    BY <1>0, OwnValues
  <2> QED BY ONLY <1>2, <2>3, <2>4 DEF Bit, Paths
<1>5. /\ OwnL1Hits[t] = tracker[t]["L1_HIT"].total_count
      /\ OwnL2Hits[t] = tracker[t]["L2_HIT"].total_count + 0
      /\ OwnL2[t] = 0 /\ OwnBackend[t] = 0
      /\ OwnBelow[t] = tracker[t]["BACKEND_HIT"].total_count + tracker[t]["MISS"].total_count + 0
      /\ \A h \in Paths : tracker[t][h].total_count \in Nat
  BY <1>0, <1>3, OwnValues DEF Bit
<1>6. /\ Hits' = Hits /\ Misses' = Misses + 1 /\ Hits \in Nat /\ Misses \in Nat
      /\ l2_hits' = l2_hits /\ l2_misses' = l2_misses
      /\ backend_reads' = backend_reads /\ backend_writes' = backend_writes
  <2>1. /\ l1_hits' = l1_hits /\ l1_misses' = [l1_misses EXCEPT ![s] = @ + 1]
        /\ l2_hits' = l2_hits /\ l2_misses' = l2_misses
        /\ backend_reads' = backend_reads /\ backend_writes' = backend_writes
    BY DEF GetL1Miss
  <2> QED BY ONLY <1>0, <2>1, HitsMove, s \in Stripes
<1>7. CountersTyped'
  <2>1. /\ l1_hits' = l1_hits /\ l1_misses' = [l1_misses EXCEPT ![s] = @ + 1]
        /\ l2_hits' = l2_hits /\ l2_misses' = l2_misses
        /\ backend_reads' = backend_reads /\ backend_writes' = backend_writes
    BY DEF GetL1Miss
  <2> QED BY ONLY <1>0, <2>1, s \in Stripes DEF CountersTyped
<1>8. l2_hits \in Nat /\ l2_misses \in Nat /\ backend_reads \in Nat /\ backend_writes \in Nat
  BY <1>0 DEF CountersTyped
<1>9. /\ OwnL1Hits'[t] - OwnL1Hits[t] = Hits' - Hits
      /\ OwnL2Hits'[t] - OwnL2Hits[t] = l2_hits' - l2_hits
      /\ (OwnL2'[t] - OwnL2[t]) + (l2_hits' - l2_hits) + (l2_misses' - l2_misses) = Misses' - Misses
      /\ (OwnBackend'[t] - OwnBackend[t]) + (backend_reads' - backend_reads) = l2_misses' - l2_misses
      /\ OwnBelow'[t] - OwnBelow[t] =
             (backend_reads' - backend_reads) + (backend_writes' - backend_writes)
  BY ONLY <1>4, <1>5, <1>6, <1>8 DEF Paths
<1> QED BY <1>4, <1>7, <1>9, AccountedStep

LEMMA L2HitStep ==
    ASSUME StatsTyped, NEW t \in Threads, GetL2Hit(t)
    PROVE  StatsTyped'
<1>0. bd[t] \in Breakdown /\ CountersTyped /\ ThreadsTyped
  BY OwnValues DEF StatsTyped
<1>1. PICK d \in Durations["l2"] : Goto(t, "fill", [Spend(bd[t], d) EXCEPT !.l2_ns = d, !.path = "L2_HIT"])
  BY DEF GetL2Hit
<1> DEFINE b == [Spend(bd[t], d) EXCEPT !.l2_ns = d, !.path = "L2_HIT"]
<1>2. b \in Breakdown /\ b.path = "L2_HIT"
  <2>1. d \in Nat
    BY StepTypes
  <2> DEFINE c == Spend(bd[t], d)
  <2>2. c \in Breakdown
    BY <1>0, <2>1, StepTypes, SpendType
  <2> HIDE DEF c
  <2>3. [c EXCEPT !.l2_ns = d, !.path = "L2_HIT"] \in Breakdown /\ [c EXCEPT !.l2_ns = d, !.path = "L2_HIT"].path = "L2_HIT"
    BY <2>1, <2>2 DEF Breakdown, Paths
  <2> QED BY <2>3 DEF c
<1> HIDE DEF b
<1>3. Goto(t, "fill", b) /\ at[t] = "l2"
  BY <1>0, <1>1 DEF b, GetL2Hit
<1>4. /\ ThreadsTyped'
      /\ \A u \in Threads \ {t} : at'[u] = at[u] /\ bd'[u] = bd[u] /\ tracker'[u] = tracker[u]
      /\ OwnL1Hits'[t] = tracker[t]["L1_HIT"].total_count + 0
      /\ OwnL2Hits'[t] = tracker[t]["L2_HIT"].total_count + 1
      /\ OwnL2'[t] = 0 /\ OwnBackend'[t] = 0
      /\ OwnBelow'[t] = tracker[t]["BACKEND_HIT"].total_count + tracker[t]["MISS"].total_count + 0
  <2>1. "fill" \in {"l2", "backend", "fill"} /\ Goto(t, "fill", b)
    BY <1>3
  <2>2. ("fill" # "fill" => b.path = "MISS") /\ ("fill" = "fill" => b.path # "L1_HIT")
    BY <1>2
  <2>3. /\ ThreadsTyped'
        /\ \A u \in Threads \ {t} : at'[u] = at[u] /\ bd'[u] = bd[u] /\ tracker'[u] = tracker[u]
        /\ OwnL1Hits'[t] = tracker[t]["L1_HIT"].total_count
        /\ OwnL2Hits'[t] = tracker[t]["L2_HIT"].total_count + Bit("fill" = "fill" /\ b.path = "L2_HIT")
        /\ OwnL2'[t] = Bit("fill" = "l2") /\ OwnBackend'[t] = Bit("fill" = "backend")
        /\ OwnBelow'[t] = tracker[t]["BACKEND_HIT"].total_count + tracker[t]["MISS"].total_count +
                          Bit("fill" = "fill" /\ b.path # "L2_HIT")
    BY ONLY <1>0, <1>2, <2>1, <2>2, GotoEffect, t \in Threads, Zenon
  <2>4. \A h \in Paths : tracker[t][h].total_count \in Nat
    BY <1>0, OwnValues
  <2> QED BY ONLY <1>2, <2>3, <2>4 DEF Bit, Paths
<1>5. /\ OwnL1Hits[t] = tracker[t]["L1_HIT"].total_count
      /\ OwnL2Hits[t] = tracker[t]["L2_HIT"].total_count + 0
      /\ OwnL2[t] = 1 /\ OwnBackend[t] = 0
      /\ OwnBelow[t] = tracker[t]["BACKEND_HIT"].total_count + tracker[t]["MISS"].total_count + 0
      /\ \A h \in Paths : tracker[t][h].total_count \in Nat
  BY <1>0, <1>3, OwnValues DEF Bit
<1>6. /\ Hits' = Hits /\ Misses' = Misses /\ Hits \in Nat /\ Misses \in Nat
      /\ l2_hits' = l2_hits + 1 /\ l2_misses' = l2_misses
      /\ backend_reads' = backend_reads /\ backend_writes' = backend_writes
  <2>1. /\ l1_hits' = l1_hits /\ l1_misses' = l1_misses
        /\ l2_hits' = l2_hits + 1 /\ l2_misses' = l2_misses
        /\ backend_reads' = backend_reads /\ backend_writes' = backend_writes
    BY DEF GetL2Hit
  <2> QED BY ONLY <1>0, <2>1, HitsMove
<1>7. CountersTyped'
  <2>1. /\ l1_hits' = l1_hits /\ l1_misses' = l1_misses
        /\ l2_hits' = l2_hits + 1 /\ l2_misses' = l2_misses
        /\ backend_reads' = backend_reads /\ backend_writes' = backend_writes
    BY DEF GetL2Hit
  <2> QED BY ONLY <1>0, <2>1 DEF CountersTyped
<1>8. l2_hits \in Nat /\ l2_misses \in Nat /\ backend_reads \in Nat /\ backend_writes \in Nat
  BY <1>0 DEF CountersTyped
<1>9. /\ OwnL1Hits'[t] - OwnL1Hits[t] = Hits' - Hits
      /\ OwnL2Hits'[t] - OwnL2Hits[t] = l2_hits' - l2_hits
      /\ (OwnL2'[t] - OwnL2[t]) + (l2_hits' - l2_hits) + (l2_misses' - l2_misses) = Misses' - Misses
      /\ (OwnBackend'[t] - OwnBackend[t]) + (backend_reads' - backend_reads) = l2_misses' - l2_misses
      /\ OwnBelow'[t] - OwnBelow[t] =
             (backend_reads' - backend_reads) + (backend_writes' - backend_writes)
  BY ONLY <1>4, <1>5, <1>6, <1>8 DEF Paths
<1> QED BY <1>4, <1>7, <1>9, AccountedStep

LEMMA L2MissStep ==
    ASSUME StatsTyped, NEW t \in Threads, GetL2Miss(t)
    PROVE  StatsTyped'
<1>0. bd[t] \in Breakdown /\ CountersTyped /\ ThreadsTyped
  BY OwnValues DEF StatsTyped
<1>1. PICK d \in Durations["l2"] : Goto(t, "backend", [Spend(bd[t], d) EXCEPT !.l2_ns = d])
  BY DEF GetL2Miss
<1> DEFINE b == [Spend(bd[t], d) EXCEPT !.l2_ns = d]
<1>2. b \in Breakdown /\ b.path = "MISS"
  <2>1. d \in Nat
    BY StepTypes
  <2>2. bd[t].path = "MISS"
    BY <1>0 DEF ThreadsTyped, GetL2Miss
  <2> QED BY <1>0, <2>1, <2>2, SpendType, StepTypes
<1> HIDE DEF b
<1>3. Goto(t, "backend", b) /\ at[t] = "l2"
  BY <1>0, <1>1 DEF b, GetL2Miss
<1>4. /\ ThreadsTyped'
      /\ \A u \in Threads \ {t} : at'[u] = at[u] /\ bd'[u] = bd[u] /\ tracker'[u] = tracker[u]
      /\ OwnL1Hits'[t] = tracker[t]["L1_HIT"].total_count + 0
      /\ OwnL2Hits'[t] = tracker[t]["L2_HIT"].total_count + 0
      /\ OwnL2'[t] = 0 /\ OwnBackend'[t] = 1
      /\ OwnBelow'[t] = tracker[t]["BACKEND_HIT"].total_count + tracker[t]["MISS"].total_count + 0
  <2>1. "backend" \in {"l2", "backend", "fill"} /\ Goto(t, "backend", b)
    BY <1>3
  <2>2. ("backend" # "fill" => b.path = "MISS") /\ ("backend" = "fill" => b.path # "L1_HIT")
    BY <1>2
  <2>3. /\ ThreadsTyped'
        /\ \A u \in Threads \ {t} : at'[u] = at[u] /\ bd'[u] = bd[u] /\ tracker'[u] = tracker[u]
        /\ OwnL1Hits'[t] = tracker[t]["L1_HIT"].total_count
        /\ OwnL2Hits'[t] = tracker[t]["L2_HIT"].total_count + Bit("backend" = "fill" /\ b.path = "L2_HIT")
        /\ OwnL2'[t] = Bit("backend" = "l2") /\ OwnBackend'[t] = Bit("backend" = "backend")
        /\ OwnBelow'[t] = tracker[t]["BACKEND_HIT"].total_count + tracker[t]["MISS"].total_count +
                          Bit("backend" = "fill" /\ b.path # "L2_HIT")
    BY ONLY <1>0, <1>2, <2>1, <2>2, GotoEffect, t \in Threads, Zenon
  <2>4. \A h \in Paths : tracker[t][h].total_count \in Nat
    BY <1>0, OwnValues
  <2> QED BY ONLY <1>2, <2>3, <2>4 DEF Bit, Paths
<1>5. /\ OwnL1Hits[t] = tracker[t]["L1_HIT"].total_count
      /\ OwnL2Hits[t] = tracker[t]["L2_HIT"].total_count + 0
      /\ OwnL2[t] = 1 /\ OwnBackend[t] = 0
      /\ OwnBelow[t] = tracker[t]["BACKEND_HIT"].total_count + tracker[t]["MISS"].total_count + 0
      /\ \A h \in Paths : tracker[t][h].total_count \in Nat
  BY <1>0, <1>3, OwnValues DEF Bit
<1>6. /\ Hits' = Hits /\ Misses' = Misses /\ Hits \in Nat /\ Misses \in Nat
      /\ l2_hits' = l2_hits /\ l2_misses' = l2_misses + 1
      /\ backend_reads' = backend_reads /\ backend_writes' = backend_writes
  <2>1. /\ l1_hits' = l1_hits /\ l1_misses' = l1_misses
        /\ l2_hits' = l2_hits /\ l2_misses' = l2_misses + 1
        /\ backend_reads' = backend_reads /\ backend_writes' = backend_writes
    BY DEF GetL2Miss
  <2> QED BY ONLY <1>0, <2>1, HitsMove
<1>7. CountersTyped'
  <2>1. /\ l1_hits' = l1_hits /\ l1_misses' = l1_misses
        /\ l2_hits' = l2_hits /\ l2_misses' = l2_misses + 1
        /\ backend_reads' = backend_reads /\ backend_writes' = backend_writes
    BY DEF GetL2Miss
  <2> QED BY ONLY <1>0, <2>1 DEF CountersTyped
<1>8. l2_hits \in Nat /\ l2_misses \in Nat /\ backend_reads \in Nat /\ backend_writes \in Nat
  BY <1>0 DEF CountersTyped
<1>9. /\ OwnL1Hits'[t] - OwnL1Hits[t] = Hits' - Hits
      /\ OwnL2Hits'[t] - OwnL2Hits[t] = l2_hits' - l2_hits
      /\ (OwnL2'[t] - OwnL2[t]) + (l2_hits' - l2_hits) + (l2_misses' - l2_misses) = Misses' - Misses
      /\ (OwnBackend'[t] - OwnBackend[t]) + (backend_reads' - backend_reads) = l2_misses' - l2_misses
      /\ OwnBelow'[t] - OwnBelow[t] =
             (backend_reads' - backend_reads) + (backend_writes' - backend_writes)
  BY ONLY <1>4, <1>5, <1>6, <1>8 DEF Paths
<1> QED BY <1>4, <1>7, <1>9, AccountedStep

LEMMA BackendHitStep ==
    ASSUME StatsTyped, NEW t \in Threads, GetBackendHit(t)
    PROVE  StatsTyped'
<1>0. bd[t] \in Breakdown /\ CountersTyped /\ ThreadsTyped
  BY OwnValues DEF StatsTyped
<1>1. PICK d \in Durations["backend"] : Goto(t, "fill", Backend(t, d, "BACKEND_HIT"))
  BY DEF GetBackendHit
<1> DEFINE b == Backend(t, d, "BACKEND_HIT")
<1>2. b \in Breakdown /\ b.path = "BACKEND_HIT"
  <2>1. d \in Nat
    BY StepTypes
  <2> DEFINE c == Spend(bd[t], d)
  <2>2. c \in Breakdown
    BY <1>0, <2>1, StepTypes, SpendType
  <2> HIDE DEF c
  <2>3. [c EXCEPT !.backend_ns = d, !.path = "BACKEND_HIT"] \in Breakdown /\ [c EXCEPT !.backend_ns = d, !.path = "BACKEND_HIT"].path = "BACKEND_HIT"
    BY <2>1, <2>2 DEF Breakdown, Paths
  <2> QED BY <2>3 DEF c, Backend
<1> HIDE DEF b
<1>3. Goto(t, "fill", b) /\ at[t] = "backend"
  BY <1>0, <1>1 DEF b, GetBackendHit
<1>4. /\ ThreadsTyped'
      /\ \A u \in Threads \ {t} : at'[u] = at[u] /\ bd'[u] = bd[u] /\ tracker'[u] = tracker[u]
      /\ OwnL1Hits'[t] = tracker[t]["L1_HIT"].total_count + 0
      /\ OwnL2Hits'[t] = tracker[t]["L2_HIT"].total_count + 0
      /\ OwnL2'[t] = 0 /\ OwnBackend'[t] = 0
      /\ OwnBelow'[t] = tracker[t]["BACKEND_HIT"].total_count + tracker[t]["MISS"].total_count + 1
  <2>1. "fill" \in {"l2", "backend", "fill"} /\ Goto(t, "fill", b)
    BY <1>3
  <2>2. ("fill" # "fill" => b.path = "MISS") /\ ("fill" = "fill" => b.path # "L1_HIT")
    BY <1>2
  <2>3. /\ ThreadsTyped'
        /\ \A u \in Threads \ {t} : at'[u] = at[u] /\ bd'[u] = bd[u] /\ tracker'[u] = tracker[u]
        /\ OwnL1Hits'[t] = tracker[t]["L1_HIT"].total_count
        /\ OwnL2Hits'[t] = tracker[t]["L2_HIT"].total_count + Bit("fill" = "fill" /\ b.path = "L2_HIT")
        /\ OwnL2'[t] = Bit("fill" = "l2") /\ OwnBackend'[t] = Bit("fill" = "backend")
        /\ OwnBelow'[t] = tracker[t]["BACKEND_HIT"].total_count + tracker[t]["MISS"].total_count +
                          Bit("fill" = "fill" /\ b.path # "L2_HIT")
    BY ONLY <1>0, <1>2, <2>1, <2>2, GotoEffect, t \in Threads, Zenon
  <2>4. \A h \in Paths : tracker[t][h].total_count \in Nat
    BY <1>0, OwnValues
  <2> QED BY ONLY <1>2, <2>3, <2>4 DEF Bit, Paths
<1>5. /\ OwnL1Hits[t] = tracker[t]["L1_HIT"].total_count
      /\ OwnL2Hits[t] = tracker[t]["L2_HIT"].total_count + 0
      /\ OwnL2[t] = 0 /\ OwnBackend[t] = 1
      /\ OwnBelow[t] = tracker[t]["BACKEND_HIT"].total_count + tracker[t]["MISS"].total_count + 0
      /\ \A h \in Paths : tracker[t][h].total_count \in Nat
  BY <1>0, <1>3, OwnValues DEF Bit
<1>6. /\ Hits' = Hits /\ Misses' = Misses /\ Hits \in Nat /\ Misses \in Nat
      /\ l2_hits' = l2_hits /\ l2_misses' = l2_misses
      /\ backend_reads' = backend_reads + 1 /\ backend_writes' = backend_writes
  <2>1. /\ l1_hits' = l1_hits /\ l1_misses' = l1_misses
        /\ l2_hits' = l2_hits /\ l2_misses' = l2_misses
        /\ backend_reads' = backend_reads + 1 /\ backend_writes' = backend_writes
    BY DEF GetBackendHit
  <2> QED BY ONLY <1>0, <2>1, HitsMove
<1>7. CountersTyped'
  <2>1. /\ l1_hits' = l1_hits /\ l1_misses' = l1_misses
        /\ l2_hits' = l2_hits /\ l2_misses' = l2_misses
        /\ backend_reads' = backend_reads + 1 /\ backend_writes' = backend_writes
    BY DEF GetBackendHit
  <2> QED BY ONLY <1>0, <2>1 DEF CountersTyped
<1>8. l2_hits \in Nat /\ l2_misses \in Nat /\ backend_reads \in Nat /\ backend_writes \in Nat
  BY <1>0 DEF CountersTyped
<1>9. /\ OwnL1Hits'[t] - OwnL1Hits[t] = Hits' - Hits
      /\ OwnL2Hits'[t] - OwnL2Hits[t] = l2_hits' - l2_hits
      /\ (OwnL2'[t] - OwnL2[t]) + (l2_hits' - l2_hits) + (l2_misses' - l2_misses) = Misses' - Misses
      /\ (OwnBackend'[t] - OwnBackend[t]) + (backend_reads' - backend_reads) = l2_misses' - l2_misses
      /\ OwnBelow'[t] - OwnBelow[t] =
             (backend_reads' - backend_reads) + (backend_writes' - backend_writes)
  BY ONLY <1>4, <1>5, <1>6, <1>8 DEF Paths
<1> QED BY <1>4, <1>7, <1>9, AccountedStep

LEMMA BackendMissStep ==
    ASSUME StatsTyped, NEW t \in Threads, GetBackendMiss(t)
    PROVE  StatsTyped'
<1>0. bd[t] \in Breakdown /\ CountersTyped /\ ThreadsTyped
  BY OwnValues DEF StatsTyped
<1>1. PICK d \in Durations["backend"] : Finish(t, Backend(t, d, "MISS"))
  BY DEF GetBackendMiss
<1> DEFINE b == Backend(t, d, "MISS")
<1>2. b \in Breakdown /\ b.path = "MISS"
  <2>1. d \in Nat
    BY StepTypes
  <2> DEFINE c == Spend(bd[t], d)
  <2>2. c \in Breakdown
    BY <1>0, <2>1, StepTypes, SpendType
  <2> HIDE DEF c
  <2>3. [c EXCEPT !.backend_ns = d, !.path = "MISS"] \in Breakdown /\ [c EXCEPT !.backend_ns = d, !.path = "MISS"].path = "MISS"
    BY <2>1, <2>2 DEF Breakdown, Paths
  <2> QED BY <2>3 DEF c, Backend
<1> HIDE DEF b
<1>3. Finish(t, b) /\ at[t] = "backend"
  BY <1>0, <1>1 DEF b, GetBackendMiss
<1>4. /\ ThreadsTyped'
      /\ \A u \in Threads \ {t} : at'[u] = at[u] /\ bd'[u] = bd[u] /\ tracker'[u] = tracker[u]
      /\ OwnL1Hits'[t] = tracker[t]["L1_HIT"].total_count + 0
      /\ OwnL2Hits'[t] = tracker[t]["L2_HIT"].total_count + 0
      /\ OwnL2'[t] = 0 /\ OwnBackend'[t] = 0
      /\ OwnBelow'[t] = tracker[t]["BACKEND_HIT"].total_count + tracker[t]["MISS"].total_count + 1
  BY <1>0, <1>2, <1>3, FinishEffect DEF Bit
<1>5. /\ OwnL1Hits[t] = tracker[t]["L1_HIT"].total_count
      /\ OwnL2Hits[t] = tracker[t]["L2_HIT"].total_count + 0
      /\ OwnL2[t] = 0 /\ OwnBackend[t] = 1
      /\ OwnBelow[t] = tracker[t]["BACKEND_HIT"].total_count + tracker[t]["MISS"].total_count + 0
      /\ \A h \in Paths : tracker[t][h].total_count \in Nat
  BY <1>0, <1>3, OwnValues DEF Bit
<1>6. /\ Hits' = Hits /\ Misses' = Misses /\ Hits \in Nat /\ Misses \in Nat
      /\ l2_hits' = l2_hits /\ l2_misses' = l2_misses
      /\ backend_reads' = backend_reads + 1 /\ backend_writes' = backend_writes
  <2>1. /\ l1_hits' = l1_hits /\ l1_misses' = l1_misses
        /\ l2_hits' = l2_hits /\ l2_misses' = l2_misses
        /\ backend_reads' = backend_reads + 1 /\ backend_writes' = backend_writes
    BY DEF GetBackendMiss
  <2> QED BY ONLY <1>0, <2>1, HitsMove
<1>7. CountersTyped'
  <2>1. /\ l1_hits' = l1_hits /\ l1_misses' = l1_misses
        /\ l2_hits' = l2_hits /\ l2_misses' = l2_misses
        /\ backend_reads' = backend_reads + 1 /\ backend_writes' = backend_writes
    BY DEF GetBackendMiss
  <2> QED BY ONLY <1>0, <2>1 DEF CountersTyped
<1>8. l2_hits \in Nat /\ l2_misses \in Nat /\ backend_reads \in Nat /\ backend_writes \in Nat
  BY <1>0 DEF CountersTyped
<1>9. /\ OwnL1Hits'[t] - OwnL1Hits[t] = Hits' - Hits
      /\ OwnL2Hits'[t] - OwnL2Hits[t] = l2_hits' - l2_hits
      /\ (OwnL2'[t] - OwnL2[t]) + (l2_hits' - l2_hits) + (l2_misses' - l2_misses) = Misses' - Misses
      /\ (OwnBackend'[t] - OwnBackend[t]) + (backend_reads' - backend_reads) = l2_misses' - l2_misses
      /\ OwnBelow'[t] - OwnBelow[t] =
             (backend_reads' - backend_reads) + (backend_writes' - backend_writes)
  BY ONLY <1>4, <1>5, <1>6, <1>8 DEF Paths
<1> QED BY <1>4, <1>7, <1>9, AccountedStep

LEMMA PutBackendStep ==
    ASSUME StatsTyped, NEW t \in Threads, PutBackend(t)
    PROVE  StatsTyped'
<1>0. bd[t] \in Breakdown /\ CountersTyped /\ ThreadsTyped
  BY OwnValues DEF StatsTyped
<1>1. PICK d \in Durations["backend"] : Goto(t, "fill", Spend(bd[t], d))
  BY DEF PutBackend
<1> DEFINE b == Spend(bd[t], d)
<1>2. b \in Breakdown /\ b.path = "MISS"
  <2>1. d \in Nat
    BY StepTypes
  <2>2. bd[t].path = "MISS"
    BY <1>0 DEF ThreadsTyped, PutBackend, Begin
  <2> QED BY <1>0, <2>1, <2>2, SpendType, StepTypes
<1> HIDE DEF b
<1>3. Goto(t, "fill", b) /\ at[t] = "idle"
  BY <1>0, <1>1 DEF b, PutBackend, Begin
<1>4. /\ ThreadsTyped'
      /\ \A u \in Threads \ {t} : at'[u] = at[u] /\ bd'[u] = bd[u] /\ tracker'[u] = tracker[u]
      /\ OwnL1Hits'[t] = tracker[t]["L1_HIT"].total_count + 0
      /\ OwnL2Hits'[t] = tracker[t]["L2_HIT"].total_count + 0
      /\ OwnL2'[t] = 0 /\ OwnBackend'[t] = 0
      /\ OwnBelow'[t] = tracker[t]["BACKEND_HIT"].total_count + tracker[t]["MISS"].total_count + 1
  <2>1. "fill" \in {"l2", "backend", "fill"} /\ Goto(t, "fill", b)
    BY <1>3
  <2>2. ("fill" # "fill" => b.path = "MISS") /\ ("fill" = "fill" => b.path # "L1_HIT")
    BY <1>2
  <2>3. /\ ThreadsTyped'
        /\ \A u \in Threads \ {t} : at'[u] = at[u] /\ bd'[u] = bd[u] /\ tracker'[u] = tracker[u]
        /\ OwnL1Hits'[t] = tracker[t]["L1_HIT"].total_count
        /\ OwnL2Hits'[t] = tracker[t]["L2_HIT"].total_count + Bit("fill" = "fill" /\ b.path = "L2_HIT")
        /\ OwnL2'[t] = Bit("fill" = "l2") /\ OwnBackend'[t] = Bit("fill" = "backend")
        /\ OwnBelow'[t] = tracker[t]["BACKEND_HIT"].total_count + tracker[t]["MISS"].total_count +
                          Bit("fill" = "fill" /\ b.path # "L2_HIT")
    BY ONLY <1>0, <1>2, <2>1, <2>2, GotoEffect, t \in Threads, Zenon
  <2>4. \A h \in Paths : tracker[t][h].total_count \in Nat
    BY <1>0, OwnValues
  <2> QED BY ONLY <1>2, <2>3, <2>4 DEF Bit, Paths
<1>5. /\ OwnL1Hits[t] = tracker[t]["L1_HIT"].total_count
      /\ OwnL2Hits[t] = tracker[t]["L2_HIT"].total_count + 0
      /\ OwnL2[t] = 0 /\ OwnBackend[t] = 0
      /\ OwnBelow[t] = tracker[t]["BACKEND_HIT"].total_count + tracker[t]["MISS"].total_count + 0
      /\ \A h \in Paths : tracker[t][h].total_count \in Nat
  BY <1>0, <1>3, OwnValues DEF Bit
<1>6. /\ Hits' = Hits /\ Misses' = Misses /\ Hits \in Nat /\ Misses \in Nat
      /\ l2_hits' = l2_hits /\ l2_misses' = l2_misses
      /\ backend_reads' = backend_reads /\ backend_writes' = backend_writes + 1
  <2>1. /\ l1_hits' = l1_hits /\ l1_misses' = l1_misses
        /\ l2_hits' = l2_hits /\ l2_misses' = l2_misses
        /\ backend_reads' = backend_reads /\ backend_writes' = backend_writes + 1
    BY DEF PutBackend
  <2> QED BY ONLY <1>0, <2>1, HitsMove
<1>7. CountersTyped'
  <2>1. /\ l1_hits' = l1_hits /\ l1_misses' = l1_misses
        /\ l2_hits' = l2_hits /\ l2_misses' = l2_misses
        /\ backend_reads' = backend_reads /\ backend_writes' = backend_writes + 1
    BY DEF PutBackend
  <2> QED BY ONLY <1>0, <2>1 DEF CountersTyped
<1>8. l2_hits \in Nat /\ l2_misses \in Nat /\ backend_reads \in Nat /\ backend_writes \in Nat
  BY <1>0 DEF CountersTyped
<1>9. /\ OwnL1Hits'[t] - OwnL1Hits[t] = Hits' - Hits
      /\ OwnL2Hits'[t] - OwnL2Hits[t] = l2_hits' - l2_hits
      /\ (OwnL2'[t] - OwnL2[t]) + (l2_hits' - l2_hits) + (l2_misses' - l2_misses) = Misses' - Misses
      /\ (OwnBackend'[t] - OwnBackend[t]) + (backend_reads' - backend_reads) = l2_misses' - l2_misses
      /\ OwnBelow'[t] - OwnBelow[t] =
             (backend_reads' - backend_reads) + (backend_writes' - backend_writes)
  BY ONLY <1>4, <1>5, <1>6, <1>8 DEF Paths
<1> QED BY <1>4, <1>7, <1>9, AccountedStep

LEMMA PutL1Step ==
    ASSUME StatsTyped, NEW t \in Threads, PutL1(t)
    PROVE  StatsTyped'
<1>0. bd[t] \in Breakdown /\ CountersTyped /\ ThreadsTyped
  BY OwnValues DEF StatsTyped
<1>1. PICK d \in Durations["l1"] : Finish(t, Spend(bd[t], d))
  BY DEF PutL1
<1> DEFINE b == Spend(bd[t], d)
<1>2. b \in Breakdown /\ b.path = bd[t].path
  <2>1. d \in Nat
    BY StepTypes
  <2> QED BY <1>0, <2>1, SpendType, StepTypes
<1>p. bd[t].path \in Paths /\ bd[t].path # "L1_HIT"
  BY <1>0 DEF ThreadsTyped, PutL1, Breakdown
<1> HIDE DEF b
<1>3. Finish(t, b) /\ at[t] = "fill"
  BY <1>0, <1>1 DEF b, PutL1
<1>4. /\ ThreadsTyped'
      /\ \A u \in Threads \ {t} : at'[u] = at[u] /\ bd'[u] = bd[u] /\ tracker'[u] = tracker[u]
      /\ OwnL1Hits'[t] = tracker[t]["L1_HIT"].total_count + 0
      /\ OwnL2Hits'[t] = tracker[t]["L2_HIT"].total_count + Bit(bd[t].path = "L2_HIT")
      /\ OwnL2'[t] = 0 /\ OwnBackend'[t] = 0
      /\ OwnBelow'[t] = tracker[t]["BACKEND_HIT"].total_count + tracker[t]["MISS"].total_count + Bit(bd[t].path # "L2_HIT")
  BY <1>0, <1>2, <1>3, <1>p, FinishEffect DEF Bit, Paths
<1>5. /\ OwnL1Hits[t] = tracker[t]["L1_HIT"].total_count
      /\ OwnL2Hits[t] = tracker[t]["L2_HIT"].total_count + Bit(bd[t].path = "L2_HIT")
      /\ OwnL2[t] = 0 /\ OwnBackend[t] = 0
      /\ OwnBelow[t] = tracker[t]["BACKEND_HIT"].total_count + tracker[t]["MISS"].total_count + Bit(bd[t].path # "L2_HIT")
      /\ \A h \in Paths : tracker[t][h].total_count \in Nat
  BY <1>0, <1>3, OwnValues DEF Bit
<1>6. /\ Hits' = Hits /\ Misses' = Misses /\ Hits \in Nat /\ Misses \in Nat
      /\ l2_hits' = l2_hits /\ l2_misses' = l2_misses
      /\ backend_reads' = backend_reads /\ backend_writes' = backend_writes
  <2>1. /\ l1_hits' = l1_hits /\ l1_misses' = l1_misses
        /\ l2_hits' = l2_hits /\ l2_misses' = l2_misses
        /\ backend_reads' = backend_reads /\ backend_writes' = backend_writes
    BY DEF PutL1, counterVars
  <2> QED BY ONLY <1>0, <2>1, HitsMove
<1>7. CountersTyped'
  <2>1. /\ l1_hits' = l1_hits /\ l1_misses' = l1_misses
        /\ l2_hits' = l2_hits /\ l2_misses' = l2_misses
        /\ backend_reads' = backend_reads /\ backend_writes' = backend_writes
    BY DEF PutL1, counterVars
  <2> QED BY ONLY <1>0, <2>1 DEF CountersTyped
<1>8. l2_hits \in Nat /\ l2_misses \in Nat /\ backend_reads \in Nat /\ backend_writes \in Nat
  BY <1>0 DEF CountersTyped
<1>9. /\ OwnL1Hits'[t] - OwnL1Hits[t] = Hits' - Hits
      /\ OwnL2Hits'[t] - OwnL2Hits[t] = l2_hits' - l2_hits
      /\ (OwnL2'[t] - OwnL2[t]) + (l2_hits' - l2_hits) + (l2_misses' - l2_misses) = Misses' - Misses
      /\ (OwnBackend'[t] - OwnBackend[t]) + (backend_reads' - backend_reads) = l2_misses' - l2_misses
      /\ OwnBelow'[t] - OwnBelow[t] =
             (backend_reads' - backend_reads) + (backend_writes' - backend_writes)
  BY ONLY <1>4, <1>5, <1>6, <1>8 DEF Paths, Bit
<1> QED BY <1>4, <1>7, <1>9, AccountedStep

LEMMA StatsTypedInit == Init => StatsTyped
<1> SUFFICES ASSUME Init PROVE StatsTyped
  OBVIOUS
<1>1. EmptyHistogram \in Histogram /\ NoBreakdown \in Breakdown /\ NoBreakdown.path = "MISS"
  BY DEF EmptyHistogram, Histogram, NoBreakdown, Breakdown, Paths
<1>2. /\ at = [t \in Threads |-> "idle"] /\ bd = [t \in Threads |-> NoBreakdown]
      /\ done = [t \in Threads |-> 0] /\ tracker = [t \in Threads |-> EmptyTracker]
      /\ l1_hits = [s \in Stripes |-> 0] /\ l1_misses = [s \in Stripes |-> 0]
      /\ l2_hits = 0 /\ l2_misses = 0 /\ backend_reads = 0 /\ backend_writes = 0
  BY DEF Init
<1>3. /\ EmptyTracker \in [Histograms -> Histogram]
      /\ \A h \in Histograms : EmptyTracker[h] = EmptyHistogram
      /\ "total" \in Histograms /\ Paths \subseteq Histograms
  BY <1>1 DEF EmptyTracker, Histograms
<1>4. EmptyHistogram.total_count = 0
  BY DEF EmptyHistogram
<1>5. ThreadsTyped
  BY ONLY <1>1, <1>2, <1>3, <1>4 DEF ThreadsTyped
<1>6. CountersTyped
  BY <1>2 DEF CountersTyped
<1>7. \A t \in Threads : \A h \in Paths : tracker[t][h].total_count = 0
  BY ONLY <1>2, <1>3, <1>4
<1>8. \A t \in Threads : /\ OwnL1Hits[t] = 0 /\ OwnL2Hits[t] = 0 /\ OwnL2[t] = 0
                         /\ OwnBackend[t] = 0 /\ OwnBelow[t] = 0
  BY ONLY <1>2, <1>7 DEF OwnL1Hits, OwnL2Hits, OwnL2, OwnBackend, OwnBelow, Bit, Paths
<1>9. IsFiniteSet(Threads) /\ IsFiniteSet(Stripes)
  BY StatsAssumption, FS_Interval DEF Stripes
<1>10. /\ SumFunctionOnSet(OwnL1Hits, Threads) = 0 /\ SumFunctionOnSet(OwnL2Hits, Threads) = 0
       /\ SumFunctionOnSet(OwnL2, Threads) = 0 /\ SumFunctionOnSet(OwnBackend, Threads) = 0
       /\ SumFunctionOnSet(OwnBelow, Threads) = 0
  BY <1>8, <1>9, SumZero
<1>11. Hits = 0 /\ Misses = 0
  <2>1. \A s \in Stripes : l1_hits[s] = 0 /\ l1_misses[s] = 0
    BY <1>2
  <2>2. SumFunctionOnSet(l1_hits, Stripes) = 0 /\ SumFunctionOnSet(l1_misses, Stripes) = 0
    BY <1>9, <2>1, SumZero
  <2> QED BY <1>2, <2>2 DEF Hits, Misses, SumFunction
<1> QED BY ONLY <1>2, <1>5, <1>6, <1>10, <1>11 DEF StatsTyped, Accounted

\* A step that leaves the threads and the counters alone.
LEMMA StatsTypedKept ==
    ASSUME StatsTyped, UNCHANGED <<threadVars, counterVars>>
    PROVE  StatsTyped'
<1>1. /\ at' = at /\ bd' = bd /\ done' = done /\ tracker' = tracker
      /\ l1_hits' = l1_hits /\ l1_misses' = l1_misses /\ l2_hits' = l2_hits /\ l2_misses' = l2_misses
      /\ backend_reads' = backend_reads /\ backend_writes' = backend_writes
  BY DEF threadVars, counterVars
<1> QED BY <1>1 DEF StatsTyped, ThreadsTyped, CountersTyped, Accounted, OwnL1Hits, OwnL2Hits, OwnL2,
                    OwnBackend, OwnBelow, Hits, Misses

LEMMA StatsTypedStep == StatsTyped /\ [Next]_vars => StatsTyped'
<1> SUFFICES ASSUME StatsTyped, [Next]_vars PROVE StatsTyped'
  OBVIOUS
<1>1. ASSUME NEW t \in Threads, NEW s \in Stripes, GetL1Hit(t, s) \/ GetL1Miss(t, s) PROVE StatsTyped'
  BY <1>1, L1HitStep, L1MissStep
<1>2. ASSUME NEW t \in Threads, GetL2Hit(t) \/ GetL2Miss(t) PROVE StatsTyped'
  BY <1>2, L2HitStep, L2MissStep
<1>3. ASSUME NEW t \in Threads, GetBackendHit(t) \/ GetBackendMiss(t) PROVE StatsTyped'
  BY <1>3, BackendHitStep, BackendMissStep
<1>4. ASSUME NEW t \in Threads, PutBackend(t) \/ PutL1(t) PROVE StatsTyped'
  BY <1>4, PutBackendStep, PutL1Step
<1>5. CASE Join
  BY <1>5, StatsTypedKept DEF Join
<1>6. ASSUME NEW p \in Plans, MonitorBegin(p) PROVE StatsTyped'
  BY <1>6, StatsTypedKept DEF MonitorBegin
<1>7. CASE MonitorLoad
  BY <1>7, StatsTypedKept DEF MonitorLoad
<1>8. CASE MonitorZero
  BY <1>8, StatsTypedKept DEF MonitorZero
<1>9. CASE UNCHANGED vars
  BY <1>9, StatsTypedKept DEF vars
<1> QED BY <1>1, <1>2, <1>3, <1>4, <1>5, <1>6, <1>7, <1>8, <1>9 DEF Next

LEMMA StatsTypedImplies == StatsTyped => PathsMatchCounters
<1> SUFFICES ASSUME StatsTyped, \A t \in Threads : at[t] = "idle"
             PROVE  /\ Counted("L1_HIT") = Hits
                    /\ Counted("L2_HIT") = l2_hits
                    /\ Misses = l2_hits + l2_misses
                    /\ l2_misses = backend_reads
                    /\ Counted("BACKEND_HIT") + Counted("MISS") = backend_reads + backend_writes
                    /\ Counted("total") = SumFunction(done)
  BY DEF PathsMatchCounters
<1> DEFINE Count(h) == [t \in Threads |-> tracker[t][h].total_count]
<1>1. \A h : Counted(h) = SumFunctionOnSet(Count(h), Threads)
  BY DEF Counted, SumFunction
<1>2. \A t \in Threads : \A h \in Paths : Count(h)[t] = tracker[t][h].total_count /\ Count(h)[t] \in Nat
  BY OwnValues DEF StatsTyped
<1> HIDE DEF Count
<1>3. ASSUME NEW t \in Threads
      PROVE  /\ OwnL1Hits[t] = Count("L1_HIT")[t]
             /\ OwnL2Hits[t] = Count("L2_HIT")[t]
             /\ OwnL2[t] = 0 /\ OwnBackend[t] = 0
             /\ OwnBelow[t] = Count("BACKEND_HIT")[t] + Count("MISS")[t]
  <2>1. at[t] = "idle" /\ StatsTyped
    OBVIOUS
  <2> QED BY ONLY <1>2, <2>1, t \in Threads
          DEF Paths, OwnL1Hits, OwnL2Hits, OwnL2, OwnBackend, OwnBelow, Bit
<1>4. IsFiniteSet(Threads)
  BY StatsAssumption
<1>5. /\ SumFunctionOnSet(OwnL1Hits, Threads) = Counted("L1_HIT")
      /\ SumFunctionOnSet(OwnL2Hits, Threads) = Counted("L2_HIT")
  BY ONLY <1>1, <1>3, <1>4, SumSame
<1>6. SumFunctionOnSet(OwnL2, Threads) = 0 /\ SumFunctionOnSet(OwnBackend, Threads) = 0
  BY ONLY <1>3, <1>4, SumZero
<1>7. SumFunctionOnSet(OwnBelow, Threads) = Counted("BACKEND_HIT") + Counted("MISS")
  <2>1. \A t \in Threads : /\ Count("BACKEND_HIT")[t] \in Int /\ Count("MISS")[t] \in Int
                           /\ OwnBelow[t] = Count("BACKEND_HIT")[t] + Count("MISS")[t]
    BY ONLY <1>2, <1>3 DEF Paths
  <2>2. SumFunctionOnSet(OwnBelow, Threads) =
            SumFunctionOnSet(Count("BACKEND_HIT"), Threads) + SumFunctionOnSet(Count("MISS"), Threads)
    BY ONLY <1>4, <2>1, SumPlus
  <2> QED BY ONLY <1>1, <2>2
<1>8. Counted("total") = SumFunction(done)
  <2>1. [t \in Threads |-> tracker[t]["total"].total_count] = done
    BY DEF StatsTyped, ThreadsTyped
  <2> QED BY <2>1 DEF Counted
<1>9. l2_hits \in Nat /\ l2_misses \in Nat /\ backend_reads \in Nat /\ Accounted
  BY DEF StatsTyped, CountersTyped
<1> QED BY ONLY <1>5, <1>6, <1>7, <1>8, <1>9 DEF Accounted

\* Between operations the counters of the layers and the paths that the threads
\* recorded tell the same story (CacheEngine::get and put, PathLatencyTracker::record).
THEOREM StatsPathsMatchCounters == Spec => []PathsMatchCounters
<1>1. Spec => []StatsTyped
  BY StatsTypedInit, StatsTypedStep, PTL DEF Spec
<1> QED BY <1>1, StatsTypedImplies, PTL

-----------------------------------------------------------------------------
(* EngineStats: the monitor *)

LoopLoads(counter, into) == {Load(counter, s, into) : s \in Stripes}

Loads == LoopLoads("hits", "total") \cup LoopLoads("misses", "total") \cup
         LoopLoads("hits", "hits") \cup {Load("l2", 0, "hits")}

\* The stripes whose counter is still to be loaded for the hits and for the
\* total, and what they hold now.
HitsLeft == {s \in Stripes : Load("hits", s, "hits") \in Range(monitor.plan)}
TotalHitsLeft == {s \in Stripes : Load("hits", s, "total") \in Range(monitor.plan)}
TotalMissesLeft == {s \in Stripes : Load("misses", s, "total") \in Range(monitor.plan)}
L2Left == Load("l2", 0, "hits") \in Range(monitor.plan)

HitsToCome == SumFunctionOnSet(l1_hits, HitsLeft) + (IF L2Left THEN l2_hits ELSE 0)

TotalToCome == SumFunctionOnSet(l1_hits, TotalHitsLeft) + SumFunctionOnSet(l1_misses, TotalMissesLeft)

MonitorRecord ==
    [begun : BOOLEAN, plan : Seq(Loads), total : Nat, hits : Nat, start : [hits : Nat, total : Nat]]

MonitorTyped ==
    /\ monitor \in MonitorRecord
    /\ IsInjective(monitor.plan)
    /\ ~ monitor.begun => monitor.plan = <<>> /\ monitor.total = 0 /\ monitor.hits = 0

\* Until it has given up on a total of 0, the monitor is between what was
\* counted when it began and what is counted now.
InBetween ==
    monitor.plan # <<>> \/ monitor.total > 0 =>
        /\ monitor.start.hits <= monitor.start.total
        /\ monitor.start.hits <= monitor.hits + HitsToCome
        /\ monitor.hits + HitsToCome <= Hits + l2_hits
        /\ monitor.start.total <= monitor.total + TotalToCome
        /\ monitor.total + TotalToCome <= Hits + Misses

LEMMA ConcatLoads ==
    ASSUME NEW S, NEW p \in Seq(S), NEW q \in Seq(S), IsInjective(p), IsInjective(q),
           Range(p) \cap Range(q) = {}
    PROVE  p \o q \in Seq(S) /\ IsInjective(p \o q) /\ Range(p \o q) = Range(p) \cup Range(q)
<1>1. /\ p \o q \in Seq(S) /\ Len(p \o q) = Len(p) + Len(q)
      /\ \A i \in 1 .. Len(p) + Len(q) : (p \o q)[i] = IF i <= Len(p) THEN p[i] ELSE q[i - Len(p)]
  OBVIOUS
<1>2. Len(p) \in Nat /\ Len(q) \in Nat /\ DOMAIN p = 1 .. Len(p) /\ DOMAIN q = 1 .. Len(q)
      /\ DOMAIN (p \o q) = 1 .. Len(p) + Len(q)
  BY <1>1
<1> DEFINE r == p \o q
<1>3. \A i \in 1 .. Len(p) : r[i] = p[i] /\ i \in DOMAIN r
  BY <1>1, <1>2
<1>4. \A i \in 1 .. Len(q) : r[Len(p) + i] = q[i] /\ Len(p) + i \in DOMAIN r
  <2> TAKE i \in 1 .. Len(q)
  <2>1. Len(p) + i \in 1 .. Len(p) + Len(q) /\ ~ (Len(p) + i <= Len(p)) /\ (Len(p) + i) - Len(p) = i
    BY ONLY <1>2, i \in 1 .. Len(q)
  <2> QED BY ONLY <1>1, <1>2, <2>1
<1>5. \A i \in DOMAIN r : i \in 1 .. Len(p) \/ \E j \in 1 .. Len(q) : i = Len(p) + j
  <2> TAKE i \in DOMAIN r
  <2>1. CASE i <= Len(p)
    BY <1>2, <2>1
  <2>2. CASE ~ (i <= Len(p))
    <3>1. i - Len(p) \in 1 .. Len(q) /\ i = Len(p) + (i - Len(p))
      BY ONLY <1>2, <2>2, i \in DOMAIN r
    <3> QED BY <3>1
  <2> QED BY <2>1, <2>2
<1> HIDE DEF r
<1>6. Range(r) = Range(p) \cup Range(q)
  <2>1. ASSUME NEW x \in Range(r) PROVE x \in Range(p) \cup Range(q)
    <3>1. PICK i \in DOMAIN r : x = r[i]
      BY DEF Range
    <3>2. CASE i \in 1 .. Len(p)
      BY <1>2, <1>3, <3>1, <3>2 DEF Range
    <3>3. CASE \E j \in 1 .. Len(q) : i = Len(p) + j
      BY <1>2, <1>4, <3>1, <3>3 DEF Range
    <3> QED BY <1>5, <3>2, <3>3
  <2>2. ASSUME NEW x \in Range(p) PROVE x \in Range(r)
    BY <1>2, <1>3 DEF Range
  <2>3. ASSUME NEW x \in Range(q) PROVE x \in Range(r)
    BY <1>2, <1>4 DEF Range
  <2> QED BY <2>1, <2>2, <2>3
<1>7. ASSUME NEW i \in DOMAIN r, NEW j \in DOMAIN r, r[i] = r[j] PROVE i = j
  <2>1. \A m \in 1 .. Len(p), n \in 1 .. Len(q) : p[m] # q[n]
    BY <1>2 DEF Range
  <2>2. CASE i \in 1 .. Len(p) /\ j \in 1 .. Len(p)
    BY <1>2, <1>3, <1>7, <2>2 DEF IsInjective
  <2>3. CASE i \in 1 .. Len(p) /\ \E n \in 1 .. Len(q) : j = Len(p) + n
    BY <1>3, <1>4, <1>7, <2>1, <2>3
  <2>4. CASE j \in 1 .. Len(p) /\ \E n \in 1 .. Len(q) : i = Len(p) + n
    BY <1>3, <1>4, <1>7, <2>1, <2>4
  <2>5. CASE (\E m \in 1 .. Len(q) : i = Len(p) + m) /\ \E n \in 1 .. Len(q) : j = Len(p) + n
    BY <1>2, <1>4, <1>7, <2>5 DEF IsInjective
  <2> QED BY <1>5, <2>2, <2>3, <2>4, <2>5
<1> QED BY <1>1, <1>6, <1>7 DEF r, IsInjective

LEMMA TailLoads ==
    ASSUME NEW S, NEW p \in Seq(S), IsInjective(p), p # <<>>
    PROVE  /\ Head(p) \in Range(p) /\ Head(p) \in S
           /\ Tail(p) \in Seq(S) /\ IsInjective(Tail(p)) /\ Range(Tail(p)) = Range(p) \ {Head(p)}
<1>1. /\ Len(p) \in Nat /\ Len(p) > 0 /\ DOMAIN p = 1 .. Len(p) /\ Head(p) = p[1]
      /\ Tail(p) \in Seq(S) /\ DOMAIN Tail(p) = 1 .. Len(p) - 1
      /\ \A i \in 1 .. Len(p) - 1 : Tail(p)[i] = p[i + 1]
  OBVIOUS
<1> DEFINE q == Tail(p)
<1>2. \A i \in 1 .. Len(p) - 1 : i + 1 \in DOMAIN p /\ i + 1 # 1 /\ q[i] = p[i + 1]
  BY <1>1
<1>3. \A i \in DOMAIN p : i # 1 => \E j \in 1 .. Len(p) - 1 : i = j + 1
  <2> SUFFICES ASSUME NEW i \in DOMAIN p, i # 1 PROVE \E j \in 1 .. Len(p) - 1 : i = j + 1
    OBVIOUS
  <2>1. i - 1 \in 1 .. Len(p) - 1 /\ i = (i - 1) + 1
    BY <1>1
  <2> QED BY <2>1
<1>4. 1 \in DOMAIN p
  BY <1>1
<1> HIDE DEF q
<1>5. DOMAIN q = 1 .. Len(p) - 1
  BY <1>1 DEF q
<1>6. IsInjective(q)
  <2> SUFFICES ASSUME NEW i \in DOMAIN q, NEW j \in DOMAIN q, q[i] = q[j] PROVE i = j
    BY DEF IsInjective
  <2>1. p[i + 1] = p[j + 1] /\ i + 1 \in DOMAIN p /\ j + 1 \in DOMAIN p
    BY <1>2, <1>5
  <2>2. i + 1 = j + 1
    BY <2>1 DEF IsInjective
  <2> QED BY ONLY <1>1, <1>5, <2>2, i \in DOMAIN q, j \in DOMAIN q
<1>7. Range(q) = Range(p) \ {Head(p)}
  <2>1. ASSUME NEW x \in Range(q) PROVE x \in Range(p) /\ x # p[1]
    <3>1. PICK i \in DOMAIN q : x = q[i]
      BY DEF Range
    <3> QED BY <1>2, <1>4, <1>5, <3>1 DEF Range, IsInjective
  <2>2. ASSUME NEW x \in Range(p), x # p[1] PROVE x \in Range(q)
    <3>1. PICK i \in DOMAIN p : x = p[i]
      BY DEF Range
    <3>2. PICK j \in 1 .. Len(p) - 1 : i = j + 1
      BY <1>3, <2>2, <3>1
    <3> QED BY <1>2, <1>5, <3>1, <3>2 DEF Range
  <2> QED BY <1>1, <2>1, <2>2
<1>8. Head(p) \in Range(p) /\ Head(p) \in S
  BY <1>1, <1>4 DEF Range
<1> QED BY <1>1, <1>6, <1>7, <1>8 DEF q

LEMMA LoopFacts ==
    ASSUME NEW counter, NEW into
    PROVE  /\ Loop(counter, into) \in Seq(LoopLoads(counter, into))
           /\ IsInjective(Loop(counter, into))
           /\ Range(Loop(counter, into)) = LoopLoads(counter, into)
<1> DEFINE p == Loop(counter, into)
<1>1. NumStripes \in Nat /\ Stripes = 0 .. NumStripes - 1
  BY StatsAssumption DEF Stripes
<1>2. DOMAIN p = 1 .. NumStripes /\ \A n \in 1 .. NumStripes : p[n] = Load(counter, n - 1, into) /\ n - 1 \in Stripes
  BY <1>1 DEF Loop
<1> HIDE DEF p
<1>3. p \in Seq(LoopLoads(counter, into))
  <2>1. \A n \in 1 .. NumStripes : p[n] \in LoopLoads(counter, into)
    BY <1>2 DEF LoopLoads
  <2>2. p = [n \in 1 .. NumStripes |-> p[n]]
    BY <1>2 DEF p, Loop
  <2>3. p \in [1 .. NumStripes -> LoopLoads(counter, into)]
    BY ONLY <2>1, <2>2
  <2> QED BY ONLY <1>1, <2>3
<1>4. IsInjective(p)
  BY <1>1, <1>2 DEF Load, IsInjective
<1>5. Range(p) = LoopLoads(counter, into)
  <2>1. ASSUME NEW s \in Stripes PROVE s + 1 \in 1 .. NumStripes /\ (s + 1) - 1 = s
    BY <1>1
  <2>2. ASSUME NEW s \in Stripes PROVE Load(counter, s, into) \in Range(p)
    BY <1>2, <2>1 DEF Range
  <2>3. ASSUME NEW n \in DOMAIN p PROVE p[n] \in LoopLoads(counter, into)
    BY <1>2 DEF LoopLoads
  <2> QED BY <2>2, <2>3 DEF LoopLoads, Range
<1> QED BY <1>3, <1>4, <1>5 DEF p

\* Every plan loads every counter of the sum once.
LEMMA PlanFacts ==
    ASSUME NEW p \in Plans
    PROVE  p \in Seq(Loads) /\ IsInjective(p) /\ Range(p) = Loads
<1> DEFINE ht == Loop("hits", "total")
           mt == Loop("misses", "total")
           hh == Loop("hits", "hits")
           l2 == <<Load("l2", 0, "hits")>>
<1>1. /\ ht \in Seq(Loads) /\ IsInjective(ht) /\ Range(ht) = LoopLoads("hits", "total")
      /\ mt \in Seq(Loads) /\ IsInjective(mt) /\ Range(mt) = LoopLoads("misses", "total")
      /\ hh \in Seq(Loads) /\ IsInjective(hh) /\ Range(hh) = LoopLoads("hits", "hits")
  <2>1. \A S \in SUBSET Loads : \A q \in Seq(S) : q \in Seq(Loads)
    OBVIOUS
  <2>2. /\ LoopLoads("hits", "total") \in SUBSET Loads /\ LoopLoads("misses", "total") \in SUBSET Loads
        /\ LoopLoads("hits", "hits") \in SUBSET Loads
    BY DEF Loads
  <2> QED BY <2>1, <2>2, LoopFacts
<1>2. l2 \in Seq(Loads) /\ IsInjective(l2) /\ Range(l2) = {Load("l2", 0, "hits")}
  <2>1. Load("l2", 0, "hits") \in Loads
    BY DEF Loads
  <2>2. DOMAIN l2 = {1} /\ l2[1] = Load("l2", 0, "hits")
    OBVIOUS
  <2> QED BY <2>1, <2>2 DEF IsInjective, Range
<1>3. /\ LoopLoads("hits", "total") \cap LoopLoads("misses", "total") = {}
      /\ LoopLoads("hits", "hits") \cap {Load("l2", 0, "hits")} = {}
      /\ (LoopLoads("hits", "total") \cup LoopLoads("misses", "total")) \cap
            (LoopLoads("hits", "hits") \cup {Load("l2", 0, "hits")}) = {}
  BY DEF LoopLoads, Load
<1>4. PICK total \in Either(ht, mt), rate \in Either(hh, l2) : p = total \o rate
  BY DEF Plans
<1> HIDE DEF ht, mt, hh, l2
<1>5. /\ total \in Seq(Loads) /\ IsInjective(total)
      /\ Range(total) = LoopLoads("hits", "total") \cup LoopLoads("misses", "total")
  <2>1. CASE total = ht \o mt
    BY <1>1, <1>3, <2>1, ConcatLoads
  <2>2. CASE total = mt \o ht
    BY <1>1, <1>3, <2>2, ConcatLoads
  <2> QED BY <1>4, <2>1, <2>2 DEF Either
<1>6. /\ rate \in Seq(Loads) /\ IsInjective(rate)
      /\ Range(rate) = LoopLoads("hits", "hits") \cup {Load("l2", 0, "hits")}
  <2>1. CASE rate = hh \o l2
    BY <1>1, <1>2, <1>3, <2>1, ConcatLoads
  <2>2. CASE rate = l2 \o hh
    BY <1>1, <1>2, <1>3, <2>2, ConcatLoads
  <2> QED BY <1>4, <2>1, <2>2 DEF Either
<1>7. p \in Seq(Loads) /\ IsInjective(p) /\ Range(p) = Range(total) \cup Range(rate)
  BY <1>3, <1>4, <1>5, <1>6, ConcatLoads
<1> QED BY <1>5, <1>6, <1>7 DEF Loads

\* Sums over some of the stripes.
LEMMA PartSums ==
    ASSUME NEW f \in [Stripes -> Nat], NEW R \in SUBSET Stripes
    PROVE  /\ SumFunctionOnSet(f, R) \in Nat /\ SumFunctionOnSet(f, Stripes \ R) \in Nat
           /\ SumFunction(f) = SumFunctionOnSet(f, R) + SumFunctionOnSet(f, Stripes \ R)
           /\ \A s \in R : SumFunctionOnSet(f, R) = f[s] + SumFunctionOnSet(f, R \ {s})
<1>1. IsFiniteSet(R) /\ IsFiniteSet(Stripes \ R)
  <2>1. IsFiniteSet(Stripes)
    BY StatsAssumption, FS_Interval DEF Stripes
  <2> QED BY <2>1, FS_Subset
<1>2. (\A s \in R : f[s] \in Nat) /\ (\A s \in Stripes \ R : f[s] \in Nat)
  OBVIOUS
<1>3. SumFunctionOnSet(f, R) \in Nat /\ SumFunctionOnSet(f, Stripes \ R) \in Nat
  BY ONLY <1>1, <1>2, SumNat
<1>4. R \cup (Stripes \ R) = Stripes /\ R \cap (Stripes \ R) = {}
  OBVIOUS
<1>5. \A s \in R \cup (Stripes \ R) : f[s] \in Int
  OBVIOUS
<1>6. SumFunctionOnSet(f, Stripes) = SumFunctionOnSet(f, R) + SumFunctionOnSet(f, Stripes \ R)
  <2>1. SumFunctionOnSet(f, R \cup (Stripes \ R)) = SumFunctionOnSet(f, R) + SumFunctionOnSet(f, Stripes \ R)
    BY ONLY <1>1, <1>4, <1>5, SumUnion
  <2> QED BY ONLY <1>4, <2>1
<1>7. SumFunction(f) = SumFunctionOnSet(f, Stripes)
  BY StripeSums
<1>8. \A s \in R : SumFunctionOnSet(f, R) = f[s] + SumFunctionOnSet(f, R \ {s})
  BY ONLY <1>1, <1>5, SumSplit
<1> QED BY ONLY <1>3, <1>6, <1>7, <1>8

\* Counters that only grow: so do their sums, and that of all by more than that of some.
LEMMA PartGrows ==
    ASSUME NEW f \in [Stripes -> Nat], NEW g \in [Stripes -> Nat], NEW R \in SUBSET Stripes,
           \A s \in Stripes : f[s] <= g[s]
    PROVE  /\ SumFunctionOnSet(f, R) <= SumFunctionOnSet(g, R)
           /\ SumFunctionOnSet(g, R) - SumFunctionOnSet(f, R) <= SumFunction(g) - SumFunction(f)
<1>1. IsFiniteSet(R) /\ IsFiniteSet(Stripes \ R)
  <2>1. IsFiniteSet(Stripes)
    BY StatsAssumption, FS_Interval DEF Stripes
  <2> QED BY <2>1, FS_Subset
<1>2. /\ \A s \in R : f[s] \in Int /\ g[s] \in Int /\ f[s] <= g[s]
      /\ \A s \in Stripes \ R : f[s] \in Int /\ g[s] \in Int /\ f[s] <= g[s]
  OBVIOUS
<1>3. /\ SumFunctionOnSet(f, R) <= SumFunctionOnSet(g, R)
      /\ SumFunctionOnSet(f, Stripes \ R) <= SumFunctionOnSet(g, Stripes \ R)
  BY ONLY <1>1, <1>2, SumMono
<1>4. /\ SumFunctionOnSet(f, R) \in Nat /\ SumFunctionOnSet(f, Stripes \ R) \in Nat
      /\ SumFunction(f) = SumFunctionOnSet(f, R) + SumFunctionOnSet(f, Stripes \ R)
      /\ SumFunctionOnSet(g, R) \in Nat /\ SumFunctionOnSet(g, Stripes \ R) \in Nat
      /\ SumFunction(g) = SumFunctionOnSet(g, R) + SumFunctionOnSet(g, Stripes \ R)
  BY PartSums
<1> QED BY ONLY <1>3, <1>4

LEMMA ToComeTypes ==
    ASSUME CountersTyped
    PROVE  /\ HitsToCome \in Nat /\ TotalToCome \in Nat
<1>1. HitsLeft \in SUBSET Stripes /\ TotalHitsLeft \in SUBSET Stripes /\ TotalMissesLeft \in SUBSET Stripes
  BY DEF HitsLeft, TotalHitsLeft, TotalMissesLeft
<1>2. l1_hits \in [Stripes -> Nat] /\ l1_misses \in [Stripes -> Nat] /\ l2_hits \in Nat
  BY DEF CountersTyped
<1>3. /\ SumFunctionOnSet(l1_hits, HitsLeft) \in Nat /\ SumFunctionOnSet(l1_hits, TotalHitsLeft) \in Nat
      /\ SumFunctionOnSet(l1_misses, TotalMissesLeft) \in Nat
  BY <1>1, <1>2, PartSums
<1> QED BY <1>1, <1>2, <1>3 DEF HitsToCome, TotalToCome

\* A step of a thread, for the monitor: the counters only grow.
CountersGrow ==
    /\ \A s \in Stripes : l1_hits[s] <= l1_hits'[s] /\ l1_misses[s] <= l1_misses'[s]
    /\ l2_hits <= l2_hits'

LEMMA MonitorKept ==
    ASSUME CountersTyped, CountersTyped', CountersGrow, MonitorTyped, InBetween, monitor' = monitor
    PROVE  MonitorTyped' /\ InBetween'
<1>1. MonitorTyped'
  BY DEF MonitorTyped
<1>2. /\ HitsLeft' = HitsLeft /\ HitsLeft \in SUBSET Stripes
      /\ TotalHitsLeft' = TotalHitsLeft /\ TotalHitsLeft \in SUBSET Stripes
      /\ TotalMissesLeft' = TotalMissesLeft /\ TotalMissesLeft \in SUBSET Stripes
      /\ L2Left' = L2Left
  BY DEF HitsLeft, TotalHitsLeft, TotalMissesLeft, L2Left
<1>3. /\ l1_hits \in [Stripes -> Nat] /\ l1_misses \in [Stripes -> Nat] /\ l2_hits \in Nat
      /\ l1_hits' \in [Stripes -> Nat] /\ l1_misses' \in [Stripes -> Nat] /\ l2_hits' \in Nat
  BY DEF CountersTyped
<1>4. \A R \in SUBSET Stripes :
         /\ SumFunctionOnSet(l1_hits, R) <= SumFunctionOnSet(l1_hits', R)
         /\ SumFunctionOnSet(l1_hits', R) - SumFunctionOnSet(l1_hits, R) <= Hits' - Hits
         /\ SumFunctionOnSet(l1_misses, R) <= SumFunctionOnSet(l1_misses', R)
         /\ SumFunctionOnSet(l1_misses', R) - SumFunctionOnSet(l1_misses, R) <= Misses' - Misses
  BY <1>3, PartGrows DEF CountersGrow, Hits, Misses
<1>5. \A R \in SUBSET Stripes :
         /\ SumFunctionOnSet(l1_hits, R) \in Nat /\ SumFunctionOnSet(l1_hits', R) \in Nat
         /\ SumFunctionOnSet(l1_misses, R) \in Nat /\ SumFunctionOnSet(l1_misses', R) \in Nat
  BY <1>3, PartSums
<1>6. Hits \in Nat /\ Misses \in Nat /\ Hits' \in Nat /\ Misses' \in Nat
  BY <1>3, StripeSums DEF Hits, Misses
<1>7. l2_hits <= l2_hits'
  BY DEF CountersGrow
<1>8. /\ HitsToCome <= HitsToCome' /\ HitsToCome' - HitsToCome <= (Hits' + l2_hits') - (Hits + l2_hits)
      /\ HitsToCome \in Nat /\ HitsToCome' \in Nat
  <2> DEFINE R == HitsLeft
  <2>1. R' = R /\ R \in SUBSET Stripes
    BY <1>2
  <2>2. HitsToCome' = SumFunctionOnSet(l1_hits', R) + (IF L2Left THEN l2_hits' ELSE 0)
    BY <1>2, <2>1 DEF HitsToCome
  <2>3. HitsToCome = SumFunctionOnSet(l1_hits, R) + (IF L2Left THEN l2_hits ELSE 0)
    BY DEF HitsToCome
  <2> HIDE DEF R
  <2>4. /\ SumFunctionOnSet(l1_hits, R) <= SumFunctionOnSet(l1_hits', R)
        /\ SumFunctionOnSet(l1_hits', R) - SumFunctionOnSet(l1_hits, R) <= Hits' - Hits
        /\ SumFunctionOnSet(l1_hits, R) \in Nat /\ SumFunctionOnSet(l1_hits', R) \in Nat
    BY <1>4, <1>5, <2>1
  <2>5. CASE L2Left
    BY ONLY <1>3, <1>6, <1>7, <2>2, <2>3, <2>4, <2>5
  <2>6. CASE ~ L2Left
    BY ONLY <1>3, <1>6, <1>7, <2>2, <2>3, <2>4, <2>6
  <2> QED BY <2>5, <2>6
<1>9. /\ TotalToCome <= TotalToCome' /\ TotalToCome' - TotalToCome <= (Hits' + Misses') - (Hits + Misses)
      /\ TotalToCome \in Nat /\ TotalToCome' \in Nat
  <2> DEFINE R == TotalHitsLeft
             Q == TotalMissesLeft
  <2>1. R' = R /\ R \in SUBSET Stripes /\ Q' = Q /\ Q \in SUBSET Stripes
    BY <1>2
  <2>2. TotalToCome' = SumFunctionOnSet(l1_hits', R) + SumFunctionOnSet(l1_misses', Q)
    BY <2>1 DEF TotalToCome
  <2>3. TotalToCome = SumFunctionOnSet(l1_hits, R) + SumFunctionOnSet(l1_misses, Q)
    BY DEF TotalToCome
  <2> HIDE DEF R, Q
  <2>4. /\ SumFunctionOnSet(l1_hits, R) <= SumFunctionOnSet(l1_hits', R)
        /\ SumFunctionOnSet(l1_hits', R) - SumFunctionOnSet(l1_hits, R) <= Hits' - Hits
        /\ SumFunctionOnSet(l1_hits, R) \in Nat /\ SumFunctionOnSet(l1_hits', R) \in Nat
        /\ SumFunctionOnSet(l1_misses, Q) <= SumFunctionOnSet(l1_misses', Q)
        /\ SumFunctionOnSet(l1_misses', Q) - SumFunctionOnSet(l1_misses, Q) <= Misses' - Misses
        /\ SumFunctionOnSet(l1_misses, Q) \in Nat /\ SumFunctionOnSet(l1_misses', Q) \in Nat
    BY <1>4, <1>5, <2>1
  <2> QED BY ONLY <1>6, <2>2, <2>3, <2>4
<1>10. /\ monitor.total \in Nat /\ monitor.hits \in Nat
       /\ monitor.start.hits \in Nat /\ monitor.start.total \in Nat
  BY DEF MonitorTyped, MonitorRecord
<1>11. InBetween'
  <2>1. SUFFICES ASSUME monitor.plan # <<>> \/ monitor.total > 0
                 PROVE  /\ monitor.start.hits <= monitor.start.total
                        /\ monitor.start.hits <= monitor.hits + HitsToCome'
                        /\ monitor.hits + HitsToCome' <= Hits' + l2_hits'
                        /\ monitor.start.total <= monitor.total + TotalToCome'
                        /\ monitor.total + TotalToCome' <= Hits' + Misses'
    BY DEF InBetween
  <2>2. /\ monitor.start.hits <= monitor.start.total
        /\ monitor.start.hits <= monitor.hits + HitsToCome
        /\ monitor.hits + HitsToCome <= Hits + l2_hits
        /\ monitor.start.total <= monitor.total + TotalToCome
        /\ monitor.total + TotalToCome <= Hits + Misses
    BY <2>1 DEF InBetween
  <2>3. ASSUME NEW a \in Int, NEW b \in Int, NEW x \in Int, NEW y \in Int, NEW u \in Int, NEW v \in Int,
               a <= b + x, b + x <= u, x <= y, y - x <= v - u
        PROVE  a <= b + y /\ b + y <= v
    BY ONLY <2>3
  <2>4. Hits + l2_hits \in Int /\ Hits' + l2_hits' \in Int /\ Hits + Misses \in Int /\ Hits' + Misses' \in Int
    BY ONLY <1>3, <1>6
  <2>5. monitor.start.hits <= monitor.hits + HitsToCome' /\ monitor.hits + HitsToCome' <= Hits' + l2_hits'
    BY ONLY <1>8, <1>10, <2>2, <2>3, <2>4
  <2>6. monitor.start.total <= monitor.total + TotalToCome' /\ monitor.total + TotalToCome' <= Hits' + Misses'
    BY ONLY <1>9, <1>10, <2>2, <2>3, <2>4
  <2> QED BY ONLY <2>2, <2>5, <2>6
<1> QED BY <1>1, <1>11

LEMMA MonitorBeginStep ==
    ASSUME StatsTyped, MonitorTyped, NEW p \in Plans, MonitorBegin(p)
    PROVE  MonitorTyped' /\ InBetween'
<1>1. CountersTyped /\ Hits \in Nat /\ Misses \in Nat /\ l2_hits \in Nat /\ l2_misses \in Nat
  BY HitsMove DEF StatsTyped, CountersTyped
<1>2. l2_hits <= Misses
  <2>1. SumFunctionOnSet(OwnL2, Threads) \in Nat
    BY OwnTypes DEF StatsTyped
  <2>2. SumFunctionOnSet(OwnL2, Threads) + l2_hits + l2_misses = Misses
    BY DEF StatsTyped, Accounted
  <2> QED BY ONLY <1>1, <2>1, <2>2
<1>3. /\ ~ monitor.begun
      /\ monitor' = [monitor EXCEPT !.begun = TRUE, !.plan = p,
                                    !.start = [hits |-> Hits + l2_hits, total |-> Hits + Misses]]
      /\ l1_hits' = l1_hits /\ l1_misses' = l1_misses /\ l2_hits' = l2_hits
  BY DEF MonitorBegin, counterVars
<1>4. p \in Seq(Loads) /\ IsInjective(p) /\ Range(p) = Loads
  BY PlanFacts
<1>5. /\ monitor'.begun = TRUE /\ monitor'.plan = p /\ monitor'.total = monitor.total
      /\ monitor'.hits = monitor.hits
      /\ monitor'.start.hits = Hits + l2_hits /\ monitor'.start.total = Hits + Misses
      /\ monitor' \in MonitorRecord
  <2> DEFINE st == [hits |-> Hits + l2_hits, total |-> Hits + Misses]
  <2>1. st \in [hits : Nat, total : Nat] /\ st.hits = Hits + l2_hits /\ st.total = Hits + Misses
    BY <1>1
  <2>2. monitor' = [monitor EXCEPT !.begun = TRUE, !.plan = p, !.start = st]
    BY <1>3
  <2>3. monitor \in MonitorRecord
    BY DEF MonitorTyped
  <2> HIDE DEF st
  <2>4. /\ monitor' \in MonitorRecord /\ monitor'.begun = TRUE /\ monitor'.plan = p /\ monitor'.start = st
        /\ monitor'.total = monitor.total /\ monitor'.hits = monitor.hits
    <3>1. PICK P, S : P = Seq(Loads) /\ S = [hits : Nat, total : Nat]
      OBVIOUS
    <3>2. MonitorRecord = [begun : BOOLEAN, plan : P, total : Nat, hits : Nat, start : S]
      BY <3>1 DEF MonitorRecord
    <3>3. p \in P /\ st \in S
      BY <1>4, <2>1, <3>1
    <3> QED BY ONLY <2>2, <2>3, <3>2, <3>3
  <2> QED BY ONLY <2>1, <2>4
<1>6. MonitorTyped'
  BY <1>4, <1>5 DEF MonitorTyped
<1>7. \A s \in Stripes : /\ Load("hits", s, "hits") \in Loads /\ Load("hits", s, "total") \in Loads
                         /\ Load("misses", s, "total") \in Loads /\ Load("l2", 0, "hits") \in Loads
  BY DEF Loads, LoopLoads
<1>8. /\ HitsLeft' = Stripes /\ TotalHitsLeft' = Stripes /\ TotalMissesLeft' = Stripes /\ L2Left'
  <2>1. Load("l2", 0, "hits") \in Loads
    BY DEF Loads
  <2> QED BY <1>4, <1>5, <1>7, <2>1 DEF HitsLeft, TotalHitsLeft, TotalMissesLeft, L2Left
<1>9. HitsToCome' = Hits + l2_hits /\ TotalToCome' = Hits + Misses
  <2>1. Hits = SumFunctionOnSet(l1_hits, Stripes) /\ Misses = SumFunctionOnSet(l1_misses, Stripes)
    BY <1>1, StripeSums DEF CountersTyped, Hits, Misses
  <2> QED BY <1>3, <1>8, <2>1 DEF HitsToCome, TotalToCome
<1>10. monitor.total = 0 /\ monitor.hits = 0
  BY <1>3 DEF MonitorTyped
<1>11. Hits' = Hits /\ Misses' = Misses
  BY <1>3 DEF Hits, Misses
<1>12. InBetween'
  BY ONLY <1>1, <1>2, <1>3, <1>5, <1>9, <1>10, <1>11 DEF InBetween
<1> QED BY <1>6, <1>12

\* What is left after a load from the plan.
LEMMA LeftAfter ==
    ASSUME NEW load \in Range(monitor.plan), Range(monitor'.plan) = Range(monitor.plan) \ {load},
           NEW s \in Stripes
    PROVE  /\ load = Load("hits", s, "hits") =>
                 /\ s \in HitsLeft /\ HitsLeft' = HitsLeft \ {s} /\ TotalHitsLeft' = TotalHitsLeft
                 /\ TotalMissesLeft' = TotalMissesLeft /\ L2Left' = L2Left
           /\ load = Load("hits", s, "total") =>
                 /\ s \in TotalHitsLeft /\ TotalHitsLeft' = TotalHitsLeft \ {s} /\ HitsLeft' = HitsLeft
                 /\ TotalMissesLeft' = TotalMissesLeft /\ L2Left' = L2Left
           /\ load = Load("misses", s, "total") =>
                 /\ s \in TotalMissesLeft /\ TotalMissesLeft' = TotalMissesLeft \ {s}
                 /\ HitsLeft' = HitsLeft /\ TotalHitsLeft' = TotalHitsLeft /\ L2Left' = L2Left
           /\ load = Load("l2", 0, "hits") =>
                 /\ L2Left /\ ~ L2Left' /\ HitsLeft' = HitsLeft
                 /\ TotalHitsLeft' = TotalHitsLeft /\ TotalMissesLeft' = TotalMissesLeft
<1>1. \A c, d, i, j, x, y : Load(c, x, i) = Load(d, y, j) <=> c = d /\ x = y /\ i = j
  BY DEF Load
<1>2. /\ HitsLeft' = {x \in HitsLeft : Load("hits", x, "hits") # load}
      /\ TotalHitsLeft' = {x \in TotalHitsLeft : Load("hits", x, "total") # load}
      /\ TotalMissesLeft' = {x \in TotalMissesLeft : Load("misses", x, "total") # load}
      /\ L2Left' = (L2Left /\ Load("l2", 0, "hits") # load)
  BY DEF HitsLeft, TotalHitsLeft, TotalMissesLeft, L2Left
<1>3. CASE load = Load("hits", s, "hits")
  BY <1>1, <1>2, <1>3 DEF HitsLeft, L2Left
<1>4. CASE load = Load("hits", s, "total")
  BY <1>1, <1>2, <1>4 DEF TotalHitsLeft, L2Left
<1>5. CASE load = Load("misses", s, "total")
  BY <1>1, <1>2, <1>5 DEF TotalMissesLeft, L2Left
<1>6. CASE load = Load("l2", 0, "hits")
  BY <1>1, <1>2, <1>6 DEF L2Left
<1> QED BY <1>1, <1>3, <1>4, <1>5, <1>6

LEMMA MonitorLoadStep ==
    ASSUME CountersTyped, MonitorTyped, InBetween, MonitorLoad
    PROVE  MonitorTyped' /\ InBetween'
<1> DEFINE load == Head(monitor.plan)
<1>1. /\ monitor.plan # <<>>
      /\ monitor' = [monitor EXCEPT ![load.into] = @ + Value(load), !.plan = Tail(@)]
      /\ l1_hits' = l1_hits /\ l1_misses' = l1_misses /\ l2_hits' = l2_hits
  BY DEF MonitorLoad, counterVars
<1>2. /\ load \in Range(monitor.plan) /\ load \in Loads
      /\ Tail(monitor.plan) \in Seq(Loads) /\ IsInjective(Tail(monitor.plan))
      /\ Range(Tail(monitor.plan)) = Range(monitor.plan) \ {load}
  <2>1. monitor.plan \in Seq(Loads) /\ IsInjective(monitor.plan)
    BY DEF MonitorTyped, MonitorRecord
  <2> QED BY <1>1, <2>1, TailLoads
<1>3. /\ monitor.total \in Nat /\ monitor.hits \in Nat /\ monitor.begun \in BOOLEAN
      /\ monitor.start.hits \in Nat /\ monitor.start.total \in Nat
      /\ monitor.begun /\ monitor \in MonitorRecord
  BY <1>1 DEF MonitorTyped, MonitorRecord
<1>4. /\ l1_hits \in [Stripes -> Nat] /\ l1_misses \in [Stripes -> Nat] /\ l2_hits \in Nat
      /\ Hits' = Hits /\ Misses' = Misses /\ Hits \in Nat /\ Misses \in Nat
  BY <1>1, HitsMove DEF CountersTyped, Hits, Misses
<1>5. PICK n \in Nat : n = Value(load)
  <2>1. load.stripe \in Stripes \/ load.counter \notin {"hits", "misses"}
    BY <1>2 DEF Loads, LoopLoads, Load
  <2>2. Value(load) \in Nat
    BY <1>4, <2>1 DEF Value
  <2> QED BY <2>2
<1>6. load.into \in {"hits", "total"}
  BY <1>2 DEF Loads, LoopLoads, Load
<1> HIDE DEF load
<1>7. PICK P, S : P = Seq(Loads) /\ S = [hits : Nat, total : Nat]
  OBVIOUS
<1>8. MonitorRecord = [begun : BOOLEAN, plan : P, total : Nat, hits : Nat, start : S]
  BY <1>7 DEF MonitorRecord
<1>9. PICK q \in P : q = Tail(monitor.plan)
  BY <1>2, <1>7
<1>10. /\ monitor' \in MonitorRecord /\ monitor'.begun = monitor.begun /\ monitor'.plan = q
       /\ monitor'.start = monitor.start
       /\ load.into = "total" => monitor'.total = monitor.total + n /\ monitor'.hits = monitor.hits
       /\ load.into = "hits" => monitor'.total = monitor.total /\ monitor'.hits = monitor.hits + n
  <2>1. CASE load.into = "total"
    <3>1. PICK k \in Nat : k = monitor.total + n
      BY <1>3
    <3>2. monitor' = [monitor EXCEPT !.total = k, !.plan = q]
      BY <1>1, <1>5, <1>9, <2>1, <3>1
    <3>3. monitor \in [begun : BOOLEAN, plan : P, total : Nat, hits : Nat, start : S]
      BY ONLY <1>3, <1>8
    <3>4. /\ monitor' \in [begun : BOOLEAN, plan : P, total : Nat, hits : Nat, start : S]
          /\ monitor'.begun = monitor.begun /\ monitor'.plan = q /\ monitor'.start = monitor.start
          /\ monitor'.total = k /\ monitor'.hits = monitor.hits
      BY ONLY <3>2, <3>3, k \in Nat, q \in P
    <3> QED BY ONLY <1>8, <2>1, <3>1, <3>4
  <2>2. CASE load.into = "hits"
    <3>1. PICK k \in Nat : k = monitor.hits + n
      BY <1>3
    <3>2. monitor' = [monitor EXCEPT !.hits = k, !.plan = q]
      BY <1>1, <1>5, <1>9, <2>2, <3>1
    <3>3. monitor \in [begun : BOOLEAN, plan : P, total : Nat, hits : Nat, start : S]
      BY ONLY <1>3, <1>8
    <3>4. /\ monitor' \in [begun : BOOLEAN, plan : P, total : Nat, hits : Nat, start : S]
          /\ monitor'.begun = monitor.begun /\ monitor'.plan = q /\ monitor'.start = monitor.start
          /\ monitor'.hits = k /\ monitor'.total = monitor.total
      BY ONLY <3>2, <3>3, k \in Nat, q \in P
    <3> QED BY ONLY <1>8, <2>2, <3>1, <3>4
  <2> QED BY ONLY <1>6, <2>1, <2>2
<1>11. MonitorTyped'
  BY ONLY <1>2, <1>3, <1>9, <1>10 DEF MonitorTyped
<1>12. Range(monitor'.plan) = Range(monitor.plan) \ {load}
  BY ONLY <1>2, <1>9, <1>10
<1>13. HitsToCome \in Nat /\ TotalToCome \in Nat
  BY ToComeTypes
<1>a. /\ HitsLeft \in SUBSET Stripes /\ TotalHitsLeft \in SUBSET Stripes
      /\ TotalMissesLeft \in SUBSET Stripes
  BY DEF HitsLeft, TotalHitsLeft, TotalMissesLeft
<1>b. /\ SumFunctionOnSet(l1_hits, HitsLeft) \in Nat /\ SumFunctionOnSet(l1_hits, TotalHitsLeft) \in Nat
      /\ SumFunctionOnSet(l1_misses, TotalMissesLeft) \in Nat
  BY <1>4, <1>a, PartSums
<1>c. ASSUME NEW f \in [Stripes -> Nat], NEW R \in SUBSET Stripes, NEW s \in R
      PROVE  /\ SumFunctionOnSet(f, R) = f[s] + SumFunctionOnSet(f, R \ {s})
             /\ SumFunctionOnSet(f, R \ {s}) \in Nat /\ f[s] \in Nat
  BY PartSums
<1>14. ASSUME load.into = "total"
       PROVE  HitsToCome' = HitsToCome /\ TotalToCome = n + TotalToCome' /\ TotalToCome' \in Nat
  <2>1. PICK s \in Stripes : load = Load("hits", s, "total") \/ load = Load("misses", s, "total")
    BY <1>2, <1>14 DEF Loads, LoopLoads, Load
  <2>2. CASE load = Load("hits", s, "total")
    <3>1. n = l1_hits[s]
      BY <1>5, <2>2 DEF Value, Load
    <3>2. /\ s \in TotalHitsLeft /\ TotalHitsLeft' = TotalHitsLeft \ {s} /\ HitsLeft' = HitsLeft
          /\ TotalMissesLeft' = TotalMissesLeft /\ L2Left' = L2Left
      BY <1>2, <1>12, <2>2, LeftAfter
    <3>3. HitsToCome' = HitsToCome
      BY <1>1, <3>2 DEF HitsToCome
    <3>4. TotalToCome' = SumFunctionOnSet(l1_hits, TotalHitsLeft \ {s}) + SumFunctionOnSet(l1_misses, TotalMissesLeft)
      BY <1>1, <3>2 DEF TotalToCome
    <3>5. /\ SumFunctionOnSet(l1_hits, TotalHitsLeft) = n + SumFunctionOnSet(l1_hits, TotalHitsLeft \ {s})
          /\ SumFunctionOnSet(l1_hits, TotalHitsLeft \ {s}) \in Nat
      BY ONLY <1>4, <1>a, <1>c, <3>1, <3>2
    <3> QED BY ONLY <1>b, <3>3, <3>4, <3>5, n \in Nat DEF TotalToCome
  <2>3. CASE load = Load("misses", s, "total")
    <3>1. n = l1_misses[s]
      BY <1>5, <2>3 DEF Value, Load
    <3>2. /\ s \in TotalMissesLeft /\ TotalMissesLeft' = TotalMissesLeft \ {s}
          /\ HitsLeft' = HitsLeft /\ TotalHitsLeft' = TotalHitsLeft /\ L2Left' = L2Left
      BY <1>2, <1>12, <2>3, LeftAfter
    <3>3. HitsToCome' = HitsToCome
      BY <1>1, <3>2 DEF HitsToCome
    <3>4. TotalToCome' = SumFunctionOnSet(l1_hits, TotalHitsLeft) + SumFunctionOnSet(l1_misses, TotalMissesLeft \ {s})
      BY <1>1, <3>2 DEF TotalToCome
    <3>5. /\ SumFunctionOnSet(l1_misses, TotalMissesLeft) = n + SumFunctionOnSet(l1_misses, TotalMissesLeft \ {s})
          /\ SumFunctionOnSet(l1_misses, TotalMissesLeft \ {s}) \in Nat
      BY ONLY <1>4, <1>a, <1>c, <3>1, <3>2
    <3> QED BY ONLY <1>b, <3>3, <3>4, <3>5, n \in Nat DEF TotalToCome
  <2> QED BY <2>1, <2>2, <2>3
<1>15. ASSUME load.into = "hits"
       PROVE  HitsToCome = n + HitsToCome' /\ TotalToCome' = TotalToCome /\ HitsToCome' \in Nat
  <2>1. PICK s \in Stripes : load = Load("hits", s, "hits") \/ load = Load("l2", 0, "hits")
    <3>1. 0 \in Stripes
      BY StatsAssumption DEF Stripes
    <3> QED BY <1>2, <1>15, <3>1 DEF Loads, LoopLoads, Load
  <2>2. CASE load = Load("hits", s, "hits")
    <3>1. n = l1_hits[s]
      BY <1>5, <2>2 DEF Value, Load
    <3>2. /\ s \in HitsLeft /\ HitsLeft' = HitsLeft \ {s} /\ TotalHitsLeft' = TotalHitsLeft
          /\ TotalMissesLeft' = TotalMissesLeft /\ L2Left' = L2Left
      BY <1>2, <1>12, <2>2, LeftAfter
    <3>3. TotalToCome' = TotalToCome
      BY <1>1, <3>2 DEF TotalToCome
    <3>4. HitsToCome' = SumFunctionOnSet(l1_hits, HitsLeft \ {s}) + (IF L2Left THEN l2_hits ELSE 0)
      BY <1>1, <3>2 DEF HitsToCome
    <3>5. /\ SumFunctionOnSet(l1_hits, HitsLeft) = n + SumFunctionOnSet(l1_hits, HitsLeft \ {s})
          /\ SumFunctionOnSet(l1_hits, HitsLeft \ {s}) \in Nat
      BY ONLY <1>4, <1>a, <1>c, <3>1, <3>2
    <3> QED BY ONLY <1>4, <3>3, <3>4, <3>5, n \in Nat DEF HitsToCome
  <2>3. CASE load = Load("l2", 0, "hits")
    <3>1. n = l2_hits
      BY <1>5, <2>3 DEF Value, Load
    <3>2. /\ L2Left /\ ~ L2Left' /\ HitsLeft' = HitsLeft
          /\ TotalHitsLeft' = TotalHitsLeft /\ TotalMissesLeft' = TotalMissesLeft
      BY <1>2, <1>12, <2>3, LeftAfter
    <3>3. TotalToCome' = TotalToCome
      BY <1>1, <3>2 DEF TotalToCome
    <3>4. HitsToCome' = SumFunctionOnSet(l1_hits, HitsLeft) + 0
      BY <1>1, <3>2 DEF HitsToCome
    <3>5. HitsToCome = SumFunctionOnSet(l1_hits, HitsLeft) + n
      BY <3>1, <3>2 DEF HitsToCome
    <3> QED BY ONLY <1>b, <3>3, <3>4, <3>5, n \in Nat
  <2> QED BY <2>1, <2>2, <2>3
<1>16. /\ monitor'.start = monitor.start
       /\ monitor'.hits + HitsToCome' = monitor.hits + HitsToCome
       /\ monitor'.total + TotalToCome' = monitor.total + TotalToCome
  <2>1. CASE load.into = "total"
    BY ONLY <1>3, <1>10, <1>13, <1>14, <2>1, n \in Nat
  <2>2. CASE load.into = "hits"
    BY ONLY <1>3, <1>10, <1>13, <1>15, <2>2, n \in Nat
  <2> QED BY <1>6, <2>1, <2>2
<1>17. /\ monitor.start.hits <= monitor.start.total
       /\ monitor.start.hits <= monitor.hits + HitsToCome
       /\ monitor.hits + HitsToCome <= Hits + l2_hits
       /\ monitor.start.total <= monitor.total + TotalToCome
       /\ monitor.total + TotalToCome <= Hits + Misses
  BY <1>1 DEF InBetween
<1>18. InBetween'
  BY ONLY <1>1, <1>4, <1>16, <1>17 DEF InBetween
<1> QED BY <1>11, <1>18

LEMMA MonitorZeroStep ==
    ASSUME MonitorTyped, MonitorZero
    PROVE  MonitorTyped' /\ InBetween'
<1>1. monitor.total = 0 /\ monitor' = [monitor EXCEPT !.plan = <<>>] /\ monitor.plan # <<>>
  BY DEF MonitorZero
<1>2. PICK P, S : P = Seq(Loads) /\ S = [hits : Nat, total : Nat]
  OBVIOUS
<1>3. MonitorRecord = [begun : BOOLEAN, plan : P, total : Nat, hits : Nat, start : S]
  BY <1>2 DEF MonitorRecord
<1>4. PICK q \in P : q = <<>>
  <2>1. <<>> \in Seq(Loads)
    OBVIOUS
  <2> QED BY <1>2, <2>1
<1>5. monitor \in MonitorRecord /\ monitor.begun
  BY <1>1 DEF MonitorTyped, MonitorRecord
<1>6. monitor' \in MonitorRecord /\ monitor'.begun = monitor.begun /\ monitor'.plan = q /\ monitor'.total = monitor.total
  BY ONLY <1>1, <1>3, <1>4, <1>5
<1>7. IsInjective(<<>>)
  BY DEF IsInjective
<1> QED BY <1>1, <1>4, <1>5, <1>6, <1>7 DEF MonitorTyped, InBetween

LEMMA ThreadStepGrows ==
    ASSUME CountersTyped, NEW t \in Threads, NEW s \in Stripes,
           \/ GetL1Hit(t, s) \/ GetL1Miss(t, s) \/ GetL2Hit(t) \/ GetL2Miss(t)
           \/ GetBackendHit(t) \/ GetBackendMiss(t) \/ PutBackend(t) \/ PutL1(t)
    PROVE  CountersGrow /\ monitor' = monitor
<1>0. /\ \A x \in Stripes : l1_hits[x] \in Nat /\ l1_misses[x] \in Nat
      /\ l1_hits \in [Stripes -> Nat] /\ l1_misses \in [Stripes -> Nat] /\ l2_hits \in Nat
  BY DEF CountersTyped
<1>1. monitor' = monitor
  BY DEF GetL1Hit, GetL1Miss, GetL2Hit, GetL2Miss, GetBackendHit, GetBackendMiss, PutBackend, PutL1,
         Goto, Finish
<1>2. l1_hits' = l1_hits \/ l1_hits' = [l1_hits EXCEPT ![s] = @ + 1]
  BY DEF GetL1Hit, GetL1Miss, GetL2Hit, GetL2Miss, GetBackendHit, GetBackendMiss, PutBackend, PutL1,
         counterVars
<1>3. l1_misses' = l1_misses \/ l1_misses' = [l1_misses EXCEPT ![s] = @ + 1]
  BY DEF GetL1Hit, GetL1Miss, GetL2Hit, GetL2Miss, GetBackendHit, GetBackendMiss, PutBackend, PutL1,
         counterVars
<1>4. l2_hits' = l2_hits \/ l2_hits' = l2_hits + 1
  BY DEF GetL1Hit, GetL1Miss, GetL2Hit, GetL2Miss, GetBackendHit, GetBackendMiss, PutBackend, PutL1,
         counterVars
<1>5. \A x \in Stripes : l1_hits[x] <= l1_hits'[x]
  BY ONLY <1>0, <1>2
<1>6. \A x \in Stripes : l1_misses[x] <= l1_misses'[x]
  BY ONLY <1>0, <1>3
<1>7. l2_hits <= l2_hits'
  BY ONLY <1>0, <1>4
<1> QED BY <1>1, <1>5, <1>6, <1>7 DEF CountersGrow

RateInv == StatsTyped /\ MonitorTyped /\ InBetween

LEMMA RateInit == Init => RateInv
<1> SUFFICES ASSUME Init PROVE MonitorTyped /\ InBetween
  BY StatsTypedInit DEF RateInv
<1>1. monitor = NoMonitor
  BY DEF Init
<1>2. /\ NoMonitor.plan = <<>> /\ NoMonitor.total = 0 /\ NoMonitor.hits = 0
      /\ NoMonitor \in MonitorRecord
  <2>1. <<>> \in Seq(Loads) /\ [hits |-> 0, total |-> 0] \in [hits : Nat, total : Nat]
    OBVIOUS
  <2> QED BY <2>1 DEF NoMonitor, MonitorRecord
<1>3. IsInjective(<<>>)
  BY DEF IsInjective
<1> QED BY <1>1, <1>2, <1>3 DEF MonitorTyped, InBetween

LEMMA RateStep == RateInv /\ [Next]_vars => RateInv'
<1> SUFFICES ASSUME RateInv, [Next]_vars PROVE RateInv'
  OBVIOUS
<1>1. StatsTyped /\ StatsTyped' /\ CountersTyped /\ CountersTyped' /\ MonitorTyped /\ InBetween
  BY StatsTypedStep DEF RateInv, StatsTyped
<1>2. ASSUME CountersGrow, monitor' = monitor PROVE MonitorTyped' /\ InBetween'
  BY <1>1, <1>2, MonitorKept
<1>3. ASSUME NEW t \in Threads,
             \/ \E s \in Stripes : GetL1Hit(t, s) \/ GetL1Miss(t, s)
             \/ GetL2Hit(t) \/ GetL2Miss(t) \/ GetBackendHit(t) \/ GetBackendMiss(t)
             \/ PutBackend(t) \/ PutL1(t)
      PROVE  MonitorTyped' /\ InBetween'
  <2>1. 0 \in Stripes
    BY StatsAssumption DEF Stripes
  <2>2. CountersGrow /\ monitor' = monitor
    BY <1>1, <1>3, <2>1, ThreadStepGrows
  <2> QED BY <1>2, <2>2
<1>4. ASSUME l1_hits' = l1_hits, l1_misses' = l1_misses, l2_hits' = l2_hits PROVE CountersGrow
  <2>1. /\ \A x \in Stripes : l1_hits[x] \in Nat /\ l1_misses[x] \in Nat
        /\ l2_hits \in Nat
    BY <1>1 DEF CountersTyped
  <2> QED BY ONLY <1>4, <2>1 DEF CountersGrow
<1>5. ASSUME Join PROVE MonitorTyped' /\ InBetween'
  BY <1>2, <1>4, <1>5 DEF Join, counterVars
<1>6. ASSUME NEW p \in Plans, MonitorBegin(p) PROVE MonitorTyped' /\ InBetween'
  BY <1>1, <1>6, MonitorBeginStep
<1>7. ASSUME MonitorLoad PROVE MonitorTyped' /\ InBetween'
  BY <1>1, <1>7, MonitorLoadStep
<1>8. ASSUME MonitorZero PROVE MonitorTyped' /\ InBetween'
  BY <1>1, <1>8, MonitorZeroStep
<1>9. ASSUME UNCHANGED vars PROVE MonitorTyped' /\ InBetween'
  BY <1>2, <1>4, <1>9 DEF vars, counterVars
<1>10. MonitorTyped' /\ InBetween'
  BY <1>3, <1>5, <1>6, <1>7, <1>8, <1>9 DEF Next
<1> QED BY <1>1, <1>10 DEF RateInv

LEMMA RateImplies == RateInv => RateErrorBounded
<1> SUFFICES ASSUME RateInv, monitor.begun, monitor.plan = <<>>, monitor.total > 0
             PROVE  LET since == Hits + l2_hits - monitor.start.hits
                    IN /\ monitor.hits <= monitor.total + since
                       /\ monitor.hits >= monitor.start.hits /\ monitor.total >= monitor.start.total
                       /\ since = 0 /\ Hits + Misses = monitor.start.total =>
                              monitor.hits = Hits + l2_hits /\ monitor.total = Hits + Misses
  BY DEF RateErrorBounded
<1>1. Range(<<>>) = {}
  BY DEF Range
<1>2. HitsLeft = {} /\ TotalHitsLeft = {} /\ TotalMissesLeft = {} /\ ~ L2Left
  BY <1>1 DEF HitsLeft, TotalHitsLeft, TotalMissesLeft, L2Left
<1>3. HitsToCome = 0 /\ TotalToCome = 0
  BY <1>2, SumEmpty DEF HitsToCome, TotalToCome
<1>4. /\ monitor.total \in Nat /\ monitor.hits \in Nat
      /\ monitor.start.hits \in Nat /\ monitor.start.total \in Nat
  BY DEF RateInv, MonitorTyped, MonitorRecord
<1>5. Hits \in Nat /\ Misses \in Nat /\ l2_hits \in Nat
  BY HitsMove DEF RateInv, StatsTyped, CountersTyped
<1>6. /\ monitor.start.hits <= monitor.start.total
      /\ monitor.start.hits <= monitor.hits + HitsToCome
      /\ monitor.hits + HitsToCome <= Hits + l2_hits
      /\ monitor.start.total <= monitor.total + TotalToCome
      /\ monitor.total + TotalToCome <= Hits + Misses
  BY DEF RateInv, InBetween
<1>7. ASSUME NEW h \in Nat, NEW t \in Nat, NEW a \in Nat, NEW b \in Nat, NEW c \in Nat, NEW m \in Nat, NEW l \in Nat,
             a <= b, a <= h + 0, h + 0 <= c + l, b <= t + 0, t + 0 <= c + m
      PROVE  /\ h <= t + (c + l - a) /\ h >= a /\ t >= b
             /\ c + l - a = 0 /\ c + m = b => h = c + l /\ t = c + m
  BY ONLY <1>7
<1>8. PICK h \in Nat, t \in Nat, a \in Nat, b \in Nat, c \in Nat, m \in Nat, l \in Nat :
             /\ h = monitor.hits /\ t = monitor.total /\ a = monitor.start.hits /\ b = monitor.start.total
             /\ c = Hits /\ m = Misses /\ l = l2_hits
  BY <1>4, <1>5
<1>9. a <= b /\ a <= h + 0 /\ h + 0 <= c + l /\ b <= t + 0 /\ t + 0 <= c + m
  BY ONLY <1>3, <1>6, <1>8
<1>10. /\ h <= t + (c + l - a) /\ h >= a /\ t >= b
       /\ c + l - a = 0 /\ c + m = b => h = c + l /\ t = c + m
  BY ONLY <1>7, <1>9
<1> QED BY ONLY <1>8, <1>10

\* A hit rate computed while the counters change is off by no more than what was
\* counted meanwhile (CacheEngine::overall_hit_rate, StripedCache::total_hits).
THEOREM StatsRateErrorBounded == Spec => []RateErrorBounded
<1>1. Spec => []RateInv
  BY RateInit, RateStep, PTL DEF Spec
<1> QED BY <1>1, RateImplies, PTL

-----------------------------------------------------------------------------
(* LatencyHistogram: the edges of the buckets *)

IsEdges(n, f) == f[0] = Edge /\ \A b \in 0 .. n : b > 0 => f[b] = 2 * f[b - 1]

\* The recursive function of the thresholds exists.
LEMMA EdgesExist == \A n \in Nat : \E f : IsEdges(n, f)
<1> DEFINE G == {n \in Nat : \E f : IsEdges(n, f)}
<1>1. 0 \in G
  <2> DEFINE f == [b \in Nat |-> Edge]
  <2>1. IsEdges(0, f)
    BY DEF IsEdges
  <2> QED BY <2>1
<1>2. ASSUME NEW n \in Nat, n \in G PROVE n + 1 \in G
  <2>1. PICK f : IsEdges(n, f)
    BY <1>2
  <2> DEFINE g == [b \in Nat |-> IF b = n + 1 THEN 2 * f[n] ELSE f[b]]
  <2>2. g[0] = Edge
    BY <2>1 DEF IsEdges
  <2>3. ASSUME NEW b \in 0 .. n + 1, b > 0 PROVE g[b] = 2 * g[b - 1]
    <3>1. CASE b = n + 1
      BY <3>1
    <3>2. CASE b # n + 1
      BY <2>1, <2>3, <3>2 DEF IsEdges
    <3> QED BY <3>1, <3>2
  <2>4. IsEdges(n + 1, g)
    BY <2>2, <2>3 DEF IsEdges
  <2> QED BY <2>4
<1>3. Nat \subseteq G
  <2> HIDE DEF G
  <2> QED BY <1>1, <1>2, NatGrow
<1> QED BY <1>3

LEMMA EdgeRecursion ==
    /\ UpperEdge[0] = Edge
    /\ \A b \in Buckets : b > 0 => UpperEdge[b] = 2 * UpperEdge[b - 1]
<1> DEFINE IsEdge(f) == f = [b \in Buckets |-> IF b = 0 THEN Edge ELSE 2 * f[b - 1]]
<1>1. PICK f : IsEdges(NumBuckets - 1, f)
  BY EdgesExist, HistogramAssumption
<1>2. IsEdge([b \in Buckets |-> f[b]])
  <2> DEFINE g == [b \in Buckets |-> f[b]]
  <2>1. ASSUME NEW b \in Buckets PROVE g[b] = IF b = 0 THEN Edge ELSE 2 * g[b - 1]
    <3>1. CASE b = 0
      BY <1>1, <3>1 DEF IsEdges
    <3>2. CASE b # 0
      <4>1. b - 1 \in Buckets /\ b \in 0 .. NumBuckets - 1 /\ b > 0
        BY <3>2, HistogramAssumption DEF Buckets
      <4>2. f[b] = 2 * f[b - 1]
        BY <1>1, <4>1 DEF IsEdges
      <4> QED BY <3>2, <4>1, <4>2
    <3> QED BY <3>1, <3>2
  <2>2. g = [b \in Buckets |-> IF b = 0 THEN Edge ELSE 2 * g[b - 1]]
    BY <2>1
  <2> QED BY <2>2
<1>3. IsEdge(UpperEdge)
  <2>1. UpperEdge = CHOOSE g : IsEdge(g)
    BY Zenon DEF UpperEdge
  <2> HIDE DEF IsEdge
  <2> QED BY <1>2, <2>1
<1>4. 0 \in Buckets
  BY HistogramAssumption DEF Buckets
<1>5. PICK u : u = UpperEdge /\ IsEdge(u)
  BY <1>3
<1>6. u[0] = Edge /\ \A b \in Buckets : b # 0 => u[b] = 2 * u[b - 1]
  BY <1>4, <1>5
<1>7. \A b \in Buckets : b > 0 => b # 0
  BY HistogramAssumption DEF Buckets
<1> QED BY ONLY <1>5, <1>6, <1>7

LEMMA EdgesPositive == \A b \in Buckets : UpperEdge[b] \in Nat /\ UpperEdge[b] > 0
<1> DEFINE G == {n \in Nat : n \in Buckets => UpperEdge[n] \in Nat /\ UpperEdge[n] > 0}
<1>1. 0 \in G
  BY EdgeRecursion, HistogramAssumption
<1>2. ASSUME NEW n \in Nat, n \in G PROVE n + 1 \in G
  <2> SUFFICES ASSUME n + 1 \in Buckets PROVE UpperEdge[n + 1] \in Nat /\ UpperEdge[n + 1] > 0
    OBVIOUS
  <2>1. n \in Buckets /\ n + 1 > 0 /\ (n + 1) - 1 = n
    BY HistogramAssumption DEF Buckets
  <2>2. UpperEdge[n + 1] = 2 * UpperEdge[n]
    BY <2>1, EdgeRecursion
  <2> QED BY <1>2, <2>1, <2>2
<1>3. Nat \subseteq G
  <2> HIDE DEF G
  <2> QED BY <1>1, <1>2, NatGrow
<1>4. \A b \in Buckets : b \in Nat
  BY HistogramAssumption DEF Buckets
<1> QED BY <1>3, <1>4

\* The edges grow.
LEMMA EdgesGrow == \A a, b \in Buckets : a < b => 2 * UpperEdge[a] <= UpperEdge[b]
<1> DEFINE G == {n \in Nat : n \in Buckets =>
                    \A a \in Buckets : a < n => 2 * UpperEdge[a] <= UpperEdge[n]}
<1>1. 0 \in G
  BY HistogramAssumption DEF Buckets
<1>2. ASSUME NEW n \in Nat, n \in G PROVE n + 1 \in G
  <2> SUFFICES ASSUME n + 1 \in Buckets, NEW a \in Buckets, a < n + 1
               PROVE  2 * UpperEdge[a] <= UpperEdge[n + 1]
    OBVIOUS
  <2>1. n \in Buckets /\ n + 1 > 0 /\ (n + 1) - 1 = n /\ a \in Nat
    BY HistogramAssumption DEF Buckets
  <2>2. UpperEdge[n + 1] = 2 * UpperEdge[n]
    BY <2>1, EdgeRecursion
  <2>3. UpperEdge[n] \in Nat /\ UpperEdge[a] \in Nat
    BY <2>1, EdgesPositive
  <2>4. CASE a = n
    BY ONLY <2>2, <2>3, <2>4
  <2>5. CASE a < n
    <3>1. 2 * UpperEdge[a] <= UpperEdge[n]
      BY <1>2, <2>1, <2>5
    <3> QED BY ONLY <2>2, <2>3, <3>1
  <2> QED BY <2>1, <2>4, <2>5
<1>3. Nat \subseteq G
  <2> HIDE DEF G
  <2> QED BY <1>1, <1>2, NatGrow
<1>4. \A b \in Buckets : b \in Nat
  BY HistogramAssumption DEF Buckets
<1> QED BY <1>3, <1>4

\* The bucket of a duration is the one whose range holds it.
LEMMA BucketOfDuration ==
    ASSUME NEW ns \in Nat
    PROVE  /\ Bucket(ns) \in Buckets
           /\ \A k \in Buckets : Bucket(ns) = k <=> ns \in BucketRange(k)
<1> DEFINE S == {b \in Buckets : b = NumBuckets - 1 \/ ns < UpperEdge[b]}
<1>1. S \subseteq Nat /\ NumBuckets - 1 \in S /\ S # {}
  BY HistogramAssumption DEF Buckets
<1>2. Min(S) \in S /\ \A x \in S : Min(S) <= x
  <2> HIDE DEF S
  <2> QED BY <1>1, MinFacts
<1>3. PICK m \in Buckets : m = Bucket(ns) /\ m \in S /\ \A x \in S : m <= x
  BY <1>2 DEF Bucket
<1>4. ASSUME NEW k \in Buckets, m = k PROVE ns \in BucketRange(k)
  <2>1. k < NumBuckets - 1 => ns < UpperEdge[k]
    BY <1>3, <1>4 DEF Buckets
  <2>2. ASSUME k > 0 PROVE UpperEdge[k - 1] <= ns
    <3>1. k - 1 \in Buckets /\ ~ k <= k - 1
      BY <2>2, HistogramAssumption DEF Buckets
    <3>2. k - 1 \notin S
      BY <1>3, <1>4, <3>1
    <3>3. ~ ns < UpperEdge[k - 1] /\ UpperEdge[k - 1] \in Nat
      BY <3>1, <3>2, EdgesPositive
    <3> QED BY ONLY <3>3, ns \in Nat
  <2> QED BY <2>1, <2>2 DEF BucketRange
<1>5. ASSUME NEW k \in Buckets, ns \in BucketRange(k) PROVE m = k
  <2>1. (k > 0 => UpperEdge[k - 1] <= ns) /\ (k < NumBuckets - 1 => ns < UpperEdge[k])
    BY <1>5 DEF BucketRange
  <2>2. k \in Nat /\ m \in Nat /\ k <= NumBuckets - 1 /\ NumBuckets \in Nat
    BY HistogramAssumption DEF Buckets
  <2>3. k \in S
    BY <2>1, <2>2
  <2>4. m <= k
    BY <1>3, <2>3
  <2>5. ASSUME m < k PROVE FALSE
    <3>1. k - 1 \in Buckets /\ k > 0 /\ (m = k - 1 \/ m < k - 1) /\ m # NumBuckets - 1
      BY <2>2, <2>5 DEF Buckets
    <3>2. UpperEdge[k - 1] \in Nat /\ UpperEdge[m] \in Nat /\ UpperEdge[k - 1] <= ns /\ ns < UpperEdge[m]
      BY <1>3, <2>1, <3>1, EdgesPositive
    <3>3. CASE m = k - 1
      BY ONLY <3>2, <3>3, ns \in Nat
    <3>4. CASE m < k - 1
      <4>1. 2 * UpperEdge[m] <= UpperEdge[k - 1]
        BY <3>1, <3>4, EdgesGrow
      <4> QED BY ONLY <3>2, <4>1, ns \in Nat
    <3> QED BY <3>1, <3>3, <3>4
  <2> QED BY <2>2, <2>4, <2>5
<1> QED BY <1>3, <1>4, <1>5

-----------------------------------------------------------------------------
(* EngineStats: the samples and the trackers *)

\* A bag of breakdowns.
IsBreakdownBag(bag) ==
    /\ IsFiniteSet(DOMAIN bag) /\ DOMAIN bag \subseteq Breakdown
    /\ \A x \in DOMAIN bag : bag[x] \in Nat /\ bag[x] > 0

LEMMA BagInsert ==
    ASSUME NEW bag, IsBreakdownBag(bag), NEW b \in Breakdown, NEW new, new = bag (+) SetToBag({b})
    PROVE  /\ IsBreakdownBag(new) /\ DOMAIN new = DOMAIN bag \cup {b}
           /\ new[b] = (IF b \in DOMAIN bag THEN bag[b] ELSE 0) + 1
           /\ \A x \in DOMAIN bag \ {b} : new[x] = bag[x]
<1>1. /\ DOMAIN new = DOMAIN bag \cup {b}
      /\ \A x \in DOMAIN bag \cup {b} :
            new[x] = (IF x \in DOMAIN bag THEN bag[x] ELSE 0) + (IF x = b THEN 1 ELSE 0)
  BY DEF (+), SetToBag
<1>2. IsFiniteSet(DOMAIN new)
  BY <1>1, FS_AddElement DEF IsBreakdownBag
<1>3. \A x \in DOMAIN bag : bag[x] \in Nat /\ bag[x] > 0
  BY DEF IsBreakdownBag
<1>4. new[b] = (IF b \in DOMAIN bag THEN bag[b] ELSE 0) + 1
  BY <1>1
<1>5. \A x \in DOMAIN bag \ {b} : new[x] = bag[x]
  BY ONLY <1>1, <1>3
<1>6. \A x \in DOMAIN new : new[x] \in Nat /\ new[x] > 0
  BY ONLY <1>1, <1>3, <1>4, <1>5
<1>7. DOMAIN new \subseteq Breakdown
  BY <1>1 DEF IsBreakdownBag
<1> QED BY <1>1, <1>2, <1>4, <1>5, <1>6, <1>7 DEF IsBreakdownBag

\* A sum over the part of a growing domain that lies in P, when one value grows.
LEMMA SumInsert ==
    ASSUME NEW f, NEW g, NEW D, IsFiniteSet(D), NEW b, NEW P, NEW d \in Int,
           \A x \in D : f[x] \in Int, \A x \in D \ {b} : g[x] = f[x],
           g[b] = (IF b \in D THEN f[b] ELSE 0) + d
    PROVE  SumFunctionOnSet(g, (D \cup {b}) \cap P) =
               SumFunctionOnSet(f, D \cap P) + (IF b \in P THEN d ELSE 0)
<1> DEFINE S == D \cap P
           N == (D \cup {b}) \cap P
<1>1. IsFiniteSet(S) /\ S \subseteq D
  BY FS_Subset
<1>2. \A x \in S : f[x] \in Int
  OBVIOUS
<1>3. SumFunctionOnSet(f, S) \in Int
  BY <1>1, <1>2, SumSplit
<1>4. CASE b \notin P
  <2>1. N = S /\ \A x \in S : f[x] = g[x]
    BY <1>4
  <2>2. SumFunctionOnSet(g, S) = SumFunctionOnSet(f, S)
    BY <1>1, <2>1, SumSame
  <2> QED BY <1>3, <1>4, <2>1, <2>2
<1>5. CASE b \in P /\ b \in D
  <2>1. N = S /\ b \in S /\ g[b] = f[b] + d /\ \A x \in S \ {b} : g[x] = f[x]
    BY <1>5
  <2>2. SumFunctionOnSet(g, S) = SumFunctionOnSet(f, S) + d
    <3> HIDE DEF S
    <3> QED BY <1>1, <1>2, <2>1, SumBump
  <2> QED BY <1>5, <2>1, <2>2
<1>6. CASE b \in P /\ b \notin D
  <2>1. N = S \cup {b} /\ b \notin S /\ g[b] = 0 + d /\ \A x \in S : f[x] = g[x]
    BY <1>6
  <2>2. N \ {b} = S /\ b \in N
    BY <2>1
  <2>3. IsFiniteSet(N)
    BY <1>1, <2>1, FS_AddElement
  <2>4. \A x \in N : g[x] \in Int
    BY <1>2, <2>1
  <2>5. SumFunctionOnSet(g, N) = g[b] + SumFunctionOnSet(g, S)
    <3> HIDE DEF N, S
    <3> QED BY <2>2, <2>3, <2>4, SumSplit
  <2>6. SumFunctionOnSet(g, S) = SumFunctionOnSet(f, S)
    BY <1>1, <2>1, SumSame
  <2> QED BY <1>3, <1>6, <2>1, <2>5, <2>6
<1> QED BY <1>4, <1>5, <1>6

\* The breakdowns that put a duration of the set D into h.
Putting(h, D) == {x \in Breakdown : Records(x, h) /\ Duration(x, h) \in D}

\* How many of the bag do, and how long those took together.
In(bag, h, D) == SumFunctionOnSet(bag, DOMAIN bag \cap Putting(h, D))
Ns(bag, h) == SumFunctionOnSet([x \in DOMAIN bag |-> bag[x] * Duration(x, h)], DOMAIN bag \cap Putting(h, Nat))

LEMMA InInsert ==
    ASSUME NEW bag, IsBreakdownBag(bag), NEW b \in Breakdown, NEW new, new = bag (+) SetToBag({b}),
           NEW h, NEW D
    PROVE  /\ In(new, h, D) = In(bag, h, D) + (IF b \in Putting(h, D) THEN 1 ELSE 0)
           /\ Ns(new, h) = Ns(bag, h) + (IF Records(b, h) THEN Duration(b, h) ELSE 0)
<1>1. /\ IsBreakdownBag(new) /\ DOMAIN new = DOMAIN bag \cup {b}
      /\ new[b] = (IF b \in DOMAIN bag THEN bag[b] ELSE 0) + 1
      /\ \A x \in DOMAIN bag \ {b} : new[x] = bag[x]
  BY BagInsert
<1>2. IsFiniteSet(DOMAIN bag) /\ (\A x \in DOMAIN bag : bag[x] \in Nat) /\ DOMAIN bag \subseteq Breakdown
  BY DEF IsBreakdownBag
<1>3. In(new, h, D) = In(bag, h, D) + (IF b \in Putting(h, D) THEN 1 ELSE 0)
  <2>1. \A x \in DOMAIN bag : bag[x] \in Int
    BY <1>2
  <2> QED BY ONLY <1>1, <1>2, <2>1, 1 \in Int, SumInsert DEF In
<1>4. \A x \in Breakdown : Duration(x, h) \in Nat
  BY DurationType
<1> DEFINE f == [x \in DOMAIN bag |-> bag[x] * Duration(x, h)]
           g == [x \in DOMAIN new |-> new[x] * Duration(x, h)]
<1>5. \A x \in DOMAIN bag : f[x] \in Int
  BY <1>2, <1>4
<1>6. \A x \in DOMAIN bag \ {b} : g[x] = f[x]
  BY <1>1
<1>7. g[b] = (IF b \in DOMAIN bag THEN f[b] ELSE 0) + Duration(b, h)
  <2>1. g[b] = new[b] * Duration(b, h) /\ (b \in DOMAIN bag => f[b] = bag[b] * Duration(b, h))
    BY <1>1
  <2>2. \A n, d \in Nat : (n + 1) * d = n * d + d
    OBVIOUS
  <2>3. PICK d \in Nat : d = Duration(b, h)
    BY <1>4
  <2>4. CASE b \in DOMAIN bag
    BY ONLY <1>1, <1>2, <2>1, <2>2, <2>3, <2>4
  <2>5. CASE b \notin DOMAIN bag
    BY ONLY <1>1, <2>1, <2>3, <2>5
  <2> QED BY <2>4, <2>5
<1>8. Duration(b, h) \in Int
  BY <1>4
<1>9. SumFunctionOnSet(g, (DOMAIN bag \cup {b}) \cap Putting(h, Nat)) =
          SumFunctionOnSet(f, DOMAIN bag \cap Putting(h, Nat)) +
              (IF b \in Putting(h, Nat) THEN Duration(b, h) ELSE 0)
  <2> HIDE DEF f, g
  <2> QED BY ONLY <1>2, <1>5, <1>6, <1>7, <1>8, SumInsert
<1>10. b \in Putting(h, Nat) <=> Records(b, h)
  BY <1>4 DEF Putting
<1>11. Ns(new, h) = Ns(bag, h) + (IF Records(b, h) THEN Duration(b, h) ELSE 0)
  BY ONLY <1>1, <1>9, <1>10 DEF Ns
<1> QED BY <1>3, <1>11

\* The trackers' own values for a histogram.
OwnCount(tr, h) == [t \in Threads |-> tr[t][h].total_count]
OwnSum(tr, h) == [t \in Threads |-> tr[t][h].total_sum]
OwnBucket(tr, h, k) == [t \in Threads |-> tr[t][h].counts[k]]

Trackers == [Threads -> [Histograms -> Histogram]]

\* The trackers of the threads together hold what the bag holds.
Ledger(tr, bag) ==
    \A h \in Histograms :
        /\ SumFunctionOnSet(OwnCount(tr, h), Threads) = In(bag, h, Nat)
        /\ SumFunctionOnSet(OwnSum(tr, h), Threads) = Ns(bag, h)
        /\ \A k \in Buckets : SumFunctionOnSet(OwnBucket(tr, h, k), Threads) = In(bag, h, BucketRange(k))

LEMMA RecordedHistogram ==
    ASSUME NEW own \in [Histograms -> Histogram], NEW b \in Breakdown, NEW h \in Histograms,
           NEW new, new = RecordBreakdown(own, b)
    PROVE  /\ new[h].total_count = own[h].total_count + (IF b \in Putting(h, Nat) THEN 1 ELSE 0)
           /\ new[h].total_sum = own[h].total_sum + (IF Records(b, h) THEN Duration(b, h) ELSE 0)
           /\ \A k \in Buckets : new[h].counts[k] =
                 own[h].counts[k] + (IF b \in Putting(h, BucketRange(k)) THEN 1 ELSE 0)
<1>1. new[h] = IF Records(b, h) THEN Record(own[h], Duration(b, h)) ELSE own[h]
  BY DEF RecordBreakdown
<1>2. PICK ns \in Nat : ns = Duration(b, h)
  BY DurationType
<1>3. /\ Bucket(ns) \in Buckets
      /\ \A k \in Buckets : Bucket(ns) = k <=> ns \in BucketRange(k)
  BY BucketOfDuration
<1>4. /\ b \in Putting(h, Nat) <=> Records(b, h)
      /\ \A k \in Buckets : b \in Putting(h, BucketRange(k)) <=> Records(b, h) /\ Bucket(ns) = k
  BY <1>2, <1>3 DEF Putting
<1>5. PICK o \in Histogram : o = own[h]
  OBVIOUS
<1>6. o.counts \in [Buckets -> Nat] /\ o.total_count \in Nat /\ o.total_sum \in Nat
  BY DEF Histogram
<1>7. CASE Records(b, h)
  <2>1. new[h] = Record(o, ns)
    BY <1>1, <1>2, <1>5, <1>7
  <2>2. /\ new[h].total_count = o.total_count + 1 /\ new[h].total_sum = o.total_sum + ns
        /\ new[h].counts = [o.counts EXCEPT ![Bucket(ns)] = @ + 1]
    BY <2>1 DEF Record
  <2>3. \A k \in Buckets : new[h].counts[k] = o.counts[k] + (IF Bucket(ns) = k THEN 1 ELSE 0)
    BY ONLY <1>3, <1>6, <2>2
  <2> QED BY ONLY <1>2, <1>4, <1>5, <1>7, <2>2, <2>3
<1>8. CASE ~ Records(b, h)
  BY ONLY <1>1, <1>4, <1>5, <1>6, <1>8
<1> QED BY <1>7, <1>8

\* Recording a breakdown in one tracker and in the bag keeps the ledger.
LEMMA LedgerInsert ==
    ASSUME NEW tr \in Trackers, NEW bag, IsBreakdownBag(bag), Ledger(tr, bag),
           NEW t \in Threads, NEW b \in Breakdown,
           NEW trnew, trnew = [tr EXCEPT ![t] = RecordBreakdown(@, b)],
           NEW new, new = bag (+) SetToBag({b})
    PROVE  IsBreakdownBag(new) /\ Ledger(trnew, new)
<1>1. IsBreakdownBag(new) /\ IsFiniteSet(Threads)
  BY BagInsert, StatsAssumption
<1>2. PICK own : own = RecordBreakdown(tr[t], b)
  OBVIOUS
<1>3. tr[t] \in [Histograms -> Histogram] /\ \A u \in Threads : tr[u] \in [Histograms -> Histogram]
  BY DEF Trackers
<1>4. trnew[t] = own /\ \A u \in Threads \ {t} : trnew[u] = tr[u]
  BY ONLY <1>2, trnew = [tr EXCEPT ![t] = RecordBreakdown(@, b)], tr \in Trackers, t \in Threads DEF Trackers
<1>5. ASSUME NEW h \in Histograms
      PROVE  /\ SumFunctionOnSet(OwnCount(trnew, h), Threads) = In(new, h, Nat)
             /\ SumFunctionOnSet(OwnSum(trnew, h), Threads) = Ns(new, h)
             /\ \A k \in Buckets : SumFunctionOnSet(OwnBucket(trnew, h, k), Threads) = In(new, h, BucketRange(k))
  <2>1. /\ own[h].total_count = tr[t][h].total_count + (IF b \in Putting(h, Nat) THEN 1 ELSE 0)
        /\ own[h].total_sum = tr[t][h].total_sum + (IF Records(b, h) THEN Duration(b, h) ELSE 0)
        /\ \A k \in Buckets : own[h].counts[k] =
              tr[t][h].counts[k] + (IF b \in Putting(h, BucketRange(k)) THEN 1 ELSE 0)
    BY <1>2, <1>3, RecordedHistogram
  <2>2. \A u \in Threads : /\ tr[u][h].total_count \in Int /\ tr[u][h].total_sum \in Int
                           /\ \A k \in Buckets : tr[u][h].counts[k] \in Int
    <3>1. ASSUME NEW u \in Threads
          PROVE  /\ tr[u][h].total_count \in Int /\ tr[u][h].total_sum \in Int
                 /\ \A k \in Buckets : tr[u][h].counts[k] \in Int
      <4>1. tr[u][h] \in Histogram
        BY <1>3
      <4> QED BY <4>1 DEF Histogram
    <3> QED BY <3>1
  <2>3. /\ SumFunctionOnSet(OwnCount(tr, h), Threads) = In(bag, h, Nat)
        /\ SumFunctionOnSet(OwnSum(tr, h), Threads) = Ns(bag, h)
        /\ \A k \in Buckets : SumFunctionOnSet(OwnBucket(tr, h, k), Threads) = In(bag, h, BucketRange(k))
    BY DEF Ledger
  <2>4. SumFunctionOnSet(OwnCount(trnew, h), Threads) = In(new, h, Nat)
    <3>1. PICK d \in Int : d = IF b \in Putting(h, Nat) THEN 1 ELSE 0
      OBVIOUS
    <3>2. /\ \A u \in Threads : OwnCount(tr, h)[u] \in Int
          /\ OwnCount(trnew, h)[t] = OwnCount(tr, h)[t] + d
          /\ \A u \in Threads \ {t} : OwnCount(trnew, h)[u] = OwnCount(tr, h)[u]
      BY <1>4, <2>1, <2>2, <3>1 DEF OwnCount
    <3>3. SumFunctionOnSet(OwnCount(trnew, h), Threads) = SumFunctionOnSet(OwnCount(tr, h), Threads) + d
      BY ONLY <1>1, <3>2, SumBump, t \in Threads, d \in Int
    <3>4. In(new, h, Nat) = In(bag, h, Nat) + d
      BY <3>1, InInsert
    <3> QED BY ONLY <2>3, <3>3, <3>4
  <2>5. SumFunctionOnSet(OwnSum(trnew, h), Threads) = Ns(new, h)
    <3>1. PICK d \in Int : d = IF Records(b, h) THEN Duration(b, h) ELSE 0
      BY DurationType
    <3>2. /\ \A u \in Threads : OwnSum(tr, h)[u] \in Int
          /\ OwnSum(trnew, h)[t] = OwnSum(tr, h)[t] + d
          /\ \A u \in Threads \ {t} : OwnSum(trnew, h)[u] = OwnSum(tr, h)[u]
      BY <1>4, <2>1, <2>2, <3>1 DEF OwnSum
    <3>3. SumFunctionOnSet(OwnSum(trnew, h), Threads) = SumFunctionOnSet(OwnSum(tr, h), Threads) + d
      BY ONLY <1>1, <3>2, SumBump, t \in Threads, d \in Int
    <3>4. Ns(new, h) = Ns(bag, h) + d
      BY <3>1, InInsert
    <3> QED BY ONLY <2>3, <3>3, <3>4
  <2>6. ASSUME NEW k \in Buckets
        PROVE  SumFunctionOnSet(OwnBucket(trnew, h, k), Threads) = In(new, h, BucketRange(k))
    <3>1. PICK d \in Int : d = IF b \in Putting(h, BucketRange(k)) THEN 1 ELSE 0
      OBVIOUS
    <3>2. /\ \A u \in Threads : OwnBucket(tr, h, k)[u] \in Int
          /\ OwnBucket(trnew, h, k)[t] = OwnBucket(tr, h, k)[t] + d
          /\ \A u \in Threads \ {t} : OwnBucket(trnew, h, k)[u] = OwnBucket(tr, h, k)[u]
      BY <1>4, <2>1, <2>2, <3>1 DEF OwnBucket
    <3>3. SumFunctionOnSet(OwnBucket(trnew, h, k), Threads) = SumFunctionOnSet(OwnBucket(tr, h, k), Threads) + d
      BY ONLY <1>1, <3>2, SumBump, t \in Threads, d \in Int
    <3>4. In(new, h, BucketRange(k)) = In(bag, h, BucketRange(k)) + d
      BY <3>1, InInsert
    <3> QED BY ONLY <2>3, <3>3, <3>4
  <2> QED BY <2>4, <2>5, <2>6
<1> QED BY <1>1, <1>5 DEF Ledger

-----------------------------------------------------------------------------
(* EngineStats: merging the trackers *)

\* The trackers of the threads of s added up, field by field.
Added(tr, s) ==
    [h \in Histograms |->
        [counts |-> [k \in Buckets |-> SumFunctionOnSet(OwnBucket(tr, h, k), s)],
         total_count |-> SumFunctionOnSet(OwnCount(tr, h), s),
         total_sum |-> SumFunctionOnSet(OwnSum(tr, h), s)]]

MergeStep(tr, it, s) == IF s = {} THEN EmptyTracker ELSE MergeTrackers(it[Rest(s)], tr[First(s)])

IsMerging(tr, it) == it = [s \in SUBSET Threads |-> MergeStep(tr, it, s)]

LEMMA AddedEmpty ==
    ASSUME NEW tr
    PROVE  Added(tr, {}) = EmptyTracker
<1>1. \A f : SumFunctionOnSet(f, {}) = 0
  BY SumEmpty
<1> QED BY <1>1 DEF Added, EmptyTracker, EmptyHistogram

LEMMA AddedStep ==
    ASSUME NEW tr \in Trackers, NEW s \in SUBSET Threads, s # {}
    PROVE  Added(tr, s) = MergeTrackers(Added(tr, Rest(s)), tr[First(s)])
<1>1. IsFiniteSet(s)
  BY StatsAssumption, FS_Subset
<1>2. First(s) \in Threads /\ Rest(s) \subseteq s /\ IsFiniteSet(Rest(s))
  BY <1>1, RestFacts
<1>3. PICK x \in Threads : x = First(s)
  BY <1>2
<1>4. ASSUME NEW f, \A u \in Threads : f[u] \in Int
      PROVE  SumFunctionOnSet(f, s) = SumFunctionOnSet(f, Rest(s)) + f[x]
  <2>1. SumFunctionOnSet(f, s) = f[First(s)] + SumFunctionOnSet(f, Rest(s))
    BY <1>1, SumUnfold
  <2>2. SumFunctionOnSet(f, Rest(s)) \in Int
    BY <1>2, <1>4, SumSplit
  <2> QED BY ONLY <1>3, <1>4, <2>1, <2>2
<1>5. ASSUME NEW h \in Histograms
      PROVE  Added(tr, s)[h] = Merge(Added(tr, Rest(s))[h], tr[x][h])
  <2>1. ASSUME NEW u \in Threads
        PROVE  /\ tr[u][h].total_count \in Int /\ tr[u][h].total_sum \in Int
               /\ \A k \in Buckets : tr[u][h].counts[k] \in Int
    <3>1. tr[u][h] \in Histogram
      BY DEF Trackers
    <3> QED BY <3>1 DEF Histogram
  <2>2. \A u \in Threads : /\ OwnCount(tr, h)[u] = tr[u][h].total_count /\ OwnCount(tr, h)[u] \in Int
                           /\ OwnSum(tr, h)[u] = tr[u][h].total_sum /\ OwnSum(tr, h)[u] \in Int
                           /\ \A k \in Buckets : /\ OwnBucket(tr, h, k)[u] = tr[u][h].counts[k]
                                                 /\ OwnBucket(tr, h, k)[u] \in Int
    BY <2>1 DEF OwnCount, OwnSum, OwnBucket
  <2>3. /\ SumFunctionOnSet(OwnCount(tr, h), s) = SumFunctionOnSet(OwnCount(tr, h), Rest(s)) + tr[x][h].total_count
        /\ SumFunctionOnSet(OwnSum(tr, h), s) = SumFunctionOnSet(OwnSum(tr, h), Rest(s)) + tr[x][h].total_sum
        /\ \A k \in Buckets : SumFunctionOnSet(OwnBucket(tr, h, k), s) =
                                  SumFunctionOnSet(OwnBucket(tr, h, k), Rest(s)) + tr[x][h].counts[k]
    BY ONLY <1>4, <2>2, x \in Threads
  <2>4. PICK a, b : a = Added(tr, s)[h] /\ b = Added(tr, Rest(s))[h]
    OBVIOUS
  <2>5. /\ a = [counts |-> [k \in Buckets |-> SumFunctionOnSet(OwnBucket(tr, h, k), s)],
                total_count |-> SumFunctionOnSet(OwnCount(tr, h), s),
                total_sum |-> SumFunctionOnSet(OwnSum(tr, h), s)]
        /\ b.total_count = SumFunctionOnSet(OwnCount(tr, h), Rest(s))
        /\ b.total_sum = SumFunctionOnSet(OwnSum(tr, h), Rest(s))
        /\ \A k \in Buckets : b.counts[k] = SumFunctionOnSet(OwnBucket(tr, h, k), Rest(s))
    BY <2>4 DEF Added
  <2>6. [k \in Buckets |-> SumFunctionOnSet(OwnBucket(tr, h, k), s)] =
        [k \in Buckets |-> b.counts[k] + tr[x][h].counts[k]]
    BY ONLY <2>3, <2>5
  <2>7. a = Merge(b, tr[x][h])
    BY ONLY <2>3, <2>5, <2>6 DEF Merge
  <2> QED BY <2>4, <2>7
<1>6. DOMAIN Added(tr, Rest(s)) = Histograms /\ Added(tr, s) = [h \in Histograms |-> Added(tr, s)[h]]
  BY DEF Added
<1> QED BY ONLY <1>3, <1>5, <1>6 DEF MergeTrackers

\* Merging the trackers of all threads adds them up.
LEMMA MergeAdds ==
    ASSUME NEW tr \in Trackers
    PROVE  FoldFunction(LAMBDA own, all : MergeTrackers(all, own), EmptyTracker, tr) = Added(tr, Threads)
<1>0. DOMAIN tr = Threads
  BY DEF Trackers
<1>1. FoldFunction(LAMBDA own, all : MergeTrackers(all, own), EmptyTracker, tr) =
          (CHOOSE it : IsMerging(tr, it))[Threads]
  <2>1. FoldFunction(LAMBDA own, all : MergeTrackers(all, own), EmptyTracker, tr) =
        FoldFunctionOnSet(LAMBDA own, all : MergeTrackers(all, own), EmptyTracker, tr, Threads)
    BY <1>0, Zenon DEF FoldFunction
  <2>2. FoldFunctionOnSet(LAMBDA own, all : MergeTrackers(all, own), EmptyTracker, tr, Threads) =
          (CHOOSE it : IsMerging(tr, it))[Threads]
    BY Zenon DEF FoldFunctionOnSet, MapThenFoldSet, IsMerging, MergeStep, First, Rest
  <2> QED BY <2>1, <2>2, Zenon
<1>2. ASSUME NEW s \in SUBSET Threads, s # {} PROVE Rest(s) \in SUBSET Threads
  BY DEF Rest
<1>3. IsMerging(tr, [s \in SUBSET Threads |-> Added(tr, s)])
  <2> DEFINE it == [s \in SUBSET Threads |-> Added(tr, s)]
  <2>1. ASSUME NEW s \in SUBSET Threads PROVE it[s] = MergeStep(tr, it, s)
    <3>1. CASE s = {}
      BY <3>1, AddedEmpty DEF MergeStep
    <3>2. CASE s # {}
      <4>1. it[s] = Added(tr, s) /\ it[Rest(s)] = Added(tr, Rest(s))
        BY <1>2, <3>2
      <4>2. Added(tr, s) = MergeTrackers(Added(tr, Rest(s)), tr[First(s)])
        BY <3>2, AddedStep
      <4> HIDE DEF it
      <4> QED BY ONLY <3>2, <4>1, <4>2 DEF MergeStep
    <3> QED BY <3>1, <3>2
  <2>2. it = [s \in SUBSET Threads |-> MergeStep(tr, it, s)]
    BY <2>1
  <2> QED BY <2>2 DEF IsMerging
<1>4. PICK it : it = (CHOOSE i : IsMerging(tr, i)) /\ IsMerging(tr, it)
  BY <1>3
<1> DEFINE T == {n \in Nat : \E s \in SUBSET Threads : Cardinality(s) = n /\ it[s] # Added(tr, s)}
<1>5. \A s \in SUBSET Threads : IsFiniteSet(s) /\ Cardinality(s) \in Nat
  BY FS_Subset, FS_CardinalityType, StatsAssumption
<1>6. T = {}
  <2> SUFFICES ASSUME T # {} PROVE FALSE
    OBVIOUS
  <2>1. PICK n \in T : \A m \in T : n <= m
    <3>1. T \subseteq Nat
      OBVIOUS
    <3> HIDE DEF T
    <3> QED BY <3>1, LeastNat
  <2>2. PICK s \in SUBSET Threads : Cardinality(s) = n /\ it[s] # Added(tr, s)
    OBVIOUS
  <2>3. it[s] = MergeStep(tr, it, s)
    BY <1>4 DEF IsMerging
  <2>4. s # {}
    BY <2>2, <2>3, AddedEmpty DEF MergeStep
  <2>5. Rest(s) \in SUBSET Threads /\ Cardinality(Rest(s)) \in Nat /\ Cardinality(Rest(s)) < n
    BY <1>2, <1>5, <2>2, <2>4, RestFacts
  <2>6. it[Rest(s)] = Added(tr, Rest(s))
    BY <2>1, <2>5
  <2>7. Added(tr, s) = MergeTrackers(Added(tr, Rest(s)), tr[First(s)])
    BY <2>4, AddedStep
  <2> QED BY ONLY <2>2, <2>3, <2>4, <2>6, <2>7 DEF MergeStep
<1>7. it[Threads] = Added(tr, Threads)
  <2>1. Cardinality(Threads) \notin T /\ Cardinality(Threads) \in Nat
    BY <1>5, <1>6
  <2> QED BY <2>1
<1> QED BY <1>1, <1>4, <1>7, Zenon

-----------------------------------------------------------------------------
(* EngineStats: what the trackers and their merge hold *)

\* An operation that is under way is one of those the benchmark has ordered.
Ordered ==
    /\ benchmark.ops_per_thread \in Nat
    /\ \A t \in Threads : at[t] # "idle" => done[t] < benchmark.ops_per_thread

\* The threads have been joined, so that no tracker changes any more.
Joined ==
    merged # EmptyTracker =>
        /\ \A t \in Threads : at[t] = "idle" /\ done[t] = benchmark.ops_per_thread
        /\ merged = Added(tracker, Threads)

MergeInv == StatsTyped /\ IsBreakdownBag(samples) /\ Ledger(tracker, samples) /\ Ordered /\ Joined

LEMMA MergeInit == Init => MergeInv
<1> SUFFICES ASSUME Init PROVE MergeInv
  OBVIOUS
<1>1. StatsTyped
  BY StatsTypedInit
<1>2. /\ samples = EmptyBag /\ merged = EmptyTracker /\ benchmark \in Benchmarks
      /\ at = [t \in Threads |-> "idle"] /\ tracker = [t \in Threads |-> EmptyTracker]
  BY DEF Init
<1>3. DOMAIN samples = {}
  BY <1>2 DEF EmptyBag, SetToBag
<1>4. IsBreakdownBag(samples)
  BY <1>3, FS_EmptySet DEF IsBreakdownBag
<1>5. \A h, D : In(samples, h, D) = 0 /\ Ns(samples, h) = 0
  BY <1>3, SumEmpty DEF In, Ns
<1>6. ASSUME NEW h \in Histograms
      PROVE  /\ SumFunctionOnSet(OwnCount(tracker, h), Threads) = 0
             /\ SumFunctionOnSet(OwnSum(tracker, h), Threads) = 0
             /\ \A k \in Buckets : SumFunctionOnSet(OwnBucket(tracker, h, k), Threads) = 0
  <2>1. EmptyTracker[h] = EmptyHistogram
    BY DEF EmptyTracker
  <2>2. /\ EmptyHistogram.total_count = 0 /\ EmptyHistogram.total_sum = 0
        /\ \A k \in Buckets : EmptyHistogram.counts[k] = 0
    BY DEF EmptyHistogram
  <2>3. \A t \in Threads : tracker[t][h] = EmptyHistogram
    BY <1>2, <2>1
  <2>4. \A t \in Threads : /\ OwnCount(tracker, h)[t] = 0 /\ OwnSum(tracker, h)[t] = 0
                           /\ \A k \in Buckets : OwnBucket(tracker, h, k)[t] = 0
    BY ONLY <2>2, <2>3 DEF OwnCount, OwnSum, OwnBucket
  <2> QED BY ONLY <2>4, StatsAssumption, SumZero
<1>7. Ledger(tracker, samples)
  BY <1>5, <1>6 DEF Ledger
<1>8. Ordered
  BY <1>2, StatsAssumption DEF Ordered
<1> QED BY <1>1, <1>2, <1>4, <1>7, <1>8 DEF MergeInv, Joined

\* Every step of a thread goes to another layer or finishes the operation.
LEMMA ThreadStepShape ==
    ASSUME ThreadsTyped, NEW t \in Threads, NEW s \in Stripes,
           \/ GetL1Hit(t, s) \/ GetL1Miss(t, s) \/ GetL2Hit(t) \/ GetL2Miss(t)
           \/ GetBackendHit(t) \/ GetBackendMiss(t) \/ PutBackend(t) \/ PutL1(t)
    PROVE  /\ at[t] # "idle" \/ Begin(t)
           /\ \/ \E layer, b : Goto(t, layer, b)
              \/ \E b \in Breakdown : Finish(t, b)
<1>0. bd[t] \in Breakdown
  BY OwnValues
<1>1. at[t] # "idle" \/ Begin(t)
  BY DEF GetL1Hit, GetL1Miss, GetL2Hit, GetL2Miss, GetBackendHit, GetBackendMiss, PutBackend, PutL1
<1>2. CASE GetL1Miss(t, s) \/ GetL2Hit(t) \/ GetL2Miss(t) \/ GetBackendHit(t) \/ PutBackend(t)
  BY <1>1, <1>2 DEF GetL1Miss, GetL2Hit, GetL2Miss, GetBackendHit, PutBackend
<1>3. CASE GetL1Hit(t, s)
  <2>1. PICK d \in Durations["l1"] : Finish(t, [Spend(bd[t], d) EXCEPT !.path = "L1_HIT"])
    BY <1>3 DEF GetL1Hit
  <2>2. d \in Nat /\ "L1_HIT" \in Paths
    BY StepTypes
  <2>3. [Spend(bd[t], d) EXCEPT !.path = "L1_HIT"] \in Breakdown
    BY ONLY <1>0, <2>2, SpendType
  <2> QED BY <1>1, <2>1, <2>3
<1>4. CASE GetBackendMiss(t)
  <2>1. PICK d \in Durations["backend"] : Finish(t, Backend(t, d, "MISS"))
    BY <1>4 DEF GetBackendMiss
  <2>2. d \in Nat /\ "MISS" \in Paths
    BY StepTypes
  <2>3. Backend(t, d, "MISS") \in Breakdown
    BY ONLY <1>0, <2>2, SpendType DEF Backend
  <2> QED BY <1>1, <2>1, <2>3
<1>5. CASE PutL1(t)
  <2>1. PICK d \in Durations["l1"] : Finish(t, Spend(bd[t], d))
    BY <1>5 DEF PutL1
  <2>2. d \in Nat /\ "MISS" \in Paths
    BY StepTypes
  <2>3. Spend(bd[t], d) \in Breakdown
    BY ONLY <1>0, <2>2, SpendType
  <2> QED BY <1>1, <2>1, <2>3
<1> QED BY <1>2, <1>3, <1>4, <1>5

LEMMA MergeThreadStep ==
    ASSUME MergeInv, benchmark' = benchmark, NEW t \in Threads, NEW s \in Stripes,
           \/ GetL1Hit(t, s) \/ GetL1Miss(t, s) \/ GetL2Hit(t) \/ GetL2Miss(t)
           \/ GetBackendHit(t) \/ GetBackendMiss(t) \/ PutBackend(t) \/ PutL1(t)
    PROVE  IsBreakdownBag(samples)' /\ Ledger(tracker, samples)' /\ Ordered' /\ Joined'
<1>1. /\ at[t] # "idle" \/ Begin(t)
      /\ \/ \E layer, b : Goto(t, layer, b)
         \/ \E b \in Breakdown : Finish(t, b)
  BY ThreadStepShape DEF MergeInv, StatsTyped
<1>2. /\ benchmark.ops_per_thread \in Nat /\ done[t] < benchmark.ops_per_thread
      /\ \A u \in Threads : at[u] # "idle" => done[u] < benchmark.ops_per_thread
  BY <1>1 DEF MergeInv, Ordered, Begin
<1>3. at \in [Threads -> {"idle", "l2", "backend", "fill"}] /\ done \in [Threads -> Nat] /\ tracker \in Trackers
  BY DEF MergeInv, StatsTyped, ThreadsTyped, Trackers
<1>4. merged = EmptyTracker
  BY <1>2, <1>3 DEF MergeInv, Joined
<1>5. CASE \E layer, b : Goto(t, layer, b)
  <2>1. PICK layer, b : Goto(t, layer, b)
    BY <1>5
  <2>2. /\ at' = [at EXCEPT ![t] = layer] /\ done' = done /\ tracker' = tracker /\ samples' = samples
        /\ merged' = merged
    BY <2>1 DEF Goto
  <2>3. ASSUME NEW u \in Threads, at'[u] # "idle" PROVE done'[u] < benchmark'.ops_per_thread
    BY ONLY <1>2, <1>3, <2>2, <2>3, benchmark' = benchmark, t \in Threads
  <2>4. Ordered'
    BY <1>2, <2>3 DEF Ordered
  <2> QED BY <1>4, <2>2, <2>4 DEF MergeInv, Joined
<1>6. CASE \E b \in Breakdown : Finish(t, b)
  <2>1. PICK b \in Breakdown : Finish(t, b)
    BY <1>6
  <2>2. /\ at' = [at EXCEPT ![t] = "idle"] /\ done' = [done EXCEPT ![t] = @ + 1]
        /\ tracker' = [tracker EXCEPT ![t] = RecordBreakdown(@, b)]
        /\ samples' = samples (+) SetToBag({b}) /\ merged' = merged
    BY <2>1 DEF Finish
  <2>3. ASSUME NEW u \in Threads, at'[u] # "idle" PROVE done'[u] < benchmark'.ops_per_thread
    BY ONLY <1>2, <1>3, <2>2, <2>3, benchmark' = benchmark, t \in Threads
  <2>4. Ordered'
    BY <1>2, <2>3 DEF Ordered
  <2>5. IsBreakdownBag(samples') /\ Ledger(tracker', samples')
    BY <1>3, <2>2, LedgerInsert DEF MergeInv
  <2> QED BY <1>4, <2>2, <2>4, <2>5 DEF Joined
<1> QED BY <1>1, <1>5, <1>6

LEMMA MergeInvStep == MergeInv /\ [Next]_vars => MergeInv'
<1> SUFFICES ASSUME MergeInv, [Next]_vars PROVE IsBreakdownBag(samples)' /\ Ledger(tracker, samples)' /\ Ordered' /\ Joined'
  BY StatsTypedStep DEF MergeInv
<1>0. tracker \in Trackers
  BY DEF MergeInv, StatsTyped, ThreadsTyped, Trackers
<1>1. ASSUME benchmark' = benchmark, UNCHANGED threadVars, merged' = merged
      PROVE  IsBreakdownBag(samples)' /\ Ledger(tracker, samples)' /\ Ordered' /\ Joined'
  <2>1. at' = at /\ done' = done /\ tracker' = tracker /\ samples' = samples
    BY <1>1 DEF threadVars
  <2> QED BY <1>1, <2>1 DEF MergeInv, Ordered, Joined
<1>2. ASSUME benchmark' = benchmark, NEW t \in Threads,
             \/ \E s \in Stripes : GetL1Hit(t, s) \/ GetL1Miss(t, s)
             \/ GetL2Hit(t) \/ GetL2Miss(t) \/ GetBackendHit(t) \/ GetBackendMiss(t)
             \/ PutBackend(t) \/ PutL1(t)
      PROVE  IsBreakdownBag(samples)' /\ Ledger(tracker, samples)' /\ Ordered' /\ Joined'
  <2>1. 0 \in Stripes
    BY StatsAssumption DEF Stripes
  <2> QED BY <1>2, <2>1, MergeThreadStep
<1>3. ASSUME benchmark' = benchmark, Join
      PROVE  IsBreakdownBag(samples)' /\ Ledger(tracker, samples)' /\ Ordered' /\ Joined'
  <2>1. /\ at' = at /\ done' = done /\ tracker' = tracker /\ samples' = samples
        /\ \A t \in Threads : done[t] = benchmark.ops_per_thread
    BY <1>3, Zenon DEF Join, threadVars
  <2>2. merged' = Added(tracker, Threads)
    BY <1>0, <1>3, MergeAdds, Zenon DEF Join
  <2>3. \A t \in Threads : at[t] = "idle"
    <3>1. /\ benchmark.ops_per_thread \in Nat
          /\ \A t \in Threads : at[t] # "idle" => done[t] < benchmark.ops_per_thread
      BY DEF MergeInv, Ordered
    <3>2. \A t \in Threads : done[t] = benchmark.ops_per_thread
      BY <2>1
    <3> QED BY ONLY <3>1, <3>2
  <2> QED BY <1>3, <2>1, <2>2, <2>3 DEF MergeInv, Ordered, Joined
<1>4. ASSUME benchmark' = benchmark, NEW p \in Plans, MonitorBegin(p)
      PROVE  IsBreakdownBag(samples)' /\ Ledger(tracker, samples)' /\ Ordered' /\ Joined'
  BY <1>1, <1>4 DEF MonitorBegin
<1>5. ASSUME benchmark' = benchmark, MonitorLoad \/ MonitorZero
      PROVE  IsBreakdownBag(samples)' /\ Ledger(tracker, samples)' /\ Ordered' /\ Joined'
  BY <1>1, <1>5 DEF MonitorLoad, MonitorZero
<1>6. ASSUME UNCHANGED vars
      PROVE  IsBreakdownBag(samples)' /\ Ledger(tracker, samples)' /\ Ordered' /\ Joined'
  BY <1>1, <1>6 DEF vars
<1> QED BY <1>2, <1>3, <1>4, <1>5, <1>6 DEF Next

\* Once joined, the merged tracker is the histograms of all samples.
LEMMA MergedHolds ==
    ASSUME MergeInv, merged # EmptyTracker
    PROVE  /\ DOMAIN merged = Histograms
           /\ \A h \in Histograms :
                 /\ merged[h].total_count = In(samples, h, Nat)
                 /\ merged[h].total_sum = Ns(samples, h)
                 /\ DOMAIN merged[h].counts = Buckets
                 /\ \A k \in Buckets : merged[h].counts[k] = In(samples, h, BucketRange(k))
<1>1. merged = Added(tracker, Threads) /\ Ledger(tracker, samples)
  BY DEF MergeInv, Joined
<1> QED BY <1>1 DEF Added, Ledger

LEMMA RecordingIs ==
    ASSUME IsBreakdownBag(samples), NEW h, NEW D
    PROVE  /\ Recording(h, D) = DOMAIN samples \cap Putting(h, D)
           /\ Recorded(h, D) = In(samples, h, D)
<1>1. Recording(h, D) = DOMAIN samples \cap Putting(h, D)
  BY DEF Recording, Putting, IsBreakdownBag
<1> QED BY <1>1 DEF Recorded, In

LEMMA MergeImplies == MergeInv => MergedIsWhole
<1> SUFFICES ASSUME MergeInv, merged # EmptyTracker, NEW h \in DOMAIN merged
             PROVE  /\ merged[h].total_count = Recorded(h, Nat)
                    /\ merged[h].total_sum =
                          SumFunctionOnSet([b \in DOMAIN samples |-> samples[b] * Duration(b, h)],
                                           Recording(h, Nat))
                    /\ \A b \in Buckets : merged[h].counts[b] = Recorded(h, BucketRange(b))
  BY DEF MergedIsWhole
<1>1. \A D : /\ Recording(h, D) = DOMAIN samples \cap Putting(h, D)
             /\ Recorded(h, D) = In(samples, h, D)
  BY RecordingIs DEF MergeInv
<1>2. /\ merged[h].total_count = In(samples, h, Nat)
      /\ merged[h].total_sum = Ns(samples, h)
      /\ \A k \in Buckets : merged[h].counts[k] = In(samples, h, BucketRange(k))
  BY MergedHolds
<1> QED BY ONLY <1>1, <1>2 DEF Ns

\* Merging the trackers of the joined threads loses and invents nothing
\* (LatencyHistogram::merge, PathLatencyTracker::merge).
THEOREM StatsMergedIsWhole == Spec => []MergedIsWhole
<1>1. Spec => []MergeInv
  BY MergeInit, MergeInvStep, PTL DEF Spec
<1> QED BY <1>1, MergeImplies, PTL

-----------------------------------------------------------------------------
(* EngineStats: percentiles *)

\* A finite set of natural numbers has a bound.
LEMMA FiniteBound ==
    ASSUME NEW S, IsFiniteSet(S), S \subseteq Nat
    PROVE  \E m \in Nat : \A x \in S : x <= m
<1> DEFINE G == {s \in SUBSET S : \E m \in Nat : \A x \in s : x <= m}
<1>1. {} \in G
  <2>1. \A x \in {} : x <= 0
    OBVIOUS
  <2> QED BY <2>1
<1>2. ASSUME NEW s \in SUBSET S, NEW x \in s, s \ {x} \in G PROVE s \in G
  <2>1. PICK m \in Nat : \A y \in s \ {x} : y <= m
    BY <1>2
  <2>2. x \in Nat /\ s \subseteq Nat
    OBVIOUS
  <2>3. CASE x <= m
    BY <2>1, <2>3
  <2>4. CASE ~ x <= m
    <3>1. \A y \in s : y <= x
      BY ONLY <2>1, <2>2, <2>4, m \in Nat
    <3> QED BY <2>2, <3>1
  <2> QED BY <2>3, <2>4
<1>3. S \in G
  <2> HIDE DEF G
  <2> QED BY <1>1, <1>2, SetGrow
<1> QED BY <1>3

\* Counting the durations in a set.
LEMMA InNat ==
    ASSUME NEW bag, IsBreakdownBag(bag), NEW h, NEW D
    PROVE  In(bag, h, D) \in Nat
<1> DEFINE P == DOMAIN bag \cap Putting(h, D)
<1>1. IsFiniteSet(P) /\ \A x \in P : bag[x] \in Nat
  BY FS_Subset DEF IsBreakdownBag
<1>2. SumFunctionOnSet(bag, P) \in Nat
  <2> HIDE DEF P
  <2> QED BY <1>1, SumNat
<1> QED BY <1>2 DEF In

LEMMA InDisjoint ==
    ASSUME NEW bag, IsBreakdownBag(bag), NEW h, NEW D, NEW E, NEW U, U = D \cup E, D \cap E = {}
    PROVE  In(bag, h, U) = In(bag, h, D) + In(bag, h, E)
<1>1. PICK P, Q, R : /\ P = DOMAIN bag \cap Putting(h, D) /\ Q = DOMAIN bag \cap Putting(h, E)
                     /\ R = DOMAIN bag \cap Putting(h, U)
  OBVIOUS
<1>2. R = P \cup Q /\ P \cap Q = {}
  BY <1>1 DEF Putting
<1>3. IsFiniteSet(P) /\ IsFiniteSet(Q) /\ \A x \in P \cup Q : bag[x] \in Int
  BY <1>1, FS_Subset DEF IsBreakdownBag
<1>4. SumFunctionOnSet(bag, P \cup Q) = SumFunctionOnSet(bag, P) + SumFunctionOnSet(bag, Q)
  BY ONLY <1>2, <1>3, SumUnion
<1> QED BY ONLY <1>1, <1>2, <1>4 DEF In

\* More durations up to m when m grows; as many as there are from some m on.
LEMMA InGrows ==
    ASSUME NEW bag, IsBreakdownBag(bag), NEW h
    PROVE  /\ \A l, m \in Nat : l <= m => In(bag, h, 0 .. l) <= In(bag, h, 0 .. m)
           /\ \E m \in Nat : In(bag, h, 0 .. m) = In(bag, h, Nat)
<1>1. ASSUME NEW l \in Nat, NEW m \in Nat, l <= m PROVE In(bag, h, 0 .. l) <= In(bag, h, 0 .. m)
  <2>1. PICK D, E, U : D = 0 .. l /\ E = l + 1 .. m /\ U = 0 .. m
    OBVIOUS
  <2>2. U = D \cup E /\ D \cap E = {}
    BY <1>1, <2>1
  <2>3. In(bag, h, U) = In(bag, h, D) + In(bag, h, E)
    BY ONLY <2>2, InDisjoint, IsBreakdownBag(bag)
  <2>4. In(bag, h, D) \in Nat /\ In(bag, h, E) \in Nat
    BY InNat
  <2>5. In(bag, h, D) <= In(bag, h, U)
    BY ONLY <2>3, <2>4
  <2> QED BY <2>1, <2>5
<1>2. \E m \in Nat : In(bag, h, 0 .. m) = In(bag, h, Nat)
  <2> DEFINE S == {Duration(x, h) : x \in DOMAIN bag}
  <2>1. IsFiniteSet(S)
    <3> DEFINE f == [x \in DOMAIN bag |-> Duration(x, h)]
    <3>1. f \in Surjection(DOMAIN bag, S)
      BY DEF Surjection
    <3>2. IsFiniteSet(DOMAIN bag)
      BY DEF IsBreakdownBag
    <3> HIDE DEF f, S
    <3> QED BY <3>1, <3>2, FS_Surjection
  <2>2. S \subseteq Nat
    BY DurationType DEF IsBreakdownBag
  <2>3. PICK m \in Nat : \A x \in S : x <= m
    <3> HIDE DEF S
    <3> QED BY <2>1, <2>2, FiniteBound
  <2>4. \A x \in DOMAIN bag : Duration(x, h) \in Nat /\ Duration(x, h) <= m
    BY <2>2, <2>3
  <2>5. DOMAIN bag \cap Putting(h, 0 .. m) = DOMAIN bag \cap Putting(h, Nat)
    BY <2>4 DEF Putting
  <2>6. In(bag, h, 0 .. m) = In(bag, h, Nat)
    BY <2>5 DEF In
  <2> QED BY <2>6
<1> QED BY <1>1, <1>2

\* The sample of rank r is the least duration up to which r samples lie.
LEMMA RankedIs ==
    ASSUME IsBreakdownBag(samples), NEW h, NEW r \in Nat, r > 0, r <= In(samples, h, Nat)
    PROVE  /\ Ranked(h, r) \in Nat
           /\ \A m \in Nat : In(samples, h, 0 .. m) >= r <=> Ranked(h, r) <= m
<1> DEFINE T == {m \in Nat : In(samples, h, 0 .. m) >= r}
           E == {ns \in {Duration(b, h) : b \in Recording(h, Nat)} : Recorded(h, 0 .. ns) >= r}
<1>0. \A m \in Nat : In(samples, h, 0 .. m) \in Nat
  BY InNat
<1>1. PICK x \in T : \A m \in T : x <= m
  <2>1. PICK m \in Nat : In(samples, h, 0 .. m) = In(samples, h, Nat)
    BY InGrows
  <2>2. m \in T
    BY <1>0, <2>1
  <2>3. T \subseteq Nat
    OBVIOUS
  <2> HIDE DEF T
  <2> QED BY <2>2, <2>3, LeastNat
<1>2. x \in Nat /\ In(samples, h, 0 .. x) >= r
  OBVIOUS
<1>3. ASSUME NEW m \in Nat PROVE In(samples, h, 0 .. m) >= r <=> x <= m
  <2>1. ASSUME x <= m PROVE In(samples, h, 0 .. m) >= r
    <3>1. In(samples, h, 0 .. x) <= In(samples, h, 0 .. m)
      BY <1>2, <2>1, InGrows
    <3> QED BY ONLY <1>0, <1>2, <3>1, m \in Nat, r \in Nat
  <2> QED BY <1>1, <2>1
<1>4. \A D : Recording(h, D) = DOMAIN samples \cap Putting(h, D) /\ Recorded(h, D) = In(samples, h, D)
  BY RecordingIs
<1>5. \E b \in Recording(h, Nat) : Duration(b, h) = x
  <2> SUFFICES ASSUME \A b \in Recording(h, Nat) : Duration(b, h) # x PROVE FALSE
    OBVIOUS
  <2>1. \A b \in DOMAIN samples : Duration(b, h) \in Nat
    BY DurationType DEF IsBreakdownBag
  <2>2. ASSUME NEW b \in DOMAIN samples, b \in Putting(h, 0 .. x) PROVE Duration(b, h) \in 0 .. x - 1
    <3>1. Duration(b, h) \in 0 .. x /\ b \in Putting(h, Nat)
      BY <2>1, <2>2 DEF Putting
    <3>2. Duration(b, h) # x
      BY <1>4, <3>1
    <3> QED BY <1>2, <3>1, <3>2
  <2>3. (0 .. x - 1) \subseteq (0 .. x)
    BY <1>2
  <2>4. DOMAIN samples \cap Putting(h, 0 .. x) = DOMAIN samples \cap Putting(h, 0 .. x - 1)
    BY <2>2, <2>3 DEF Putting
  <2>5. In(samples, h, 0 .. x - 1) = In(samples, h, 0 .. x)
    BY <2>4 DEF In
  <2>6. CASE x = 0
    <3>1. DOMAIN samples \cap Putting(h, 0 .. x - 1) = {}
      BY <2>6 DEF Putting
    <3>2. In(samples, h, 0 .. x - 1) = 0
      BY <3>1, SumEmpty DEF In
    <3> QED BY ONLY <1>2, <2>5, <3>2, r \in Nat, r > 0
  <2>7. CASE x # 0
    <3>1. x - 1 \in Nat /\ ~ x <= x - 1
      BY <1>2, <2>7
    <3>2. ~ In(samples, h, 0 .. x - 1) >= r
      BY <1>3, <3>1
    <3> QED BY <1>2, <2>5, <3>2
  <2> QED BY <2>6, <2>7
<1>6. E \subseteq Nat /\ x \in E /\ \A e \in E : x <= e
  <2>1. \A b \in Recording(h, Nat) : Duration(b, h) \in Nat
    BY DurationType DEF IsBreakdownBag, Recording
  <2>2. E \subseteq Nat
    BY <2>1
  <2>3. x \in E
    BY <1>2, <1>4, <1>5
  <2>4. \A e \in E : In(samples, h, 0 .. e) >= r
    BY <1>4
  <2> QED BY <1>3, <2>2, <2>3, <2>4
<1>7. Min(E) = x
  <2>1. Min(E) \in E /\ \A e \in E : Min(E) <= e
    <3> HIDE DEF E
    <3> QED BY <1>6, MinFacts
  <2>2. Min(E) \in Nat /\ Min(E) <= x /\ x <= Min(E)
    BY <1>6, <2>1
  <2> QED BY ONLY <1>2, <2>2
<1>8. Ranked(h, r) = x
  BY <1>7 DEF Ranked
<1> QED BY <1>2, <1>3, <1>8

\* The running count of a histogram that holds a bag counts the durations below
\* the edge, or all of them at the last bucket.
LEMMA UpToIs ==
    ASSUME NEW bag, IsBreakdownBag(bag), NEW h, NEW hist, DOMAIN hist.counts = Buckets,
           \A k \in Buckets : hist.counts[k] = In(bag, h, BucketRange(k))
    PROVE  \A k \in Buckets :
              UpTo(hist, k) = In(bag, h, IF k = NumBuckets - 1 THEN Nat ELSE 0 .. UpperEdge[k] - 1)
<1> DEFINE Below(k) == IF k = NumBuckets - 1 THEN Nat ELSE 0 .. UpperEdge[k] - 1
           G == {n \in Nat : n \in Buckets => UpTo(hist, n) = In(bag, h, Below(n))}
<1>0. PICK c : c = hist.counts /\ \A k \in Buckets : c[k] = In(bag, h, BucketRange(k)) /\ c[k] \in Int
  <2>1. \A k \in Buckets : In(bag, h, BucketRange(k)) \in Nat
    BY InNat
  <2> QED BY <2>1
<1>1. 0 \in G
  <2>1. SumFunctionOnSet(c, 0 .. 0) = c[0]
    <3>1. 0 \in Buckets /\ (0 .. 0) = {0} /\ {0} \ {0} = {}
      BY HistogramAssumption DEF Buckets
    <3>2. IsFiniteSet({0}) /\ c[0] \in Int
      BY <1>0, <3>1, FS_Singleton
    <3>3. \A x \in {0} : c[x] \in Int
      BY <3>2
    <3>4. SumFunctionOnSet(c, {0}) = c[0] + SumFunctionOnSet(c, {0} \ {0})
      BY ONLY <3>2, <3>3, SumSplit
    <3>5. SumFunctionOnSet(c, {}) = 0
      BY SumEmpty
    <3> QED BY ONLY <3>1, <3>2, <3>4, <3>5
  <2>2. UpperEdge[0] \in Nat /\ 0 \in Buckets /\ NumBuckets - 1 > 0
    BY HistogramAssumption, EdgesPositive DEF Buckets
  <2>3. BucketRange(0) = 0 .. UpperEdge[0] - 1
    BY <2>2 DEF BucketRange
  <2>4. UpTo(hist, 0) = c[0] /\ c[0] = In(bag, h, BucketRange(0)) /\ Below(0) = 0 .. UpperEdge[0] - 1
    BY <1>0, <2>1, <2>2 DEF UpTo
  <2> HIDE DEF Below
  <2> QED BY <2>3, <2>4
<1>2. ASSUME NEW n \in Nat, n \in G PROVE n + 1 \in G
  <2> SUFFICES ASSUME n + 1 \in Buckets PROVE UpTo(hist, n + 1) = In(bag, h, Below(n + 1))
    OBVIOUS
  <2>1. n \in Buckets /\ n < NumBuckets - 1 /\ n + 1 > 0 /\ (n + 1) - 1 = n
    BY HistogramAssumption DEF Buckets
  <2>2. UpTo(hist, n) = In(bag, h, 0 .. UpperEdge[n] - 1)
    BY <1>2, <2>1, HistogramAssumption
  <2>3. UpTo(hist, n + 1) = c[n + 1] + UpTo(hist, n)
    <3>1. (0 .. n + 1) \ {n + 1} = 0 .. n /\ n + 1 \in 0 .. n + 1 /\ (0 .. n + 1) \subseteq Buckets
      BY HistogramAssumption DEF Buckets
    <3>2. IsFiniteSet(0 .. n + 1)
      BY FS_Interval
    <3>3. \A x \in 0 .. n + 1 : c[x] \in Int
      BY <1>0, <3>1
    <3>4. SumFunctionOnSet(c, 0 .. n + 1) = c[n + 1] + SumFunctionOnSet(c, (0 .. n + 1) \ {n + 1})
      BY ONLY <3>1, <3>2, <3>3, SumSplit
    <3> QED BY ONLY <1>0, <3>1, <3>4 DEF UpTo
  <2>4. UpperEdge[n] \in Nat /\ UpperEdge[n + 1] \in Nat /\ UpperEdge[n] > 0 /\ 2 * UpperEdge[n] <= UpperEdge[n + 1]
    BY <2>1, EdgesPositive, EdgesGrow
  <2>5. PICK u \in Nat, v \in Nat : u = UpperEdge[n] /\ v = UpperEdge[n + 1] /\ u < v
    BY <2>4
  <2>6. /\ (0 .. u - 1) \cap BucketRange(n + 1) = {}
        /\ (0 .. u - 1) \cup BucketRange(n + 1) = Below(n + 1)
    <3>1. BucketRange(n + 1) = {ns \in Nat : u <= ns /\ (n + 1 < NumBuckets - 1 => ns < v)}
      BY <2>1, <2>5 DEF BucketRange
    <3>2. n + 1 = NumBuckets - 1 \/ n + 1 < NumBuckets - 1
      BY <2>1, HistogramAssumption
    <3>3. CASE n + 1 = NumBuckets - 1
      BY <3>1, <3>3
    <3>4. CASE n + 1 < NumBuckets - 1 /\ n + 1 # NumBuckets - 1
      BY <2>5, <3>1, <3>4
    <3> QED BY <3>2, <3>3, <3>4, HistogramAssumption
  <2>7. In(bag, h, Below(n + 1)) = In(bag, h, 0 .. u - 1) + In(bag, h, BucketRange(n + 1))
    <3> HIDE DEF Below
    <3> QED BY ONLY <2>6, InDisjoint, IsBreakdownBag(bag)
  <2>8. In(bag, h, 0 .. u - 1) \in Nat /\ In(bag, h, BucketRange(n + 1)) \in Nat
    BY InNat
  <2>9. c[n + 1] = In(bag, h, BucketRange(n + 1))
    BY <1>0
  <2> QED BY ONLY <2>2, <2>3, <2>5, <2>7, <2>8, <2>9
<1>3. Nat \subseteq G
  <2> HIDE DEF G
  <2> QED BY <1>1, <1>2, NatGrow
<1>4. Buckets \subseteq Nat
  BY HistogramAssumption DEF Buckets
<1> QED BY <1>3, <1>4

\* The first bucket that takes the running count above the target is the bucket
\* of the sample of the rank after it.
LEMMA FirstAbove ==
    ASSUME NEW hist, NEW target \in Nat, NEW x \in Nat,
           \A k \in Buckets : UpTo(hist, k) > target <=> k = NumBuckets - 1 \/ x < UpperEdge[k]
    PROVE  /\ {k \in Buckets : UpTo(hist, k) > target} # {}
           /\ Min({k \in Buckets : UpTo(hist, k) > target}) = Bucket(x)
<1> DEFINE S == {k \in Buckets : UpTo(hist, k) > target}
           R == {k \in Buckets : k = NumBuckets - 1 \/ x < UpperEdge[k]}
<1>1. S = R
  OBVIOUS
<1>2. NumBuckets - 1 \in R
  BY HistogramAssumption DEF Buckets
<1>3. Min(R) = Bucket(x)
  BY DEF Bucket
<1> QED BY <1>1, <1>2, <1>3

\* The edges around the bucket of a duration.
LEMMA WithinEdges ==
    ASSUME NEW x \in Nat, NEW twice,
           twice = IF Bucket(x) = 0 THEN Edge ELSE UpperEdge[Bucket(x) - 1] + UpperEdge[Bucket(x)]
    PROVE  /\ x < Edge => twice = Edge
           /\ Edge <= x /\ x < UpperEdge[NumBuckets - 1] => 3 * x < 2 * twice /\ twice <= 3 * x
           /\ x >= UpperEdge[NumBuckets - 1] => twice < 2 * x
<1>1. PICK m \in Buckets : m = Bucket(x) /\ x \in BucketRange(m)
  BY BucketOfDuration
<1>2. /\ m \in Nat /\ m <= NumBuckets - 1 /\ NumBuckets \in Nat /\ NumBuckets >= 2
      /\ NumBuckets - 1 \in Buckets /\ 0 \in Buckets /\ Edge \in Nat /\ Edge > 0
  BY HistogramAssumption DEF Buckets
<1>3. (m > 0 => UpperEdge[m - 1] <= x) /\ (m < NumBuckets - 1 => x < UpperEdge[m])
  BY <1>1 DEF BucketRange
<1>4. PICK last \in Nat : last = UpperEdge[NumBuckets - 1] /\ last > 0
  BY <1>2, EdgesPositive
<1>5. CASE m = 0
  <2>1. m < NumBuckets - 1 /\ x < Edge
    BY <1>2, <1>3, <1>5, EdgeRecursion
  <2>2. 2 * UpperEdge[0] <= last
    BY <1>2, <1>4, EdgesGrow
  <2>3. 2 * Edge <= last
    BY <2>2, EdgeRecursion
  <2>4. twice = Edge
    BY <1>1, <1>5
  <2> QED BY ONLY <1>2, <1>4, <2>1, <2>3, <2>4, x \in Nat
<1>6. CASE m > 0
  <2>1. m - 1 \in Buckets /\ m - 1 \in Nat
    BY <1>2, <1>6 DEF Buckets
  <2>2. PICK u \in Nat : u = UpperEdge[m - 1] /\ u > 0 /\ UpperEdge[m] = 2 * u
    BY <1>6, <2>1, EdgesPositive, EdgeRecursion
  <2>3. twice = 3 * u
    BY <1>1, <1>2, <1>6, <2>2
  <2>4. u >= Edge
    <3>1. CASE m - 1 = 0
      BY <1>2, <2>2, <3>1, EdgeRecursion
    <3>2. CASE m - 1 > 0
      <4>1. 2 * UpperEdge[0] <= u
        BY <1>2, <2>1, <2>2, <3>2, EdgesGrow
      <4>2. 2 * Edge <= u
        BY <4>1, EdgeRecursion
      <4> QED BY ONLY <1>2, <2>2, <4>2
    <3>3. m - 1 = 0 \/ m - 1 > 0
      BY <1>2, <1>6
    <3> QED BY <3>1, <3>2, <3>3
  <2>5. u <= x
    BY <1>3, <1>6, <2>2
  <2>6. CASE m = NumBuckets - 1
    <3>1. last = 2 * u
      BY <1>4, <2>2, <2>6
    <3> QED BY ONLY <1>2, <1>4, <2>2, <2>3, <2>4, <2>5, <3>1, x \in Nat
  <2>7. CASE m < NumBuckets - 1
    <3>1. x < 2 * u
      BY <1>3, <2>2, <2>7
    <3>2. 2 * UpperEdge[m] <= last
      BY <1>2, <1>4, <2>7, EdgesGrow
    <3>3. 4 * u <= last
      BY ONLY <2>2, <3>2, last \in Nat
    <3> QED BY ONLY <1>2, <1>4, <2>2, <2>3, <2>4, <2>5, <3>1, <3>3, x \in Nat
  <2> QED BY <1>2, <2>6, <2>7
<1> QED BY <1>2, <1>5, <1>6

LEMMA PercentileImplies == MergeInv => PercentileWithinBucket
<1> SUFFICES ASSUME MergeInv, NEW h \in DOMAIN merged, NEW p \in Permilles, merged[h].total_count > 0,
                    NEW rank, rank = (p * merged[h].total_count) \div 1000 + 1
             PROVE  LET exact == Ranked(h, rank)
                        twice == TwicePercentile(merged[h], p)
                    IN /\ exact < Edge => twice = Edge
                       /\ Edge <= exact /\ exact < UpperEdge[NumBuckets - 1] =>
                              3 * exact < 2 * twice /\ twice <= 3 * exact
                       /\ exact >= UpperEdge[NumBuckets - 1] => twice < 2 * exact
  BY DEF PercentileWithinBucket
<1>1. merged # EmptyTracker
  <2>1. ASSUME merged = EmptyTracker PROVE FALSE
    <3>1. merged[h] = EmptyHistogram
      BY <2>1 DEF EmptyTracker
    <3>2. merged[h].total_count = 0
      BY <3>1 DEF EmptyHistogram
    <3> QED BY <3>2
  <2> QED BY <2>1
<1>2. PICK hist : /\ hist = merged[h]
                  /\ hist.total_count = In(samples, h, Nat) /\ DOMAIN hist.counts = Buckets
                  /\ \A k \in Buckets : hist.counts[k] = In(samples, h, BucketRange(k))
  BY <1>1, MergedHolds
<1>3. IsBreakdownBag(samples)
  BY DEF MergeInv
<1>4. PICK n \in Nat : n = hist.total_count /\ n = In(samples, h, Nat) /\ n > 0
  BY <1>2, <1>3, InNat
<1>5. PICK target \in Nat : target = (p * n) \div 1000 /\ target + 1 <= n
  <2>1. ASSUME NEW q \in {500, 950, 990, 999}
        PROVE  (q * n) \div 1000 \in Nat /\ (q * n) \div 1000 + 1 <= n
    <3>1. CASE q = 500
      BY <1>4, <3>1
    <3>2. CASE q = 950
      BY <1>4, <3>2
    <3>3. CASE q = 990
      BY <1>4, <3>3
    <3>4. CASE q = 999
      BY <1>4, <3>4
    <3> QED BY <2>1, <3>1, <3>2, <3>3, <3>4
  <2> QED BY <2>1 DEF Permilles
<1>6. PICK x \in Nat : /\ x = Ranked(h, target + 1)
                       /\ \A m \in Nat : In(samples, h, 0 .. m) >= target + 1 <=> x <= m
  BY ONLY <1>3, <1>4, <1>5, RankedIs
<1>7. ASSUME NEW k \in Buckets
      PROVE  UpTo(hist, k) > target <=> k = NumBuckets - 1 \/ x < UpperEdge[k]
  <2>1. UpTo(hist, k) = In(samples, h, IF k = NumBuckets - 1 THEN Nat ELSE 0 .. UpperEdge[k] - 1)
    BY <1>2, <1>3, UpToIs
  <2>2. CASE k = NumBuckets - 1
    <3>1. UpTo(hist, k) = n
      BY <1>4, <2>1, <2>2
    <3> QED BY <1>5, <2>2, <3>1
  <2>3. CASE k # NumBuckets - 1
    <3>1. PICK u \in Nat : u = UpperEdge[k] /\ u > 0
      BY EdgesPositive
    <3>2. u - 1 \in Nat
      BY <3>1
    <3>3. UpTo(hist, k) = In(samples, h, 0 .. u - 1)
      BY <2>1, <2>3, <3>1
    <3>4. In(samples, h, 0 .. u - 1) >= target + 1 <=> x <= u - 1
      BY <1>6, <3>2
    <3>5. In(samples, h, 0 .. u - 1) \in Nat
      BY <1>3, InNat
    <3> QED BY ONLY <2>3, <3>1, <3>3, <3>4, <3>5, target \in Nat, x \in Nat, u \in Nat
  <2> QED BY <2>2, <2>3
<1> DEFINE above == {b \in Buckets : UpTo(hist, b) > target}
<1>8. above # {} /\ Min(above) = Bucket(x)
  BY <1>7, FirstAbove
<1>t. Target(hist, p) = target /\ rank = target + 1
  BY <1>2, <1>4, <1>5 DEF Target
<1>9. TwicePercentile(hist, p) =
         IF hist.total_count = 0 THEN 0
         ELSE IF above = {} THEN 2 * UpperEdge[NumBuckets - 2]
         ELSE IF Min(above) = 0 THEN Edge
         ELSE UpperEdge[Min(above) - 1] + UpperEdge[Min(above)]
  BY ONLY <1>t, Zenon DEF TwicePercentile, above
<1> HIDE DEF above
<1>10. TwicePercentile(hist, p) =
          IF Bucket(x) = 0 THEN Edge ELSE UpperEdge[Bucket(x) - 1] + UpperEdge[Bucket(x)]
  <2>1. hist.total_count # 0
    BY <1>4
  <2>2. PICK m : m = Bucket(x) /\ m = Min(above)
    BY <1>8
  <2>3. TwicePercentile(hist, p) = IF m = 0 THEN Edge ELSE UpperEdge[m - 1] + UpperEdge[m]
    BY ONLY <1>8, <1>9, <2>1, <2>2
  <2> QED BY ONLY <2>2, <2>3
<1>11. PICK twice : twice = TwicePercentile(hist, p)
  OBVIOUS
<1>12. /\ x < Edge => twice = Edge
       /\ Edge <= x /\ x < UpperEdge[NumBuckets - 1] => 3 * x < 2 * twice /\ twice <= 3 * x
       /\ x >= UpperEdge[NumBuckets - 1] => twice < 2 * x
  BY ONLY <1>10, <1>11, WithinEdges, x \in Nat
<1>13. x = Ranked(h, rank) /\ twice = TwicePercentile(merged[h], p)
  BY ONLY <1>2, <1>6, <1>t, <1>11, Zenon
<1> QED BY ONLY <1>12, <1>13, Zenon

\* A percentile that the benchmark reports is the true one within the width of
\* its bucket (LatencyHistogram::record, merge and percentile_us).
THEOREM StatsPercentileWithinBucket == Spec => []PercentileWithinBucket
<1>1. Spec => []MergeInv
  BY MergeInit, MergeInvStep, PTL DEF Spec
<1> QED BY <1>1, PercentileImplies, PTL

-----------------------------------------------------------------------------
(* WorkloadGenerator *)

\* Every draw finds a key, because the last entry of the table is 1.0.
LEMMA IndexExists ==
    ASSUME NEW u \in 0 .. One
    PROVE  NextIndex(u) \in 0 .. NumKeys - 1
<1> DEFINE reached == {i \in 0 .. NumKeys - 1 : ~ Cdf(i) < u}
<1>1. Cdf(NumKeys - 1) = One /\ ~ One < u /\ NumKeys - 1 \in 0 .. NumKeys - 1
  BY GeneratorAssumption DEF Cdf
<1>2. NumKeys - 1 \in reached /\ reached \subseteq Nat
  BY <1>1
<1>3. Min(reached) \in reached
  <2> HIDE DEF reached
  <2> QED BY <1>2, MinFacts
<1>4. NextIndex(u) = Min(reached)
  BY <1>2 DEF NextIndex
<1> QED BY <1>3, <1>4

GenOps == [type : {"GET", "PUT"}, kind : {"scan", "key"}, key : Nat, value : Nat]

GenTyped ==
    /\ config \in Configs
    /\ draws \in [scan : Nat, op : Nat]
    /\ scan_remaining \in Nat /\ scan_offset \in Nat /\ ops_generated \in Nat
    /\ generated \in Seq(GenOps) /\ planned \in Seq(GenOps)

\* The keys that next() will still emit are the ones planned.
PlanFollowed ==
    /\ Len(planned) = Len(generated) + scan_remaining
    /\ \A n \in 1 .. Len(generated) : planned[n] = generated[n]
    /\ \A n \in 1 .. scan_remaining :
          planned[Len(generated) + n] = ScanKey(scan_offset + scan_remaining - n)

\* A write's value is named after the count, which grows.
ValuesFresh ==
    /\ \A n \in 1 .. Len(generated) :
          /\ generated[n].value <= ops_generated
          /\ generated[n].type = "PUT" => generated[n].value > 0
    /\ \A m, n \in 1 .. Len(generated) :
          generated[m].type = "PUT" /\ generated[m].value = generated[n].value => m = n

\* Every draw that triggers a scan has added a burst, every other one an operation.
ShareCounted ==
    /\ draws.scan <= ScanDraws(config).trigger
    /\ Cardinality(Scans) + scan_remaining = (ScanDraws(config).trigger - draws.scan) * config.scan_length
    /\ Len(generated) = Cardinality(Scans) + (ScanDraws(config).cycle - ScanDraws(config).trigger - draws.op)

GenInv == GenTyped /\ GeneratedKeysExist /\ PlanFollowed /\ ValuesFresh /\ ShareCounted

LEMMA ScanDrawsType ==
    ASSUME NEW c \in Configs
    PROVE  /\ c.part \in Nat /\ c.whole \in Nat /\ c.part <= c.whole /\ c.scan_length \in Nat /\ c.scan_length > 0
           /\ ScanDraws(c).trigger = c.part /\ ScanDraws(c).cycle \in Nat /\ c.part <= ScanDraws(c).cycle
<1>1. /\ c.part \in Nat /\ c.whole \in Nat /\ c.whole > 0 /\ c.part <= c.whole
      /\ c.scan_length \in Nat /\ c.scan_length > 0
  BY GeneratorAssumption
<1>2. c.scan_length * (c.whole - c.part) \in Nat
  <2>1. PICK k \in Nat : k = c.whole - c.part
    BY <1>1
  <2> QED BY <1>1, <2>1
<1> QED BY <1>1, <1>2 DEF ScanDraws

LEMMA ScanKeyType ==
    ASSUME NEW n \in Nat
    PROVE  /\ ScanKey(n) \in GenOps /\ ScanKey(n).kind = "scan" /\ ScanKey(n).type = "GET"
           /\ ScanKey(n).value = 0
BY DEF ScanKey, GenOps

\* Appending an operation: the keys, the values and the number of scans.
LEMMA Emit ==
    ASSUME NEW g \in Seq(GenOps), NEW op \in GenOps, NEW h, h = Append(g, op)
    PROVE  /\ h \in Seq(GenOps) /\ Len(h) = Len(g) + 1 /\ Len(g) \in Nat
           /\ h[Len(g) + 1] = op /\ \A n \in 1 .. Len(g) : h[n] = g[n] /\ g[n] \in GenOps
           /\ DOMAIN g = 1 .. Len(g) /\ DOMAIN h = 1 .. Len(g) + 1
BY AppendProperties, LenProperties, ElementOfSeq

ScansOf(g) == {n \in DOMAIN g : g[n].kind = "scan"}

LEMMA EmitScans ==
    ASSUME NEW g \in Seq(GenOps), NEW op \in GenOps, NEW h, h = Append(g, op)
    PROVE  /\ Cardinality(ScansOf(g)) \in Nat
           /\ Cardinality(ScansOf(h)) = Cardinality(ScansOf(g)) + (IF op.kind = "scan" THEN 1 ELSE 0)
<1>1. /\ Len(g) \in Nat /\ h[Len(g) + 1] = op /\ \A n \in 1 .. Len(g) : h[n] = g[n]
      /\ DOMAIN g = 1 .. Len(g) /\ DOMAIN h = 1 .. Len(g) + 1
  BY Emit
<1>2. PICK a, b : a = ScansOf(g) /\ b = ScansOf(h)
  OBVIOUS
<1>3. IsFiniteSet(a) /\ Cardinality(a) \in Nat
  <2>1. IsFiniteSet(1 .. Len(g)) /\ a \subseteq 1 .. Len(g)
    BY <1>1, <1>2, FS_Interval DEF ScansOf
  <2> QED BY <2>1, FS_Subset, FS_CardinalityType
<1>4. CASE op.kind = "scan"
  <2>1. b = a \cup {Len(g) + 1} /\ Len(g) + 1 \notin a
    BY <1>1, <1>2, <1>4 DEF ScansOf
  <2>2. Cardinality(a \cup {Len(g) + 1}) = Cardinality(a) + 1
    BY <1>3, <2>1, FS_AddElement
  <2> QED BY ONLY <1>2, <1>3, <1>4, <2>1, <2>2
<1>5. CASE op.kind # "scan"
  <2>1. b = a
    BY <1>1, <1>2, <1>5 DEF ScansOf
  <2> QED BY ONLY <1>2, <1>3, <1>5, <2>1
<1> QED BY <1>4, <1>5

\* What every step of next() does to the keys and the values: it appends one
\* operation whose key exists, and a write's value is above all earlier ones.
LEMMA EmitKeeps ==
    ASSUME GenTyped, GeneratedKeysExist, ValuesFresh, NEW op \in GenOps,
           generated' = Append(generated, op), ops_generated' \in Nat, ops_generated <= ops_generated',
           op.kind = "key" => op.key \in 0 .. NumKeys - 1,
           op.value <= ops_generated',
           op.type = "PUT" => op.value > ops_generated,
           op.type = "GET" => op.value = 0
    PROVE  generated' \in Seq(GenOps) /\ GeneratedKeysExist' /\ ValuesFresh'
<1>1. PICK g \in Seq(GenOps), k \in Nat : g = generated /\ k = Len(g)
  BY LenProperties DEF GenTyped
<1>2. PICK h : h = generated'
  OBVIOUS
<1>3. /\ h \in Seq(GenOps) /\ Len(h) = k + 1
      /\ h[k + 1] = op /\ (\A n \in 1 .. k : h[n] = g[n] /\ g[n] \in GenOps)
      /\ DOMAIN g = 1 .. k /\ DOMAIN h = 1 .. k + 1
  BY <1>1, <1>2, Emit
<1>4. GeneratedKeysExist'
  <2>1. \A n \in 1 .. k : g[n].kind = "key" => g[n].key \in 0 .. NumKeys - 1
    BY <1>1, <1>3 DEF GeneratedKeysExist
  <2>2. ASSUME NEW n \in 1 .. k + 1 PROVE h[n].kind = "key" => h[n].key \in 0 .. NumKeys - 1
    <3>1. n = k + 1 \/ n \in 1 .. k
      OBVIOUS
    <3> QED BY ONLY <1>3, <2>1, <3>1, op.kind = "key" => op.key \in 0 .. NumKeys - 1
  <2> QED BY <1>2, <1>3, <2>2 DEF GeneratedKeysExist
<1>5. ValuesFresh'
  <2>1. /\ \A n \in 1 .. k : g[n].value <= ops_generated /\ (g[n].type = "PUT" => g[n].value > 0)
        /\ \A m, n \in 1 .. k : g[m].type = "PUT" /\ g[m].value = g[n].value => m = n
    BY <1>1 DEF ValuesFresh
  <2>2. \A n \in 1 .. k : g[n].value \in Nat
    BY <1>3 DEF GenOps
  <2>3. op.value \in Nat /\ op.type \in {"GET", "PUT"} /\ ops_generated \in Nat
    BY DEF GenOps, GenTyped
  <2>4. \A n \in 1 .. k + 1 : n = k + 1 \/ n \in 1 .. k
    OBVIOUS
  <2>5. ASSUME NEW n \in 1 .. k + 1
        PROVE  h[n].value <= ops_generated' /\ (h[n].type = "PUT" => h[n].value > 0)
    <3>1. CASE n = k + 1
      BY <1>3, <2>3, <3>1
    <3>2. CASE n \in 1 .. k
      <4>1. h[n] = g[n] /\ g[n].value <= ops_generated /\ g[n].value \in Nat /\ (g[n].type = "PUT" => g[n].value > 0)
        BY <1>3, <2>1, <2>2, <3>2
      <4>2. PICK v \in Nat : v = g[n].value
        BY <4>1
      <4>3. v <= ops_generated'
        BY ONLY <2>3, <4>1, <4>2, ops_generated' \in Nat, ops_generated <= ops_generated'
      <4> QED BY ONLY <4>1, <4>2, <4>3
    <3> QED BY <2>4, <3>1, <3>2
  <2>6. ASSUME NEW m \in 1 .. k + 1, NEW n \in 1 .. k + 1, h[m].type = "PUT", h[m].value = h[n].value
        PROVE  m = n
    <3>1. CASE m = k + 1 /\ n = k + 1
      BY <3>1
    <3>2. CASE m \in 1 .. k /\ n \in 1 .. k
      BY ONLY <1>3, <2>1, <2>6, <3>2
    <3>3. CASE m = k + 1 /\ n \in 1 .. k
      <4>1. op.value > ops_generated /\ g[n].value <= ops_generated /\ op.value = g[n].value /\ g[n].value \in Nat
        BY <1>3, <2>1, <2>2, <2>6, <3>3
      <4> QED BY ONLY <2>3, <4>1
    <3>4. CASE m \in 1 .. k /\ n = k + 1
      <4>1. g[m].value > 0 /\ g[m].value <= ops_generated /\ op.value = g[m].value
        BY <1>3, <2>1, <2>6, <3>4
      <4>2. CASE op.type = "PUT"
        BY <2>3, <4>1, <4>2
      <4>3. CASE op.type = "GET"
        BY <2>3, <4>1, <4>3
      <4> QED BY <2>3, <4>2, <4>3
    <3> QED BY <2>4, <3>1, <3>2, <3>3, <3>4
  <2> QED BY <1>2, <1>3, <2>5, <2>6 DEF ValuesFresh
<1> QED BY <1>2, <1>3, <1>4, <1>5

LEMMA GenInitInv == GenInit => GenInv
<1> SUFFICES ASSUME GenInit PROVE GenInv
  OBVIOUS
<1>1. /\ config \in Configs /\ scan_remaining = 0 /\ scan_offset = 0 /\ ops_generated = 0
      /\ generated = <<>> /\ planned = <<>>
      /\ draws = [scan |-> ScanDraws(config).trigger,
                  op |-> ScanDraws(config).cycle - ScanDraws(config).trigger]
  BY DEF GenInit
<1>2. PICK t \in Nat, c \in Nat : t = ScanDraws(config).trigger /\ c = ScanDraws(config).cycle /\ t <= c
  BY <1>1, ScanDrawsType
<1>3. draws.scan = t /\ draws.op = c - t /\ draws \in [scan : Nat, op : Nat]
  BY <1>1, <1>2
<1>4. GenTyped
  <2>1. <<>> \in Seq(GenOps)
    OBVIOUS
  <2> QED BY ONLY <1>1, <1>3, <2>1 DEF GenTyped
<1>5. Len(generated) = 0 /\ Len(planned) = 0 /\ DOMAIN generated = {}
  BY <1>1
<1>6. GeneratedKeysExist /\ PlanFollowed /\ ValuesFresh
  BY <1>1, <1>5 DEF GeneratedKeysExist, PlanFollowed, ValuesFresh
<1>7. Cardinality(Scans) = 0
  <2>1. Scans = {}
    BY <1>5 DEF Scans
  <2> QED BY <2>1, FS_EmptySet
<1>8. ShareCounted
  <2>1. PICK l \in Nat : l = config.scan_length
    BY <1>1, ScanDrawsType
  <2>2. t <= t /\ 0 + 0 = (t - t) * l /\ 0 = 0 + (c - t - (c - t))
    OBVIOUS
  <2> QED BY ONLY <1>1, <1>2, <1>3, <1>5, <1>7, <2>1, <2>2 DEF ShareCounted
<1> QED BY <1>4, <1>6, <1>8 DEF GenInv

LEMMA NextScanStep ==
    ASSUME GenInv, NextScan
    PROVE  GenInv'
<1>1. PICK op : op = ScanKey(scan_offset + scan_remaining - 1)
  OBVIOUS
<1>2. /\ scan_remaining > 0 /\ ops_generated' = ops_generated + 1 /\ scan_remaining' = scan_remaining - 1
      /\ generated' = Append(generated, op)
      /\ config' = config /\ draws' = draws /\ scan_offset' = scan_offset /\ planned' = planned
  BY <1>1 DEF NextScan
<1>3. /\ config \in Configs /\ draws \in [scan : Nat, op : Nat] /\ scan_remaining \in Nat /\ scan_offset \in Nat
      /\ ops_generated \in Nat /\ generated \in Seq(GenOps) /\ planned \in Seq(GenOps)
  BY DEF GenInv, GenTyped
<1>4. scan_offset + scan_remaining - 1 \in Nat
  BY <1>2, <1>3
<1>5. op \in GenOps /\ op.kind = "scan" /\ op.type = "GET" /\ op.value = 0
  BY <1>1, <1>4, ScanKeyType
<1>6. generated' \in Seq(GenOps) /\ GeneratedKeysExist' /\ ValuesFresh'
  <2>1. ops_generated' \in Nat /\ ops_generated <= ops_generated' /\ op.value <= ops_generated'
    BY <1>2, <1>3, <1>5
  <2> QED BY <1>2, <1>5, <2>1, EmitKeeps DEF GenInv
<1>7. GenTyped'
  BY <1>2, <1>3, <1>6 DEF GenTyped
<1>8a. PICK h : h = generated'
  OBVIOUS
<1>8. PICK g \in Seq(GenOps), k \in Nat : g = generated /\ k = Len(g)
  BY <1>3, LenProperties
<1>9. Len(h) = k + 1 /\ h[k + 1] = op /\ \A n \in 1 .. k : h[n] = g[n]
  BY <1>2, <1>5, <1>8, <1>8a, Emit
<1>10. PlanFollowed'
  <2>1. /\ Len(planned) = k + scan_remaining
        /\ \A n \in 1 .. k : planned[n] = g[n]
        /\ \A n \in 1 .. scan_remaining : planned[k + n] = ScanKey(scan_offset + scan_remaining - n)
    BY <1>8 DEF GenInv, PlanFollowed
  <2>2. Len(planned) = (k + 1) + (scan_remaining - 1)
    BY ONLY <1>3, <2>1, k \in Nat
  <2>3. planned[k + 1] = op
    <3>1. 1 \in 1 .. scan_remaining
      BY ONLY <1>2, <1>3
    <3>2. planned[k + 1] = ScanKey(scan_offset + scan_remaining - 1)
      BY ONLY <2>1, <3>1
    <3> QED BY <1>1, <3>2
  <2>4. ASSUME NEW n \in 1 .. k + 1 PROVE planned[n] = h[n]
    <3>1. n = k + 1 \/ n \in 1 .. k
      OBVIOUS
    <3> QED BY ONLY <1>9, <2>1, <2>3, <3>1
  <2>5. ASSUME NEW n \in 1 .. scan_remaining - 1
        PROVE  planned[(k + 1) + n] = ScanKey(scan_offset + (scan_remaining - 1) - n)
    <3>1. n + 1 \in 1 .. scan_remaining
      BY <1>3
    <3>2. planned[k + (n + 1)] = ScanKey(scan_offset + scan_remaining - (n + 1))
      BY <2>1, <3>1
    <3>3. k + (n + 1) = (k + 1) + n /\ scan_offset + scan_remaining - (n + 1) = scan_offset + (scan_remaining - 1) - n
      BY <1>3
    <3> QED BY ONLY <3>2, <3>3
  <2> QED BY ONLY <1>2, <1>8a, <1>9, <2>2, <2>4, <2>5 DEF PlanFollowed
<1>11. ShareCounted'
  <2>1. Cardinality(Scans) \in Nat /\ Cardinality(Scans') = Cardinality(Scans) + 1
    <3>1. Scans = ScansOf(generated) /\ Scans' = ScansOf(generated')
      BY DEF Scans, ScansOf
    <3> QED BY <1>2, <1>3, <1>5, <3>1, EmitScans
  <2>2. PICK s \in Nat, w \in Nat : s = Cardinality(Scans) /\ w = Cardinality(Scans') /\ w = s + 1
    BY <2>1
  <2>3. PICK t \in Nat, c \in Nat, d \in Nat, o \in Nat, x \in Int :
           /\ t = ScanDraws(config).trigger /\ c = ScanDraws(config).cycle
           /\ d = draws.scan /\ o = draws.op
           /\ x = (t - d) * config.scan_length
    <3>1. PICK t \in Nat, c \in Nat, d \in Nat, o \in Nat, l \in Nat :
             /\ t = ScanDraws(config).trigger /\ c = ScanDraws(config).cycle
             /\ d = draws.scan /\ o = draws.op /\ l = config.scan_length
      BY <1>3, ScanDrawsType
    <3>2. (t - d) * l \in Int
      OBVIOUS
    <3> QED BY <3>1, <3>2
  <2>4. d <= t /\ s + scan_remaining = x /\ k = s + (c - t - o)
    BY <1>8, <2>2, <2>3 DEF GenInv, ShareCounted
  <2>5. w + (scan_remaining - 1) = x /\ k + 1 = w + (c - t - o)
    <3>1. PICK r \in Nat : r = scan_remaining
      BY <1>3
    <3>2. s + r = x /\ k = s + (c - t - o) /\ w = s + 1
      BY ONLY <2>2, <2>4, <3>1
    <3>3. w + (r - 1) = x /\ k + 1 = w + (c - t - o)
      BY ONLY <3>2, k \in Nat, c \in Nat, t \in Nat, o \in Nat, s \in Nat, r \in Nat
    <3> QED BY ONLY <3>1, <3>3
  <2> QED BY ONLY <1>2, <1>8a, <1>9, <2>2, <2>3, <2>4, <2>5 DEF ShareCounted
<1> QED BY <1>6, <1>7, <1>10, <1>11 DEF GenInv

LEMMA NextStartsScanStep ==
    ASSUME GenInv, NEW offset \in Offsets, NextStartsScan(offset)
    PROVE  GenInv'
<1>0. config \in Configs /\ offset \in Nat
  BY GeneratorAssumption DEF GenInv, GenTyped
<1>1. PICK l \in Nat : l = config.scan_length /\ l > 0
  BY <1>0, ScanDrawsType
<1>2. PICK op : op = ScanKey(offset + l - 1)
  OBVIOUS
<1>3. PICK b : b = [n \in 1 .. l |-> ScanKey(offset + l - n)]
  OBVIOUS
<1>4. /\ scan_remaining = 0 /\ draws.scan > 0 /\ draws' = [draws EXCEPT !.scan = @ - 1]
      /\ ops_generated' = ops_generated + 2 /\ scan_remaining' = l - 1 /\ scan_offset' = offset
      /\ generated' = Append(generated, op) /\ planned' = planned \o b /\ config' = config
  BY <1>1, <1>2, <1>3 DEF NextStartsScan, Burst
<1>5. /\ config \in Configs /\ draws \in [scan : Nat, op : Nat]
      /\ ops_generated \in Nat /\ generated \in Seq(GenOps) /\ planned \in Seq(GenOps)
  BY DEF GenInv, GenTyped
<1>6. op \in GenOps /\ op.kind = "scan" /\ op.type = "GET" /\ op.value = 0
  <2>1. offset + l - 1 \in Nat
    BY <1>0, <1>1
  <2> QED BY <1>2, <2>1, ScanKeyType
<1>7. b \in Seq(GenOps) /\ Len(b) = l /\ \A n \in 1 .. l : b[n] = ScanKey(offset + l - n)
  <2>1. ASSUME NEW n \in 1 .. l PROVE ScanKey(offset + l - n) \in GenOps
    <3>1. offset + l - n \in Nat
      BY <1>0
    <3> QED BY <3>1, ScanKeyType
  <2>2. b \in [1 .. l -> GenOps]
    BY <1>3, <2>1
  <2>3. b \in Seq(GenOps)
    BY <2>2
  <2>4. DOMAIN b = 1 .. l
    BY <1>3
  <2> QED BY <1>3, <2>3, <2>4
<1>8. generated' \in Seq(GenOps) /\ GeneratedKeysExist' /\ ValuesFresh'
  <2>1. ops_generated' \in Nat /\ ops_generated <= ops_generated' /\ op.value <= ops_generated'
    BY <1>4, <1>5, <1>6
  <2> QED BY <1>4, <1>6, <2>1, EmitKeeps DEF GenInv
<1>9. draws'.scan = draws.scan - 1 /\ draws'.op = draws.op /\ draws' \in [scan : Nat, op : Nat]
  <2>1. draws.scan \in Nat /\ draws.op \in Nat
    BY ONLY <1>5
  <2>2. draws.scan - 1 \in Nat
    BY ONLY <1>4, <2>1
  <2>3. draws' = [draws EXCEPT !.scan = draws.scan - 1] /\ draws \in [scan : Nat, op : Nat]
    BY ONLY <1>4, <1>5
  <2> QED BY ONLY <2>2, <2>3
<1>10. GenTyped'
  <2>1. planned \o b \in Seq(GenOps) /\ l - 1 \in Nat
    BY <1>1, <1>5, <1>7
  <2>2. /\ config' \in Configs /\ scan_remaining' \in Nat /\ scan_offset' \in Nat /\ ops_generated' \in Nat
        /\ planned' \in Seq(GenOps)
    <3>1. ops_generated + 2 \in Nat
      BY <1>5
    <3>2. /\ config' = config /\ scan_remaining' = l - 1 /\ scan_offset' = offset
          /\ ops_generated' = ops_generated + 2 /\ planned' = planned \o b
      BY ONLY <1>4, Zenon
    <3> QED BY ONLY <1>0, <2>1, <3>1, <3>2, Zenon
  <2> QED BY ONLY <1>8, <1>9, <2>2 DEF GenTyped
<1>11a. PICK h : h = generated'
  OBVIOUS
<1>11. PICK g \in Seq(GenOps), k \in Nat : g = generated /\ k = Len(g)
  BY <1>5, LenProperties
<1>12. Len(h) = k + 1 /\ h[k + 1] = op /\ \A n \in 1 .. k : h[n] = g[n]
  BY <1>4, <1>6, <1>11, <1>11a, Emit
<1>13. PlanFollowed'
  <2>1. Len(planned) = k /\ \A n \in 1 .. k : planned[n] = g[n]
    BY <1>4, <1>11 DEF GenInv, PlanFollowed
  <2>2. PICK p : p = planned'
    OBVIOUS
  <2>3. /\ Len(p) = k + l /\ (\A n \in 1 .. k : p[n] = planned[n])
        /\ \A n \in 1 .. l : p[k + n] = b[n]
    <3>1. p = planned \o b
      BY <1>4, <2>2
    <3>2. /\ Len(p) = Len(planned) + Len(b)
          /\ \A i \in 1 .. Len(planned) + Len(b) :
                p[i] = IF i <= Len(planned) THEN planned[i] ELSE b[i - Len(planned)]
      BY <1>5, <1>7, <3>1, ConcatProperties
    <3>3. /\ Len(p) = k + l
          /\ \A i \in 1 .. k + l : p[i] = IF i <= k THEN planned[i] ELSE b[i - k]
      BY <1>7, <2>1, <3>2
    <3>4. ASSUME NEW n \in 1 .. l PROVE p[k + n] = b[n]
      <4>1. k + n \in 1 .. k + l /\ ~ k + n <= k /\ (k + n) - k = n
        OBVIOUS
      <4> QED BY ONLY <3>3, <4>1
    <3>5. \A n \in 1 .. k : n \in 1 .. k + l /\ n <= k
      OBVIOUS
    <3> QED BY ONLY <3>3, <3>4, <3>5
  <2>4. p[k + 1] = op
    BY <1>1, <1>2, <1>7, <2>3
  <2>5. ASSUME NEW n \in 1 .. k + 1 PROVE p[n] = h[n]
    <3>1. n = k + 1 \/ n \in 1 .. k
      OBVIOUS
    <3> QED BY ONLY <1>12, <2>1, <2>3, <2>4, <3>1
  <2>6. ASSUME NEW n \in 1 .. l - 1 PROVE p[(k + 1) + n] = ScanKey(offset + (l - 1) - n)
    <3>1. n + 1 \in 1 .. l
      OBVIOUS
    <3>2. p[k + (n + 1)] = ScanKey(offset + l - (n + 1))
      BY ONLY <1>7, <2>3, <3>1
    <3>3. k + (n + 1) = (k + 1) + n /\ offset + l - (n + 1) = offset + (l - 1) - n
      BY <1>0
    <3> QED BY ONLY <3>2, <3>3
  <2>7. Len(p) = (k + 1) + (l - 1)
    BY <2>3
  <2> QED BY ONLY <1>4, <1>11a, <1>12, <2>2, <2>5, <2>6, <2>7 DEF PlanFollowed
<1>14. ShareCounted'
  <2>1. Cardinality(Scans) \in Nat /\ Cardinality(Scans') = Cardinality(Scans) + 1
    <3>1. Scans = ScansOf(generated) /\ Scans' = ScansOf(generated')
      BY DEF Scans, ScansOf
    <3> QED BY <1>4, <1>5, <1>6, <3>1, EmitScans
  <2>2. PICK s \in Nat, w \in Nat : s = Cardinality(Scans) /\ w = Cardinality(Scans') /\ w = s + 1
    BY <2>1
  <2>3. PICK t \in Nat, c \in Nat, d \in Nat, o \in Nat :
           /\ t = ScanDraws(config).trigger /\ c = ScanDraws(config).cycle
           /\ d = draws.scan /\ o = draws.op
    BY <1>5, ScanDrawsType
  <2>4. d <= t /\ s + scan_remaining = (t - d) * l /\ k = s + (c - t - o)
    BY <1>1, <1>11, <2>2, <2>3 DEF GenInv, ShareCounted
  <2>5. (t - (d - 1)) * l = (t - d) * l + l
    OBVIOUS
  <2>6. PICK x \in Int : x = (t - d) * l
    OBVIOUS
  <2>7. d - 1 <= t /\ w + (l - 1) = (t - (d - 1)) * l /\ k + 1 = w + (c - t - o)
    <3>1. s + 0 = x /\ k = s + (c - t - o) /\ w = s + 1 /\ d <= t
      BY ONLY <1>4, <2>2, <2>4, <2>6
    <3>2. d - 1 <= t /\ w + (l - 1) = x + l /\ k + 1 = w + (c - t - o)
      BY ONLY <3>1, k \in Nat, c \in Nat, t \in Nat, o \in Nat, s \in Nat, d \in Nat, l \in Nat
    <3> QED BY ONLY <2>5, <2>6, <3>2
  <2> QED BY ONLY <1>1, <1>4, <1>9, <1>11a, <1>12, <2>2, <2>3, <2>7 DEF ShareCounted
<1> QED BY <1>8, <1>10, <1>13, <1>14 DEF GenInv

LEMMA NextOpStep ==
    ASSUME GenInv, NEW u \in 0 .. One, NEW type \in {"GET", "PUT"}, NextOp(u, type)
    PROVE  GenInv'
<1>1. PICK v \in Nat : v = IF type = "PUT" THEN ops_generated + 1 ELSE 0
  BY DEF GenInv, GenTyped
<1>2. PICK op : op = [type |-> type, kind |-> "key", key |-> NextIndex(u), value |-> v]
  OBVIOUS
<1>3. /\ scan_remaining = 0 /\ draws.op > 0 /\ draws' = [draws EXCEPT !.op = @ - 1]
      /\ ops_generated' = ops_generated + 1
      /\ generated' = Append(generated, op) /\ planned' = Append(planned, op)
      /\ config' = config /\ scan_remaining' = scan_remaining /\ scan_offset' = scan_offset
  BY <1>1, <1>2 DEF NextOp
<1>4. /\ config \in Configs /\ draws \in [scan : Nat, op : Nat] /\ scan_offset \in Nat
      /\ ops_generated \in Nat /\ generated \in Seq(GenOps) /\ planned \in Seq(GenOps)
  BY DEF GenInv, GenTyped
<1>5. op \in GenOps /\ op.kind = "key" /\ op.type = type /\ op.value = v /\ op.key \in 0 .. NumKeys - 1
  <2>1. NextIndex(u) \in 0 .. NumKeys - 1 /\ NextIndex(u) \in Nat
    BY IndexExists, GeneratorAssumption
  <2> QED BY <1>2, <2>1 DEF GenOps
<1>6. generated' \in Seq(GenOps) /\ GeneratedKeysExist' /\ ValuesFresh'
  <2>1. ops_generated' \in Nat /\ ops_generated <= ops_generated' /\ op.value <= ops_generated'
    BY <1>1, <1>3, <1>4, <1>5
  <2>2. op.type = "PUT" => op.value > ops_generated
    BY <1>1, <1>4, <1>5
  <2>3. op.type = "GET" => op.value = 0
    BY <1>1, <1>5
  <2>4. op.kind = "key" => op.key \in 0 .. NumKeys - 1
    BY <1>5
  <2>5. GenTyped /\ GeneratedKeysExist /\ ValuesFresh /\ op \in GenOps /\ generated' = Append(generated, op)
    BY <1>3, <1>5 DEF GenInv
  <2> QED BY ONLY <2>1, <2>2, <2>3, <2>4, <2>5, EmitKeeps
<1>7. draws'.scan = draws.scan /\ draws'.op = draws.op - 1 /\ draws' \in [scan : Nat, op : Nat]
  <2>1. draws.scan \in Nat /\ draws.op \in Nat
    BY ONLY <1>4
  <2>2. draws.op - 1 \in Nat
    BY ONLY <1>3, <2>1
  <2>3. draws' = [draws EXCEPT !.op = draws.op - 1] /\ draws \in [scan : Nat, op : Nat]
    BY ONLY <1>3, <1>4
  <2> QED BY ONLY <2>2, <2>3
<1>8. PICK h, p : h = generated' /\ p = planned'
  OBVIOUS
<1>9. PICK g \in Seq(GenOps), k \in Nat : g = generated /\ k = Len(g)
  BY <1>4, LenProperties
<1>10. PICK q \in Seq(GenOps) : q = planned
  BY <1>4
<1>11. Len(h) = k + 1 /\ h[k + 1] = op /\ \A n \in 1 .. k : h[n] = g[n]
  BY <1>3, <1>5, <1>8, <1>9, Emit
<1>12. Len(q) = k /\ \A n \in 1 .. k : q[n] = g[n]
  BY <1>3, <1>9, <1>10 DEF GenInv, PlanFollowed
<1>13. p \in Seq(GenOps) /\ Len(p) = k + 1 /\ p[k + 1] = op /\ \A n \in 1 .. k : p[n] = q[n]
  <2>1. p = Append(q, op)
    BY <1>3, <1>8, <1>10
  <2>2. p \in Seq(GenOps) /\ Len(p) = Len(q) + 1 /\ p[Len(q) + 1] = op /\ \A n \in 1 .. Len(q) : p[n] = q[n]
    BY <1>5, <2>1, Emit
  <2> QED BY ONLY <1>12, <2>2
<1>14. GenTyped'
  <2>1. /\ config' \in Configs /\ scan_remaining' \in Nat /\ scan_offset' \in Nat /\ ops_generated' \in Nat
        /\ planned' \in Seq(GenOps)
    <3>1. ops_generated + 1 \in Nat /\ 0 \in Nat
      BY <1>4
    <3>2. /\ config' = config /\ scan_remaining' = 0 /\ scan_offset' = scan_offset
          /\ ops_generated' = ops_generated + 1 /\ planned' = p
      BY ONLY <1>3, <1>8, Zenon
    <3>3. config \in Configs /\ scan_offset \in Nat /\ p \in Seq(GenOps)
      BY ONLY <1>4, <1>13, Zenon
    <3> QED BY ONLY <3>1, <3>2, <3>3, Zenon
  <2> QED BY ONLY <1>6, <1>7, <2>1 DEF GenTyped
<1>15. PlanFollowed'
  <2>1. ASSUME NEW n \in 1 .. k + 1 PROVE p[n] = h[n]
    <3>1. n = k + 1 \/ n \in 1 .. k
      OBVIOUS
    <3> QED BY ONLY <1>11, <1>12, <1>13, <3>1
  <2>2. k + 1 = (k + 1) + 0 /\ 1 .. 0 = {}
    OBVIOUS
  <2> QED BY ONLY <1>3, <1>8, <1>11, <1>13, <2>1, <2>2 DEF PlanFollowed
<1>16. ShareCounted'
  <2>1. Cardinality(Scans) \in Nat /\ Cardinality(Scans') = Cardinality(Scans)
    <3>1. Scans = ScansOf(generated) /\ Scans' = ScansOf(generated')
      BY DEF Scans, ScansOf
    <3>2. PICK a, b : a = Cardinality(ScansOf(generated)) /\ b = Cardinality(ScansOf(generated'))
      OBVIOUS
    <3>3. a \in Nat /\ b = a + 0
      BY <1>3, <1>4, <1>5, <3>2, EmitScans
    <3> QED BY ONLY <3>1, <3>2, <3>3
  <2>2. PICK s \in Nat : s = Cardinality(Scans) /\ s = Cardinality(Scans')
    BY <2>1
  <2>3. PICK t \in Nat, c \in Nat, d \in Nat, o \in Nat :
           /\ t = ScanDraws(config).trigger /\ c = ScanDraws(config).cycle
           /\ d = draws.scan /\ o = draws.op
    BY <1>4, ScanDrawsType
  <2>4. d <= t /\ s + scan_remaining = (t - d) * config.scan_length /\ k = s + (c - t - o)
    BY <1>9, <2>2, <2>3 DEF GenInv, ShareCounted
  <2>5. k + 1 = s + (c - t - (o - 1))
    BY ONLY <2>4, k \in Nat, c \in Nat, t \in Nat, o \in Nat, s \in Nat
  <2> QED BY ONLY <1>3, <1>7, <1>8, <1>11, <2>2, <2>3, <2>4, <2>5 DEF ShareCounted
<1> QED BY <1>6, <1>14, <1>15, <1>16 DEF GenInv

\* The generator's variables keep the invariant in every step of a workload.
LEMMA GenStep ==
    ASSUME GenInv, [WorkloadNext]_workloadVars
    PROVE  GenInv'
<1>1. CASE GenNext
  BY <1>1, NextScanStep, NextStartsScanStep, NextOpStep DEF GenNext
<1>2. CASE UNCHANGED genVars
  <2>1. /\ config' = config /\ draws' = draws /\ scan_remaining' = scan_remaining /\ scan_offset' = scan_offset
        /\ ops_generated' = ops_generated /\ generated' = generated /\ planned' = planned
    BY <1>2 DEF genVars
  <2> QED BY <2>1 DEF GenInv, GenTyped, GeneratedKeysExist, PlanFollowed, ValuesFresh, ShareCounted, Scans
<1> QED BY <1>1, <1>2 DEF WorkloadNext, TraceOnly, GeneratorOnly, workloadVars

LEMMA GenBursts == ASSUME GenInv PROVE BurstsAreWhole
<1>1. PICK g \in Seq(GenOps), p \in Seq(GenOps), k \in Nat, r \in Nat :
         g = generated /\ p = planned /\ k = Len(g) /\ r = scan_remaining
  BY LenProperties DEF GenInv, GenTyped
<1>2. Len(p) = k + r /\ \A n \in 1 .. k : p[n] = g[n]
  BY <1>1 DEF GenInv, PlanFollowed
<1>3. k <= k + r
  OBVIOUS
<1>4. SubSeq(g, 1, k) = SubSeq(p, 1, k)
  <2>1. SubSeq(g, 1, k) = [i \in 1 .. k |-> g[i]]
    OBVIOUS
  <2>2. SubSeq(p, 1, k) = [i \in 1 .. k |-> p[i]]
    OBVIOUS
  <2> QED BY ONLY <1>2, <2>1, <2>2
<1>5. IsPrefix(g, p)
  BY ONLY <1>1, <1>2, <1>3, <1>4 DEF IsPrefix
<1>6. DOMAIN g = 1 .. k
  BY <1>1, LenProperties
<1>7. \A m, n \in 1 .. k : g[m].type = "PUT" /\ g[m].value = g[n].value => m = n
  BY <1>1 DEF GenInv, ValuesFresh
<1> QED BY ONLY <1>1, <1>2, <1>5, <1>6, <1>7 DEF BurstsAreWhole

LEMMA GenShare == ASSUME GenInv PROVE ScanShareIsTarget
<1> SUFFICES ASSUME draws = [scan |-> 0, op |-> 0], scan_remaining = 0
             PROVE  config.whole * Cardinality(Scans) = config.part * Len(generated)
  BY DEF ScanShareIsTarget
<1>1. config \in Configs
  BY DEF GenInv, GenTyped
<1>2. draws.scan = 0 /\ draws.op = 0
  OBVIOUS
<1>3. PICK r \in Nat, w \in Nat, l \in Nat, c \in Nat :
        /\ r = config.part /\ w = config.whole /\ l = config.scan_length /\ r <= w /\ l > 0
        /\ c = ScanDraws(config).cycle /\ r = ScanDraws(config).trigger
  BY <1>1, ScanDrawsType
<1>4. Cardinality(Scans) + 0 = (r - 0) * l /\ Len(generated) = Cardinality(Scans) + (c - r - 0)
  BY <1>2, <1>3 DEF GenInv, ShareCounted
<1>5. PICK s \in Int, k \in Int : s = Cardinality(Scans) /\ k = Len(generated)
  <2>1. Cardinality(Scans) \in Nat
    <3>1. IsFiniteSet(1 .. Len(generated)) /\ Scans \subseteq 1 .. Len(generated)
      <4>1. PICK g \in Seq(GenOps) : g = generated
        BY DEF GenInv, GenTyped
      <4>2. DOMAIN g = 1 .. Len(g) /\ Len(g) \in Nat
        BY ONLY g \in Seq(GenOps), LenProperties
      <4>3. IsFiniteSet(1 .. Len(g))
        BY <4>2, FS_Interval
      <4>4. Scans \subseteq DOMAIN g
        BY <4>1 DEF Scans
      <4> QED BY ONLY <4>1, <4>2, <4>3, <4>4
    <3> QED BY <3>1, FS_Subset, FS_CardinalityType
  <2> QED BY <2>1, LenProperties DEF GenInv, GenTyped
<1>6. s = r * l /\ k = s + (c - r)
  BY ONLY <1>4, <1>5, r \in Nat, l \in Nat, c \in Nat, s \in Int, k \in Int
<1>7. CASE 0 < r /\ r < w
  <2>1. c = l * (w - r) + r
    BY <1>3, <1>7 DEF ScanDraws
  <2>2. c - r = l * (w - r)
    <3>1. PICK x \in Int : x = l * (w - r)
      OBVIOUS
    <3> QED BY ONLY <2>1, <3>1, r \in Nat, c \in Nat
  <2>3. k = r * l + l * (w - r)
    BY ONLY <1>6, <2>2
  <2>4. r * l + l * (w - r) = l * w
    BY ONLY r \in Nat, l \in Nat, w \in Nat
  <2>5. w * (r * l) = r * (l * w)
    BY ONLY r \in Nat, l \in Nat, w \in Nat
  <2> QED BY ONLY <1>3, <1>5, <1>6, <2>3, <2>4, <2>5
<1>8. CASE r = 0
  <2>1. s = 0
    BY ONLY <1>6, <1>8, l \in Nat
  <2>2. w * 0 = 0 * k
    OBVIOUS
  <2> QED BY ONLY <1>3, <1>5, <1>8, <2>1, <2>2
<1>9. CASE r = w
  <2>1. c = w
    BY <1>3, <1>9 DEF ScanDraws
  <2>2. k = s
    BY ONLY <1>6, <1>9, <2>1, w \in Nat, s \in Int
  <2> QED BY ONLY <1>3, <1>5, <1>9, <2>2
<1> QED BY ONLY <1>3, <1>7, <1>8, <1>9

\* Every key the Zipfian generator draws exists, for any table of weights and
\* any draw: ZipfianGenerator's constructor sets the last entry to 1.0.
THEOREM WorkloadKeysExist == WorkloadSpec => []GeneratedKeysExist
<1>1. WorkloadInit => GenInv
  BY GenInitInv DEF WorkloadInit
<1>2. GenInv /\ [WorkloadNext]_workloadVars => GenInv'
  BY GenStep
<1>3. GenInv => GeneratedKeysExist
  BY DEF GenInv
<1> QED BY <1>1, <1>2, <1>3, PTL DEF WorkloadSpec

\* next() emits every burst whole and gives every write a value of its own, for
\* any configuration and any order of the draws.
THEOREM WorkloadBurstsAreWhole == WorkloadSpec => []BurstsAreWhole
<1>1. WorkloadInit => GenInv
  BY GenInitInv DEF WorkloadInit
<1>2. GenInv /\ [WorkloadNext]_workloadVars => GenInv'
  BY GenStep
<1>3. GenInv => BurstsAreWhole
  BY GenBursts
<1> QED BY <1>1, <1>2, <1>3, PTL DEF WorkloadSpec

\* The correction of scan_probability for the burst length in
\* WorkloadGenerator's constructor makes the share of scan operations the
\* target, for every probability and every length.
THEOREM WorkloadScanShareIsTarget == WorkloadSpec => []ScanShareIsTarget
<1>1. WorkloadInit => GenInv
  BY GenInitInv DEF WorkloadInit
<1>2. GenInv /\ [WorkloadNext]_workloadVars => GenInv'
  BY GenStep
<1>3. GenInv => ScanShareIsTarget
  BY GenShare
<1> QED BY <1>1, <1>2, <1>3, PTL DEF WorkloadSpec

-----------------------------------------------------------------------------
(* TraceReader: the rank of a line number among those of a set *)

Rank(S, n) == Cardinality(S \cap 1 .. n)

LEMMA RankType ==
    ASSUME NEW S, NEW n \in Nat
    PROVE  IsFiniteSet(S \cap 1 .. n) /\ Rank(S, n) \in Nat
<1>1. IsFiniteSet(1 .. n)
  BY FS_Interval
<1>2. IsFiniteSet(S \cap 1 .. n)
  BY <1>1, FS_Subset
<1> QED BY <1>2, FS_CardinalityType DEF Rank

LEMMA RankZero == ASSUME NEW S PROVE Rank(S, 0) = 0
<1>1. S \cap 1 .. 0 = {}
  OBVIOUS
<1> QED BY <1>1, FS_EmptySet DEF Rank

LEMMA RankStep ==
    ASSUME NEW S, NEW n \in Nat
    PROVE  Rank(S, n + 1) = Rank(S, n) + (IF n + 1 \in S THEN 1 ELSE 0)
<1>1. IsFiniteSet(S \cap 1 .. n) /\ Rank(S, n) \in Nat
  BY RankType
<1>2. CASE n + 1 \in S
  <2>1. S \cap 1 .. n + 1 = (S \cap 1 .. n) \cup {n + 1} /\ n + 1 \notin S \cap 1 .. n
    BY <1>2
  <2>2. Cardinality((S \cap 1 .. n) \cup {n + 1}) = Cardinality(S \cap 1 .. n) + 1
    BY <1>1, <2>1, FS_AddElement
  <2> QED BY ONLY <1>2, <2>1, <2>2 DEF Rank
<1>3. CASE n + 1 \notin S
  <2>1. S \cap 1 .. n + 1 = S \cap 1 .. n
    BY <1>3
  <2>2. Rank(S, n + 1) = Rank(S, n)
    BY <2>1 DEF Rank
  <2> QED BY ONLY <1>1, <1>3, <2>2
<1> QED BY <1>2, <1>3

LEMMA RankGrows ==
    ASSUME NEW S, NEW m \in Nat, NEW n \in Nat, m <= n
    PROVE  Rank(S, m) <= Rank(S, n) /\ (m < n /\ n \in S => Rank(S, m) < Rank(S, n))
<1>1. IsFiniteSet(S \cap 1 .. n) /\ Rank(S, n) \in Nat /\ IsFiniteSet(S \cap 1 .. m) /\ Rank(S, m) \in Nat
  BY RankType
<1>2. S \cap 1 .. m \subseteq S \cap 1 .. n
  OBVIOUS
<1>3. Cardinality(S \cap 1 .. m) <= Cardinality(S \cap 1 .. n)
  BY <1>1, <1>2, FS_Subset
<1>4. ASSUME m < n, n \in S PROVE Cardinality(S \cap 1 .. m) < Cardinality(S \cap 1 .. n)
  <2>1. n \in S \cap 1 .. n /\ n \notin S \cap 1 .. m
    BY <1>4
  <2>2. Cardinality(S \cap 1 .. m) # Cardinality(S \cap 1 .. n)
    BY <1>1, <1>2, <2>1, FS_Subset
  <2> QED BY ONLY <1>1, <1>3, <2>2 DEF Rank
<1> QED BY <1>3, <1>4 DEF Rank

LEMMA RankUnique ==
    ASSUME NEW S, S \subseteq Nat, NEW m \in S, NEW n \in S, Rank(S, m) = Rank(S, n)
    PROVE  m = n
<1>1. m \in Nat /\ n \in Nat /\ Rank(S, m) \in Nat /\ Rank(S, n) \in Nat
  BY RankType
<1>2. CASE m < n
  BY <1>1, <1>2, RankGrows
<1>3. CASE n < m
  BY <1>1, <1>3, RankGrows
<1> QED BY ONLY <1>1, <1>2, <1>3

LEMMA RankWhole ==
    ASSUME NEW L \in Nat, NEW S, S \subseteq 1 .. L
    PROVE  IsFiniteSet(S) /\ Cardinality(S) \in Nat /\ Rank(S, L) = Cardinality(S)
<1>1. IsFiniteSet(1 .. L)
  <2>1. 1 \in Int /\ L \in Int
    OBVIOUS
  <2> QED BY <2>1, FS_Interval
<1>2. S \cap 1 .. L = S
  BY Zenon
<1> QED BY <1>1, <1>2, FS_Subset, FS_CardinalityType DEF Rank

LEMMA RankWithin ==
    ASSUME NEW S, NEW n \in S, n \in Nat, 0 < n, NEW r \in Nat, n <= r
    PROVE  Rank(S, n) \in 1 .. Rank(S, r)
<1>1. Rank(S, n) \in Nat /\ Rank(S, r) \in Nat
  BY RankType
<1>2. Rank(S, n) <= Rank(S, r)
  BY RankGrows
<1>3. 0 \in Nat /\ 0 <= n
  OBVIOUS
<1>4. Rank(S, 0) < Rank(S, n)
  BY ONLY <1>3, n \in S, n \in Nat, 0 < n, RankGrows
<1>5. 0 < Rank(S, n)
  BY ONLY <1>4, RankZero
<1> QED BY ONLY <1>1, <1>2, <1>5

LEMMA RankExists ==
    ASSUME NEW L \in Nat, NEW S, S \subseteq 1 .. L, NEW k \in 1 .. Cardinality(S)
    PROVE  \E n \in S : Rank(S, n) = k
<1> DEFINE T == {n \in Nat : k <= Rank(S, n)}
<1>0. Cardinality(S) \in Nat /\ Rank(S, L) = Cardinality(S)
  BY RankWhole
<1>1. L \in T
  BY <1>0
<1>2. PICK n \in T : \A m \in T : n <= m
  <2>1. T \subseteq Nat /\ T # {}
    BY <1>1
  <2> HIDE DEF T
  <2> QED BY <2>1, LeastNat
<1>3. n \in Nat /\ k <= Rank(S, n) /\ Rank(S, n) \in Nat /\ k \in Nat /\ k > 0
  <2>1. n \in Nat /\ k <= Rank(S, n)
    BY <1>2
  <2>2. Rank(S, n) \in Nat
    BY <2>1, RankType
  <2>3. k \in Nat /\ k > 0
    BY <1>0
  <2> QED BY ONLY <2>1, <2>2, <2>3
<1>4. n # 0
  BY <1>3, RankZero
<1>5. PICK m \in Nat : n = m + 1
  <2>1. n - 1 \in Nat /\ n = (n - 1) + 1
    BY ONLY <1>3, <1>4
  <2> QED BY <2>1
<1>6. ~ (k <= Rank(S, m)) /\ Rank(S, m) \in Nat
  <2>1. m \notin T
    BY <1>2, <1>5
  <2> QED BY <2>1, RankType
<1>7. PICK d : d = IF n \in S THEN 1 ELSE 0
  OBVIOUS
<1>8. Rank(S, n) = Rank(S, m) + d
  BY <1>5, <1>7, RankStep
<1>9. d = 1 /\ n \in S
  BY ONLY <1>3, <1>6, <1>7, <1>8
<1>10. Rank(S, n) = k
  BY ONLY <1>3, <1>6, <1>8, <1>9
<1> QED BY <1>9, <1>10

LEMMA RankBound ==
    ASSUME NEW L \in Nat, NEW S, S \subseteq 1 .. L, NEW n \in S
    PROVE  Rank(S, n) \in 1 .. Cardinality(S)
<1>1. n \in Nat /\ 0 < n /\ n <= L
  OBVIOUS
<1>2. Rank(S, n) \in 1 .. Rank(S, L)
  BY ONLY <1>1, n \in S, L \in Nat, RankWithin
<1> QED BY <1>2, RankWhole

\* The element of rank k is where Nth says.
LEMMA NthFacts ==
    ASSUME NEW L \in Nat, NEW S, S \subseteq 1 .. L
    PROVE  /\ \A k \in 1 .. Cardinality(S) : Nth(S, k) \in S /\ Rank(S, Nth(S, k)) = k
           /\ \A n \in S : Rank(S, n) \in 1 .. Cardinality(S) /\ Nth(S, Rank(S, n)) = n
<1>1. ASSUME NEW k \in 1 .. Cardinality(S) PROVE Nth(S, k) \in S /\ Rank(S, Nth(S, k)) = k
  <2>1. \E n \in S : Cardinality(S \cap 1 .. n) = k
    BY RankExists DEF Rank
  <2> QED BY <2>1 DEF Nth, Rank
<1>2. ASSUME NEW n \in S PROVE Rank(S, n) \in 1 .. Cardinality(S) /\ Nth(S, Rank(S, n)) = n
  <2>1. Rank(S, n) \in 1 .. Cardinality(S)
    BY RankBound
  <2>2. PICK m : m = Nth(S, Rank(S, n))
    OBVIOUS
  <2>3. m \in S /\ Rank(S, m) = Rank(S, n)
    BY <1>1, <2>1, <2>2
  <2>4. S \subseteq Nat
    OBVIOUS
  <2>5. m = n
    BY ONLY <2>3, <2>4, n \in S, RankUnique
  <2> QED BY <2>1, <2>2, <2>5
<1> QED BY <1>1, <1>2

\* o lists the values of M at the numbers up to r, in their order.
Aligned(o, M, r) ==
    /\ o \in Seq({M[n] : n \in DOMAIN M})
    /\ Len(o) = Rank(DOMAIN M, r)
    /\ \A n \in DOMAIN M \cap 1 .. r : o[Rank(DOMAIN M, n)] = M[n]

LEMMA AlignedEmpty == ASSUME NEW M PROVE Aligned(<<>>, M, 0)
<1>1. Len(<<>>) = 0 /\ 1 .. 0 = {} /\ <<>> \in Seq({M[n] : n \in DOMAIN M})
  OBVIOUS
<1> QED BY <1>1, RankZero DEF Aligned

LEMMA AlignedSkip ==
    ASSUME NEW M, NEW r \in Nat, NEW o, Aligned(o, M, r), r + 1 \notin DOMAIN M
    PROVE  Aligned(o, M, r + 1)
<1>1. PICK S : S = DOMAIN M
  OBVIOUS
<1>2. S \cap 1 .. r + 1 = S \cap 1 .. r
  <2>1. \A n \in 1 .. r + 1 : n = r + 1 \/ n \in 1 .. r
    OBVIOUS
  <2>2. 1 .. r \subseteq 1 .. r + 1
    OBVIOUS
  <2> QED BY ONLY <1>1, <2>1, <2>2, r + 1 \notin DOMAIN M
<1>3. Rank(S, r + 1) = Rank(S, r)
  BY <1>2 DEF Rank
<1> QED BY ONLY <1>1, <1>2, <1>3, Aligned(o, M, r) DEF Aligned

LEMMA AlignedAppend ==
    ASSUME NEW M, NEW r \in Nat, NEW o, Aligned(o, M, r), r + 1 \in DOMAIN M, NEW e, e = M[r + 1]
    PROVE  Aligned(Append(o, e), M, r + 1) /\ Len(Append(o, e)) = Len(o) + 1
<1>1. PICK S, V : S = DOMAIN M /\ V = {M[n] : n \in DOMAIN M}
  OBVIOUS
<1>2. o \in Seq(V) /\ Len(o) = Rank(S, r) /\ (\A n \in S \cap 1 .. r : o[Rank(S, n)] = M[n]) /\ e \in V
  BY <1>1 DEF Aligned
<1>3a. PICK p : p = Append(o, e)
  OBVIOUS
<1>3b. PICK k \in Nat : k = Rank(S, r)
  BY RankType
<1>3. k = Rank(S, r) /\ p = Append(o, e)
  BY <1>3a, <1>3b
<1>4. p \in Seq(V) /\ Len(p) = k + 1 /\ p[k + 1] = e /\ \A i \in 1 .. k : p[i] = o[i]
  BY <1>2, <1>3, AppendProperties
<1>5. Rank(S, r + 1) = k + 1
  <2>1. r + 1 \in S
    BY <1>1
  <2> QED BY <1>3, <2>1, RankStep
<1>6. ASSUME NEW n \in S \cap 1 .. r + 1 PROVE p[Rank(S, n)] = M[n]
  <2>1. n = r + 1 \/ n \in 1 .. r
    OBVIOUS
  <2>2. CASE n = r + 1
    BY <1>4, <1>5, <2>2
  <2>3. CASE n \in 1 .. r
    <3>1. n \in S \cap 1 .. r /\ n \in Nat /\ 0 < n /\ n <= r
      BY <2>3
    <3>2. Rank(S, n) \in 1 .. Rank(S, r)
      BY ONLY <3>1, r \in Nat, RankWithin
    <3>3. Rank(S, n) \in 1 .. k
      BY <1>3, <3>2
    <3> QED BY ONLY <1>2, <1>4, <3>1, <3>3
  <2> QED BY <2>1, <2>2, <2>3
<1>7. Len(p) = Len(o) + 1
  BY <1>2, <1>3, <1>4
<1> QED BY ONLY <1>1, <1>3, <1>4, <1>5, <1>6, <1>7 DEF Aligned

LEMMA AlignedPrefix ==
    ASSUME NEW L \in Nat, NEW M, DOMAIN M \subseteq 1 .. L, NEW r \in 0 .. L, NEW o, Aligned(o, M, r),
           NEW all, all = [k \in 1 .. Cardinality(DOMAIN M) |-> M[Nth(DOMAIN M, k)]]
    PROVE  IsPrefix(o, all) /\ (r = L => o = all)
<1>1. PICK S, V : S = DOMAIN M /\ V = {M[n] : n \in DOMAIN M}
  OBVIOUS
<1>2. o \in Seq(V) /\ Len(o) = Rank(S, r) /\ \A n \in S \cap 1 .. r : o[Rank(S, n)] = M[n]
  BY <1>1 DEF Aligned
<1>3. Cardinality(S) \in Nat /\ Rank(S, L) = Cardinality(S)
  BY <1>1, RankWhole
<1>3a. r \in Nat /\ r <= L
  OBVIOUS
<1>4. PICK k \in Nat, c \in Nat : k = Rank(S, r) /\ c = Cardinality(S)
  BY <1>3, <1>3a, RankType
<1>5. k <= c
  BY <1>3, <1>3a, <1>4, RankGrows
<1>6. Len(o) = k /\ Len(all) = c /\ DOMAIN all = 1 .. c
  BY <1>1, <1>2, <1>4
<1>7. ASSUME NEW i \in 1 .. k PROVE o[i] = all[i]
  <2>1. i \in 1 .. c /\ i \in Nat
    BY <1>5
  <2>2. PICK n : n = Nth(S, i)
    OBVIOUS
  <2>3. n \in S /\ Rank(S, n) = i
    BY <1>1, <1>4, <2>1, <2>2, NthFacts
  <2>4. n \in 1 .. L
    BY <1>1, <2>3
  <2>5. n <= r
    <3> SUFFICES ASSUME ~ n <= r PROVE FALSE
      OBVIOUS
    <3>1. r < n /\ r <= n /\ r \in Nat /\ n \in Nat
      BY <2>4
    <3>2. Rank(S, r) < Rank(S, n)
      BY ONLY <2>3, <3>1, RankGrows
    <3> QED BY <1>4, <2>3, <3>2
  <2>6. n \in S \cap 1 .. r
    BY <2>3, <2>4, <2>5
  <2>7. o[i] = M[n]
    BY ONLY <1>2, <2>3, <2>6
  <2>8. all[i] = M[n]
    BY <1>1, <1>4, <2>1, <2>2
  <2> QED BY ONLY <2>7, <2>8
<1>8. IsPrefix(o, all)
  <2>1. SubSeq(o, 1, k) = [i \in 1 .. k |-> o[i]]
    OBVIOUS
  <2>2. SubSeq(all, 1, k) = [i \in 1 .. k |-> all[i]]
    OBVIOUS
  <2> QED BY ONLY <1>5, <1>6, <1>7, <2>1, <2>2 DEF IsPrefix
<1>9. ASSUME r = L PROVE o = all
  <2>1. k = c
    BY <1>3, <1>4, <1>9
  <2>2. o = [i \in 1 .. k |-> o[i]]
    BY <1>2, <1>6
  <2>3. all = [i \in 1 .. c |-> all[i]]
    BY <1>6
  <2> QED BY ONLY <1>7, <2>1, <2>2, <2>3
<1> QED BY <1>8, <1>9

-----------------------------------------------------------------------------
(* TraceReader: the invariant of the loop around next() *)

MeaningAt == [n \in OpAt |-> MeaningOf(file[n])]

TraceTyped ==
    /\ file \in Seq(Lines) /\ max_ops \in Nat /\ lines_read \in 0 .. Len(file)
    /\ lines_skipped \in Nat /\ ops_parsed \in Nat /\ loading \in BOOLEAN

\* The flags are what the lines read so far make of them.
FlagsFollow ==
    /\ format = IF DataAt \cap 1 .. lines_read = {} THEN "UNKNOWN" ELSE IF IsCsv THEN "CSV" ELSE "SIMPLE"
    /\ format = "CSV" => csv_header_consumed = TRUE

LinesCounted ==
    /\ lines_read = lines_skipped + ops_parsed /\ ops_parsed = Len(ops)
    /\ max_ops > 0 => Len(ops) <= max_ops
    /\ loading => max_ops = 0 \/ Len(ops) < max_ops
    /\ ~ loading => lines_read = Len(file) \/ (max_ops > 0 /\ Len(ops) = max_ops)

TraceInv == TraceTyped /\ FlagsFollow /\ LinesCounted /\ Aligned(ops, MeaningAt, lines_read)

LEMMA TraceInitInv == TraceInit => TraceInv
<1> SUFFICES ASSUME TraceInit PROVE TraceInv
  OBVIOUS
<1>1. /\ file \in UNION {[1 .. n -> Lines] : n \in 0 .. MaxLines} /\ max_ops \in Limits
      /\ lines_read = 0 /\ lines_skipped = 0 /\ ops_parsed = 0
      /\ format = "UNKNOWN" /\ csv_header_consumed = FALSE /\ ops = <<>> /\ loading = TRUE
  BY DEF TraceInit
<1>2. PICK n \in 0 .. MaxLines : file \in [1 .. n -> Lines]
  BY <1>1
<1>3. n \in Nat /\ max_ops \in Nat
  BY <1>1, LinesAssumption
<1>4. file \in Seq(Lines)
  BY ONLY <1>2, <1>3
<1>5. Len(file) \in Nat /\ 0 \in 0 .. Len(file)
  BY <1>4, LenProperties
<1>6. TraceTyped
  BY ONLY <1>1, <1>3, <1>4, <1>5 DEF TraceTyped
<1>7. FlagsFollow
  <2>1. DataAt \cap 1 .. 0 = {}
    OBVIOUS
  <2> QED BY ONLY <1>1, <2>1 DEF FlagsFollow
<1>8. LinesCounted
  <2>1. Len(<<>>) = 0 /\ 0 = 0 + 0 /\ (max_ops = 0 \/ 0 < max_ops) /\ 0 <= max_ops
    BY <1>3
  <2> QED BY ONLY <1>1, <2>1 DEF LinesCounted
<1>9. Aligned(ops, MeaningAt, lines_read)
  BY <1>1, AlignedEmpty
<1> QED BY <1>6, <1>7, <1>8, <1>9 DEF TraceInv

\* What the file says does not change.
LEMMA FileFixed ==
    ASSUME file' = file
    PROVE  DataAt' = DataAt /\ IsCsv' = IsCsv /\ OpAt' = OpAt /\ MeaningAt' = MeaningAt
           /\ Meaning' = Meaning /\ DataLines' = DataLines
<1>1. DataAt' = DataAt
  BY DEF DataAt
<1>2. IsCsv' = IsCsv
  BY <1>1 DEF IsCsv
<1>3. OpAt' = OpAt
  BY <1>1, <1>2 DEF OpAt
<1>4. MeaningAt' = MeaningAt /\ Meaning' = Meaning
  BY <1>2, <1>3 DEF MeaningAt, Meaning, MeaningOf
<1>5. DataLines' = DataLines
  BY <1>1 DEF DataLines
<1> QED BY <1>1, <1>2, <1>3, <1>4, <1>5

LEMMA LineNumbers ==
    ASSUME TraceTyped
    PROVE  /\ DOMAIN file = 1 .. Len(file) /\ Len(file) \in Nat
           /\ DataAt \subseteq 1 .. Len(file) /\ DataAt \subseteq Nat
           /\ OpAt \subseteq DataAt /\ DOMAIN MeaningAt = OpAt
<1>1. DOMAIN file = 1 .. Len(file) /\ Len(file) \in Nat
  BY LenProperties DEF TraceTyped
<1>2. DataAt \subseteq 1 .. Len(file)
  BY <1>1 DEF DataAt
<1>3. OpAt \subseteq DataAt /\ DOMAIN MeaningAt = OpAt
  BY DEF OpAt, MeaningAt
<1>4. 1 .. Len(file) \subseteq Nat
  BY <1>1
<1> QED BY ONLY <1>1, <1>2, <1>3, <1>4

\* The flags tell next() what the file is, and whether this line is its header.
LEMMA FlagsTell ==
    ASSUME TraceInv, HasLine, ~ Blank(Line)
    PROVE  /\ lines_read + 1 \in DataAt
           /\ LineFormat = IF IsCsv THEN "CSV" ELSE "SIMPLE"
           /\ IsCsv => (HeaderConsumed <=> (lines_read + 1 = Min(DataAt) => ~ IsHeader(Line)))
<1>1. PICK r \in Nat, n \in Nat : r = lines_read /\ n = r + 1 /\ n \in 1 .. Len(file)
  <2>1. lines_read \in 0 .. Len(file) /\ Len(file) \in Nat /\ lines_read < Len(file)
    BY LineNumbers DEF TraceInv, TraceTyped, HasLine
  <2>2. lines_read \in Nat /\ lines_read + 1 \in Nat /\ lines_read + 1 \in 1 .. Len(file)
    BY ONLY <2>1
  <2> QED BY <2>2
<1>2. PICK D : D = DataAt
  OBVIOUS
<1>3. DOMAIN file = 1 .. Len(file) /\ D \subseteq Nat /\ D \subseteq 1 .. Len(file)
  BY <1>2, LineNumbers DEF TraceInv
<1>4. Line = file[n]
  BY <1>1 DEF Line
<1>5. n \in D
  BY <1>1, <1>2, <1>3, <1>4 DEF DataAt
<1>6. Min(D) \in D /\ \A x \in D : Min(D) <= x
  BY <1>3, <1>5, MinFacts
<1>7. PICK m \in Nat : m = Min(D) /\ m \in D /\ 1 <= m
  <2>1. PICK m : m = Min(D)
    OBVIOUS
  <2>2. m \in D /\ m \in Nat /\ m \in 1 .. Len(file)
    BY ONLY <1>3, <1>6, <2>1
  <2> QED BY <2>1, <2>2
<1>8. /\ format = IF D \cap 1 .. r = {} THEN "UNKNOWN" ELSE IF IsCsv THEN "CSV" ELSE "SIMPLE"
      /\ format = "CSV" => csv_header_consumed = TRUE
  BY <1>1, <1>2 DEF TraceInv, FlagsFollow
<1>9. CASE D \cap 1 .. r = {}
  <2>1. m = n
    <3>1. m <= n
      BY <1>5, <1>6, <1>7
    <3>2. ~ (m <= r)
      BY <1>7, <1>9
    <3> QED BY ONLY <1>1, <3>1, <3>2, m \in Nat, r \in Nat, n \in Nat
  <2>2. format = "UNKNOWN"
    BY <1>8, <1>9
  <2>3. IsCsv <=> LooksLikeCsv(Line)
    BY <1>2, <1>4, <1>5, <1>7, <2>1 DEF IsCsv
  <2>4. LineFormat = IF IsCsv THEN "CSV" ELSE "SIMPLE"
    BY <2>2, <2>3 DEF LineFormat
  <2>5. IsCsv => (HeaderConsumed <=> ~ IsHeader(Line))
    BY <2>2, <2>4 DEF HeaderConsumed
  <2> QED BY ONLY <1>1, <1>2, <1>5, <1>7, <2>1, <2>4, <2>5
<1>10. CASE D \cap 1 .. r # {}
  <2>1. PICK x \in D : x \in 1 .. r
    BY <1>10
  <2>2. m # n
    <3>1. m <= x /\ x <= r /\ x \in Nat
      BY <1>6, <1>7, <2>1
    <3> QED BY ONLY <1>1, <3>1, m \in Nat, r \in Nat, n \in Nat
  <2>3. format = IF IsCsv THEN "CSV" ELSE "SIMPLE"
    BY <1>8, <1>10
  <2>4. format # "UNKNOWN"
    BY <2>3
  <2>5. LineFormat = format
    BY <2>4 DEF LineFormat
  <2>6. IsCsv => HeaderConsumed
    BY <1>8, <2>3, <2>4 DEF HeaderConsumed
  <2> QED BY ONLY <1>1, <1>2, <1>5, <1>7, <2>2, <2>3, <2>5, <2>6
<1> QED BY <1>9, <1>10

\* The flags after a data line.
LEMMA FlagsAfter ==
    ASSUME TraceInv, HasLine, ~ Blank(Line), file' = file, lines_read' = lines_read + 1,
           format' = LineFormat, LineFormat = "CSV" => csv_header_consumed' = TRUE
    PROVE  FlagsFollow'
<1>1. lines_read + 1 \in DataAt /\ LineFormat = IF IsCsv THEN "CSV" ELSE "SIMPLE"
  BY FlagsTell
<1>2. DataAt' = DataAt /\ IsCsv' = IsCsv
  BY FileFixed
<1>3. lines_read + 1 \in 1 .. lines_read + 1
  BY DEF TraceInv, TraceTyped
<1>4. DataAt \cap 1 .. lines_read + 1 # {}
  BY ONLY <1>1, <1>3
<1>5. format' = "CSV" => csv_header_consumed' = TRUE
  OBVIOUS
<1>6. format' = IF IsCsv THEN "CSV" ELSE "SIMPLE"
  BY <1>1
<1> QED BY ONLY <1>2, <1>4, <1>5, <1>6, lines_read' = lines_read + 1 DEF FlagsFollow

LEMMA SkipStep ==
    ASSUME TraceInv, HasLine, Skip, lines_read + 1 \notin OpAt, FlagsFollow'
    PROVE  TraceInv'
<1>1. /\ lines_read' = lines_read + 1 /\ lines_skipped' = lines_skipped + 1
      /\ file' = file /\ max_ops' = max_ops /\ ops_parsed' = ops_parsed /\ ops' = ops /\ loading' = loading
  BY DEF Skip
<1>2. loading = TRUE /\ lines_read < Len(file) /\ lines_read \in 0 .. Len(file) /\ Len(file) \in Nat
  BY LineNumbers DEF TraceInv, TraceTyped, HasLine
<1>3. lines_read + 1 \in 0 .. Len(file) /\ lines_read \in Nat
  BY ONLY <1>2
<1>4. /\ file \in Seq(Lines) /\ max_ops \in Nat /\ lines_skipped \in Nat /\ lines_skipped + 1 \in Nat /\ ops_parsed \in Nat
  BY DEF TraceInv, TraceTyped
<1>5. TraceTyped'
  BY ONLY <1>1, <1>2, <1>3, <1>4 DEF TraceTyped
<1>6. LinesCounted'
  <2>1. /\ lines_read = lines_skipped + ops_parsed /\ ops_parsed = Len(ops)
        /\ max_ops > 0 => Len(ops) <= max_ops
        /\ max_ops = 0 \/ Len(ops) < max_ops
    BY <1>2 DEF TraceInv, LinesCounted
  <2>2. lines_read + 1 = (lines_skipped + 1) + ops_parsed
    BY ONLY <1>3, <1>4, <2>1
  <2> QED BY ONLY <1>1, <1>2, <2>1, <2>2 DEF LinesCounted
<1>7. Aligned(ops, MeaningAt, lines_read + 1)
  <2>1. Aligned(ops, MeaningAt, lines_read) /\ lines_read + 1 \notin DOMAIN MeaningAt
    BY LineNumbers DEF TraceInv
  <2> QED BY <1>3, <2>1, AlignedSkip
<1>8. Aligned(ops, MeaningAt, lines_read)'
  BY <1>1, <1>7, FileFixed
<1> QED BY <1>5, <1>6, <1>8 DEF TraceInv

LEMMA DeliverStep ==
    ASSUME TraceInv, HasLine, NEW op, Deliver(op), op = MeaningOf(Line), lines_read + 1 \in OpAt, FlagsFollow'
    PROVE  TraceInv'
<1>1. /\ lines_read' = lines_read + 1 /\ ops_parsed' = ops_parsed + 1 /\ ops' = Append(ops, op)
      /\ loading' = ~ (max_ops > 0 /\ Len(ops) + 1 >= max_ops)
      /\ file' = file /\ max_ops' = max_ops /\ lines_skipped' = lines_skipped
  BY DEF Deliver
<1>2. loading = TRUE /\ lines_read < Len(file) /\ lines_read \in 0 .. Len(file) /\ Len(file) \in Nat
  BY LineNumbers DEF TraceInv, TraceTyped, HasLine
<1>3. lines_read + 1 \in 0 .. Len(file) /\ lines_read \in Nat
  BY ONLY <1>2
<1>4. /\ file \in Seq(Lines) /\ max_ops \in Nat /\ lines_skipped \in Nat /\ ops_parsed \in Nat /\ ops_parsed + 1 \in Nat
  BY DEF TraceInv, TraceTyped
<1>5. TraceTyped'
  <2>1. loading' \in BOOLEAN
    BY ONLY <1>1
  <2>2. /\ file' \in Seq(Lines) /\ max_ops' \in Nat /\ lines_skipped' \in Nat /\ ops_parsed' \in Nat
        /\ lines_read' \in 0 .. Len(file')
    BY ONLY <1>1, <1>3, <1>4, Zenon
  <2> QED BY ONLY <2>1, <2>2 DEF TraceTyped
<1>6. Aligned(Append(ops, op), MeaningAt, lines_read + 1) /\ Len(Append(ops, op)) = Len(ops) + 1
  <2>1. Aligned(ops, MeaningAt, lines_read) /\ lines_read + 1 \in DOMAIN MeaningAt
    BY LineNumbers DEF TraceInv
  <2>2. op = MeaningAt[lines_read + 1]
    BY DEF MeaningAt, Line
  <2> QED BY <1>3, <2>1, <2>2, AlignedAppend
<1>7. Aligned(ops, MeaningAt, lines_read)'
  BY <1>1, <1>6, FileFixed
<1>8. LinesCounted'
  <2>1. /\ lines_read = lines_skipped + ops_parsed /\ ops_parsed = Len(ops)
        /\ max_ops = 0 \/ Len(ops) < max_ops
    BY <1>2 DEF TraceInv, LinesCounted
  <2>2. PICK k \in Nat, m \in Nat, s \in Nat : k = Len(ops) /\ m = max_ops /\ s = lines_skipped
    BY <1>4, <2>1
  <2>3. /\ k = ops_parsed /\ lines_read = s + k /\ (m = 0 \/ k < m) /\ Len(ops') = k + 1
        /\ loading' = ~ (m > 0 /\ k + 1 >= m)
    BY ONLY <1>1, <1>6, <2>1, <2>2
  <2>4. /\ lines_read + 1 = s + (k + 1) /\ (m > 0 => k + 1 <= m)
        /\ loading' => m = 0 \/ k + 1 < m
        /\ ~ loading' => m > 0 /\ k + 1 = m
    <3>1. lines_read + 1 = s + (k + 1)
      BY ONLY <2>3, k \in Nat, s \in Nat
    <3>2. m > 0 => k + 1 <= m
      BY ONLY <2>3, k \in Nat, m \in Nat
    <3>3. ~ (m > 0 /\ k + 1 >= m) => m = 0 \/ k + 1 < m
      BY ONLY k \in Nat, m \in Nat
    <3>4. m > 0 /\ k + 1 >= m => m > 0 /\ k + 1 = m
      BY ONLY <3>2, k \in Nat, m \in Nat
    <3>5. loading' <=> ~ (m > 0 /\ k + 1 >= m)
      BY ONLY <2>3, Zenon
    <3> QED BY ONLY <3>1, <3>2, <3>3, <3>4, <3>5, Zenon
  <2>5. /\ lines_read' = lines_read + 1 /\ lines_skipped' = s /\ ops_parsed' = k + 1 /\ Len(ops') = k + 1 /\ max_ops' = m
    BY ONLY <1>1, <2>2, <2>3
  <2> QED BY ONLY <2>4, <2>5 DEF LinesCounted
<1> QED BY <1>5, <1>7, <1>8 DEF TraceInv

LEMMA TraceStep ==
    ASSUME TraceInv, TraceNext
    PROVE  TraceInv'
<1>1. CASE SkipBlank
  <2>1. HasLine /\ Blank(Line) /\ Skip /\ format' = format /\ csv_header_consumed' = csv_header_consumed
    BY <1>1 DEF SkipBlank
  <2>2. lines_read + 1 \notin DataAt
    BY <2>1 DEF DataAt, Line
  <2>3. lines_read + 1 \notin OpAt
    BY <2>2 DEF OpAt
  <2>4. file' = file /\ lines_read' = lines_read + 1
    BY <2>1 DEF Skip
  <2>5. DataAt' = DataAt /\ IsCsv' = IsCsv
    BY <2>4, FileFixed
  <2>6. DataAt \cap 1 .. lines_read + 1 = DataAt \cap 1 .. lines_read
    <3>1. PICK r \in Nat : r = lines_read
      BY LineNumbers DEF TraceInv, TraceTyped
    <3>2. \A n \in 1 .. r + 1 : n = r + 1 \/ n \in 1 .. r
      OBVIOUS
    <3>3. 1 .. r \subseteq 1 .. r + 1
      OBVIOUS
    <3> QED BY ONLY <2>2, <3>1, <3>2, <3>3
  <2>7. FlagsFollow
    BY DEF TraceInv
  <2>8. FlagsFollow'
    BY ONLY <2>1, <2>4, <2>5, <2>6, <2>7 DEF FlagsFollow
  <2> QED BY <2>1, <2>3, <2>8, SkipStep
<1>2. CASE ReadSimple
  <2>1. /\ HasLine /\ ~ Blank(Line) /\ LineFormat = "SIMPLE" /\ format' = "SIMPLE"
        /\ Deliver(ParseSimple(Line)) /\ csv_header_consumed' = csv_header_consumed
    BY <1>2 DEF ReadSimple
  <2>2. lines_read + 1 \in DataAt /\ ~ IsCsv
    BY <2>1, FlagsTell
  <2>3. lines_read + 1 \in OpAt /\ ParseSimple(Line) = MeaningOf(Line)
    BY <2>2 DEF OpAt, MeaningOf
  <2>4. file' = file /\ lines_read' = lines_read + 1
    BY <2>1 DEF Deliver
  <2>5. FlagsFollow'
    BY <2>1, <2>4, FlagsAfter
  <2> QED BY <2>1, <2>3, <2>5, DeliverStep
<1>3. CASE SkipHeader
  <2>1. /\ HasLine /\ ~ Blank(Line) /\ LineFormat = "CSV" /\ ~ HeaderConsumed
        /\ format' = "CSV" /\ csv_header_consumed' = TRUE /\ Skip
    BY <1>3 DEF SkipHeader
  <2>2. IsCsv /\ lines_read + 1 = Min(DataAt) /\ IsHeader(Line)
    BY <2>1, FlagsTell
  <2>3. lines_read + 1 \notin OpAt
    BY <2>2 DEF OpAt, Line
  <2>4. file' = file /\ lines_read' = lines_read + 1
    BY <2>1 DEF Skip
  <2>5. FlagsFollow'
    BY <2>1, <2>4, FlagsAfter
  <2> QED BY <2>1, <2>3, <2>5, SkipStep
<1>4. CASE ReadCsv
  <2>1. /\ HasLine /\ ~ Blank(Line) /\ LineFormat = "CSV" /\ HeaderConsumed
        /\ format' = "CSV" /\ csv_header_consumed' = TRUE
        /\ IF CsvOk(Line) THEN Deliver(ParseCsv(Line)) ELSE Skip
    BY <1>4 DEF ReadCsv
  <2>2. IsCsv /\ lines_read + 1 \in DataAt /\ (lines_read + 1 = Min(DataAt) => ~ IsHeader(Line))
    BY <2>1, FlagsTell
  <2>3. file' = file /\ lines_read' = lines_read + 1
    BY <2>1 DEF Deliver, Skip
  <2>4. FlagsFollow'
    BY <2>1, <2>3, FlagsAfter
  <2>5. CASE CsvOk(Line)
    <3>1. lines_read + 1 \in OpAt /\ ParseCsv(Line) = MeaningOf(Line)
      BY <2>2, <2>5 DEF OpAt, MeaningOf, Line
    <3> QED BY <2>1, <2>4, <2>5, <3>1, DeliverStep
  <2>6. CASE ~ CsvOk(Line)
    <3>1. lines_read + 1 \notin OpAt
      BY <2>2, <2>6 DEF OpAt, Line
    <3> QED BY <2>1, <2>4, <2>6, <3>1, SkipStep
  <2> QED BY <2>5, <2>6
<1>5. CASE EndOfFile
  <2>1. /\ loading /\ lines_read = Len(file) /\ loading' = FALSE
        /\ file' = file /\ max_ops' = max_ops /\ lines_read' = lines_read /\ lines_skipped' = lines_skipped
        /\ ops_parsed' = ops_parsed /\ format' = format /\ csv_header_consumed' = csv_header_consumed /\ ops' = ops
    BY <1>5 DEF EndOfFile
  <2>2. DataAt' = DataAt /\ IsCsv' = IsCsv /\ MeaningAt' = MeaningAt
    BY <2>1, FileFixed
  <2>3. TraceTyped'
    BY <2>1 DEF TraceInv, TraceTyped
  <2>4. FlagsFollow'
    BY <2>1, <2>2 DEF TraceInv, FlagsFollow
  <2>5. LinesCounted'
    BY <2>1 DEF TraceInv, LinesCounted
  <2>6. Aligned(ops, MeaningAt, lines_read)'
    BY <2>1, <2>2 DEF TraceInv
  <2> QED BY <2>3, <2>4, <2>5, <2>6 DEF TraceInv
<1> QED BY <1>1, <1>2, <1>3, <1>4, <1>5 DEF TraceNext

LEMMA TraceKept ==
    ASSUME TraceInv, [WorkloadNext]_workloadVars
    PROVE  TraceInv'
<1>1. CASE TraceNext
  BY <1>1, TraceStep
<1>2. CASE UNCHANGED traceVars
  <2>1. /\ file' = file /\ max_ops' = max_ops /\ lines_read' = lines_read /\ lines_skipped' = lines_skipped
        /\ ops_parsed' = ops_parsed /\ format' = format /\ csv_header_consumed' = csv_header_consumed
        /\ ops' = ops /\ loading' = loading
    BY <1>2 DEF traceVars
  <2>2. DataAt' = DataAt /\ IsCsv' = IsCsv /\ MeaningAt' = MeaningAt
    BY <2>1, FileFixed
  <2>3. Aligned(ops, MeaningAt, lines_read)'
    BY <2>1, <2>2 DEF TraceInv
  <2> QED BY <2>1, <2>2, <2>3 DEF TraceInv, TraceTyped, FlagsFollow, LinesCounted
<1> QED BY <1>1, <1>2 DEF WorkloadNext, TraceOnly, GeneratorOnly, workloadVars

\* What has been read is the beginning of what the file means.
LEMMA TraceMeans ==
    ASSUME TraceInv
    PROVE  IsPrefix(ops, Meaning) /\ (lines_read = Len(file) => ops = Meaning)
<1>1. /\ Len(file) \in Nat /\ OpAt \subseteq 1 .. Len(file) /\ DOMAIN MeaningAt = OpAt
      /\ lines_read \in 0 .. Len(file) /\ Aligned(ops, MeaningAt, lines_read)
  BY LineNumbers DEF TraceInv, TraceTyped
<1>2. PICK M : M = MeaningAt
  OBVIOUS
<1>3. Meaning = [k \in 1 .. Cardinality(DOMAIN M) |-> M[Nth(DOMAIN M, k)]]
  <2>1. ASSUME NEW k \in 1 .. Cardinality(OpAt) PROVE MeaningOf(file[Nth(OpAt, k)]) = M[Nth(OpAt, k)]
    <3>1. Nth(OpAt, k) \in OpAt
      BY ONLY <1>1, k \in 1 .. Cardinality(OpAt), NthFacts
    <3> QED BY <1>2, <3>1 DEF MeaningAt
  <2> QED BY <1>1, <1>2, <2>1 DEF Meaning
<1> QED BY ONLY <1>1, <1>2, <1>3, AlignedPrefix

\* load_trace_file and stream_trace_file read what the whole file means, for
\* files of any length and any limit, although next() decides line by line with
\* format_known_ and csv_header_consumed_.
THEOREM WorkloadReadsWholeFile == WorkloadSpec => []ReadsWholeFile
<1>1. WorkloadInit => TraceInv
  BY TraceInitInv DEF WorkloadInit
<1>2. TraceInv /\ [WorkloadNext]_workloadVars => TraceInv'
  BY TraceKept
<1>3. TraceInv => ReadsWholeFile
  <2> SUFFICES ASSUME TraceInv PROVE ReadsWholeFile
    OBVIOUS
  <2>1. IsPrefix(ops, Meaning) /\ (lines_read = Len(file) => ops = Meaning)
    BY TraceMeans
  <2>2. LinesCounted
    BY DEF TraceInv
  <2> QED BY ONLY <2>1, <2>2 DEF ReadsWholeFile, LinesCounted
<1> QED BY <1>1, <1>2, <1>3, PTL DEF WorkloadSpec

-----------------------------------------------------------------------------
(* TraceReader: the documented formats *)

LEMMA DataLinesAre ==
    ASSUME TraceTyped
    PROVE  /\ Cardinality(DataAt) \in Nat /\ DOMAIN DataLines = 1 .. Cardinality(DataAt)
           /\ Len(DataLines) = Cardinality(DataAt)
           /\ \A k \in 1 .. Cardinality(DataAt) :
                 /\ DataLines[k] = file[Nth(DataAt, k)] /\ Nth(DataAt, k) \in DataAt
                 /\ Rank(DataAt, Nth(DataAt, k)) = k
           /\ \A d \in DataAt :
                 /\ Rank(DataAt, d) \in 1 .. Cardinality(DataAt) /\ DataLines[Rank(DataAt, d)] = file[d]
                 /\ Nth(DataAt, Rank(DataAt, d)) = d
                 /\ file[d] \in Lines
<1>1. Len(file) \in Nat /\ DataAt \subseteq 1 .. Len(file)
  BY LineNumbers
<1>2a. PICK D : D = DataAt
  OBVIOUS
<1>2b. Cardinality(D) \in Nat
  BY ONLY <1>1, <1>2a, RankWhole
<1>2c. PICK c \in Nat : c = Cardinality(D)
  BY <1>2b
<1>2. D = DataAt /\ c = Cardinality(D)
  BY <1>2a, <1>2c
<1>3. /\ \A k \in 1 .. c : Nth(D, k) \in D /\ Rank(D, Nth(D, k)) = k
      /\ \A n \in D : Rank(D, n) \in 1 .. c /\ Nth(D, Rank(D, n)) = n
  BY ONLY <1>1, <1>2, NthFacts
<1>4. DataLines = [k \in 1 .. c |-> file[Nth(D, k)]]
  BY <1>2 DEF DataLines
<1>5. DOMAIN DataLines = 1 .. c /\ Len(DataLines) = c
  BY ONLY <1>4, c \in Nat
<1>6. ASSUME NEW d \in D PROVE DataLines[Rank(D, d)] = file[d] /\ file[d] \in Lines
  <2>1. DataLines[Rank(D, d)] = file[d]
    BY ONLY <1>3, <1>4, d \in D
  <2>2. d \in 1 .. Len(file) /\ file \in Seq(Lines)
    BY <1>1, <1>2 DEF TraceTyped
  <2> QED BY <2>1, <2>2, ElementOfSeq
<1>7. \A k \in 1 .. c : DataLines[k] = file[Nth(D, k)]
  BY <1>4
<1> QED BY ONLY <1>2, <1>3, <1>5, <1>6, <1>7

\* A line of format A is parsed as it is written.
LEMMA FormatAParsed ==
    ASSUME NEW line \in Lines, FormatA(line)
    PROVE  /\ ~ line.comma
           /\ ParseSimple(line) = Op(IF Writes(line, 1) THEN "PUT" ELSE "GET", <<Last(line.words)>>)
<1>1. ~ line.comma
  BY DEF FormatA
<1>2. PICK w, W : w = line.words /\ W = Plain \cup Keywords
  OBVIOUS
<1>3. w \in Seq(W)
  BY <1>1, <1>2, LinesAssumption
<1>4. CASE Len(w) = 1 /\ w[1] \in Plain
  <2>1. w[1] \notin {"GET", "PUT", "SET"}
    BY <1>4, WordsAssumption DEF Keywords
  <2>2. w = <<w[1]>>
    BY <1>3, <1>4
  <2>3. Last(w) = w[1]
    BY <1>4 DEF Last
  <2>4. ParseSimple(line) = Op("GET", w)
    BY <1>2, <1>4 DEF ParseSimple
  <2>5. ~ Writes(line, 1)
    BY <1>2, <2>1 DEF Writes
  <2> QED BY ONLY <1>1, <1>2, <2>2, <2>3, <2>4, <2>5, Zenon
<1>5. CASE Len(w) = 2 /\ w[1] \in Verbs
  <2>1. ParseSimple(line) = Op(ParseOpType(w[1]), <<w[2]>>)
    BY <1>1, <1>2, <1>5 DEF ParseSimple, Verbs
  <2>2. Last(w) = w[2]
    BY <1>5 DEF Last
  <2>3. ParseOpType(w[1]) = IF Writes(line, 1) THEN "PUT" ELSE "GET"
    BY <1>2 DEF ParseOpType, Writes
  <2> QED BY ONLY <1>1, <1>2, <2>1, <2>2, <2>3, Zenon
<1> QED BY <1>2, <1>4, <1>5 DEF FormatA

LEMMA FormatARead ==
    ASSUME TraceTyped, \A n \in DOMAIN DataLines : FormatA(DataLines[n])
    PROVE  Meaning = [n \in DOMAIN DataLines |->
                        Op(IF Writes(DataLines[n], 1) THEN "PUT" ELSE "GET",
                           <<Last(DataLines[n].words)>>)]
<1>1a. Cardinality(DataAt) \in Nat
  BY DataLinesAre
<1>1b. PICK D : D = DataAt
  OBVIOUS
<1>1c. PICK c \in Nat : c = Cardinality(D)
  BY <1>1a, <1>1b
<1>1. D = DataAt /\ c = Cardinality(D)
  BY <1>1b, <1>1c
<1>2. /\ DOMAIN DataLines = 1 .. c
      /\ \A k \in 1 .. c : DataLines[k] = file[Nth(D, k)] /\ Nth(D, k) \in D
      /\ \A d \in D : Rank(D, d) \in 1 .. c /\ DataLines[Rank(D, d)] = file[d] /\ file[d] \in Lines
  BY ONLY <1>1, DataLinesAre, TraceTyped
<1>3. \A d \in D : FormatA(file[d]) /\ file[d] \in Lines
  BY <1>2
<1>4. ~ IsCsv
  <2> SUFFICES ASSUME IsCsv PROVE FALSE
    OBVIOUS
  <2>1. D # {} /\ LooksLikeCsv(file[Min(D)])
    BY <1>1 DEF IsCsv
  <2>2. D \subseteq Nat
    BY <1>1, LineNumbers
  <2>3. Min(D) \in D
    BY <2>1, <2>2, MinFacts
  <2>4. ~ file[Min(D)].comma
    BY <1>3, <2>3, FormatAParsed
  <2> QED BY <2>1, <2>4 DEF LooksLikeCsv
<1>5. OpAt = D
  BY <1>1, <1>4 DEF OpAt
<1>6. Meaning = [k \in 1 .. c |-> ParseSimple(file[Nth(D, k)])]
  BY <1>1, <1>4, <1>5 DEF Meaning, MeaningOf
<1>7. ASSUME NEW k \in 1 .. c
      PROVE  ParseSimple(file[Nth(D, k)]) =
                Op(IF Writes(DataLines[k], 1) THEN "PUT" ELSE "GET", <<Last(DataLines[k].words)>>)
  <2>1. PICK line \in Lines : line = file[Nth(D, k)] /\ FormatA(line)
    BY <1>2, <1>3
  <2>2. DataLines[k] = line
    BY <1>2, <2>1
  <2> QED BY ONLY <2>1, <2>2, FormatAParsed
<1> QED BY ONLY <1>2, <1>6, <1>7

\* The lines after the header, by their ranks: m is the least of the c elements
\* of D, E the others.
FirstOut(D, E, m, c) ==
    /\ m \in D /\ Rank(D, m) = 1 /\ Nth(D, 1) = m /\ c >= 1 /\ Cardinality(E) = c - 1
    /\ \A k \in 1 .. c - 1 : Nth(E, k) = Nth(D, k + 1) /\ Nth(E, k) \in E
    /\ \A d \in E : Rank(D, d) \in 2 .. c

LEMMA AfterFirst ==
    ASSUME NEW L \in Nat, NEW D, D \subseteq 1 .. L, D # {}, NEW m, m = Min(D), NEW E, E = D \ {m},
           NEW c \in Nat, c = Cardinality(D)
    PROVE  FirstOut(D, E, m, c)
<1>0. D \subseteq Nat
  OBVIOUS
<1>1. m \in D /\ \A x \in D : m <= x
  BY <1>0, MinFacts
<1>2. m \in Nat /\ m \in 1 .. L
  BY <1>0, <1>1
<1>3. Rank(D, m) = 1
  <2>1. ASSUME NEW x \in D \cap 1 .. m PROVE x = m
    <3>1. m <= x /\ x <= m /\ x \in Nat
      BY <1>0, <1>1, <1>2
    <3> QED BY ONLY <1>2, <3>1
  <2>2. m \in D \cap 1 .. m
    BY <1>1, <1>2
  <2>3. D \cap 1 .. m = {m}
    BY ONLY <2>1, <2>2
  <2> QED BY <2>3, FS_Singleton DEF Rank
<1>4. /\ \A k \in 1 .. c : Nth(D, k) \in D /\ Rank(D, Nth(D, k)) = k
      /\ \A n \in D : Rank(D, n) \in 1 .. c /\ Nth(D, Rank(D, n)) = n
  BY ONLY L \in Nat, D \subseteq 1 .. L, c = Cardinality(D), NthFacts
<1>5. Nth(D, 1) = m /\ 1 \in 1 .. c
  BY ONLY <1>1, <1>3, <1>4
<1>6. IsFiniteSet(D)
  BY RankWhole
<1>7. Cardinality(E) = c - 1
  BY <1>1, <1>6, FS_RemoveElement
<1>8. ASSUME NEW d \in E PROVE Rank(E, d) = Rank(D, d) - 1 /\ Rank(D, d) \in 2 .. c
  <2>1. d \in D /\ d # m /\ d \in Nat /\ m <= d
    BY <1>0, <1>1
  <2>2. m \in D \cap 1 .. d /\ IsFiniteSet(D \cap 1 .. d)
    <3>1. m \in 1 .. d
      BY <1>2, <2>1
    <3> QED BY <1>1, <2>1, <3>1, RankType
  <2>3. E \cap 1 .. d = (D \cap 1 .. d) \ {m}
    OBVIOUS
  <2>4. Cardinality((D \cap 1 .. d) \ {m}) = Cardinality(D \cap 1 .. d) - 1
    BY <2>2, FS_RemoveElement
  <2>5. Rank(D, d) # 1
    BY ONLY <1>0, <1>1, <1>3, <2>1, RankUnique
  <2>6. Rank(D, d) \in 1 .. c
    BY ONLY <1>4, <2>1
  <2>7. Rank(D, d) \in 2 .. c
    BY ONLY <2>5, <2>6, c \in Nat
  <2> QED BY ONLY <2>3, <2>4, <2>7 DEF Rank
<1>9. ASSUME NEW k \in 1 .. c - 1 PROVE Nth(E, k) = Nth(D, k + 1) /\ Nth(E, k) \in E
  <2>1. k + 1 \in 1 .. c /\ k + 1 # 1 /\ k \in Nat
    OBVIOUS
  <2>2. PICK d : d = Nth(D, k + 1)
    OBVIOUS
  <2>3. d \in D /\ Rank(D, d) = k + 1
    BY ONLY <1>4, <2>1, <2>2
  <2>4. d # m
    BY ONLY <1>3, <2>1, <2>3
  <2>5. d \in E
    BY <2>3, <2>4
  <2>6. Rank(E, d) = (k + 1) - 1
    BY ONLY <1>8, <2>3, <2>5
  <2>7. Rank(E, d) = k
    BY ONLY <2>1, <2>6
  <2>8. E \subseteq 1 .. L
    OBVIOUS
  <2>9. Nth(E, Rank(E, d)) = d
    BY ONLY L \in Nat, <2>5, <2>8, NthFacts
  <2> QED BY ONLY <2>2, <2>5, <2>7, <2>9
<1>10. c >= 1
  BY ONLY <1>5, c \in Nat
<1> QED BY ONLY <1>1, <1>3, <1>5, <1>7, <1>8, <1>9, <1>10 DEF FirstOut

LEMMA FormatBRead ==
    ASSUME TraceTyped, DataLines # <<>>, Header(DataLines[1]),
           \A n \in 2 .. Len(DataLines) : FormatB(DataLines[n])
    PROVE  Meaning = [n \in 1 .. Len(DataLines) - 1 |->
                        Op(IF Writes(DataLines[n + 1], 2) THEN "PUT" ELSE "GET",
                           <<DataLines[n + 1].words[3]>>)]
<1>1a. Cardinality(DataAt) \in Nat /\ Len(file) \in Nat
  BY DataLinesAre, LineNumbers
<1>1b. PICK D : D = DataAt
  OBVIOUS
<1>1c. PICK c \in Nat, L \in Nat : c = Cardinality(D) /\ L = Len(file)
  BY <1>1a, <1>1b
<1>1. D = DataAt /\ c = Cardinality(D) /\ L = Len(file)
  BY <1>1b, <1>1c
<1>2. /\ DOMAIN DataLines = 1 .. c /\ Len(DataLines) = c
      /\ \A k \in 1 .. c : DataLines[k] = file[Nth(D, k)] /\ Nth(D, k) \in D
      /\ \A d \in D : Rank(D, d) \in 1 .. c /\ DataLines[Rank(D, d)] = file[d] /\ file[d] \in Lines
  BY ONLY <1>1, DataLinesAre, TraceTyped
<1>3. D \subseteq 1 .. L /\ D # {}
  <2>1. D \subseteq 1 .. L
    BY <1>1, LineNumbers
  <2>2. ASSUME D = {} PROVE FALSE
    <3>1. c = 0
      BY <1>1, <2>2, FS_EmptySet
    <3>2. DataLines = [k \in 1 .. 0 |-> file[Nth(D, k)]]
      BY <1>1, <3>1 DEF DataLines
    <3>3. DataLines = <<>>
      BY ONLY <3>2
    <3> QED BY <3>3
  <2> QED BY <2>1, <2>2
<1>4. PICK m, E : m = Min(D) /\ E = D \ {m}
  OBVIOUS
<1>5. /\ m \in D /\ Rank(D, m) = 1 /\ Nth(D, 1) = m /\ c >= 1 /\ Cardinality(E) = c - 1
      /\ \A k \in 1 .. c - 1 : Nth(E, k) = Nth(D, k + 1) /\ Nth(E, k) \in E
      /\ \A d \in E : Rank(D, d) \in 2 .. c
  <2>1. c = Cardinality(D)
    BY <1>1
  <2>2. D \subseteq 1 .. L
    BY <1>3
  <2>3. D # {}
    BY <1>3
  <2>4. m = Min(D)
    BY <1>4
  <2>5. E = D \ {m}
    BY <1>4
  <2>6. FirstOut(D, E, m, c)
    BY ONLY <2>1, <2>2, <2>3, <2>4, <2>5, L \in Nat, c \in Nat, AfterFirst
  <2> QED BY <2>6 DEF FirstOut
<1>6. Header(file[m])
  <2>1. DataLines[1] = file[m]
    BY ONLY <1>2, <1>5
  <2> QED BY <2>1
<1>7. LooksLikeCsv(file[m]) /\ IsHeader(file[m])
  <2>1. PICK line : line = file[m]
    OBVIOUS
  <2>2. line.comma /\ Len(line.words) = 3 /\ line.words[2] = "op" /\ line.words[3] \in Plain
    BY <1>6, <2>1 DEF Header
  <2>3. line.words[3] # NoWord
    BY <2>2, WordsAssumption
  <2>4. \A n \in 1 .. 3 : HasField(line, n)
    BY <2>2, <2>3 DEF HasField
  <2> QED BY <2>1, <2>2, <2>4 DEF LooksLikeCsv, IsHeader
<1>8. IsCsv
  BY <1>1, <1>3, <1>4, <1>7 DEF IsCsv
<1>9. ASSUME NEW d \in E PROVE FormatB(file[d]) /\ CsvOk(file[d])
  <2>1. d \in D /\ Rank(D, d) \in 2 .. c
    BY <1>4, <1>5
  <2>2. FormatB(file[d])
    BY ONLY <1>2, <2>1, \A n \in 2 .. Len(DataLines) : FormatB(DataLines[n])
  <2>3. PICK line : line = file[d]
    OBVIOUS
  <2>4. line.comma /\ Len(line.words) = 3 /\ line.words[3] \in Plain
    BY <2>2, <2>3 DEF FormatB
  <2>5. line.words[3] # NoWord
    BY <2>4, WordsAssumption
  <2>6. CsvOk(line)
    BY <2>4, <2>5 DEF CsvOk, HasField
  <2> QED BY <2>2, <2>3, <2>6
<1>10. OpAt = E
  <2>1. ASSUME NEW d \in OpAt PROVE d \in E
    BY <1>1, <1>4, <1>7, <1>8 DEF OpAt
  <2>2. ASSUME NEW d \in E PROVE d \in OpAt
    BY <1>1, <1>4, <1>9 DEF OpAt
  <2> QED BY <2>1, <2>2
<1>11. Meaning = [k \in 1 .. c - 1 |-> ParseCsv(file[Nth(E, k)])]
  BY <1>5, <1>8, <1>10 DEF Meaning, MeaningOf
<1>12. ASSUME NEW k \in 1 .. c - 1
       PROVE  ParseCsv(file[Nth(E, k)]) =
                Op(IF Writes(DataLines[k + 1], 2) THEN "PUT" ELSE "GET", <<DataLines[k + 1].words[3]>>)
  <2>1. k + 1 \in 1 .. c
    OBVIOUS
  <2>2. file[Nth(E, k)] = DataLines[k + 1]
    BY ONLY <1>2, <1>5, <2>1, k \in 1 .. c - 1
  <2> QED BY ONLY <2>2 DEF ParseCsv, ParseOpType, Writes
<1> QED BY ONLY <1>2, <1>11, <1>12

\* A file of any length in one of the formats of trace_loader.h is read as it
\* is written: the guesses of detect_format and the parsers' tolerance of other
\* lines never change the meaning of a documented one.
THEOREM WorkloadDocumentedFormatsRead == WorkloadSpec => []DocumentedFormatsRead
<1>1. WorkloadInit => TraceInv
  BY TraceInitInv DEF WorkloadInit
<1>2. TraceInv /\ [WorkloadNext]_workloadVars => TraceInv'
  BY TraceKept
<1>3. TraceInv => DocumentedFormatsRead
  <2> SUFFICES ASSUME TraceInv, ~ loading, max_ops = 0
               PROVE  /\ (\A n \in DOMAIN DataLines : FormatA(DataLines[n])) =>
                            ops = [n \in DOMAIN DataLines |->
                                      Op(IF Writes(DataLines[n], 1) THEN "PUT" ELSE "GET",
                                         <<Last(DataLines[n].words)>>)]
                      /\ DataLines # <<>> /\ Header(DataLines[1])
                            /\ (\A n \in 2 .. Len(DataLines) : FormatB(DataLines[n])) =>
                            ops = [n \in 1 .. Len(DataLines) - 1 |->
                                      Op(IF Writes(DataLines[n + 1], 2) THEN "PUT" ELSE "GET",
                                         <<DataLines[n + 1].words[3]>>)]
    BY DEF DocumentedFormatsRead
  <2>1. lines_read = Len(file)
    BY DEF TraceInv, LinesCounted
  <2>2. ops = Meaning
    BY <2>1, TraceMeans
  <2>3. TraceTyped
    BY DEF TraceInv
  <2> QED BY ONLY <2>2, <2>3, FormatARead, FormatBRead
<1> QED BY <1>1, <1>2, <1>3, PTL DEF WorkloadSpec
=============================================================================
