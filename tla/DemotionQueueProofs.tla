------------------------ MODULE DemotionQueueProofs ------------------------
(***************************************************************************)
(* The ring buffer is a bounded queue, for every size it can be asked for, *)
(* every modulus of the positions that the words' range divides, and any   *)
(* number of turns of the positions; and next_power_of_2 rounds every size *)
(* of up to 32 bits to the power of two it is meant to.                    *)
(***************************************************************************)
EXTENDS DemotionQueue, SequenceTheorems, NaturalsInduction, WellFoundedInduction, TLAPS

-----------------------------------------------------------------------------
(* Remainders *)

LEMMA Division ==
    ASSUME NEW M \in Nat, M > 0, NEW D \in Int
    PROVE  D = M * (D \div M) + (D % M) /\ D % M \in 0 .. M - 1 /\ D \div M \in Int
OBVIOUS

LEMMA Remainder ==
    ASSUME NEW M \in Nat, M > 0, NEW q \in Int, NEW r \in 0 .. M - 1
    PROVE  (M * q + r) % M = r
OBVIOUS

LEMMA Small ==
    ASSUME NEW M \in Nat, M > 0, NEW r \in 0 .. M - 1
    PROVE  r % M = r
OBVIOUS

LEMMA Distribute ==
    ASSUME NEW M \in Int, NEW p \in Int, NEW q \in Int
    PROVE  M * (p + q) = M * p + M * q /\ M * p \in Int /\ M * q \in Int /\ M * (p + q) \in Int
OBVIOUS

\* Multiples do not count.
LEMMA ModShift ==
    ASSUME NEW M \in Nat, M > 0, NEW z \in Int, NEW y \in Int
    PROVE  (M * z + y) % M = y % M
<1>1. PICK p, s : y = M * p + s /\ s = y % M /\ p \in Int /\ s \in 0 .. M - 1
  BY Division
<1>2. M * (z + p) = M * z + M * p /\ M * z \in Int /\ M * p \in Int /\ z + p \in Int
  BY <1>1, Distribute
<1>3. M * z + y = M * (z + p) + s
  BY <1>1, <1>2
<1>4. (M * (z + p) + s) % M = s
  BY <1>1, <1>2, Remainder
<1> QED BY <1>1, <1>3, <1>4

\* A position kept modulo M indexes a ring whose size divides M.
LEMMA ModInner ==
    ASSUME NEW M \in Nat, M > 0, NEW C \in Nat, C > 0, M % C = 0, NEW x \in Int, NEW e \in Int
    PROVE  ((x % M) + e) % C = (x + e) % C
<1>1. PICK q, r : x = M * q + r /\ r = x % M /\ q \in Int /\ r \in 0 .. M - 1
  BY Division
<1>2. PICK d \in Int : M = C * d
  BY Division
<1>3. M * q = C * (d * q) /\ d * q \in Int
  BY <1>1, <1>2
<1>4. PICK z \in Int : x + e = C * z + (r + e)
  <2>1. C * (d * q) \in Int
    BY <1>3
  <2>2. x + e = C * (d * q) + (r + e)
    BY <1>1, <1>3, <2>1
  <2> QED BY <1>3, <2>2
<1>5. (C * z + (r + e)) % C = (r + e) % C
  <2>1. r + e \in Int
    BY <1>1
  <2> QED BY ONLY <2>1, ModShift, C \in Nat, C > 0, z \in Int
<1> QED BY <1>1, <1>4, <1>5

LEMMA DividesItself ==
    ASSUME NEW M \in Nat, M > 0
    PROVE  M % M = 0
<1>1. (M * 1 + 0) % M = 0
  BY Remainder
<1> QED BY <1>1

LEMMA ModSubtrahend ==
    ASSUME NEW M \in Nat, M > 0, NEW w \in Int, NEW y \in Int
    PROVE  (w - (y % M)) % M = (w - y) % M
<1>1. PICK q, r : y = M * q + r /\ r = y % M /\ q \in Int /\ r \in 0 .. M - 1
  BY Division
<1>2. M * q \in Int
  BY <1>1
<1>3. w - r = M * q + (w - y)
  BY <1>1, <1>2
<1>4. (M * q + (w - y)) % M = (w - y) % M
  <2>1. w - y \in Int /\ q \in Int
    BY <1>1
  <2> QED BY ONLY <2>1, ModShift, M \in Nat, M > 0
<1> QED BY <1>1, <1>3, <1>4

\* Fewer than C steps apart is not the same cell.
LEMMA CellsApart ==
    ASSUME NEW C \in Nat, C > 0, NEW a \in Int, NEW b \in Int, a < b, b < a + C
    PROVE  a % C # b % C
<1> SUFFICES ASSUME a % C = b % C PROVE FALSE
  OBVIOUS
<1>1. PICK p, q, r : a = C * p + r /\ b = C * q + r /\ p \in Int /\ q \in Int /\ r \in Int
  <2>1. a = C * (a \div C) + (a % C) /\ a % C \in 0 .. C - 1 /\ a \div C \in Int
    BY Division
  <2>2. b = C * (b \div C) + (b % C) /\ b \div C \in Int
    BY Division
  <2>3. PICK p, q, r : p = a \div C /\ q = b \div C /\ r = a % C
    OBVIOUS
  <2>4. a = C * p + r /\ b = C * q + r /\ p \in Int /\ q \in Int /\ r \in 0 .. C - 1
    BY <2>1, <2>2, <2>3, Zenon
  <2>5. r \in Int
    BY <2>4
  <2> QED BY <2>4, <2>5, Zenon
<1>2. PICK k \in Int : q = p + k
  <2>1. q = p + (q - p) /\ q - p \in Int
    BY <1>1
  <2> QED BY <2>1
<1>3. C * q = C * p + C * k /\ C * k \in Int /\ C * p \in Int
  BY <1>1, <1>2, Distribute
<1>4. 0 < C * k /\ C * k < C
  BY <1>1, <1>3
<1>5. k >= 1
  <2>1. ASSUME k <= 0 PROVE FALSE
    <3>1. C * k <= 0
      BY <2>1
    <3> QED BY <1>3, <1>4, <3>1
  <2> QED BY <2>1
<1>6. PICK i \in Nat : k = 1 + i
  <2>1. k = 1 + (k - 1) /\ k - 1 \in Nat
    BY <1>5
  <2> QED BY <2>1
<1>7. C * (1 + i) = C + C * i /\ C * i \in Nat
  BY <1>6
<1> QED BY <1>3, <1>4, <1>6, <1>7

\* The number of items between two positions, when the write position advances ...
LEMMA SizeUp ==
    ASSUME NEW M \in Nat, M > 0, NEW w \in 0 .. M - 1, NEW r \in 0 .. M - 1,
           NEW N, N = (w - r) % M, N + 1 < M
    PROVE  (((w + 1) % M) - r) % M = N + 1
<1>1. N \in 0 .. M - 1
  <2>1. w - r \in Int
    OBVIOUS
  <2> QED BY ONLY <2>1, Division, N = (w - r) % M, M \in Nat, M > 0
<1>2. (((w + 1) % M) - r) % M = (w + 1 - r) % M
  <2>1. w + 1 \in Int /\ -r \in Int /\ M % M = 0
    BY DividesItself
  <2>2. (((w + 1) % M) + (-r)) % M = ((w + 1) + (-r)) % M
    BY ONLY <2>1, ModInner, M \in Nat, M > 0
  <2>3. (w + 1) % M \in Int
    BY <2>1
  <2>4. ((w + 1) % M) + (-r) = ((w + 1) % M) - r /\ (w + 1) + (-r) = w + 1 - r
    BY <2>3
  <2> QED BY <2>2, <2>4
<1>3. (N + 1) % M = (w + 1 - r) % M
  <2>1. w - r \in Int /\ 1 \in Int /\ M % M = 0
    BY DividesItself
  <2>2. (((w - r) % M) + 1) % M = ((w - r) + 1) % M
    BY ONLY <2>1, ModInner, M \in Nat, M > 0
  <2>3. (w - r) + 1 = w + 1 - r
    OBVIOUS
  <2> QED BY <2>2, <2>3
<1>4. (N + 1) % M = N + 1
  <2>1. N + 1 \in 0 .. M - 1
    BY <1>1
  <2> QED BY ONLY <2>1, Small, M \in Nat, M > 0
<1> QED BY <1>2, <1>3, <1>4

\* ... and when the read position does.
LEMMA SizeDown ==
    ASSUME NEW M \in Nat, M > 0, NEW w \in 0 .. M - 1, NEW r \in 0 .. M - 1,
           NEW n \in 0 .. ((w - r) % M)
    PROVE  (w - ((r + n) % M)) % M = ((w - r) % M) - n
<1> DEFINE N == (w - r) % M
<1>1. N \in 0 .. M - 1
  <2>1. w - r \in Int
    OBVIOUS
  <2> QED BY ONLY <2>1, Division, M \in Nat, M > 0
<1>0. n \in Int /\ 0 <= n /\ n <= N
  BY <1>1
<1>2. (w - ((r + n) % M)) % M = (w - (r + n)) % M
  <2>1. w \in Int /\ r + n \in Int
    BY <1>0
  <2> QED BY ONLY <2>1, ModSubtrahend, M \in Nat, M > 0
<1>3. (N + (-n)) % M = ((w - r) + (-n)) % M
  <2>1. w - r \in Int /\ -n \in Int /\ M % M = 0
    BY <1>0, DividesItself
  <2>2. (((w - r) % M) + (-n)) % M = ((w - r) + (-n)) % M
    BY ONLY <2>1, ModInner, M \in Nat, M > 0
  <2> QED BY <2>2
<1>4. (w - r) + (-n) = w - (r + n) /\ N + (-n) = N - n /\ N - n \in 0 .. M - 1
  BY <1>0, <1>1
<1>5. (N - n) % M = N - n
  BY ONLY <1>4, Small, M \in Nat, M > 0
<1> QED BY <1>2, <1>3, <1>4, <1>5

\* The next cell to write is the one after the items that wait.
LEMMA WriteCell ==
    ASSUME NEW M \in Nat, M > 0, NEW C \in Nat, C > 0, M % C = 0,
           NEW w \in 0 .. M - 1, NEW r \in 0 .. M - 1
    PROVE  w % C = (r + ((w - r) % M)) % C
<1> DEFINE N == (w - r) % M
<1>1. N \in Int
  <2>1. w - r \in Int
    OBVIOUS
  <2> QED BY <2>1
<1>2. (((w - r) % M) + r) % C = ((w - r) + r) % C
  <2>1. w - r \in Int /\ r \in Int
    OBVIOUS
  <2> QED BY ONLY <2>1, ModInner, M \in Nat, M > 0, C \in Nat, C > 0, M % C = 0
<1>3. (w - r) + r = w /\ N + r = r + N
  BY <1>1
<1> QED BY <1>2, <1>3

-----------------------------------------------------------------------------
(* Induction, and functions defined by it *)

\* A non-empty set of naturals has a least element.
LEMMA LeastNat ==
    ASSUME NEW T, T \subseteq Nat, T # {}
    PROVE  \E n \in T : \A m \in T : n <= m
<1>1. PICK n \in T : \A m \in T : ~ (<<m, n>> \in OpToRel(<, Nat))
  <2>1. IsWellFoundedOn(OpToRel(<, Nat), Nat)
    BY NatLessThanWellFounded
  <2> QED BY <2>1, WFMin
<1>2. ASSUME NEW m \in T PROVE n <= m
  <2>1. n \in Nat /\ m \in Nat
    OBVIOUS
  <2>2. ~ (m < n)
    BY <1>1, <2>1 DEF OpToRel
  <2> QED BY ONLY <2>1, <2>2
<1> QED BY <1>2

\* Induction on the naturals, for a set of numbers.
LEMMA NatGrow ==
    ASSUME NEW G, 0 \in G, \A n \in Nat : n \in G => n + 1 \in G
    PROVE  Nat \subseteq G
<1> DEFINE T == Nat \ G
<1> SUFFICES ASSUME T # {} PROVE FALSE
  OBVIOUS
<1>1. PICK n \in T : \A m \in T : n <= m
  BY LeastNat
<1>2. PICK m \in Nat : n = m + 1
  <2>1. n \in Nat /\ n # 0
    OBVIOUS
  <2>2. n - 1 \in Nat /\ n = (n - 1) + 1
    BY ONLY <2>1
  <2> QED BY <2>2
<1>3. m \in G
  BY <1>1, <1>2
<1> QED BY <1>2, <1>3

\* A linear recursion has a solution.
Solves(f, c, d, N) == \A n \in 1 .. N : f[n] = c * f[n - 1] + d[n]

LEMMA RecursionExists ==
    ASSUME NEW a \in Int, NEW c \in Int, NEW d \in [Nat -> Int]
    PROVE  \A N \in Nat : \E f \in [Nat -> Int] : f[0] = a /\ Solves(f, c, d, N)
<1> DEFINE G == {N \in Nat : \E f \in [Nat -> Int] : f[0] = a /\ Solves(f, c, d, N)}
<1>1. 0 \in G
  <2> DEFINE f == [n \in Nat |-> a]
  <2>1. f \in [Nat -> Int] /\ f[0] = a /\ Solves(f, c, d, 0)
    BY DEF Solves
  <2> QED BY <2>1
<1>2. ASSUME NEW N \in Nat, N \in G PROVE N + 1 \in G
  <2>1. PICK f \in [Nat -> Int] : f[0] = a /\ Solves(f, c, d, N)
    BY <1>2
  <2> DEFINE v == c * f[N] + d[N + 1]
             g == [n \in Nat |-> IF n = N + 1 THEN v ELSE f[n]]
  <2>2. v \in Int
    <3>1. f[N] \in Int /\ d[N + 1] \in Int
      OBVIOUS
    <3> QED BY ONLY <3>1, c \in Int
  <2> HIDE DEF v
  <2>3. g \in [Nat -> Int] /\ g[0] = a
    BY <2>1, <2>2
  <2>4. ASSUME NEW n \in 1 .. N + 1 PROVE g[n] = c * g[n - 1] + d[n]
    <3>1. CASE n = N + 1
      <4>1. g[n] = v /\ g[n - 1] = f[N]
        BY <3>1
      <4> QED BY ONLY <3>1, <4>1 DEF v
    <3>2. CASE n \in 1 .. N
      <4>1. g[n] = f[n] /\ g[n - 1] = f[n - 1]
        BY <3>2
      <4>2. f[n] = c * f[n - 1] + d[n]
        BY <2>1, <3>2 DEF Solves
      <4> QED BY ONLY <4>1, <4>2
    <3>3. n = N + 1 \/ n \in 1 .. N
      OBVIOUS
    <3> QED BY ONLY <3>1, <3>2, <3>3
  <2>5. Solves(g, c, d, N + 1)
    BY ONLY <2>4 DEF Solves
  <2> QED BY <2>3, <2>5
<1>3. Nat \subseteq G
  <2> HIDE DEF G
  <2> QED BY <1>1, <1>2, NatGrow
<1> QED BY <1>3

-----------------------------------------------------------------------------
(* Powers of two *)

LEMMA PowRecursion ==
    Pow2[0] = 1 /\ \A n \in 1 .. Width : Pow2[n] = 2 * Pow2[n - 1]
<1> DEFINE IsPow(f) == f = [n \in 0 .. Width |-> IF n = 0 THEN 1 ELSE 2 * f[n - 1]]
<1>0. Width \in Nat
  BY RingAssumption
<1>1. PICK d : d = [n \in Nat |-> 0]
  OBVIOUS
<1>2. PICK f \in [Nat -> Int] : f[0] = 1 /\ Solves(f, 2, d, Width)
  <2>1. d \in [Nat -> Int] /\ 1 \in Int /\ 2 \in Int
    BY <1>1
  <2>2. \A N \in Nat : \E f \in [Nat -> Int] : f[0] = 1 /\ Solves(f, 2, d, N)
    BY ONLY <2>1, RecursionExists, Zenon
  <2> QED BY ONLY <1>0, <2>2, Zenon
<1>3. IsPow([n \in 0 .. Width |-> f[n]])
  <2> DEFINE g == [n \in 0 .. Width |-> f[n]]
  <2>1. ASSUME NEW n \in 0 .. Width PROVE g[n] = IF n = 0 THEN 1 ELSE 2 * g[n - 1]
    <3>1. CASE n = 0
      BY <1>0, <1>2, <3>1
    <3>2. CASE n # 0
      <4>1. n \in 1 .. Width /\ n - 1 \in 0 .. Width /\ n \in Nat /\ n - 1 \in Nat
        BY <1>0, <3>2
      <4>2. f[n] = 2 * f[n - 1] + d[n]
        BY ONLY <1>2, <4>1 DEF Solves
      <4>3. d[n] = 0 /\ f[n - 1] \in Int
        BY <1>1, <4>1
      <4>4. f[n] = 2 * f[n - 1]
        BY ONLY <4>2, <4>3
      <4> QED BY <3>2, <4>1, <4>4
    <3> QED BY <3>1, <3>2
  <2>2. g = [n \in 0 .. Width |-> IF n = 0 THEN 1 ELSE 2 * g[n - 1]]
    BY <2>1
  <2> QED BY <2>2
<1>4. IsPow(Pow2)
  <2>1. Pow2 = CHOOSE g : IsPow(g)
    BY Zenon DEF Pow2
  <2> HIDE DEF IsPow
  <2> QED BY <1>3, <2>1
<1>5. PICK u : u = Pow2 /\ IsPow(u)
  BY <1>4
<1>6. u[0] = 1 /\ \A n \in 0 .. Width : n # 0 => u[n] = 2 * u[n - 1]
  <2>1. u = [n \in 0 .. Width |-> IF n = 0 THEN 1 ELSE 2 * u[n - 1]]
    BY <1>5
  <2>2. 0 \in 0 .. Width
    BY <1>0
  <2> QED BY ONLY <2>1, <2>2
<1>7. \A n \in 1 .. Width : n # 0 /\ n \in 0 .. Width
  BY <1>0
<1> QED BY ONLY <1>5, <1>6, <1>7

LEMMA PowPositive == \A n \in 0 .. Width : Pow2[n] \in Nat /\ Pow2[n] >= 1
<1> DEFINE G == {n \in Nat : n \in 0 .. Width => Pow2[n] \in Nat /\ Pow2[n] >= 1}
<1>0. Width \in Nat
  BY RingAssumption
<1>1. 0 \in G
  BY PowRecursion
<1>2. ASSUME NEW n \in Nat, n \in G PROVE n + 1 \in G
  <2> SUFFICES ASSUME n + 1 \in 0 .. Width PROVE Pow2[n + 1] \in Nat /\ Pow2[n + 1] >= 1
    OBVIOUS
  <2>1. n \in 0 .. Width /\ n + 1 \in 1 .. Width /\ (n + 1) - 1 = n
    BY <1>0
  <2>2. Pow2[n + 1] = 2 * Pow2[n]
    BY <2>1, PowRecursion
  <2> QED BY <1>2, <2>1, <2>2
<1>3. Nat \subseteq G
  <2> HIDE DEF G
  <2> QED BY <1>1, <1>2, NatGrow
<1> QED BY <1>0, <1>3

\* A smaller power is smaller, and divides a greater one.
LEMMA PowGrows ==
    ASSUME NEW m \in 0 .. Width
    PROVE  \A n \in 0 .. Width : m <= n => /\ Pow2[m] <= Pow2[n] /\ (m < n => 2 * Pow2[m] <= Pow2[n])
                                           /\ \E q \in Nat : Pow2[n] = Pow2[m] * q
<1> DEFINE P(n) == /\ Pow2[m] <= Pow2[n] /\ (m < n => 2 * Pow2[m] <= Pow2[n])
                   /\ \E q \in Nat : Pow2[n] = Pow2[m] * q
           G == {n \in Nat : n \in 0 .. Width /\ m <= n => P(n)}
<1>0. Width \in Nat
  BY RingAssumption
<1>1. PICK x \in Nat : x = Pow2[m] /\ x >= 1
  BY PowPositive
<1>2. P(m)
  BY <1>1
<1>3. 0 \in G
  <2>1. ASSUME m <= 0 PROVE m = 0
    BY <1>0, <2>1
  <2> HIDE DEF P
  <2> QED BY <1>2, <2>1
<1>4. ASSUME NEW n \in Nat, n \in G PROVE n + 1 \in G
  <2> SUFFICES ASSUME n + 1 \in 0 .. Width, m <= n + 1 PROVE P(n + 1)
    OBVIOUS
  <2>1. n \in 0 .. Width /\ n + 1 \in 1 .. Width /\ (n + 1) - 1 = n
    BY <1>0
  <2>2. CASE m = n + 1
    <3> HIDE DEF P
    <3> QED BY <1>2, <2>2
  <2>3. CASE m # n + 1
    <3>1. m <= n
      BY <1>0, <2>3
    <3>2. P(n)
      BY <1>4, <2>1, <3>1
    <3>3. PICK y \in Nat : y = Pow2[n] /\ Pow2[n + 1] = 2 * y
      BY <2>1, PowPositive, PowRecursion
    <3>4. PICK q \in Nat : y = x * q /\ x <= y
      BY <1>1, <3>2, <3>3
    <3>5. 2 * y = x * (2 * q) /\ 2 * q \in Nat /\ x <= 2 * y /\ 2 * x <= 2 * y
      BY ONLY <3>4, x \in Nat, y \in Nat, q \in Nat
    <3> QED BY <1>1, <3>3, <3>5
  <2> QED BY <2>2, <2>3
<1>5. Nat \subseteq G
  <2> HIDE DEF G
  <2> QED BY <1>3, <1>4, NatGrow
<1>6. ASSUME NEW n \in 0 .. Width, m <= n PROVE P(n)
  <2>1. n \in Nat
    BY <1>0
  <2>2. n \in G
    BY <1>5, <2>1
  <2> QED BY <1>6, <2>2
<1> QED BY <1>6

-----------------------------------------------------------------------------
(* Words *)

LEMMA ValueRecursion ==
    ASSUME NEW ones
    PROVE  \E f : /\ f[0] = 0 /\ Value(ones) = f[Width]
                  /\ \A n \in 1 .. Width : f[n] = f[n - 1] + (IF n - 1 \in ones THEN Pow2[n - 1] ELSE 0)
<1> DEFINE e(n) == IF n - 1 \in ones THEN Pow2[n - 1] ELSE 0
           IsSum(f) == f = [n \in 0 .. Width |-> IF n = 0 THEN 0 ELSE f[n - 1] + (IF n - 1 \in ones THEN Pow2[n - 1] ELSE 0)]
<1>0. Width \in Nat
  BY RingAssumption
<1>a. ASSUME NEW n \in 1 .. Width PROVE e(n) \in Int
  <2>1. n - 1 \in 0 .. Width
    BY <1>0
  <2>2. Pow2[n - 1] \in Nat
    BY <2>1, PowPositive
  <2> QED BY <2>2
<1>1. PICK d : d = [n \in Nat |-> IF n \in 1 .. Width THEN e(n) ELSE 0]
  OBVIOUS
<1>2. d \in [Nat -> Int] /\ \A n \in 1 .. Width : d[n] = e(n)
  <2> HIDE DEF e
  <2>1. 1 .. Width \subseteq Nat
    BY <1>0
  <2> QED BY <1>1, <1>a, <2>1
<1>3. PICK f \in [Nat -> Int] : f[0] = 0 /\ Solves(f, 1, d, Width)
  <2>1. d \in [Nat -> Int] /\ 0 \in Int /\ 1 \in Int
    BY <1>2
  <2>2. \A N \in Nat : \E f \in [Nat -> Int] : f[0] = 0 /\ Solves(f, 1, d, N)
    BY ONLY <2>1, RecursionExists, Zenon
  <2> QED BY ONLY <1>0, <2>2, Zenon
<1>4. IsSum([n \in 0 .. Width |-> f[n]])
  <2> DEFINE g == [n \in 0 .. Width |-> f[n]]
  <2>1. ASSUME NEW n \in 0 .. Width PROVE g[n] = IF n = 0 THEN 0 ELSE g[n - 1] + e(n)
    <3> HIDE DEF e
    <3>1. CASE n = 0
      BY <1>0, <1>3, <3>1
    <3>2. CASE n # 0
      <4>1. n \in 1 .. Width /\ n - 1 \in 0 .. Width /\ n \in Nat /\ n - 1 \in Nat
        BY <1>0, <3>2
      <4>2. f[n] = 1 * f[n - 1] + d[n]
        BY ONLY <1>3, <4>1 DEF Solves
      <4>3. d[n] = e(n) /\ f[n - 1] \in Int
        BY <1>2, <4>1
      <4>4. f[n] = f[n - 1] + e(n)
        BY ONLY <4>2, <4>3
      <4> QED BY <3>2, <4>1, <4>4
    <3> QED BY <3>1, <3>2
  <2>2. g = [n \in 0 .. Width |-> IF n = 0 THEN 0 ELSE g[n - 1] + e(n)]
    <3> HIDE DEF e
    <3> QED BY <2>1
  <2> QED BY <2>2
<1>5. PICK u : u = CHOOSE g : IsSum(g)
  OBVIOUS
<1>6. Value(ones) = u[Width]
  BY <1>5, Zenon DEF Value
<1>7. IsSum(u)
  <2> HIDE DEF IsSum
  <2> QED BY <1>4, <1>5
<1>8. u[0] = 0 /\ \A n \in 0 .. Width : n # 0 => u[n] = u[n - 1] + e(n)
  <2> HIDE DEF e
  <2>1. u = [n \in 0 .. Width |-> IF n = 0 THEN 0 ELSE u[n - 1] + e(n)]
    BY <1>7 DEF e
  <2> QED BY <1>0, <2>1
<1>9. \A n \in 1 .. Width : n # 0 /\ n \in 0 .. Width
  BY <1>0
<1>10. \A n \in 1 .. Width : u[n] = u[n - 1] + e(n)
  <2> HIDE DEF e
  <2> QED BY ONLY <1>8, <1>9
<1> QED BY <1>6, <1>8, <1>10

\* The word whose lowest k bits are ones.
LEMMA ValueOfLow ==
    ASSUME NEW k \in 0 .. Width
    PROVE  Value(0 .. k - 1) = Pow2[k] - 1
<1>0. Width \in Nat /\ k \in Nat /\ k <= Width
  BY RingAssumption
<1>1. PICK f : /\ f[0] = 0 /\ Value(0 .. k - 1) = f[Width]
               /\ \A n \in 1 .. Width : f[n] = f[n - 1] + (IF n - 1 \in 0 .. k - 1 THEN Pow2[n - 1] ELSE 0)
  BY ValueRecursion
<1> DEFINE G == {n \in Nat : n \in 0 .. Width => f[n] = Pow2[IF n <= k THEN n ELSE k] - 1}
<1>2. 0 \in G
  BY <1>0, <1>1, PowRecursion
<1>3. ASSUME NEW n \in Nat, n \in G PROVE n + 1 \in G
  <2> SUFFICES ASSUME n + 1 \in 0 .. Width PROVE f[n + 1] = Pow2[IF n + 1 <= k THEN n + 1 ELSE k] - 1
    OBVIOUS
  <2>1. n \in 0 .. Width /\ n + 1 \in 1 .. Width /\ (n + 1) - 1 = n
    BY <1>0
  <2>2. f[n + 1] = f[n] + (IF n \in 0 .. k - 1 THEN Pow2[n] ELSE 0)
    BY <1>1, <2>1
  <2>3. f[n] = Pow2[IF n <= k THEN n ELSE k] - 1
    BY <1>3, <2>1
  <2>4. CASE n + 1 <= k
    <3>1. n \in 0 .. k - 1 /\ n <= k
      BY <1>0, <2>4
    <3>2. f[n + 1] = (Pow2[n] - 1) + Pow2[n]
      BY <2>2, <2>3, <3>1
    <3>3. Pow2[n + 1] = 2 * Pow2[n] /\ Pow2[n] \in Nat
      BY <2>1, PowRecursion, PowPositive
    <3>4. f[n + 1] = Pow2[n + 1] - 1
      BY ONLY <3>2, <3>3
    <3> QED BY <2>4, <3>4
  <2>5. CASE ~ n + 1 <= k
    <3>1. n \notin 0 .. k - 1 /\ (n <= k => n = k)
      BY <1>0, <2>5
    <3>2. f[n] = Pow2[k] - 1
      BY ONLY <2>3, <3>1
    <3>3. f[n + 1] = f[n] + 0 /\ Pow2[k] \in Nat
      BY <2>2, <3>1, PowPositive
    <3> QED BY ONLY <2>5, <3>2, <3>3
  <2> QED BY <2>4, <2>5
<1>4. Nat \subseteq G
  <2> HIDE DEF G
  <2> QED BY <1>2, <1>3, NatGrow
<1>5. f[Width] = Pow2[IF Width <= k THEN Width ELSE k] - 1
  <2>1. Width \in G /\ Width \in 0 .. Width
    BY <1>0, <1>4
  <2> QED BY <2>1
<1>6. (IF Width <= k THEN Width ELSE k) = k
  BY ONLY <1>0
<1> QED BY ONLY <1>1, <1>5, <1>6

\* The bits up to m below a one.
Down(w, m) == {b \in Nat : \E c \in w : b <= c /\ c <= b + m}

LEMMA DownTwice ==
    ASSUME NEW w \in SUBSET Nat, NEW m \in Nat
    PROVE  OrShifted(Down(w, m), m + 1) = Down(w, m + (m + 1))
<1>0. PICK n \in Nat, s \in Nat : n = m + 1 /\ s = m + n
  OBVIOUS
<1>1. ASSUME NEW b \in OrShifted(Down(w, m), n) PROVE b \in Down(w, s)
  <2>1. CASE b \in Down(w, m)
    <3>1. PICK c \in w : b \in Nat /\ c \in Nat /\ b <= c /\ c <= b + m
      BY <2>1 DEF Down
    <3>2. c <= b + s
      BY ONLY <3>1, m \in Nat, n \in Nat, s \in Nat, <1>0
    <3> QED BY ONLY <3>1, <3>2, c \in w DEF Down
  <2>2. CASE b \notin Down(w, m)
    <3>1. PICK a \in Down(w, m) : a >= n /\ b = a - n
      BY <1>1, <2>2 DEF OrShifted
    <3>2. PICK c \in w : a \in Nat /\ c \in Nat /\ a <= c /\ c <= a + m
      BY <3>1 DEF Down
    <3>3. b \in Nat /\ b <= c /\ c <= b + s
      BY ONLY <3>1, <3>2, m \in Nat, n \in Nat, s \in Nat, <1>0
    <3> QED BY ONLY <3>3, c \in w DEF Down
  <2> QED BY <2>1, <2>2
<1>2. ASSUME NEW b \in Down(w, s) PROVE b \in OrShifted(Down(w, m), n)
  <2>1. PICK c \in w : b \in Nat /\ c \in Nat /\ b <= c /\ c <= b + s
    BY <1>2 DEF Down
  <2>2. CASE c <= b + m
    BY <2>1, <2>2 DEF Down, OrShifted
  <2>3. CASE ~ c <= b + m
    <3>1. b + n \in Nat /\ b + n <= c /\ c <= (b + n) + m /\ b + n >= n /\ b = (b + n) - n
      BY ONLY <2>1, <2>3, m \in Nat, n \in Nat, s \in Nat, <1>0
    <3>2. b + n \in Down(w, m)
      BY ONLY <3>1, c \in w DEF Down
    <3> QED BY ONLY <3>1, <3>2 DEF OrShifted
  <2> QED BY <2>2, <2>3
<1>3. OrShifted(Down(w, m), n) = Down(w, s)
  BY ONLY <1>1, <1>2
<1> QED BY ONLY <1>0, <1>3, Zenon

LEMMA SmearIsDown ==
    ASSUME NEW w \in SUBSET Nat
    PROVE  Smear(w) = Down(w, 31)
<1>0. w = Down(w, 0)
  <2>1. ASSUME NEW b \in w PROVE b \in Down(w, 0)
    BY DEF Down
  <2>2. ASSUME NEW b \in Down(w, 0) PROVE b \in w
    <3>1. PICK c \in w : b \in Nat /\ c \in Nat /\ b <= c /\ c <= b + 0
      BY <2>2 DEF Down
    <3>2. b = c
      BY ONLY <3>1
    <3> QED BY <3>2
  <2> QED BY <2>1, <2>2
<1>1. OrShifted(w, 1) = Down(w, 1)
  <2>1. OrShifted(Down(w, 0), 0 + 1) = Down(w, 0 + (0 + 1))
    <3>1. 0 \in Nat
      OBVIOUS
    <3> QED BY ONLY <3>1, w \in SUBSET Nat, DownTwice, Zenon
  <2>2. 0 + 1 = 1 /\ 0 + (0 + 1) = 1
    OBVIOUS
  <2> QED BY ONLY <1>0, <2>1, <2>2
<1>2. OrShifted(Down(w, 1), 2) = Down(w, 3)
  <2>1. OrShifted(Down(w, 1), 1 + 1) = Down(w, 1 + (1 + 1))
    <3>1. 1 \in Nat
      OBVIOUS
    <3> QED BY ONLY <3>1, w \in SUBSET Nat, DownTwice, Zenon
  <2>2. 1 + 1 = 2 /\ 1 + (1 + 1) = 3
    OBVIOUS
  <2> QED BY ONLY <2>1, <2>2
<1>3. OrShifted(Down(w, 3), 4) = Down(w, 7)
  <2>1. OrShifted(Down(w, 3), 3 + 1) = Down(w, 3 + (3 + 1))
    <3>1. 3 \in Nat
      OBVIOUS
    <3> QED BY ONLY <3>1, w \in SUBSET Nat, DownTwice, Zenon
  <2>2. 3 + 1 = 4 /\ 3 + (3 + 1) = 7
    OBVIOUS
  <2> QED BY ONLY <2>1, <2>2
<1>4. OrShifted(Down(w, 7), 8) = Down(w, 15)
  <2>1. OrShifted(Down(w, 7), 7 + 1) = Down(w, 7 + (7 + 1))
    <3>1. 7 \in Nat
      OBVIOUS
    <3> QED BY ONLY <3>1, w \in SUBSET Nat, DownTwice, Zenon
  <2>2. 7 + 1 = 8 /\ 7 + (7 + 1) = 15
    OBVIOUS
  <2> QED BY ONLY <2>1, <2>2
<1>5. OrShifted(Down(w, 15), 16) = Down(w, 31)
  <2>1. OrShifted(Down(w, 15), 15 + 1) = Down(w, 15 + (15 + 1))
    <3>1. 15 \in Nat
      OBVIOUS
    <3> QED BY ONLY <3>1, w \in SUBSET Nat, DownTwice, Zenon
  <2>2. 15 + 1 = 16 /\ 15 + (15 + 1) = 31
    OBVIOUS
  <2> QED BY ONLY <2>1, <2>2
<1> QED BY ONLY <1>1, <1>2, <1>3, <1>4, <1>5, Zenon DEF Smear

LEMMA QuotRem ==
    ASSUME NEW p \in Nat, p >= 1, NEW u \in Nat
    PROVE  \E q \in Int, r \in 0 .. p - 1 : u = p * q + r /\ q = u \div p
<1>1. p > 0 /\ u \in Int
  OBVIOUS
<1>2. u = p * (u \div p) + (u % p) /\ u % p \in 0 .. p - 1 /\ u \div p \in Int
  BY ONLY <1>1, p \in Nat, Division
<1> QED BY ONLY <1>2

\* The highest one of a word bounds it, and the smear fills the bits below.
LEMMA Highest ==
    ASSUME NEW u \in Word
    PROVE  \E k \in 0 .. Width : Smear(Ones(u)) = 0 .. k - 1 /\ u < Pow2[k] /\ (k > 0 => Pow2[k - 1] <= u)
<1>0. Width \in Nat /\ Width <= 32 /\ u \in Nat /\ u < Pow2[Width]
  <2>1. Width \in Nat /\ Width <= 32
    BY RingAssumption
  <2>2. Pow2[Width] \in Nat
    BY <2>1, PowPositive
  <2> QED BY <2>1, <2>2 DEF Word
<1>1. PICK w : w = Ones(u)
  OBVIOUS
<1>2. w \subseteq 0 .. Width - 1 /\ w \subseteq Nat
  <2>1. w \subseteq 0 .. Width - 1
    BY <1>1 DEF Ones
  <2>2. 0 .. Width - 1 \subseteq Nat
    OBVIOUS
  <2> QED BY ONLY <2>1, <2>2
<1> DEFINE T == {k \in 0 .. Width : \A b \in w : b < k}
<1>3. PICK k \in T : \A m \in T : k <= m
  <2>1. Width \in T
    BY <1>0, <1>2
  <2>2. T \subseteq Nat
    BY <1>0
  <2> HIDE DEF T
  <2> QED BY <2>1, <2>2, LeastNat
<1>4. k \in 0 .. Width /\ k \in Nat /\ \A b \in w : b < k
  BY <1>0, <1>3
<1>5. ASSUME k > 0 PROVE k - 1 \in w
  <2>1. k - 1 \notin T
    BY <1>0, <1>3, <1>4, <1>5
  <2>2. k - 1 \in 0 .. Width
    BY <1>0, <1>4, <1>5
  <2>3. PICK b \in w : ~ b < k - 1
    BY <2>1, <2>2
  <2>4. b \in Nat /\ b < k
    BY <1>2, <1>4
  <2>5. b = k - 1
    BY ONLY <1>4, <2>3, <2>4
  <2> QED BY <2>5
<1>6. Smear(w) = 0 .. k - 1
  <2>1. Smear(w) = Down(w, 31)
    BY <1>2, SmearIsDown
  <2>2. ASSUME NEW b \in Down(w, 31) PROVE b \in 0 .. k - 1
    <3>1. PICK c \in w : b \in Nat /\ b <= c
      BY <2>2 DEF Down
    <3>2. c < k /\ c \in Nat
      BY <1>2, <1>4
    <3> QED BY ONLY <1>4, <3>1, <3>2
  <2>3. ASSUME NEW b \in 0 .. k - 1 PROVE b \in Down(w, 31)
    <3>1. b \in Nat /\ k > 0 /\ b <= k - 1
      BY <1>4
    <3>2. k - 1 <= b + 31
      BY ONLY <1>0, <1>4, <3>1
    <3>3. k - 1 \in w
      BY <1>5, <3>1
    <3> QED BY ONLY <3>1, <3>2, <3>3 DEF Down
  <2> QED BY <2>1, <2>2, <2>3
<1>7. u < Pow2[k]
  <2> DEFINE G == {j \in Nat : Width - j >= k => u < Pow2[Width - j]}
  <2>1. 0 \in G
    BY <1>0
  <2>2. ASSUME NEW j \in Nat, j \in G PROVE j + 1 \in G
    <3> SUFFICES ASSUME Width - (j + 1) >= k PROVE u < Pow2[Width - (j + 1)]
      OBVIOUS
    <3>1. PICK b \in Int : b = Width - (j + 1)
      BY <1>0
    <3>2. b >= k /\ b \in 0 .. Width - 1 /\ b \in 0 .. Width /\ b + 1 \in 1 .. Width /\ (b + 1) - 1 = b
          /\ Width - j = b + 1 /\ Width - j >= k
      BY ONLY <1>0, <1>4, <3>1, Width - (j + 1) >= k, j \in Nat
    <3>3. u < Pow2[b + 1]
      BY <2>2, <3>2
    <3>4. PICK p \in Nat : p = Pow2[b] /\ p >= 1 /\ Pow2[b + 1] = 2 * p
      BY <3>2, PowPositive, PowRecursion
    <3>5. (u \div p) % 2 # 1
      <4>1. b \notin w
        BY <1>4, <3>2
      <4> QED BY <1>1, <3>2, <3>4, <4>1 DEF Ones
    <3>6. PICK q \in Int, r \in 0 .. p - 1 : u = p * q + r /\ q = u \div p
      BY ONLY <1>0, <3>4, QuotRem, p \in Nat
    <3>7. q < 2
      <4> SUFFICES ASSUME q >= 2 PROVE FALSE
        <5>1. q \in Int
          BY <3>6
        <5> QED BY <5>1
      <4>1. p * q >= p * 2
        BY ONLY <3>4, q >= 2, q \in Int, p \in Nat
      <4>2. PICK z \in Int : z = p * q
        OBVIOUS
      <4> QED BY ONLY <3>3, <3>4, <3>6, <4>1, <4>2, p \in Nat, u \in Nat, <1>0
    <3>8. q # 1
      <4>1. 1 % 2 = 1
        OBVIOUS
      <4> QED BY ONLY <3>5, <3>6, <4>1
    <3>9. q <= 0
      BY ONLY <3>7, <3>8, q \in Int
    <3>10. p * q <= 0
      BY ONLY <3>9, p \in Nat, q \in Int
    <3>11. u < p
      <4>1. PICK z \in Int : z = p * q
        OBVIOUS
      <4> QED BY ONLY <1>0, <3>6, <3>10, <4>1, p \in Nat
    <3> QED BY ONLY <3>1, <3>4, <3>11
  <2>3. Nat \subseteq G
    <3> HIDE DEF G
    <3> QED BY <2>1, <2>2, NatGrow
  <2>4. Width - k \in Nat /\ Width - (Width - k) = k /\ k >= k
    BY <1>0, <1>4
  <2> QED BY <2>3, <2>4
<1>8. ASSUME k > 0 PROVE Pow2[k - 1] <= u
  <2>1. k - 1 \in w /\ k - 1 \in 0 .. Width
    BY <1>0, <1>4, <1>5, <1>8
  <2>2. PICK p \in Nat : p = Pow2[k - 1] /\ p >= 1
    BY <2>1, PowPositive
  <2>3. (u \div p) % 2 = 1
    BY <1>1, <2>1, <2>2 DEF Ones
  <2>4. PICK q \in Int, r \in 0 .. p - 1 : u = p * q + r /\ q = u \div p
    BY ONLY <1>0, <2>2, QuotRem, p \in Nat
  <2>5. q # 0
    <3>1. 0 % 2 = 0
      OBVIOUS
    <3> QED BY ONLY <2>3, <2>4, <3>1
  <2>6. q >= 1
    <3> SUFFICES ASSUME q <= -1 PROVE FALSE
      <4>1. q \in Int
        BY <2>4
      <4> QED BY <2>5, <4>1
    <3>1. p * q <= p * (-1)
      BY ONLY q <= -1, q \in Int, p \in Nat
    <3>2. PICK z \in Int : z = p * q
      OBVIOUS
    <3> QED BY ONLY <1>0, <2>4, <3>1, <3>2, p \in Nat
  <2>7. p * q >= p
    BY ONLY <2>6, q \in Int, p \in Nat
  <2>8. PICK z \in Int : z = p * q
    OBVIOUS
  <2>9. p <= u
    BY ONLY <2>4, <2>7, <2>8, p \in Nat, <1>0
  <2> QED BY <2>2, <2>9
<1> QED BY <1>1, <1>4, <1>6, <1>7, <1>8

\* What next_power_of_2 computes: k is the number of bits of v - 1.
LEMMA Rounding ==
    ASSUME NEW v \in Word, v # 0
    PROVE  \E k \in 0 .. Width :
              /\ v <= Pow2[k] /\ (k > 0 => Pow2[k - 1] < v)
              /\ NextPowerOf2(v) = IF k = Width THEN 0 ELSE Pow2[k]
<1>0. Width \in Nat /\ Width \in 0 .. Width
  BY RingAssumption
<1>1. PICK top \in Nat : top = Pow2[Width] /\ top > 0
  BY <1>0, PowPositive
<1>2. v \in Nat /\ v - 1 \in Word
  BY <1>1 DEF Word
<1>3. PICK k \in 0 .. Width :
         Smear(Ones(v - 1)) = 0 .. k - 1 /\ v - 1 < Pow2[k] /\ (k > 0 => Pow2[k - 1] <= v - 1)
  BY <1>2, Highest
<1>4. PICK p \in Nat : p = Pow2[k]
  BY PowPositive
<1>5. NextPowerOf2(v) = p % top
  <2>1. Value(Smear(Ones(v - 1))) = p - 1
    BY <1>3, <1>4, ValueOfLow
  <2>2. (p - 1) + 1 = p
    OBVIOUS
  <2> QED BY ONLY <1>1, <2>1, <2>2, v # 0 DEF NextPowerOf2
<1>6. v <= Pow2[k]
  BY ONLY <1>2, <1>3, <1>4, p \in Nat
<1>7. ASSUME k > 0 PROVE Pow2[k - 1] < v
  <2>1. k - 1 \in 0 .. Width
    BY <1>0, <1>7
  <2>2. Pow2[k - 1] \in Nat
    BY <2>1, PowPositive
  <2> QED BY ONLY <1>2, <1>3, <1>7, <2>2
<1>8. p % top = IF k = Width THEN 0 ELSE p
  <2>1. CASE k = Width
    BY <1>1, <1>4, <2>1, DividesItself
  <2>2. CASE k # Width
    <3>1. k < Width /\ k <= Width
      BY <1>0, <2>2
    <3>2. 2 * p <= top /\ p >= 1
      BY <1>0, <1>1, <1>4, <3>1, PowGrows, PowPositive
    <3>3. p \in 0 .. top - 1
      BY ONLY <3>2, p \in Nat, top \in Nat
    <3>4. p % top = p
      BY ONLY <1>1, <3>3, Small
    <3> QED BY ONLY <2>2, <3>4
  <2> QED BY <2>1, <2>2
<1> QED BY ONLY <1>4, <1>5, <1>6, <1>7, <1>8

\* A ring that has cells has a number of them that divides the positions' modulus.
LEMMA CapacityDivides ==
    ASSUME NEW v \in Word
    PROVE  NextPowerOf2(v) \in Nat /\ (NextPowerOf2(v) > 0 => PosMod % NextPowerOf2(v) = 0)
<1>0. Width \in Nat /\ 0 \in 0 .. Width /\ Width \in 0 .. Width
  BY RingAssumption
<1>1. ASSUME NEW k \in 0 .. Width PROVE Pow2[k] \in Nat /\ PosMod % Pow2[k] = 0
  <2>1. PICK top \in Nat, p \in Nat : top = Pow2[Width] /\ p = Pow2[k] /\ top >= 1 /\ p >= 1
    BY <1>0, PowPositive
  <2>2. PICK q \in Nat : top = p * q
    <3>1. k <= Width
      BY <1>0
    <3> QED BY <1>0, <2>1, <3>1, PowGrows
  <2>3. PosMod \in Nat /\ PosMod % top = 0
    BY <2>1, RingAssumption
  <2>4. PICK d \in Int : PosMod = top * d + 0
    <3>1. top > 0 /\ PosMod \in Int
      BY <2>1, <2>3
    <3>2. PosMod = top * (PosMod \div top) + (PosMod % top) /\ PosMod \div top \in Int
      BY ONLY <3>1, top \in Nat, Division
    <3> QED BY ONLY <2>3, <3>2
  <2>5. top * d = p * (q * d) /\ q * d \in Int
    BY ONLY <2>2, p \in Nat, q \in Nat, d \in Int
  <2>6. PICK z \in Int : z = q * d
    BY <2>5
  <2>7. 0 \in 0 .. p - 1 /\ p > 0
    BY <2>1
  <2>8. (p * z + 0) % p = 0
    BY ONLY <2>7, p \in Nat, z \in Int, Remainder
  <2> QED BY ONLY <2>1, <2>4, <2>5, <2>6, <2>8
<1>2. CASE v = 0
  <2>1. NextPowerOf2(v) = Pow2[0]
    BY <1>2, PowRecursion DEF NextPowerOf2
  <2> QED BY ONLY <1>0, <1>1, <2>1
<1>3. CASE v # 0
  <2>1. PICK k \in 0 .. Width : NextPowerOf2(v) = IF k = Width THEN 0 ELSE Pow2[k]
    BY <1>3, Rounding
  <2> QED BY ONLY <1>1, <2>1
<1> QED BY <1>2, <1>3

-----------------------------------------------------------------------------
(* The ring *)

\* What the refinement needs of the ring: the positions are in range and never
\* further apart than the threshold, which is below the capacity.
RingInv ==
    /\ capacity \in Nat /\ (capacity > 0 => PosMod % capacity = 0)
    /\ buffer \in [0 .. capacity - 1 -> Items \cup {NoItem}]
    /\ write_pos \in 0 .. PosMod - 1 /\ read_pos \in 0 .. PosMod - 1
    /\ UnlockedSize <= Threshold

LEMMA Sizes ==
    ASSUME RingInv
    PROVE  /\ UnlockedSize \in Nat /\ UnlockedSize < PosMod
           /\ Threshold \in Nat /\ Threshold <= capacity
           /\ capacity > 0 => Threshold < capacity /\ capacity <= PosMod
<1>0. /\ capacity \in Nat /\ (capacity > 0 => PosMod % capacity = 0)
      /\ PosMod \in Nat /\ PosMod > 0
  BY RingAssumption DEF RingInv
<1>1. UnlockedSize \in 0 .. PosMod - 1
  <2>1. write_pos - read_pos \in Int
    BY <1>0 DEF RingInv
  <2>2. (write_pos - read_pos) % PosMod \in 0 .. PosMod - 1
    BY ONLY <1>0, <2>1, Division
  <2> QED BY <2>2 DEF UnlockedSize
<1>2. Threshold \in Nat /\ Threshold <= capacity /\ (capacity > 0 => Threshold < capacity)
  BY <1>0 DEF Threshold
<1>3. ASSUME capacity > 0 PROVE capacity <= PosMod
  <2>1. PosMod = capacity * (PosMod \div capacity) + 0 /\ PosMod \div capacity \in Int
    BY ONLY <1>0, <1>3, Division
  <2>2. PICK d \in Int : PosMod = capacity * d
    BY <1>0, <2>1
  <2>3. d >= 1
    <3>1. ASSUME d <= 0 PROVE FALSE
      <4>1. capacity * d <= 0
        BY ONLY <1>0, <3>1, d \in Int
      <4> QED BY <1>0, <2>2, <4>1
    <3> QED BY <3>1
  <2>4. capacity * d >= capacity
    BY ONLY <1>0, <2>3, d \in Int
  <2> QED BY <2>2, <2>4
<1> QED BY <1>0, <1>1, <1>2, <1>3

LEMMA InitRingInv == Init => RingInv
<1> SUFFICES ASSUME Init PROVE RingInv
  OBVIOUS
<1>1. /\ capacity \in Nat /\ (capacity > 0 => PosMod % capacity = 0)
      /\ PosMod \in Nat /\ PosMod > 0
      /\ write_pos = 0 /\ read_pos = 0
  <2>1. capacity \in Nat /\ (capacity > 0 => PosMod % capacity = 0)
    <3>1. requested \in Word /\ capacity = NextPowerOf2(requested)
      BY Zenon DEF Init
    <3> QED BY ONLY <3>1, CapacityDivides, Zenon
  <2>2. PosMod \in Nat /\ PosMod > 0
    BY RingAssumption
  <2> QED BY <2>1, <2>2 DEF Init
<1>2. buffer \in [0 .. capacity - 1 -> Items \cup {NoItem}]
  BY DEF Init
<1>3. 0 % PosMod = 0 /\ 0 \in 0 .. PosMod - 1
  <2>1. 0 \in 0 .. PosMod - 1
    BY <1>1
  <2> QED BY ONLY <1>1, <2>1, Small
<1>4. UnlockedSize = 0
  BY <1>1, <1>3 DEF UnlockedSize
<1>5. Threshold \in Nat
  BY <1>1 DEF Threshold
<1> QED BY <1>1, <1>2, <1>3, <1>4, <1>5 DEF RingInv

\* N items of a ring, from position r on.
Run(N, r, C, b) == [m \in 1 .. N |-> b[(r + m - 1) % C]]

LEMMA RunSeq ==
    ASSUME NEW N \in Nat, NEW r \in Int, NEW C, NEW b
    PROVE  /\ Len(Run(N, r, C, b)) = N /\ DOMAIN Run(N, r, C, b) = 1 .. N
           /\ \A m \in 1 .. N : Run(N, r, C, b)[m] = b[(r + (m - 1)) % C]
           /\ \E S : Run(N, r, C, b) \in Seq(S)
<1> DEFINE s == Run(N, r, C, b)
           e(m) == b[(r + m - 1) % C]
           S == {e(m) : m \in 1 .. N}
<1>1. \A m \in 1 .. N : r + m - 1 = r + (m - 1)
  OBVIOUS
<1>2. DOMAIN s = 1 .. N /\ \A m \in 1 .. N : s[m] = e(m) /\ e(m) \in S
  BY DEF Run
<1>3. \A m \in 1 .. N : s[m] = b[(r + (m - 1)) % C]
  BY <1>1, <1>2
<1>4. s \in [1 .. N -> S]
  BY <1>2 DEF Run
<1> HIDE DEF S, s
<1>5. s \in Seq(S)
  BY ONLY <1>4, N \in Nat, SeqDef
<1>6. Len(s) = N
  BY <1>2, <1>5, LenProperties
<1> QED BY <1>2, <1>3, <1>5, <1>6 DEF s

\* The items that wait, as a sequence.
LEMMA WaitingSeq ==
    ASSUME RingInv
    PROVE  /\ Len(Waiting) = UnlockedSize /\ DOMAIN Waiting = 1 .. UnlockedSize
           /\ \A m \in 1 .. UnlockedSize : Waiting[m] = buffer[(read_pos + (m - 1)) % capacity]
           /\ \E S : Waiting \in Seq(S)
<1>1. UnlockedSize \in Nat
  BY Sizes
<1>2. read_pos \in Int
  BY RingAssumption DEF RingInv
<1>3. Waiting = Run(UnlockedSize, read_pos, capacity, buffer)
  BY DEF Waiting, Cell, Run
<1> QED BY <1>1, <1>2, <1>3, RunSeq

LEMMA PushStep ==
    ASSUME RingInv, NEW item \in Items, TryPush(item)
    PROVE  RingInv' /\ Waiting' = Append(Waiting, item)
<1> DEFINE N == UnlockedSize
<1>1. /\ N < Threshold /\ buffer' = [buffer EXCEPT ![write_pos % capacity] = item]
      /\ write_pos' = (write_pos + 1) % PosMod
      /\ read_pos' = read_pos /\ capacity' = capacity
  BY DEF TryPush, ring, Cell
<1>2. /\ N \in Nat /\ Threshold \in Nat /\ capacity \in Nat /\ capacity > 0
      /\ Threshold < capacity /\ capacity <= PosMod /\ PosMod % capacity = 0
      /\ PosMod \in Nat /\ PosMod > 0
      /\ write_pos \in 0 .. PosMod - 1 /\ read_pos \in 0 .. PosMod - 1
      /\ buffer \in [0 .. capacity - 1 -> Items \cup {NoItem}]
  BY <1>1, Sizes, RingAssumption DEF RingInv
<1>3. N + 1 < PosMod
  BY <1>1, <1>2
<1>4. N = (write_pos - read_pos) % PosMod
  BY DEF UnlockedSize
<1> HIDE DEF N
<1>5. UnlockedSize' = N + 1
  <2>1. (((write_pos + 1) % PosMod) - read_pos) % PosMod = N + 1
    BY ONLY <1>2, <1>3, <1>4, SizeUp
  <2> QED BY <1>1, <2>1 DEF UnlockedSize
<1>6. write_pos % capacity = (read_pos + N) % capacity
  <2>1. write_pos % capacity = (read_pos + ((write_pos - read_pos) % PosMod)) % capacity
    <3>1. /\ PosMod \in Nat /\ PosMod > 0 /\ capacity \in Nat /\ capacity > 0
          /\ PosMod % capacity = 0
          /\ write_pos \in 0 .. PosMod - 1 /\ read_pos \in 0 .. PosMod - 1
      BY <1>2
    <3> QED BY ONLY <3>1, WriteCell
  <2> QED BY ONLY <2>1 DEF N, UnlockedSize
<1>7. /\ write_pos % capacity \in 0 .. capacity - 1
      /\ \A m \in 1 .. N : (read_pos + (m - 1)) % capacity \in 0 .. capacity - 1
  <2>1. write_pos \in Int /\ \A m \in 1 .. N : read_pos + (m - 1) \in Int
    BY <1>2
  <2> QED BY ONLY <1>2, <2>1, Division
<1>8. \A m \in 1 .. N : (read_pos + (m - 1)) % capacity # write_pos % capacity
  <2> TAKE m \in 1 .. N
  <2>1. PICK a, b : a = read_pos + (m - 1) /\ b = read_pos + N
    OBVIOUS
  <2>2. a \in Int /\ b \in Int /\ a < b /\ b < a + capacity
    BY <1>1, <1>2, <2>1 DEF N
  <2>3. a % capacity # b % capacity
    BY ONLY <1>2, <2>2, CellsApart
  <2> QED BY <1>6, <2>1, <2>3
<1>9. RingInv'
  <2>1. (write_pos + 1) % PosMod \in 0 .. PosMod - 1
    <3>1. write_pos + 1 \in Int
      BY <1>2
    <3> QED BY ONLY <1>2, <3>1, Division
  <2>2. buffer' \in [0 .. capacity - 1 -> Items \cup {NoItem}]
    BY <1>1, <1>2
  <2>3. Threshold' = Threshold /\ N + 1 <= Threshold
    BY <1>1, <1>2 DEF Threshold, N
  <2> QED BY <1>1, <1>2, <1>5, <2>1, <2>2, <2>3 DEF RingInv
<1>10. /\ Len(Waiting) = N /\ DOMAIN Waiting = 1 .. N
       /\ \A m \in 1 .. N : Waiting[m] = buffer[(read_pos + (m - 1)) % capacity]
       /\ \E S : Waiting \in Seq(S)
  BY WaitingSeq DEF N
<1>11. /\ Len(Waiting') = N + 1 /\ DOMAIN Waiting' = 1 .. N + 1
       /\ \A m \in 1 .. N + 1 : Waiting'[m] = buffer'[(read_pos + (m - 1)) % capacity]
       /\ \E S : Waiting' \in Seq(S)
  <2>1. Waiting' = Run(N + 1, read_pos, capacity, buffer')
    BY <1>1, <1>5 DEF Waiting, Cell, Run
  <2>2. N + 1 \in Nat /\ read_pos \in Int
    BY <1>2
  <2> QED BY <2>1, <2>2, RunSeq
<1> QED
  <2>1. \A m \in 1 .. N : Waiting'[m] = Waiting[m]
    <3> TAKE m \in 1 .. N
    <3>1. m \in 1 .. N + 1
      BY <1>2
    <3>2. buffer'[(read_pos + (m - 1)) % capacity] = buffer[(read_pos + (m - 1)) % capacity]
      BY <1>1, <1>2, <1>7, <1>8
    <3> QED BY <1>10, <1>11, <3>1, <3>2
  <2>2. Waiting'[N + 1] = item
    <3>1. N + 1 \in 1 .. N + 1 /\ N + 1 - 1 = N
      BY <1>2
    <3>2. buffer'[write_pos % capacity] = item
      BY <1>1, <1>2, <1>7
    <3>3. Waiting'[N + 1] = buffer'[(read_pos + N) % capacity]
      <4>0. PICK m : m = N + 1
        OBVIOUS
      <4>1. m \in 1 .. N + 1 /\ m = N + 1 /\ m - 1 = N
        BY ONLY <1>2, <4>0
      <4>2. Waiting'[m] = buffer'[(read_pos + (m - 1)) % capacity]
        BY <1>11, <4>1
      <4> QED BY ONLY <4>1, <4>2
    <3> QED BY <1>6, <3>2, <3>3, Zenon
  <2>3. Waiting' = Append(Waiting, item)
    <3>1. PICK S : Waiting \in Seq(S)
      BY <1>10
    <3>2. PICK S2 : Waiting' \in Seq(S2)
      BY <1>11
    <3>3. PICK A : Waiting \in Seq(A) /\ Waiting' \in Seq(A) /\ item \in A
      <4> DEFINE A == S \cup S2 \cup {item}
      <4>1. S \subseteq A /\ S2 \subseteq A /\ item \in A
        OBVIOUS
      <4> HIDE DEF A
      <4> QED BY <3>1, <3>2, <4>1, SeqDef
    <3>4. /\ Append(Waiting, item) \in Seq(A)
          /\ Len(Append(Waiting, item)) = N + 1
          /\ Append(Waiting, item)[N + 1] = item
          /\ \A m \in 1 .. N : Append(Waiting, item)[m] = Waiting[m]
      BY <1>10, <3>3, AppendProperties
    <3>5. \A m \in 1 .. N + 1 : Waiting'[m] = Append(Waiting, item)[m]
      <4>1. \A m \in 1 .. N + 1 : m \in 1 .. N \/ m = N + 1
        BY <1>2
      <4> QED BY <2>1, <2>2, <3>4, <4>1
    <3> QED BY <1>11, <3>3, <3>4, <3>5, SeqEqual
  <2> QED BY <1>9, <2>3

LEMMA PopStep ==
    ASSUME RingInv, NEW n \in 0 .. UnlockedSize, Pop(n)
    PROVE  /\ RingInv'
           /\ io' = IO(<<>>, SubSeq(Waiting, 1, n))
           /\ Waiting' = SubSeq(Waiting, n + 1, Len(Waiting))
<1> DEFINE N == UnlockedSize
<1>1. /\ io' = IO(<<>>, [m \in 1 .. n |-> buffer[(read_pos + m - 1) % capacity]])
      /\ buffer' = [c \in DOMAIN buffer |->
                      IF \E m \in 1 .. n : c = (read_pos + m - 1) % capacity
                      THEN NoItem ELSE buffer[c]]
      /\ read_pos' = (read_pos + n) % PosMod
      /\ write_pos' = write_pos /\ capacity' = capacity
  BY DEF Pop, ring, Cell
<1>2. /\ N \in Nat /\ Threshold \in Nat /\ capacity \in Nat
      /\ (capacity > 0 => Threshold < capacity /\ PosMod % capacity = 0)
      /\ N <= Threshold /\ Threshold <= capacity
      /\ PosMod \in Nat /\ PosMod > 0
      /\ write_pos \in 0 .. PosMod - 1 /\ read_pos \in 0 .. PosMod - 1
      /\ buffer \in [0 .. capacity - 1 -> Items \cup {NoItem}]
  BY Sizes, RingAssumption DEF RingInv
<1>3. n \in Nat /\ n <= N
  BY <1>2
<1>4. N = (write_pos - read_pos) % PosMod
  BY DEF UnlockedSize
<1>5. n \in 0 .. N
  OBVIOUS
<1> HIDE DEF N
<1>6. UnlockedSize' = N - n
  <2>1. n \in 0 .. ((write_pos - read_pos) % PosMod)
    BY <1>4, <1>5, Zenon
  <2>2. (write_pos - ((read_pos + n) % PosMod)) % PosMod = ((write_pos - read_pos) % PosMod) - n
    BY ONLY <1>2, <2>1, SizeDown
  <2> QED BY <1>1, <1>4, <2>2 DEF UnlockedSize
<1>7. RingInv'
  <2>1. (read_pos + n) % PosMod \in 0 .. PosMod - 1
    <3>1. read_pos + n \in Int
      BY <1>2, <1>3
    <3> QED BY ONLY <1>2, <3>1, Division
  <2>2. buffer' \in [0 .. capacity - 1 -> Items \cup {NoItem}]
    BY <1>1, <1>2
  <2>3. Threshold' = Threshold /\ N - n <= Threshold
    BY <1>1, <1>2, <1>3 DEF Threshold
  <2> QED BY <1>1, <1>2, <1>6, <2>1, <2>2, <2>3 DEF RingInv
<1>8. /\ Len(Waiting) = N /\ DOMAIN Waiting = 1 .. N
      /\ \A m \in 1 .. N : Waiting[m] = buffer[(read_pos + (m - 1)) % capacity]
      /\ \E S : Waiting \in Seq(S)
  BY WaitingSeq DEF N
\* What is taken out.
<1>9. [m \in 1 .. n |-> buffer[(read_pos + m - 1) % capacity]] = SubSeq(Waiting, 1, n)
  <2>1. PICK out : out = Run(n, read_pos, capacity, buffer)
    OBVIOUS
  <2>2. /\ Len(out) = n /\ \E S : out \in Seq(S)
        /\ \A m \in 1 .. n : out[m] = buffer[(read_pos + (m - 1)) % capacity]
    <3>1. n \in Nat /\ read_pos \in Int
      BY <1>2, <1>3
    <3> QED BY <2>1, <3>1, RunSeq
  <2>3. PICK S, T : Waiting \in Seq(S) /\ out \in Seq(T)
    BY <1>8, <2>2
  <2>4. /\ SubSeq(Waiting, 1, n) \in Seq(S) /\ Len(SubSeq(Waiting, 1, n)) = n
        /\ \A m \in 1 .. n : SubSeq(Waiting, 1, n)[m] = Waiting[m]
    BY <1>2, <1>3, <1>8, <2>3, SubSeqProperties
  <2>5. \A m \in 1 .. n : out[m] = SubSeq(Waiting, 1, n)[m]
    <3>1. \A m \in 1 .. n : m \in 1 .. N
      BY <1>2, <1>3
    <3> QED BY <1>8, <2>2, <2>4, <3>1
  <2>6. out = SubSeq(Waiting, 1, n)
    BY <2>2, <2>3, <2>4, <2>5, SeqEqual
  <2> QED BY <2>1, <2>6 DEF Run
\* What stays.
<1>10. Waiting' = SubSeq(Waiting, n + 1, N)
  <2>1. Waiting' = Run(N - n, (read_pos + n) % PosMod, capacity, buffer')
    BY <1>1, <1>6 DEF Waiting, Cell, Run
  <2>2. /\ Len(Waiting') = N - n /\ \E S : Waiting' \in Seq(S)
        /\ \A m \in 1 .. N - n :
              Waiting'[m] = buffer'[(((read_pos + n) % PosMod) + (m - 1)) % capacity]
    <3>1. read_pos + n \in Int
      BY <1>2, <1>3
    <3>2. N - n \in Nat /\ (read_pos + n) % PosMod \in Int
      BY <1>2, <1>3, <3>1
    <3> QED BY ONLY <2>1, <3>2, RunSeq
  <2>3. ASSUME NEW m \in 1 .. N - n
        PROVE  Waiting'[m] = Waiting[n + m]
    <3>0. m \in Int /\ 1 <= m /\ m + n <= N /\ capacity > 0 /\ N < capacity
      BY <1>2, <1>3
    <3>1. PICK b : b = read_pos + (n + m - 1)
      OBVIOUS
    <3>2. b \in Int /\ b = (read_pos + n) + (m - 1)
      BY <1>2, <1>3, <3>0, <3>1
    <3>3. (((read_pos + n) % PosMod) + (m - 1)) % capacity = b % capacity
      <4>0. PICK g, e : g = read_pos + n /\ e = m - 1
        OBVIOUS
      <4>1. /\ g \in Int /\ e \in Int /\ b = g + e
            /\ PosMod \in Nat /\ PosMod > 0 /\ capacity \in Nat /\ capacity > 0
            /\ PosMod % capacity = 0
        BY <1>2, <1>3, <3>0, <3>2, <4>0
      <4>2. ((g % PosMod) + e) % capacity = (g + e) % capacity
        BY ONLY <4>1, ModInner, Zenon
      <4> QED BY ONLY <4>0, <4>1, <4>2, Zenon
    <3>4. b % capacity \in 0 .. capacity - 1
      BY ONLY <1>2, <3>0, <3>2, Division
    <3>5. ASSUME NEW i \in 1 .. n PROVE b % capacity # (read_pos + i - 1) % capacity
      <4>1. PICK a : a = read_pos + i - 1
        OBVIOUS
      <4>2. a \in Int /\ a < b /\ b < a + capacity
        BY <1>2, <1>3, <3>0, <3>1, <4>1
      <4>3. a % capacity # b % capacity
        BY ONLY <1>2, <3>0, <3>2, <4>2, CellsApart
      <4> QED BY <4>1, <4>3
    <3>6. buffer'[b % capacity] = buffer[b % capacity]
      BY <1>1, <1>2, <3>4, <3>5
    <3>7. Waiting[n + m] = buffer[b % capacity]
      <4>1. PICK j : j = n + m
        OBVIOUS
      <4>2. j \in 1 .. N /\ read_pos + (j - 1) = b
        BY <1>2, <1>3, <3>0, <3>1, <4>1
      <4>3. Waiting[j] = buffer[(read_pos + (j - 1)) % capacity]
        BY <1>8, <4>2
      <4> QED BY <4>1, <4>2, <4>3
    <3>8. Waiting'[m] = buffer'[b % capacity]
      BY <2>2, <3>3
    <3> QED BY <3>6, <3>7, <3>8
  <2>4. PICK S, T : Waiting \in Seq(S) /\ Waiting' \in Seq(T)
    BY <1>8, <2>2
  <2>5. /\ SubSeq(Waiting, n + 1, N) \in Seq(S) /\ Len(SubSeq(Waiting, n + 1, N)) = N - n
        /\ \A m \in 1 .. N - n : SubSeq(Waiting, n + 1, N)[m] = Waiting[n + m]
    <3>1. PICK f : f = n + 1 /\ f \in 1 .. N + 1 /\ N - f + 1 = N - n
      <4>1. n + 1 \in 1 .. N + 1 /\ N - (n + 1) + 1 = N - n
        BY <1>2, <1>3
      <4> QED BY <4>1
    <3>2. /\ SubSeq(Waiting, f, N) \in Seq(S)
          /\ Len(SubSeq(Waiting, f, N)) = IF f <= N THEN N - f + 1 ELSE 0
          /\ \A m \in 1 .. N - f + 1 : SubSeq(Waiting, f, N)[m] = Waiting[f + m - 1]
      BY <1>2, <1>8, <2>4, <3>1, SubSeqProperties
    <3>3. \A m \in 1 .. N - n : f + m - 1 = n + m
      BY <1>2, <1>3, <3>1
    <3> QED BY <1>2, <1>3, <3>1, <3>2, <3>3
  <2> QED BY <2>2, <2>3, <2>4, <2>5, SeqEqual
<1> QED BY <1>1, <1>7, <1>8, <1>9, <1>10 DEF IO

\* try_pop's test for emptiness is the size's.
LEMMA EmptyTest ==
    ASSUME RingInv, read_pos # write_pos
    PROVE  UnlockedSize >= 1
<1>0. /\ PosMod \in Nat /\ PosMod > 0 /\ PosMod % PosMod = 0
      /\ write_pos \in 0 .. PosMod - 1 /\ read_pos \in 0 .. PosMod - 1
  BY DividesItself, RingAssumption DEF RingInv
<1>1. UnlockedSize \in Nat
  BY Sizes
<1>2. ASSUME UnlockedSize = 0 PROVE FALSE
  <2>1. write_pos % PosMod = (read_pos + ((write_pos - read_pos) % PosMod)) % PosMod
    BY ONLY <1>0, WriteCell
  <2>2. (write_pos - read_pos) % PosMod = 0
    BY <1>2 DEF UnlockedSize
  <2>3. read_pos + 0 = read_pos
    BY <1>0
  <2>4. write_pos % PosMod = read_pos % PosMod
    BY <2>1, <2>2, <2>3
  <2>5. write_pos % PosMod = write_pos
    BY ONLY <1>0, Small
  <2>6. read_pos % PosMod = read_pos
    BY ONLY <1>0, Small
  <2> QED BY <2>4, <2>5, <2>6
<1> QED BY <1>1, <1>2

\* Both pops take a number of items that wait.
LEMMA Pops ==
    ASSUME RingInv, TryPop \/ TryPopBatch
    PROVE  \E n \in 0 .. UnlockedSize : Pop(n)
<1>1. UnlockedSize \in Nat /\ BatchMax \in Nat
  BY Sizes, RingAssumption
<1>2. CASE TryPop
  <2>1. CASE read_pos = write_pos
    <3>1. Pop(0) /\ 0 \in 0 .. UnlockedSize
      BY <1>1, <1>2, <2>1 DEF TryPop
    <3> QED BY <3>1
  <2>2. CASE read_pos # write_pos
    <3>1. Pop(1) /\ 1 \in 0 .. UnlockedSize
      BY <1>1, <1>2, <2>2, EmptyTest DEF TryPop
    <3> QED BY <3>1
  <2> QED BY <2>1, <2>2
<1>3. CASE TryPopBatch
  <2>1. PICK n : n = IF UnlockedSize < BatchMax THEN UnlockedSize ELSE BatchMax
    OBVIOUS
  <2>2. n \in 0 .. UnlockedSize
    BY <1>1, <2>1
  <2>3. Pop(n)
    BY <1>3, <2>1 DEF TryPopBatch
  <2> QED BY <2>2, <2>3
<1> QED BY <1>2, <1>3

\* One step of the ring is one step of the queue, or none.
LEMMA StepFifo ==
    ASSUME RingInv, [Next]_vars
    PROVE  RingInv' /\ [Fifo!Next]_(Fifo!vars)
<1>1. Len(Waiting) = UnlockedSize
  BY WaitingSeq
<1>2. Threshold' = Threshold
  BY DEF Next, vars, ring, TryPush, TryPushDropped, TryPop, TryPopBatch, Pop, Threshold
<1>3. CASE UNCHANGED vars
  <2>1. RingInv' /\ Waiting' = Waiting /\ io' = io
    BY <1>3 DEF vars, ring, RingInv, UnlockedSize, Threshold, Waiting, Cell
  <2> QED BY <1>2, <2>1 DEF Fifo!vars
<1>4. ASSUME NEW item \in Items, TryPush(item) PROVE RingInv' /\ [Fifo!Next]_(Fifo!vars)
  <2>1. RingInv' /\ Waiting' = Append(Waiting, item)
    BY <1>4, PushStep
  <2>2. Fifo!Accept(item)
    BY <1>1, <1>4, <2>1 DEF TryPush, IO, Fifo!Accept, Fifo!IO
  <2> QED BY <1>2, <2>1, <2>2 DEF Fifo!Next
<1>5. CASE TryPushDropped
  <2>1. RingInv' /\ Waiting' = Waiting
    BY <1>5 DEF TryPushDropped, ring, RingInv, UnlockedSize, Threshold, Waiting, Cell
  <2>2. UnlockedSize >= Threshold
    <3>1. /\ UnlockedSize \in Nat /\ Threshold \in Nat /\ capacity \in Nat
          /\ Threshold <= capacity
      BY Sizes DEF RingInv
    <3> QED BY <1>5, <3>1 DEF TryPushDropped
  <2>3. Fifo!Drop
    BY <1>1, <1>5, <2>1, <2>2 DEF TryPushDropped, IO, Fifo!Drop, Fifo!IO
  <2> QED BY <1>2, <2>1, <2>3 DEF Fifo!Next
<1>6. CASE TryPop \/ TryPopBatch
  <2>1. PICK n \in 0 .. UnlockedSize : Pop(n)
    BY <1>6, Pops
  <2>2. RingInv' /\ io' = IO(<<>>, SubSeq(Waiting, 1, n))
        /\ Waiting' = SubSeq(Waiting, n + 1, Len(Waiting))
    BY <2>1, PopStep
  <2>3. Fifo!Take(n) /\ n \in 0 .. Len(Waiting)
    BY <1>1, <2>2 DEF IO, Fifo!Take, Fifo!IO
  <2> QED BY <1>2, <2>2, <2>3 DEF Fifo!Next
<1> QED BY <1>3, <1>4, <1>5, <1>6 DEF Next

\* For every size the queue can be asked for and across any number of wraps of
\* its positions, the ring hands out what was pushed, each item once and in
\* order, and refuses an item exactly when the threshold is reached.
THEOREM QueueImplementsFifo == Spec => ImplementsFifo
<1>1. Init => RingInv
  BY InitRingInv
<1>2. Init => Fifo!Init
  <2> SUFFICES ASSUME Init PROVE Fifo!Init
    OBVIOUS
  <2>1. RingInv
    BY InitRingInv
  <2>2. UnlockedSize = 0
    <3>1. PosMod \in Nat /\ PosMod > 0 /\ 0 \in 0 .. PosMod - 1
      BY RingAssumption
    <3>2. 0 % PosMod = 0
      BY ONLY <3>1, Small
    <3> QED BY <3>2 DEF Init, UnlockedSize
  <2>3. Threshold \in Nat /\ Len(Waiting) = 0 /\ \E S : Waiting \in Seq(S)
    BY <2>1, <2>2, Sizes, WaitingSeq
  <2>4. Waiting = <<>>
    BY <2>3, EmptySeq
  <2> QED BY <2>3, <2>4 DEF Init, IO, Fifo!Init, Fifo!IO
<1>3. RingInv /\ [Next]_vars => RingInv' /\ [Fifo!Next]_(Fifo!vars)
  BY StepFifo
<1> QED BY <1>1, <1>2, <1>3, PTL DEF Spec, ImplementsFifo, Fifo!Spec

-----------------------------------------------------------------------------
(* The constructor *)

\* The size of the ring is the rounded one, from the constructor on.
CapacityInv == requested \in Word /\ capacity = NextPowerOf2(requested)

LEMMA CapacityInvRounds == CapacityInv => CapacityRounded
<1> SUFFICES ASSUME CapacityInv PROVE CapacityRounded
  OBVIOUS
<1>0. Width \in Nat /\ Width > 0 /\ 0 \in 0 .. Width - 1 /\ Width - 1 \in 0 .. Width /\ Width \in 0 .. Width
      /\ Width \in 1 .. Width
  BY RingAssumption
<1>1. PICK half \in Nat : half = Pow2[Width - 1] /\ half >= 1 /\ Pow2[Width] = 2 * half
  BY <1>0, PowPositive, PowRecursion
<1>2. PICK v \in Nat : v = requested /\ v \in Word /\ v < 2 * half
  <2>1. requested \in Word
    BY DEF CapacityInv
  <2>2. requested \in Nat /\ requested < 2 * half
    BY <1>1, <2>1 DEF Word
  <2> QED BY <2>1, <2>2
<1>3. capacity = NextPowerOf2(v)
  BY <1>2 DEF CapacityInv
<1>4. CASE v = 0
  <2>1. capacity = 1 /\ 1 = Pow2[0]
    BY <1>3, <1>4, PowRecursion DEF NextPowerOf2
  <2>2. (1 * 80) \div 100 = 0
    OBVIOUS
  <2>3. Threshold = 0
    BY ONLY <2>1, <2>2 DEF Threshold
  <2>4. 0 <= half /\ 0 <= 1 /\ ~ (1 > 1) /\ 0 \notin 2 .. half
    BY <1>1
  <2> QED BY ONLY <1>0, <1>1, <1>2, <1>4, <2>1, <2>3, <2>4 DEF CapacityRounded
<1>5. CASE v # 0
  <2>1. PICK k \in 0 .. Width : /\ v <= Pow2[k] /\ (k > 0 => Pow2[k - 1] < v)
                                /\ capacity = IF k = Width THEN 0 ELSE Pow2[k]
    BY <1>2, <1>3, <1>5, Rounding
  <2>2. CASE k = Width
    <3>1. half < v /\ capacity = 0
      BY ONLY <1>0, <1>1, <2>1, <2>2
    <3>2. ~ v <= half /\ v \notin 2 .. half
      BY ONLY <3>1, v \in Nat, half \in Nat
    <3>3. (0 * 80) \div 100 = 0
      OBVIOUS
    <3>4. Threshold = 0
      BY ONLY <3>1, <3>3 DEF Threshold
    <3> QED BY ONLY <1>1, <1>2, <3>1, <3>2, <3>4 DEF CapacityRounded
  <2>3. CASE k # Width
    <3>1. k \in 0 .. Width - 1 /\ k <= Width - 1
      BY <1>0, <2>3
    <3>2. PICK p \in Nat : p = Pow2[k] /\ p >= 1 /\ p <= half
      <4>1. Pow2[k] <= Pow2[Width - 1]
        BY <1>0, <3>1, PowGrows
      <4>2. Pow2[k] \in Nat /\ Pow2[k] >= 1
        BY PowPositive
      <4> QED BY <1>1, <4>1, <4>2
    <3>3. capacity = p /\ v <= p
      BY <2>1, <2>3, <3>2
    <3>4. v <= half
      BY ONLY <3>2, <3>3, v \in Nat, half \in Nat
    <3>5. CASE k = 0
      <4>1. p = 1 /\ v = 1
        <5>1. p = 1
          BY <3>2, <3>5, PowRecursion
        <5> QED BY ONLY <1>5, <3>3, <5>1, v \in Nat
      <4>2. (1 * 80) \div 100 = 0
        OBVIOUS
      <4>3. Threshold = 0
        BY ONLY <3>3, <4>1, <4>2 DEF Threshold
      <4>4. 1 \notin 2 .. half /\ ~ (1 > 1)
        OBVIOUS
      <4> QED BY ONLY <1>1, <1>2, <3>1, <3>2, <3>3, <3>4, <4>1, <4>3, <4>4 DEF CapacityRounded
    <3>6. CASE k # 0
      <4>1. k > 0 /\ k \in 1 .. Width /\ k - 1 \in 0 .. Width
        BY <1>0, <3>1, <3>6
      <4>2. PICK l \in Nat : l = Pow2[k - 1] /\ l >= 1 /\ p = 2 * l /\ l < v
        BY <2>1, <3>2, <4>1, PowPositive, PowRecursion
      <4>3. p < 2 * v /\ v >= 2 /\ p >= 2
        BY ONLY <4>2, l \in Nat, v \in Nat, p \in Nat
      <4>4. v \in 2 .. half
        BY ONLY <3>4, <4>3, v \in Nat, half \in Nat
      <4>5. (p * 80) \div 100 # 0
        BY ONLY <4>3, p \in Nat
      <4>6. Threshold # 0
        BY ONLY <3>3, <4>5 DEF Threshold
      <4> QED BY ONLY <1>1, <1>2, <3>1, <3>2, <3>3, <3>4, <4>3, <4>4, <4>6 DEF CapacityRounded
    <3> QED BY <3>5, <3>6
  <2> QED BY <2>2, <2>3
<1> QED BY <1>4, <1>5

\* next_power_of_2 gives the ring the smallest power of two that is not below
\* the size asked for, for every word of up to 32 bits, and wraps to 0 exactly
\* above half the range; the ring then drops every item.
THEOREM QueueCapacityRounded == Spec => []CapacityRounded
<1>1. Init => CapacityInv
  BY DEF Init, CapacityInv
<1>2. CapacityInv /\ [Next]_vars => CapacityInv'
  <2> SUFFICES ASSUME CapacityInv, [Next]_vars PROVE CapacityInv'
    OBVIOUS
  <2>1. requested' = requested /\ capacity' = capacity
    BY DEF Next, TryPush, TryPushDropped, TryPop, TryPopBatch, Pop, ring, vars
  <2> QED BY <2>1 DEF CapacityInv
<1>3. CapacityInv => CapacityRounded
  BY CapacityInvRounds
<1> QED BY <1>1, <1>2, <1>3, PTL DEF Spec
=============================================================================
