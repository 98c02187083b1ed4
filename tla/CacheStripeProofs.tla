------------------------- MODULE CacheStripeProofs -------------------------
(***************************************************************************)
(* Proofs about a stripe for any keys, slots, capacities and sketch.       *)
(***************************************************************************)
EXTENDS CacheStripe, TLAPS

-----------------------------------------------------------------------------
(* Sequences without repetitions *)

\* The part of a sequence before one of its positions.
LEMMA BeforeFacts ==
    ASSUME NEW S, NEW s \in Seq(S), NEW m \in 1 .. Len(s)
    PROVE  /\ SubSeq(s, 1, m - 1) \in Seq(S) /\ Len(SubSeq(s, 1, m - 1)) = m - 1
           /\ \A n \in 1 .. m - 1 : SubSeq(s, 1, m - 1)[n] = s[n]
OBVIOUS

\* What SequencesExt!RemoveAt does to the positions.
LEMMA RemoveAtFacts ==
    ASSUME NEW S, NEW s \in Seq(S), NEW m \in 1 .. Len(s)
    PROVE  /\ RemoveAt(s, m) \in Seq(S)
           /\ Len(RemoveAt(s, m)) = Len(s) - 1
           /\ \A n \in 1 .. Len(s) - 1 : RemoveAt(s, m)[n] = IF n < m THEN s[n] ELSE s[n + 1]
<1> DEFINE p == SubSeq(s, 1, m - 1)
           q == SubSeq(s, m + 1, Len(s))
<1>1. /\ p \in Seq(S) /\ Len(p) = m - 1
      /\ \A n \in 1 .. m - 1 : p[n] = s[n]
  BY BeforeFacts
<1>2. /\ q \in Seq(S) /\ Len(q) = Len(s) - m
      /\ \A n \in 1 .. Len(s) - m : q[n] = s[m + n]
  OBVIOUS
<1>3. RemoveAt(s, m) = p \o q
  BY DEF RemoveAt
<1> HIDE DEF p, q
<1>4. p \o q \in Seq(S) /\ Len(p \o q) = Len(p) + Len(q)
  <2>1. p \in Seq(S) /\ q \in Seq(S)
    BY <1>1, <1>2
  <2> QED BY ONLY <2>1
<1>l. Len(p \o q) = Len(s) - 1
  BY <1>1, <1>2, <1>4
<1>e. ASSUME NEW n \in 1 .. Len(s) - 1
      PROVE  (p \o q)[n] = IF n < m THEN p[n] ELSE q[n - (m - 1)]
  <2>1. n \in 1 .. Len(p) + Len(q)
    BY <1>1, <1>2
  <2>2. (p \o q)[n] = IF n <= Len(p) THEN p[n] ELSE q[n - Len(p)]
    BY <1>1, <1>2, <2>1
  <2> QED BY <1>1, <2>2
<1>5. ASSUME NEW n \in 1 .. Len(s) - 1, ~ n < m PROVE q[n - (m - 1)] = s[n + 1]
  <2>1. n - (m - 1) \in 1 .. Len(s) - m /\ m + (n - (m - 1)) = n + 1
    BY <1>5
  <2> QED BY <1>2, <2>1
<1> QED BY <1>1, <1>3, <1>4, <1>l, <1>e, <1>5

\* Unlinking a slot takes it, and nothing else, out of its list.
LEMMA UnlinkFacts ==
    ASSUME NEW S, NEW s \in Seq(S), NoRepeats(s), NEW i, i \in Elements(s)
    PROVE  /\ Unlink(s, i) \in Seq(S)
           /\ Len(Unlink(s, i)) = Len(s) - 1
           /\ NoRepeats(Unlink(s, i))
           /\ Elements(Unlink(s, i)) = Elements(s) \ {i}
<1> DEFINE m == CHOOSE n \in DOMAIN s : s[n] = i
           r == Unlink(s, i)
<1>1. m \in 1 .. Len(s) /\ s[m] = i
  BY DEF Elements
<1>2. /\ r \in Seq(S) /\ Len(r) = Len(s) - 1
      /\ \A n \in 1 .. Len(s) - 1 : r[n] = IF n < m THEN s[n] ELSE s[n + 1]
  BY <1>1, RemoveAtFacts DEF Unlink
<1> HIDE DEF m, r
<1>3. NoRepeats(r)
  BY <1>1, <1>2 DEF NoRepeats
<1>4. ASSUME NEW x \in Elements(r) PROVE x \in Elements(s) /\ x # i
  <2>1. PICK n \in 1 .. Len(s) - 1 : x = r[n]
    BY <1>2 DEF Elements
  <2>2. n \in 1 .. Len(s) /\ n + 1 \in 1 .. Len(s)
    OBVIOUS
  <2>3. (x = s[n] /\ n # m) \/ (x = s[n + 1] /\ n + 1 # m)
    BY <1>1, <1>2, <2>1
  <2> QED BY <1>1, <2>2, <2>3 DEF Elements, NoRepeats
<1>5. ASSUME NEW x \in Elements(s), x # i PROVE x \in Elements(r)
  <2>1. PICK n \in 1 .. Len(s) : x = s[n]
    BY DEF Elements
  <2>2. CASE n < m
    <3>1. n \in 1 .. Len(s) - 1 /\ r[n] = x
      BY <1>1, <1>2, <2>1, <2>2
    <3> QED BY <1>2, <3>1 DEF Elements
  <2>3. CASE n > m
    <3>1. n - 1 \in 1 .. Len(s) - 1 /\ ~ n - 1 < m /\ (n - 1) + 1 = n
      BY <1>1, <2>3
    <3>2. r[n - 1] = x
      BY <1>2, <2>1, <3>1
    <3> QED BY <1>2, <3>1, <3>2 DEF Elements
  <2> QED BY <1>1, <1>5, <2>1, <2>2, <2>3
<1>6. Elements(r) = Elements(s) \ {i}
  BY <1>4, <1>5
<1> QED BY <1>2, <1>3, <1>6 DEF r

\* Pushing a slot that is not in a list adds that slot only.
LEMMA PushFacts ==
    ASSUME NEW S, NEW s \in Seq(S), NoRepeats(s), NEW i \in S, i \notin Elements(s)
    PROVE  /\ <<i>> \o s \in Seq(S)
           /\ Len(<<i>> \o s) = Len(s) + 1
           /\ NoRepeats(<<i>> \o s)
           /\ Elements(<<i>> \o s) = Elements(s) \cup {i}
<1> DEFINE r == <<i>> \o s
<1>1. /\ r \in Seq(S) /\ Len(r) = Len(s) + 1 /\ r[1] = i
      /\ \A n \in 2 .. Len(s) + 1 : r[n] = s[n - 1]
  OBVIOUS
<1> HIDE DEF r
<1>2. \A n \in 1 .. Len(s) : s[n] # i
  BY DEF Elements
<1>3. ASSUME NEW m \in 1 .. Len(r), NEW n \in 1 .. Len(r), r[m] = r[n] PROVE m = n
  <2>1. m = 1 \/ (m - 1 \in 1 .. Len(s) /\ r[m] = s[m - 1])
    BY <1>1
  <2>2. n = 1 \/ (n - 1 \in 1 .. Len(s) /\ r[n] = s[n - 1])
    BY <1>1
  <2>3. CASE m = 1 \/ n = 1
    BY <1>1, <1>2, <1>3, <2>1, <2>2, <2>3
  <2>4. CASE m # 1 /\ n # 1
    <3>1. m - 1 = n - 1
      BY <1>3, <2>1, <2>2, <2>4 DEF NoRepeats
    <3> QED BY <1>1, <3>1
  <2> QED BY <2>3, <2>4
<1>4. ASSUME NEW x \in Elements(r) PROVE x \in Elements(s) \cup {i}
  <2>1. PICK n \in 1 .. Len(s) + 1 : x = r[n]
    BY <1>1 DEF Elements
  <2>2. n = 1 \/ (n - 1 \in 1 .. Len(s) /\ r[n] = s[n - 1])
    BY <1>1
  <2> QED BY <1>1, <2>1, <2>2 DEF Elements
<1>5. ASSUME NEW x \in Elements(s) PROVE x \in Elements(r)
  <2>1. PICK n \in 1 .. Len(s) : x = s[n]
    BY DEF Elements
  <2>2. n + 1 \in 2 .. Len(s) + 1 /\ (n + 1) - 1 = n /\ n + 1 \in 1 .. Len(r)
    BY <1>1
  <2>3. r[n + 1] = x
    BY <1>1, <2>1, <2>2
  <2> QED BY <2>2, <2>3 DEF Elements
<1>6. i \in Elements(r)
  <2>1. 1 \in 1 .. Len(r)
    BY <1>1
  <2> QED BY <1>1, <2>1 DEF Elements
<1>7. NoRepeats(r)
  BY <1>3 DEF NoRepeats
<1> QED BY <1>1, <1>4, <1>5, <1>6, <1>7 DEF r

\* Taking the last slot off a list takes that slot only.
LEMMA FrontFacts ==
    ASSUME NEW S, NEW s \in Seq(S), NoRepeats(s), s # <<>>
    PROVE  /\ Front(s) \in Seq(S)
           /\ Len(Front(s)) = Len(s) - 1
           /\ NoRepeats(Front(s))
           /\ Last(s) \in Elements(s) /\ Last(s) \in S
           /\ Elements(Front(s)) = Elements(s) \ {Last(s)}
<1> DEFINE r == Front(s)
<1>0. Len(s) \in Nat /\ Len(s) > 0 /\ Len(s) \in 1 .. Len(s) /\ Len(s) - 1 \in 0 .. Len(s)
  OBVIOUS
<1>a. /\ r \in Seq(S) /\ Len(r) = Len(s) - 1
      /\ \A n \in 1 .. Len(s) - 1 : r[n] = s[n]
  <2>1. r = SubSeq(s, 1, Len(s) - 1)
    BY DEF Front
  <2>2. /\ SubSeq(s, 1, Len(s) - 1) \in Seq(S)
        /\ Len(SubSeq(s, 1, Len(s) - 1)) = Len(s) - 1
        /\ \A n \in 1 .. Len(s) - 1 : SubSeq(s, 1, Len(s) - 1)[n] = s[n]
    BY <1>0, BeforeFacts
  <2> QED BY <2>1, <2>2
<1>b. Last(s) = s[Len(s)] /\ Last(s) \in S
  BY <1>0 DEF Last
<1>1. /\ Len(s) \in Nat /\ Len(s) > 0
      /\ r \in Seq(S) /\ Len(r) = Len(s) - 1
      /\ \A n \in 1 .. Len(s) - 1 : r[n] = s[n]
      /\ Last(s) = s[Len(s)] /\ Last(s) \in S
  BY <1>0, <1>a, <1>b, Zenon
<1> HIDE DEF r
<1>2. NoRepeats(r)
  BY <1>1 DEF NoRepeats
<1>3. Last(s) \in Elements(s)
  BY <1>1 DEF Elements
<1>4. ASSUME NEW x \in Elements(r) PROVE x \in Elements(s) \ {Last(s)}
  BY <1>1 DEF Elements, NoRepeats
<1>5. ASSUME NEW x \in Elements(s) \ {Last(s)} PROVE x \in Elements(r)
  <2>1. PICK n \in 1 .. Len(s) : x = s[n]
    BY DEF Elements
  <2>2. n \in 1 .. Len(r) /\ r[n] = x
    BY <1>1, <2>1
  <2> QED BY <2>2 DEF Elements
<1> QED BY <1>1, <1>2, <1>3, <1>4, <1>5 DEF r

\* Moving a slot to the front keeps the slots of the list.
LEMMA MoveFacts ==
    ASSUME NEW S, NEW s \in Seq(S), NoRepeats(s), NEW i \in S, i \in Elements(s)
    PROVE  /\ MoveToFront(s, i) \in Seq(S)
           /\ Len(MoveToFront(s, i)) = Len(s)
           /\ NoRepeats(MoveToFront(s, i))
           /\ Elements(MoveToFront(s, i)) = Elements(s)
<1>1. /\ Unlink(s, i) \in Seq(S)
      /\ Len(Unlink(s, i)) = Len(s) - 1
      /\ NoRepeats(Unlink(s, i))
      /\ Elements(Unlink(s, i)) = Elements(s) \ {i}
  BY UnlinkFacts
<1> DEFINE r == Unlink(s, i)
<1>m. MoveToFront(s, i) = <<i>> \o r
  BY DEF MoveToFront
<1>r. r \in Seq(S) /\ Len(r) = Len(s) - 1 /\ NoRepeats(r) /\ Elements(r) = Elements(s) \ {i}
  BY <1>1
<1> HIDE DEF r
<1>2. /\ <<i>> \o r \in Seq(S)
      /\ Len(<<i>> \o r) = Len(r) + 1
      /\ NoRepeats(<<i>> \o r)
      /\ Elements(<<i>> \o r) = Elements(r) \cup {i}
  <2>1. i \notin Elements(r)
    BY <1>r
  <2> QED BY <1>r, <2>1, PushFacts
<1>3. Len(<<i>> \o r) = Len(s)
  BY <1>r, <1>2
<1> QED BY <1>m, <1>r, <1>2, <1>3

-----------------------------------------------------------------------------
(* The constructor's arithmetic and the sketch's type *)

LEMMA MaxOfTwo ==
    ASSUME NEW a \in Int, NEW b \in Int
    PROVE  Max({a, b}) = IF a >= b THEN a ELSE b
<1>1. \E x \in {a, b} : \A y \in {a, b} : x >= y
  OBVIOUS
<1>2. Max({a, b}) \in {a, b} /\ \A y \in {a, b} : Max({a, b}) >= y
  BY <1>1 DEF Max
<1> QED BY <1>2

\* Every capacity the constructor accepts leaves the window a natural number of
\* slots, and the main segments more than protected ever takes.
LEMMA Capacities3 ==
    ASSUME total_capacity \in Capacities
    PROVE  /\ WindowCapacity \in Nat /\ MainCapacity \in Nat
           /\ ProtectedCapacity \in Nat /\ ProtectedCapacity <= ProtectedMost
           /\ ProtectedMost \in Nat /\ ProtectedMost >= 1
           /\ ProtectedMost < MainCapacity
<1> DEFINE q == (total_capacity * WindowPct) \div 100
           w == Max({3, q})
<1>1. total_capacity \in Nat /\ total_capacity >= 3
  BY CapacityAssumption
<1>2. q \in Int
  <2>1. total_capacity * WindowPct \in Int
    BY <1>1, PctAssumption
  <2> QED BY <2>1
<1> HIDE DEF q
<1>3. w = IF 3 >= q THEN 3 ELSE q
  BY <1>2, MaxOfTwo
<1>4. WindowCapacity = IF w >= total_capacity - 2 THEN total_capacity \div 4 ELSE w
  BY DEF WindowCapacity, w, q
<1>5. WindowCapacity \in Nat /\ total_capacity - WindowCapacity >= 3
  <2>1. total_capacity \div 4 \in Nat /\ total_capacity - total_capacity \div 4 >= 3
    BY <1>1
  <2>2. w \in Int /\ w >= 3
    BY <1>2, <1>3
  <2> HIDE DEF w
  <2> QED BY <1>1, <1>4, <2>1, <2>2
<1>6. MainCapacity \in Nat /\ MainCapacity >= 3
  BY <1>1, <1>5 DEF MainCapacity
<1> DEFINE m == MainCapacity
           p == (m * ProbationPct) \div 100
<1>7. p \in Nat /\ p <= m
  <2> HIDE DEF m
  <2>1. m \in Nat /\ m >= 3 /\ ProbationPct \in 0 .. 100
    BY <1>6, PctAssumption DEF m
  <2>2. m * ProbationPct \in Nat /\ m * ProbationPct <= m * 100
    BY <2>1
  <2> QED BY <2>1, <2>2
<1>8. ProbationCapacity = IF 1 >= p THEN 1 ELSE p
  <2>1. ProbationCapacity = Max({1, p})
    BY DEF ProbationCapacity
  <2> HIDE DEF p
  <2> QED BY <1>7, <2>1, MaxOfTwo
<1>9. ProtectedCapacity = m - ProbationCapacity
  BY DEF ProtectedCapacity
<1> HIDE DEF p
<1>10. ProtectedCapacity \in Nat /\ ProtectedCapacity < m
  BY <1>6, <1>7, <1>8, <1>9
<1>11. ProtectedMost = IF 1 >= ProtectedCapacity THEN 1 ELSE ProtectedCapacity
  <2> DEFINE c == ProtectedCapacity
  <2>1. ProtectedMost = Max({1, c})
    BY DEF ProtectedMost
  <2>2. c \in Int
    BY <1>10
  <2> HIDE DEF c
  <2>3. Max({1, c}) = IF 1 >= c THEN 1 ELSE c
    BY <2>2, MaxOfTwo
  <2> QED BY <2>1, <2>3 DEF c
<1> QED BY <1>5, <1>6, <1>10, <1>11

LEMMA CapacitiesFixed ==
    ASSUME UNCHANGED total_capacity
    PROVE  /\ WindowCapacity' = WindowCapacity /\ MainCapacity' = MainCapacity
           /\ ProtectedMost' = ProtectedMost
BY DEF WindowCapacity, MainCapacity, ProtectedMost, ProtectedCapacity, ProbationCapacity

LEMMA SketchType ==
    ASSUME NEW t \in Table, NEW k \in Keys
    PROVE  Increment(t, k) \in Table /\ Decay(t) \in Table
<1>1. CounterMod \in Nat /\ CounterMod > 0
  BY CounterAssumption
<1>2. ASSUME NEW r \in Rows, NEW c \in Cols
      PROVE  /\ t[r][c] \in 0 .. CounterMod - 1
             /\ (t[r][c] + 1) % CounterMod \in 0 .. CounterMod - 1
             /\ t[r][c] \div 2 \in 0 .. CounterMod - 1
  <2>1. t[r][c] \in 0 .. CounterMod - 1
    BY DEF Table
  <2> QED BY <1>1, <2>1
<1> QED BY <1>2 DEF Increment, Decay, Table

LEMMA CountPutType ==
    ASSUME TypeOK, NEW k \in Keys, CountPut(k)
    PROVE  counters' \in Table /\ ops_since_decay' \in 0 .. DecayInterval - 1
<1>1. Increment(counters, k) \in Table /\ Decay(Increment(counters, k)) \in Table
  BY SketchType DEF TypeOK
<1> QED BY <1>1, DecayAssumption DEF TypeOK, CountPut

-----------------------------------------------------------------------------
(* The inductive invariant *)

NodeSet == [key : Keys \cup {NoKey}, value : Values \cup {NoValue}, segment : Segments]

\* Relabelling a node changes its segment and nothing else.
LEMMA RelabelFacts ==
    ASSUME NEW nodes \in [Slots -> NodeSet], NEW a \in Slots, NEW g \in Segments
    PROVE  /\ [nodes EXCEPT ![a].segment = g] \in [Slots -> NodeSet]
           /\ \A j \in Slots :
                 /\ [nodes EXCEPT ![a].segment = g][j].key = nodes[j].key
                 /\ [nodes EXCEPT ![a].segment = g][j].value = nodes[j].value
                 /\ [nodes EXCEPT ![a].segment = g][j].segment = IF j = a THEN g ELSE nodes[j].segment
BY DEF NodeSet

\* Every linked node holds a value.
ValuesKept == \A i \in Slots : node[i].segment # "Free" => node[i].value \in Values

Structure == SlotsPlaced /\ IndexAgrees /\ WithinCapacity /\ ValuesKept

StripeInv == TypeOK /\ Structure

\* What an operation that leaves the sketch out of account has to preserve.
ListTypes ==
    /\ index_map \in [Keys -> Slots \cup {NoSlot}]
    /\ node \in [Slots -> NodeSet]
    /\ free \subseteq Slots /\ others \subseteq Slots
    /\ window \in Seq(Slots) /\ probation \in Seq(Slots) /\ protected \in Seq(Slots)

LEMMA InitStripeInv == Init => StripeInv
<1> SUFFICES ASSUME Init PROVE StripeInv
  OBVIOUS
<1>1. TypeOK
  <2>1. ZeroTable \in Table
    BY CounterAssumption DEF ZeroTable, Table
  <2>2. ResetNode \in [key : Keys \cup {NoKey}, value : Values \cup {NoValue}, segment : Segments]
    BY DEF ResetNode, Segments
  <2>3. 0 \in 0 .. DecayInterval - 1
    BY DecayAssumption
  <2>4. /\ index_map \in [Keys -> Slots \cup {NoSlot}]
        /\ node \in [Slots -> [key : Keys \cup {NoKey}, value : Values \cup {NoValue}, segment : Segments]]
    BY <2>2, Zenon DEF Init
  <2>5. window \in Seq(Slots) /\ probation \in Seq(Slots) /\ protected \in Seq(Slots)
    BY DEF Init
  <2>6. /\ total_capacity \in Capacities /\ free \subseteq Slots /\ others \subseteq Slots
        /\ counters \in Table /\ ops_since_decay \in 0 .. DecayInterval - 1 /\ demotion_queue \in BOOLEAN
    BY <2>1, <2>3, Zenon DEF Init
  <2> QED BY <2>4, <2>5, <2>6, Zenon DEF TypeOK
<1>2. SlotsPlaced
  <2>1. \A i \in Slots : node[i].segment = "Free"
    BY DEF Init, ResetNode
  <2>2. Elements(window) = {} /\ Elements(probation) = {} /\ Elements(protected) = {}
    BY DEF Init, Elements
  <2>3. NoRepeats(window) /\ NoRepeats(probation) /\ NoRepeats(protected)
    BY DEF Init, NoRepeats
  <2>4. free = Slots /\ others = {}
    BY DEF Init
  <2> QED BY <2>1, <2>2, <2>3, <2>4 DEF SlotsPlaced
<1>3. IndexAgrees
  BY DEF Init, IndexAgrees, Cached
<1>4. WithinCapacity
  <2>1. total_capacity \in Capacities /\ Len(window) = 0 /\ Len(probation) = 0 /\ Len(protected) = 0
    BY DEF Init
  <2> QED BY <2>1, Capacities3 DEF WithinCapacity, MainSize, MainFull
<1>5. ValuesKept
  BY DEF Init, ValuesKept, ResetNode
<1> QED BY <1>1, <1>2, <1>3, <1>4, <1>5 DEF StripeInv, Structure

\* A cached key's slot, and the list its segment mark names.
LEMMA CachedFacts ==
    ASSUME StripeInv, NEW k \in Keys, Cached(k)
    PROVE  /\ index_map[k] \in Slots /\ index_map[k] \notin free \cup others
           /\ node[index_map[k]] \in NodeSet
           /\ node[index_map[k]].key = k
           /\ node[index_map[k]].segment \in {"Window", "Probation", "Protected"}
           /\ node[index_map[k]].value \in Values
<1> USE DEF StripeInv, Structure
<1>1. index_map[k] \in Slots
  BY DEF TypeOK, Cached
<1>2. index_map[k] \notin free \cup others /\ node[index_map[k]].key = k
  BY DEF IndexAgrees
<1>3. node[index_map[k]] \in NodeSet
  BY <1>1 DEF TypeOK, NodeSet
<1>4. node[index_map[k]].segment \in Segments \ {"Free"}
  BY <1>1, <1>2, <1>3 DEF SlotsPlaced, NodeSet
<1> QED BY <1>1, <1>2, <1>3, <1>4 DEF ValuesKept, Segments

\* A hit on slot i keeps the structure: with is the nodes after the
\* operation's own change to the value of node i.
LEMMA TouchStructure ==
    ASSUME StripeInv, NEW i \in Slots, i \notin free \cup others, NEW with,
           with \in [Slots -> NodeSet],
           \A j \in Slots : /\ with[j].key = node[j].key
                            /\ with[j].segment = node[j].segment
                            /\ with[j].value = node[j].value \/ (j = i /\ with[j].value \in Values),
           Touch(i, with),
           UNCHANGED <<total_capacity, index_map, free, others>>
    PROVE  /\ ListTypes' /\ Structure'
           /\ \A j \in Slots : /\ node'[j].key = node[j].key
                               /\ node'[j].value = with[j].value
           /\ \A j \in Slots : node'[j].segment = "Free" <=> node[j].segment = "Free"
<1> USE DEF StripeInv, Structure
<1>t. /\ index_map \in [Keys -> Slots \cup {NoSlot}] /\ node \in [Slots -> NodeSet]
      /\ free \subseteq Slots /\ others \subseteq Slots
      /\ window \in Seq(Slots) /\ probation \in Seq(Slots) /\ protected \in Seq(Slots)
      /\ total_capacity \in Capacities
  BY DEF TypeOK, NodeSet
<1>r. NoRepeats(window) /\ NoRepeats(probation) /\ NoRepeats(protected)
  BY DEF SlotsPlaced
<1>c. /\ WindowCapacity \in Nat /\ MainCapacity \in Nat /\ ProtectedMost \in Nat
      /\ ProtectedMost >= 1 /\ ProtectedMost < MainCapacity
      /\ ProtectedCapacity \in Nat /\ ProtectedCapacity <= ProtectedMost
      /\ WindowCapacity' = WindowCapacity /\ MainCapacity' = MainCapacity
      /\ ProtectedMost' = ProtectedMost
  BY <1>t, Capacities3, CapacitiesFixed
<1> DEFINE Moved ==
      /\ window' \in Seq(Slots) /\ probation' \in Seq(Slots) /\ protected' \in Seq(Slots)
      /\ NoRepeats(window') /\ NoRepeats(probation') /\ NoRepeats(protected')
      /\ Len(window') = Len(window)
      /\ Len(protected') <= ProtectedMost
      /\ Len(probation') + Len(protected') = Len(probation) + Len(protected)
      /\ node' \in [Slots -> NodeSet]
      /\ \A j \in Slots :
            /\ node'[j].key = node[j].key
            /\ node'[j].value = with[j].value
            /\ node'[j].segment = "Free" <=> node[j].segment = "Free"
            /\ j \in Elements(window') <=> node'[j].segment = "Window"
            /\ j \in Elements(probation') <=> node'[j].segment = "Probation"
            /\ j \in Elements(protected') <=> node'[j].segment = "Protected"
<1>l. Len(window) <= WindowCapacity /\ Len(protected) <= ProtectedMost
  BY DEF WithinCapacity
<1>p. \A j \in Slots : /\ j \in Elements(window) <=> node[j].segment = "Window"
                       /\ j \in Elements(probation) <=> node[j].segment = "Probation"
                       /\ j \in Elements(protected) <=> node[j].segment = "Protected"
                       /\ j \in free \cup others <=> node[j].segment = "Free"
  BY DEF SlotsPlaced
<1>1. ASSUME TouchWindow(i) /\ node' = with PROVE Moved
  <2>1. node[i].segment = "Window" /\ window' = MoveToFront(window, i) /\ UNCHANGED <<probation, protected>>
    BY <1>1 DEF TouchWindow
  <2>2. /\ window' \in Seq(Slots) /\ Len(window') = Len(window) /\ NoRepeats(window')
        /\ Elements(window') = Elements(window)
    BY <1>t, <1>r, <1>p, <2>1, MoveFacts
  <2> QED BY <1>1, <1>t, <1>r, <1>p, <1>l, <2>1, <2>2
<1>2. ASSUME TouchProtected(i) /\ node' = with PROVE Moved
  <2>1. node[i].segment = "Protected" /\ protected' = MoveToFront(protected, i) /\ UNCHANGED <<window, probation>>
    BY <1>2 DEF TouchProtected
  <2>2. /\ protected' \in Seq(Slots) /\ Len(protected') = Len(protected) /\ NoRepeats(protected')
        /\ Elements(protected') = Elements(protected)
    BY <1>t, <1>r, <1>p, <2>1, MoveFacts
  <2> QED BY <1>2, <1>t, <1>r, <1>p, <1>l, <2>1, <2>2
<1>3. ASSUME Promote(i, with) PROVE Moved
  <2> DEFINE u == Unlink(probation, i)
             last == Last(protected)
             f == Front(protected)
  <2>1. node[i].segment = "Probation" /\ UNCHANGED window
    BY <1>3 DEF Promote
  <2>2. /\ u \in Seq(Slots) /\ Len(u) = Len(probation) - 1 /\ NoRepeats(u)
        /\ Elements(u) = Elements(probation) \ {i}
    BY <1>t, <1>r, <1>p, <2>1, UnlinkFacts
  <2>3. i \notin Elements(protected) /\ i \notin Elements(window)
    BY <1>p, <2>1
  <2>4. CASE Len(protected) >= ProtectedCapacity /\ protected # <<>>
    <3>1. /\ protected' = <<i>> \o f
          /\ probation' = <<last>> \o u
          /\ node' = [with EXCEPT ![i].segment = "Protected", ![last].segment = "Probation"]
      BY <1>3, <2>4 DEF Promote
    <3>2. /\ f \in Seq(Slots) /\ Len(f) = Len(protected) - 1 /\ NoRepeats(f)
          /\ last \in Elements(protected) /\ last \in Slots
          /\ Elements(f) = Elements(protected) \ {last}
      BY <1>t, <1>r, <2>4, FrontFacts
    <3> HIDE DEF u, last, f
    <3>3. last # i /\ node[last].segment = "Protected"
      BY <1>p, <2>3, <3>2
    <3>4. /\ protected' \in Seq(Slots) /\ Len(protected') = Len(protected) /\ NoRepeats(protected')
          /\ Elements(protected') = (Elements(protected) \ {last}) \cup {i}
      <4>1. i \notin Elements(f)
        BY <2>3, <3>2
      <4>2. /\ <<i>> \o f \in Seq(Slots) /\ Len(<<i>> \o f) = Len(f) + 1
            /\ NoRepeats(<<i>> \o f) /\ Elements(<<i>> \o f) = Elements(f) \cup {i}
        BY <3>2, <4>1, PushFacts
      <4>3. Len(<<i>> \o f) = Len(protected)
        BY <1>t, <3>2, <4>2
      <4> QED BY <3>1, <3>2, <4>2, <4>3
    <3>5. /\ probation' \in Seq(Slots) /\ Len(probation') = Len(probation) /\ NoRepeats(probation')
          /\ Elements(probation') = (Elements(probation) \ {i}) \cup {last}
      <4>1. last \notin Elements(u)
        BY <1>p, <2>2, <3>2, <3>3
      <4>2. /\ <<last>> \o u \in Seq(Slots) /\ Len(<<last>> \o u) = Len(u) + 1
            /\ NoRepeats(<<last>> \o u) /\ Elements(<<last>> \o u) = Elements(u) \cup {last}
        BY <2>2, <3>2, <4>1, PushFacts
      <4>3. Len(<<last>> \o u) = Len(probation)
        BY <1>t, <2>2, <4>2
      <4> QED BY <2>2, <3>1, <4>2, <4>3
    <3>6. ASSUME NEW j \in Slots
          PROVE  /\ node'[j] \in NodeSet
                 /\ node'[j].key = node[j].key /\ node'[j].value = with[j].value
                 /\ node'[j].segment = IF j = i THEN "Protected"
                                       ELSE IF j = last THEN "Probation" ELSE node[j].segment
      <4>1. PICK m : m = [with EXCEPT ![i].segment = "Protected"]
        OBVIOUS
      <4>2. node' = [m EXCEPT ![last].segment = "Probation"]
        BY ONLY <3>1, <4>1
      <4>3. "Protected" \in Segments /\ "Probation" \in Segments
        BY DEF Segments
      <4>4. /\ m \in [Slots -> NodeSet]
            /\ m[j].key = with[j].key /\ m[j].value = with[j].value
            /\ m[j].segment = IF j = i THEN "Protected" ELSE with[j].segment
        BY <4>1, <4>3, RelabelFacts
      <4>5. /\ node' \in [Slots -> NodeSet]
            /\ node'[j].key = m[j].key /\ node'[j].value = m[j].value
            /\ node'[j].segment = IF j = last THEN "Probation" ELSE m[j].segment
        BY <3>2, <4>2, <4>3, <4>4, RelabelFacts
      <4> QED BY <3>3, <4>4, <4>5
    <3>7. node' \in [Slots -> NodeSet]
      BY <3>1, <3>6
    <3> QED BY <1>l, <1>r, <1>t, <1>p, <2>1, <3>2, <3>3, <3>4, <3>5, <3>6, <3>7
  <2>5. CASE ~ (Len(protected) >= ProtectedCapacity /\ protected # <<>>)
    <3>1. /\ protected' = <<i>> \o protected
          /\ probation' = u
          /\ node' = [with EXCEPT ![i].segment = "Protected"]
      BY <1>3, <2>5 DEF Promote
    <3> HIDE DEF u
    <3>2. Len(protected) + 1 <= ProtectedMost
      BY <1>t, <1>c, <2>5
    <3>3. /\ protected' \in Seq(Slots) /\ Len(protected') = Len(protected) + 1 /\ NoRepeats(protected')
          /\ Elements(protected') = Elements(protected) \cup {i}
      BY <1>t, <1>r, <2>3, <3>1, PushFacts
    <3>4. ASSUME NEW j \in Slots
          PROVE  /\ node'[j] \in NodeSet
                 /\ node'[j].key = node[j].key /\ node'[j].value = with[j].value
                 /\ node'[j].segment = IF j = i THEN "Protected" ELSE node[j].segment
      BY <3>1 DEF NodeSet, Segments
    <3>5. node' \in [Slots -> NodeSet]
      BY <3>1, <3>4
    <3>6. Len(probation') + Len(protected') = Len(probation) + Len(protected)
      <4>1. /\ Len(probation') = Len(probation) - 1 /\ Len(protected') = Len(protected) + 1
            /\ Len(probation) \in Nat /\ Len(protected) \in Nat
        BY <1>t, <2>2, <3>1, <3>3
      <4> QED BY <4>1
    <3>7. /\ probation' \in Seq(Slots) /\ NoRepeats(probation')
          /\ Elements(probation') = Elements(probation) \ {i}
      BY <2>2, <3>1
    <3>8. Len(protected') <= ProtectedMost /\ window' = window
      BY <2>1, <3>2, <3>3
    <3>9. ASSUME NEW j \in Slots
          PROVE  /\ node'[j].segment = "Free" <=> node[j].segment = "Free"
                 /\ j \in Elements(window') <=> node'[j].segment = "Window"
                 /\ j \in Elements(probation') <=> node'[j].segment = "Probation"
                 /\ j \in Elements(protected') <=> node'[j].segment = "Protected"
      BY <1>p, <2>1, <3>3, <3>4, <3>7, <3>8
    <3> QED BY <1>r, <1>t, <3>3, <3>4, <3>5, <3>6, <3>7, <3>8, <3>9
  <2> QED BY <2>4, <2>5
<1>4. Moved
  BY <1>1, <1>2, <1>3 DEF Touch
<1> HIDE DEF Moved
<1>5. ListTypes'
  BY <1>t, <1>4 DEF Moved, ListTypes
<1>6. SlotsPlaced'
  <2>1. \A j \in Slots : j \in free' \cup others' <=> node'[j].segment = "Free"
    BY <1>p, <1>4 DEF Moved
  <2>2. free' \cap others' = {}
    BY DEF SlotsPlaced
  <2> QED BY <1>4, <2>1, <2>2 DEF Moved, SlotsPlaced, NoRepeats, Elements
<1>7. IndexAgrees'
  <2>1. \A j \in Slots : node'[j].key = node[j].key
    BY <1>4 DEF Moved
  <2>2. ASSUME NEW k \in Keys, Cached(k)'
        PROVE  index_map'[k] \notin free' \cup others' /\ node'[index_map'[k]].key = k
    BY <1>t, <2>1, <2>2 DEF IndexAgrees, Cached
  <2>3. ASSUME NEW j \in Slots \ (free' \cup others')
        PROVE  node'[j].key \in Keys /\ index_map'[node'[j].key] = j
    BY <2>1 DEF IndexAgrees
  <2> QED BY <2>2, <2>3 DEF IndexAgrees, Cached
<1>8. WithinCapacity'
  <2>1. Len(window') <= WindowCapacity' /\ Len(protected') <= ProtectedMost'
    BY <1>c, <1>l, <1>4 DEF Moved
  <2>2. MainSize' = MainSize
    BY <1>4 DEF Moved, MainSize
  <2>3. MainSize <= MainCapacity
    BY DEF WithinCapacity
  <2>4. MainFull' => probation' # <<>>
    <3>1. MainSize' = Len(probation') + Len(protected') /\ Len(protected') < MainCapacity
          /\ Len(probation') \in Nat /\ Len(protected') \in Nat
      BY <1>c, <1>4 DEF Moved, MainSize
    <3>2. probation' = <<>> => Len(probation') = 0
      OBVIOUS
    <3> QED BY <1>c, <3>1, <3>2 DEF MainFull
  <2> QED BY <1>c, <2>1, <2>2, <2>3, <2>4 DEF WithinCapacity
<1>9. ValuesKept'
  BY <1>4 DEF Moved, ValuesKept
<1> QED BY <1>4, <1>5, <1>6, <1>7, <1>8, <1>9 DEF Moved

\* Structure' from its parts: a victim exists whenever the main segments are
\* full, because the protected segment alone cannot fill them.
LEMMA StructureNext ==
    ASSUME total_capacity \in Capacities, UNCHANGED total_capacity, ListTypes',
           NoRepeats(window') /\ NoRepeats(probation') /\ NoRepeats(protected'),
           \A j \in Slots : /\ j \in Elements(window') <=> node'[j].segment = "Window"
                            /\ j \in Elements(probation') <=> node'[j].segment = "Probation"
                            /\ j \in Elements(protected') <=> node'[j].segment = "Protected"
                            /\ j \in free' \cup others' <=> node'[j].segment = "Free"
                            /\ node'[j].segment # "Free" => node'[j].value \in Values,
           free' \cap others' = {},
           \A q \in Keys : index_map'[q] # NoSlot =>
                              /\ index_map'[q] \notin free' \cup others'
                              /\ node'[index_map'[q]].key = q,
           \A j \in Slots \ (free' \cup others') :
                node'[j].key \in Keys /\ index_map'[node'[j].key] = j,
           Len(window') <= WindowCapacity, Len(protected') <= ProtectedMost,
           Len(probation') + Len(protected') <= MainCapacity
    PROVE  Structure'
<1>1. SlotsPlaced'
  BY DEF SlotsPlaced, NoRepeats, Elements
<1>2. IndexAgrees'
  BY DEF IndexAgrees, Cached
<1>3. WithinCapacity'
  <2>1. /\ MainCapacity \in Nat /\ ProtectedMost \in Nat /\ ProtectedMost < MainCapacity
        /\ WindowCapacity' = WindowCapacity /\ MainCapacity' = MainCapacity
        /\ ProtectedMost' = ProtectedMost
    BY Capacities3, CapacitiesFixed
  <2>2. Len(probation') \in Nat /\ Len(protected') \in Nat
    BY DEF ListTypes
  <2>3. probation' = <<>> => Len(probation') = 0
    OBVIOUS
  <2>4. MainFull' => probation' # <<>>
    BY <2>1, <2>2, <2>3 DEF MainFull, MainSize
  <2> QED BY <2>1, <2>4 DEF WithinCapacity, MainSize
<1>4. ValuesKept'
  BY DEF ValuesKept
<1> QED BY <1>1, <1>2, <1>3, <1>4 DEF Structure

\* The parts of the invariant, in the form the proofs below use them.
LEMMA InvParts ==
    ASSUME StripeInv
    PROVE  /\ total_capacity \in Capacities /\ ListTypes
           /\ NoRepeats(window) /\ NoRepeats(probation) /\ NoRepeats(protected)
           /\ \A j \in Slots : /\ j \in Elements(window) <=> node[j].segment = "Window"
                               /\ j \in Elements(probation) <=> node[j].segment = "Probation"
                               /\ j \in Elements(protected) <=> node[j].segment = "Protected"
                               /\ j \in free \cup others <=> node[j].segment = "Free"
                               /\ node[j].segment # "Free" => node[j].value \in Values
           /\ free \cap others = {}
           /\ \A q \in Keys : index_map[q] # NoSlot =>
                                 index_map[q] \notin free \cup others /\ node[index_map[q]].key = q
           /\ \A j \in Slots \ (free \cup others) : node[j].key \in Keys /\ index_map[node[j].key] = j
           /\ Len(window) <= WindowCapacity /\ Len(protected) <= ProtectedMost
           /\ Len(probation) + Len(protected) <= MainCapacity
<1> USE DEF StripeInv, Structure
<1>1. total_capacity \in Capacities /\ ListTypes
  BY DEF TypeOK, ListTypes, NodeSet
<1>2. /\ NoRepeats(window) /\ NoRepeats(probation) /\ NoRepeats(protected)
      /\ \A j \in Slots : /\ j \in Elements(window) <=> node[j].segment = "Window"
                          /\ j \in Elements(probation) <=> node[j].segment = "Probation"
                          /\ j \in Elements(protected) <=> node[j].segment = "Protected"
                          /\ j \in free \cup others <=> node[j].segment = "Free"
      /\ free \cap others = {}
  BY DEF SlotsPlaced
<1>3. /\ \A q \in Keys : index_map[q] # NoSlot =>
                            index_map[q] \notin free \cup others /\ node[index_map[q]].key = q
      /\ \A j \in Slots \ (free \cup others) : node[j].key \in Keys /\ index_map[node[j].key] = j
  BY DEF IndexAgrees, Cached
<1>4. /\ Len(window) <= WindowCapacity /\ Len(protected) <= ProtectedMost
      /\ Len(probation) + Len(protected) <= MainCapacity
  BY DEF WithinCapacity, MainSize
<1> QED BY <1>1, <1>2, <1>3, <1>4 DEF ValuesKept

\* What put finds when it has allocated slot i for a new key k.
FreshSlot(k, v, i) ==
    /\ node[i].segment = "Free" /\ i \notin others
    /\ i \notin Elements(window) \cup Elements(probation) \cup Elements(protected)
    /\ index_map[k] = NoSlot
    /\ \A j \in Slots \ (free \cup others) : node[j].key # k /\ j # i
    /\ \A q \in Keys : index_map[q] # i
    /\ Inserted(k, v, i) \in [Slots -> NodeSet]
    /\ \A j \in Slots :
          Inserted(k, v, i)[j] =
              IF j = i THEN [key |-> k, value |-> v, segment |-> "Window"] ELSE node[j]
    /\ <<i>> \o window \in Seq(Slots) /\ <<i>> \o window # <<>>
    /\ Len(<<i>> \o window) = Len(window) + 1
    /\ NoRepeats(<<i>> \o window)
    /\ Elements(<<i>> \o window) = Elements(window) \cup {i}

LEMMA FreshFacts ==
    ASSUME StripeInv, NEW k \in Keys, NEW v \in Values, NEW i \in Slots, i \in free, ~ Cached(k)
    PROVE  FreshSlot(k, v, i)
<1>1. node[i].segment = "Free" /\ i \notin others
  BY InvParts
<1>2. i \notin Elements(window) \cup Elements(probation) \cup Elements(protected)
  BY <1>1, InvParts
<1>3. index_map[k] = NoSlot
  BY DEF Cached
<1>4. \A j \in Slots \ (free \cup others) : node[j].key # k /\ j # i
  BY <1>3, InvParts, DistinctAssumption
<1>5. \A q \in Keys : index_map[q] # i
  BY InvParts, DistinctAssumption
<1>6. node \in [Slots -> NodeSet] /\ window \in Seq(Slots) /\ NoRepeats(window)
  BY InvParts DEF ListTypes
<1>7. /\ \A j \in Slots :
             Inserted(k, v, i)[j] =
                 IF j = i THEN [key |-> k, value |-> v, segment |-> "Window"] ELSE node[j]
      /\ Inserted(k, v, i) \in [Slots -> NodeSet]
  <2>1. [key |-> k, value |-> v, segment |-> "Window"] \in NodeSet
    BY DEF NodeSet, Segments
  <2> QED BY <1>6, <2>1 DEF Inserted
<1>8. /\ <<i>> \o window \in Seq(Slots)
      /\ Len(<<i>> \o window) = Len(window) + 1
      /\ NoRepeats(<<i>> \o window)
      /\ Elements(<<i>> \o window) = Elements(window) \cup {i}
  BY <1>2, <1>6, PushFacts
<1>9. <<i>> \o window # <<>>
  BY <1>6, <1>8
<1> QED BY <1>1, <1>2, <1>3, <1>4, <1>5, <1>7, <1>8, <1>9 DEF FreshSlot

LEMMA PutIntoWindowStructure ==
    ASSUME StripeInv, NEW k \in Keys, NEW v \in Values, NEW i \in Slots,
           PutIntoWindow(k, v, i), UNCHANGED total_capacity
    PROVE  ListTypes' /\ Structure'
<1> DEFINE w1 == <<i>> \o window
           nodes == Inserted(k, v, i)
<1>0. /\ i \in free /\ ~ Cached(k)
      /\ ~ (Len(w1) > WindowCapacity)
      /\ window' = w1
      /\ index_map' = [index_map EXCEPT ![k] = i]
      /\ node' = nodes
      /\ free' = free \ {i}
      /\ UNCHANGED <<probation, protected, others>>
  BY DEF PutIntoWindow, Fresh, Overfull
<1>1. /\ node[i].segment = "Free" /\ i \notin others
      /\ i \notin Elements(window) \cup Elements(probation) \cup Elements(protected)
      /\ index_map[k] = NoSlot
      /\ \A j \in Slots \ (free \cup others) : node[j].key # k /\ j # i
      /\ \A q \in Keys : index_map[q] # i
      /\ nodes \in [Slots -> NodeSet]
      /\ \A j \in Slots :
            nodes[j] = IF j = i THEN [key |-> k, value |-> v, segment |-> "Window"] ELSE node[j]
      /\ w1 \in Seq(Slots) /\ Len(w1) = Len(window) + 1 /\ NoRepeats(w1)
      /\ Elements(w1) = Elements(window) \cup {i}
  BY <1>0, FreshFacts DEF FreshSlot
<1>2. ListTypes
  BY InvParts
<1> HIDE DEF w1, nodes
<1>3. ListTypes'
  BY <1>0, <1>1, <1>2 DEF ListTypes
<1>4. Len(w1) <= WindowCapacity
  <2>1. WindowCapacity \in Nat /\ Len(w1) \in Nat
    BY <1>1, InvParts, Capacities3
  <2> QED BY <1>0, <2>1
<1>5. ASSUME NEW j \in Slots
      PROVE  /\ j \in Elements(window') <=> node'[j].segment = "Window"
             /\ j \in Elements(probation') <=> node'[j].segment = "Probation"
             /\ j \in Elements(protected') <=> node'[j].segment = "Protected"
             /\ j \in free' \cup others' <=> node'[j].segment = "Free"
             /\ node'[j].segment # "Free" => node'[j].value \in Values
  BY <1>0, <1>1, InvParts
<1>6. ASSUME NEW q \in Keys, index_map'[q] # NoSlot
      PROVE  index_map'[q] \notin free' \cup others' /\ node'[index_map'[q]].key = q
  <2>1. CASE q = k
    BY <1>0, <1>1, <1>2, <2>1 DEF ListTypes
  <2>2. CASE q # k
    <3>1. index_map'[q] = index_map[q] /\ index_map[q] \in Slots
      BY <1>0, <1>2, <1>6, <2>2 DEF ListTypes
    <3> QED BY <1>0, <1>1, <1>6, <3>1, InvParts
  <2> QED BY <2>1, <2>2
<1>7. ASSUME NEW j \in Slots \ (free' \cup others')
      PROVE  node'[j].key \in Keys /\ index_map'[node'[j].key] = j
  <2>1. CASE j = i
    BY <1>0, <1>1, <1>2, <2>1 DEF ListTypes
  <2>2. CASE j # i
    <3>1. j \notin free \cup others /\ node'[j] = node[j]
      BY <1>0, <1>1, <2>2
    <3>2. node[j].key \in Keys /\ index_map[node[j].key] = j /\ node[j].key # k
      BY <1>1, <3>1, InvParts
    <3> QED BY <1>0, <1>2, <3>1, <3>2 DEF ListTypes
  <2> QED BY <2>1, <2>2
<1> QED BY <1>0, <1>1, <1>3, <1>4, <1>5, <1>6, <1>7, InvParts, StructureNext

\* The slot that falls out of an overfull window: slot i itself when the window
\* has no room at all, or the window's least recently used slot.
FallsOut(k, v, i) ==
    /\ Front(<<i>> \o window) \in Seq(Slots)
    /\ Len(Front(<<i>> \o window)) = Len(window)
    /\ NoRepeats(Front(<<i>> \o window))
    /\ Elements(Front(<<i>> \o window)) = (Elements(window) \cup {i}) \ {Candidate(i)}
    /\ Candidate(i) \in Slots
    /\ Candidate(i) \notin Elements(probation) \cup Elements(protected)
    /\ Candidate(i) \notin (free \ {i}) \cup others
    /\ Inserted(k, v, i)[Candidate(i)].segment = "Window"
    /\ Inserted(k, v, i)[Candidate(i)].key \in Keys
    /\ Inserted(k, v, i)[Candidate(i)].value \in Values
    /\ Candidate(i) = i \/ Candidate(i) \in Elements(window)

LEMMA CandidateFacts ==
    ASSUME StripeInv, NEW k \in Keys, NEW v \in Values, NEW i \in Slots, i \in free, ~ Cached(k)
    PROVE  FallsOut(k, v, i)
<1> DEFINE w1 == <<i>> \o window
           nodes == Inserted(k, v, i)
<1>1. /\ node[i].segment = "Free" /\ i \notin others
      /\ i \notin Elements(window) \cup Elements(probation) \cup Elements(protected)
      /\ \A j \in Slots :
            nodes[j] = IF j = i THEN [key |-> k, value |-> v, segment |-> "Window"] ELSE node[j]
      /\ w1 \in Seq(Slots) /\ w1 # <<>> /\ Len(w1) = Len(window) + 1 /\ NoRepeats(w1)
      /\ Elements(w1) = Elements(window) \cup {i}
  BY FreshFacts DEF FreshSlot
<1>2. /\ Candidate(i) = Last(w1)
      /\ window \in Seq(Slots)
  BY InvParts DEF Candidate, ListTypes
<1> USE DEF FallsOut
<1> HIDE DEF w1, nodes
<1>3. /\ Front(w1) \in Seq(Slots) /\ Len(Front(w1)) = Len(w1) - 1 /\ NoRepeats(Front(w1))
      /\ Last(w1) \in Elements(w1) /\ Last(w1) \in Slots
      /\ Elements(Front(w1)) = Elements(w1) \ {Last(w1)}
  BY <1>1, FrontFacts
<1>4. Len(Front(w1)) = Len(window)
  BY <1>1, <1>2, <1>3
<1>5. Candidate(i) \in Slots /\ (Candidate(i) = i \/ Candidate(i) \in Elements(window))
  BY <1>1, <1>2, <1>3
<1>6. CASE Candidate(i) = i
  BY <1>1, <1>2, <1>3, <1>4, <1>5, <1>6 DEF w1, nodes
<1>7. CASE Candidate(i) # i
  <2> DEFINE c == Candidate(i)
  <2>1. c \in Slots /\ c \in Elements(window) /\ node[c].segment = "Window" /\ nodes[c] = node[c]
    BY <1>1, <1>5, <1>7, InvParts
  <2>2. c \notin free \cup others /\ c \notin Elements(probation) \cup Elements(protected)
    BY <2>1, InvParts
  <2>3. node[c].key \in Keys /\ node[c].value \in Values
    BY <2>1, <2>2, InvParts
  <2> QED BY <1>1, <1>2, <1>3, <1>4, <1>5, <2>1, <2>2, <2>3 DEF w1, nodes
<1> QED BY <1>6, <1>7

LEMMA PutAdmitFreeStructure ==
    ASSUME StripeInv, NEW k \in Keys, NEW v \in Values, NEW i \in Slots,
           PutAdmitFree(k, v, i), UNCHANGED total_capacity
    PROVE  ListTypes' /\ Structure'
<1> DEFINE w2 == Front(<<i>> \o window)
           nodes == Inserted(k, v, i)
           c == Candidate(i)
<1>0. /\ i \in free /\ ~ Cached(k)
      /\ ~ (Len(probation) + Len(protected) >= MainCapacity)
      /\ window' = w2
      /\ probation' = <<c>> \o probation
      /\ index_map' = [index_map EXCEPT ![k] = i]
      /\ node' = [nodes EXCEPT ![c].segment = "Probation"]
      /\ free' = free \ {i}
      /\ UNCHANGED <<protected, others>>
  BY DEF PutAdmitFree, Fresh, MainFull, MainSize
<1>1. /\ node[i].segment = "Free" /\ i \notin others
      /\ i \notin Elements(window) \cup Elements(probation) \cup Elements(protected)
      /\ index_map[k] = NoSlot
      /\ \A j \in Slots \ (free \cup others) : node[j].key # k /\ j # i
      /\ \A q \in Keys : index_map[q] # i
      /\ nodes \in [Slots -> NodeSet]
      /\ \A j \in Slots :
            nodes[j] = IF j = i THEN [key |-> k, value |-> v, segment |-> "Window"] ELSE node[j]
  BY <1>0, FreshFacts DEF FreshSlot
<1>2. /\ w2 \in Seq(Slots) /\ Len(w2) = Len(window) /\ NoRepeats(w2)
      /\ Elements(w2) = (Elements(window) \cup {i}) \ {c}
      /\ c \in Slots /\ c \notin Elements(probation) \cup Elements(protected)
      /\ c \notin (free \ {i}) \cup others
      /\ nodes[c].segment = "Window"
      /\ nodes[c].value \in Values
  BY <1>0, CandidateFacts DEF FallsOut
<1>3. ListTypes
  BY InvParts
<1> HIDE DEF w2, nodes, c
<1>4. /\ probation' \in Seq(Slots) /\ Len(probation') = Len(probation) + 1 /\ NoRepeats(probation')
      /\ Elements(probation') = Elements(probation) \cup {c}
  <2>1. probation \in Seq(Slots) /\ NoRepeats(probation) /\ c \notin Elements(probation)
    BY <1>2, InvParts DEF ListTypes
  <2> QED BY <1>0, <1>2, <2>1, PushFacts
<1>5. /\ node' \in [Slots -> NodeSet]
      /\ \A j \in Slots :
            /\ node'[j].key = nodes[j].key /\ node'[j].value = nodes[j].value
            /\ node'[j].segment = IF j = c THEN "Probation" ELSE nodes[j].segment
  BY <1>0, <1>1, <1>2 DEF NodeSet, Segments
<1>6. ListTypes'
  BY <1>0, <1>1, <1>2, <1>3, <1>4, <1>5 DEF ListTypes
<1>7. ASSUME NEW j \in Slots
      PROVE  /\ j \in Elements(window') <=> node'[j].segment = "Window"
             /\ j \in Elements(probation') <=> node'[j].segment = "Probation"
             /\ j \in Elements(protected') <=> node'[j].segment = "Protected"
             /\ j \in free' \cup others' <=> node'[j].segment = "Free"
             /\ node'[j].segment # "Free" => node'[j].value \in Values
  BY <1>0, <1>1, <1>2, <1>4, <1>5, InvParts
<1>8. ASSUME NEW q \in Keys, index_map'[q] # NoSlot
      PROVE  index_map'[q] \notin free' \cup others' /\ node'[index_map'[q]].key = q
  <2>1. CASE q = k
    BY <1>0, <1>1, <1>3, <1>5, <2>1 DEF ListTypes
  <2>2. CASE q # k
    <3>1. index_map'[q] = index_map[q] /\ index_map[q] \in Slots
      BY <1>0, <1>3, <1>8, <2>2 DEF ListTypes
    <3> QED BY <1>0, <1>1, <1>5, <1>8, <3>1, InvParts
  <2> QED BY <2>1, <2>2
<1>9. ASSUME NEW j \in Slots \ (free' \cup others')
      PROVE  node'[j].key \in Keys /\ index_map'[node'[j].key] = j
  <2>1. CASE j = i
    BY <1>0, <1>1, <1>3, <1>5, <2>1 DEF ListTypes
  <2>2. CASE j # i
    <3>1. j \notin free \cup others /\ node'[j].key = node[j].key
      BY <1>0, <1>1, <1>5, <2>2
    <3>2. node[j].key \in Keys /\ index_map[node[j].key] = j /\ node[j].key # k
      BY <1>1, <3>1, InvParts
    <3> QED BY <1>0, <1>3, <3>1, <3>2 DEF ListTypes
  <2> QED BY <2>1, <2>2
<1>10. Len(probation') + Len(protected') <= MainCapacity
  <2>1. Len(probation) \in Nat /\ Len(protected) \in Nat /\ MainCapacity \in Nat
    BY <1>3, InvParts, Capacities3 DEF ListTypes
  <2> QED BY <1>0, <1>4, <2>1
<1>11. Len(window') <= WindowCapacity /\ Len(protected') <= ProtectedMost
  BY <1>0, <1>2, InvParts
<1>12. NoRepeats(window') /\ NoRepeats(probation') /\ NoRepeats(protected') /\ free' \cap others' = {}
  BY <1>0, <1>2, <1>4, InvParts
<1> QED BY <1>6, <1>7, <1>8, <1>9, <1>10, <1>11, <1>12, InvParts, StructureNext

LEMMA PutAdmitEvictStructure ==
    ASSUME StripeInv, NEW k \in Keys, NEW v \in Values, NEW i \in Slots,
           PutAdmitEvict(k, v, i), UNCHANGED total_capacity
    PROVE  ListTypes' /\ Structure'
<1> DEFINE w2 == Front(<<i>> \o window)
           nodes == Inserted(k, v, i)
           c == Candidate(i)
           victim == Last(probation)
           rest == Front(probation)
           gone == nodes[victim].key
<1>0. /\ i \in free /\ ~ Cached(k)
      /\ probation # <<>>
      /\ window' = w2
      /\ probation' = <<c>> \o rest
      /\ index_map' = [[index_map EXCEPT ![k] = i] EXCEPT ![gone] = NoSlot]
      /\ node' = [nodes EXCEPT ![c].segment = "Probation", ![victim] = ResetNode]
      /\ free' = (free \ {i}) \cup {victim}
      /\ UNCHANGED <<protected, others>>
  BY DEF PutAdmitEvict, Fresh, Reindexed
<1>1. /\ node[i].segment = "Free" /\ i \notin others
      /\ i \notin Elements(window) \cup Elements(probation) \cup Elements(protected)
      /\ index_map[k] = NoSlot
      /\ \A j \in Slots \ (free \cup others) : node[j].key # k /\ j # i
      /\ \A q \in Keys : index_map[q] # i
      /\ nodes \in [Slots -> NodeSet]
      /\ \A j \in Slots :
            nodes[j] = IF j = i THEN [key |-> k, value |-> v, segment |-> "Window"] ELSE node[j]
  BY <1>0, FreshFacts DEF FreshSlot
<1>2. /\ w2 \in Seq(Slots) /\ Len(w2) = Len(window) /\ NoRepeats(w2)
      /\ Elements(w2) = (Elements(window) \cup {i}) \ {c}
      /\ c \in Slots /\ c \notin Elements(probation) \cup Elements(protected)
      /\ c \notin (free \ {i}) \cup others
      /\ nodes[c].segment = "Window"
      /\ nodes[c].value \in Values
  BY <1>0, CandidateFacts DEF FallsOut
<1>3. ListTypes /\ probation \in Seq(Slots) /\ NoRepeats(probation)
  BY InvParts DEF ListTypes
<1>4. /\ rest \in Seq(Slots) /\ Len(rest) = Len(probation) - 1 /\ NoRepeats(rest)
      /\ victim \in Elements(probation) /\ victim \in Slots
      /\ Elements(rest) = Elements(probation) \ {victim}
  BY <1>0, <1>3, FrontFacts
<1>g. gone = nodes[victim].key
  OBVIOUS
<1> HIDE DEF w2, nodes, c, victim, rest, gone
<1>5. /\ node[victim].segment = "Probation" /\ victim \notin free \cup others
      /\ victim # c /\ victim # i
      /\ victim \notin Elements(window) \cup Elements(protected)
  BY <1>1, <1>2, <1>4, InvParts
<1>6. gone = node[victim].key /\ gone \in Keys /\ gone # k /\ index_map[gone] = victim
  BY <1>g, <1>1, <1>4, <1>5, InvParts
<1>7. /\ probation' \in Seq(Slots) /\ Len(probation') = Len(probation) /\ NoRepeats(probation')
      /\ Elements(probation') = (Elements(probation) \ {victim}) \cup {c}
  <2>1. c \notin Elements(rest)
    BY <1>2, <1>4
  <2>2. /\ <<c>> \o rest \in Seq(Slots) /\ Len(<<c>> \o rest) = Len(rest) + 1
        /\ NoRepeats(<<c>> \o rest) /\ Elements(<<c>> \o rest) = Elements(rest) \cup {c}
    BY <1>2, <1>4, <2>1, PushFacts
  <2>3. Len(<<c>> \o rest) = Len(probation)
    BY <1>3, <1>4, <2>2
  <2> QED BY <1>0, <1>4, <2>2, <2>3
<1>8. /\ node' \in [Slots -> NodeSet]
      /\ node'[victim] = ResetNode
      /\ \A j \in Slots \ {victim} :
            /\ node'[j].key = nodes[j].key /\ node'[j].value = nodes[j].value
            /\ node'[j].segment = IF j = c THEN "Probation" ELSE nodes[j].segment
  <2>1. PICK m : m = [nodes EXCEPT ![c].segment = "Probation"]
    OBVIOUS
  <2>2. node' = [m EXCEPT ![victim] = ResetNode]
    BY ONLY <1>0, <2>1
  <2>3. "Probation" \in Segments /\ ResetNode \in NodeSet
    BY DEF Segments, ResetNode, NodeSet
  <2>4. /\ m \in [Slots -> NodeSet]
        /\ \A j \in Slots :
              /\ m[j].key = nodes[j].key /\ m[j].value = nodes[j].value
              /\ m[j].segment = IF j = c THEN "Probation" ELSE nodes[j].segment
    BY <1>1, <1>2, <2>1, <2>3, RelabelFacts
  <2>5. /\ node' \in [Slots -> NodeSet]
        /\ node'[victim] = ResetNode
        /\ \A j \in Slots \ {victim} : node'[j] = m[j]
    BY ONLY <1>4, <2>2, <2>3, <2>4
  <2> QED BY ONLY <2>4, <2>5
<1>9. /\ index_map' \in [Keys -> Slots \cup {NoSlot}]
      /\ index_map'[k] = i /\ index_map'[gone] = NoSlot
      /\ \A q \in Keys \ {k, gone} : index_map'[q] = index_map[q]
  BY <1>0, <1>3, <1>6 DEF ListTypes
<1>z. /\ window' = w2 /\ protected' = protected /\ others' = others
      /\ free' = (free \ {i}) \cup {victim} /\ i \in free
  BY <1>0
<1>10. ListTypes'
  BY <1>z, <1>2, <1>3, <1>4, <1>7, <1>8, <1>9 DEF ListTypes
<1>11. ASSUME NEW j \in Slots
      PROVE  /\ j \in Elements(window') <=> node'[j].segment = "Window"
             /\ j \in Elements(probation') <=> node'[j].segment = "Probation"
             /\ j \in Elements(protected') <=> node'[j].segment = "Protected"
             /\ j \in free' \cup others' <=> node'[j].segment = "Free"
             /\ node'[j].segment # "Free" => node'[j].value \in Values
  <2>1. CASE j = victim
    <3>1. node'[j].segment = "Free"
      BY <1>8, <2>1 DEF ResetNode
    <3> QED BY <1>z, <1>2, <1>5, <1>7, <2>1, <3>1
  <2>2. CASE j # victim
    BY <1>z, <1>1, <1>2, <1>7, <1>8, <2>2, InvParts
  <2> QED BY <2>1, <2>2
<1>12. ASSUME NEW q \in Keys, index_map'[q] # NoSlot
      PROVE  index_map'[q] \notin free' \cup others' /\ node'[index_map'[q]].key = q
  <2>0. q # gone
    BY <1>9, <1>12
  <2>1. CASE q = k
    BY <1>z, <1>1, <1>5, <1>8, <1>9, <2>1
  <2>2. CASE q # k
    <3>1. index_map'[q] = index_map[q] /\ index_map[q] \in Slots /\ index_map[q] # NoSlot
      BY <1>3, <1>9, <1>12, <2>0, <2>2 DEF ListTypes
    <3>2. index_map[q] \notin free \cup others /\ node[index_map[q]].key = q
      BY <3>1, InvParts
    <3>3. index_map[q] # victim /\ index_map[q] # i
      BY <1>1, <1>6, <2>0, <3>2
    <3> QED BY <1>z, <1>1, <1>8, <3>1, <3>2, <3>3
  <2> QED BY <2>1, <2>2
<1>13. ASSUME NEW j \in Slots \ (free' \cup others')
      PROVE  node'[j].key \in Keys /\ index_map'[node'[j].key] = j
  <2>0. j # victim
    BY <1>z
  <2>1. CASE j = i
    BY <1>1, <1>8, <1>9, <2>0, <2>1
  <2>2. CASE j # i
    <3>1. j \notin free \cup others /\ node'[j].key = node[j].key
      BY <1>z, <1>1, <1>8, <2>0, <2>2
    <3>2. node[j].key \in Keys /\ index_map[node[j].key] = j /\ node[j].key # k
      BY <1>1, <3>1, InvParts
    <3>3. node[j].key # gone
      BY <1>6, <2>0, <3>2
    <3> QED BY <1>9, <3>1, <3>2, <3>3
  <2> QED BY <2>1, <2>2
<1>14. /\ Len(window') <= WindowCapacity /\ Len(protected') <= ProtectedMost
       /\ Len(probation') + Len(protected') <= MainCapacity
  BY <1>z, <1>2, <1>7, InvParts
<1>15. NoRepeats(window') /\ NoRepeats(probation') /\ NoRepeats(protected') /\ free' \cap others' = {}
  BY <1>z, <1>2, <1>5, <1>7, InvParts
<1> QED BY <1>10, <1>11, <1>12, <1>13, <1>14, <1>15, InvParts, StructureNext

LEMMA PutRejectStructure ==
    ASSUME StripeInv, NEW k \in Keys, NEW v \in Values, NEW i \in Slots,
           PutReject(k, v, i), UNCHANGED total_capacity
    PROVE  ListTypes' /\ Structure'
<1> DEFINE w2 == Front(<<i>> \o window)
           nodes == Inserted(k, v, i)
           c == Candidate(i)
           gone == nodes[c].key
<1>0. /\ i \in free /\ ~ Cached(k)
      /\ window' = w2
      /\ index_map' = [[index_map EXCEPT ![k] = i] EXCEPT ![gone] = NoSlot]
      /\ node' = [nodes EXCEPT ![c] = ResetNode]
      /\ free' = (free \ {i}) \cup {c}
      /\ UNCHANGED <<probation, protected, others>>
  BY DEF PutReject, Fresh, Reindexed
<1>1. /\ node[i].segment = "Free" /\ i \notin others
      /\ i \notin Elements(window) \cup Elements(probation) \cup Elements(protected)
      /\ index_map[k] = NoSlot
      /\ \A j \in Slots \ (free \cup others) : node[j].key # k /\ j # i
      /\ \A q \in Keys : index_map[q] # i
      /\ nodes \in [Slots -> NodeSet]
      /\ \A j \in Slots :
            nodes[j] = IF j = i THEN [key |-> k, value |-> v, segment |-> "Window"] ELSE node[j]
  BY <1>0, FreshFacts DEF FreshSlot
<1>2. /\ w2 \in Seq(Slots) /\ Len(w2) = Len(window) /\ NoRepeats(w2)
      /\ Elements(w2) = (Elements(window) \cup {i}) \ {c}
      /\ c \in Slots /\ c \notin Elements(probation) \cup Elements(protected)
      /\ c \notin (free \ {i}) \cup others
      /\ gone \in Keys
      /\ c = i \/ c \in Elements(window)
  BY <1>0, CandidateFacts DEF FallsOut
<1>3. ListTypes
  BY InvParts
<1>g. gone = nodes[c].key
  OBVIOUS
<1> HIDE DEF w2, nodes, c, gone
<1>5. c # i => /\ c \notin free \cup others
               /\ gone = node[c].key /\ gone # k /\ index_map[gone] = c
  BY <1>g, <1>1, <1>2, InvParts
<1>6. c = i => gone = k
  BY <1>g, <1>1, <1>2
<1>8. /\ node' \in [Slots -> NodeSet]
      /\ node'[c] = ResetNode
      /\ \A j \in Slots \ {c} : node'[j] = nodes[j]
  BY <1>0, <1>1, <1>2 DEF NodeSet, Segments, ResetNode
<1>9. /\ index_map' \in [Keys -> Slots \cup {NoSlot}]
      /\ c # i => index_map'[k] = i
      /\ index_map'[gone] = NoSlot
      /\ \A q \in Keys \ {k, gone} : index_map'[q] = index_map[q]
  BY <1>0, <1>2, <1>3, <1>5 DEF ListTypes
<1>10. ListTypes'
  BY <1>0, <1>2, <1>3, <1>8, <1>9 DEF ListTypes
<1>11. ASSUME NEW j \in Slots
      PROVE  /\ j \in Elements(window') <=> node'[j].segment = "Window"
             /\ j \in Elements(probation') <=> node'[j].segment = "Probation"
             /\ j \in Elements(protected') <=> node'[j].segment = "Protected"
             /\ j \in free' \cup others' <=> node'[j].segment = "Free"
             /\ node'[j].segment # "Free" => node'[j].value \in Values
  <2>1. CASE j = c
    <3>1. node'[j].segment = "Free"
      BY <1>8, <2>1 DEF ResetNode
    <3> QED BY <1>0, <1>2, <2>1, <3>1
  <2>2. CASE j # c
    BY <1>0, <1>1, <1>2, <1>8, <2>2, InvParts
  <2> QED BY <2>1, <2>2
<1>12. ASSUME NEW q \in Keys, index_map'[q] # NoSlot
      PROVE  index_map'[q] \notin free' \cup others' /\ node'[index_map'[q]].key = q
  <2>0. q # gone
    BY <1>9, <1>12
  <2>1. CASE q = k
    BY <1>0, <1>1, <1>6, <1>8, <1>9, <2>0, <2>1
  <2>2. CASE q # k
    <3>1. index_map'[q] = index_map[q] /\ index_map[q] \in Slots /\ index_map[q] # NoSlot
      BY <1>3, <1>9, <1>12, <2>0, <2>2 DEF ListTypes
    <3>2. index_map[q] \notin free \cup others /\ node[index_map[q]].key = q
      BY <3>1, InvParts
    <3>3. index_map[q] # c /\ index_map[q] # i
      BY <1>1, <1>5, <2>0, <3>2
    <3> QED BY <1>0, <1>1, <1>8, <3>1, <3>2, <3>3
  <2> QED BY <2>1, <2>2
<1>13. ASSUME NEW j \in Slots \ (free' \cup others')
      PROVE  node'[j].key \in Keys /\ index_map'[node'[j].key] = j
  <2>0. j # c
    BY <1>0
  <2>1. CASE j = i
    BY <1>1, <1>8, <1>9, <2>0, <2>1
  <2>2. CASE j # i
    <3>1. j \notin free \cup others /\ node'[j] = node[j]
      BY <1>0, <1>1, <1>8, <2>0, <2>2
    <3>2. node[j].key \in Keys /\ index_map[node[j].key] = j /\ node[j].key # k
      BY <1>1, <3>1, InvParts
    <3>3. node[j].key # gone
      BY <1>5, <1>6, <2>0, <3>2
    <3> QED BY <1>9, <3>1, <3>2, <3>3
  <2> QED BY <2>1, <2>2
<1>14. /\ Len(window') <= WindowCapacity /\ Len(protected') <= ProtectedMost
       /\ Len(probation') + Len(protected') <= MainCapacity
  BY <1>0, <1>2, InvParts
<1>15. NoRepeats(window') /\ NoRepeats(probation') /\ NoRepeats(protected') /\ free' \cap others' = {}
  BY <1>0, <1>2, InvParts
<1> QED BY <1>10, <1>11, <1>12, <1>13, <1>14, <1>15, InvParts, StructureNext

LEMMA RemoveKeyStructure ==
    ASSUME StripeInv, NEW k \in Keys, RemoveKey(k), UNCHANGED total_capacity
    PROVE  ListTypes' /\ Structure'
<1> DEFINE i == index_map[k]
<1>0. /\ Cached(k)
      /\ window' = IF node[i].segment = "Window" THEN Unlink(window, i) ELSE window
      /\ probation' = IF node[i].segment = "Probation" THEN Unlink(probation, i) ELSE probation
      /\ protected' = IF node[i].segment = "Protected" THEN Unlink(protected, i) ELSE protected
      /\ index_map' = [index_map EXCEPT ![k] = NoSlot]
      /\ node' = [node EXCEPT ![i] = ResetNode]
      /\ free' = free \cup {i}
      /\ UNCHANGED others
  BY DEF RemoveKey
<1>1. /\ i \in Slots /\ i \notin free \cup others /\ node[i].key = k
      /\ node[i].segment \in {"Window", "Probation", "Protected"}
  BY <1>0, CachedFacts
<1>3. ListTypes
  BY InvParts
<1>i. i = index_map[k]
  OBVIOUS
<1> HIDE DEF i
<1>2. /\ window \in Seq(Slots) /\ probation \in Seq(Slots) /\ protected \in Seq(Slots)
      /\ NoRepeats(window) /\ NoRepeats(probation) /\ NoRepeats(protected)
      /\ i \in Elements(window) <=> node[i].segment = "Window"
      /\ i \in Elements(probation) <=> node[i].segment = "Probation"
      /\ i \in Elements(protected) <=> node[i].segment = "Protected"
  BY <1>1, InvParts DEF ListTypes
<1>4. ASSUME NEW s \in Seq(Slots), NEW t, NoRepeats(s), t = IF i \in Elements(s) THEN Unlink(s, i) ELSE s
      PROVE  t \in Seq(Slots) /\ NoRepeats(t) /\ Elements(t) = Elements(s) \ {i} /\ Len(t) <= Len(s)
  <2>1. CASE i \in Elements(s)
    <3>1. /\ Unlink(s, i) \in Seq(Slots) /\ Len(Unlink(s, i)) = Len(s) - 1
          /\ NoRepeats(Unlink(s, i)) /\ Elements(Unlink(s, i)) = Elements(s) \ {i}
      BY <1>4, <2>1, UnlinkFacts
    <3>2. t = Unlink(s, i) /\ Len(s) \in Nat
      BY <1>4, <2>1
    <3> QED BY <3>1, <3>2
  <2>2. CASE i \notin Elements(s)
    <3>1. t = s /\ Len(s) \in Nat
      BY <1>4, <2>2
    <3> QED BY <1>4, <2>2, <3>1
  <2> QED BY <2>1, <2>2
<1>5. /\ window' \in Seq(Slots) /\ NoRepeats(window') /\ Elements(window') = Elements(window) \ {i}
      /\ Len(window') <= Len(window)
  BY <1>0, <1>2, <1>4
<1>6. /\ probation' \in Seq(Slots) /\ NoRepeats(probation')
      /\ Elements(probation') = Elements(probation) \ {i} /\ Len(probation') <= Len(probation)
  BY <1>0, <1>2, <1>4
<1>7. /\ protected' \in Seq(Slots) /\ NoRepeats(protected')
      /\ Elements(protected') = Elements(protected) \ {i} /\ Len(protected') <= Len(protected)
  BY <1>0, <1>2, <1>4
<1>8. /\ node' \in [Slots -> NodeSet] /\ node'[i] = ResetNode
      /\ \A j \in Slots \ {i} : node'[j] = node[j]
  BY <1>0, <1>1, <1>3 DEF ListTypes, NodeSet, Segments, ResetNode
<1>9. /\ index_map' \in [Keys -> Slots \cup {NoSlot}] /\ index_map'[k] = NoSlot
      /\ \A q \in Keys \ {k} : index_map'[q] = index_map[q]
  BY <1>0, <1>3 DEF ListTypes
<1>10. ListTypes'
  BY <1>0, <1>1, <1>3, <1>5, <1>6, <1>7, <1>8, <1>9 DEF ListTypes
<1>11. ASSUME NEW j \in Slots
      PROVE  /\ j \in Elements(window') <=> node'[j].segment = "Window"
             /\ j \in Elements(probation') <=> node'[j].segment = "Probation"
             /\ j \in Elements(protected') <=> node'[j].segment = "Protected"
             /\ j \in free' \cup others' <=> node'[j].segment = "Free"
             /\ node'[j].segment # "Free" => node'[j].value \in Values
  <2>1. CASE j = i
    <3>1. node'[j].segment = "Free"
      BY <1>8, <2>1 DEF ResetNode
    <3> QED BY <1>0, <1>5, <1>6, <1>7, <2>1, <3>1
  <2>2. CASE j # i
    BY <1>0, <1>5, <1>6, <1>7, <1>8, <2>2, InvParts
  <2> QED BY <2>1, <2>2
<1>12. ASSUME NEW q \in Keys, index_map'[q] # NoSlot
      PROVE  index_map'[q] \notin free' \cup others' /\ node'[index_map'[q]].key = q
  <2>1. q # k /\ index_map'[q] = index_map[q] /\ index_map[q] \in Slots
    BY <1>3, <1>9, <1>12 DEF ListTypes
  <2>2. index_map[q] \notin free \cup others /\ node[index_map[q]].key = q
    BY <1>12, <2>1, InvParts
  <2>3. index_map[q] # i
    BY <1>1, <2>1, <2>2
  <2> QED BY <1>0, <1>8, <2>1, <2>2, <2>3
<1>13. ASSUME NEW j \in Slots \ (free' \cup others')
      PROVE  node'[j].key \in Keys /\ index_map'[node'[j].key] = j
  <2>1. j # i /\ j \notin free \cup others /\ node'[j] = node[j]
    BY <1>0, <1>8
  <2>2. node[j].key \in Keys /\ index_map[node[j].key] = j
    BY <2>1, InvParts
  <2>3. node[j].key # k
    BY <1>i, <2>1, <2>2
  <2> QED BY <1>9, <2>1, <2>2, <2>3
<1>14. /\ Len(window') <= WindowCapacity /\ Len(protected') <= ProtectedMost
       /\ Len(probation') + Len(protected') <= MainCapacity
  <2>1. /\ Len(window) <= WindowCapacity /\ Len(protected) <= ProtectedMost
        /\ Len(probation) + Len(protected) <= MainCapacity
        /\ WindowCapacity \in Nat /\ ProtectedMost \in Nat /\ MainCapacity \in Nat
    BY InvParts, Capacities3
  <2>2. /\ Len(window) \in Nat /\ Len(probation) \in Nat /\ Len(protected) \in Nat
        /\ Len(window') \in Nat /\ Len(probation') \in Nat /\ Len(protected') \in Nat
    BY <1>2, <1>5, <1>6, <1>7
  <2> QED BY <1>5, <1>6, <1>7, <2>1, <2>2
<1>15. NoRepeats(window') /\ NoRepeats(probation') /\ NoRepeats(protected') /\ free' \cap others' = {}
  BY <1>0, <1>1, <1>5, <1>6, <1>7, InvParts
<1> QED BY <1>10, <1>11, <1>12, <1>13, <1>14, <1>15, InvParts, StructureNext

\* Other stripes taking a free slot or giving one back change no list.
LEMMA OthersStructure ==
    ASSUME StripeInv, free' \cup others' = free \cup others, free' \cap others' = {},
           UNCHANGED <<total_capacity, index_map, node, lists>>
    PROVE  ListTypes' /\ Structure'
<1>1. /\ window' = window /\ probation' = probation /\ protected' = protected
      /\ index_map' = index_map /\ node' = node
  BY DEF lists
<1>2. ListTypes'
  <2>1. free' \subseteq Slots /\ others' \subseteq Slots
    BY InvParts DEF ListTypes
  <2> QED BY <1>1, <2>1, InvParts DEF ListTypes
<1> QED BY <1>1, <1>2, InvParts, StructureNext

\* A hit: the nodes keep their keys and only the touched one may change its value.
LEMMA GetHitStructure ==
    ASSUME StripeInv, NEW k \in Keys, GetHit(k), UNCHANGED total_capacity
    PROVE  /\ ListTypes' /\ Structure'
           /\ \A j \in Slots : node'[j].key = node[j].key /\ node'[j].value = node[j].value
<1> DEFINE i == index_map[k]
<1>1. Cached(k) /\ Touch(i, node) /\ UNCHANGED <<total_capacity, index_map, free, others>>
  BY DEF GetHit
<1>2. i \in Slots /\ i \notin free \cup others
  BY <1>1, CachedFacts
<1>3. node \in [Slots -> NodeSet]
  BY InvParts DEF ListTypes
<1> HIDE DEF i
<1> QED BY <1>1, <1>2, <1>3, TouchStructure

LEMMA PutUpdateStructure ==
    ASSUME StripeInv, NEW k \in Keys, NEW v \in Values, PutUpdate(k, v), UNCHANGED total_capacity
    PROVE  /\ ListTypes' /\ Structure'
           /\ \A j \in Slots : /\ node'[j].key = node[j].key
                               /\ node'[j].value = IF j = index_map[k] THEN v ELSE node[j].value
<1> DEFINE i == index_map[k]
           with == [node EXCEPT ![i].value = v]
<1>1. Cached(k) /\ Touch(i, with) /\ UNCHANGED <<total_capacity, index_map, free, others>>
  BY DEF PutUpdate
<1>2. i \in Slots /\ i \notin free \cup others
  BY <1>1, CachedFacts
<1>3. node \in [Slots -> NodeSet]
  BY InvParts DEF ListTypes
<1>i. i = index_map[k]
  OBVIOUS
<1> HIDE DEF i
<1>4. /\ with \in [Slots -> NodeSet]
      /\ \A j \in Slots : /\ with[j].key = node[j].key
                          /\ with[j].segment = node[j].segment
                          /\ with[j].value = IF j = i THEN v ELSE node[j].value
  BY <1>2, <1>3 DEF NodeSet
<1> HIDE DEF with
<1>5. \A j \in Slots : /\ with[j].key = node[j].key
                       /\ with[j].segment = node[j].segment
                       /\ with[j].value = node[j].value \/ (j = i /\ with[j].value \in Values)
  BY <1>4
<1>6. /\ ListTypes' /\ Structure'
      /\ \A j \in Slots : node'[j].key = node[j].key /\ node'[j].value = with[j].value
  BY <1>1, <1>2, <1>4, <1>5, TouchStructure
<1> QED BY <1>i, <1>4, <1>6

-----------------------------------------------------------------------------
(* The invariant is inductive *)

\* The types of the variables outside the lists follow from the sketch's.
LEMMA TypesNext ==
    ASSUME ListTypes', TypeOK, UNCHANGED total_capacity,
           counters' \in Table, ops_since_decay' \in 0 .. DecayInterval - 1,
           demotion_queue' \in BOOLEAN, Structure'
    PROVE  StripeInv'
BY DEF TypeOK, ListTypes, NodeSet, StripeInv

LEMMA StepStripeInv == StripeInv /\ [Next]_vars => StripeInv'
<1> SUFFICES ASSUME StripeInv, [Next]_vars PROVE StripeInv'
  OBVIOUS
<1>t. /\ TypeOK /\ counters \in Table /\ ops_since_decay \in 0 .. DecayInterval - 1
      /\ demotion_queue \in BOOLEAN
  BY DEF StripeInv, TypeOK
<1>1. ASSUME UNCHANGED vars PROVE StripeInv'
  <2>1. /\ total_capacity' = total_capacity /\ free' = free /\ others' = others
        /\ counters' = counters /\ ops_since_decay' = ops_since_decay
        /\ demotion_queue' = demotion_queue
        /\ UNCHANGED <<index_map, node, lists>>
    BY <1>1 DEF vars
  <2>2. ListTypes' /\ Structure'
    BY <2>1, InvParts, OthersStructure
  <2> QED BY <1>t, <2>1, <2>2, TypesNext
<1>2. ASSUME UNCHANGED total_capacity, NEW k \in Keys, GetMiss(k) PROVE StripeInv'
  <2>1. /\ free' = free /\ others' = others
        /\ counters' = counters /\ ops_since_decay' = ops_since_decay
        /\ demotion_queue' = demotion_queue
        /\ UNCHANGED <<index_map, node, lists>>
    BY <1>2 DEF GetMiss
  <2>2. ListTypes' /\ Structure'
    BY <1>2, <2>1, InvParts, OthersStructure
  <2> QED BY <1>t, <1>2, <2>1, <2>2, TypesNext
<1>3. ASSUME UNCHANGED total_capacity, NEW k \in Keys, GetHit(k) PROVE StripeInv'
  <2>1. /\ counters' = Increment(counters, k) /\ ops_since_decay' = ops_since_decay
        /\ demotion_queue' = demotion_queue
    BY <1>3 DEF GetHit
  <2>2. counters' \in Table
    BY <1>t, <2>1, SketchType
  <2> QED BY <1>t, <1>3, <2>1, <2>2, GetHitStructure, TypesNext
<1>4. ASSUME UNCHANGED total_capacity, NEW k \in Keys, RemoveKey(k) PROVE StripeInv'
  <2>1. counters' = counters /\ ops_since_decay' = ops_since_decay /\ demotion_queue' = demotion_queue
    BY <1>4 DEF RemoveKey
  <2> QED BY <1>t, <1>4, <2>1, RemoveKeyStructure, TypesNext
<1>5. ASSUME UNCHANGED total_capacity, NEW w \in Writes, Put(w[1], w[2]) PROVE StripeInv'
  <2> DEFINE k == w[1]
             v == w[2]
  <2>1. k \in Keys /\ v \in Values
    BY WritesAssumption
  <2>2. Put(k, v)
    BY <1>5
  <2> HIDE DEF k, v
  <2>3. ASSUME PutUpdate(k, v) PROVE StripeInv'
    <3>1. CountPut(k) /\ demotion_queue' = demotion_queue
      BY <2>3 DEF PutUpdate
    <3>2. ListTypes' /\ Structure'
      BY <1>5, <2>1, <2>3, PutUpdateStructure
    <3> QED BY <1>t, <1>5, <2>1, <3>1, <3>2, CountPutType, TypesNext
  <2>4. ASSUME PutNoSlot(k, v) PROVE StripeInv'
    <3>1. /\ CountPut(k) /\ demotion_queue' = demotion_queue
          /\ free' = free /\ others' = others /\ UNCHANGED <<index_map, node, lists>>
      BY <2>4 DEF PutNoSlot
    <3>2. ListTypes' /\ Structure'
      BY <1>5, <3>1, InvParts, OthersStructure
    <3> QED BY <1>t, <1>5, <2>1, <3>1, <3>2, CountPutType, TypesNext
  <2>5. ASSUME NEW i \in Slots, PutNew(k, v, i) PROVE StripeInv'
    <3>1. Fresh(k, i)
      BY <2>5 DEF PutNew, PutIntoWindow, PutAdmitFree, PutAdmitEvict, PutReject
    <3>2. CountPut(k) /\ demotion_queue' = demotion_queue
      BY <3>1 DEF Fresh
    <3>3. ListTypes' /\ Structure'
      BY <1>5, <2>1, <2>5, PutIntoWindowStructure, PutAdmitFreeStructure,
         PutAdmitEvictStructure, PutRejectStructure DEF PutNew
    <3> QED BY <1>t, <1>5, <2>1, <3>2, <3>3, CountPutType, TypesNext
  <2> QED BY <2>2, <2>3, <2>4, <2>5 DEF Put
<1>6. ASSUME UNCHANGED total_capacity, SetDemotionQueue PROVE StripeInv'
  <2>1. /\ free' = free /\ others' = others
        /\ counters' = counters /\ ops_since_decay' = ops_since_decay
        /\ demotion_queue' = ~ demotion_queue
        /\ UNCHANGED <<index_map, node, lists>>
    BY <1>6 DEF SetDemotionQueue
  <2>2. ListTypes' /\ Structure'
    BY <1>6, <2>1, InvParts, OthersStructure
  <2>3. demotion_queue' \in BOOLEAN
    BY <2>1, Zenon
  <2> QED BY <1>t, <1>6, <2>1, <2>2, <2>3, TypesNext
<1>7. ASSUME UNCHANGED total_capacity, NEW i \in Slots, OthersAllocate(i) \/ OthersDeallocate(i)
      PROVE  StripeInv'
  <2>1. /\ counters' = counters /\ ops_since_decay' = ops_since_decay
        /\ demotion_queue' = demotion_queue
        /\ UNCHANGED <<index_map, node, lists>>
    BY <1>7 DEF OthersAllocate, OthersDeallocate
  <2>2. free' \cup others' = free \cup others /\ free' \cap others' = {}
    BY <1>7, InvParts DEF OthersAllocate, OthersDeallocate
  <2>3. ListTypes' /\ Structure'
    BY <1>7, <2>1, <2>2, OthersStructure
  <2> QED BY <1>t, <1>7, <2>1, <2>3, TypesNext
<1> QED BY <1>1, <1>2, <1>3, <1>4, <1>5, <1>6, <1>7 DEF Next

\* Every reachable state of a stripe has the invariant.
LEMMA AlwaysStripeInv == Spec => []StripeInv
<1>1. Init => StripeInv
  BY InitStripeInv
<1>2. StripeInv /\ [Next]_vars => StripeInv'
  BY StepStripeInv
<1> QED BY <1>1, <1>2, PTL DEF Spec

\* The slots of a stripe are where their marks say, for any capacity, any
\* sketch and any use of the slab by other stripes: get, put, remove and the
\* moves between segments neither leak a slot nor link it twice.
THEOREM StripeSlotsPlaced == Spec => []SlotsPlaced
<1>1. StripeInv => SlotsPlaced
  BY DEF StripeInv, Structure
<1> QED BY <1>1, AlwaysStripeInv, PTL

\* index_map_ and the nodes' keys agree in both directions after every operation.
THEOREM StripeIndexAgrees == Spec => []IndexAgrees
<1>1. StripeInv => IndexAgrees
  BY DEF StripeInv, Structure
<1> QED BY <1>1, AlwaysStripeInv, PTL

\* For every total_capacity of at least 3 and all percentages from 0 to 100, the
\* window and protected (one slot when its capacity is 0) are within their
\* capacities between operations, the main segments together within theirs, and
\* a full main cache always has a victim in probation for try_admit_from_window.
\* It sets no limit on probation alone, and neither does the code.
THEOREM StripeWithinCapacity == Spec => []WithinCapacity
<1>1. StripeInv => WithinCapacity
  BY DEF StripeInv, Structure
<1> QED BY <1>1, AlwaysStripeInv, PTL

-----------------------------------------------------------------------------
(* What a put of a new key costs *)

\* Slot i now holds k and the key gone is lost to the window key winner.
Displaces(k, v, i, winner, gone) ==
    /\ ~ Cached(k) /\ Cached(gone) /\ gone # k
    /\ node[index_map[gone]].segment = "Probation"
    /\ MainSize >= MainCapacity
    /\ index_map'[k] = i /\ index_map'[gone] = NoSlot
    /\ \A q \in Keys \ {k, gone} : index_map'[q] = index_map[q]
    /\ node'[i].value = v
    /\ \A j \in Slots \ {i, index_map[gone]} : node'[j].value = node[j].value
    /\ index_map'[winner] # NoSlot /\ node'[index_map'[winner]].segment = "Probation"
    /\ ~ Cached(winner) \/ node[index_map[winner]].segment = "Window"
    /\ Estimate(counters', winner) > Estimate(counters', gone)
    /\ out'.demoted = IF demotion_queue
                      THEN [key |-> gone, value |-> node[index_map[gone]].value,
                            frequency |-> Estimate(counters', gone)]
                      ELSE NoItem
    /\ out'.request = Item(k, v) /\ out'.ret = NoValue

\* The candidate wins: one probation key, with a smaller estimate, goes.
LEMMA AdmitEvictFacts ==
    ASSUME StripeInv, NEW k \in Keys, NEW v \in Values, NEW i \in Slots, PutAdmitEvict(k, v, i)
    PROVE  \E winner \in Keys, gone \in Keys : Displaces(k, v, i, winner, gone)
<1> DEFINE nodes == Inserted(k, v, i)
           c == Candidate(i)
           victim == Last(probation)
           gone == nodes[victim].key
           winner == nodes[c].key
<1>0. /\ i \in free /\ ~ Cached(k)
      /\ MainSize >= MainCapacity
      /\ probation # <<>>
      /\ Estimate(counters', winner) > Estimate(counters', gone)
      /\ index_map' = [[index_map EXCEPT ![k] = i] EXCEPT ![gone] = NoSlot]
      /\ node' = [nodes EXCEPT ![c].segment = "Probation", ![victim] = ResetNode]
      /\ out' = Demotion(k, v, nodes[victim])
  BY DEF PutAdmitEvict, Fresh, Reindexed, MainFull, Beats
<1>f. i \in free /\ ~ Cached(k)
  BY <1>0
<1>f1. FreshSlot(k, v, i)
  BY <1>f, FreshFacts
<1>f2. FallsOut(k, v, i)
  BY <1>f, CandidateFacts
<1>1. /\ node[i].segment = "Free"
      /\ i \notin Elements(window) \cup Elements(probation) \cup Elements(protected)
      /\ index_map[k] = NoSlot
      /\ \A j \in Slots \ (free \cup others) : node[j].key # k /\ j # i
      /\ \A q \in Keys : index_map[q] # i
      /\ nodes \in [Slots -> NodeSet]
      /\ \A j \in Slots :
            nodes[j] = IF j = i THEN [key |-> k, value |-> v, segment |-> "Window"] ELSE node[j]
  BY <1>f1 DEF FreshSlot
<1>2. /\ c \in Slots /\ c \notin Elements(probation) \cup Elements(protected)
      /\ nodes[c].segment = "Window" /\ winner \in Keys
      /\ c = i \/ c \in Elements(window)
  BY <1>f2 DEF FallsOut
<1>3. /\ ListTypes /\ probation \in Seq(Slots) /\ NoRepeats(probation)
  BY InvParts DEF ListTypes
<1>4. victim \in Elements(probation) /\ victim \in Slots
  BY <1>0, <1>3, FrontFacts
<1>5. /\ out'.demoted = IF demotion_queue
                        THEN [key |-> gone, value |-> nodes[victim].value,
                              frequency |-> Estimate(counters', gone)]
                        ELSE NoItem
      /\ out'.request = Item(k, v) /\ out'.ret = NoValue
  BY <1>0 DEF Demotion, Quiet
<1>g. gone = nodes[victim].key /\ winner = nodes[c].key
  OBVIOUS
<1> HIDE DEF nodes, c, victim, gone, winner
<1>6. /\ node[victim].segment = "Probation" /\ victim \notin free \cup others
      /\ victim # c /\ victim # i /\ nodes[victim] = node[victim]
  BY <1>1, <1>2, <1>4, InvParts
<1>7. gone = node[victim].key /\ gone \in Keys /\ gone # k /\ index_map[gone] = victim
  BY <1>g, <1>1, <1>4, <1>6, InvParts
<1>8. /\ index_map'[k] = i /\ index_map'[gone] = NoSlot
      /\ \A q \in Keys \ {k, gone} : index_map'[q] = index_map[q]
  BY <1>0, <1>3, <1>7 DEF ListTypes
<1>9. /\ \A j \in Slots \ {victim} : node'[j].value = nodes[j].value
      /\ node'[c].segment = "Probation"
  BY <1>0, <1>1, <1>2, <1>4, <1>6 DEF NodeSet
<1>10. /\ node'[i].value = v
       /\ \A j \in Slots \ {i, victim} : node'[j].value = node[j].value
  BY <1>1, <1>6, <1>9
<1>11. /\ index_map'[winner] = c
       /\ ~ Cached(winner) \/ node[index_map[winner]].segment = "Window"
  <2>1. CASE c = i
    BY <1>g, <1>0, <1>1, <1>8, <2>1
  <2>2. CASE c # i
    <3>1. c \in Elements(window) /\ nodes[c] = node[c] /\ node[c].segment = "Window"
      BY <1>1, <1>2, <2>2
    <3>2. c \notin free \cup others
      BY <1>2, <3>1, InvParts
    <3>3. index_map[winner] = c /\ winner # k
      BY <1>g, <1>1, <1>2, <3>1, <3>2, InvParts
    <3>4. winner # gone
      BY <1>6, <1>7, <3>3
    <3> QED BY <1>2, <1>8, <3>1, <3>3, <3>4
  <2> QED BY <2>1, <2>2
<1>12. Cached(gone) /\ c # NoSlot
  BY <1>2, <1>4, <1>7, DistinctAssumption DEF Cached
<1>13. winner \in Keys /\ gone \in Keys
  BY <1>2, <1>7
<1> USE <1>13
<1> WITNESS winner \in Keys, gone \in Keys
<1> QED BY <1>0, <1>5, <1>6, <1>7, <1>8, <1>9, <1>10, <1>11, <1>12 DEF Displaces

\* The candidate loses: the key of the window's least recently used slot goes,
\* which is the new key itself when the window has no room at all.
LEMMA RejectFacts ==
    ASSUME StripeInv, NEW k \in Keys, NEW v \in Values, NEW i \in Slots, PutReject(k, v, i)
    PROVE  /\ ~ Cached(k) /\ MainSize >= MainCapacity
           /\ out'.demoted = NoItem /\ out'.request = Item(k, v) /\ out'.ret = NoValue
           /\ \/ /\ \A q \in Keys : index_map'[q] = index_map[q]
                 /\ \A j \in Slots \ {i} : node'[j] = node[j]
                 /\ \A q \in Keys : index_map[q] # i
              \/ \E gone \in Keys :
                   /\ Cached(gone) /\ gone # k
                   /\ node[index_map[gone]].segment = "Window"
                   /\ index_map'[k] = i /\ index_map'[gone] = NoSlot
                   /\ \A q \in Keys \ {k, gone} : index_map'[q] = index_map[q]
                   /\ node'[i].value = v
                   /\ \A j \in Slots \ {i, index_map[gone]} : node'[j].value = node[j].value
<1> DEFINE nodes == Inserted(k, v, i)
           c == Candidate(i)
           gone == nodes[c].key
<1>0. /\ i \in free /\ ~ Cached(k)
      /\ MainSize >= MainCapacity
      /\ index_map' = [[index_map EXCEPT ![k] = i] EXCEPT ![gone] = NoSlot]
      /\ node' = [nodes EXCEPT ![c] = ResetNode]
      /\ out' = [Quiet(Item(k, v)) EXCEPT !.rejections = 1]
  BY DEF PutReject, Fresh, Reindexed, MainFull
<1>f. i \in free /\ ~ Cached(k)
  BY <1>0
<1>f1. FreshSlot(k, v, i)
  BY <1>f, FreshFacts
<1>f2. FallsOut(k, v, i)
  BY <1>f, CandidateFacts
<1>1. /\ node[i].segment = "Free"
      /\ i \notin Elements(window) \cup Elements(probation) \cup Elements(protected)
      /\ index_map[k] = NoSlot
      /\ \A j \in Slots \ (free \cup others) : node[j].key # k /\ j # i
      /\ \A q \in Keys : index_map[q] # i
      /\ nodes \in [Slots -> NodeSet]
      /\ \A j \in Slots :
            nodes[j] = IF j = i THEN [key |-> k, value |-> v, segment |-> "Window"] ELSE node[j]
  BY <1>f1 DEF FreshSlot
<1>2. c \in Slots /\ gone \in Keys /\ (c = i \/ c \in Elements(window))
  BY <1>f2 DEF FallsOut
<1>3. ListTypes
  BY InvParts
<1>g. gone = nodes[c].key
  OBVIOUS
<1>4. out'.demoted = NoItem /\ out'.request = Item(k, v) /\ out'.ret = NoValue
  BY <1>0 DEF Quiet
<1> HIDE DEF nodes, c, gone
<1>5. \A j \in Slots \ {c} : node'[j] = nodes[j]
  BY <1>0, <1>1, <1>2
<1>6. ASSUME c = i
      PROVE  /\ \A q \in Keys : index_map'[q] = index_map[q]
             /\ \A j \in Slots \ {i} : node'[j] = node[j]
             /\ \A q \in Keys : index_map[q] # i
  <2>1. gone = k
    BY <1>g, <1>1, <1>6
  <2>2. \A q \in Keys : index_map'[q] = index_map[q]
    BY <1>0, <1>1, <1>3, <2>1 DEF ListTypes
  <2> QED BY <1>1, <1>5, <1>6, <2>2
<1>7. ASSUME c # i
      PROVE  /\ Cached(gone) /\ gone # k
             /\ node[index_map[gone]].segment = "Window"
             /\ index_map'[k] = i /\ index_map'[gone] = NoSlot
             /\ \A q \in Keys \ {k, gone} : index_map'[q] = index_map[q]
             /\ node'[i].value = v
             /\ \A j \in Slots \ {i, index_map[gone]} : node'[j].value = node[j].value
  <2>1. node[c].segment = "Window" /\ nodes[c] = node[c] /\ c \notin free \cup others
    BY <1>1, <1>2, <1>7, InvParts
  <2>2. gone # k /\ index_map[gone] = c
    BY <1>g, <1>1, <1>2, <2>1, InvParts
  <2>3. Cached(gone)
    BY <1>2, <2>2, DistinctAssumption DEF Cached
  <2>4. /\ index_map'[k] = i /\ index_map'[gone] = NoSlot
        /\ \A q \in Keys \ {k, gone} : index_map'[q] = index_map[q]
    BY <1>0, <1>2, <1>3, <2>2 DEF ListTypes
  <2>5. /\ node'[i].value = v
        /\ \A j \in Slots \ {i, c} : node'[j].value = node[j].value
    BY <1>1, <1>5, <1>7
  <2> QED BY <2>1, <2>2, <2>3, <2>4, <2>5
<1> QED BY <1>0, <1>2, <1>4, <1>6, <1>7

\* There is room: nothing goes.
LEMMA RoomFacts ==
    ASSUME StripeInv, NEW k \in Keys, NEW v \in Values, NEW i \in Slots,
           PutIntoWindow(k, v, i) \/ PutAdmitFree(k, v, i)
    PROVE  /\ ~ Cached(k) /\ index_map'[k] = i
           /\ \A q \in Keys \ {k} : index_map'[q] = index_map[q] /\ index_map[q] # i
           /\ node'[i].value = v
           /\ \A j \in Slots \ {i} : node'[j].value = node[j].value
           /\ out'.demoted = NoItem /\ out'.request = Item(k, v) /\ out'.ret = NoValue
<1> DEFINE nodes == Inserted(k, v, i)
           c == Candidate(i)
<1>0. /\ i \in free /\ ~ Cached(k)
      /\ index_map' = [index_map EXCEPT ![k] = i]
      /\ node' = nodes \/ node' = [nodes EXCEPT ![c].segment = "Probation"]
      /\ out' = Quiet(Item(k, v)) \/ out' = [Quiet(Item(k, v)) EXCEPT !.admissions = 1]
  BY DEF PutIntoWindow, PutAdmitFree, Fresh
<1>f. i \in free /\ ~ Cached(k)
  BY <1>0
<1>f1. FreshSlot(k, v, i)
  BY <1>f, FreshFacts
<1>f2. FallsOut(k, v, i)
  BY <1>f, CandidateFacts
<1>1. /\ \A q \in Keys : index_map[q] # i
      /\ nodes \in [Slots -> NodeSet]
      /\ \A j \in Slots :
            nodes[j] = IF j = i THEN [key |-> k, value |-> v, segment |-> "Window"] ELSE node[j]
  BY <1>f1 DEF FreshSlot
<1>2. c \in Slots
  BY <1>f2 DEF FallsOut
<1>3. index_map \in [Keys -> Slots \cup {NoSlot}]
  BY InvParts DEF ListTypes
<1>4. out'.demoted = NoItem /\ out'.request = Item(k, v) /\ out'.ret = NoValue
  BY <1>0 DEF Quiet
<1> HIDE DEF nodes, c
<1>5. \A j \in Slots : node'[j].value = nodes[j].value
  BY <1>0, <1>1, <1>2 DEF NodeSet
<1>6. node'[i].value = v /\ \A j \in Slots \ {i} : node'[j].value = node[j].value
  BY <1>1, <1>5
<1>7. index_map'[k] = i /\ \A q \in Keys \ {k} : index_map'[q] = index_map[q]
  BY <1>0, <1>3
<1> QED BY <1>0, <1>1, <1>4, <1>6, <1>7

\* The operations that leave the index alone lose no key.
LEMMA KeepsIndex ==
    ASSUME UNCHANGED index_map
    PROVE  Listed \ Listed' = {}
BY DEF Listed, Cached

\* The other steps: a key is lost only by its own removal or by the outcome of
\* the admission gate.
LEMMA LosesOnlyByGate ==
    ASSUME StripeInv, [Next]_vars
    PROVE  \/ Listed \ Listed' = {}
           \/ \E k \in Keys : RemoveKey(k) /\ Listed \ Listed' \subseteq {k}
           \/ \E k \in Keys, v \in Values, i \in Slots : PutAdmitEvict(k, v, i) \/ PutReject(k, v, i)
<1> DEFINE Goal == \/ Listed \ Listed' = {}
                   \/ \E k \in Keys : RemoveKey(k) /\ Listed \ Listed' \subseteq {k}
                   \/ \E k \in Keys, v \in Values, i \in Slots :
                         PutAdmitEvict(k, v, i) \/ PutReject(k, v, i)
<1>1. ASSUME UNCHANGED index_map PROVE Goal
  BY <1>1, KeepsIndex
<1>2. ASSUME NEW k \in Keys, RemoveKey(k) PROVE Goal
  <2>1. index_map \in [Keys -> Slots \cup {NoSlot}] /\ index_map' = [index_map EXCEPT ![k] = NoSlot]
    BY <1>2, InvParts DEF ListTypes, RemoveKey
  <2>2. Listed \ Listed' \subseteq {k}
    BY <2>1 DEF Listed, Cached
  <2> QED BY <1>2, <2>2
<1>3. ASSUME NEW k \in Keys, NEW v \in Values, Put(k, v) PROVE Goal
  <2>1. ASSUME PutUpdate(k, v) \/ PutNoSlot(k, v) PROVE Goal
    BY <1>1, <2>1 DEF PutUpdate, PutNoSlot
  <2>2. ASSUME NEW i \in Slots, PutIntoWindow(k, v, i) \/ PutAdmitFree(k, v, i) PROVE Goal
    <3>1. /\ ~ Cached(k) /\ index_map'[k] = i
          /\ \A q \in Keys \ {k} : index_map'[q] = index_map[q]
      BY <2>2, RoomFacts
    <3>2. Listed \ Listed' = {}
      BY <3>1 DEF Listed, Cached
    <3> QED BY <3>2
  <2> QED BY <1>3, <2>1, <2>2 DEF Put, PutNew
<1>4. ASSUME NEW w \in Writes, Put(w[1], w[2]) PROVE Goal
  <2>1. w[1] \in Keys /\ w[2] \in Values
    BY WritesAssumption
  <2> QED BY <1>3, <1>4, <2>1
<1>5. CASE UNCHANGED vars
  BY <1>1, <1>5 DEF vars
<1>6. CASE Next
  <2>1. ASSUME NEW k \in Keys, GetMiss(k) \/ GetHit(k) PROVE Goal
    BY <1>1, <2>1 DEF GetMiss, GetHit
  <2>2. ASSUME SetDemotionQueue PROVE Goal
    BY <1>1, <2>2 DEF SetDemotionQueue
  <2>3. ASSUME NEW i \in Slots, OthersAllocate(i) \/ OthersDeallocate(i) PROVE Goal
    BY <1>1, <2>3 DEF OthersAllocate, OthersDeallocate
  <2> HIDE DEF Goal
  <2>4. Goal
    BY <1>2, <1>4, <1>6, <2>1, <2>2, <2>3 DEF Next
  <2> QED BY <2>4 DEF Goal
<1> QED BY <1>5, <1>6

LEMMA StepEvicts ==
    ASSUME StripeInv, [Next]_vars, NEW k \in Listed \ Listed', ~ RemoveKey(k)
    PROVE  /\ Listed \ Listed' = {k}
           /\ MainSize = MainCapacity
           /\ node[index_map[k]].segment # "Protected"
<1>1. PICK q \in Keys, v \in Values, i \in Slots : PutAdmitEvict(q, v, i) \/ PutReject(q, v, i)
  <2>1. ASSUME NEW q \in Keys, RemoveKey(q), Listed \ Listed' \subseteq {q} PROVE FALSE
    <3>1. q = k
      BY <2>1
    <3> QED BY <2>1, <3>1
  <2> QED BY <2>1, LosesOnlyByGate
<1>2. i # NoSlot
  BY DistinctAssumption
<1>3. MainSize >= MainCapacity => MainSize = MainCapacity
  <2>1. /\ MainSize <= MainCapacity /\ MainCapacity \in Nat
        /\ probation \in Seq(Slots) /\ protected \in Seq(Slots)
    BY InvParts, Capacities3 DEF MainSize, ListTypes
  <2>2. MainSize \in Nat
    BY <2>1 DEF MainSize
  <2> QED BY <2>1, <2>2
<1>4. CASE PutAdmitEvict(q, v, i)
  <2>1. PICK winner \in Keys, gone \in Keys : Displaces(q, v, i, winner, gone)
    BY <1>4, AdmitEvictFacts
  <2>1d. /\ Cached(gone) /\ gone # q /\ node[index_map[gone]].segment = "Probation"
         /\ MainSize >= MainCapacity
         /\ index_map'[q] = i /\ index_map'[gone] = NoSlot
         /\ \A p \in Keys \ {q, gone} : index_map'[p] = index_map[p]
         /\ node'[i].value = v
         /\ index_map'[winner] # NoSlot /\ node'[index_map'[winner]].segment = "Probation"
         /\ Estimate(counters', winner) > Estimate(counters', gone)
    BY <2>1 DEF Displaces
  <2>2. Listed \ Listed' = {gone}
    BY <1>2, <2>1d DEF Listed, Cached
  <2> QED BY <1>3, <2>1d, <2>2
<1>5. CASE PutReject(q, v, i)
  <2>1. MainSize >= MainCapacity
    BY <1>5, RejectFacts
  <2>2. ASSUME \A p \in Keys : index_map'[p] = index_map[p] PROVE FALSE
    BY <2>2 DEF Listed, Cached
  <2>3. PICK gone \in Keys :
            /\ Cached(gone) /\ gone # q /\ node[index_map[gone]].segment = "Window"
            /\ index_map'[q] = i /\ index_map'[gone] = NoSlot
            /\ \A p \in Keys \ {q, gone} : index_map'[p] = index_map[p]
    BY <1>5, <2>2, RejectFacts
  <2>4. Listed \ Listed' = {gone}
    BY <1>2, <2>3 DEF Listed, Cached
  <2> QED BY <1>3, <2>1, <2>3, <2>4
<1> QED BY <1>1, <1>4, <1>5

\* A stripe of any size gives a key up on its own account only when its main
\* segments are full, one key per put, and never a protected one.
THEOREM StripeEvictsOnlyUnderPressure == Spec => EvictsOnlyUnderPressure
<1>1. ASSUME StripeInv, [Next]_vars
      PROVE  [LET lost == Listed \ Listed'
              IN \A k \in lost :
                   ~ RemoveKey(k) =>
                       /\ lost = {k}
                       /\ MainSize = MainCapacity
                       /\ node[index_map[k]].segment # "Protected"]_vars
  BY <1>1, StepEvicts
<1> QED BY <1>1, AlwaysStripeInv, PTL DEF Spec, EvictsOnlyUnderPressure

LEMMA StepGate ==
    ASSUME StripeInv, [Next]_vars, NEW k \in Listed \ Listed',
           ~ RemoveKey(k), node[index_map[k]].segment = "Probation"
    PROVE  /\ \E j \in Listed' :
                 /\ node'[index_map'[j]].segment = "Probation"
                 /\ ~ Cached(j) \/ node[index_map[j]].segment = "Window"
                 /\ Estimate(counters', j) > Estimate(counters', k)
           /\ demotion_queue =>
                 out'.demoted = [key |-> k, value |-> node[index_map[k]].value,
                                 frequency |-> Estimate(counters', k)]
<1>1. PICK q \in Keys, v \in Values, i \in Slots : PutAdmitEvict(q, v, i) \/ PutReject(q, v, i)
  <2>1. ASSUME NEW q \in Keys, RemoveKey(q), Listed \ Listed' \subseteq {q} PROVE FALSE
    <3>1. q = k
      BY <2>1
    <3> QED BY <2>1, <3>1
  <2> QED BY <2>1, LosesOnlyByGate
<1>k. k \in Keys /\ index_map[k] # NoSlot /\ index_map'[k] = NoSlot
  BY DEF Listed, Cached
<1>2. i # NoSlot
  BY DistinctAssumption
<1>3. ASSUME PutReject(q, v, i) PROVE FALSE
  <2>1. ASSUME \A p \in Keys : index_map'[p] = index_map[p] PROVE FALSE
    BY <1>k, <2>1
  <2>2. PICK gone \in Keys :
            /\ node[index_map[gone]].segment = "Window"
            /\ index_map'[q] = i /\ index_map'[gone] = NoSlot
            /\ \A p \in Keys \ {q, gone} : index_map'[p] = index_map[p]
    BY <1>3, <2>1, RejectFacts
  <2>3. k = gone
    BY <1>k, <1>2, <2>2
  <2> QED BY <2>2, <2>3
<1>4. PICK winner \in Keys, gone \in Keys : Displaces(q, v, i, winner, gone)
  BY <1>1, <1>3, AdmitEvictFacts
<1>4d. /\ index_map'[q] = i /\ index_map'[gone] = NoSlot
       /\ \A p \in Keys \ {q, gone} : index_map'[p] = index_map[p]
       /\ index_map'[winner] # NoSlot /\ node'[index_map'[winner]].segment = "Probation"
       /\ ~ Cached(winner) \/ node[index_map[winner]].segment = "Window"
       /\ Estimate(counters', winner) > Estimate(counters', gone)
       /\ out'.demoted = IF demotion_queue
                         THEN [key |-> gone, value |-> node[index_map[gone]].value,
                               frequency |-> Estimate(counters', gone)]
                         ELSE NoItem
  BY <1>4 DEF Displaces
<1>5. k = gone
  BY <1>k, <1>2, <1>4d
<1>6. winner \in Listed'
  BY <1>4d DEF Listed, Cached
<1> QED BY <1>4d, <1>5, <1>6

\* The admission gate of a stripe with any sketch: a probation key goes only for
\* a window key with a strictly greater estimate, and the demotion queue is
\* handed the key that goes, its value and its estimate.
THEOREM StripeGateIsStrict == Spec => GateIsStrict
<1>1. ASSUME StripeInv, [Next]_vars
      PROVE  [\A k \in Listed \ Listed' :
                ~ RemoveKey(k) /\ node[index_map[k]].segment = "Probation" =>
                    /\ \E j \in Listed' :
                          /\ node'[index_map'[j]].segment = "Probation"
                          /\ ~ Cached(j) \/ node[index_map[j]].segment = "Window"
                          /\ Estimate(counters', j) > Estimate(counters', k)
                    /\ demotion_queue =>
                          out'.demoted = [key |-> k, value |-> node[index_map[k]].value,
                                          frequency |-> Estimate(counters', k)]]_vars
  BY <1>1, StepGate
<1> QED BY <1>1, AlwaysStripeInv, PTL DEF Spec, GateIsStrict

-----------------------------------------------------------------------------
(* A stripe implements L1Cache *)

\* A cached key has a value and an absent one has none.
LEMMA ContentsFacts ==
    ASSUME StripeInv
    PROVE  /\ Contents = [k \in Keys |-> Contents[k]]
           /\ \A k \in Keys : /\ Cached(k) => /\ Contents[k] = node[index_map[k]].value
                                              /\ Contents[k] \in Values
                              /\ ~ Cached(k) => Contents[k] = NoValue
                              /\ Contents[k] = NoValue <=> ~ Cached(k)
<1>1. \A k \in Keys : Contents[k] = IF Cached(k) THEN node[index_map[k]].value ELSE NoValue
  BY DEF Contents
<1>2. Contents = [k \in Keys |-> Contents[k]]
  BY DEF Contents
<1>3. \A k \in Keys : Cached(k) => node[index_map[k]].value \in Values
  BY CachedFacts
<1> QED BY <1>1, <1>2, <1>3, DistinctAssumption

\* Contents after a step, key by key.
LEMMA ContentsNext ==
    /\ Contents' = [k \in Keys |-> Contents'[k]]
    /\ \A k \in Keys : Contents'[k] = IF index_map'[k] # NoSlot THEN node'[index_map'[k]].value
                                      ELSE NoValue
BY DEF Contents, Cached

\* A step that leaves every key's slot and value alone leaves the map alone.
LEMMA SameContents ==
    ASSUME StripeInv, \A k \in Keys : index_map'[k] = index_map[k],
           \A k \in Keys : Cached(k) => node'[index_map[k]].value = node[index_map[k]].value
    PROVE  Contents' = Contents
<1>1. \A k \in Keys : Contents'[k] = Contents[k]
  BY ContentsNext, ContentsFacts DEF Cached
<1> QED BY <1>1, ContentsNext, ContentsFacts, Zenon

LEMMA NothingHanded ==
    ASSUME out'.demoted = NoItem
    PROVE  Handed' = NoItem
BY DEF Handed

\* A put of a new key that costs another one.
LEMMA ReplaceContents ==
    ASSUME StripeInv, NEW k \in Keys, NEW gone \in Keys, NEW v \in Values, NEW i \in Slots,
           Cached(gone), gone # k, index_map'[k] = i, index_map'[gone] = NoSlot,
           \A q \in Keys \ {k, gone} : index_map'[q] = index_map[q],
           \A q \in Keys : index_map[q] # i,
           node'[i].value = v,
           \A j \in Slots \ {i, index_map[gone]} : node'[j].value = node[j].value
    PROVE  Contents' = [Contents EXCEPT ![k] = v, ![gone] = NoValue]
<1>1. Contents'[k] = v /\ Contents'[gone] = NoValue
  BY ContentsNext, DistinctAssumption
<1>2. ASSUME NEW q \in Keys \ {k, gone} PROVE Contents'[q] = Contents[q]
  <2>1. CASE Cached(q)
    <3>1. index_map[q] \in Slots /\ node[index_map[q]].key = q /\ node[index_map[gone]].key = gone
      BY <2>1, CachedFacts
    <3>2. index_map[q] # index_map[gone]
      BY <3>1
    <3>3. node'[index_map[q]].value = node[index_map[q]].value
      BY <3>1, <3>2
    <3> QED BY <1>2, <2>1, <3>3, ContentsNext, ContentsFacts DEF Cached
  <2>2. CASE ~ Cached(q)
    BY <1>2, <2>2, ContentsNext, ContentsFacts DEF Cached
  <2> QED BY <2>1, <2>2
<1>3. Contents' = [q \in Keys |-> Contents'[q]] /\ Contents = [q \in Keys |-> Contents[q]]
  BY ContentsNext, ContentsFacts
<1> HIDE DEF Contents
<1>4. [Contents EXCEPT ![k] = v, ![gone] = NoValue]
        = [q \in Keys |-> IF q = gone THEN NoValue ELSE IF q = k THEN v ELSE Contents[q]]
  BY <1>3
<1>5. \A q \in Keys : Contents'[q] = IF q = gone THEN NoValue ELSE IF q = k THEN v ELSE Contents[q]
  BY <1>1, <1>2
<1> QED BY <1>3, <1>4, <1>5

\* Every step of a stripe is a step of the map, or leaves it alone.
LEMMA StepImplements ==
    ASSUME StripeInv, StripeInv', [Next]_vars
    PROVE  [L1!Next]_<<Contents, out.request, Handed, out.ret>>
<1> DEFINE Goal == [L1!Next]_<<Contents, out.request, Handed, out.ret>>
<1>0. /\ L1!Next <=> \/ \E k \in Keys : L1!Get(k) \/ L1!Remove(k) \/ \E v \in Values : L1!Put(k, v)
                     \/ L1!Attach
      /\ \A k \in Keys, v \in Values :
            L1!Put(k, v) <=> /\ out'.request = Item(k, v) /\ out'.ret = NoValue
                             /\ L1!Store(k, v) \/ L1!Refuse(k) \/ \E j \in Keys : L1!Replace(k, v, j)
      /\ L1!Next => Goal
  BY DEF L1!Next, L1!Put, L1!Item, Item
<1>1. ASSUME UNCHANGED vars PROVE Goal
  <2>1. index_map' = index_map /\ node' = node /\ out' = out
    BY <1>1 DEF vars
  <2>2. Contents' = Contents
    BY <2>1, SameContents
  <2>3. Handed' = Handed
    BY <2>1 DEF Handed
  <2> QED BY <2>1, <2>2, <2>3
<1>2. ASSUME UNCHANGED <<index_map, node>>, out' = Quiet(NoItem) PROVE Goal
  <2>1. Contents' = Contents
    BY <1>2, SameContents
  <2>2. out'.request = NoItem /\ out'.demoted = NoItem /\ out'.ret = NoValue
    BY <1>2 DEF Quiet
  <2>3. L1!Attach
    BY <2>1, <2>2, NothingHanded DEF L1!Attach
  <2> QED BY <1>0, <2>3
<1>3. ASSUME NEW k \in Keys, GetMiss(k) PROVE Goal
  <2>1. /\ index_map' = index_map /\ node' = node /\ ~ Cached(k)
        /\ out' = [Quiet(Item(k, NoValue)) EXCEPT !.misses = 1]
    BY <1>3 DEF GetMiss
  <2>2. Contents' = Contents
    BY <2>1, SameContents
  <2>3. out'.request = Item(k, NoValue) /\ out'.demoted = NoItem /\ out'.ret = NoValue
    BY <2>1 DEF Quiet
  <2>4. Contents[k] = NoValue
    BY <2>1, ContentsFacts
  <2>5. L1!Get(k)
    BY <2>2, <2>3, <2>4, NothingHanded DEF L1!Get, L1!Item, Item
  <2> QED BY <1>0, <2>5
<1>4. ASSUME UNCHANGED total_capacity, NEW k \in Keys, GetHit(k) PROVE Goal
  <2>1. /\ index_map' = index_map /\ Cached(k)
        /\ out' = [Quiet(Item(k, NoValue)) EXCEPT !.ret = node[index_map[k]].value, !.hits = 1]
    BY <1>4 DEF GetHit
  <2>2. \A j \in Slots : node'[j].value = node[j].value
    BY <1>4, GetHitStructure
  <2>3. Contents' = Contents
    BY <2>1, <2>2, CachedFacts, SameContents
  <2>4. /\ out'.request = Item(k, NoValue) /\ out'.demoted = NoItem
        /\ out'.ret = node[index_map[k]].value
    BY <2>1 DEF Quiet
  <2>5. Contents[k] = node[index_map[k]].value
    BY <2>1, ContentsFacts
  <2>6. L1!Get(k)
    BY <2>3, <2>4, <2>5, NothingHanded DEF L1!Get, L1!Item, Item
  <2> QED BY <1>0, <2>6
<1>5. ASSUME NEW k \in Keys, RemoveKey(k) PROVE Goal
  <2>1. /\ Cached(k) /\ index_map' = [index_map EXCEPT ![k] = NoSlot]
        /\ node' = [node EXCEPT ![index_map[k]] = ResetNode]
        /\ out' = Quiet(Item(k, NoValue))
    BY <1>5 DEF RemoveKey
  <2>2. /\ index_map \in [Keys -> Slots \cup {NoSlot}] /\ node \in [Slots -> NodeSet]
    BY InvParts DEF ListTypes
  <2>3. /\ index_map'[k] = NoSlot /\ \A q \in Keys \ {k} : index_map'[q] = index_map[q]
        /\ \A j \in Slots \ {index_map[k]} : node'[j] = node[j]
    BY <2>1, <2>2
  <2>4. Contents'[k] = NoValue
    BY <2>3, ContentsNext
  <2>5. ASSUME NEW q \in Keys \ {k} PROVE Contents'[q] = Contents[q]
    <3>1. CASE Cached(q)
      <4>1. index_map[q] \in Slots /\ index_map[q] # index_map[k]
        BY <2>1, <3>1, CachedFacts
      <4>2. node'[index_map[q]] = node[index_map[q]]
        BY <2>3, <4>1
      <4> QED BY <2>3, <2>5, <3>1, <4>2, ContentsNext, ContentsFacts DEF Cached
    <3>2. CASE ~ Cached(q)
      BY <2>3, <2>5, <3>2, ContentsNext, ContentsFacts DEF Cached
    <3> QED BY <3>1, <3>2
  <2>6. Contents' = [Contents EXCEPT ![k] = NoValue]
    <3>1. Contents' = [q \in Keys |-> Contents'[q]] /\ Contents = [q \in Keys |-> Contents[q]]
      BY ContentsNext, ContentsFacts
    <3>2. [Contents EXCEPT ![k] = NoValue] = [q \in Keys |-> IF q = k THEN NoValue ELSE Contents[q]]
      BY <3>1
    <3>3. \A q \in Keys : Contents'[q] = IF q = k THEN NoValue ELSE Contents[q]
      BY <2>4, <2>5
    <3> QED BY <3>1, <3>2, <3>3
  <2>7. out'.request = Item(k, NoValue) /\ out'.demoted = NoItem /\ out'.ret = NoValue
    BY <2>1 DEF Quiet
  <2>8. L1!Remove(k)
    BY <2>6, <2>7, NothingHanded DEF L1!Remove, L1!Item, Item
  <2> QED BY <1>0, <2>8
<1>6. ASSUME NEW k \in Keys, NEW v \in Values, NEW i \in Slots,
             index_map'[k] = i, node'[i].value = v,
             \A q \in Keys \ {k} : index_map'[q] = index_map[q] /\ index_map[q] # i,
             \A j \in Slots \ {i} : node'[j].value = node[j].value,
             out'.request = Item(k, v), out'.demoted = NoItem, out'.ret = NoValue
      PROVE  Goal
  <2>1. Contents'[k] = v
    BY <1>6, ContentsNext, DistinctAssumption
  <2>2. ASSUME NEW q \in Keys \ {k} PROVE Contents'[q] = Contents[q]
    <3>1. CASE Cached(q)
      <4>1. index_map[q] \in Slots
        BY <3>1, CachedFacts
      <4> QED BY <1>6, <2>2, <3>1, <4>1, ContentsNext, ContentsFacts DEF Cached
    <3>2. CASE ~ Cached(q)
      BY <1>6, <2>2, <3>2, ContentsNext, ContentsFacts DEF Cached
    <3> QED BY <3>1, <3>2
  <2>3. Contents' = [Contents EXCEPT ![k] = v]
    <3>1. Contents' = [q \in Keys |-> Contents'[q]] /\ Contents = [q \in Keys |-> Contents[q]]
      BY ContentsNext, ContentsFacts
    <3>2. [Contents EXCEPT ![k] = v] = [q \in Keys |-> IF q = k THEN v ELSE Contents[q]]
      BY <3>1
    <3>3. \A q \in Keys : Contents'[q] = IF q = k THEN v ELSE Contents[q]
      BY <2>1, <2>2
    <3> QED BY <3>1, <3>2, <3>3
  <2>4. L1!Store(k, v)
    BY <1>6, <2>3, NothingHanded DEF L1!Store
  <2>5. L1!Put(k, v)
    BY <1>0, <1>6, <2>4
  <2> QED BY <1>0, <2>5
<1>7. ASSUME NEW k \in Keys, NEW v \in Values, ~ Cached(k), Contents' = Contents,
             out'.request = Item(k, v), out'.demoted = NoItem, out'.ret = NoValue
      PROVE  Goal
  <2>1. L1!Refuse(k)
    BY <1>7, ContentsFacts, NothingHanded DEF L1!Refuse
  <2>2. L1!Put(k, v)
    BY <1>0, <1>7, <2>1
  <2> QED BY <1>0, <2>2
<1>8. ASSUME NEW k \in Keys, NEW v \in Values, NEW gone \in Keys,
             ~ Cached(k), Cached(gone), gone # k,
             Contents' = [Contents EXCEPT ![k] = v, ![gone] = NoValue],
             Handed' \in {NoItem, Item(gone, Contents[gone])},
             out'.request = Item(k, v), out'.ret = NoValue
      PROVE  Goal
  <2>1. L1!Replace(k, v, gone)
    BY <1>8, ContentsFacts DEF L1!Replace, L1!Item, Item
  <2>2. L1!Put(k, v)
    BY <1>0, <1>8, <2>1
  <2> QED BY <1>0, <2>2
<1> HIDE DEF Goal
<1>9. ASSUME UNCHANGED total_capacity, NEW k \in Keys, NEW v \in Values, Put(k, v) PROVE Goal
  <2>1. ASSUME PutUpdate(k, v) PROVE Goal
    <3>1. Cached(k) /\ index_map' = index_map /\ out' = Quiet(Item(k, v))
      BY <2>1 DEF PutUpdate
    <3>2. \A j \in Slots : node'[j].value = IF j = index_map[k] THEN v ELSE node[j].value
      BY <1>9, <2>1, PutUpdateStructure
    <3>3. index_map[k] \in Slots /\ node[index_map[k]].key = k
      BY <3>1, CachedFacts
    <3>4. ASSUME NEW q \in Keys \ {k} PROVE index_map[q] # index_map[k]
      <4>1. CASE Cached(q)
        <5>1. node[index_map[q]].key = q
          BY <4>1, CachedFacts
        <5> QED BY <3>3, <5>1
      <4>2. CASE ~ Cached(q)
        BY <3>3, <4>2, DistinctAssumption DEF Cached
      <4> QED BY <4>1, <4>2
    <3>5. out'.request = Item(k, v) /\ out'.demoted = NoItem /\ out'.ret = NoValue
      BY <3>1 DEF Quiet
    <3> QED BY <1>6, <3>1, <3>2, <3>3, <3>4, <3>5
  <2>2. ASSUME PutNoSlot(k, v) PROVE Goal
    <3>1. ~ Cached(k) /\ index_map' = index_map /\ node' = node /\ out' = Quiet(Item(k, v))
      BY <2>2 DEF PutNoSlot
    <3>2. out'.request = Item(k, v) /\ out'.demoted = NoItem /\ out'.ret = NoValue
      BY <3>1 DEF Quiet
    <3> QED BY <1>7, <3>1, <3>2, SameContents
  <2>3. ASSUME NEW i \in Slots, PutIntoWindow(k, v, i) \/ PutAdmitFree(k, v, i) PROVE Goal
    BY <1>6, <2>3, RoomFacts
  <2>4. ASSUME NEW i \in Slots, PutAdmitEvict(k, v, i) PROVE Goal
    <3>1. PICK winner \in Keys, gone \in Keys : Displaces(k, v, i, winner, gone)
      BY <2>4, AdmitEvictFacts
    <3>1d. /\ ~ Cached(k) /\ Cached(gone) /\ gone # k
           /\ index_map'[k] = i /\ index_map'[gone] = NoSlot
           /\ \A q \in Keys \ {k, gone} : index_map'[q] = index_map[q]
           /\ node'[i].value = v
           /\ \A j \in Slots \ {i, index_map[gone]} : node'[j].value = node[j].value
           /\ Estimate(counters', winner) > Estimate(counters', gone)
           /\ out'.demoted = IF demotion_queue
                             THEN [key |-> gone, value |-> node[index_map[gone]].value,
                                   frequency |-> Estimate(counters', gone)]
                             ELSE NoItem
           /\ out'.request = Item(k, v) /\ out'.ret = NoValue
      BY <3>1 DEF Displaces
    <3>2. \A q \in Keys : index_map[q] # i
      <4>1. i \in free /\ ~ Cached(k)
        BY <2>4 DEF PutAdmitEvict, Fresh
      <4>2. FreshSlot(k, v, i)
        BY <4>1, FreshFacts
      <4> QED BY <4>2 DEF FreshSlot
    <3>3. Contents' = [Contents EXCEPT ![k] = v, ![gone] = NoValue]
      BY <3>1d, <3>2, ReplaceContents
    <3>4. Handed' \in {NoItem, Item(gone, Contents[gone])}
      <4>1. Contents[gone] = node[index_map[gone]].value
        BY <3>1d, ContentsFacts
      <4> QED BY <3>1d, <4>1 DEF Handed, Item
    <3> QED BY <1>8, <3>1d, <3>3, <3>4
  <2>5. ASSUME NEW i \in Slots, PutReject(k, v, i) PROVE Goal
    <3>1. /\ ~ Cached(k)
          /\ out'.demoted = NoItem /\ out'.request = Item(k, v) /\ out'.ret = NoValue
      BY <2>5, RejectFacts
    <3>2. ASSUME \A q \in Keys : index_map'[q] = index_map[q],
                 \A j \in Slots \ {i} : node'[j] = node[j],
                 \A q \in Keys : index_map[q] # i
          PROVE  Goal
      <4>1. Contents' = Contents
        BY <3>2, CachedFacts, SameContents
      <4> QED BY <1>7, <3>1, <4>1
    <3>3. ASSUME NEW gone \in Keys,
                 Cached(gone), gone # k,
                 index_map'[k] = i, index_map'[gone] = NoSlot,
                 \A q \in Keys \ {k, gone} : index_map'[q] = index_map[q],
                 node'[i].value = v,
                 \A j \in Slots \ {i, index_map[gone]} : node'[j].value = node[j].value
          PROVE  Goal
      <4>1. i \in free
        BY <2>5 DEF PutReject, Fresh
      <4>2. FreshSlot(k, v, i)
        BY <3>1, <4>1, FreshFacts
      <4>3. \A q \in Keys : index_map[q] # i
        BY <4>2 DEF FreshSlot
      <4>4. Contents' = [Contents EXCEPT ![k] = v, ![gone] = NoValue]
        BY <3>3, <4>3, ReplaceContents
      <4> QED BY <1>8, <3>1, <3>3, <4>4, NothingHanded
    <3> QED BY <2>5, <3>2, <3>3, RejectFacts
  <2> QED BY <1>9, <2>1, <2>2, <2>3, <2>4, <2>5 DEF Put, PutNew
<1>10. ASSUME UNCHANGED total_capacity, NEW w \in Writes, Put(w[1], w[2]) PROVE Goal
  <2>1. w[1] \in Keys /\ w[2] \in Values
    BY WritesAssumption
  <2> QED BY <1>9, <1>10, <2>1
<1>11. ASSUME NEW i \in Slots, OthersAllocate(i) \/ OthersDeallocate(i) PROVE Goal
  BY <1>2, <1>11 DEF OthersAllocate, OthersDeallocate
<1>12. ASSUME SetDemotionQueue PROVE Goal
  BY <1>2, <1>12 DEF SetDemotionQueue
<1>13. Goal
  BY <1>1, <1>3, <1>4, <1>5, <1>10, <1>11, <1>12 DEF Next
<1> QED BY <1>13 DEF Goal

\* A stripe with any capacity, sketch, keys and neighbours on the slab is a map
\* that forgets: get returns the value of the last put of a key that is still
\* cached, and put costs at most one other key, which is the one handed on.
THEOREM StripeImplementsL1Cache == Spec => ImplementsL1Cache
<1>1. Init => L1!Init
  <2> SUFFICES ASSUME Init PROVE L1!Init
    OBVIOUS
  <2>1. \A k \in Keys : ~ Cached(k)
    BY DEF Init, Cached
  <2>2. Contents = [k \in Keys |-> NoValue]
    BY <2>1 DEF Contents
  <2>3. out.request = NoItem /\ out.demoted = NoItem /\ out.ret = NoValue
    BY DEF Init, Quiet
  <2> QED BY <2>2, <2>3 DEF L1!Init, Handed
<1>2. StripeInv /\ StripeInv' /\ [Next]_vars => [L1!Next]_<<Contents, out.request, Handed, out.ret>>
  BY StepImplements
<1> QED BY <1>1, <1>2, AlwaysStripeInv, PTL DEF Spec, ImplementsL1Cache, L1!Spec
=============================================================================
