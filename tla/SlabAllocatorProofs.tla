------------------------- MODULE SlabAllocatorProofs -------------------------
(***************************************************************************)
(* Proofs about the slab allocator for any set of threads, any capacity    *)
(* and any tag width greater than one bit's worth of values.               *)
(***************************************************************************)
EXTENDS SlabAllocator, FiniteSetTheorems, TLAPS

\* The inductive invariant.  ListIsStack, NoDoubleAllocation and NoLeak need
\* FreshNext and LinkReady: they say that the link a successful
\* compare-exchange publishes is right at that instant.
IInv ==
    /\ TypeOK
    /\ ListIsStack
    /\ NoDoubleAllocation
    /\ NoLeak
    /\ FreshNext
    /\ LinkReady
    /\ FreeNodesReset

\* The new tag of a compare-exchange differs from the old one and is in range.
LEMMA BumpType ==
    ASSUME NEW p \in Packed, NEW l \in Link
    PROVE  /\ Bump(l, p) \in Packed
           /\ Bump(l, p).index = l
           /\ Bump(l, p).tag # p.tag
<1>1. /\ TagMod \in Nat /\ TagMod > 1 /\ p.tag \in 0 .. TagMod - 1
  BY TagAssumption DEF Packed
<1>2. /\ (p.tag + 1) % TagMod \in 0 .. TagMod - 1
      /\ (p.tag + 1) % TagMod # p.tag
  <2>1. CASE p.tag + 1 = TagMod
    BY <1>1, <2>1, SMT
  <2>2. CASE p.tag + 1 < TagMod
    BY <1>1, <2>2, SMT
  <2> QED BY <1>1, <2>1, <2>2
<1> QED BY <1>2 DEF Bump, Packed

\* The constructor builds a list that satisfies the invariant.
LEMMA InitIInv == Init => IInv
<1> SUFFICES ASSUME Init PROVE IInv
  OBVIOUS
<1> USE CapacityAssumption, InvalidAssumption, TagAssumption, CountAssumption DEF Init, Index, Link
<1>1. stack \in Seq(Index) /\ Len(stack) = Capacity /\ \A n \in 1 .. Capacity : stack[n] = n - 1
  OBVIOUS
<1>2. TypeOK
  BY <1>1 DEF TypeOK, Packed, Labels
<1>3. ListIsStack
  <2>1. stack # <<>> /\ 1 \in 1 .. Len(stack) /\ stack[1] = 0
    BY <1>1
  <2>2. head.index = IF stack = <<>> THEN kInvalidIndex ELSE stack[1]
    BY <2>1
  <2>3. ASSUME NEW n \in 1 .. Len(stack)
        PROVE  free_next[stack[n]] = IF n = Len(stack) THEN kInvalidIndex ELSE stack[n + 1]
    <3>1. stack[n] = n - 1 /\ n - 1 \in Index
      BY <1>1
    <3>2. CASE n = Capacity
      BY <1>1, <3>1, <3>2
    <3>3. CASE n # Capacity
      <4>1. n + 1 \in 1 .. Capacity
        BY <1>1, <3>3
      <4>2. stack[n + 1] = n
        BY <1>1, <4>1
      <4> QED BY <1>1, <3>1, <3>3, <4>2
    <3> QED BY <3>2, <3>3
  <2>4. \A m, n \in 1 .. Len(stack) : stack[m] = stack[n] => m = n
    BY <1>1
  <2> QED BY <2>2, <2>3, <2>4, Zenon DEF ListIsStack
<1>4. Free = Index
  <2>1. ASSUME NEW i \in Index PROVE i \in Free
    <3>1. i + 1 \in 1 .. Len(stack) /\ stack[i + 1] = i
      BY <1>1
    <3> QED BY <3>1, Zenon DEF Free
  <2>2. Free \subseteq Index
    BY <1>1 DEF Free
  <2> QED BY <2>1, <2>2, Zenon
<1>5. NoDoubleAllocation
  BY DEF NoDoubleAllocation, HeldBy, Allocating, Deallocating
<1>6. NoLeak
  BY <1>4 DEF NoLeak
<1>7. FreshNext /\ LinkReady /\ FreeNodesReset
  BY <1>4 DEF FreshNext, LinkReady, FreeNodesReset, Allocating, Deallocating
<1> QED BY <1>2, <1>3, <1>5, <1>6, <1>7 DEF IInv

\* Popping the top of a list without repetitions removes that slot only.
LEMMA Pop ==
    ASSUME NEW s \in Seq(Index), s # <<>>,
           \A m, n \in 1 .. Len(s) : s[m] = s[n] => m = n
    PROVE  /\ Tail(s) \in Seq(Index)
           /\ Len(Tail(s)) = Len(s) - 1
           /\ \A n \in 1 .. Len(s) - 1 : Tail(s)[n] = s[n + 1]
           /\ \A i : (\E n \in 1 .. Len(s) - 1 : Tail(s)[n] = i)
                    <=> (\E n \in 1 .. Len(s) : s[n] = i) /\ i # s[1]
<1>1. /\ Len(s) \in Nat /\ Len(s) > 0
      /\ Tail(s) \in Seq(Index)
      /\ Len(Tail(s)) = Len(s) - 1
      /\ \A n \in 1 .. Len(s) - 1 : Tail(s)[n] = s[n + 1]
  OBVIOUS
<1>2. ASSUME NEW i, NEW n \in 1 .. Len(s) - 1, Tail(s)[n] = i
      PROVE  (\E m \in 1 .. Len(s) : s[m] = i) /\ i # s[1]
  <2>1. n + 1 \in 1 .. Len(s) /\ n + 1 # 1 /\ 1 \in 1 .. Len(s) /\ s[n + 1] = i
    BY <1>1, <1>2
  <2> QED BY <2>1
<1>3. ASSUME NEW i, NEW n \in 1 .. Len(s), s[n] = i, i # s[1]
      PROVE  \E m \in 1 .. Len(s) - 1 : Tail(s)[m] = i
  <2>1. n - 1 \in 1 .. Len(s) - 1 /\ (n - 1) + 1 = n
    BY <1>1, <1>3
  <2> QED BY <1>1, <1>3, <2>1
<1> QED BY <1>1, <1>2, <1>3

\* Pushing a slot that is not in the list adds that slot only.
LEMMA Push ==
    ASSUME NEW s \in Seq(Index), NEW a \in Index
    PROVE  /\ <<a>> \o s \in Seq(Index)
           /\ Len(<<a>> \o s) = Len(s) + 1
           /\ (<<a>> \o s)[1] = a
           /\ \A n \in 2 .. Len(s) + 1 : (<<a>> \o s)[n] = s[n - 1]
           /\ \A i : (\E n \in 1 .. Len(s) + 1 : (<<a>> \o s)[n] = i)
                    <=> (\E n \in 1 .. Len(s) : s[n] = i) \/ i = a
<1>1. /\ Len(s) \in Nat
      /\ <<a>> \o s \in Seq(Index)
      /\ Len(<<a>> \o s) = Len(s) + 1
      /\ (<<a>> \o s)[1] = a
      /\ \A n \in 2 .. Len(s) + 1 : (<<a>> \o s)[n] = s[n - 1]
  OBVIOUS
<1>2. ASSUME NEW i, NEW n \in 1 .. Len(s) + 1, (<<a>> \o s)[n] = i
      PROVE  (\E m \in 1 .. Len(s) : s[m] = i) \/ i = a
  <2>1. CASE n = 1
    BY <1>1, <1>2, <2>1
  <2>2. CASE n # 1
    <3>1. n \in 2 .. Len(s) + 1 /\ n - 1 \in 1 .. Len(s)
      BY <1>1, <2>2
    <3> QED BY <1>1, <1>2, <3>1
  <2> QED BY <2>1, <2>2
<1>3. ASSUME NEW i, NEW n \in 1 .. Len(s), s[n] = i
      PROVE  \E m \in 1 .. Len(s) + 1 : (<<a>> \o s)[m] = i
  <2>1. n + 1 \in 2 .. Len(s) + 1 /\ n + 1 \in 1 .. Len(s) + 1 /\ (n + 1) - 1 = n
    BY <1>1
  <2> QED BY <1>1, <1>3, <2>1
<1>4. ASSUME NEW i, i = a PROVE \E m \in 1 .. Len(s) + 1 : (<<a>> \o s)[m] = i
  BY <1>1, <1>4
<1> QED BY <1>1, <1>2, <1>3, <1>4

\* Every step of every thread preserves the invariant.
LEMMA StepIInv == IInv /\ [Next]_vars => IInv'
<1> SUFFICES ASSUME IInv, [Next]_vars PROVE IInv'
  OBVIOUS
<1> USE InvalidAssumption
<1>t. TypeOK /\ ListIsStack /\ NoDoubleAllocation /\ NoLeak /\ FreshNext /\ LinkReady /\ FreeNodesReset
  BY DEF IInv
<1>free. Free \subseteq Index
  BY <1>t DEF TypeOK, Free
<1>0. CASE UNCHANGED vars
  <2>1. TypeOK' /\ ListIsStack' /\ FreshNext' /\ Free' = Free
    <3>1. TypeOK'
      BY <1>t, <1>0 DEF vars, TypeOK
    <3>2. ListIsStack' /\ Free' = Free
      BY <1>t, <1>0 DEF vars, ListIsStack, Free
    <3>3. FreshNext'
      BY <1>t, <1>0 DEF vars, FreshNext
    <3> QED BY <3>1, <3>2, <3>3
  <2>2. \A t \in Threads : /\ HeldBy(t)' = HeldBy(t)
                           /\ Allocating(t)' = Allocating(t)
                           /\ Deallocating(t)' = Deallocating(t)
    BY <1>0 DEF vars, HeldBy, Allocating, Deallocating
  <2> QED BY <1>t, <1>0, <2>1, <2>2 DEF vars, IInv, NoDoubleAllocation, NoLeak, LinkReady, FreeNodesReset
<1>1. ASSUME NEW t \in Threads, AllocLoad(t) \/ AllocRetry(t) PROVE IInv'
  <2>u. UNCHANGED <<head, free_next, free_count, pool, owned, nxt, arg, stack>>
    BY <1>1 DEF AllocLoad, AllocRetry
  <2>p. /\ pc[t] \in {"idle", "alloc_cas"}
        /\ old' = [old EXCEPT ![t] = head]
        /\ \/ pc' = [pc EXCEPT ![t] = "idle"]
           \/ pc' = [pc EXCEPT ![t] = "alloc_read"] /\ head.index # kInvalidIndex
        /\ failures' \in {0, 1}
    BY <1>1, <1>t DEF AllocLoad, AllocRetry, AllocSees, Goto, TypeOK
  <2>1. TypeOK'
    BY <1>t, <2>u, <2>p DEF TypeOK, Labels
  <2>2. ListIsStack' /\ Free' = Free
    BY <1>t, <2>u DEF ListIsStack, Free
  <2>3. ASSUME NEW u \in Threads
        PROVE  HeldBy(u)' = HeldBy(u) /\ Allocating(u)' = Allocating(u) /\ Deallocating(u)' = Deallocating(u)
    <3>1. CASE u # t
      <4>1. pc'[u] = pc[u] /\ old'[u] = old[u] /\ arg'[u] = arg[u]
        BY <1>t, <2>u, <2>p, <3>1 DEF TypeOK
      <4> QED BY <4>1 DEF HeldBy, Allocating, Deallocating
    <3>2. CASE u = t
      <4>1. arg'[t] = arg[t] /\ pc'[t] \in {"idle", "alloc_read"}
        BY <1>t, <2>u, <2>p DEF TypeOK
      <4> QED BY <1>t, <2>u, <2>p, <3>2, <4>1 DEF HeldBy, Allocating, Deallocating
    <3> QED BY <3>1, <3>2
  <2>4. NoDoubleAllocation' /\ NoLeak'
    BY <1>t, <2>u, <2>2, <2>3 DEF NoDoubleAllocation, NoLeak
  <2>5. FreshNext'
    BY <1>t, <2>u, <2>p DEF FreshNext, TypeOK
  <2>6. LinkReady'
    BY <1>t, <2>u, <2>p DEF LinkReady, Allocating, TypeOK
  <2>7. FreeNodesReset'
    BY <1>t, <2>u, <2>2, <2>3 DEF FreeNodesReset
  <2> QED BY <2>1, <2>2, <2>4, <2>5, <2>6, <2>7 DEF IInv
<1>2. ASSUME NEW t \in Threads, AllocReadNext(t) PROVE IInv'
  <2> USE <1>2 DEF AllocReadNext, Goto
  <2>0. old[t].index \in Index /\ free_next[old[t].index] \in Link
    BY <1>t DEF TypeOK, FreshNext, Packed, Link
  <2>1. TypeOK'
    BY <1>t, <2>0 DEF TypeOK, Labels
  <2>2. ListIsStack' /\ Free' = Free
    BY <1>t DEF ListIsStack, Free
  <2>3. ASSUME NEW u \in Threads
        PROVE  HeldBy(u)' = HeldBy(u) /\ Allocating(u)' = Allocating(u) /\ Deallocating(u)' = Deallocating(u)
    BY <1>t DEF HeldBy, Allocating, Deallocating, TypeOK
  <2>4. NoDoubleAllocation' /\ NoLeak'
    BY <1>t, <2>2, <2>3 DEF NoDoubleAllocation, NoLeak
  <2>5. FreshNext'
    BY <1>t DEF FreshNext, TypeOK
  <2>6. LinkReady'
    BY <1>t, <2>3 DEF LinkReady, TypeOK
  <2>7. FreeNodesReset'
    BY <1>t, <2>2, <2>3 DEF FreeNodesReset
  <2> QED BY <2>1, <2>2, <2>4, <2>5, <2>6, <2>7 DEF IInv
<1>3. ASSUME NEW t \in Threads, AllocCas(t) PROVE IInv'
  <2>a. /\ pc[t] = "alloc_cas" /\ head = old[t]
        /\ head' = Bump(nxt[t], old[t]) /\ TagWindow(t, head')
        /\ pc' = [pc EXCEPT ![t] = "alloc_reset"]
        /\ UNCHANGED <<free_next, free_count, pool, owned, failures, old, nxt, arg>>
    BY <1>3 DEF AllocCas, Goto, CasMatches
  <2>x. stack' = Tail(stack)
    BY <1>3 DEF AllocCas
  <2>l. /\ stack \in Seq(Index) /\ Len(stack) \in Nat
        /\ old[t].index # kInvalidIndex /\ nxt[t] = free_next[head.index]
        /\ head.index = old[t].index /\ old[t].index \in Index
    BY <1>t, <2>a DEF TypeOK, FreshNext, Packed, Link
  <2>n. stack # <<>> /\ stack[1] = old[t].index /\ Len(stack) > 0 /\ 1 \in 1 .. Len(stack)
    BY <1>t, <2>l DEF ListIsStack
  <2>0. /\ stack # <<>> /\ Len(stack) \in Nat /\ Len(stack) > 0
        /\ stack[1] = old[t].index /\ old[t].index \in Index
        /\ nxt[t] = free_next[stack[1]]
        /\ nxt[t] = IF Len(stack) = 1 THEN kInvalidIndex ELSE stack[2]
    <3>1. free_next[stack[1]] = IF 1 = Len(stack) THEN kInvalidIndex ELSE stack[1 + 1]
      BY <1>t, <2>n, Zenon DEF ListIsStack
    <3> QED BY <2>l, <2>n, <3>1
  <2>b. head' \in Packed /\ head'.index = nxt[t] /\ head'.tag # head.tag
    BY <1>t, <2>a, BumpType DEF TypeOK
  <2>s. /\ stack' \in Seq(Index) /\ Len(stack') = Len(stack) - 1
        /\ \A n \in 1 .. Len(stack) - 1 : stack'[n] = stack[n + 1]
        /\ \A i : (\E n \in 1 .. Len(stack) - 1 : stack'[n] = i)
                <=> (\E n \in 1 .. Len(stack) : stack[n] = i) /\ i # stack[1]
    <3>1. \A m, n \in 1 .. Len(stack) : stack[m] = stack[n] => m = n
      BY <1>t DEF ListIsStack
    <3>2. /\ Tail(stack) \in Seq(Index) /\ Len(Tail(stack)) = Len(stack) - 1
          /\ \A n \in 1 .. Len(stack) - 1 : Tail(stack)[n] = stack[n + 1]
          /\ \A i : (\E n \in 1 .. Len(stack) - 1 : Tail(stack)[n] = i)
                   <=> (\E n \in 1 .. Len(stack) : stack[n] = i) /\ i # stack[1]
      BY <2>l, <2>n, <3>1, Pop, Zenon
    <3> QED BY <2>x, <3>2, Zenon
  <2>f. Free' = Free \ {old[t].index} /\ old[t].index \in Free
    <3>1. Free' = {stack'[n] : n \in 1 .. Len(stack) - 1}
      BY <2>s DEF Free
    <3>2. ASSUME NEW i PROVE i \in Free' <=> i \in Free /\ i # stack[1]
      <4>1. i \in Free' <=> \E n \in 1 .. Len(stack) - 1 : stack'[n] = i
        BY <3>1
      <4>2. i \in Free <=> \E n \in 1 .. Len(stack) : stack[n] = i
        BY DEF Free
      <4> QED BY <2>s, <4>1, <4>2, Zenon
    <3>3. stack[1] \in Free
      BY <2>n, Zenon DEF Free
    <3> QED BY <2>n, <3>2, <3>3
  <2>1. TypeOK'
    BY <1>t, <2>a, <2>b, <2>s DEF TypeOK, Labels
  <2>2. ListIsStack'
    <3>1. head'.index = IF stack' = <<>> THEN kInvalidIndex ELSE stack'[1]
      <4>1. CASE Len(stack) = 1
        BY <2>0, <2>b, <2>s, <4>1
      <4>2. CASE Len(stack) # 1
        <5>1. Len(stack') > 0 /\ stack' # <<>> /\ 1 \in 1 .. Len(stack) - 1
          BY <2>0, <2>s, <4>2
        <5>2. stack'[1] = stack[2]
          BY <2>s, <5>1
        <5> QED BY <2>0, <2>b, <4>2, <5>1, <5>2
      <4> QED BY <4>1, <4>2
    <3>2. ASSUME NEW n \in 1 .. Len(stack')
          PROVE  free_next'[stack'[n]] = IF n = Len(stack') THEN kInvalidIndex ELSE stack'[n + 1]
      <4>1. n \in 1 .. Len(stack) - 1 /\ n + 1 \in 1 .. Len(stack) /\ stack'[n] = stack[n + 1]
        BY <2>0, <2>s
      <4>2. free_next[stack[n + 1]] = IF n + 1 = Len(stack) THEN kInvalidIndex ELSE stack[n + 2]
        BY <1>t, <2>0, <4>1 DEF ListIsStack
      <4>3. n # Len(stack') => n + 1 \in 1 .. Len(stack) - 1 /\ stack'[n + 1] = stack[n + 2]
        BY <2>0, <2>s, <4>1
      <4> QED BY <2>a, <2>0, <2>s, <4>1, <4>2, <4>3
    <3>3. ASSUME NEW m \in 1 .. Len(stack'), NEW n \in 1 .. Len(stack'), stack'[m] = stack'[n]
          PROVE  m = n
      <4>1. m + 1 \in 1 .. Len(stack) /\ n + 1 \in 1 .. Len(stack) /\ stack[m + 1] = stack[n + 1]
        BY <2>0, <2>s, <3>3
      <4>2. m + 1 = n + 1
        BY <1>t, <4>1 DEF ListIsStack
      <4> QED BY <4>2, <2>s
    <3> QED BY <3>1, <3>2, <3>3 DEF ListIsStack
  <2>3. /\ HeldBy(t)' = {old[t].index} /\ HeldBy(t) = {}
        /\ \A u \in Threads \ {t} : HeldBy(u)' = HeldBy(u)
    BY <1>t, <2>a DEF HeldBy, Allocating, Deallocating, TypeOK
  <2>4. NoDoubleAllocation'
    BY <1>t, <2>a, <2>f, <2>3 DEF NoDoubleAllocation
  <2>5. NoLeak'
    BY <1>t, <2>a, <2>f, <2>3 DEF NoLeak
  <2>6. FreshNext'
    BY <1>t, <2>a DEF FreshNext, TypeOK, TagWindow
  <2>7. LinkReady'
    BY <1>t, <2>a, <2>0 DEF LinkReady, TypeOK, Allocating
  <2>8. FreeNodesReset'
    BY <1>t, <2>a, <2>f DEF FreeNodesReset, Deallocating, TypeOK
  <2> QED BY <2>1, <2>2, <2>4, <2>5, <2>6, <2>7, <2>8 DEF IInv
<1>4. ASSUME NEW t \in Threads, AllocReset(t) PROVE IInv'
  <2> USE <1>4 DEF AllocReset, Goto
  <2>0. old[t].index \in Index /\ HeldBy(t) = {old[t].index}
    BY <1>t DEF TypeOK, LinkReady, HeldBy, Allocating, Packed, Link
  <2>1. TypeOK'
    BY <1>t, <2>0 DEF TypeOK, Labels
  <2>2. ListIsStack' /\ Free' = Free
    BY <1>t DEF ListIsStack, Free
  <2>3. ASSUME NEW u \in Threads
        PROVE  HeldBy(u)' = HeldBy(u) /\ Allocating(u)' = Allocating(u) /\ Deallocating(u)' = Deallocating(u)
    BY <1>t DEF HeldBy, Allocating, Deallocating, TypeOK
  <2>4. NoDoubleAllocation' /\ NoLeak'
    BY <1>t, <2>2, <2>3 DEF NoDoubleAllocation, NoLeak
  <2>5. FreshNext'
    BY <1>t DEF FreshNext, TypeOK
  <2>6. LinkReady'
    BY <1>t, <2>3 DEF LinkReady, TypeOK
  <2>7. FreeNodesReset'
    BY <1>t, <1>free, <2>0, <2>2, <2>3 DEF FreeNodesReset, TypeOK
  <2> QED BY <2>1, <2>2, <2>4, <2>5, <2>6, <2>7 DEF IInv
<1>5. ASSUME NEW t \in Threads, AllocCount(t) PROVE IInv'
  <2> USE <1>5 DEF AllocCount, Goto
  <2>0. old[t].index \in Index /\ HeldBy(t) = {old[t].index} /\ HeldBy(t)' = {}
    BY <1>t DEF TypeOK, LinkReady, HeldBy, Allocating, Deallocating, Packed, Link
  <2>c. free_count' \in 0 .. CountMod - 1
    BY <1>t, CapacityAssumption, CountAssumption DEF TypeOK
  <2>1. TypeOK'
    BY <1>t, <2>0, <2>c DEF TypeOK, Labels
  <2>2. ListIsStack' /\ Free' = Free
    BY <1>t DEF ListIsStack, Free
  <2>3. ASSUME NEW u \in Threads \ {t}
        PROVE  HeldBy(u)' = HeldBy(u) /\ Allocating(u)' = Allocating(u) /\ Deallocating(u)' = Deallocating(u)
    BY <1>t DEF HeldBy, Allocating, Deallocating, TypeOK
  <2>4. NoDoubleAllocation'
    BY <1>t, <2>0, <2>2, <2>3 DEF NoDoubleAllocation
  <2>5. NoLeak'
    BY <1>t, <2>0, <2>2, <2>3 DEF NoLeak
  <2>6. FreshNext'
    BY <1>t DEF FreshNext, TypeOK
  <2>7. LinkReady' /\ FreeNodesReset'
    BY <1>t, <2>2, <2>3 DEF LinkReady, FreeNodesReset, Allocating, Deallocating, TypeOK
  <2> QED BY <2>1, <2>2, <2>4, <2>5, <2>6, <2>7 DEF IInv
<1>6. ASSUME NEW t \in Threads, NEW i \in Index, DeallocReset(t, i) PROVE IInv'
  <2> USE <1>6 DEF DeallocReset, Goto
  <2>0. HeldBy(t) = {} /\ HeldBy(t)' = {i}
    BY <1>t DEF TypeOK, HeldBy, Allocating, Deallocating
  <2>1. TypeOK'
    BY <1>t DEF TypeOK, Labels
  <2>2. ListIsStack' /\ Free' = Free
    BY <1>t DEF ListIsStack, Free
  <2>3. ASSUME NEW u \in Threads \ {t}
        PROVE  HeldBy(u)' = HeldBy(u) /\ Allocating(u)' = Allocating(u) /\ Deallocating(u)' = Deallocating(u)
    BY <1>t DEF HeldBy, Allocating, Deallocating, TypeOK
  <2>4. NoDoubleAllocation'
    BY <1>t, <2>0, <2>2, <2>3 DEF NoDoubleAllocation
  <2>5. NoLeak'
    BY <1>t, <2>0, <2>2, <2>3 DEF NoLeak
  <2>6. FreshNext'
    BY <1>t DEF FreshNext, TypeOK
  <2>7. LinkReady'
    BY <1>t, <2>3 DEF LinkReady, Allocating, TypeOK
  <2>8. FreeNodesReset'
    BY <1>t, <1>free, <2>2, <2>3 DEF FreeNodesReset, TypeOK
  <2> QED BY <2>1, <2>2, <2>4, <2>5, <2>6, <2>7, <2>8 DEF IInv
<1>7. ASSUME NEW t \in Threads, DeallocLoad(t) \/ DeallocRetry(t) PROVE IInv'
  <2>u. /\ UNCHANGED <<head, free_next, free_count, pool, owned, failures, nxt, arg, stack>>
        /\ pc[t] \in {"dealloc_load", "dealloc_cas"}
        /\ old' = [old EXCEPT ![t] = head]
        /\ pc' = [pc EXCEPT ![t] = "dealloc_link"]
    BY <1>7 DEF DeallocLoad, DeallocRetry, Goto
  <2>1. TypeOK'
    BY <1>t, <2>u DEF TypeOK, Labels
  <2>2. ListIsStack' /\ Free' = Free
    BY <1>t, <2>u DEF ListIsStack, Free
  <2>3. ASSUME NEW u \in Threads
        PROVE  HeldBy(u)' = HeldBy(u) /\ Allocating(u)' = Allocating(u) /\ Deallocating(u)' = Deallocating(u)
    <3>1. CASE u # t
      <4>1. pc'[u] = pc[u] /\ old'[u] = old[u] /\ arg'[u] = arg[u]
        BY <1>t, <2>u, <3>1 DEF TypeOK
      <4> QED BY <4>1 DEF HeldBy, Allocating, Deallocating
    <3>2. CASE u = t
      <4>1. arg'[t] = arg[t] /\ pc'[t] = "dealloc_link"
        BY <1>t, <2>u DEF TypeOK
      <4> QED BY <1>t, <2>u, <3>2, <4>1 DEF HeldBy, Allocating, Deallocating
    <3> QED BY <3>1, <3>2
  <2>4. NoDoubleAllocation' /\ NoLeak'
    BY <1>t, <2>u, <2>2, <2>3 DEF NoDoubleAllocation, NoLeak
  <2>5. FreshNext'
    BY <1>t, <2>u DEF FreshNext, TypeOK
  <2>6. LinkReady'
    BY <1>t, <2>u DEF LinkReady, Allocating, TypeOK
  <2>7. FreeNodesReset'
    BY <1>t, <2>u, <2>2, <2>3 DEF FreeNodesReset
  <2> QED BY <2>1, <2>2, <2>4, <2>5, <2>6, <2>7 DEF IInv
<1>8. ASSUME NEW t \in Threads, DeallocLink(t) PROVE IInv'
  <2> USE <1>8 DEF DeallocLink, Goto
  <2>0. arg[t] \in Index /\ old[t].index \in Link /\ HeldBy(t) = {arg[t]} /\ arg[t] \notin Free
    BY <1>t DEF TypeOK, HeldBy, Allocating, Deallocating, NoDoubleAllocation, Packed
  <2>h. head.index # arg[t]
    <3>1. CASE stack = <<>>
      BY <1>t, <2>0, <3>1 DEF ListIsStack
    <3>2. CASE stack # <<>>
      <4>1. 1 \in 1 .. Len(stack)
        BY <1>t, <3>2 DEF TypeOK
      <4>2. head.index \in Free
        BY <1>t, <3>2, <4>1 DEF ListIsStack, Free
      <4> QED BY <2>0, <4>2
    <3> QED BY <3>1, <3>2
  <2>1. TypeOK'
    BY <1>t, <2>0 DEF TypeOK, Labels
  <2>2. Free' = Free
    BY DEF Free
  <2>3. ListIsStack'
    BY <1>t, <1>free, <2>0 DEF ListIsStack, Free, TypeOK
  <2>4. ASSUME NEW u \in Threads
        PROVE  HeldBy(u)' = HeldBy(u) /\ Allocating(u)' = Allocating(u) /\ Deallocating(u)' = Deallocating(u)
    BY <1>t DEF HeldBy, Allocating, Deallocating, TypeOK
  <2>5. NoDoubleAllocation' /\ NoLeak'
    BY <1>t, <2>2, <2>4 DEF NoDoubleAllocation, NoLeak
  <2>6. FreshNext'
    <3> SUFFICES ASSUME NEW u \in Threads, u # t
                 PROVE  /\ pc[u] \in {"alloc_read", "alloc_cas"} =>
                              /\ old[u].index # kInvalidIndex
                              /\ old[u].tag = head.tag => old[u] = head
                        /\ pc[u] = "alloc_cas" /\ old[u].tag = head.tag =>
                              nxt[u] = free_next'[head.index]
      BY <1>t DEF FreshNext, TypeOK
    <3>1. pc[u] = "alloc_cas" /\ old[u].tag = head.tag => head.index \in Index
      BY <1>t DEF FreshNext, TypeOK, Packed, Link
    <3> QED BY <1>t, <2>h, <3>1 DEF FreshNext, TypeOK
  <2>7. LinkReady'
    <3> SUFFICES ASSUME NEW u \in Threads, u # t, pc[u] = "dealloc_cas"
                 PROVE  free_next'[arg[u]] = old[u].index
      BY <1>t, <2>0 DEF LinkReady, Allocating, TypeOK
    <3>1. HeldBy(u) = {arg[u]} /\ arg[u] # arg[t] /\ arg[u] \in Index
      BY <1>t, <2>0 DEF HeldBy, Allocating, Deallocating, NoDoubleAllocation, TypeOK
    <3> QED BY <1>t, <3>1 DEF LinkReady, TypeOK
  <2>8. FreeNodesReset'
    BY <1>t, <2>2, <2>4 DEF FreeNodesReset
  <2> QED BY <2>1, <2>3, <2>5, <2>6, <2>7, <2>8 DEF IInv
<1>9. ASSUME NEW t \in Threads, DeallocCas(t) PROVE IInv'
  <2>a. /\ pc[t] = "dealloc_cas" /\ head = old[t]
        /\ head' = Bump(arg[t], old[t]) /\ TagWindow(t, head')
        /\ pc' = [pc EXCEPT ![t] = "dealloc_count"]
        /\ UNCHANGED <<free_next, free_count, pool, owned, failures, old, nxt, arg>>
    BY <1>9 DEF DeallocCas, Goto, CasMatches
  <2>x. stack' = <<arg[t]>> \o stack
    BY <1>9 DEF DeallocCas
  <2>0. /\ arg[t] \in Index /\ HeldBy(t) = {arg[t]} /\ arg[t] \notin Free
        /\ stack \in Seq(Index) /\ Len(stack) \in Nat
        /\ free_next[arg[t]] = head.index
    BY <1>t, <2>a DEF TypeOK, HeldBy, Allocating, Deallocating, NoDoubleAllocation, LinkReady
  <2>b. head' \in Packed /\ head'.index = arg[t] /\ head'.tag # head.tag
    BY <1>t, <2>a, <2>0, BumpType DEF TypeOK, Link
  <2>s. /\ stack' \in Seq(Index) /\ Len(stack') = Len(stack) + 1 /\ stack'[1] = arg[t]
        /\ \A n \in 2 .. Len(stack) + 1 : stack'[n] = stack[n - 1]
        /\ \A i : (\E n \in 1 .. Len(stack) + 1 : stack'[n] = i)
                <=> (\E n \in 1 .. Len(stack) : stack[n] = i) \/ i = arg[t]
    <3>1. /\ <<arg[t]>> \o stack \in Seq(Index)
          /\ Len(<<arg[t]>> \o stack) = Len(stack) + 1
          /\ (<<arg[t]>> \o stack)[1] = arg[t]
          /\ \A n \in 2 .. Len(stack) + 1 : (<<arg[t]>> \o stack)[n] = stack[n - 1]
          /\ \A i : (\E n \in 1 .. Len(stack) + 1 : (<<arg[t]>> \o stack)[n] = i)
                   <=> (\E n \in 1 .. Len(stack) : stack[n] = i) \/ i = arg[t]
      BY <2>0, Push, Zenon
    <3> QED BY <2>x, <3>1, Zenon
  <2>f. Free' = Free \cup {arg[t]}
    <3>1. Free' = {stack'[n] : n \in 1 .. Len(stack) + 1}
      BY <2>s DEF Free
    <3>2. \A i : i \in Free' <=> i \in Free \/ i = arg[t]
      BY <2>s, <3>1, Zenon DEF Free
    <3> QED BY <3>2
  <2>1. TypeOK'
    BY <1>t, <2>a, <2>b, <2>s DEF TypeOK, Labels
  <2>2. ListIsStack'
    <3>1. head'.index = IF stack' = <<>> THEN kInvalidIndex ELSE stack'[1]
      BY <2>0, <2>b, <2>s
    <3>2. ASSUME NEW n \in 1 .. Len(stack')
          PROVE  free_next'[stack'[n]] = IF n = Len(stack') THEN kInvalidIndex ELSE stack'[n + 1]
      <4>1. CASE n = 1
        <5>1. CASE stack = <<>>
          BY <1>t, <2>a, <2>0, <2>s, <4>1, <5>1 DEF ListIsStack
        <5>2. CASE stack # <<>>
          <6>1. Len(stack) > 0 /\ 2 \in 2 .. Len(stack) + 1
            BY <1>t, <2>0, <5>2 DEF TypeOK
          <6> QED BY <1>t, <2>a, <2>0, <2>s, <4>1, <5>2, <6>1 DEF ListIsStack
        <5> QED BY <5>1, <5>2
      <4>2. CASE n # 1
        <5>1. n \in 2 .. Len(stack) + 1 /\ n - 1 \in 1 .. Len(stack) /\ stack'[n] = stack[n - 1]
          BY <2>0, <2>s, <4>2
        <5>2. free_next[stack[n - 1]] = IF n - 1 = Len(stack) THEN kInvalidIndex ELSE stack[n]
          <6>1. (n - 1) + 1 = n
            BY <5>1
          <6> QED BY <1>t, <5>1, <6>1 DEF ListIsStack
        <5>3. n # Len(stack') => n + 1 \in 2 .. Len(stack) + 1 /\ stack'[n + 1] = stack[n]
          BY <2>0, <2>s, <5>1
        <5> QED BY <2>a, <2>0, <2>s, <5>1, <5>2, <5>3
      <4> QED BY <4>1, <4>2
    <3>3. ASSUME NEW m \in 1 .. Len(stack'), NEW n \in 1 .. Len(stack'), stack'[m] = stack'[n]
          PROVE  m = n
      <4>1. \A k \in 1 .. Len(stack') : k # 1 =>
                k - 1 \in 1 .. Len(stack) /\ stack'[k] = stack[k - 1] /\ stack'[k] \in Free
        <5> TAKE k \in 1 .. Len(stack')
        <5> HAVE k # 1
        <5>1. k \in 2 .. Len(stack) + 1 /\ k - 1 \in 1 .. Len(stack)
          BY <2>0, <2>s
        <5> QED BY <2>s, <5>1 DEF Free
      <4>2. CASE m # 1 /\ n # 1
        <5>1. m - 1 = n - 1
          <6>1. PICK a \in 1 .. Len(stack) : a = m - 1 /\ stack'[m] = stack[a]
            BY <4>1, <4>2
          <6>2. PICK b \in 1 .. Len(stack) : b = n - 1 /\ stack'[n] = stack[b]
            BY <4>1, <4>2
          <6>3. stack[a] = stack[b]
            BY <3>3, <6>1, <6>2
          <6>4. a = b
            BY <1>t, <6>3 DEF ListIsStack
          <6> QED BY <6>1, <6>2, <6>4
        <5> QED BY <5>1, <2>0, <2>s
      <4> QED BY <2>0, <2>s, <3>3, <4>1, <4>2
    <3> QED BY <3>1, <3>2, <3>3 DEF ListIsStack
  <2>3. /\ HeldBy(t)' = {}
        /\ \A u \in Threads \ {t} : HeldBy(u)' = HeldBy(u)
    BY <1>t, <2>a DEF HeldBy, Allocating, Deallocating, TypeOK
  <2>4. NoDoubleAllocation'
    BY <1>t, <2>a, <2>0, <2>f, <2>3 DEF NoDoubleAllocation
  <2>5. NoLeak'
    BY <1>t, <2>a, <2>0, <2>f, <2>3 DEF NoLeak
  <2>6. FreshNext'
    BY <1>t, <2>a DEF FreshNext, TypeOK, TagWindow
  <2>7. LinkReady'
    BY <1>t, <2>a, <2>0 DEF LinkReady, TypeOK, Allocating
  <2>8. FreeNodesReset'
    BY <1>t, <2>a, <2>0, <2>f DEF FreeNodesReset, Deallocating, TypeOK
  <2> QED BY <2>1, <2>2, <2>4, <2>5, <2>6, <2>7, <2>8 DEF IInv
<1>10. ASSUME NEW t \in Threads, DeallocCount(t) PROVE IInv'
  <2> USE <1>10 DEF DeallocCount, Goto
  <2>c. free_count' \in 0 .. CountMod - 1
    BY <1>t, CapacityAssumption, CountAssumption DEF TypeOK
  <2>1. TypeOK'
    BY <1>t, <2>c DEF TypeOK, Labels
  <2>2. ListIsStack' /\ Free' = Free
    BY <1>t DEF ListIsStack, Free
  <2>3. ASSUME NEW u \in Threads
        PROVE  HeldBy(u)' = HeldBy(u) /\ Allocating(u)' = Allocating(u) /\ Deallocating(u)' = Deallocating(u)
    BY <1>t DEF HeldBy, Allocating, Deallocating, TypeOK
  <2>4. NoDoubleAllocation' /\ NoLeak'
    BY <1>t, <2>2, <2>3 DEF NoDoubleAllocation, NoLeak
  <2>5. FreshNext'
    BY <1>t DEF FreshNext, TypeOK
  <2>6. LinkReady' /\ FreeNodesReset'
    BY <1>t, <2>2, <2>3 DEF LinkReady, FreeNodesReset, TypeOK
  <2> QED BY <2>1, <2>2, <2>4, <2>5, <2>6 DEF IInv
<1>11. ASSUME NEW i \in Index, Use(i) PROVE IInv'
  <2> USE <1>11 DEF Use
  <2>1. TypeOK' /\ ListIsStack' /\ FreshNext' /\ Free' = Free
    BY <1>t DEF TypeOK, ListIsStack, FreshNext, Free
  <2>2. ASSUME NEW u \in Threads
        PROVE  HeldBy(u)' = HeldBy(u) /\ Allocating(u)' = Allocating(u) /\ Deallocating(u)' = Deallocating(u)
    BY DEF HeldBy, Allocating, Deallocating
  <2>3. NoDoubleAllocation' /\ NoLeak' /\ LinkReady'
    BY <1>t, <2>1, <2>2 DEF NoDoubleAllocation, NoLeak, LinkReady
  <2>4. ASSUME NEW u \in Threads, Deallocating(u) PROVE arg[u] # i
    BY <1>t, <2>4 DEF NoDoubleAllocation, HeldBy, Allocating, Deallocating
  <2>5. FreeNodesReset'
    BY <1>t, <1>free, <2>1, <2>2, <2>4 DEF FreeNodesReset, NoDoubleAllocation, TypeOK
  <2> QED BY <2>1, <2>3, <2>5 DEF IInv
<1> QED
  BY <1>0, <1>1, <1>2, <1>3, <1>4, <1>5, <1>6, <1>7, <1>8, <1>9, <1>10, <1>11 DEF Next, Proceed

\* The allocator's list, ownership and reset invariants hold in every
\* reachable state, for every number of threads, capacity and tag width.
THEOREM Safety == Spec => []IInv
<1>1. Init => IInv
  BY InitIInv
<1>2. IInv /\ [Next]_vars => IInv'
  BY StepIInv
<1> QED BY <1>1, <1>2, PTL DEF Spec

\* No slot is ever in two hands, and none is lost.
THEOREM Ownership == Spec => [](NoDoubleAllocation /\ NoLeak)
<1>1. IInv => NoDoubleAllocation /\ NoLeak
  BY DEF IInv
<1> QED BY <1>1, Safety, PTL

\* The slots taken are exactly the slots that are not on the free list.
LEMMA TakenIsNotFree == IInv => Taken = Index \ Free
<1> SUFFICES ASSUME IInv PROVE Taken = Index \ Free
  OBVIOUS
<1>1. ASSUME NEW i \in Taken PROVE i \in Index \ Free
  <2>1. CASE i \in owned
    BY <2>1 DEF IInv, TypeOK, NoDoubleAllocation
  <2>2. ASSUME NEW t \in Threads, i \in HeldBy(t) PROVE i \in Index \ Free
    <3>1. i \notin Free
      BY <2>2 DEF IInv, NoDoubleAllocation
    <3>2. i \in Index
      BY <2>2 DEF IInv, TypeOK, LinkReady, HeldBy, Packed, Link
    <3> QED BY <3>1, <3>2
  <2> QED BY <1>1, <2>1, <2>2 DEF Taken
<1>2. ASSUME NEW i \in Index, i \notin Free PROVE i \in Taken
  BY <1>2 DEF IInv, NoLeak, Taken
<1> QED BY <1>1, <1>2

\* A step that leaves the list of free slots alone leaves the taken slots alone.
LEMMA SameStackSameTaken ==
    ASSUME IInv, IInv', stack' = stack
    PROVE  Taken' = Taken
<1>1. Free' = Free
  BY DEF Free
<1>2. Taken = Index \ Free
  BY TakenIsNotFree
<1>3. (Taken = Index \ Free)'
  BY TakenIsNotFree, PTL
<1> QED BY <1>1, <1>2, <1>3

\* Every step of the allocator is a step of the abstract pool or leaves it as it is.
LEMMA StepAbstract ==
    ASSUME IInv, IInv', [Next]_vars
    PROVE  [Abstract!Next]_(Abstract!vars)
<1>f. Taken = Index \ Free
  BY TakenIsNotFree
<1>0. CASE UNCHANGED vars
  BY <1>0, SameStackSameTaken DEF vars, Abstract!vars
<1>1. ASSUME NEW t \in Threads, AllocLoad(t) \/ AllocRetry(t)
      PROVE  [Abstract!Next]_(Abstract!vars)
  <2>1. Taken' = Taken
    BY <1>1, SameStackSameTaken DEF AllocLoad, AllocRetry
  <2>2. CASE head.index # kInvalidIndex
    BY <1>1, <2>1, <2>2 DEF AllocLoad, AllocRetry, AllocSees, Abstract!vars
  <2>3. CASE head.index = kInvalidIndex
    <3>1. stack = <<>>
      <4>1. stack \in Seq(Index)
        BY DEF IInv, TypeOK
      <4>2. ASSUME stack # <<>> PROVE stack[1] \in Index
        BY <4>1, <4>2
      <4> QED BY <2>3, <4>2, InvalidAssumption DEF IInv, ListIsStack
    <3>2. Free = {}
      BY <3>1 DEF Free
    <3>3. Taken = Index
      BY <1>f, <3>2
    <3>4. failures' = 1 - failures
      BY <1>1, <2>3 DEF AllocLoad, AllocRetry, AllocSees
    <3> QED BY <2>1, <3>3, <3>4 DEF Abstract!Next, Abstract!Exhausted
  <2> QED BY <2>2, <2>3
<1>2. ASSUME NEW t \in Threads, AllocCas(t) PROVE [Abstract!Next]_(Abstract!vars)
  <2>a. /\ pc[t] = "alloc_cas" /\ pc' = [pc EXCEPT ![t] = "alloc_reset"]
        /\ UNCHANGED <<owned, failures, old, arg>>
    BY <1>2 DEF AllocCas, Goto
  <2>1. HeldBy(t) = {} /\ HeldBy(t)' = {old[t].index}
    BY <2>a DEF IInv, TypeOK, HeldBy, Allocating, Deallocating
  <2>2. \A u \in Threads \ {t} : HeldBy(u)' = HeldBy(u)
    BY <2>a DEF IInv, TypeOK, HeldBy, Allocating, Deallocating
  <2>3. Taken' = Taken \cup {old[t].index}
    BY <2>a, <2>1, <2>2 DEF Taken
  <2>4. old[t].index \in Free
    <3>1. head = old[t] /\ head.index # kInvalidIndex
      BY <1>2, <2>a DEF AllocCas, CasMatches, IInv, FreshNext
    <3>2. stack # <<>> /\ stack[1] = old[t].index
      BY <3>1 DEF IInv, ListIsStack
    <3>3. 1 \in 1 .. Len(stack)
      BY <3>2 DEF IInv, TypeOK
    <3> QED BY <3>2, <3>3, Zenon DEF Free
  <2>5. old[t].index \in Index /\ old[t].index \notin Taken
    BY <1>f, <2>4 DEF IInv, TypeOK, Free
  <2>6. Abstract!Allocate(old[t].index)
    BY <2>a, <2>3, <2>5 DEF Abstract!Allocate
  <2> QED BY <2>5, <2>6 DEF Abstract!Next
<1>3. ASSUME NEW t \in Threads, DeallocCas(t) PROVE [Abstract!Next]_(Abstract!vars)
  <2>a. /\ pc[t] = "dealloc_cas" /\ pc' = [pc EXCEPT ![t] = "dealloc_count"]
        /\ UNCHANGED <<owned, failures, old, arg>>
    BY <1>3 DEF DeallocCas, Goto
  <2>1. HeldBy(t) = {arg[t]} /\ HeldBy(t)' = {} /\ arg[t] \in Index
    BY <2>a DEF IInv, TypeOK, HeldBy, Allocating, Deallocating
  <2>2. \A u \in Threads \ {t} : HeldBy(u)' = HeldBy(u)
    BY <2>a DEF IInv, TypeOK, HeldBy, Allocating, Deallocating
  <2>3. \A u \in Threads \ {t} : arg[t] \notin HeldBy(u)
    BY <2>1 DEF IInv, NoDoubleAllocation
  <2>4. arg[t] \notin owned /\ arg[t] \in Taken
    BY <2>1 DEF IInv, NoDoubleAllocation, Taken
  <2>5. Taken' = Taken \ {arg[t]}
    BY <2>a, <2>1, <2>2, <2>3, <2>4 DEF Taken
  <2>6. Abstract!Deallocate(arg[t])
    BY <2>a, <2>4, <2>5 DEF Abstract!Deallocate
  <2> QED BY <2>1, <2>6 DEF Abstract!Next
<1>4. ASSUME stack' = stack, failures' = failures PROVE [Abstract!Next]_(Abstract!vars)
  BY <1>4, SameStackSameTaken DEF Abstract!vars
<1>5. ASSUME NEW t \in Threads,
             \/ AllocReadNext(t) \/ AllocReset(t) \/ AllocCount(t)
             \/ DeallocLoad(t) \/ DeallocLink(t) \/ DeallocRetry(t) \/ DeallocCount(t)
             \/ \E i \in Index : DeallocReset(t, i)
      PROVE  [Abstract!Next]_(Abstract!vars)
  BY <1>4, <1>5 DEF AllocReadNext, AllocReset, AllocCount, DeallocLoad, DeallocLink,
                    DeallocRetry, DeallocCount, DeallocReset
<1>6. ASSUME NEW i \in Index, Use(i) PROVE [Abstract!Next]_(Abstract!vars)
  BY <1>4, <1>6 DEF Use
<1> QED BY <1>0, <1>1, <1>2, <1>3, <1>5, <1>6 DEF Next, Proceed

\* The allocator implements the abstract pool of slots: it never hands out a
\* slot that is taken and never reports exhaustion while a slot is free.
THEOREM Refinement == Spec => ImplementsAbstractSlab
<1>1. Init => Abstract!Init
  <2> SUFFICES ASSUME Init PROVE Abstract!Init
    OBVIOUS
  <2>1. Taken = {}
    BY DEF Init, Taken, HeldBy, Allocating, Deallocating
  <2> QED BY <2>1 DEF Init, Abstract!Init
<1>2. IInv /\ IInv' /\ [Next]_vars => [Abstract!Next]_(Abstract!vars)
  BY StepAbstract
<1> QED BY <1>1, <1>2, Safety, PTL DEF Spec, ImplementsAbstractSlab, Abstract!Spec

-----------------------------------------------------------------------------
(* The parts of the invariant, and the counter *)

\* The list that starts at head_ is the stack of free slots, whatever loads and
\* compare-exchanges of other threads come in between.
THEOREM SlabListIsStack == Spec => []ListIsStack
<1>1. IInv => ListIsStack
  BY DEF IInv
<1> QED BY <1>1, Safety, PTL

\* Every slot is free, owned or held by a call in progress.
THEOREM SlabNoLeak == Spec => []NoLeak
<1>1. IInv => NoLeak
  BY DEF IInv
<1> QED BY <1>1, Safety, PTL

\* The link that allocate() read is still the top slot's link whenever its
\* compare-exchange can succeed: the tag rules the ABA problem out.
THEOREM SlabFreshNext == Spec => []FreshNext
<1>1. IInv => FreshNext
  BY DEF IInv
<1> QED BY <1>1, Safety, PTL

\* A slot on the free list, or on its way to it, has been reset.
THEOREM SlabFreeNodesReset == Spec => []FreeNodesReset
<1>1. IInv => FreeNodesReset
  BY DEF IInv
<1> QED BY <1>1, Safety, PTL

\* Euclidean division, which the provers know of a constant divisor only.
LEMMA Division ==
    ASSUME NEW M \in Nat, M > 0, NEW D \in Int
    PROVE  D = M * (D \div M) + (D % M) /\ D % M \in 0 .. M - 1 /\ D \div M \in Int
OBVIOUS

LEMMA Remainder ==
    ASSUME NEW M \in Nat, M > 0, NEW q \in Int, NEW r \in 0 .. M - 1
    PROVE  (M * q + r) % M = r
OBVIOUS

LEMMA Distribute ==
    ASSUME NEW M \in Nat, NEW p \in Int, NEW q \in Int
    PROVE  M * (p + q) = M * p + M * q /\ M * p \in Int /\ M * q \in Int /\ M * (p + q) \in Int
OBVIOUS

\* A counter kept modulo M counts modulo M, upwards ...
LEMMA ModAdd ==
    ASSUME NEW M \in Nat, M > 0, NEW D \in Int, NEW e \in Int
    PROVE  ((D % M) + e) % M = (D + e) % M
<1> DEFINE q == D \div M
           r == D % M
           p == (r + e) \div M
           s == (r + e) % M
<1>1. D = M * q + r /\ r \in 0 .. M - 1 /\ q \in Int
  BY Division
<1>2. r + e \in Int
  BY <1>1
<1>3. r + e = M * p + s /\ s \in 0 .. M - 1 /\ p \in Int
  <2> HIDE DEF r
  <2> QED BY <1>2, Division
<1> HIDE DEF q, r, p
<1>4. M * (q + p) = M * q + M * p /\ M * q \in Int /\ M * p \in Int /\ q + p \in Int
  BY <1>1, <1>3, Distribute
<1> HIDE DEF s
<1>5. D + e = M * (q + p) + s
  BY <1>1, <1>3, <1>4
<1>6. (M * (q + p) + s) % M = s
  BY <1>3, <1>4, Remainder
<1> QED BY <1>5, <1>6 DEF s, r

\* ... and downwards, as fetch_sub does.
LEMMA ModSub ==
    ASSUME NEW M \in Nat, M > 0, NEW D \in Int
    PROVE  ((D % M) + M - 1) % M = (D - 1) % M
<1> DEFINE q == (D - 1) \div M
           r == (D - 1) % M
<1>1. D - 1 = M * q + r /\ r \in 0 .. M - 1 /\ q \in Int
  BY Division
<1> HIDE DEF q, r
<1>2. M * (q + 1) = M * q + M * 1 /\ M * 1 = M /\ M * q \in Int
  BY <1>1, Distribute
<1>3. D + (M - 1) = M * (q + 1) + r /\ q + 1 \in Int
  BY <1>1, <1>2
<1>4. (M * (q + 1) + r) % M = r
  BY <1>1, <1>3, Remainder
<1>5. ((D % M) + (M - 1)) % M = (D + (M - 1)) % M
  <2>1. M - 1 \in Int
    OBVIOUS
  <2> QED BY <2>1, ModAdd
<1>6. D % M \in 0 .. M - 1
  BY Division
<1>7. (D % M) + (M - 1) = (D % M) + M - 1
  BY <1>6
<1> QED BY <1>3, <1>4, <1>5, <1>7 DEF r

Popped == {t \in Threads : Allocating(t)}

Pushed == {t \in Threads : pc[t] = "dealloc_count"}

\* The list's length and the calls that have yet to count.
Due == Len(stack) + Cardinality(Popped) - Cardinality(Pushed)

CountDue == free_count = Due % CountMod

\* How a step of thread t to a label changes the two sets.
LEMMA GotoSets ==
    ASSUME pc \in [Threads -> Labels], NEW t \in Threads, NEW label, Goto(t, label)
    PROVE  /\ Popped' = IF label \in {"alloc_reset", "alloc_count"}
                        THEN Popped \cup {t} ELSE Popped \ {t}
           /\ Pushed' = IF label = "dealloc_count" THEN Pushed \cup {t} ELSE Pushed \ {t}
BY DEF Goto, Popped, Pushed, Allocating

\* A set of threads with one more or one less.
LEMMA CountThreads ==
    ASSUME NEW S \in SUBSET Threads, NEW t
    PROVE  /\ Cardinality(S) \in Nat
           /\ t \notin S => Cardinality(S \cup {t}) = Cardinality(S) + 1
           /\ t \in S => Cardinality(S \ {t}) = Cardinality(S) - 1
           /\ t \notin S => S \ {t} = S
<1>1. IsFiniteSet(S)
  BY ThreadsAssumption, FS_Subset
<1>2. Cardinality(S) \in Nat
  BY <1>1, FS_CardinalityType
<1>3. t \notin S => Cardinality(S \cup {t}) = Cardinality(S) + 1
  BY <1>1, FS_AddElement
<1>4. t \in S => Cardinality(S \ {t}) = Cardinality(S) - 1
  BY <1>1, FS_RemoveElement
<1>5. t \notin S => S \ {t} = S
  OBVIOUS
<1> QED BY <1>2, <1>3, <1>4, <1>5

LEMMA StepCount == IInv /\ CountAccounting /\ [Next]_vars => CountAccounting'
<1> SUFFICES ASSUME IInv, CountDue, [Next]_vars
             PROVE  CountDue'
  BY DEF CountAccounting, CountDue, Due, Popped, Pushed
<1>t. /\ pc \in [Threads -> Labels] /\ stack \in Seq(Index) /\ Len(stack) \in Nat
      /\ CountMod \in Nat /\ CountMod > 0
  BY CountAssumption, CapacityAssumption DEF IInv, TypeOK
<1>s. Popped \in SUBSET Threads /\ Pushed \in SUBSET Threads
  BY DEF Popped, Pushed
<1>c. Cardinality(Popped) \in Nat /\ Cardinality(Pushed) \in Nat
  BY <1>s, CountThreads
<1>d. Due \in Int
  BY <1>t, <1>c DEF Due
<1>same. ASSUME free_count' = free_count, Due' = Due PROVE CountDue'
  BY <1>same DEF CountDue
<1>0. CASE UNCHANGED pc /\ UNCHANGED <<stack, free_count>>
  <2>1. Popped' = Popped /\ Pushed' = Pushed
    BY <1>0 DEF Popped, Pushed, Allocating
  <2>2. Due' = Due
    BY <1>0, <2>1 DEF Due
  <2> QED BY <1>0, <1>same, <2>2
<1>1. ASSUME NEW t \in Threads, NEW label, Goto(t, label), UNCHANGED <<stack, free_count>>,
             \/ /\ pc[t] \notin {"alloc_reset", "alloc_count", "dealloc_count"}
                /\ label \notin {"alloc_reset", "alloc_count", "dealloc_count"}
             \/ pc[t] = "alloc_reset" /\ label = "alloc_count"
      PROVE  CountDue'
  <2>1. /\ Popped' = IF label \in {"alloc_reset", "alloc_count"} THEN Popped \cup {t} ELSE Popped \ {t}
        /\ Pushed' = IF label = "dealloc_count" THEN Pushed \cup {t} ELSE Pushed \ {t}
    BY <1>t, <1>1, GotoSets
  <2>2. Popped' = Popped /\ Pushed' = Pushed
    <3>1. CASE pc[t] = "alloc_reset" /\ label = "alloc_count"
      <4>1. t \in Popped /\ t \notin Pushed
        BY <3>1 DEF Popped, Pushed, Allocating
      <4> QED BY <2>1, <3>1, <4>1
    <3>2. CASE /\ pc[t] \notin {"alloc_reset", "alloc_count", "dealloc_count"}
               /\ label \notin {"alloc_reset", "alloc_count", "dealloc_count"}
      <4>1. t \notin Popped /\ t \notin Pushed
        BY <3>2 DEF Popped, Pushed, Allocating
      <4> QED BY <2>1, <3>2, <4>1
    <3> QED BY <1>1, <3>1, <3>2
  <2>3. Due' = Due
    BY <1>1, <2>2 DEF Due
  <2> QED BY <1>1, <1>same, <2>3
<1>2. ASSUME NEW t \in Threads, AllocCas(t) PROVE CountDue'
  <2>1. /\ pc[t] = "alloc_cas" /\ Goto(t, "alloc_reset") /\ free_count' = free_count
        /\ stack' = Tail(stack) /\ head = old[t]
    BY <1>2 DEF AllocCas, CasMatches
  <2>2. stack # <<>>
    BY <2>1 DEF IInv, FreshNext, ListIsStack
  <2>3. Len(stack') = Len(stack) - 1
    BY <1>t, <2>1, <2>2
  <2>4. Popped' = Popped \cup {t} /\ Pushed' = Pushed \ {t}
    BY <1>t, <2>1, GotoSets
  <2>5. t \notin Popped /\ t \notin Pushed
    BY <2>1, Zenon DEF Popped, Pushed, Allocating
  <2>6. Cardinality(Popped') = Cardinality(Popped) + 1 /\ Cardinality(Pushed') = Cardinality(Pushed)
    BY <1>s, <2>4, <2>5, CountThreads
  <2>7. Due' = Due
    BY <1>t, <1>c, <2>3, <2>6 DEF Due
  <2> QED BY <1>same, <2>1, <2>7
<1>3. ASSUME NEW t \in Threads, DeallocCas(t) PROVE CountDue'
  <2>1. /\ pc[t] = "dealloc_cas" /\ Goto(t, "dealloc_count") /\ free_count' = free_count
        /\ stack' = <<arg[t]>> \o stack /\ arg[t] \in Index
    BY <1>3 DEF DeallocCas, IInv, TypeOK
  <2>2. Len(stack') = Len(stack) + 1
    <3>1. stack \in Seq(Index) /\ arg[t] \in Index
      BY <1>t, <2>1
    <3>2. Len(<<arg[t]>> \o stack) = Len(stack) + 1
      BY ONLY <3>1
    <3> QED BY <2>1, <3>2
  <2>4. Popped' = Popped \ {t} /\ Pushed' = Pushed \cup {t}
    BY <1>t, <2>1, GotoSets
  <2>5. t \notin Popped /\ t \notin Pushed
    BY <2>1, Zenon DEF Popped, Pushed, Allocating
  <2>6. Cardinality(Popped') = Cardinality(Popped) /\ Cardinality(Pushed') = Cardinality(Pushed) + 1
    BY <1>s, <2>4, <2>5, CountThreads
  <2>7. Due' = Due
    BY <1>t, <1>c, <2>2, <2>6 DEF Due
  <2> QED BY <1>same, <2>1, <2>7
<1>4. ASSUME NEW t \in Threads, AllocCount(t) PROVE CountDue'
  <2>1. /\ pc[t] = "alloc_count" /\ Goto(t, "idle") /\ stack' = stack
        /\ free_count' = (free_count + CountMod - 1) % CountMod
    BY <1>4 DEF AllocCount
  <2>4. Popped' = Popped \ {t} /\ Pushed' = Pushed \ {t}
    BY <1>t, <2>1, GotoSets
  <2>5. t \in Popped /\ t \notin Pushed
    BY <2>1, Zenon DEF Popped, Pushed, Allocating
  <2>6. Cardinality(Popped') = Cardinality(Popped) - 1 /\ Cardinality(Pushed') = Cardinality(Pushed)
    BY <1>s, <2>4, <2>5, CountThreads
  <2>7. Due' = Due - 1
    BY <1>t, <1>c, <2>1, <2>6 DEF Due
  <2>8. ((Due % CountMod) + CountMod - 1) % CountMod = (Due - 1) % CountMod
    BY <1>t, <1>d, ModSub
  <2> QED BY <2>1, <2>7, <2>8 DEF CountDue
<1>5. ASSUME NEW t \in Threads, DeallocCount(t) PROVE CountDue'
  <2>1. /\ pc[t] = "dealloc_count" /\ Goto(t, "idle") /\ stack' = stack
        /\ free_count' = (free_count + 1) % CountMod
    BY <1>5 DEF DeallocCount
  <2>4. Popped' = Popped \ {t} /\ Pushed' = Pushed \ {t}
    BY <1>t, <2>1, GotoSets
  <2>5. t \notin Popped /\ t \in Pushed
    BY <2>1, Zenon DEF Popped, Pushed, Allocating
  <2>6. Cardinality(Popped') = Cardinality(Popped) /\ Cardinality(Pushed') = Cardinality(Pushed) - 1
    BY <1>s, <2>4, <2>5, CountThreads
  <2>7. Due' = Due + 1
    BY <1>t, <1>c, <2>1, <2>6 DEF Due
  <2>8. ((Due % CountMod) + 1) % CountMod = (Due + 1) % CountMod
    <3>1. 1 \in Int /\ Due \in Int /\ CountMod \in Nat /\ CountMod > 0
      BY <1>t, <1>d
    <3> QED BY ONLY <3>1, ModAdd
  <2> QED BY <2>1, <2>7, <2>8 DEF CountDue
<1>6. ASSUME NEW t \in Threads, AllocLoad(t) \/ AllocRetry(t) PROVE CountDue'
  <2>1. /\ pc[t] \in {"idle", "alloc_cas"} /\ UNCHANGED <<stack, free_count>>
        /\ Goto(t, "idle") \/ Goto(t, "alloc_read")
    BY <1>6 DEF AllocLoad, AllocRetry, AllocSees
  <2> QED BY <1>1, <2>1
<1>7. ASSUME NEW t \in Threads, AllocReadNext(t) \/ AllocReset(t) PROVE CountDue'
  <2>1. /\ UNCHANGED <<stack, free_count>>
        /\ \/ pc[t] = "alloc_read" /\ Goto(t, "alloc_cas")
           \/ pc[t] = "alloc_reset" /\ Goto(t, "alloc_count")
    BY <1>7 DEF AllocReadNext, AllocReset
  <2> QED BY <1>1, <2>1
<1>8. ASSUME NEW t \in Threads,
             DeallocLoad(t) \/ DeallocLink(t) \/ DeallocRetry(t) \/ \E i \in Index : DeallocReset(t, i)
      PROVE  CountDue'
  <2>1. /\ UNCHANGED <<stack, free_count>>
        /\ pc[t] \in {"idle", "dealloc_load", "dealloc_link", "dealloc_cas"}
        /\ Goto(t, "dealloc_load") \/ Goto(t, "dealloc_link") \/ Goto(t, "dealloc_cas")
    BY <1>8 DEF DeallocLoad, DeallocLink, DeallocRetry, DeallocReset
  <2> QED BY <1>1, <2>1
<1>9. ASSUME NEW i \in Index, Use(i) PROVE CountDue'
  BY <1>0, <1>9 DEF Use
<1>10. CASE UNCHANGED vars
  BY <1>0, <1>10 DEF vars
<1> QED BY <1>2, <1>3, <1>4, <1>5, <1>6, <1>7, <1>8, <1>9, <1>10 DEF Next, Proceed

\* free_count_ is the length of the free list, up to the calls between their
\* compare-exchange and their counter update, modulo 2^32: fetch_sub and
\* fetch_add of any number of threads never drift away from the list.
THEOREM SlabCountAccounting == Spec => []CountAccounting
<1>1. Init => CountAccounting
  <2> SUFFICES ASSUME Init PROVE free_count = Due % CountMod
    BY DEF CountAccounting, Due, Popped, Pushed
  <2>1. Popped = {} /\ Pushed = {}
    BY DEF Init, Popped, Pushed, Allocating
  <2>2. Cardinality(Popped) = 0 /\ Cardinality(Pushed) = 0
    BY <2>1, FS_EmptySet
  <2>3. Len(stack) = Capacity
    BY CapacityAssumption DEF Init
  <2>4. Due = Capacity /\ free_count = Capacity
    BY <2>2, <2>3, CapacityAssumption DEF Due, Init
  <2>5. Capacity % CountMod = Capacity
    BY CapacityAssumption, CountAssumption
  <2> QED BY <2>4, <2>5
<1> QED BY <1>1, Safety, StepCount, PTL DEF Spec
=============================================================================
