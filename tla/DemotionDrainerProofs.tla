----------------------- MODULE DemotionDrainerProofs -----------------------
(***************************************************************************)
(* Proofs about the drainer for any queue, batch size, number of items and *)
(* threads that stop it.                                                   *)
(***************************************************************************)
EXTENDS DemotionDrainer, SequenceTheorems, TLAPS

\* The thread holds no item outside the delivery of a batch.
BatchHeld == pc \notin {"deliver", "deliver_final"} => batch = <<>>

\* drained_ counts the delivered items except those of the batch under way,
\* which is counted once it is done.
DrainedCounts ==
    IF pc \in {"deliver", "deliver_final"}
    THEN Len(batch) <= size /\ drained + (size - Len(batch)) = Len(delivered)
    ELSE drained = Len(delivered)

\* The thread leaves its loop, and stop() goes on, only after the exchange of
\* running_; what was accepted by then stays accepted.
StopOrder ==
    /\ running => /\ pc \notin {"final", "deliver_final", "exited"}
                  /\ \A s \in Stoppers : stop[s] = "idle"
    /\ ~ running => before <= Len(accepted)

\* The thread ends with nothing left of what was accepted before the stop.
ExitDrained == pc = "exited" => Len(delivered) >= before

\* The bound of the model on the items.
ItemsBounded == Len(accepted) <= MaxItems

JoinedExited == \A s \in Stoppers : stop[s] = "joined" => pc = "exited"

DrainInv ==
    /\ TypeOK /\ NothingLost /\ BatchHeld /\ DrainedCounts
    /\ StopOrder /\ ExitDrained /\ ItemsBounded /\ JoinedExited

-----------------------------------------------------------------------------
\* The lengths of the three parts of what was accepted.
LEMMA LostLength ==
    ASSUME NEW S, NEW d \in Seq(S), NEW b \in Seq(S), NEW q \in Seq(S), NEW a, d \o b \o q = a
    PROVE  Len(d) + Len(b) + Len(q) = Len(a)
<1>1. d \o b \in Seq(S) /\ Len(d \o b) = Len(d) + Len(b)
  BY ConcatProperties
<1>2. Len((d \o b) \o q) = Len(d \o b) + Len(q)
  BY <1>1, ConcatProperties
<1> QED BY <1>1, <1>2

\* Pushing at the end of the queue pushes at the end of the whole.
LEMMA PushLost ==
    ASSUME NEW S, NEW d \in Seq(S), NEW b \in Seq(S), NEW q \in Seq(S), NEW x \in S
    PROVE  d \o b \o Append(q, x) = Append(d \o b \o q, x)
<1>1. d \o b \in Seq(S) /\ (d \o b) \o q \in Seq(S) /\ <<x>> \in Seq(S)
  BY ConcatProperties
<1>2. Append(q, x) = q \o <<x>> /\ Append(d \o b \o q, x) = (d \o b \o q) \o <<x>>
  BY <1>1, AppendIsConcat
<1>3. PICK p, t : p = d \o b /\ t = <<x>>
  OBVIOUS
<1>p. p \in Seq(S)
  BY <1>1, <1>3, Zenon
<1>t. t \in Seq(S)
  BY <1>1, <1>3, Zenon
<1>4. (p \o q) \o t = p \o (q \o t)
  BY ONLY <1>p, <1>t, q \in Seq(S)
<1> QED BY <1>2, <1>3, <1>4, Zenon

\* Taking the oldest items of the queue as the batch changes its cut only.
LEMMA TakeLost ==
    ASSUME NEW S, NEW d \in Seq(S), NEW q \in Seq(S), NEW n \in 0 .. Len(q)
    PROVE  /\ SubSeq(q, 1, n) \in Seq(S) /\ Len(SubSeq(q, 1, n)) = n
           /\ SubSeq(q, n + 1, Len(q)) \in Seq(S)
           /\ d \o SubSeq(q, 1, n) \o SubSeq(q, n + 1, Len(q)) = d \o <<>> \o q
<1>0. Len(q) \in Nat /\ \A i \in 1 .. Len(q) : q[i] \in S
  BY LenProperties, ElementOfSeq
<1>1. SubSeq(q, 1, n) \in Seq(S) /\ Len(SubSeq(q, 1, n)) = n
  <2>1. \A i \in 1 .. n : q[i] \in S
    BY <1>0
  <2>2. /\ SubSeq(q, 1, n) \in Seq(S)
        /\ Len(SubSeq(q, 1, n)) = IF 1 <= n THEN n - 1 + 1 ELSE 0
    BY <1>0, <2>1, SubSeqProperties
  <2> QED BY <1>0, <2>2
<1>2. SubSeq(q, n + 1, Len(q)) \in Seq(S)
  <2>1. n + 1 \in Int /\ Len(q) \in Int /\ \A i \in n + 1 .. Len(q) : q[i] \in S
    BY <1>0
  <2> QED BY <2>1, SubSeqProperties
<1>3. SubSeq(q, 1, n) \o SubSeq(q, n + 1, Len(q)) = q
  <2>1. 1 \in 1 .. Len(q) + 1 /\ n \in 1 - 1 .. Len(q) /\ Len(q) \in n .. Len(q)
    BY <1>0
  <2>2. SubSeq(q, 1, n) \o SubSeq(q, n + 1, Len(q)) = SubSeq(q, 1, Len(q))
    BY <2>1, ConcatAdjacentSubSeq
  <2> QED BY <2>2, SubSeqFull
<1>4. (d \o SubSeq(q, 1, n)) \o SubSeq(q, n + 1, Len(q)) = d \o q
  <2> DEFINE x == SubSeq(q, 1, n)
             y == SubSeq(q, n + 1, Len(q))
  <2>x. x \in Seq(S)
    BY <1>1
  <2>y. y \in Seq(S)
    BY <1>2
  <2>e. x \o y = q
    BY <1>3
  <2> HIDE DEF x, y
  <2>2. (d \o x) \o y = d \o (x \o y)
    BY ONLY d \in Seq(S), <2>x, <2>y
  <2>3. (d \o x) \o y = d \o q
    BY <2>e, <2>2, Zenon
  <2> QED BY <2>3 DEF x, y
<1>5. d \o <<>> = d
  BY ConcatEmptySeq
<1> QED BY <1>1, <1>2, <1>4, <1>5

\* Delivering the first item of the batch moves it to the end of what is delivered.
LEMMA DeliverLost ==
    ASSUME NEW S, NEW d \in Seq(S), NEW b \in Seq(S), b # <<>>, NEW q \in Seq(S)
    PROVE  /\ Append(d, Head(b)) \in Seq(S) /\ Len(Append(d, Head(b))) = Len(d) + 1
           /\ Tail(b) \in Seq(S) /\ Len(Tail(b)) = Len(b) - 1
           /\ Append(d, Head(b)) \o Tail(b) \o q = d \o b \o q
<1>1. Head(b) \in S /\ Tail(b) \in Seq(S) /\ Len(Tail(b)) = Len(b) - 1
  BY HeadTailProperties
<1>2. /\ Append(d, Head(b)) = d \o <<Head(b)>> /\ <<Head(b)>> \in Seq(S)
      /\ Append(d, Head(b)) \in Seq(S) /\ Len(Append(d, Head(b))) = Len(d) + 1
  BY <1>1, AppendIsConcat, AppendProperties
<1>3. b = <<Head(b)>> \o Tail(b)
  <2>1. Len(b) \in Nat \ {0}
    BY EmptySeq
  <2>2. 1 \in 1 .. Len(b) /\ Len(b) \in 1 .. Len(b)
    BY <2>1
  <2>3. SubSeq(b, 1, Len(b)) = <<b[1]>> \o SubSeq(b, 1 + 1, Len(b))
    BY <2>2, SubSeqRecursiveFirst
  <2>4. SubSeq(b, 1, Len(b)) = b /\ Tail(b) = SubSeq(b, 2, Len(b)) /\ Head(b) = b[1]
    BY SubSeqFull, TailIsSubSeq
  <2> QED BY <2>3, <2>4
<1>4. (d \o <<Head(b)>>) \o Tail(b) = d \o b
  <2> DEFINE x == <<Head(b)>>
             y == Tail(b)
  <2>x. x \in Seq(S)
    BY <1>2
  <2>y. y \in Seq(S)
    BY <1>1
  <2>e. x \o y = b
    BY <1>3, Zenon
  <2> HIDE DEF x, y
  <2>2. (d \o x) \o y = d \o (x \o y)
    BY ONLY d \in Seq(S), <2>y, <2>x
  <2>3. (d \o x) \o y = d \o b
    BY <2>e, <2>2, Zenon
  <2> QED BY <2>3, Zenon DEF x, y
<1> QED BY <1>1, <1>2, <1>4

-----------------------------------------------------------------------------
LEMMA InitDrainInv == Init => DrainInv
<1> SUFFICES ASSUME Init PROVE DrainInv
  OBVIOUS
<1>1. /\ queue = <<>> /\ io = [in |-> <<>>, out |-> <<>>] /\ running = TRUE /\ drained = 0
      /\ pc = "loop" /\ batch = <<>> /\ size = 0 /\ stop = [s \in Stoppers |-> "idle"]
      /\ accepted = <<>> /\ delivered = <<>> /\ before = MaxItems + 1
  BY DEF Init, Q!Init, Q!IO
<1>2. TypeOK
  BY <1>1, ThresholdAssumption DEF TypeOK
<1>3. NothingLost
  <2>1. delivered \o batch = <<>> /\ (delivered \o batch) \o queue = <<>>
    BY <1>1
  <2> QED BY <1>1, <2>1 DEF NothingLost
<1> QED BY <1>1, <1>2, <1>3, ThresholdAssumption
    DEF DrainInv, BatchHeld, DrainedCounts, StopOrder, ExitDrained, ItemsBounded, JoinedExited

\* The parts of the invariant and the lengths that follow from them.
LEMMA DrainFacts ==
    ASSUME DrainInv
    PROVE  /\ MaxItems \in Nat /\ BatchMax \in Nat \ {0}
           /\ queue \in Seq(Items) /\ batch \in Seq(Items)
           /\ accepted \in Seq(Items) /\ delivered \in Seq(Items)
           /\ Len(queue) \in Nat /\ Len(batch) \in Nat /\ Len(accepted) \in Nat /\ Len(delivered) \in Nat
           /\ drained \in Nat /\ size \in Nat /\ before \in Nat
           /\ delivered \o batch \o queue = accepted
           /\ Len(delivered) + Len(batch) + Len(queue) = Len(accepted)
<1>1. /\ MaxItems \in Nat /\ BatchMax \in Nat \ {0}
      /\ queue \in Seq(Items) /\ batch \in Seq(Items)
      /\ accepted \in Seq(Items) /\ delivered \in Seq(Items)
      /\ drained \in Nat /\ size \in Nat /\ before \in Nat
      /\ delivered \o batch \o queue = accepted
  BY ThresholdAssumption DEF DrainInv, TypeOK, NothingLost
<1>2. Len(queue) \in Nat /\ Len(batch) \in Nat /\ Len(accepted) \in Nat /\ Len(delivered) \in Nat
  BY <1>1, LenProperties
<1>3. Len(delivered) + Len(batch) + Len(queue) = Len(accepted)
  BY <1>1, LostLength
<1> QED BY <1>1, <1>2, <1>3

\* A step that moves the thread without touching an item: to where only an empty
\* batch is allowed, from where the batch was empty.
LEMMA MovesOnly ==
    ASSUME DrainInv,
           pc \notin {"deliver", "deliver_final", "exited"},
           pc' \in {"loop", "work", "sleep", "blocking", "blocked", "final"},
           pc' = "final" => ~ running,
           UNCHANGED <<queue, io, running, drained, batch, size, accepted, delivered, before>>,
           stop' \in [Stoppers -> {"idle", "notify", "join", "joined", "returned"}],
           \A s \in Stoppers : stop'[s] = "joined" => stop[s] = "joined",
           running => \A s \in Stoppers : stop'[s] = "idle"
    PROVE  DrainInv'
<1>1. TypeOK'
  BY DEF DrainInv, TypeOK
<1>2. NothingLost' /\ BatchHeld' /\ DrainedCounts' /\ ItemsBounded'
  BY DEF DrainInv, NothingLost, BatchHeld, DrainedCounts, ItemsBounded
<1>3. StopOrder' /\ ExitDrained' /\ JoinedExited'
  BY DEF DrainInv, StopOrder, ExitDrained, JoinedExited
<1> QED BY <1>1, <1>2, <1>3 DEF DrainInv

LEMMA StepDrainInv == DrainInv /\ [Next]_vars => DrainInv'
<1> SUFFICES ASSUME DrainInv, [Next]_vars PROVE DrainInv'
  OBVIOUS
<1>f. /\ MaxItems \in Nat /\ BatchMax \in Nat \ {0}
      /\ queue \in Seq(Items) /\ batch \in Seq(Items)
      /\ accepted \in Seq(Items) /\ delivered \in Seq(Items)
      /\ Len(queue) \in Nat /\ Len(batch) \in Nat /\ Len(accepted) \in Nat /\ Len(delivered) \in Nat
      /\ drained \in Nat /\ size \in Nat /\ before \in Nat
      /\ delivered \o batch \o queue = accepted
      /\ Len(delivered) + Len(batch) + Len(queue) = Len(accepted)
  BY DrainFacts
<1>s. queue \in Seq(Items) /\ batch \in Seq(Items) /\ delivered \in Seq(Items)
  BY <1>f
<1>t. TypeOK
  BY DEF DrainInv
<1>1. CASE UNCHANGED vars
  BY <1>1 DEF DrainInv, TypeOK, NothingLost, BatchHeld, DrainedCounts, ItemsBounded,
              StopOrder, ExitDrained, JoinedExited, vars, drainVars
<1>2. CASE Push
  <2> DEFINE x == Len(accepted) + 1
  <2>1. /\ Len(accepted) < MaxItems
        /\ queue' = Append(queue, x) /\ io' = [in |-> <<x>>, out |-> <<>>]
        /\ accepted' = Append(accepted, x)
        /\ UNCHANGED <<running, drained, pc, batch, size, delivered, stop, before>>
    BY <1>2 DEF Push, Q!Accept, Q!IO, drainVars
  <2>2. x \in Items
    BY <1>f, <2>1 DEF Items
  <2>x. x = Len(accepted) + 1
    OBVIOUS
  <2> HIDE DEF x
  <2>3. /\ queue' \in Seq(Items) /\ accepted' \in Seq(Items) /\ Len(accepted') = Len(accepted) + 1
    BY <1>f, <2>1, <2>2, AppendProperties
  <2>4. io' \in [in : Seq(Items), out : Seq(Items)]
    BY <2>1, <2>2
  <2>5. TypeOK'
    BY <1>t, <2>1, <2>3, <2>4 DEF TypeOK
  <2>6. NothingLost'
    <3>1. delivered \o batch \o Append(queue, x) = Append(delivered \o batch \o queue, x)
      BY <1>s, <2>2, PushLost
    <3>2. delivered' = delivered /\ batch' = batch
      BY <2>1
    <3> QED BY <1>f, <2>1, <3>1, <3>2, Zenon DEF NothingLost
  <2>7. BatchHeld' /\ DrainedCounts' /\ ExitDrained' /\ JoinedExited'
    BY <2>1 DEF DrainInv, BatchHeld, DrainedCounts, ExitDrained, JoinedExited
  <2>8. StopOrder' /\ ItemsBounded'
    BY <1>f, <2>1, <2>3 DEF DrainInv, StopOrder, ItemsBounded
  <2> QED BY <2>5, <2>6, <2>7, <2>8 DEF DrainInv
<1>3. CASE PushDropped
  <2>1. /\ io' = [in |-> <<>>, out |-> <<>>]
        /\ UNCHANGED <<queue, running, drained, pc, batch, size, delivered, stop, accepted, before>>
    BY <1>3 DEF PushDropped, Q!Drop, Q!IO, drainVars
  <2>2. io' \in [in : Seq(Items), out : Seq(Items)]
    BY <2>1
  <2>3. TypeOK'
    BY <1>t, <2>1, <2>2 DEF TypeOK
  <2> QED BY <2>1, <2>3 DEF DrainInv, NothingLost, BatchHeld, DrainedCounts, ItemsBounded,
              StopOrder, ExitDrained, JoinedExited
<1>4. CASE LoopTest
  <2>1. pc = "loop" /\ pc' = IF running THEN "work" ELSE "final"
    BY <1>4 DEF LoopTest, Goto
  <2>2. UNCHANGED <<queue, io, running, drained, batch, size, accepted, delivered, before>> /\ stop' = stop
    BY <1>4 DEF LoopTest
  <2>3. /\ pc' \in {"loop", "work", "sleep", "blocking", "blocked", "final"}
        /\ pc' = "final" => ~ running
    BY <1>t, <2>1, Zenon DEF TypeOK
  <2> QED BY <1>t, <2>1, <2>2, <2>3, MovesOnly DEF TypeOK, DrainInv, StopOrder
<1>5. CASE SleepTest \/ Block \/ Timeout \/ SpuriousWakeup
  <2>1. /\ pc \in {"sleep", "blocking", "blocked"} /\ pc' \in {"loop", "sleep", "blocking", "blocked"}
        /\ UNCHANGED <<queue, io, running, drained, batch, size, accepted, delivered, before>> /\ stop' = stop
    BY <1>5, Zenon DEF SleepTest, Block, Timeout, SpuriousWakeup, Goto
  <2> QED BY <1>t, <2>1, MovesOnly DEF TypeOK, DrainInv, StopOrder
<1>6. CASE PopBatch
  <2> DEFINE n == BatchSize
  <2>1. /\ pc \in {"work", "final"}
        /\ queue' = SubSeq(queue, n + 1, Len(queue))
        /\ io' = [in |-> <<>>, out |-> SubSeq(queue, 1, n)]
        /\ batch' = SubSeq(queue, 1, n) /\ size' = n
        /\ pc' = IF n > 0 THEN IF pc = "work" THEN "deliver" ELSE "deliver_final"
                  ELSE IF pc = "work" THEN "sleep" ELSE "exited"
        /\ UNCHANGED <<running, drained, stop, accepted, delivered, before>>
    BY <1>6 DEF PopBatch, Q!Take, Q!IO, Goto
  <2>2. n \in 0 .. Len(queue) /\ n \in 0 .. BatchMax /\ (n = 0 => Len(queue) = 0)
    BY <1>f DEF BatchSize
  <2> HIDE DEF n
  <2>3. batch = <<>> /\ Len(batch) = 0
    BY <2>1 DEF DrainInv, BatchHeld
  <2>4. /\ SubSeq(queue, 1, n) \in Seq(Items) /\ Len(SubSeq(queue, 1, n)) = n
        /\ SubSeq(queue, n + 1, Len(queue)) \in Seq(Items)
        /\ delivered \o SubSeq(queue, 1, n) \o SubSeq(queue, n + 1, Len(queue))
             = delivered \o <<>> \o queue
    <3>1. delivered \in Seq(Items) /\ queue \in Seq(Items) /\ n \in 0 .. Len(queue)
      BY <1>s, <2>2
    <3> QED BY ONLY <3>1, TakeLost
  <2>5. /\ n > 0 => pc' = IF pc = "work" THEN "deliver" ELSE "deliver_final"
        /\ n = 0 => pc' = IF pc = "work" THEN "sleep" ELSE "exited"
    BY <2>1, <2>2
  <2>6. pc' \in {"deliver", "deliver_final", "sleep", "exited"}
    BY <2>2, <2>5
  <2>7. TypeOK'
    <3>1. queue' \in Seq(Items) /\ batch' \in Seq(Items) /\ io' \in [in : Seq(Items), out : Seq(Items)]
      BY <2>1, <2>4
    <3> QED BY <1>t, <2>1, <2>2, <2>6, <3>1 DEF TypeOK
  <2>8. NothingLost'
    <3>1. delivered' = delivered /\ accepted' = accepted
      BY <2>1
    <3> QED BY <1>f, <2>1, <2>3, <2>4, <3>1, Zenon DEF NothingLost
  <2>9. BatchHeld'
    <3>1. n = 0 => batch' = <<>>
      BY <2>1, <2>4
    <3> QED BY <2>2, <2>5, <3>1 DEF BatchHeld
  <2>10. DrainedCounts'
    <3>1. drained = Len(delivered)
      BY <2>1 DEF DrainInv, DrainedCounts
    <3>2. Len(batch') = n /\ size' = n /\ drained' = drained /\ delivered' = delivered
      BY <2>1, <2>4
    <3>3. n > 0 <=> pc' \in {"deliver", "deliver_final"}
      BY <2>2, <2>5
    <3> QED BY <1>f, <2>2, <3>1, <3>2, <3>3 DEF DrainedCounts
  <2>11. StopOrder' /\ JoinedExited' /\ ItemsBounded'
    BY <2>1, <2>2, <2>5 DEF DrainInv, StopOrder, JoinedExited, ItemsBounded
  <2>12. ExitDrained'
    <3>1. SUFFICES ASSUME pc' = "exited" PROVE Len(delivered) >= before
      BY <2>1 DEF ExitDrained
    <3>2. n = 0 /\ pc = "final"
      BY <2>1, <2>2, <2>5, <3>1
    <3>3. Len(delivered) = Len(accepted)
      BY <1>f, <2>2, <2>3, <3>2
    <3>4. ~ running
      BY <3>2 DEF DrainInv, StopOrder
    <3> QED BY <1>f, <3>3, <3>4 DEF DrainInv, StopOrder
  <2> QED BY <2>7, <2>8, <2>9, <2>10, <2>11, <2>12 DEF DrainInv
<1>7. CASE Deliver
  <2>1. /\ pc \in {"deliver", "deliver_final"} /\ batch # <<>>
        /\ delivered' = Append(delivered, Head(batch)) /\ batch' = Tail(batch)
        /\ UNCHANGED <<queue, io, running, drained, pc, size, stop, accepted, before>>
    BY <1>7 DEF Deliver
  <2>2. /\ delivered' \in Seq(Items) /\ Len(delivered') = Len(delivered) + 1
        /\ batch' \in Seq(Items) /\ Len(batch') = Len(batch) - 1
        /\ delivered' \o batch' \o queue = delivered \o batch \o queue
    <3>1. /\ Append(delivered, Head(batch)) \in Seq(Items)
          /\ Len(Append(delivered, Head(batch))) = Len(delivered) + 1
          /\ Tail(batch) \in Seq(Items) /\ Len(Tail(batch)) = Len(batch) - 1
          /\ Append(delivered, Head(batch)) \o Tail(batch) \o queue = delivered \o batch \o queue
      <4>1. batch # <<>>
        BY <2>1
      <4> QED BY ONLY <1>s, <4>1, DeliverLost
    <3>2. delivered' = Append(delivered, Head(batch)) /\ batch' = Tail(batch)
      BY <2>1
    <3> QED BY <3>1, <3>2, Zenon
  <2>3. TypeOK'
    BY <1>t, <2>1, <2>2 DEF TypeOK
  <2>4. NothingLost'
    BY <1>f, <2>1, <2>2 DEF NothingLost
  <2>5. BatchHeld' /\ StopOrder' /\ JoinedExited' /\ ItemsBounded' /\ ExitDrained'
    BY <2>1 DEF DrainInv, BatchHeld, StopOrder, JoinedExited, ItemsBounded, ExitDrained
  <2>6. DrainedCounts'
    <3>1. Len(batch) <= size /\ drained + (size - Len(batch)) = Len(delivered)
      BY <2>1 DEF DrainInv, DrainedCounts
    <3>2. Len(batch') <= size /\ drained + (size - Len(batch')) = Len(delivered')
      <4>1. Len(batch') = Len(batch) - 1 /\ Len(delivered') = Len(delivered) + 1
        BY <2>2
      <4>2. drained \in Nat /\ size \in Nat /\ Len(batch) \in Nat /\ Len(delivered) \in Nat
        BY <1>f
      <4> QED BY <3>1, <4>1, <4>2
    <3> QED BY <2>1, <3>2 DEF DrainedCounts
  <2> QED BY <2>3, <2>4, <2>5, <2>6 DEF DrainInv
<1>8. CASE Count
  <2>1. /\ pc \in {"deliver", "deliver_final"} /\ batch = <<>>
        /\ drained' = drained + size
        /\ pc' = IF pc = "deliver" THEN "loop" ELSE "final"
        /\ UNCHANGED <<queue, io, running, batch, size, stop, accepted, delivered, before>>
    BY <1>8 DEF Count, Goto
  <2>2. pc' \in {"loop", "final"} /\ (pc' = "final" => pc = "deliver_final")
    BY <2>1
  <2>3. drained' = Len(delivered)
    <3>1. Len(batch) = 0
      BY <2>1
    <3>2. drained + (size - Len(batch)) = Len(delivered)
      BY <2>1 DEF DrainInv, DrainedCounts
    <3> QED BY <1>f, <2>1, <3>1, <3>2
  <2>4. TypeOK'
    <3>1. Len(delivered) \in 0 .. MaxItems
      BY <1>f DEF DrainInv, ItemsBounded
    <3> QED BY <1>t, <2>1, <2>2, <2>3, <3>1 DEF TypeOK
  <2>5. NothingLost' /\ ItemsBounded' /\ BatchHeld' /\ DrainedCounts'
    BY <2>1, <2>2, <2>3 DEF DrainInv, NothingLost, ItemsBounded, BatchHeld, DrainedCounts
  <2>6. StopOrder' /\ ExitDrained' /\ JoinedExited'
    BY <2>1, <2>2 DEF DrainInv, StopOrder, ExitDrained, JoinedExited
  <2> QED BY <2>4, <2>5, <2>6 DEF DrainInv
<1>9. ASSUME Wake, UNCHANGED <<queue, io, running, drained, batch, size, accepted, delivered, before>>,
             stop' \in [Stoppers -> {"idle", "notify", "join", "joined", "returned"}],
             \A s \in Stoppers : stop'[s] = "joined" => stop[s] = "joined",
             running => \A s \in Stoppers : stop'[s] = "idle"
      PROVE  DrainInv'
  <2>1. CASE pc = "blocked"
    <3>1. pc' = "sleep"
      BY <1>9, <2>1 DEF Wake, Goto
    <3> QED BY <1>9, <2>1, <3>1, MovesOnly
  <2>2. CASE pc # "blocked"
    <3>1. pc' = pc
      BY <1>9, <2>2 DEF Wake, Goto
    <3>2. TypeOK' /\ NothingLost' /\ BatchHeld' /\ DrainedCounts' /\ ItemsBounded'
      BY <1>9, <3>1 DEF DrainInv, TypeOK, NothingLost, BatchHeld, DrainedCounts, ItemsBounded
    <3>3. StopOrder' /\ ExitDrained' /\ JoinedExited'
      BY <1>9, <3>1 DEF DrainInv, StopOrder, ExitDrained, JoinedExited
    <3> QED BY <3>2, <3>3 DEF DrainInv
  <2> QED BY <2>1, <2>2
<1>10. CASE Notify
  <2>1. /\ Wake /\ stop' = stop
        /\ UNCHANGED <<queue, io, running, drained, batch, size, accepted, delivered, before>>
    BY <1>10 DEF Notify
  <2> QED BY <1>t, <1>9, <2>1 DEF TypeOK, DrainInv, StopOrder
<1>11. ASSUME NEW s \in Stoppers, StopExchange(s) PROVE DrainInv'
  <2>1. /\ stop[s] = "idle"
        /\ stop' = [stop EXCEPT ![s] = IF running THEN "notify" ELSE "returned"]
        /\ running' = FALSE
        /\ before' = IF running THEN Len(accepted) ELSE before
        /\ UNCHANGED <<queue, io, drained, pc, batch, size, delivered, accepted>>
    BY <1>11 DEF StopExchange, drainVars
  <2>2. /\ stop' \in [Stoppers -> {"idle", "notify", "join", "joined", "returned"}]
        /\ \A r \in Stoppers : stop'[r] = "joined" => stop[r] = "joined"
    BY <1>t, <2>1 DEF TypeOK
  <2>3. before' \in 0 .. MaxItems + 1
    BY <1>t, <1>f, <2>1 DEF TypeOK, DrainInv, ItemsBounded
  <2>4. TypeOK'
    BY <1>t, <2>1, <2>2, <2>3 DEF TypeOK
  <2>5. NothingLost' /\ BatchHeld' /\ DrainedCounts' /\ ItemsBounded'
    BY <2>1 DEF DrainInv, NothingLost, BatchHeld, DrainedCounts, ItemsBounded
  <2>6. StopOrder' /\ ExitDrained'
    BY <1>f, <2>1 DEF DrainInv, StopOrder, ExitDrained
  <2>7. JoinedExited'
    BY <2>1, <2>2 DEF DrainInv, JoinedExited
  <2> QED BY <2>4, <2>5, <2>6, <2>7 DEF DrainInv
<1>12. ASSUME NEW s \in Stoppers, StopNotify(s) PROVE DrainInv'
  <2>1. /\ stop[s] = "notify" /\ Wake /\ stop' = [stop EXCEPT ![s] = "join"]
        /\ UNCHANGED <<queue, io, running, drained, batch, size, accepted, delivered, before>>
    BY <1>12 DEF StopNotify
  <2>2. ~ running
    BY <2>1 DEF DrainInv, StopOrder
  <2>3. /\ stop' \in [Stoppers -> {"idle", "notify", "join", "joined", "returned"}]
        /\ \A r \in Stoppers : stop'[r] = "joined" => stop[r] = "joined"
    BY <1>t, <2>1 DEF TypeOK
  <2> QED BY <1>9, <2>1, <2>2, <2>3
<1>13. ASSUME NEW s \in Stoppers, StopJoin(s) PROVE DrainInv'
  <2>1. /\ stop[s] = "join" /\ pc = "exited" /\ stop' = [stop EXCEPT ![s] = "joined"]
        /\ UNCHANGED <<queue, io, running, drained, pc, batch, size, delivered, accepted, before>>
    BY <1>13 DEF StopJoin, drainVars
  <2>2. stop' \in [Stoppers -> {"idle", "notify", "join", "joined", "returned"}]
    BY <1>t, <2>1 DEF TypeOK
  <2>3. TypeOK' /\ NothingLost' /\ BatchHeld' /\ DrainedCounts' /\ ItemsBounded'
    BY <1>t, <2>1, <2>2 DEF DrainInv, TypeOK, NothingLost, BatchHeld, DrainedCounts, ItemsBounded
  <2>4. StopOrder' /\ ExitDrained' /\ JoinedExited'
    BY <2>1 DEF DrainInv, StopOrder, ExitDrained, JoinedExited
  <2> QED BY <2>3, <2>4 DEF DrainInv
<1> QED BY <1>1, <1>2, <1>3, <1>4, <1>5, <1>6, <1>7, <1>8, <1>10, <1>11, <1>12, <1>13
    DEF Next, Drainer

LEMMA AlwaysDrainInv == Spec => []DrainInv
<1>1. Init => DrainInv
  BY InitDrainInv
<1>2. DrainInv /\ [Next]_vars => DrainInv'
  BY StepDrainInv
<1> QED BY <1>1, <1>2, PTL DEF Spec

\* Between try_push and insert_fn_ nothing is lost, duplicated or reordered, for
\* any queue, batch size, interleaving of producers and stoppers, and wake-ups.
THEOREM DrainerNothingLost == Spec => []NothingLost
<1>1. DrainInv => NothingLost
  BY DEF DrainInv
<1> QED BY <1>1, AlwaysDrainInv, PTL

\* When the stop() that joins the thread returns, whatever was accepted before
\* its exchange is in L2, for any number of racing stop() calls.
THEOREM DrainerStopDelivers == Spec => []StopDelivers
<1>1. DrainInv => StopDelivers
  BY DEF DrainInv, JoinedExited, ExitDrained, StopDelivers
<1> QED BY <1>1, AlwaysDrainInv, PTL

\* insert_fn_, and with it the engine's L2, is not called after the join.
THEOREM DrainerNoDeliveryAfterJoin == Spec => NoDeliveryAfterJoin
<1>1. ASSUME DrainInv, [Next]_vars
      PROVE  [(\E s \in Stoppers : stop[s] = "joined") => UNCHANGED <<delivered, drained>>]_vars
  <2> SUFFICES ASSUME NEW s \in Stoppers, stop[s] = "joined", Next
               PROVE  UNCHANGED <<delivered, drained>>
    BY <1>1
  <2>1. pc = "exited"
    BY <1>1 DEF DrainInv, JoinedExited
  <2>2. ~ Deliver /\ ~ Count
    BY <2>1 DEF Deliver, Count
  <2> QED BY <2>2 DEF Next, Drainer, Push, PushDropped, LoopTest, PopBatch, SleepTest, Block, Timeout,
             SpuriousWakeup, Notify, StopExchange, StopNotify, StopJoin, drainVars
<1> QED BY <1>1, AlwaysDrainInv, PTL DEF Spec, NoDeliveryAfterJoin
=============================================================================
