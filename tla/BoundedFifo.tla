---------------------------- MODULE BoundedFifo ----------------------------
(***************************************************************************)
(* What the demotion queue promises: a first-in first-out queue that drops *)
(* the item instead of blocking when threshold items are waiting.          *)
(***************************************************************************)
EXTENDS Integers, Sequences

CONSTANT Items

VARIABLES
    threshold, \* fixed when the queue is built
    queue,     \* the items accepted and not yet popped, oldest first
    io         \* what the last operation put in and what it took out

vars == <<threshold, queue, io>>

IO(in, out) == [in |-> in, out |-> out]

Init == threshold \in Nat /\ queue = <<>> /\ io = IO(<<>>, <<>>)

Accept(item) ==
    /\ Len(queue) < threshold
    /\ queue' = Append(queue, item)
    /\ io' = IO(<<item>>, <<>>)

Drop ==
    /\ Len(queue) >= threshold
    /\ io' = IO(<<>>, <<>>)
    /\ UNCHANGED queue

Take(n) ==
    /\ io' = IO(<<>>, SubSeq(queue, 1, n))
    /\ queue' = SubSeq(queue, n + 1, Len(queue))

Next ==
    /\ UNCHANGED threshold
    /\ \/ \E item \in Items : Accept(item)
       \/ Drop
       \/ \E n \in 0 .. Len(queue) : Take(n)

Spec == Init /\ [][Next]_vars
=============================================================================
