-------------------------- MODULE DemotionDrainer --------------------------
(***************************************************************************)
(* The background thread that moves demoted items into L2                  *)
(* (src/demotion_drainer.cpp), with the stripes that push and the threads  *)
(* that stop it.  The queue is the bounded FIFO that DemotionQueue         *)
(* implements.  The insert function of the engine takes a lock per item,   *)
(* so the items of a batch arrive one step at a time.                      *)
(*                                                                         *)
(* The thread sleeps in wait_for(1ms, predicate) on a condition variable.  *)
(* stop() notifies without holding the mutex of the condition variable, so *)
(* a notification that comes after the predicate was evaluated and before  *)
(* the thread sleeps is lost; the time-out makes up for it.                *)
(***************************************************************************)
EXTENDS Integers, Sequences

CONSTANTS
    Threshold,   \* items the queue accepts
    BatchMax,    \* 64 in the code
    Stoppers,    \* threads that call stop() or the destructor
    MaxItems     \* bound of the model: items pushed in all

VARIABLES
    queue, io,      \* the queue, and what its last operation moved
    running,        \* running_
    drained,        \* drained_
    pc,             \* where the drainer thread is
    batch,          \* the popped items that are not yet in L2
    size,           \* popped: how many items the batch had
    stop,           \* where each stopper is
    accepted,       \* auxiliary: every item the queue has accepted
    delivered,      \* auxiliary: every item insert_fn_ has put into L2
    before          \* auxiliary: how many items were accepted when running_ became false

drainVars == <<drained, pc, batch, size, delivered>>
vars == <<queue, io, running, drainVars, stop, accepted, before>>

ASSUME ThresholdAssumption == Threshold \in Nat /\ BatchMax \in Nat \ {0} /\ MaxItems \in Nat

Items == 1 .. MaxItems

Q == INSTANCE BoundedFifo WITH threshold <- Threshold

Init ==
    /\ Q!Init
    /\ running = TRUE
    /\ drained = 0
    /\ pc = "loop" /\ batch = <<>> /\ size = 0
    /\ stop = [s \in Stoppers |-> "idle"]
    /\ accepted = <<>> /\ delivered = <<>>
    /\ before = MaxItems + 1

Goto(label) == pc' = label

-----------------------------------------------------------------------------
\* A stripe demotes its next item; the queue takes it or drops it.
Push ==
    /\ Len(accepted) < MaxItems
    /\ Q!Accept(Len(accepted) + 1)
    /\ accepted' = Append(accepted, Len(accepted) + 1)
    /\ UNCHANGED <<running, drainVars, stop, before>>

PushDropped ==
    /\ Q!Drop
    /\ UNCHANGED <<running, drainVars, stop, accepted, before>>

-----------------------------------------------------------------------------
(* run() *)

\* Faulty: the thread ends without the final drain.
LoopTestSkipsFinal ==
    /\ pc = "loop"
    /\ Goto(IF running THEN "work" ELSE "exited")
    /\ UNCHANGED <<queue, io, running, drained, batch, size, stop, accepted, delivered, before>>

LoopTest ==
    /\ pc = "loop"
    /\ Goto(IF running THEN "work" ELSE "final")
    /\ UNCHANGED <<queue, io, running, drained, batch, size, stop, accepted, delivered, before>>

BatchSize == IF Len(queue) < BatchMax THEN Len(queue) ELSE BatchMax

\* try_pop_batch in the loop, or in the final drain: a batch to deliver, or
\* nothing, in which case the loop sleeps and the final drain ends.
PopBatch ==
    /\ pc \in {"work", "final"}
    /\ Q!Take(BatchSize)
    /\ batch' = io'.out
    /\ size' = BatchSize
    /\ Goto(IF BatchSize > 0
            THEN IF pc = "work" THEN "deliver" ELSE "deliver_final"
            ELSE IF pc = "work" THEN "sleep" ELSE "exited")
    /\ UNCHANGED <<running, drained, stop, accepted, delivered, before>>

\* Faulty: the batch is handled from its end.
DeliverNewestFirst ==
    /\ pc \in {"deliver", "deliver_final"}
    /\ batch # <<>>
    /\ delivered' = Append(delivered, batch[Len(batch)])
    /\ batch' = SubSeq(batch, 1, Len(batch) - 1)
    /\ UNCHANGED <<queue, io, running, drained, pc, size, stop, accepted, before>>

\* insert_fn_ handles one more item of the batch.
Deliver ==
    /\ pc \in {"deliver", "deliver_final"}
    /\ batch # <<>>
    /\ delivered' = Append(delivered, Head(batch))
    /\ batch' = Tail(batch)
    /\ UNCHANGED <<queue, io, running, drained, pc, size, stop, accepted, before>>

\* The batch is done and counted.
Count ==
    /\ pc \in {"deliver", "deliver_final"}
    /\ batch = <<>>
    /\ drained' = drained + size
    /\ Goto(IF pc = "deliver" THEN "loop" ELSE "final")
    /\ UNCHANGED <<queue, io, running, batch, size, stop, accepted, delivered, before>>

\* The predicate of wait_for: stopped, or something to do.
SleepTest ==
    /\ pc = "sleep"
    /\ Goto(IF ~ running \/ Len(queue) > 0 THEN "loop" ELSE "blocking")
    /\ UNCHANGED <<queue, io, running, drained, batch, size, stop, accepted, delivered, before>>

Block ==
    /\ pc = "blocking"
    /\ Goto("blocked")
    /\ UNCHANGED <<queue, io, running, drained, batch, size, stop, accepted, delivered, before>>

\* Faulty: waits without a time-out.
TimeoutNever == FALSE /\ UNCHANGED vars

\* The millisecond is over: wait_for returns whatever the predicate says.
Timeout ==
    /\ pc = "blocked"
    /\ Goto("loop")
    /\ UNCHANGED <<queue, io, running, drained, batch, size, stop, accepted, delivered, before>>

\* A condition variable may wake up by itself; the predicate is tested again.
SpuriousWakeup ==
    /\ pc = "blocked"
    /\ Goto("sleep")
    /\ UNCHANGED <<queue, io, running, drained, batch, size, stop, accepted, delivered, before>>

-----------------------------------------------------------------------------
\* notify_one: reaches the drainer only if it is asleep.
Wake == Goto(IF pc = "blocked" THEN "sleep" ELSE pc)

\* notify() may be called at any time by any thread.
Notify ==
    /\ Wake
    /\ UNCHANGED <<queue, io, running, drained, batch, size, stop, accepted, delivered, before>>

\* stop(): the exchange; only the first caller goes on.
StopExchange(s) ==
    /\ stop[s] = "idle"
    /\ stop' = [stop EXCEPT ![s] = IF running THEN "notify" ELSE "returned"]
    /\ running' = FALSE
    /\ before' = IF running THEN Len(accepted) ELSE before
    /\ UNCHANGED <<queue, io, drainVars, accepted>>

StopNotify(s) ==
    /\ stop[s] = "notify"
    /\ Wake
    /\ stop' = [stop EXCEPT ![s] = "join"]
    /\ UNCHANGED <<queue, io, running, drained, batch, size, accepted, delivered, before>>

\* Faulty: does not wait for the thread.
StopWithoutJoin(s) ==
    /\ stop[s] = "join"
    /\ stop' = [stop EXCEPT ![s] = "joined"]
    /\ UNCHANGED <<queue, io, running, drainVars, accepted, before>>

StopJoin(s) ==
    /\ stop[s] = "join"
    /\ pc = "exited"
    /\ stop' = [stop EXCEPT ![s] = "joined"]
    /\ UNCHANGED <<queue, io, running, drainVars, accepted, before>>

Drainer == LoopTest \/ PopBatch \/ Deliver \/ Count \/ SleepTest \/ Block \/ Timeout

Next ==
    \/ Push \/ PushDropped
    \/ Drainer \/ SpuriousWakeup \/ Notify
    \/ \E s \in Stoppers : StopExchange(s) \/ StopNotify(s) \/ StopJoin(s)

Spec == Init /\ [][Next]_vars

(***************************************************************************)
(* The drainer and a stopper that has begun are threads the operating      *)
(* system schedules; a sleeping drainer is woken by its time-out.  Nothing *)
(* is assumed of producers, of notify(), of spurious wake-ups or of anyone *)
(* ever calling stop().                                                    *)
(***************************************************************************)
Fairness ==
    /\ WF_vars(Drainer)
    /\ \A s \in Stoppers : WF_vars(StopNotify(s) \/ StopJoin(s))

FairSpec == Spec /\ Fairness

-----------------------------------------------------------------------------
\* Every variable of the drainer has its type.
TypeOK ==
    /\ queue \in Seq(Items) /\ io \in [in : Seq(Items), out : Seq(Items)]
    /\ running \in BOOLEAN
    /\ drained \in 0 .. MaxItems
    /\ pc \in {"loop", "work", "sleep", "blocking", "blocked", "final",
               "deliver", "deliver_final", "exited"}
    /\ batch \in Seq(Items) /\ size \in 0 .. BatchMax
    /\ stop \in [Stoppers -> {"idle", "notify", "join", "joined", "returned"}]
    /\ accepted \in Seq(Items) /\ delivered \in Seq(Items)
    /\ before \in 0 .. MaxItems + 1

\* Nothing is lost, duplicated or reordered between a successful try_push and
\* L2: what was delivered, what is in the batch and what waits in the queue
\* is, in this order, everything that was accepted.
NothingLost == delivered \o batch \o queue = accepted

\* When stop() returns to the caller that joined the thread, every item that
\* was accepted before the call is in L2: the final drain makes up for what
\* the loop left behind.
StopDelivers ==
    \A s \in Stoppers : stop[s] = "joined" => pc = "exited" /\ Len(delivered) >= before

\* Once the thread has been joined nothing is delivered any more.
NoDeliveryAfterJoin ==
    [][(\E s \in Stoppers : stop[s] = "joined") => UNCHANGED <<delivered, drained>>]_vars

\* A stop() that has begun comes to an end, although its notification may be
\* lost.
StopReturns ==
    \A s \in Stoppers : stop[s] \in {"notify", "join"} ~> stop[s] = "joined"

\* While nobody stops the drainer, every accepted item reaches L2, although the
\* engine never calls notify().
EventuallyDelivered ==
    \A n \in 1 .. MaxItems :
        Len(accepted) >= n ~> (Len(delivered) >= n \/ ~ running)
=============================================================================
