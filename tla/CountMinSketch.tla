--------------------------- MODULE CountMinSketch ---------------------------
(***************************************************************************)
(* The frequency sketch on its own (src/count_min_sketch.cpp), beside the  *)
(* exact counts it approximates.                                           *)
(***************************************************************************)
EXTENDS Sketch

VARIABLES
    counters,            \* counters_
    total_increments,    \* total_increments_
    exact                \* auxiliary: the count of each key, halved by each decay

cmsVars == <<counters, total_increments, exact>>

CONSTANT MaxIncrements   \* bound of the model, not of the code

ASSUME BoundAssumption == MaxIncrements \in Nat

CmsInit ==
    /\ counters = ZeroTable
    /\ total_increments = 0
    /\ exact = [k \in Keys |-> 0]

CmsIncrement(k) ==
    /\ total_increments < MaxIncrements
    /\ counters' = Increment(counters, k)
    /\ total_increments' = total_increments + 1
    /\ exact' = [exact EXCEPT ![k] = @ + 1]

CmsDecay ==
    /\ counters' = Decay(counters)
    /\ exact' = [k \in Keys |-> exact[k] \div 2]
    /\ UNCHANGED total_increments

\* Faulty: the counters survive.
CmsResetTotalOnly ==
    /\ total_increments' = 0
    /\ exact' = [k \in Keys |-> 0]
    /\ UNCHANGED counters

CmsReset ==
    /\ counters' = ZeroTable
    /\ total_increments' = 0
    /\ exact' = [k \in Keys |-> 0]

CmsNext == (\E k \in Keys : CmsIncrement(k)) \/ CmsDecay \/ CmsReset

CmsSpec == CmsInit /\ [][CmsNext]_cmsVars

-----------------------------------------------------------------------------
\* Every variable of the sketch has its type.
CmsTypeOK ==
    /\ counters \in Table
    /\ total_increments \in Nat
    /\ exact \in [Keys -> Nat]

\* The sketch errs on one side only: until a counter can have wrapped, the
\* estimate of a key is at least its count, through any mix of increments of
\* colliding keys, decays and resets.
NeverUnderestimates ==
    total_increments < CounterMod => \A k \in Keys : Estimate(counters, k) >= exact[k]

\* Collisions inflate an estimate, but never beyond the increments of all keys
\* since the last reset.
NeverExceedsTotal ==
    \A k \in Keys : Estimate(counters, k) <= total_increments

\* A key's estimate exceeds its count only when every one of its counters is
\* shared: with a row in which no other key hits its column it is exact.
ExactWithoutCollision ==
    total_increments < CounterMod =>
        \A k \in Keys :
            (\E r \in Rows : \A j \in Keys \ {k} : Hash[j][r] # Hash[k][r])
                => Estimate(counters, k) = exact[k]
=============================================================================
