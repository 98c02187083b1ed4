CONSTANTS
    Keys = {k1, k2, k3}
    Values = {v1, v2}
    NoValue = NoValue
    NoKey = NoKey
    NoItem = NoItem
    Clients = {c1, c2}
    L2Stripes = {0}
    L2Stripe <- OneStripe
    L2Capacity = 1
    QueueThreshold = 1
    BatchMax = 2
    MaxOps = 5
SPECIFICATION Spec
SYMMETRY Symmetry
INVARIANTS L2WellFormed CoherentUnlessSuspect
PROPERTIES UnsuspectReadsAreFresh
CHECK_DEADLOCK FALSE
