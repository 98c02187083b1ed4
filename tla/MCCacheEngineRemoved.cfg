CONSTANTS
    Keys = {k1, k2}
    Values = {v1, v2}
    NoValue = NoValue
    NoKey = NoKey
    NoItem = NoItem
    Clients = {c1}
    L2Stripes = {0}
    L2Stripe <- OneStripe
    L2Capacity = 1
    QueueThreshold = 1
    BatchMax = 2
    MaxOps = 5
SPECIFICATION Spec
CHECK_DEADLOCK FALSE
PROPERTY RemovedStaysRemoved
