CONSTANTS
    Threshold = 3
    BatchMax = 2
    Stoppers = {d1, d2}
    MaxItems = 5
SPECIFICATION FairSpec
INVARIANTS NothingLost StopDelivers
PROPERTIES NoDeliveryAfterJoin StopReturns EventuallyDelivered
