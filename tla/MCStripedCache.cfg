CONSTANTS
    Keys = {0, 1, 2, 3, 4, 5, 6, 7}
    Values = {v1, v2}
    NoValue = NoValue
    NoItem = NoItem
    NoKey = NoKey
    Threads = {t1, t2}
    NumStripes = 2
    Capacities = {2, 6}
    Route <- MCRoute
    Batches <- MCBatches
SPECIFICATION Spec
SYMMETRY Symmetry
VIEW NoReport
INVARIANTS SlotsAccounted HeadroomSuffices
PROPERTIES ImplementsL1Cache
