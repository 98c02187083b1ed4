CONSTANTS
    k1 = k1
    k2 = k2
    k3 = k3
    k4 = k4
    k5 = k5
    v1 = v1
    v2 = v2
    Keys = {k1, k2, k3, k4, k5}
    Rows = {0}
    Cols = {0, 1}
    Hash <- MCHash
    CounterMod = 8
    Values = {v1, v2}
    Writes <- MCWrites
    Slots = {s1, s2, s3, s4, s5}
    NoSlot = NoSlot
    NoKey = NoKey
    NoValue = NoValue
    NoItem = NoItem
    Capacities = {3, 4}
    WindowPct = 1
    ProbationPct = 20
    DecayInterval = 2
    MaxOthers = 1
    MaxFreq = 2
SPECIFICATION Spec
SYMMETRY SlotSymmetry
VIEW NoReport
INVARIANTS SlotsPlaced IndexAgrees WithinCapacity
PROPERTIES EvictsOnlyUnderPressure GateIsStrict ImplementsL1Cache
