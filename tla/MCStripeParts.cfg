CONSTANTS
    Slots = {s1, s2, s3, s4, s5}
    Lists = {window, probation, protected}
    kInvalidIndex = kInvalidIndex
    k1 = k1
    k2 = k2
    k3 = k3
    Keys = {k1, k2, k3}
    Rows = {0, 1}
    Cols = {0, 1}
    Hash <- MCHash
    CounterMod = 6
    MaxIncrements = 8
SPECIFICATION PartsSpec
INVARIANTS LinksAgree NeverUnderestimates NeverExceedsTotal ExactWithoutCollision
