CONSTANTS
    Threads = {t1, t2}
    Capacity = 2
    kInvalidIndex = 99
    TagMod = 4
    CountMod = 8
SPECIFICATION FairSpec
INVARIANTS ListIsStack NoDoubleAllocation NoLeak FreshNext FreeNodesReset CountAccounting
PROPERTIES ImplementsAbstractSlab LockFree
