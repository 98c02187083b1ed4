CONSTANTS
    Items = {a, b}
    NoItem = NoItem
    Width = 4
    PosMod = 16
    BatchMax = 2
SPECIFICATION Spec
VIEW NoDrops
INVARIANTS CapacityRounded
PROPERTIES ImplementsFifo
