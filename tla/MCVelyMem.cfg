SPECIFICATION Spec
CONSTANTS
    Blocks = {b1, b2, b3}
    Files = {f1}
    NULL = NULL
    MaxSlots = 3
    MaxOpen = 2
SYMMETRY Symmetry
INVARIANTS
    TypeOK
    FreeChainExact
    Tracked
    EntriesLive
    HandlesClosed
    SurvivorsMarked
PROPERTIES
    ProcessMemoryKept
