CONSTANTS
    WORD = 256
    PAGE_SIZE = 8
    HDR = 1
    NODE = 2
    Heaps <- MCHeaps
    Sizes = {2, 4}
    AlignedSizes = {3}
SPECIFICATION Spec
INVARIANTS
    BlocksDisjoint
    Coalesced
    AlignedData
PROPERTY
    DoubleFreeIgnored
    FreeGivesBackWithRoom
CONSTRAINT TreeIntact
VIEW MCView
