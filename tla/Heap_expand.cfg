CONSTANTS
    WORD = 256
    PAGE_SIZE = 8
    HDR = 1
    NODE = 2
    Heaps <- KernelHeaps
    Sizes = {2, 4}
    AlignedSizes = {3}
SPECIFICATION Spec
PROPERTY ExpandsToMaxSize
CONSTRAINT TreeIntact
VIEW MCView
