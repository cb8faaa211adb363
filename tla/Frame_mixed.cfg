CONSTANTS
    nframes = 5
    MAX_ORDER = 2
    BYTE = 2
    FRAME_SIZE = 4
    Sizes = {4, 16}
    bitmap <- MCbitmap
SPECIFICATION Spec
INVARIANT NoDoubleAllocation
