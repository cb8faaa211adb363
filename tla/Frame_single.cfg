CONSTANTS
    nframes = 5
    MAX_ORDER = 2
    BYTE = 2
    FRAME_SIZE = 4
    Sizes = {4}
    bitmap <- MCbitmap
SPECIFICATION Spec
INVARIANTS
    TypeOK
    NoDoubleAllocation
    FrameBitmapExact
    PairBitmapExact
PROPERTY ImplementsFrameSpec
