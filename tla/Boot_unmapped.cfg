CONSTANTS
    PAGE_SIZE = 8
    BYTE = 2
    MAX_ORDER = 2
    PT_ENTRIES = 4
    PD_BYTES = 17
    HEAP_BYTES = 3
    NODE_BYTES = 2
    KERNEL_LO = 16
    PM_END = 512
    HEADER_BYTES = 2
    Layouts <- FarAligned
    KHEAP_START = 1024
    KHEAP_INITIAL_SIZE = 40
SPECIFICATION Spec
INVARIANT PlacedIsMapped
CHECK_DEADLOCK FALSE
