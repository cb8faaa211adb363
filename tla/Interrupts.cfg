CONSTANTS
    LINES = 4
    EXCEPTIONS = 4
    BIOS1 = 0
    BIOS2 = 13
    VECTORS = 18
    PAGE_FAULT = 3
    Faults = {0, 3}
    ErrorVectors = {3}
    Codes = {2}
    Devices = {0, 1, 4}
    VGA_WIDTH = 2
    VGA_HEIGHT = 2
    WORD = 64
    BLANK = 32
    NEWLINE = 10
    NUL = 0
    LETTER = 78
    NULL = NULL
SPECIFICATION Spec
CHECK_DEADLOCK FALSE
INVARIANTS
    RoutineOfLine
    InServiceExact
    SerialReady
    CursorRecovers
PROPERTY
    TickServed
