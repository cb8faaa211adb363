CONSTANTS
    PD_ENTRIES = 3
    PT_ENTRIES = 2
    KernelPages = {0}
    StackPages = {3, 4}
    FRAMES = 7
    MAX_PROCS = 4
    MAX_TABLES = 9
    Values = {v0, v1}
SPECIFICATION Spec
INVARIANTS
    TypeOK
    KernelSharedRestPrivate
PROPERTY
    ImplementsPrivateMemory
CHECK_DEADLOCK FALSE
