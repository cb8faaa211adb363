CONSTANTS
    MAX_PROCS = 5
    RATE = 3
SPECIFICATION Spec
INVARIANTS
    TypeOK
    NeverJumpsToUnset
    ForkTellsApart
    UptimeFollowsTicks
PROPERTIES
    EveryChildRuns
