CONSTANTS
    MAX_PROCS = 2
    RATE = 3
SPECIFICATION Spec
PROPERTY EveryProcessRunsAgain
