CONSTANTS
    N = 10
    Bases <- MCBases
    SizesOf <- MCOneSize
SPECIFICATION Spec
INVARIANTS
    HarmlessUntilNull
CONSTRAINT NullUntouched
VIEW MCView
