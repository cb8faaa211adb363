CONSTANTS
    N = 9
    Bases <- MCBases
    SizesOf <- MCOneSize
SPECIFICATION FreshSpec
INVARIANT TreeHoldsBlocks
VIEW MCView
