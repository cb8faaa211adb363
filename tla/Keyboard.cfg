CONSTANTS
    KEYBOARD_BUFFER_SIZE = 4
    Chars = {NUL, a, b}
    NUL = NUL
SPECIFICATION Spec
INVARIANTS
    ReadIsStable
PROPERTIES
    ImplementsKeyQueue
    EveryKeyTaken
