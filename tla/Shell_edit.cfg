CONSTANTS
    VGA_WIDTH = 3
    VGA_HEIGHT = 4
    WORD = 32
    BLANK = BLANK
    NEWLINE = NEWLINE
    NUL = NUL
    BACKSPACE = BACKSPACE
    DOLLAR = DOLLAR
    a = a
    b = b
    CMD_BUF_SIZE = 6
    HISTORY_SIZE = 2
    Letters = {a, b}
    Keys = {a, b, NUL, BACKSPACE, NEWLINE}
    clear <- MCClear
    uptime <- MCUptime
    mem <- MCMem
    version <- MCVersion
    getpid_name <- MCGetpid
    logo <- MCLogo
    seconds_passed = 10
    pm_start = 8
    pm_amount = 15
    pid = 1
    version_text <- MCVersionText
SPECIFICATION Spec
INVARIANTS
    CursorWithinMargin
    LineOnScreen
    RunsLineTyped
    CommandPrints
CONSTRAINT WithinMargin
