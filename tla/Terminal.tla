------------------------------ MODULE Terminal ------------------------------
(***************************************************************************)
(* The text terminal, tty.c.  A terminal is the cursor (x, y), the cells   *)
(* of the VGA text memory without their colours, and whether a write has   *)
(* missed that memory.  x and y are size_t: they wrap modulo WORD.         *)
(***************************************************************************)
EXTENDS Integers, SequencesExt

CONSTANTS
    VGA_WIDTH, VGA_HEIGHT,
    WORD,                  \* 2^32
    BLANK, NEWLINE, NUL    \* the characters ' ', '\n' and '\0'

ASSUME TerminalConstants ==
    /\ VGA_WIDTH \in Nat \ {0} /\ VGA_HEIGHT \in Nat \ {0}
    /\ WORD \in Nat /\ WORD > VGA_WIDTH * VGA_HEIGHT
    /\ BLANK # NEWLINE /\ BLANK # NUL /\ NEWLINE # NUL

Cells == 0 .. (VGA_WIDTH * VGA_HEIGHT - 1)

terminal_initialize ==
    [x |-> 0, y |-> 0, buffer |-> [i \in Cells |-> BLANK], stray |-> FALSE]

terminal_clearscreen(t) == [terminal_initialize EXCEPT !.stray = t.stray]

\* The cell the cursor is on.
Position(t) == (t.y * VGA_WIDTH + t.x) % WORD

terminal_putentryat(t, ch) ==
    IF Position(t) \in Cells
    THEN [t EXCEPT !.buffer[Position(t)] = ch]
    ELSE [t EXCEPT !.stray = TRUE]

\* Every line moves up by one, the last is cleared.
Scrolled(t) ==
    [t EXCEPT !.buffer = [i \in Cells |->
                            IF i + VGA_WIDTH \in Cells
                            THEN t.buffer[i + VGA_WIDTH] ELSE BLANK],
              !.x = 0,
              !.y = VGA_HEIGHT - 1]

NextLine(t) == [t EXCEPT !.x = 0, !.y = (@ + 1) % WORD]

\* The three parts of terminal_putchar: the character and the step to the
\* right, the end of a line, the end of the screen.
putchar_show(t, ch) ==
    CASE ch = NEWLINE -> NextLine(t)
      [] ch = NUL     -> t
      [] OTHER        -> [terminal_putentryat(t, ch) EXCEPT !.x = (@ + 1) % WORD]

putchar_wrap(t) == IF t.x = VGA_WIDTH THEN NextLine(t) ELSE t

\* Mutant of putchar_scroll: the screen scrolls one line late.
putchar_scroll_late(t) == IF t.y > VGA_HEIGHT THEN Scrolled(t) ELSE t

putchar_scroll(t) == IF t.y = VGA_HEIGHT THEN Scrolled(t) ELSE t

terminal_putchar(t, ch) == putchar_scroll(putchar_wrap(putchar_show(t, ch)))

terminal_write(t, data) == FoldLeft(terminal_putchar, t, data)

terminal_back(t, dx) ==
    IF t.x - dx < 0
    THEN [t EXCEPT !.y = (@ - 1) % WORD, !.x = VGA_WIDTH - (dx - @)]
    ELSE [t EXCEPT !.x = @ - dx]

\* Mutant of terminal_backspace: no step back after the blank.
terminal_backspace_once(t) == terminal_putchar(terminal_back(t, 1), BLANK)

terminal_backspace(t) ==
    terminal_back(terminal_putchar(terminal_back(t, 1), BLANK), 1)
=============================================================================
