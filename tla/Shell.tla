------------------------------- MODULE Shell -------------------------------
(***************************************************************************)
(* The shell, sh.c, over the terminal and printf.  The loop of             *)
(* shell_initialize prompts, reads a line key by key and runs a command.   *)
(* Every key the keyboard can deliver may be next (module Keyboard).       *)
(***************************************************************************)
EXTENDS Printf

CONSTANTS
    CMD_BUF_SIZE, HISTORY_SIZE,
    BACKSPACE, DOLLAR,     \* the characters '\b' and '$'
    Letters,               \* keys that show a character
    Keys,                  \* the keys the user presses
    clear, uptime, mem, version, getpid_name, logo,    \* names of commands
    seconds_passed, pm_start, pm_amount, pid,  \* what the commands show
    version_text

ASSUME ShellConstants ==
    /\ CMD_BUF_SIZE \in Nat \ {0} /\ HISTORY_SIZE \in Nat \ {0}
    /\ Keys \subseteq Letters \cup {BACKSPACE, NEWLINE, NUL}
    /\ {BACKSPACE, NEWLINE, NUL} \cap Letters = {} /\ BACKSPACE # NEWLINE
    /\ DOLLAR \notin {NEWLINE, NUL} /\ "%" \notin {DOLLAR, NEWLINE, BLANK}

\* What the commands show: three numbers of the kernel, a text, a pid.
ASSUME ShownValues ==
    /\ {seconds_passed, pm_start, pm_amount, pid} \subseteq Int
    /\ version_text \in Seq(Range(version_text))

\* A line fits on the screen below its first row, with room for the prompt
\* in an int.
ASSUME LineFits ==
    /\ CMD_BUF_SIZE - 1 <= (VGA_HEIGHT - 1) * VGA_WIDTH
    /\ INT_MAX >= 3

VARIABLES
    term,              \* the terminal
    command_buf, buf_location,
    history, history_index, history_count,
    pc,                \* where shell_initialize is in its loop
    typed,             \* ghost: the keys of the line, but for those erased
    visible,           \* ghost: those of typed that have a character
    slips,             \* ghost: keys without a character erased in this line
    overrun            \* ghost: some line had more slips than MARGIN

ghosts == <<typed, visible, slips, overrun>>

vars == <<term, command_buf, buf_location, history, history_index,
          history_count, pc, ghosts>>

\* Erasing a key without a character moves the cursor back over a cell that
\* the key has not moved it over.  So many of them fit before a line.
MARGIN ==
    LET room == (VGA_HEIGHT - 1) * VGA_WIDTH - (CMD_BUF_SIZE - 1)
    IN  IF VGA_WIDTH + 2 <= room THEN VGA_WIDTH + 2 ELSE room

EmptyBuf == [i \in 0 .. (CMD_BUF_SIZE - 1) |-> NUL]

Init ==
    /\ term = terminal_initialize
    /\ command_buf = EmptyBuf
    /\ buf_location = 0
    /\ history = [i \in 0 .. (HISTORY_SIZE - 1) |-> <<>>]
    /\ history_index = 0
    /\ history_count = 0
    /\ pc = "prompt"
    /\ typed = <<>> /\ visible = <<>> /\ slips = 0 /\ overrun = FALSE

\* The first n characters of the buffer, and the C string it holds.
Line(buf, n) == [i \in 1 .. n |-> buf[i - 1]]

CString(buf) ==
    Line(buf, CHOOSE n \in 0 .. (CMD_BUF_SIZE - 1) :
                 buf[n] = NUL /\ \A m \in 0 .. (n - 1) : buf[m] # NUL)

\* output_prompt, and the start of wait_for_command.
output_prompt ==
    /\ pc = "prompt"
    /\ term' = terminal_write(term, printf(<<NEWLINE, DOLLAR, BLANK>>, <<>>).out)
    /\ buf_location' = 0
    /\ command_buf' = EmptyBuf
    /\ pc' = "input"
    /\ typed' = <<>> /\ visible' = <<>> /\ slips' = 0
    /\ UNCHANGED <<history, history_index, history_count, overrun>>

\* The end of wait_for_command, with buf_location = loc.
StoreHistory(loc, buf) ==
    IF loc > 0
    THEN /\ history' = [history EXCEPT ![history_index] = CString(buf)]
         /\ history_index' = LET i == (history_index + 1) % HISTORY_SIZE
                             IN  IF history_count < HISTORY_SIZE THEN i + 1 ELSE i
         /\ UNCHANGED history_count
    ELSE UNCHANGED <<history, history_index, history_count>>

\* Mutant of enter: the line is not terminated.
enter_open ==
    /\ UNCHANGED command_buf
    /\ buf_location' = 0
    /\ term' = terminal_putchar(term, NEWLINE)
    /\ pc' = "process"
    /\ StoreHistory(buf_location', command_buf)

\* Enter: buf_location is reset before wait_for_command looks at it again.
enter ==
    /\ command_buf' = [command_buf EXCEPT ![buf_location] = NUL]
    /\ buf_location' = 0
    /\ term' = terminal_putchar(term, NEWLINE)
    /\ pc' = "process"
    /\ StoreHistory(buf_location', command_buf')

backspace ==
    /\ IF buf_location > 0
       THEN /\ buf_location' = buf_location - 1
            /\ term' = terminal_backspace(term)
       ELSE UNCHANGED <<buf_location, term>>
    /\ UNCHANGED <<command_buf, history, history_index, history_count, pc>>

character(ch) ==
    /\ IF buf_location < CMD_BUF_SIZE - 1
       THEN /\ command_buf' = [command_buf EXCEPT ![buf_location] = ch]
            /\ buf_location' = buf_location + 1
            /\ term' = terminal_putchar(term, ch)
       ELSE UNCHANGED <<command_buf, buf_location, term>>
    /\ UNCHANGED <<history, history_index, history_count, pc>>

\* What the user has typed, by the keys alone: a line takes CMD_BUF_SIZE - 1
\* keys, and Backspace takes the last one away.
EraseKey ==
    /\ typed' = SubSeq(typed, 1, Len(typed) - 1)
    /\ IF typed[Len(typed)] = NUL
       THEN slips' = slips + 1 /\ visible' = visible
       ELSE slips' = slips /\ visible' = SubSeq(visible, 1, Len(visible) - 1)

TypeKey(ch) ==
    /\ typed' = Append(typed, ch)
    /\ visible' = IF ch = NUL THEN visible ELSE Append(visible, ch)
    /\ slips' = slips

RecordKey(ch) ==
    /\ CASE ch = BACKSPACE /\ typed # <<>> -> EraseKey
         [] ch \notin {BACKSPACE, NEWLINE} /\ Len(typed) < CMD_BUF_SIZE - 1 -> TypeKey(ch)
         [] OTHER -> UNCHANGED <<typed, visible, slips>>
    /\ overrun' = (overrun \/ slips' > MARGIN)

\* wait_for_command, for the next key.
wait_for_command(ch) ==
    /\ pc = "input"
    /\ CASE ch = NEWLINE   -> enter
         [] ch = BACKSPACE -> backspace
         [] OTHER          -> character(ch)
    /\ RecordKey(ch)

\* What the commands and cmd_unknown print; DOLLAR stands for any fixed text.
cmd_uptime == printf(<<DOLLAR, "%", "d", NEWLINE>>, <<seconds_passed>>).out
cmd_mem ==
    printf(<<DOLLAR, "%", "x", NEWLINE>>, <<pm_start>>).out
    \o printf(<<DOLLAR, "%", "x", NEWLINE>>, <<pm_amount>>).out
cmd_version ==
    printf(<<DOLLAR, "%", "s", NEWLINE>>, <<version_text>>).out
    \o printf(<<DOLLAR, NEWLINE>>, <<>>).out
cmd_getpid == printf(<<DOLLAR, "%", "d", NEWLINE>>, <<pid>>).out
cmd_logo == <<DOLLAR, NEWLINE>>
cmd_unknown(name) == printf(<<DOLLAR, "%", "s", NEWLINE>>, <<name>>).out

Output(name) ==
    CASE name = uptime      -> cmd_uptime
      [] name = mem         -> cmd_mem
      [] name = version     -> cmd_version
      [] name = getpid_name -> cmd_getpid
      [] name = logo        -> cmd_logo
      [] OTHER              -> cmd_unknown(name)

process_command ==
    LET name == CString(command_buf)
    IN  /\ pc = "process"
        /\ term' = IF name = clear THEN terminal_clearscreen(term)
                   ELSE terminal_write(term, Output(name))
        /\ pc' = "prompt"
        /\ UNCHANGED <<command_buf, buf_location, history, history_index,
                       history_count, ghosts>>

Next ==
    \/ output_prompt
    \/ \E ch \in Keys : wait_for_command(ch)
    \/ process_command

Spec == Init /\ [][Next]_vars

(***************************************************************************)
(* Properties.                                                             *)
(***************************************************************************)

\* terminal_movecursor ("Move cursor to correct position") and
\* terminal_putentryat: the cursor stays on the screen, and every write hits
\* the text memory, through all wrapping, scrolling and erasing.
CursorOnScreen ==
    /\ term.x < VGA_WIDTH
    /\ term.y < VGA_HEIGHT
    /\ ~term.stray

\* What is true of it: the keys that the keyboard delivers without a character
\* (Shift, Ctrl, the function keys) take a place in the line and none on the
\* screen, and erasing them moves the cursor towards the top.  The cursor
\* stays on the screen unless more than MARGIN of them are erased in one line;
\* what earlier lines have erased does not add up.
CursorWithinMargin == ~overrun => CursorOnScreen

\* The prompt and the characters typed.
Shown == <<DOLLAR, BLANK>> \o visible

\* terminal_backspace ("Delete a previous char and set back 1 space"): the
\* cursor is right behind the prompt and the characters typed, wherever the
\* line wraps or the screen scrolls, with keys without a character among them
\* too, until one of those is erased; the next line is shown right again.
\* And the buffer keeps room for its terminator.
LineOnScreen ==
    pc = "input" /\ slips = 0 /\ ~overrun =>
       /\ command_buf[CMD_BUF_SIZE - 1] = NUL
       /\ \A i \in 1 .. Len(Shown) :
          LET cell == Position(term) - Len(Shown) + i - 1
          IN  cell \in Cells => term.buffer[cell] = Shown[i]

\* process_command runs the line that was typed, up to the first key without a
\* character: nothing of an erased ending or of an earlier line is in it, no
\* key is left out and none that did not fit.
RunsLineTyped ==
    pc = "process" =>
       \E n \in 0 .. Len(typed) :
          /\ CString(command_buf) = SubSeq(typed, 1, n)
          /\ \A i \in 1 .. n : typed[i] # NUL
          /\ n = Len(typed) \/ typed[n + 1] = NUL

\* printf and printint, which every command prints with: when a command is
\* about to run, the numerals of all numbers denote them, 0, negative and
\* unsigned ones included, and every row of directives, "%%" and texts shows
\* each argument in its place, up to the limit INT_MAX of the value returned.
CommandPrints == pc = "process" => PrintfMatches

\* wait_for_command ("Store in history"): a line that is not empty is in the
\* history when it is run.
LineInHistory ==
    pc = "process" /\ CString(command_buf) # <<>> =>
       \E i \in DOMAIN history : history[i] = CString(command_buf)
=============================================================================
