------------------------------ MODULE Keyboard ------------------------------
(***************************************************************************)
(* The keyboard driver, kb.c: a ring buffer filled by the keyboard         *)
(* interrupt and emptied by keyboard_getchar, which the shell calls again  *)
(* and again.                                                              *)
(*                                                                         *)
(* keyboard_handler runs with interrupts disabled, between two steps of    *)
(* keyboard_getchar.  The two indices are volatile and keyboard_buffer is  *)
(* not, so the compiler may move the read of the character past the store  *)
(* to buffer_start: both orders are behaviours of this module.             *)
(***************************************************************************)
EXTENDS Integers, Sequences

CONSTANTS
    KEYBOARD_BUFFER_SIZE,
    Chars,         \* the characters of the layout table
    NUL            \* what the table holds for keys without a character

ASSUME KeyboardConstants ==
    /\ KEYBOARD_BUFFER_SIZE \in Nat \ {0, 1}
    /\ NUL \in Chars

Slots == 0 .. (KEYBOARD_BUFFER_SIZE - 1)

VARIABLES
    keyboard_buffer,
    buffer_start,
    buffer_end,
    pc,            \* how far keyboard_getchar has got
    c,             \* its local variable
    presses,       \* the number of keys pressed, modulo 2
    returned       \* the result of the last call

vars == <<keyboard_buffer, buffer_start, buffer_end, pc, c, presses, returned>>

Init ==
    /\ keyboard_buffer = [i \in Slots |-> NUL]
    /\ buffer_start = 0
    /\ buffer_end = 0
    /\ pc = "wait"
    /\ c = NUL
    /\ presses = 0
    /\ returned = NUL

succ(i) == (i + 1) % KEYBOARD_BUFFER_SIZE

\* Mutant of is_buffer_empty: a single key counts as none.
is_buffer_empty_early ==
    buffer_start = buffer_end \/ succ(buffer_start) = buffer_end

is_buffer_empty == buffer_start = buffer_end

\* Mutants of is_buffer_full: never, and one key early.
is_buffer_full_never == FALSE
is_buffer_full_early == succ(succ(buffer_end)) = buffer_start
                        \/ succ(buffer_end) = buffer_start

is_buffer_full == succ(buffer_end) = buffer_start

keyboard_buffer_put(ch) ==
    IF is_buffer_full
    THEN UNCHANGED <<keyboard_buffer, buffer_end>>
    ELSE /\ keyboard_buffer' = [keyboard_buffer EXCEPT ![buffer_end] = ch]
         /\ buffer_end' = succ(buffer_end)

\* The scan codes of the interrupt: a key of kb_us with character ch, and
\* whether the top bit says that it was released.
keyboard_handler(released, ch) ==
    /\ IF released
       THEN UNCHANGED <<keyboard_buffer, buffer_end, presses>>
       ELSE keyboard_buffer_put(ch) /\ presses' = 1 - presses
    /\ UNCHANGED <<buffer_start, pc, c, returned>>

\* keyboard_getchar sees that the buffer is not empty.
getchar_ready ==
    /\ pc = "wait"
    /\ ~is_buffer_empty
    /\ pc' \in {"read", "advance_first"}
    /\ UNCHANGED <<keyboard_buffer, buffer_start, buffer_end, c, presses, returned>>

getchar_read ==
    /\ pc = "read"
    /\ c' = keyboard_buffer[buffer_start]
    /\ pc' = "advance"
    /\ UNCHANGED <<keyboard_buffer, buffer_start, buffer_end, presses, returned>>

getchar_advance ==
    /\ pc = "advance"
    /\ buffer_start' = succ(buffer_start)
    /\ returned' = c
    /\ pc' = "wait"
    /\ UNCHANGED <<keyboard_buffer, buffer_end, c, presses>>

\* The same two steps the other way round.
getchar_advance_first ==
    /\ pc = "advance_first"
    /\ buffer_start' = succ(buffer_start)
    /\ pc' = "read_late"
    /\ UNCHANGED <<keyboard_buffer, buffer_end, c, presses, returned>>

\* The slot before buffer_start, which the late read is from.
Passed ==
    IF buffer_start = 0 THEN KEYBOARD_BUFFER_SIZE - 1 ELSE buffer_start - 1

getchar_read_late ==
    /\ pc = "read_late"
    /\ c' = keyboard_buffer[Passed]
    /\ returned' = keyboard_buffer[Passed]
    /\ pc' = "wait"
    /\ UNCHANGED <<keyboard_buffer, buffer_start, buffer_end, presses>>

keyboard_getchar ==
    \/ getchar_ready
    \/ getchar_read
    \/ getchar_advance
    \/ getchar_advance_first
    \/ getchar_read_late

Next ==
    \/ \E released \in BOOLEAN, ch \in Chars : keyboard_handler(released, ch)
    \/ keyboard_getchar

\* The shell calls keyboard_getchar for ever, and nothing blocks it but an
\* empty buffer.  Nobody has to press a key.
Spec == Init /\ [][Next]_vars /\ WF_vars(keyboard_getchar)

(***************************************************************************)
(* Properties.                                                             *)
(***************************************************************************)

\* Type invariant.
TypeOK ==
    /\ keyboard_buffer \in [Slots -> Chars]
    /\ buffer_start \in Slots
    /\ buffer_end \in Slots
    /\ pc \in {"wait", "read", "advance", "advance_first", "read_late"}
    /\ c \in Chars
    /\ presses \in {0, 1}
    /\ returned \in Chars

\* The number of keys in the buffer, and the keys, oldest first.
Count ==
    IF buffer_end >= buffer_start
    THEN buffer_end - buffer_start
    ELSE buffer_end - buffer_start + KEYBOARD_BUFFER_SIZE

Slot(i) ==
    IF buffer_start + i < KEYBOARD_BUFFER_SIZE
    THEN buffer_start + i
    ELSE buffer_start + i - KEYBOARD_BUFFER_SIZE

Contents == [i \in 1 .. Count |-> keyboard_buffer[Slot(i - 1)]]

\* The key a call takes, from the moment it advances buffer_start.
Taken == IF pc = "read_late" THEN keyboard_buffer[Passed] ELSE returned

Queue == INSTANCE KeyQueue WITH
    Capacity <- KEYBOARD_BUFFER_SIZE - 1,
    queue <- Contents,
    answer <- Taken

\* keyboard_getchar ("Retrieve character from keyboard buffer; FIFO"): the
\* ring is a first-in first-out queue of KEYBOARD_BUFFER_SIZE - 1 keys that
\* loses a key only when it is full, whenever the interrupt comes and in
\* whichever order the reader's two steps are compiled.
ImplementsKeyQueue == Queue!Spec

\* The slot a call in progress has read or is about to read is not written
\* by a key that is pressed meanwhile.
ReadIsStable ==
    /\ pc \in {"read", "advance", "advance_first"} => ~is_buffer_empty
    /\ pc = "advance" => c = keyboard_buffer[buffer_start]

\* Every key in the buffer is taken: the shell never hangs while keys wait.
EveryKeyTaken ==
    \A i \in Slots : (buffer_start = i /\ Count > 0) ~> buffer_start # i
=============================================================================
