------------------------------ MODULE KeyQueue ------------------------------
(***************************************************************************)
(* What the shell relies on when it calls keyboard_getchar: a queue of     *)
(* bounded length.  A key that is pressed is appended, or lost if the      *)
(* queue is full and only then; a call takes the oldest key.               *)
(***************************************************************************)
EXTENDS Integers, Sequences

CONSTANTS Chars, Capacity

VARIABLES
    queue,     \* the keys pressed and not yet taken, oldest first
    presses,   \* the number of keys pressed, modulo 2: makes a press that
               \* loses its key a step that can be seen
    answer     \* the key the last call took

Init ==
    /\ queue = <<>>
    /\ presses = 0
    /\ answer \in Chars

Press(ch) ==
    /\ Len(queue) < Capacity
    /\ queue' = Append(queue, ch)
    /\ presses' = 1 - presses
    /\ UNCHANGED answer

Lose ==
    /\ Len(queue) = Capacity
    /\ presses' = 1 - presses
    /\ UNCHANGED <<queue, answer>>

Take ==
    /\ queue # <<>>
    /\ queue' = Tail(queue)
    /\ answer' = Head(queue)
    /\ UNCHANGED presses

Next ==
    \/ \E ch \in Chars : Press(ch)
    \/ Lose
    \/ Take

Spec == Init /\ [][Next]_<<queue, presses, answer>>
=============================================================================
