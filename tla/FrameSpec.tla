----------------------------- MODULE FrameSpec -----------------------------
(***************************************************************************)
(* What the callers of pmalloc(FRAME_SIZE) and pfree rely on (alloc_frame  *)
(* and free_frame of vm.c): a set of frames, a request takes one nobody    *)
(* has, and is refused only when every frame is taken.                     *)
(***************************************************************************)
EXTENDS Integers

CONSTANT Frames

VARIABLES
    taken,     \* the frames handed out
    answer     \* the last answer: a frame, or -1 for "no memory available"

Init ==
    /\ taken = {}
    /\ answer = -1

Take(f) ==
    /\ f \in Frames \ taken
    /\ taken' = taken \cup {f}
    /\ answer' = f

Refuse ==
    /\ taken = Frames
    /\ answer' = -1
    /\ UNCHANGED taken

Give(f) ==
    /\ f \in taken
    /\ taken' = taken \ {f}
    /\ UNCHANGED answer

Next ==
    \/ \E f \in Frames : Take(f) \/ Give(f)
    \/ Refuse

Spec == Init /\ [][Next]_<<taken, answer>>
=============================================================================
