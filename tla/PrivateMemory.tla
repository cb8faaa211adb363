--------------------------- MODULE PrivateMemory ---------------------------
(***************************************************************************)
(* What a process is promised: kernel memory that all share, and memory of *)
(* its own that nobody else writes and that starts as a copy of its        *)
(* parent's.                                                               *)
(***************************************************************************)
CONSTANTS Procs, SharedPages, OwnPages, Values

VARIABLES
    shared,    \* shared[page]: the contents of a kernel page
    own        \* own[p][page]: the contents of p's page, for p that exists

Init ==
    /\ shared \in [SharedPages -> Values]
    /\ own = <<>>

\* The first process gets a page of its own.
Grow(p, contents) ==
    /\ contents \in [OwnPages -> Values]
    /\ own = <<>>
    /\ own' = [q \in {p} |-> contents]
    /\ UNCHANGED shared

WriteShared(page, v) ==
    /\ shared' = [shared EXCEPT ![page] = v]
    /\ UNCHANGED own

WriteOwn(p, page, v) ==
    /\ p \in DOMAIN own
    /\ own' = [own EXCEPT ![p][page] = v]
    /\ UNCHANGED shared

Fork(p, child) ==
    /\ p \in DOMAIN own
    /\ child \in Procs \ DOMAIN own
    /\ own' = [q \in DOMAIN own \cup {child} |->
                 IF q = child THEN own[p] ELSE own[q]]
    /\ UNCHANGED shared

Next ==
    \/ \E p \in Procs, contents \in [OwnPages -> Values] : Grow(p, contents)
    \/ \E page \in SharedPages, v \in Values : WriteShared(page, v)
    \/ \E p \in Procs, page \in OwnPages, v \in Values : WriteOwn(p, page, v)
    \/ \E p, child \in Procs : Fork(p, child)

Spec == Init /\ [][Next]_<<shared, own>>
=============================================================================
