----------------------------- MODULE Scheduler -----------------------------
(***************************************************************************)
(* Processes: fork, switch_proc and proc_initialize of proc.c, the context *)
(* switch of asm/proc.S, and the timer interrupt that drives it (irq.S,    *)
(* irq_handler of irq.c, timer_handler of timer.c).                        *)
(*                                                                         *)
(* A process is its pid; ready_queue is the linked list "next".  A timer   *)
(* interrupt may arrive between any two steps while interrupts are         *)
(* enabled; the handler itself runs with interrupts disabled.              *)
(***************************************************************************)
EXTENDS Integers, FiniteSets

CONSTANTS
    MAX_PROCS,     \* bound on the number of processes
    RATE           \* timer ticks per second (18.222)

ASSUME SchedulerConstants == MAX_PROCS \in Nat \ {0} /\ RATE \in Nat \ {0}

Procs == 1 .. MAX_PROCS
NONE == 0

VARIABLES
    intr,          \* the interrupt flag of the CPU
    in_service,    \* the PIC waits for the EOI of an earlier timer interrupt
    current_proc,
    next_pid,
    next,          \* next[p]: the process after p in ready_queue
    eip,           \* eip[p]: the saved instruction pointer, by where it is
    pc,            \* pc[p]: how far process p has got
    parent_proc,   \* parent_proc[p], new_proc[p]: local variables of fork, on
    new_proc,      \* the stack of p
    lead,          \* seconds_passed * RATE - timer_ticks
    caller,        \* history: caller[p] is the process whose fork created p
    got            \* history: got[p] is the set of what fork returned in p

vars == <<intr, in_service, current_proc, next_pid, next, eip, pc, parent_proc,
          new_proc, lead, caller, got>>

\* What only fork writes.
locals == <<parent_proc, new_proc>>
history == <<caller, got>>

\* Contexts: never saved; after get_eip in fork; after get_eip in switch_proc.
Contexts == {"unset", "fork", "switch"}

PCs == {"none", "boot", "init", "run", "clone", "test", "wild"}

Existing == 1 .. (next_pid - 1)

Init ==
    /\ intr = TRUE                    \* since idt_load
    /\ in_service = FALSE
    /\ current_proc = NONE
    /\ next_pid = 1
    /\ next = [p \in Procs |-> NONE]
    /\ eip = [p \in Procs |-> "unset"]
    /\ pc = [p \in Procs |-> IF p = 1 THEN "boot" ELSE "none"]
    /\ parent_proc = [p \in Procs |-> NONE]
    /\ new_proc = [p \in Procs |-> NONE]
    /\ lead = 0
    /\ caller = [p \in Procs |-> NONE]
    /\ got = [p \in Procs |-> {}]

\* The code that runs: the process current_proc, or kernel main before
\* proc_initialize has made it process 1.
Running(p) == p = IF current_proc = NONE THEN 1 ELSE current_proc

(***************************************************************************)
(* proc_initialize.                                                        *)
(***************************************************************************)
proc_initialize_cli ==
    /\ pc[1] = "boot"
    /\ pc' = [pc EXCEPT ![1] = "init"]
    /\ intr' = FALSE
    /\ UNCHANGED <<in_service, current_proc, next_pid, next, eip, locals, lead,
                   history>>

proc_initialize ==
    /\ pc[1] = "init"
    /\ pc' = [pc EXCEPT ![1] = "run"]
    /\ current_proc' = next_pid
    /\ next_pid' = next_pid + 1
    /\ eip' = [eip EXCEPT ![next_pid] = "unset"]
    /\ next' = [next EXCEPT ![next_pid] = NONE]
    /\ intr' = TRUE
    /\ UNCHANGED <<in_service, locals, lead, history>>

(***************************************************************************)
(* fork.  The new process is linked into ready_queue before its context is *)
(* known; interrupts are disabled in between.  Both processes come out of  *)
(* get_eip at the same place ("test"), the parent by the call and the      *)
(* child by a switch to the context the parent stored, and fork tells them *)
(* apart by the local parent_proc, which the child has from the copy of    *)
(* the parent's stack.                                                     *)
(***************************************************************************)
\* Mutant of fork_cli: interrupts stay enabled.
fork_cli_enabled(p) ==
    /\ Running(p)
    /\ pc[p] = "run"
    /\ next_pid <= MAX_PROCS
    /\ pc' = [pc EXCEPT ![p] = "clone"]
    /\ parent_proc' = [parent_proc EXCEPT ![p] = current_proc]
    /\ UNCHANGED <<intr, in_service, current_proc, next_pid, next, eip, new_proc,
                   lead, history>>

fork_cli(p) ==
    /\ Running(p)
    /\ pc[p] = "run"
    /\ next_pid <= MAX_PROCS
    /\ pc' = [pc EXCEPT ![p] = "clone"]
    /\ intr' = FALSE
    /\ parent_proc' = [parent_proc EXCEPT ![p] = current_proc]
    /\ UNCHANGED <<in_service, current_proc, next_pid, next, eip, new_proc, lead,
                   history>>

\* Mutant of fork_link: next_pid is incremented before it is used.
fork_link_late(p) ==
    /\ Running(p)
    /\ pc[p] = "clone"
    /\ pc' = [pc EXCEPT ![p] = "test"]
    /\ parent_proc' = [parent_proc EXCEPT ![next_pid] = parent_proc[p]]
    /\ new_proc' = [new_proc EXCEPT ![p] = next_pid + 1, ![next_pid] = new_proc[p]]
    /\ next_pid' = next_pid + 1
    /\ eip' = [eip EXCEPT ![next_pid] = "unset"]
    /\ \E last \in Existing :
          /\ next[last] = NONE
          /\ next' = [next EXCEPT ![last] = next_pid + 1]
    /\ caller' = [caller EXCEPT ![next_pid] = p]
    /\ UNCHANGED <<intr, in_service, current_proc, lead, got>>

\* Clone the address space, the stack with the locals as they are included;
\* create the process and append it.
fork_link(p) ==
    /\ Running(p)
    /\ pc[p] = "clone"
    /\ pc' = [pc EXCEPT ![p] = "test"]
    /\ parent_proc' = [parent_proc EXCEPT ![next_pid] = parent_proc[p]]
    /\ new_proc' = [new_proc EXCEPT ![p] = next_pid, ![next_pid] = new_proc[p]]
    /\ next_pid' = next_pid + 1
    /\ eip' = [eip EXCEPT ![next_pid] = "unset"]
    /\ \E last \in Existing :
          /\ next[last] = NONE
          /\ next' = [next EXCEPT ![last] = next_pid, ![next_pid] = NONE]
    /\ caller' = [caller EXCEPT ![next_pid] = p]
    /\ UNCHANGED <<intr, in_service, current_proc, lead, got>>

\* Mutant of StillParent: the running process is compared with ready_queue.
StillParent_head(p) == current_proc = 1

\* The test behind get_eip, with the local that lies on the stack of p.
StillParent(p) == current_proc = parent_proc[p]

\* "Still parent": record the context, enable interrupts, return the pid.
fork_parent(p) ==
    /\ Running(p)
    /\ pc[p] = "test"
    /\ StillParent(p)
    /\ eip' = [eip EXCEPT ![new_proc[p]] = "fork"]
    /\ got' = [got EXCEPT ![p] = @ \cup {new_proc[p]}]
    /\ pc' = [pc EXCEPT ![p] = "run"]
    /\ intr' = TRUE
    /\ UNCHANGED <<in_service, current_proc, next_pid, next, locals, lead, caller>>

\* The other branch, interrupts as they are: return 0.
fork_child(p) ==
    /\ Running(p)
    /\ pc[p] = "test"
    /\ ~StillParent(p)
    /\ got' = [got EXCEPT ![p] = @ \cup {0}]
    /\ pc' = [pc EXCEPT ![p] = "run"]
    /\ UNCHANGED <<intr, in_service, current_proc, next_pid, next, eip, locals,
                   lead, caller>>

(***************************************************************************)
(* The timer interrupt.                                                    *)
(***************************************************************************)

\* Mutant of Clock: a second passes at every tick.
Clock_fast(l) == l + RATE

\* The end of timer_handler: (double)timer_ticks / 18.222 > seconds_passed.
Clock(l) == IF l < 0 THEN l + RATE ELSE l

\* Mutant of eoi_pending: the EOI is sent after the handler has returned.
eoi_pending_late(switched) == switched

\* irq_handler acknowledges the interrupt before it calls the handler, so no
\* EOI is outstanding however the handler ends (switched: it never returns).
eoi_pending(switched) == FALSE

\* The process after p in ready_queue.
Following(p) == IF p = NONE THEN NONE ELSE next[p]

\* switch_proc returns at once: no process yet, or none after this one.
tick_stay ==
    /\ intr
    /\ ~in_service
    /\ Following(current_proc) = NONE
    /\ in_service' = eoi_pending(FALSE)
    /\ lead' = Clock(lead - 1)
    /\ UNCHANGED <<intr, current_proc, next_pid, next, eip, pc, locals, history>>

\* The process that follows current_proc (the wrap to the head of the list
\* stands in the code, behind the return that tick_stay models).
NextProc ==
    IF Following(current_proc) = NONE THEN 1 ELSE Following(current_proc)

\* switch_proc saves the context and jumps to that of the next process, which
\* leaves the handler unfinished on the old stack.  Where it lands: after
\* get_eip in fork; in switch_proc, which returns to the interrupted process;
\* or at address 0.
tick_switch ==
    LET to == NextProc
    IN  /\ intr
        /\ ~in_service
        /\ Following(current_proc) # NONE
        /\ in_service' = eoi_pending(TRUE)
        /\ eip' = [eip EXCEPT ![current_proc] = "switch"]
        /\ current_proc' = to
        /\ pc' = [pc EXCEPT ![to] = CASE eip[to] = "fork"   -> "test"
                                      [] eip[to] = "switch" -> pc[to]
                                      [] eip[to] = "unset"  -> "wild"]
        /\ lead' = IF eip[to] = "switch" THEN Clock(lead - 1) ELSE lead - 1
        /\ intr' = TRUE
        /\ UNCHANGED <<next_pid, next, locals, history>>

timer_handler == tick_stay \/ tick_switch

Step(p) == fork_link(p) \/ fork_parent(p) \/ fork_child(p)

Next ==
    \/ proc_initialize_cli
    \/ proc_initialize
    \/ \E p \in Procs : fork_cli(p) \/ Step(p)
    \/ tick_stay
    \/ tick_switch

\* The timer keeps firing, and a process that runs goes on; nothing makes a
\* process call fork.
Fairness ==
    /\ WF_vars(proc_initialize_cli)
    /\ WF_vars(proc_initialize)
    /\ \A p \in Procs : WF_vars(Step(p))
    /\ WF_vars(timer_handler)

Spec == Init /\ [][Next]_vars /\ Fairness

(***************************************************************************)
(* Properties.                                                             *)
(***************************************************************************)

\* Type invariant.
TypeOK ==
    /\ intr \in BOOLEAN
    /\ in_service \in BOOLEAN
    /\ current_proc \in Procs \cup {NONE}
    /\ next_pid \in 1 .. (MAX_PROCS + 1)
    /\ next \in [Procs -> Procs \cup {NONE}]
    /\ eip \in [Procs -> Contexts]
    /\ pc \in [Procs -> PCs]
    /\ parent_proc \in [Procs -> Procs \cup {NONE}]
    /\ new_proc \in [Procs -> Procs \cup {NONE}]
    /\ lead \in Int
    /\ caller \in [Procs -> Procs \cup {NONE}]
    /\ got \in [Procs -> SUBSET (Procs \cup {0})]

\* A timer interrupt never jumps to a process whose context fork has not
\* stored yet, although fork links the process first.
NeverJumpsToUnset == \A p \in Procs : pc[p] # "wild"

\* The processes that p has created.
Children(p) == {c \in Existing : caller[c] = p}

\* The test of current_proc against the copied local tells parent and child
\* apart, whoever forks and however often and wherever the timer interrupts:
\* outside of fork, a process has been given the pids of exactly the processes
\* it created, each with its context stored, and 0 exactly if it was itself
\* created by a fork.
ForkTellsApart ==
    \A p \in Existing :
       pc[p] = "run" =>
          /\ got[p] \ {0} = Children(p)
          /\ \A c \in Children(p) : eip[c] # "unset"
          /\ 0 \in got[p] <=> caller[p] # NONE

\* seconds_passed runs at most one second ahead of the ticks, and every tick
\* it misses is one that started a new process.
UptimeFollowsTicks == -Cardinality(Existing) <= lead /\ lead < RATE

\* Every process that fork creates gets to run, however many others are
\* created before it is reached.
EveryChildRuns ==
    \A p \in Procs : p \in Existing /\ eip[p] # "switch" ~> current_proc = p

\* switch_proc: "Check if it ran out of the linked list, and start again from
\* the beginning": no process is left behind for good.
EveryProcessRunsAgain ==
    \A p \in Procs : p \in Existing ~> current_proc = p
=============================================================================
