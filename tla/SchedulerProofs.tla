--------------------------- MODULE SchedulerProofs ---------------------------
(***************************************************************************)
(* fork and the timer, for every number of processes and every rate: the   *)
(* list is 1, 2, 3, ... in order of creation, current_proc only moves      *)
(* along it, and a context that is not stored yet belongs to process 1 or  *)
(* to the one that fork is creating with interrupts disabled.              *)
(***************************************************************************)
EXTENDS Scheduler, FiniteSetTheorems, TLAPS

\* The local parent_proc still names its own process: in the parent, from cli
\* on, and never in a child that has not called fork itself.
OwnLocal(p) == parent_proc[p] = p

\* kernel main is process 1, and it is alone until proc_initialize is done.
BootFirst ==
    /\ current_proc = NONE <=> next_pid = 1
    /\ current_proc = NONE <=> pc[1] \in {"boot", "init"}
    /\ current_proc < next_pid

\* ready_queue is in the order of creation.
QueueInOrder ==
    \A p \in Existing : next[p] = IF p = next_pid - 1 THEN NONE ELSE p + 1

\* p is in fork, between cli and sti.
InFork(p) == pc[p] = "clone" \/ (pc[p] = "test" /\ OwnLocal(p))

\* Only the code that runs is inside of a section with interrupts disabled.
CliSections ==
    \A p \in Procs : pc[p] = "init" \/ InFork(p) => Running(p) /\ ~intr

\* fork between linking the process and storing its context.
Linking ==
    \A p \in Procs :
       /\ pc[p] = "clone" => next_pid <= MAX_PROCS /\ OwnLocal(p)
       /\ pc[p] = "test" /\ OwnLocal(p) =>
             new_proc[p] = next_pid - 1 /\ new_proc[p] > p /\ caller[new_proc[p]] = p

\* A process is created by one before it; one that has not come out of fork
\* yet has the parent's local on its stack and has been given nothing.
CopiedStack ==
    /\ \A p \in Procs : p >= next_pid \/ p = 1 => caller[p] = NONE
    /\ \A p \in Existing :
          /\ p # 1 => caller[p] \in Existing /\ caller[p] < p
          /\ p > current_proc => parent_proc[p] = caller[p] /\ pc[p] = "none"
          /\ pc[p] \in {"none", "test"} /\ ~OwnLocal(p) =>
                p # 1 /\ got[p] = {} /\ parent_proc[p] = caller[p]
    /\ \A p \in Procs : p >= next_pid => got[p] = {} /\ (p = 1 \/ pc[p] = "none")
    /\ got[1] \cap {0} = {}

\* What fork has returned: all children of a process, but for the one that it
\* is creating; and 0, but for the child that has not come out of fork.
Returned ==
    \A p \in Existing :
       /\ \A c \in Procs :
             c \in got[p] <=>
                /\ c \in Existing /\ caller[c] = p
                /\ ~(pc[p] = "test" /\ OwnLocal(p) /\ c = next_pid - 1)
       /\ 0 \in got[p] <=>
             p # 1 /\ ~(pc[p] \in {"none", "test"} /\ ~OwnLocal(p))

\* The contexts: those after current_proc have never run.
ContextsStored ==
    \A p \in Existing :
       /\ eip[p] = "unset" =>
             \/ p = 1
             \/ p = next_pid - 1 /\ pc[current_proc] = "test" /\ OwnLocal(current_proc)
       /\ p > current_proc => eip[p] # "switch"

\* The clock has lost at most one tick for each process that was started.
ClockBehind == 1 - (IF current_proc = NONE THEN 1 ELSE current_proc) <= lead /\ lead < RATE

IInv ==
    /\ TypeOK /\ NeverJumpsToUnset
    /\ BootFirst /\ QueueInOrder /\ CliSections /\ Linking
    /\ CopiedStack /\ Returned
    /\ ContextsStored /\ ClockBehind

\* The state the loader leaves.
LEMMA InitIInv == Init => IInv
<1> SUFFICES ASSUME Init PROVE IInv
  OBVIOUS
<1> USE SchedulerConstants DEF NONE, Procs
<1>1. TypeOK
  <2>1. pc \in [Procs -> PCs]
    BY DEF Init, PCs
  <2>2. eip \in [Procs -> Contexts] /\ got \in [Procs -> SUBSET (Procs \cup {0})]
    BY DEF Init, Contexts
  <2>3. /\ next \in [Procs -> Procs \cup {NONE}] /\ new_proc \in [Procs -> Procs \cup {NONE}]
        /\ parent_proc \in [Procs -> Procs \cup {NONE}]
        /\ caller \in [Procs -> Procs \cup {NONE}]
    BY DEF Init
  <2>4. /\ current_proc \in Procs \cup {NONE} /\ lead \in Int
        /\ next_pid \in 1 .. (MAX_PROCS + 1)
    BY DEF Init
  <2>5. intr \in BOOLEAN /\ in_service \in BOOLEAN
    BY Zenon DEF Init
  <2> QED BY <2>1, <2>2, <2>3, <2>4, <2>5, Zenon DEF TypeOK
<1>2. Existing = {}
  BY DEF Init, Existing
<1>3. 1 \in Procs
  OBVIOUS
<1>4. NeverJumpsToUnset /\ BootFirst
  BY <1>3 DEF Init, NeverJumpsToUnset, BootFirst
<1>5. QueueInOrder /\ ContextsStored /\ CopiedStack /\ Returned
  BY <1>2, <1>3 DEF Init, QueueInOrder, ContextsStored, CopiedStack, Returned
<1>6. CliSections /\ Linking /\ ClockBehind
  BY DEF Init, CliSections, Linking, ClockBehind, InFork, OwnLocal
<1> QED BY <1>1, <1>4, <1>5, <1>6 DEF IInv

\* proc_initialize disables interrupts.
LEMMA CliIInv == IInv /\ proc_initialize_cli => IInv'
<1> SUFFICES ASSUME IInv, proc_initialize_cli PROVE IInv'
  OBVIOUS
<1> USE SchedulerConstants DEF NONE
<1>1. 1 \in Procs /\ current_proc = NONE
  BY DEF proc_initialize_cli, IInv, BootFirst, Procs
<1>2. TypeOK'
  BY <1>1 DEF proc_initialize_cli, IInv, TypeOK, PCs, locals, history
<1>3. NeverJumpsToUnset' /\ BootFirst'
  BY <1>1 DEF proc_initialize_cli, IInv, TypeOK, NeverJumpsToUnset, BootFirst
<1>4. QueueInOrder' /\ ClockBehind'
  BY DEF proc_initialize_cli, IInv, QueueInOrder, ClockBehind, Existing, history
<1>5. CliSections' /\ Linking'
  BY <1>1 DEF proc_initialize_cli, IInv, TypeOK, CliSections, Linking, Running, InFork,
              OwnLocal, locals, history
<1>6. ContextsStored' /\ CopiedStack' /\ Returned'
  <2>1. Existing = {} /\ Existing' = {}
    BY <1>1 DEF proc_initialize_cli, IInv, TypeOK, BootFirst, Existing
  <2> QED BY <2>1 DEF proc_initialize_cli, IInv, CopiedStack, ContextsStored, Returned,
                      history
<1> QED BY <1>2, <1>3, <1>4, <1>5, <1>6 DEF IInv

\* proc_initialize makes kernel main process 1.
LEMMA InitializeIInv == IInv /\ proc_initialize => IInv'
<1> SUFFICES ASSUME IInv, proc_initialize PROVE IInv'
  OBVIOUS
<1> USE SchedulerConstants DEF NONE
<1>1. current_proc = 0 /\ next_pid = 1 /\ 1 \in Procs
  BY DEF proc_initialize, IInv, BootFirst, Procs
<1>2. TypeOK'
  BY <1>1 DEF proc_initialize, IInv, TypeOK, Procs, PCs, Contexts, locals, history
<1>3. NeverJumpsToUnset' /\ BootFirst'
  BY <1>1 DEF proc_initialize, IInv, TypeOK, NeverJumpsToUnset, BootFirst, Procs
<1>4. QueueInOrder' /\ ContextsStored'
  BY <1>1 DEF proc_initialize, IInv, TypeOK, QueueInOrder, ContextsStored, Procs,
              Existing
<1>5. CliSections' /\ Linking'
  BY <1>1 DEF proc_initialize, IInv, TypeOK, CliSections, Linking, Procs, Running,
              InFork, OwnLocal, locals, history
<1>6. ClockBehind'
  BY <1>1 DEF proc_initialize, IInv, TypeOK, ClockBehind, Procs
<1>7. Existing' = {1} /\ pc'[1] = "run" /\ caller' = caller /\ got' = got
  BY <1>1 DEF proc_initialize, IInv, TypeOK, Existing, history
<1>8. CopiedStack'
  BY <1>1, <1>7 DEF proc_initialize, IInv, TypeOK, CopiedStack, Procs
<1>9. Returned'
  BY <1>1, <1>7 DEF IInv, TypeOK, CopiedStack, Returned, Procs
<1> QED BY <1>2, <1>3, <1>4, <1>5, <1>6, <1>8, <1>9 DEF IInv

\* fork disables interrupts.
LEMMA ForkCliIInv == ASSUME NEW p \in Procs, IInv, fork_cli(p) PROVE IInv'
<1> USE SchedulerConstants DEF NONE
<1>1. current_proc = p /\ p \in Existing
  BY DEF fork_cli, IInv, TypeOK, BootFirst, Running, Procs, Existing
<1>2. TypeOK'
  BY <1>1 DEF fork_cli, IInv, TypeOK, PCs, history
<1>3. NeverJumpsToUnset' /\ BootFirst'
  BY <1>1 DEF fork_cli, IInv, TypeOK, NeverJumpsToUnset, BootFirst
<1>4. QueueInOrder' /\ ClockBehind'
  BY DEF fork_cli, IInv, QueueInOrder, ClockBehind, Existing
<1>5. CliSections' /\ Linking'
  BY <1>1 DEF fork_cli, IInv, TypeOK, CliSections, Linking, Running, InFork, OwnLocal,
              history
<1>6. ContextsStored'
  BY <1>1 DEF fork_cli, IInv, TypeOK, ContextsStored, OwnLocal, Existing
<1>7. /\ Existing' = Existing /\ next_pid' = next_pid /\ current_proc' = current_proc
      /\ caller' = caller /\ got' = got
      /\ pc[p] = "run" /\ pc'[p] = "clone"
      /\ \A q \in Procs : q # p => pc'[q] = pc[q] /\ parent_proc'[q] = parent_proc[q]
  BY <1>1 DEF fork_cli, IInv, TypeOK, Existing, history
<1>8. Existing \subseteq Procs
  BY DEF IInv, TypeOK, Existing, Procs
<1>9. CopiedStack'
  BY <1>1, <1>7, <1>8 DEF IInv, TypeOK, CopiedStack, OwnLocal, Procs
<1>10. Returned'
  BY <1>1, <1>7, <1>8 DEF IInv, Returned, OwnLocal
<1> QED BY <1>2, <1>3, <1>4, <1>5, <1>6, <1>9, <1>10 DEF IInv

\* fork appends the new process to ready_queue, its context not stored.
LEMMA ForkLinkIInv == ASSUME NEW p \in Procs, IInv, fork_link(p) PROVE IInv'
<1> USE SchedulerConstants DEF NONE
<1>1. /\ current_proc = p /\ p \in Existing /\ ~intr /\ next_pid \in Procs
      /\ OwnLocal(p)
  BY DEF fork_link, IInv, TypeOK, BootFirst, Running, CliSections, Linking, Procs,
         Existing, InFork
<1>2. next' = [next EXCEPT ![next_pid - 1] = next_pid, ![next_pid] = NONE]
  <2>1. PICK last \in Existing :
           /\ next[last] = NONE
           /\ next' = [next EXCEPT ![last] = next_pid, ![next_pid] = NONE]
    BY DEF fork_link
  <2>2. last = next_pid - 1
    BY <2>1 DEF IInv, TypeOK, QueueInOrder, Existing
  <2> QED BY <2>1, <2>2
<1>3. TypeOK'
  <2>1. /\ next' \in [Procs -> Procs \cup {NONE}]
        /\ new_proc' \in [Procs -> Procs \cup {NONE}]
        /\ parent_proc' \in [Procs -> Procs \cup {NONE}]
        /\ caller' \in [Procs -> Procs \cup {NONE}]
    BY <1>1, <1>2 DEF fork_link, IInv, TypeOK
  <2>2. next_pid' \in 1 .. (MAX_PROCS + 1)
    BY <1>1 DEF fork_link, IInv, TypeOK, Procs
  <2>3. pc' \in [Procs -> PCs] /\ eip' \in [Procs -> Contexts]
    BY DEF fork_link, IInv, TypeOK, PCs, Contexts
  <2> QED BY <2>1, <2>2, <2>3 DEF fork_link, IInv, TypeOK
<1>4. NeverJumpsToUnset' /\ BootFirst'
  BY <1>1 DEF fork_link, IInv, TypeOK, NeverJumpsToUnset, BootFirst, Procs
<1>5. QueueInOrder'
  BY <1>1, <1>2 DEF fork_link, IInv, TypeOK, QueueInOrder, Existing, Procs
<1>6. /\ Existing' = Existing \cup {next_pid} /\ next_pid \notin Existing
      /\ Existing \subseteq Procs /\ next_pid # p /\ next_pid > p /\ next_pid # 1
      /\ current_proc' = p /\ next_pid' = next_pid + 1 /\ got' = got
  BY <1>1 DEF fork_link, IInv, TypeOK, Existing, Procs
<1>7. /\ pc'[p] = "test" /\ pc[p] = "clone" /\ parent_proc[p] = p
      /\ parent_proc'[next_pid] = p /\ caller'[next_pid] = p
      /\ new_proc'[p] = next_pid
      /\ \A q \in Procs : q # p => pc'[q] = pc[q]
      /\ \A q \in Procs : q # next_pid =>
            /\ parent_proc'[q] = parent_proc[q] /\ caller'[q] = caller[q]
            /\ eip'[q] = eip[q]
  BY <1>1, <1>6 DEF fork_link, IInv, TypeOK, OwnLocal
<1>8. pc[next_pid] = "none"
  BY <1>1, <1>6 DEF IInv, CopiedStack, Procs
<1>9. CliSections' /\ Linking'
  BY <1>1, <1>6, <1>7, <1>8
     DEF fork_link, IInv, TypeOK, CliSections, Linking, Running, InFork, OwnLocal, Procs
<1>10. ContextsStored'
  <2>1. p # next_pid /\ parent_proc'[p] = p /\ eip'[next_pid] = "unset"
    BY <1>1, <1>6, <1>7 DEF fork_link, IInv, TypeOK
  <2>2. ASSUME NEW q \in Existing
        PROVE  (eip'[q] = "unset" => q = 1) /\ (q > p => eip'[q] # "switch")
    BY <1>1, <1>6, <1>7 DEF IInv, ContextsStored
  <2> QED BY <1>6, <1>7, <2>1, <2>2 DEF ContextsStored, OwnLocal, IInv, TypeOK
<1>11. CopiedStack'
  BY <1>1, <1>6, <1>7, <1>8 DEF IInv, TypeOK, CopiedStack, OwnLocal, Existing, Procs
<1>12. Returned'
  <2>1. got[next_pid] = {} /\ parent_proc'[p] = p /\ next_pid + 1 - 1 = next_pid
    BY <1>1, <1>6, <1>7 DEF IInv, TypeOK, CopiedStack, Procs
  <2>2. \A c \in Existing : caller'[c] = caller[c] /\ c # next_pid /\ caller[c] # next_pid
    BY <1>6, <1>7 DEF IInv, CopiedStack, NONE, Existing
  <2>3. ASSUME NEW q \in Existing, NEW c \in Procs
        PROVE  c \in got[q] <=>
                  /\ c \in Existing' /\ caller'[c] = q
                  /\ ~(pc'[q] = "test" /\ parent_proc'[q] = q /\ c = next_pid)
    <3>1. CASE c = next_pid
      <4>1. c \notin got[q]
        BY <1>6, <3>1 DEF IInv, Returned
      <4>2. CASE q = p
        BY <1>7, <2>1, <3>1, <4>1, <4>2
      <4>3. CASE q # p
        BY <1>7, <3>1, <4>1, <4>3
      <4> QED BY <4>2, <4>3
    <3>2. CASE c # next_pid
      <4>1. caller'[c] = caller[c] /\ (c \in Existing' <=> c \in Existing)
        BY <1>6, <1>7, <3>2
      <4>2. ~(pc[q] = "test" /\ parent_proc[q] = q)
        BY <1>1, <1>6, <1>7 DEF IInv, CliSections, InFork, OwnLocal, Running, NONE, Procs
      <4>3. c \in got[q] <=> c \in Existing /\ caller[c] = q
        BY <4>2 DEF IInv, Returned, OwnLocal
      <4> QED BY <3>2, <4>1, <4>3
    <3> QED BY <3>1, <3>2
  <2>4. ASSUME NEW q \in Existing
        PROVE  0 \in got[q] <=>
                  q # 1 /\ ~(pc'[q] \in {"none", "test"} /\ parent_proc'[q] # q)
    <3>1. CASE q = p
      BY <1>7, <2>1, <3>1 DEF IInv, Returned, OwnLocal
    <3>2. CASE q # p
      BY <1>6, <1>7, <3>2 DEF IInv, Returned, OwnLocal
    <3> QED BY <3>1, <3>2
  <2>5. ASSUME NEW c \in Procs PROVE ~(c \in Existing' /\ caller'[c] = next_pid)
    BY <1>6, <1>7, <2>2
  <2>6. /\ \A c \in Procs : c \notin got[next_pid] /\ 0 \notin got[next_pid]
        /\ pc'[next_pid] = "none" /\ parent_proc'[next_pid] # next_pid
    BY <1>1, <1>6, <1>7, <1>8, <2>1
  <2>7. got' = got /\ next_pid' - 1 = next_pid
    BY <1>1, <1>6 DEF Procs
  <2>8. ASSUME NEW q \in Existing'
        PROVE  /\ \A c \in Procs :
                     c \in got[q] <=>
                        /\ c \in Existing' /\ caller'[c] = q
                        /\ ~(pc'[q] = "test" /\ parent_proc'[q] = q /\ c = next_pid)
               /\ 0 \in got[q] <=>
                     q # 1 /\ ~(pc'[q] \in {"none", "test"} /\ parent_proc'[q] # q)
    <3>1. CASE q \in Existing
      BY <2>3, <2>4, <3>1
    <3>2. CASE q = next_pid
      BY <2>5, <2>6, <3>2
    <3> QED BY <1>6, <3>1, <3>2
  <2> QED BY <2>7, <2>8 DEF Returned, OwnLocal
<1>13. ClockBehind'
  BY DEF fork_link, IInv, ClockBehind
<1> QED BY <1>3, <1>4, <1>5, <1>9, <1>10, <1>11, <1>12, <1>13 DEF IInv

\* The parent stores the context of the child and enables interrupts.
LEMMA ForkParentIInv == ASSUME NEW p \in Procs, IInv, fork_parent(p) PROVE IInv'
<1> USE SchedulerConstants DEF NONE
<1>1. /\ current_proc = p /\ p \in Existing /\ ~intr /\ OwnLocal(p)
      /\ new_proc[p] = next_pid - 1 /\ new_proc[p] > p /\ new_proc[p] \in Procs
      /\ caller[new_proc[p]] = p
  BY DEF fork_parent, StillParent, IInv, TypeOK, BootFirst, Running, CliSections,
         Linking, Procs, Existing, InFork, OwnLocal
<1>2. TypeOK'
  BY <1>1 DEF fork_parent, IInv, TypeOK, PCs, Contexts, Procs, locals
<1>3. NeverJumpsToUnset' /\ BootFirst'
  BY <1>1 DEF fork_parent, IInv, TypeOK, NeverJumpsToUnset, BootFirst, Procs
<1>4. QueueInOrder' /\ ClockBehind'
  BY DEF fork_parent, IInv, QueueInOrder, ClockBehind, Existing
<1>5. CliSections' /\ Linking'
  BY <1>1 DEF fork_parent, IInv, TypeOK, CliSections, Linking, Running, Procs, InFork,
              OwnLocal, locals
<1>6. ContextsStored'
  BY <1>1 DEF fork_parent, IInv, TypeOK, ContextsStored, Existing, Procs, OwnLocal, locals
<1>7. /\ Existing' = Existing /\ next_pid' = next_pid /\ current_proc' = current_proc
      /\ caller' = caller /\ parent_proc' = parent_proc
      /\ pc[p] = "test" /\ pc'[p] = "run"
      /\ got'[p] = got[p] \cup {next_pid - 1} /\ next_pid - 1 # 0
      /\ \A q \in Procs : q # p => pc'[q] = pc[q] /\ got'[q] = got[q]
      /\ Existing \subseteq Procs /\ next_pid - 1 \in Existing
  BY <1>1 DEF fork_parent, IInv, TypeOK, Existing, Procs, locals
<1>8. CopiedStack'
  BY <1>1, <1>7 DEF IInv, TypeOK, CopiedStack, OwnLocal, Existing, Procs
<1>9. Returned'
  BY <1>1, <1>7 DEF IInv, Returned, OwnLocal
<1> QED BY <1>2, <1>3, <1>4, <1>5, <1>6, <1>8, <1>9 DEF IInv

\* The child returns from fork, interrupts enabled.
LEMMA ForkChildIInv == ASSUME NEW p \in Procs, IInv, fork_child(p) PROVE IInv'
<1> USE SchedulerConstants DEF NONE
<1>1. current_proc = p /\ p \in Existing /\ ~OwnLocal(p) /\ p # 1
  BY DEF fork_child, StillParent, IInv, TypeOK, BootFirst, Running, Procs, Existing,
         CopiedStack, OwnLocal
<1>2. TypeOK'
  BY <1>1 DEF fork_child, IInv, TypeOK, PCs, locals
<1>3. NeverJumpsToUnset' /\ BootFirst'
  BY <1>1 DEF fork_child, IInv, TypeOK, NeverJumpsToUnset, BootFirst, Procs
<1>4. QueueInOrder' /\ ClockBehind'
  BY DEF fork_child, IInv, QueueInOrder, ClockBehind, Existing
<1>5. CliSections' /\ Linking'
  BY <1>1 DEF fork_child, IInv, TypeOK, CliSections, Linking, Running, Procs, InFork,
              OwnLocal, locals
<1>6. ContextsStored'
  BY <1>1 DEF fork_child, IInv, TypeOK, ContextsStored, Existing, Procs, OwnLocal, locals
<1>7. /\ Existing' = Existing /\ next_pid' = next_pid /\ current_proc' = current_proc
      /\ caller' = caller /\ parent_proc' = parent_proc
      /\ pc[p] = "test" /\ pc'[p] = "run"
      /\ got'[p] = got[p] \cup {0} /\ 0 \notin Procs
      /\ \A q \in Procs : q # p => pc'[q] = pc[q] /\ got'[q] = got[q]
      /\ Existing \subseteq Procs
  BY <1>1 DEF fork_child, IInv, TypeOK, Existing, Procs, locals
<1>8. CopiedStack'
  <2>1. 1 \in Procs /\ ~(p >= next_pid) /\ ~(p > current_proc)
    BY <1>1 DEF Existing, Procs, IInv, TypeOK
  <2>2. got'[1] = got[1]
    BY <1>1, <1>7, <2>1
  <2> QED BY <1>1, <1>7, <2>1, <2>2 DEF IInv, CopiedStack, OwnLocal
<1>9. Returned'
  BY <1>1, <1>7 DEF IInv, Returned, OwnLocal
<1> QED BY <1>2, <1>3, <1>4, <1>5, <1>6, <1>8, <1>9 DEF IInv

\* A tick at the end of ready_queue.
LEMMA TickStayIInv == IInv /\ tick_stay => IInv'
<1> SUFFICES ASSUME IInv, tick_stay PROVE IInv'
  OBVIOUS
<1> USE SchedulerConstants DEF NONE
<1>1. TypeOK'
  <2>1. in_service' \in BOOLEAN
    BY Zenon DEF tick_stay, eoi_pending
  <2>2. lead' \in Int
    BY DEF tick_stay, Clock, IInv, TypeOK
  <2> QED BY <2>1, <2>2, Zenon DEF tick_stay, IInv, TypeOK, locals, history
<1>2. NeverJumpsToUnset' /\ BootFirst' /\ QueueInOrder'
  BY DEF tick_stay, IInv, NeverJumpsToUnset, BootFirst, QueueInOrder, Existing
<1>3. CliSections' /\ Linking' /\ ContextsStored' /\ CopiedStack' /\ Returned'
  BY DEF tick_stay, IInv, CliSections, Linking, ContextsStored, CopiedStack, Returned,
         Existing, Running, InFork, OwnLocal, locals, history
<1>4. ClockBehind'
  BY DEF tick_stay, IInv, TypeOK, ClockBehind, Clock, Procs
<1> QED BY <1>1, <1>2, <1>3, <1>4 DEF IInv

\* A tick that switches: the next process in the list has never run and its
\* context is the one that fork stored, since no fork is under way.
LEMMA TickSwitchIInv == IInv /\ tick_switch => IInv'
<1> SUFFICES ASSUME IInv, tick_switch PROVE IInv'
  OBVIOUS
<1> USE SchedulerConstants DEF NONE
<1>1. /\ current_proc \in Existing /\ current_proc \in Procs
      /\ next[current_proc] # NONE
  BY DEF tick_switch, Following, IInv, TypeOK, BootFirst, Procs, Existing
<1>2. /\ NextProc = current_proc + 1
      /\ current_proc + 1 \in Existing /\ current_proc + 1 \in Procs
  BY <1>1 DEF NextProc, Following, IInv, TypeOK, QueueInOrder, Procs, Existing
<1>3. \A p \in Procs : pc[p] # "init" /\ ~InFork(p)
  BY DEF tick_switch, IInv, CliSections
<1>4. eip[current_proc + 1] = "fork"
  BY <1>1, <1>2, <1>3 DEF IInv, TypeOK, ContextsStored, Contexts, Procs, InFork
<1>5. /\ eip' = [eip EXCEPT ![current_proc] = "switch"]
      /\ current_proc' = current_proc + 1
      /\ pc' = [pc EXCEPT ![current_proc + 1] = "test"]
      /\ lead' = lead - 1
      /\ intr' = TRUE /\ in_service' = FALSE
      /\ UNCHANGED <<next_pid, next, parent_proc, new_proc, caller, got>>
  BY <1>2, <1>4 DEF tick_switch, eoi_pending, locals, history
<1>6. TypeOK'
  <2>1. intr' \in BOOLEAN /\ in_service' \in BOOLEAN
    BY <1>5, Zenon
  <2>2. /\ current_proc' \in Procs \cup {NONE} /\ lead' \in Int
        /\ eip' \in [Procs -> Contexts] /\ pc' \in [Procs -> PCs]
    BY <1>1, <1>2, <1>5 DEF IInv, TypeOK, PCs, Contexts
  <2> QED BY <1>5, <2>1, <2>2, Zenon DEF IInv, TypeOK
<1>7. NeverJumpsToUnset' /\ BootFirst'
  BY <1>1, <1>2, <1>5 DEF IInv, TypeOK, NeverJumpsToUnset, BootFirst, Procs, Existing
<1>8. QueueInOrder' /\ ClockBehind'
  BY <1>1, <1>5 DEF IInv, TypeOK, QueueInOrder, ClockBehind, Existing, Procs
<1>9. /\ Existing' = Existing /\ Existing \subseteq Procs
      /\ pc[current_proc + 1] = "none" /\ pc'[current_proc + 1] = "test"
      /\ parent_proc[current_proc + 1] # current_proc + 1
      /\ \A q \in Procs : q # current_proc + 1 => pc'[q] = pc[q]
  BY <1>1, <1>2, <1>5 DEF IInv, TypeOK, CopiedStack, Existing, Procs
<1>10. CliSections' /\ Linking'
  BY <1>2, <1>3, <1>5, <1>9 DEF IInv, TypeOK, CliSections, Linking, InFork, OwnLocal
<1>11. ContextsStored'
  BY <1>1, <1>2, <1>3, <1>5 DEF IInv, TypeOK, ContextsStored, InFork, Existing, Procs
<1>12. CopiedStack'
  BY <1>1, <1>2, <1>5, <1>9 DEF IInv, TypeOK, CopiedStack, OwnLocal, Existing, Procs
<1>13. Returned'
  BY <1>1, <1>2, <1>5, <1>9 DEF IInv, TypeOK, CopiedStack, Returned, OwnLocal, Existing,
                                Procs
<1> QED BY <1>6, <1>7, <1>8, <1>10, <1>11, <1>12, <1>13 DEF IInv

\* Every step keeps the invariant.
LEMMA NextIInv == IInv /\ [Next]_vars => IInv'
<1> SUFFICES ASSUME IInv, [Next]_vars PROVE IInv'
  OBVIOUS
<1>1. ASSUME NEW p \in Procs, fork_cli(p) \/ Step(p) PROVE IInv'
  BY <1>1, ForkCliIInv, ForkLinkIInv, ForkParentIInv, ForkChildIInv DEF Step
<1>2. CASE UNCHANGED vars
  BY <1>2 DEF vars, IInv, TypeOK, NeverJumpsToUnset, BootFirst, QueueInOrder,
     CliSections, Linking, CopiedStack, Returned, ContextsStored, ClockBehind,
     Existing, Running, InFork, OwnLocal
<1> QED
  BY <1>1, <1>2, CliIInv, InitializeIInv, TickStayIInv, TickSwitchIInv DEF Next

\* The inductive invariant holds in every state that fork and the timer reach.
THEOREM AlwaysIInv == Spec => []IInv
  BY InitIInv, NextIInv, PTL DEF Spec

\* Every variable of fork and switch_proc keeps its type.
THEOREM SchedulerTypeCorrect == Spec => []TypeOK
<1>1. IInv => TypeOK
  BY DEF IInv
<1> QED BY <1>1, AlwaysIInv, PTL

\* For every number of processes: the timer never jumps to a context that
\* fork has not stored.
THEOREM ContextStoredFirst == Spec => []NeverJumpsToUnset
<1>1. IInv => NeverJumpsToUnset
  BY DEF IInv
<1> QED BY <1>1, AlwaysIInv, PTL

\* For every number of processes: the test of proc.c gives every parent the
\* pids of its children and 0 to every child and to nobody else.
THEOREM ForkReturnValues == Spec => []ForkTellsApart
<1>1. IInv => ForkTellsApart
  <2> SUFFICES ASSUME IInv, NEW p \in Existing, pc[p] = "run"
               PROVE  /\ got[p] \ {0} = Children(p)
                      /\ \A c \in Children(p) : eip[c] # "unset"
                      /\ 0 \in got[p] <=> caller[p] # NONE
    BY DEF ForkTellsApart
  <2>1. /\ Existing \subseteq Procs /\ 0 \notin Procs /\ 1 \in Procs
        /\ got[p] \subseteq Procs \cup {0}
    BY SchedulerConstants DEF IInv, TypeOK, Existing, Procs
  <2>2. \A c \in Procs : c \in got[p] <=> c \in Existing /\ caller[c] = p
    BY DEF IInv, Returned
  <2>3. got[p] \ {0} = Children(p)
    BY <2>1, <2>2 DEF Children
  <2>4. ASSUME NEW c \in Children(p), eip[c] = "unset" PROVE FALSE
    <3>1. c \in Existing /\ caller[c] = p /\ p # NONE
      BY <2>1 DEF Children, NONE
    <3>2. c # 1
      BY <2>1, <3>1 DEF IInv, CopiedStack
    <3>3. c = next_pid - 1 /\ pc[current_proc] = "test" /\ OwnLocal(current_proc)
      BY <2>4, <3>1, <3>2 DEF IInv, ContextsStored
    <3>4. current_proc \in Procs
      BY <2>1, <3>1, SchedulerConstants
         DEF IInv, TypeOK, BootFirst, Existing, NONE, Procs
    <3>5. caller[c] = current_proc
      BY <3>3, <3>4 DEF IInv, Linking
    <3> QED BY <3>1, <3>3, <3>5
  <2>5. 0 \in got[p] <=> caller[p] # NONE
    <3>1. caller[p] # NONE <=> p # 1
      BY <2>1 DEF IInv, CopiedStack, Existing, Procs, NONE
    <3>2. 0 \in got[p] <=> p # 1
      BY DEF IInv, Returned
    <3> QED BY <3>1, <3>2
  <2> QED BY <2>3, <2>4, <2>5
<1> QED BY <1>1, AlwaysIInv, PTL

\* For every rate: seconds_passed is at most a second ahead, and behind by at
\* most one tick for each process.
THEOREM UptimeBounded == Spec => []UptimeFollowsTicks
<1>1. IInv => UptimeFollowsTicks
  <2> SUFFICES ASSUME IInv PROVE UptimeFollowsTicks
    OBVIOUS
  <2>1. next_pid - 1 \in Nat /\ next_pid \in Int
    BY SchedulerConstants DEF IInv, TypeOK
  <2>2. Cardinality(Existing) = next_pid - 1
    BY <2>1, FS_Interval DEF Existing
  <2> QED BY <2>1, <2>2, SchedulerConstants
          DEF IInv, TypeOK, BootFirst, ClockBehind, UptimeFollowsTicks, NONE, Procs
<1> QED BY <1>1, AlwaysIInv, PTL
=============================================================================
