---------------------------- MODULE AddressSpace ----------------------------
(***************************************************************************)
(* The address spaces of processes: move_stack and fork of proc.c, with    *)
(* get_page, alloc_frame, clone_page_directory, clone_page_table and       *)
(* switch_page_directory of vm.c and copy_physical_page of proc.S.         *)
(*                                                                         *)
(* The state is that of a kernel that has finished vm_initialize: process  *)
(* 1 runs in a clone of kernel_pd.  A page directory is its array of page  *)
(* tables (entries[] repeats their physical addresses), a table is the     *)
(* array of the frames of its pages, 0 for none.  pmalloc answers with the *)
(* lowest frame that is free (module FrameAllocator).                      *)
(***************************************************************************)
EXTENDS Integers, FiniteSets, FiniteSetsExt

CONSTANTS
    PD_ENTRIES, PT_ENTRIES,
    KernelPages,       \* the pages mapped in kernel_pd
    StackPages,        \* the pages of the stack that move_stack maps
    FRAMES,            \* bound on the number of frames
    MAX_PROCS,         \* bound on the number of processes
    MAX_TABLES,        \* bound on the number of page tables
    Values             \* what a page can hold

Procs == 1 .. MAX_PROCS
Indices == 0 .. (PD_ENTRIES - 1)
Entries == 0 .. (PT_ENTRIES - 1)
Pages == 0 .. (PD_ENTRIES * PT_ENTRIES - 1)
Tables == 1 .. MAX_TABLES
Frames == 1 .. FRAMES

TableOf(page) == page \div PT_ENTRIES
EntryOf(page) == page % PT_ENTRIES

KernelIndices == {TableOf(page) : page \in KernelPages}

ASSUME AddressSpaceConstants ==
    /\ {PD_ENTRIES, PT_ENTRIES, MAX_PROCS} \subseteq Nat \ {0}
    /\ FRAMES \in Nat /\ MAX_TABLES \in Nat
    /\ KernelPages \subseteq Pages /\ StackPages \subseteq Pages
    /\ StackPages # {}
    /\ \A page \in StackPages : TableOf(page) \notin KernelIndices
    /\ Cardinality(KernelPages) <= FRAMES
    /\ Cardinality(KernelIndices) <= MAX_TABLES

VARIABLES
    nframes,           \* the memory's frames are 1 .. nframes (frame 0 is
                       \* that of page 0)
    pds,               \* pds[p]: tables[] of the directory of process p
    tables,            \* tables[t]: the frames of table t
    ntables,           \* the tables that exist are 1 .. ntables
    memory,            \* memory[f]: what frame f holds
    nprocs,            \* the processes that exist are 1 .. nprocs
    current_proc,
    to_map,            \* the stack pages that move_stack has not mapped yet
    panic              \* "No free frames"

vars == <<nframes, pds, tables, ntables, memory, nprocs, current_proc, to_map,
          panic>>

\* The rank of n among the members of S, from 1.
Rank(n, S) == Cardinality({m \in S : m <= n})

kernel_pd ==
    [i \in Indices |-> IF i \in KernelIndices THEN Rank(i, KernelIndices) ELSE 0]

Init ==
    /\ nframes \in Cardinality(KernelPages) .. FRAMES
    /\ pds = [p \in Procs |-> IF p = 1 THEN kernel_pd ELSE [i \in Indices |-> 0]]
    /\ ntables = Cardinality(KernelIndices)
    /\ tables = [t \in Tables |-> [e \in Entries |->
          LET mapped == {page \in KernelPages :
                            kernel_pd[TableOf(page)] = t /\ EntryOf(page) = e}
          IN  IF mapped = {} THEN 0
              ELSE Rank(CHOOSE page \in mapped : TRUE, KernelPages)]]
    /\ memory \in [Frames -> Values]
    /\ nprocs = 1
    /\ current_proc = 1
    /\ to_map = StackPages
    /\ panic = FALSE

Used == {tables[t][e] : t \in 1 .. ntables, e \in Entries}
Free == (1 .. nframes) \ Used

\* What the n-th of several calls of pmalloc returns.
pmalloc(n) == CHOOSE f \in Free : Rank(f, Free) = n

\* The frame of a page in the address space of p, 0 if it has none.
FrameOf(p, page) ==
    IF pds[p][TableOf(page)] = 0 THEN 0
    ELSE tables[pds[p][TableOf(page)]][EntryOf(page)]

(***************************************************************************)
(* move_stack: the next page down, alloc_frame(get_page(i, current_pd,     *)
(* true), false, true).  When the last one is mapped the old stack is      *)
(* copied to the new one and its pointers are adjusted.                    *)
(***************************************************************************)
Filled(contents) ==
    [f \in Frames |->
       IF \E page \in StackPages : FrameOf(1, page)' = f
       THEN contents[CHOOSE page \in StackPages : FrameOf(1, page)' = f]
       ELSE memory[f]]

move_stack ==
    LET page   == Max(to_map)
        i      == TableOf(page)
        exists == pds[1][i] # 0
        t      == IF exists THEN pds[1][i] ELSE ntables + 1
    IN  /\ ~panic
        /\ to_map # {}
        /\ t \in Tables
        /\ pds' = [pds EXCEPT ![1][i] = t]
        /\ ntables' = IF exists THEN ntables ELSE ntables + 1
        /\ \/ /\ Free = {}
              /\ panic' = TRUE
              /\ UNCHANGED <<tables, memory, to_map>>
           \/ /\ Free # {}
              /\ tables' = [tables EXCEPT ![t][EntryOf(page)] = pmalloc(1)]
              /\ to_map' = to_map \ {page}
              /\ IF to_map' = {}
                   THEN \E contents \in [StackPages -> Values] :
                           memory' = Filled(contents)
                   ELSE UNCHANGED memory
              /\ UNCHANGED panic
        /\ UNCHANGED <<nframes, nprocs, current_proc>>

(***************************************************************************)
(* clone_page_directory: tables that kernel_pd has are linked, the others  *)
(* copied with every page that has a frame.                                *)
(***************************************************************************)
\* Mutants of Linked: every table is copied, every table is linked.
Linked_never(src, i) == FALSE
Linked_always(src, i) == TRUE

Linked(src, i) == src[i] = kernel_pd[i]

Copied(src) == {i \in Indices : src[i] # 0 /\ ~Linked(src, i)}

\* Mutant of CloneOf: one table too far.
CloneOf_next(src, i) == ntables + Rank(i, Copied(src)) + 1

CloneOf(src, i) == ntables + Rank(i, Copied(src))

clone_page_directory(src) ==
    [i \in Indices |-> IF i \in Copied(src) THEN CloneOf(src, i) ELSE src[i]]

\* The pages clone_page_table copies, and the frame alloc_frame gets for each.
ToCopy(src) ==
    {page \in Pages : TableOf(page) \in Copied(src)
                      /\ tables[src[TableOf(page)]][EntryOf(page)] # 0}

NewFrame(src, page) == pmalloc(Rank(page, ToCopy(src)))

clone_page_table(src, i) ==
    [e \in Entries |->
       LET page == i * PT_ENTRIES + e
       IN  IF page \in ToCopy(src) THEN NewFrame(src, page) ELSE 0]

\* copy_physical_page, for each of them.
CopiedMemory(src) ==
    [f \in Frames |->
       IF \E page \in ToCopy(src) : NewFrame(src, page) = f
       THEN LET page == CHOOSE page \in ToCopy(src) : NewFrame(src, page) = f
            IN  memory[tables[src[TableOf(page)]][EntryOf(page)]]
       ELSE memory[f]]

\* fork, as far as memory is concerned; interrupts are disabled.
fork ==
    LET src   == pds[current_proc]
        child == nprocs + 1
    IN  /\ ~panic
        /\ to_map = {}
        /\ child \in Procs
        /\ ntables + Cardinality(Copied(src)) <= MAX_TABLES
        /\ \/ /\ Cardinality(Free) < Cardinality(ToCopy(src))
              /\ panic' = TRUE
              /\ UNCHANGED <<pds, tables, ntables, memory, nprocs>>
           \/ /\ Cardinality(Free) >= Cardinality(ToCopy(src))
              /\ pds' = [pds EXCEPT ![child] = clone_page_directory(src)]
              /\ ntables' = ntables + Cardinality(Copied(src))
              /\ tables' = [t \in Tables |->
                    IF \E i \in Copied(src) : CloneOf(src, i) = t
                    THEN clone_page_table(src,
                            CHOOSE i \in Copied(src) : CloneOf(src, i) = t)
                    ELSE tables[t]]
              /\ memory' = CopiedMemory(src)
              /\ nprocs' = child
              /\ UNCHANGED panic
        /\ UNCHANGED <<nframes, current_proc, to_map>>

\* switch_proc and switch_page_directory: another process runs.
switch_proc(p) ==
    /\ ~panic
    /\ to_map = {}
    /\ p \in 1 .. nprocs
    /\ current_proc' = p
    /\ UNCHANGED <<nframes, pds, tables, ntables, memory, nprocs, to_map, panic>>

\* The process that runs writes to a page.
write(page, v) ==
    /\ ~panic
    /\ FrameOf(current_proc, page) # 0
    /\ memory' = [memory EXCEPT ![FrameOf(current_proc, page)] = v]
    /\ UNCHANGED <<nframes, pds, tables, ntables, nprocs, current_proc, to_map,
                   panic>>

Next ==
    \/ move_stack
    \/ fork
    \/ \E p \in Procs : switch_proc(p)
    \/ \E page \in KernelPages, v \in Values : write(page, v)
    \/ \E page \in StackPages, v \in Values : to_map = {} /\ write(page, v)

Spec == Init /\ [][Next]_vars

(***************************************************************************)
(* Properties.                                                             *)
(***************************************************************************)

\* Type invariant.
TypeOK ==
    /\ nframes \in 0 .. FRAMES
    /\ pds \in [Procs -> [Indices -> 0 .. ntables]]
    /\ tables \in [Tables -> [Entries -> Frames \cup {0}]]
    /\ ntables \in 0 .. MAX_TABLES
    /\ memory \in [Frames -> Values]
    /\ nprocs \in Procs
    /\ current_proc \in 1 .. nprocs
    /\ to_map \subseteq StackPages
    /\ panic \in BOOLEAN

\* What the processes see of the kernel's pages, and each of its own.
Shared == [page \in KernelPages |-> memory[FrameOf(1, page)]]

Own == IF to_map # {} THEN <<>>
       ELSE [p \in 1 .. nprocs |-> [page \in StackPages |-> memory[FrameOf(p, page)]]]

Memory == INSTANCE PrivateMemory WITH
    SharedPages <- KernelPages, OwnPages <- StackPages,
    shared <- Shared, own <- Own

\* fork ("Clone parent address space") and clone_page_directory ("link if
\* it's part of the kernel (included in kernel_pd), otherwise copy it"):
\* every process has a stack of its own, a copy of its parent's at the fork
\* that no other process writes afterwards.
ImplementsPrivateMemory == Memory!Spec

\* All processes see the same kernel memory, and no frame is in two tables
\* or twice in one.
KernelSharedRestPrivate ==
    /\ \A p \in 1 .. nprocs, page \in KernelPages :
          FrameOf(p, page) = FrameOf(1, page)
    /\ \A t, u \in 1 .. ntables : \A d, e \in Entries :
          tables[t][d] # 0 /\ tables[t][d] = tables[u][e] => t = u /\ d = e
=============================================================================
