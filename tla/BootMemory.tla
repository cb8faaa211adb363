----------------------------- MODULE BootMemory -----------------------------
(***************************************************************************)
(* How memory is laid out at boot: pm_initialize and frame_initialize of   *)
(* pm.c, vm_initialize of vm.c, and what they call before the kernel heap  *)
(* exists: ikmalloc (which then moves placement_address up), get_page,     *)
(* alloc_frame and heap_init.                                              *)
(*                                                                         *)
(* Addresses are in bytes of a small machine; placed records every region  *)
(* that the boot loader or the kernel has put data in.  pmalloc is module  *)
(* FrameAllocator: without frees it hands out 0, 1, 2, ... in order.       *)
(***************************************************************************)
EXTENDS Integers, FiniteSets

CONSTANTS
    PAGE_SIZE,         \* equal to FRAME_SIZE
    BYTE,              \* bits in a byte
    MAX_ORDER,
    PT_ENTRIES,        \* pages that one page table maps
    PD_BYTES,          \* sizeof(page_directory_t)
    HEAP_BYTES,        \* sizeof(heap_t)
    NODE_BYTES,        \* sizeof(avl_node_t)
    KERNEL_LO,         \* where the kernel image and the usable memory start
    PM_END,            \* where the usable memory ends
    HEADER_BYTES,      \* the multiboot header, which lies before stext
    Layouts,           \* what the boot loader may find and choose: the size
                       \* of the image (ekernel - KERNEL_LO), the size of the
                       \* initrd, and the gap it leaves between the two
    KHEAP_START, KHEAP_INITIAL_SIZE

ALIGN(a, size) == ((a + size - 1) \div size) * size

\* Where the boot loader puts the initrd, on a page boundary behind the
\* kernel image, and where pm_initialize lets the free memory begin.
InitrdStart(l) == ALIGN(KERNEL_LO + l.kernel + l.gap, PAGE_SIZE)
PmStart(l) == KERNEL_LO + ALIGN(l.kernel - HEADER_BYTES, PAGE_SIZE)
                        + ALIGN(l.initrd, PAGE_SIZE)

\* The image and the initrd leave usable memory, all of it below the heap.
ASSUME BootConstants ==
    /\ {PAGE_SIZE, BYTE, PT_ENTRIES, PD_BYTES, HEAP_BYTES, NODE_BYTES}
          \subseteq Nat \ {0}
    /\ {MAX_ORDER, KERNEL_LO, PM_END, HEADER_BYTES, KHEAP_INITIAL_SIZE} \subseteq Nat
    /\ KHEAP_START \in Nat
    /\ Layouts \subseteq [kernel : Nat, initrd : Nat, gap : Nat]
    /\ \A l \in Layouts : PmStart(l) <= PM_END
    /\ KERNEL_LO % PAGE_SIZE = 0
    /\ KHEAP_START % (PAGE_SIZE * PT_ENTRIES) = 0
    /\ KHEAP_INITIAL_SIZE % PAGE_SIZE = 0
    /\ PM_END < KHEAP_START
    /\ HEAP_BYTES + NODE_BYTES <= PD_BYTES

\* The image holds the multiboot header, which is shorter than a page, and an
\* initrd is never empty: it begins with the number of its files.
ASSUME BootImage ==
    /\ HEADER_BYTES <= PAGE_SIZE
    /\ \A l \in Layouts : l.kernel >= HEADER_BYTES /\ l.initrd >= 1

\* 2^k is a positive number: arithmetic the provers have no rule for.
ASSUME BootPowers == \A k \in 0 .. MAX_ORDER : 2^k \in Nat \ {0}

VARIABLES
    pc,                \* the statement of vm_initialize that is next
    initrd_end,
    pm_start,          \* where pm_initialize takes the free memory to begin
    nframes,
    placement_address,
    order,             \* loop counter of frame_initialize
    vaddr,             \* loop counter of vm_initialize
    tables,            \* the indices of kernel_pd that have a page table
    pte,               \* pte[page]: the frame of a page that has one
    next_frame,        \* the frame pmalloc returns next
    placed             \* the regions that hold data

vars == <<pc, initrd_end, pm_start, nframes, placement_address, order, vaddr, tables,
          pte, next_frame, placed>>

Region(what, lo, size) == [what |-> what, lo |-> lo, hi |-> lo + size]

\* Mutant of Init: placement_address is taken before the initrd is counted.
Init_early ==
    \E l \in Layouts :
       /\ initrd_end = InitrdStart(l) + l.initrd
       /\ pm_start = PmStart(l)
       /\ nframes = (PM_END - PmStart(l)) \div PAGE_SIZE
       /\ placement_address = KERNEL_LO + ALIGN(l.kernel - HEADER_BYTES, PAGE_SIZE)
       /\ placed = {Region("kernel", KERNEL_LO, l.kernel),
                    Region("initrd", InitrdStart(l), l.initrd)}
       /\ pc = "bitmaps"
       /\ order = 0
       /\ vaddr = 0
       /\ tables = {}
       /\ pte = <<>>
       /\ next_frame = 0

\* After pm_initialize.
Init ==
    \E l \in Layouts :
       /\ initrd_end = InitrdStart(l) + l.initrd
       /\ pm_start = PmStart(l)
       /\ nframes = (PM_END - PmStart(l)) \div PAGE_SIZE
       /\ placement_address = PmStart(l)
       /\ placed = {Region("kernel", KERNEL_LO, l.kernel),
                    Region("initrd", InitrdStart(l), l.initrd)}
       /\ pc = "bitmaps"
       /\ order = 0
       /\ vaddr = 0
       /\ tables = {}
       /\ pte = <<>>
       /\ next_frame = 0

\* ikmalloc while kheap is 0: the address it returns.
Placement(page_align) ==
    IF page_align THEN ALIGN(placement_address, PAGE_SIZE) ELSE placement_address

\* Mutant of ikmalloc: placement_address is advanced from where it was before
\* it was aligned.
ikmalloc_unaligned(what, size, page_align) ==
    /\ placement_address' = placement_address + size
    /\ placed' = placed \cup {Region(what, Placement(page_align), size)}

ikmalloc(what, size, page_align) ==
    /\ placement_address' = Placement(page_align) + size
    /\ placed' = placed \cup {Region(what, Placement(page_align), size)}

\* One round of frame_initialize.
BitmapBytes == ((nframes \div 2^order) + BYTE - 1) \div BYTE

frame_initialize ==
    /\ pc = "bitmaps"
    /\ ikmalloc("bitmap", BitmapBytes, order = 0)
    /\ order' = order + 1
    /\ pc' = IF order = MAX_ORDER THEN "directory" ELSE pc
    /\ UNCHANGED <<initrd_end, pm_start, nframes, vaddr, tables, pte, next_frame>>

create_kernel_pd ==
    /\ pc = "directory"
    /\ ikmalloc("directory", PD_BYTES, TRUE)
    /\ vaddr' = KHEAP_START
    /\ pc' = "heap_tables"
    /\ UNCHANGED <<initrd_end, pm_start, nframes, order, tables, pte, next_frame>>

\* get_page(vaddr, kernel_pd, true).
TableOf(va) == va \div (PAGE_SIZE * PT_ENTRIES)

\* Mutant of get_page: every page gets a new table.
get_page_always ==
    /\ ikmalloc("table", PAGE_SIZE, TRUE)
    /\ tables' = tables \cup {TableOf(vaddr)}

get_page ==
    IF TableOf(vaddr) \in tables
    THEN UNCHANGED <<placement_address, placed, tables>>
    ELSE /\ ikmalloc("table", PAGE_SIZE, TRUE)
         /\ tables' = tables \cup {TableOf(vaddr)}

\* alloc_frame on that page: PFN 0 stands for "not allocated".
Page(va) == va \div PAGE_SIZE
PFN(page) == IF page \in DOMAIN pte THEN pte[page] ELSE 0

alloc_frame(after) ==
    IF PFN(Page(vaddr)) # 0
    THEN pc' = after /\ UNCHANGED <<pte, next_frame>>
    ELSE IF next_frame = nframes
    THEN pc' = "panic" /\ UNCHANGED <<pte, next_frame>>
    ELSE /\ pte' = [p \in DOMAIN pte \cup {Page(vaddr)} |->
                      IF p = Page(vaddr) THEN next_frame ELSE pte[p]]
         /\ next_frame' = next_frame + 1
         /\ pc' = after

HEAP_END == KHEAP_START + KHEAP_INITIAL_SIZE

\* Mutant of map_heap_tables: the heap gets its frames first.
map_heap_first ==
    /\ pc = "heap_tables"
    /\ IF vaddr < HEAP_END
       THEN get_page /\ alloc_frame("heap_tables") /\ vaddr' = vaddr + PAGE_SIZE
       ELSE /\ vaddr' = 0 /\ pc' = "identity"
            /\ UNCHANGED <<placement_address, placed, tables, pte, next_frame>>
    /\ UNCHANGED <<initrd_end, pm_start, nframes, order>>

\* "Map the kernel heap": page tables only.
map_heap_tables ==
    /\ pc = "heap_tables"
    /\ IF vaddr < HEAP_END
       THEN get_page /\ vaddr' = vaddr + PAGE_SIZE /\ UNCHANGED pc
       ELSE /\ vaddr' = 0 /\ pc' = "identity"
            /\ UNCHANGED <<placement_address, placed, tables>>
    /\ UNCHANGED <<initrd_end, pm_start, nframes, order, pte, next_frame>>

\* Mutant of map_kernel: only the image and the initrd are mapped.
map_kernel_image ==
    /\ pc = "identity"
    /\ IF vaddr < initrd_end
       THEN get_page /\ alloc_frame("identity") /\ vaddr' = vaddr + PAGE_SIZE
       ELSE /\ pc' = "initrd"
            /\ UNCHANGED <<placement_address, placed, tables, vaddr, pte, next_frame>>
    /\ UNCHANGED <<initrd_end, pm_start, nframes, order>>

\* "Map the kernel identically": the bound moves with placement_address.
map_kernel ==
    /\ pc = "identity"
    /\ IF vaddr < placement_address + PAGE_SIZE
       THEN get_page /\ alloc_frame("identity") /\ vaddr' = vaddr + PAGE_SIZE
       ELSE /\ pc' = "initrd"
            /\ UNCHANGED <<placement_address, placed, tables, vaddr, pte, next_frame>>
    /\ UNCHANGED <<initrd_end, pm_start, nframes, order>>

\* "Map the initrd identically"; then placement_address is set anew.
map_initrd ==
    /\ pc = "initrd"
    /\ IF vaddr < initrd_end + PAGE_SIZE
       THEN get_page /\ alloc_frame("initrd") /\ vaddr' = vaddr + PAGE_SIZE
       ELSE /\ pc' = "heap_frames"
            /\ placement_address' = initrd_end + PAGE_SIZE
            /\ vaddr' = KHEAP_START
            /\ UNCHANGED <<placed, tables, pte, next_frame>>
    /\ UNCHANGED <<initrd_end, pm_start, nframes, order>>

\* "Map kheap pages to frames", and enable paging.
map_heap ==
    /\ pc = "heap_frames"
    /\ IF vaddr < HEAP_END
       THEN get_page /\ alloc_frame("heap_frames") /\ vaddr' = vaddr + PAGE_SIZE
       ELSE /\ pc' = "heap_init"
            /\ UNCHANGED <<placement_address, placed, tables, vaddr, pte, next_frame>>
    /\ UNCHANGED <<initrd_end, pm_start, nframes, order>>

\* heap_init: the heap and its first tree node, still by placement.
heap_init ==
    /\ pc = "heap_init"
    /\ placement_address' = placement_address + HEAP_BYTES + NODE_BYTES
    /\ placed' = placed \cup
          {Region("heap", placement_address, HEAP_BYTES),
           Region("root", placement_address + HEAP_BYTES, NODE_BYTES)}
    /\ pc' = "done"
    /\ UNCHANGED <<initrd_end, pm_start, nframes, order, vaddr, tables, pte, next_frame>>

Next ==
    \/ frame_initialize
    \/ create_kernel_pd
    \/ map_heap_tables
    \/ map_kernel
    \/ map_initrd
    \/ map_heap
    \/ heap_init

Spec == Init /\ [][Next]_vars

(***************************************************************************)
(* Properties.                                                             *)
(***************************************************************************)

\* vm_initialize: a page below the heap is mapped to the frame of the same
\* number, whatever order tables and frames are allocated in, and no frame
\* is mapped twice.
IdentityMapped ==
    /\ \A p \in DOMAIN pte : p < Page(KHEAP_START) => pte[p] = p
    /\ \A p, q \in DOMAIN pte : pte[p] = pte[q] => p = q

\* When paging is enabled, and from then on, everything that was placed by
\* its physical address (image, initrd, bitmaps, directory, page tables, the
\* heap and its root) is mapped.
PlacedIsMapped ==
    pc \in {"heap_init", "done"} =>
       \A r \in placed : \A a \in r.lo .. (r.hi - 1) : Page(a) \in DOMAIN pte

Apart(r, s) == r.hi <= s.lo \/ s.hi <= r.lo

\* Until the heap is created, the kernel image and all that pm.c and vm.c place
\* behind it lie apart, wherever the boot loader has put the initrd and
\* although pm_initialize counts neither the multiboot header of the image nor
\* the gap behind it.
EarlyPlacedDisjoint ==
    pc # "done" =>
       \A r, s \in placed :
          r # s /\ "initrd" \notin {r.what, s.what} => Apart(r, s)

\* Of the initrd only the part behind pm_start, by which pm_initialize misjudges
\* where it ends, is ever overwritten: nothing is placed over the rest, neither
\* before placement_address is set anew nor after.
InitrdKept ==
    \A r, s \in placed :
       r.what = "initrd" /\ s.what # "initrd" => Apart(r, s) \/ s.lo >= pm_start

\* pm_initialize ("Add the size of the initrd with 4KB boundary to memory
\* location"): what is placed leaves the whole initrd alone.
InitrdNeverOverwritten ==
    \A r, s \in placed : r.what = "initrd" /\ s.what # "initrd" => Apart(r, s)

\* Page tables that so many consecutive pages need, from a table's first on.
TablesFor(pages) == (pages + PT_ENTRIES - 1) \div PT_ENTRIES

\* "No free frames" only if the frames really do not reach: the heap and what
\* is mapped identically, up to the end of the initrd or of the page tables
\* behind the directory, need more.  The loop that maps the kernel places page
\* tables, which moves its own bound, and still does not run away.
PanicOnlyWhenFull ==
    pc = "panic" =>
       \/ nframes * PAGE_SIZE < initrd_end + 2 * PAGE_SIZE + KHEAP_INITIAL_SIZE
       \/ \E r \in placed :
             /\ r.what = "directory"
             /\ nframes * PAGE_SIZE < ALIGN(r.hi, PAGE_SIZE) + KHEAP_INITIAL_SIZE
                  + (TablesFor(nframes) + TablesFor(KHEAP_INITIAL_SIZE \div PAGE_SIZE) + 2)
                       * PAGE_SIZE

\* placement_address ("Address currently available after the end of the
\* kernel"): what is placed there overlaps nothing placed before.
PlacedDisjoint ==
    \A r, s \in placed : r # s /\ "initrd" \notin {r.what, s.what} => Apart(r, s)
=============================================================================
